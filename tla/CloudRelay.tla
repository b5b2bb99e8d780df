----------------------------- MODULE CloudRelay -----------------------------
(***************************************************************************)
(* The cloud relay: a request queued in the cloud (app_relay.py), its row  *)
(* in agent_tasks (db.py), the founder's retry and drain                   *)
(* (founder_cockpit.py), and the desktops that claim a row over HTTP, run  *)
(* it and post the answer (nodelang/cloud_relay.py).  The server commits   *)
(* whether or not the desktop still waits, so a request in flight may be   *)
(* lost, or be served after its sender gave up, died or stopped.           *)
(***************************************************************************)
EXTENDS Integers, Sequences, FiniteSets, SequencesExt

CONSTANTS
  Task,        \* ids that enqueue_agent_task hands out (uuid4)
  Desktop,     \* running applications, each with one relay worker
  KindOf,      \* the kind of each task
  Creator,     \* the account that queued it
  Account,     \* the account each desktop is signed in with
  Serves,      \* the kinds its worker names in a claim
  NULL,
  MaxRetries,  \* bound: how often the founder retries one task
  MaxStray     \* bound: requests in flight whose sender no longer waits

AppKinds == {"app", "app-execute", "host-read", "host-effect", "workshop-call",
             "session-call"}

ASSUME RelayAssumption ==
  /\ MaxRetries \in Nat /\ MaxStray \in Nat
  /\ NULL \notin Task \cup Desktop
  /\ KindOf \in [Task -> AppKinds]
  /\ Serves \in [Desktop -> SUBSET AppKinds]

VARIABLES
  row,      \* agent_tasks: status and claimed_by
  queue,    \* the ids in the order of (created_at, id)
  told,     \* the caller of each request: where it is, or what it heard
  worker,   \* the worker of each desktop: where it is, and with which task
  net,      \* HTTP requests the server has not finished with
  consent,  \* desktops whose account allows cloud publishing
  stop,     \* desktops whose _stop event is set
  ran,      \* how often each task was run on a desktop
  retried,  \* how often the founder put it back
  late      \* how many tasks a desktop ran after consent was withdrawn

vars == <<row, queue, told, worker, net, consent, stop, ran, retried, late>>

Row == [status : {"absent", "queued", "claimed", "done", "failed"},
        by : Desktop \cup {NULL}]
Told == {"unasked", "waiting", "expiring", "done", "refused", "offline", "unsettled"}
Worker == [at : {"idle", "claiming", "deciding", "posting", "exited"},
           task : Task \cup {NULL}]

\* A claim has selected a row or not; a result says how the run ended.  live
\* is FALSE once the sender no longer waits for the reply.
Claim == [kind : {"claim"}, from : Desktop, live : BOOLEAN,
          seen : Task \cup {NULL}]
Result == [kind : {"result"}, from : Desktop, live : BOOLEAN, task : Task,
           ok : BOOLEAN]

NoRow == [status |-> "absent", by |-> NULL]
Idle == [at |-> "idle", task |-> NULL]

Init ==
  /\ row = [t \in Task |-> NoRow]
  /\ queue = <<>>
  /\ told = [t \in Task |-> "unasked"]
  /\ worker = [d \in Desktop |-> Idle]
  /\ net = {}
  /\ consent = Desktop
  /\ stop = {}
  /\ ran = [t \in Task |-> 0]
  /\ retried = [t \in Task |-> 0]
  /\ late = [d \in Desktop |-> 0]

-----------------------------------------------------------------------------
(***************************************************************************)
(* The caller (app_relay).  created_at is a whole second and ids are       *)
(* random, so a new row may sort before one of the same second.            *)
(***************************************************************************)
Ask(t) ==
  /\ told[t] = "unasked"
  /\ told' = [told EXCEPT ![t] = "waiting"]
  /\ row' = [row EXCEPT ![t].status = "queued"]
  /\ \E i \in {Len(queue), Len(queue) + 1} \ {0} : queue' = InsertAt(queue, i, t)
  /\ UNCHANGED <<worker, net, consent, stop, ran, retried, late>>

\* wait_for reads a finished row; a result nobody wrote is a queue drained.
Answered(t) ==
  /\ told[t] = "waiting" /\ row[t].status \in {"done", "failed"}
  /\ told' = [told EXCEPT ![t] = IF row[t].status = "done" THEN "done" ELSE "refused"]
  /\ UNCHANGED <<row, queue, worker, net, consent, stop, ran, retried, late>>

\* The deadline passes over an unfinished row.  relay() says "not yet" and
\* leaves the row to a later desktop; the four calls go on to close it.  A
\* caller that leaves without a verdict is unsettled.
IsCall(t) == KindOf[t] \notin {"app", "app-execute"}
NoDeadline(t) == FALSE /\ UNCHANGED vars
Deadline(t) ==
  /\ told[t] = "waiting" /\ row[t].status \in {"queued", "claimed"}
  /\ told' = [told EXCEPT ![t] = IF IsCall(t) THEN "expiring" ELSE "unsettled"]
  /\ UNCHANGED <<row, queue, worker, net, consent, stop, ran, retried, late>>

\* expire_agent_task closes the row only if nobody claimed it meanwhile.
ClosableClaimed(t) == row[t].status \in {"queued", "claimed"}
Closable(t) == row[t].status = "queued"
Expire(t) ==
  /\ told[t] = "expiring"
  /\ told' = [told EXCEPT ![t] = IF Closable(t) THEN "offline" ELSE "unsettled"]
  /\ row' = [row EXCEPT ![t].status = IF Closable(t) THEN "failed" ELSE @]
  /\ UNCHANGED <<queue, worker, net, consent, stop, ran, retried, late>>

\* The cloud process ends under a caller; the row stays as it is.
CallerDies(t) ==
  /\ told[t] \in {"waiting", "expiring"}
  /\ told' = [told EXCEPT ![t] = "unsettled"]
  /\ UNCHANGED <<row, queue, worker, net, consent, stop, ran, retried, late>>

-----------------------------------------------------------------------------
\* The founder's cockpit: one failed task put back, or the queue closed.
RetryableAny(t) == row[t].status \in {"failed", "claimed"}
Retryable(t) == row[t].status = "failed"
Retry(t) ==
  /\ Retryable(t) /\ retried[t] < MaxRetries
  /\ row' = [row EXCEPT ![t] = [NoRow EXCEPT !.status = "queued"]]
  /\ retried' = [retried EXCEPT ![t] = @ + 1]
  /\ UNCHANGED <<queue, told, worker, net, consent, stop, ran, late>>

Drain ==
  /\ \E t \in Task : row[t].status = "queued"
  /\ row' = [t \in Task |-> [row[t] EXCEPT !.status = IF @ = "queued" THEN "failed" ELSE @]]
  /\ UNCHANGED <<queue, told, worker, net, consent, stop, ran, retried, late>>

-----------------------------------------------------------------------------
(***************************************************************************)
(* The server's side of a claim.  The first SELECT runs outside a          *)
(* transaction; a failed UPDATE has opened one, so that the second look of *)
(* the loop finds a row that cannot be taken away.                         *)
(***************************************************************************)
Known(d) == IF Serves[d] # {} THEN Serves[d] ELSE AppKinds \ {"workshop-call"}
Eligible(t, d) ==
  row[t].status = "queued" /\ KindOf[t] \in Known(d) /\ Creator[t] = Account[d]
\* The task a SELECT returns, if there is one.
Oldest(d) ==
  {queue[i] : i \in {i \in DOMAIN queue :
                       /\ Eligible(queue[i], d)
                       /\ \A j \in 1..(i - 1) : ~Eligible(queue[j], d)}}

\* The reply reaches a worker that still waits for it.
Reply(m, w) == worker' = [worker EXCEPT ![m.from] = IF m.live THEN w ELSE @]

Select(m) ==
  /\ m.kind = "claim" /\ m.seen = NULL
  /\ \/ /\ \E t \in Oldest(m.from) : net' = (net \ {m}) \cup {[m EXCEPT !.seen = t]}
        /\ UNCHANGED worker
     \/ Oldest(m.from) = {} /\ net' = net \ {m} /\ Reply(m, Idle)
  /\ UNCHANGED <<row, queue, told, consent, stop, ran, retried, late>>

\* UPDATE ... WHERE id = ? AND status = 'queued'
StillThere(t) == row[t].status # "absent"
StillQueued(t) == row[t].status = "queued"
Takeable(m) == IF StillQueued(m.seen) THEN {m.seen} ELSE Oldest(m.from)
ClaimedRunning(d) == [status |-> "running", by |-> d]
Claimed(d) == [status |-> "claimed", by |-> d]
Take(m) ==
  /\ m.kind = "claim" /\ m.seen # NULL
  /\ net' = net \ {m}
  /\ \/ \E t \in Takeable(m) :
          /\ row' = [row EXCEPT ![t] = Claimed(m.from)]
          /\ Reply(m, [at |-> "deciding", task |-> t])
     \/ Takeable(m) = {} /\ Reply(m, Idle) /\ UNCHANGED row
  /\ UNCHANGED <<queue, told, consent, stop, ran, retried, late>>

\* finish_agent_task; a row that is not claimed is a 409, an error to the worker.
Finishable(m) == row[m.task].status = "claimed"
Finish(m) ==
  /\ m.kind = "result"
  /\ net' = net \ {m}
  /\ row' = IF Finishable(m)
            THEN [row EXCEPT ![m.task].status = IF m.ok THEN "done" ELSE "failed"]
            ELSE row
  /\ Reply(m, Idle)
  /\ UNCHANGED <<queue, told, consent, stop, ran, retried, late>>

\* The request is lost, refused (401, 403) or rolled back.
LostFatally(m) ==
  /\ net' = net \ {m}
  /\ Reply(m, [Idle EXCEPT !.at = "exited"])
  /\ UNCHANGED <<row, queue, told, consent, stop, ran, retried, late>>
Lost(m) ==
  /\ net' = net \ {m}
  /\ Reply(m, Idle)
  /\ UNCHANGED <<row, queue, told, consent, stop, ran, retried, late>>

Serve(m) == Select(m) \/ Take(m) \/ Finish(m)

-----------------------------------------------------------------------------
(***************************************************************************)
(* The worker (CloudRelay.run_forever).  poll_once reads _stop, then the   *)
(* consent record, before it sends a claim, and neither again.             *)
(***************************************************************************)
MayClaimUnasked(d) == d \notin stop
MayClaim(d) == d \notin stop /\ d \in consent
Poll(d) ==
  /\ worker[d].at = "idle" /\ MayClaim(d)
  /\ worker' = [worker EXCEPT ![d].at = "claiming"]
  /\ net' = net \cup {[kind |-> "claim", from |-> d, live |-> TRUE, seen |-> NULL]}
  /\ UNCHANGED <<row, queue, told, consent, stop, ran, retried, late>>

\* Consent is gone: stop for good.
Halt(d) ==
  /\ worker[d].at = "idle" /\ d \notin stop \cup consent
  /\ stop' = stop \cup {d}
  /\ UNCHANGED <<row, queue, told, worker, net, consent, ran, retried, late>>

Exit(d) ==
  /\ worker[d].at = "idle" /\ d \in stop
  /\ worker' = [worker EXCEPT ![d].at = "exited"]
  /\ UNCHANGED <<row, queue, told, net, consent, stop, ran, retried, late>>

Ran(d) ==
  /\ ran' = [ran EXCEPT ![worker[d].task] = @ + 1]
  /\ late' = [late EXCEPT ![d] = IF d \in consent THEN @ ELSE @ + 1]

\* _hold_or_refuse and the answer.  A hold is ok, a refusal is not, and
\* neither runs the task; a run may raise.
Answer(d) ==
  /\ worker[d].at = "deciding"
  /\ Ran(d) \/ UNCHANGED <<ran, late>>
  /\ worker' = [worker EXCEPT ![d] = [Idle EXCEPT !.at = "posting"]]
  /\ \E ok \in BOOLEAN :
       net' = net \cup {[kind |-> "result", from |-> d, live |-> TRUE,
                        task |-> worker[d].task, ok |-> ok]}
  /\ UNCHANGED <<row, queue, told, consent, stop, retried>>

\* The requests in flight once d no longer waits for a reply.
Stray == {m \in net : ~m.live}
Abandoned(d) ==
  /\ \A m \in net : m.from = d /\ m.live => Cardinality(Stray) < MaxStray
  /\ net' = {[m EXCEPT !.live = @ /\ m.from # d] : m \in net}

\* urlopen times out; what it sent may still be served.  A result that was
\* posted in vain is not posted again.
GiveUp(d) ==
  /\ worker[d].at \in {"claiming", "posting"}
  /\ worker' = [worker EXCEPT ![d] = Idle]
  /\ Abandoned(d)
  /\ UNCHANGED <<row, queue, told, consent, stop, ran, retried, late>>

\* The application ends, perhaps in the middle of a task, and is started again
\* with a new worker.
Crash(d) ==
  /\ worker[d] # Idle \/ d \in stop
  /\ \/ UNCHANGED <<ran, late>>
     \/ /\ worker[d].at = "deciding"
        /\ Ran(d)
  /\ worker' = [worker EXCEPT ![d] = Idle]
  /\ stop' = stop \ {d}
  /\ Abandoned(d)
  /\ UNCHANGED <<row, queue, told, consent, retried>>

\* Settings > Account withdraws the consent; closing the application stops
\* the worker.
Withdraw(d) ==
  /\ d \in consent /\ consent' = consent \ {d}
  /\ UNCHANGED <<row, queue, told, worker, net, stop, ran, retried, late>>
RequestStop(d) ==
  /\ d \notin stop /\ stop' = stop \cup {d}
  /\ UNCHANGED <<row, queue, told, worker, net, consent, ran, retried, late>>

CallerStep(t) == Answered(t) \/ Deadline(t) \/ Expire(t)
WorkerStep(d) == Poll(d) \/ Halt(d) \/ Exit(d) \/ Answer(d)

Next ==
  \/ \E t \in Task : Ask(t) \/ CallerStep(t) \/ CallerDies(t) \/ Retry(t)
  \/ Drain
  \/ \E m \in net : Serve(m) \/ Lost(m)
  \/ \E d \in Desktop : WorkerStep(d) \/ GiveUp(d) \/ Crash(d) \/ Withdraw(d) \/ RequestStop(d)

Spec == Init /\ [][Next]_vars

(***************************************************************************)
(* Fairness: the cloud's callers and the workers are loops, urlopen has a  *)
(* timeout, and a claim that is tried again and again is served at last.   *)
(***************************************************************************)
FromLive(d) == {m \in net : m.from = d /\ m.live}
Fairness ==
  /\ \A t \in Task : WF_vars(CallerStep(t))
  /\ \A d \in Desktop : /\ WF_vars(WorkerStep(d))
                         /\ WF_vars(\E m \in FromLive(d) : Serve(m) \/ Lost(m))
                         /\ SF_vars(\E m \in FromLive(d) : Select(m))
                         /\ SF_vars(\E m \in FromLive(d) : Take(m))
FairSpec == Spec /\ Fairness
-----------------------------------------------------------------------------
\* Every variable has its type.
TypeOK ==
  /\ row \in [Task -> Row]
  /\ queue \in Seq(Task)
  /\ told \in [Task -> Told]
  /\ worker \in [Desktop -> Worker]
  /\ net \subseteq Claim \cup Result
  /\ consent \subseteq Desktop /\ stop \subseteq Desktop
  /\ ran \in [Task -> Nat] /\ retried \in [Task -> Nat]
  /\ late \in [Desktop -> Nat]

\* The requests that may still be run: queued, or in the hands of a worker
\* that has not decided on them.
Permit == {t \in Task : \/ row[t].status = "queued"
                        \/ \E d \in Desktop : worker[d].at = "deciding" /\ worker[d].task = t}

\* The caller between its last read and expire_agent_task is still waiting.
Heard == [t \in Task |-> IF told[t] = "expiring" THEN "waiting" ELSE told[t]]

Contract == INSTANCE RemoteCall WITH permit <- Permit, told <- Heard

\* Two desktops never run one permit, whatever was lost, retried or drained, and
\* a caller told "device offline, nothing was run" is right, then and later,
\* unless the founder puts its request back.
NothingRunTwice == Contract!AtMostOnce /\ Contract!OfflineIsTrue

\* The relay keeps the contract of RemoteCall: a permit is used at most once
\* and a caller told "offline" withdrew an unused one.
KeepsContract == Contract!Spec

\* The claim of a task is its worker's alone: a result in flight belongs to the
\* desktop the row names, so an answer never lands on another desktop's claim
\* although finish_agent_task does not compare claimed_by.
ResultOfClaimant ==
  \A m \in net : m.kind = "result" =>
    row[m.task].status = "claimed" /\ row[m.task].by = m.from

\* Withdrawn consent lets at most one more task run: the one whose claim was
\* on its way.
OneAfterWithdrawal == \A d \in Desktop : late[d] <= 1

\* A caller hears something, whatever becomes of its desktop.
CallerReturns == \A t \in Task : told[t] \in {"waiting", "expiring"}
                                   ~> told[t] \notin {"waiting", "expiring"}

\* A queued task leaves the queue while the desktops that may claim it are not
\* stopped, however often they crash and their claims are lost or orphaned.
Servers(t) == {d \in Desktop : KindOf[t] \in Known(d) /\ Creator[t] = Account[d]}
QueuedIsTaken ==
  \A t \in Task : row[t].status = "queued"
                    ~> (row[t].status # "queued" \/ Servers(t) \cap stop # {})
=============================================================================
