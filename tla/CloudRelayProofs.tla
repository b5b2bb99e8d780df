-------------------------- MODULE CloudRelayProofs --------------------------
(***************************************************************************)
(* Theorems about CloudRelay, for any number of tasks, desktops, retries   *)
(* and stray requests: the relay implements RemoteCall.                    *)
(***************************************************************************)
EXTENDS CloudRelay, SequenceTheorems, TLAPS

-----------------------------------------------------------------------------
(* The inductive invariant. *)

\* A worker decides on a row that names it as its claimant.
DecidesOnItsClaim ==
  \A d \in Desktop : worker[d].at = "deciding" =>
    worker[d].task \in Task /\ row[worker[d].task] = Claimed(d)

\* A request nobody made has no row.
UnaskedIsAbsent == \A t \in Task : told[t] = "unasked" => row[t].status = "absent"

\* A worker waits for its live request, and for one at a time.
LiveIsAwaited ==
  /\ \A m \in net : m.live =>
       worker[m.from].at = IF m.kind = "claim" THEN "claiming" ELSE "posting"
  /\ \A m, n \in net : m.live /\ n.live /\ m.from = n.from => m = n

\* A task has one result in flight, and none while a worker decides on it.
OneResult ==
  /\ \A m, n \in net :
       m.kind = "result" /\ n.kind = "result" /\ m.task = n.task => m = n
  /\ \A m \in net, d \in Desktop :
       m.kind = "result" /\ worker[d].at = "deciding" => worker[d].task # m.task

Shape == DecidesOnItsClaim /\ UnaskedIsAbsent /\ LiveIsAwaited /\ OneResult /\ ResultOfClaimant
IInv == TypeOK /\ Shape

-----------------------------------------------------------------------------
(* Types. *)

\* A new row takes its place in the queue.
LEMMA InsertType ==
  ASSUME NEW S, NEW s \in Seq(S), NEW e \in S, NEW i \in {Len(s), Len(s) + 1} \ {0}
  PROVE  InsertAt(s, i, e) \in Seq(S)
<1>1. Len(s) \in Nat /\ i \in Nat \ {0} /\ i <= Len(s) + 1
  BY LenProperties
<1>2. \A j \in 1..(i - 1) : s[j] \in S
  BY <1>1, ElementOfSeq
<1>3. \A j \in i..Len(s) : s[j] \in S
  BY <1>1, ElementOfSeq
<1>4. SubSeq(s, 1, i - 1) \in Seq(S)
  BY <1>1, <1>2, SubSeqProperties
<1>5. SubSeq(s, i, Len(s)) \in Seq(S)
  BY <1>1, <1>3, SubSeqProperties
<1>6. <<e>> \in Seq(S)
  OBVIOUS
<1> QED BY <1>4, <1>5, <1>6, ConcatProperties DEF InsertAt

\* What a SELECT returns is a queued task.
LEMMA OldestIsQueued ==
  ASSUME TypeOK, NEW d, NEW t \in Oldest(d)
  PROVE  t \in Task /\ row[t].status = "queued"
<1>1. PICK i \in DOMAIN queue : t = queue[i] /\ Eligible(queue[i], d)
  BY DEF Oldest
<1>2. queue \in Seq(Task)
  BY DEF TypeOK
<1>3. queue[i] \in Task
  BY <1>2, ElementOfSeq, LenProperties
<1> QED BY <1>1, <1>3 DEF Eligible

\* So is what a claim takes.
LEMMA TakeableIsQueued ==
  ASSUME TypeOK, NEW m \in net, m.kind = "claim", m.seen # NULL, NEW t \in Takeable(m)
  PROVE  t \in Task /\ row[t].status = "queued"
<1>1. m.seen \in Task
  BY DEF TypeOK, Claim, Result
<1> QED BY <1>1, OldestIsQueued DEF Takeable, StillQueued

\* A message has the fields of its kind.
LEMMA MessageType ==
  ASSUME TypeOK, NEW m \in net
  PROVE  /\ m.from \in Desktop /\ m.live \in BOOLEAN
         /\ m.kind \in {"claim", "result"}
         /\ m.kind = "claim" => m \in Claim
         /\ m.kind = "result" => m \in Result /\ m.task \in Task
<1>1. m \in Claim \cup Result
  BY DEF TypeOK
<1> QED BY <1>1 DEF Claim, Result

\* The caller's steps and the founder's move rows and verdicts.
LEMMA TypeOfCaller ==
  ASSUME TypeOK, NEW t \in Task,
         Ask(t) \/ CallerStep(t) \/ CallerDies(t) \/ Retry(t)
  PROVE  TypeOK'
<1>1. CASE Ask(t)
  <2>1. queue' \in Seq(Task)
    BY <1>1, InsertType DEF Ask, TypeOK
  <2>2. row' \in [Task -> Row] /\ told' \in [Task -> Told]
    BY <1>1 DEF Ask, TypeOK, Row, Told
  <2> QED BY <1>1, <2>1, <2>2 DEF Ask, TypeOK
<1>2. CASE Answered(t)
  BY <1>2 DEF Answered, TypeOK, Told
<1>3. CASE Deadline(t)
  BY <1>3 DEF Deadline, TypeOK, Told
<1>4. CASE Expire(t)
  BY <1>4 DEF Expire, TypeOK, Told, Row
<1>5. CASE CallerDies(t)
  BY <1>5 DEF CallerDies, TypeOK, Told
<1>6. CASE Retry(t)
  <2>1. [NoRow EXCEPT !.status = "queued"] \in Row
    BY DEF NoRow, Row
  <2> QED BY <1>6, <2>1 DEF Retry, TypeOK
<1> QED BY <1>1, <1>2, <1>3, <1>4, <1>5, <1>6 DEF CallerStep

LEMMA TypeOfDrain ==
  ASSUME TypeOK, Drain
  PROVE  TypeOK'
<1>1. row' \in [Task -> Row]
  BY DEF Drain, TypeOK, Row
<1> QED BY <1>1 DEF Drain, TypeOK

\* A reply leaves a worker where the server sends it, or where it was.
LEMMA TypeOfReply ==
  ASSUME TypeOK, NEW m \in net, NEW w \in Worker, Reply(m, w)
  PROVE  worker' \in [Desktop -> Worker]
BY DEF TypeOK, Reply

\* So do the server's steps on a request.
LEMMA TypeOfServer ==
  ASSUME TypeOK, NEW m \in net, Serve(m) \/ Lost(m)
  PROVE  TypeOK'
<1>1. Idle \in Worker
  BY DEF Idle, Worker
<1>2. CASE Select(m)
  <2>1. CASE Oldest(m.from) = {} /\ net' = net \ {m} /\ Reply(m, Idle)
    BY <1>1, <1>2, <2>1, TypeOfReply DEF Select, TypeOK
  <2>2. ASSUME NEW t \in Oldest(m.from), net' = (net \ {m}) \cup {[m EXCEPT !.seen = t]},
               UNCHANGED worker
        PROVE  TypeOK'
    <3>1. m \in Claim /\ t \in Task
      BY <1>2, MessageType, OldestIsQueued DEF Select
    <3>2. [m EXCEPT !.seen = t] \in Claim
      BY <3>1 DEF Claim
    <3> QED BY <1>2, <2>2, <3>2 DEF Select, TypeOK
  <2> QED BY <1>2, <2>1, <2>2 DEF Select
<1>3. CASE Take(m)
  <2>1. CASE Takeable(m) = {} /\ Reply(m, Idle) /\ UNCHANGED row
    BY <1>1, <1>3, <2>1, TypeOfReply DEF Take, TypeOK
  <2>2. ASSUME NEW t \in Takeable(m), row' = [row EXCEPT ![t] = Claimed(m.from)],
               Reply(m, [at |-> "deciding", task |-> t])
        PROVE  TypeOK'
    <3>1. t \in Task /\ m.from \in Desktop
      BY <1>3, TakeableIsQueued, MessageType DEF Take
    <3>2. [at |-> "deciding", task |-> t] \in Worker /\ Claimed(m.from) \in Row
      BY <3>1 DEF Worker, Row, Claimed
    <3>3. worker' \in [Desktop -> Worker]
      BY <2>2, <3>2, TypeOfReply
    <3>4. row' \in [Task -> Row]
      BY <2>2, <3>1, <3>2 DEF TypeOK
    <3> QED BY <1>3, <3>3, <3>4 DEF Take, TypeOK
  <2> QED BY <1>3, <2>1, <2>2 DEF Take
<1>4. CASE Finish(m)
  <2>1. m.task \in Task /\ row' \in [Task -> Row]
    BY <1>4, MessageType DEF Finish, TypeOK, Row
  <2> QED BY <1>1, <1>4, <2>1, TypeOfReply DEF Finish, TypeOK
<1>5. CASE Lost(m)
  BY <1>1, <1>5, TypeOfReply DEF Lost, TypeOK
<1> QED BY <1>2, <1>3, <1>4, <1>5 DEF Serve

\* A request whose sender no longer waits is a request.
LEMMA TypeOfAbandoned ==
  ASSUME TypeOK, NEW d \in Desktop, Abandoned(d)
  PROVE  net' \subseteq Claim \cup Result
<1> SUFFICES ASSUME NEW m \in net
             PROVE  [m EXCEPT !.live = @ /\ m.from # d] \in Claim \cup Result
  BY DEF Abandoned
<1>1. (m.live /\ m.from # d) \in BOOLEAN
  OBVIOUS
<1>2. m \in Claim \cup Result
  BY DEF TypeOK
<1> QED BY <1>1, <1>2 DEF Claim, Result

LEMMA TypeOfRan ==
  ASSUME TypeOK, NEW d \in Desktop, worker[d].task \in Task, Ran(d)
  PROVE  ran' \in [Task -> Nat] /\ late' \in [Desktop -> Nat]
BY DEF TypeOK, Ran

LEMMA TypeOfWorker ==
  ASSUME TypeOK, DecidesOnItsClaim, NEW d \in Desktop,
         WorkerStep(d) \/ GiveUp(d) \/ Crash(d) \/ Withdraw(d) \/ RequestStop(d)
  PROVE  TypeOK'
<1>1. Idle \in Worker /\ [Idle EXCEPT !.at = "posting"] \in Worker
  BY DEF Idle, Worker
<1>2. CASE Poll(d)
  <2>1. [kind |-> "claim", from |-> d, live |-> TRUE, seen |-> NULL] \in Claim
    BY DEF Claim
  <2>2. worker' \in [Desktop -> Worker]
    BY <1>2 DEF Poll, TypeOK, Worker
  <2> QED BY <1>2, <2>1, <2>2 DEF Poll, TypeOK
<1>3. CASE Halt(d)
  BY <1>3 DEF Halt, TypeOK
<1>4. CASE Exit(d)
  BY <1>4 DEF Exit, TypeOK, Worker
<1>5. CASE Answer(d)
  <2>1. worker[d].task \in Task
    BY <1>5 DEF Answer, DecidesOnItsClaim
  <2>2. ran' \in [Task -> Nat] /\ late' \in [Desktop -> Nat]
    BY <1>5, <2>1, TypeOfRan DEF Answer, TypeOK
  <2>3. \A ok \in BOOLEAN : [kind |-> "result", from |-> d, live |-> TRUE,
                            task |-> worker[d].task, ok |-> ok] \in Result
    BY <2>1 DEF Result
  <2>4. net' \subseteq Claim \cup Result
    BY <1>5, <2>3 DEF Answer, TypeOK
  <2>5. worker' \in [Desktop -> Worker]
    BY <1>1, <1>5 DEF Answer, TypeOK
  <2> QED BY <1>5, <2>2, <2>4, <2>5 DEF Answer, TypeOK
<1>6. CASE GiveUp(d)
  BY <1>1, <1>6, TypeOfAbandoned DEF GiveUp, TypeOK
<1>7. CASE Crash(d)
  <2>1. ran' \in [Task -> Nat] /\ late' \in [Desktop -> Nat]
    <3>1. CASE UNCHANGED <<ran, late>>
      BY <3>1 DEF TypeOK
    <3>2. CASE worker[d].at = "deciding" /\ Ran(d)
      BY <3>2, TypeOfRan DEF DecidesOnItsClaim
    <3> QED BY <1>7, <3>1, <3>2 DEF Crash
  <2>2. worker' \in [Desktop -> Worker]
    BY <1>1, <1>7 DEF Crash, TypeOK
  <2> QED BY <1>7, <2>1, <2>2, TypeOfAbandoned DEF Crash, TypeOK
<1>8. CASE Withdraw(d)
  BY <1>8 DEF Withdraw, TypeOK
<1>9. CASE RequestStop(d)
  BY <1>9 DEF RequestStop, TypeOK
<1> QED BY <1>2, <1>3, <1>4, <1>5, <1>6, <1>7, <1>8, <1>9 DEF WorkerStep

-----------------------------------------------------------------------------
(* The invariant. *)

\* Steps that leave the claimed rows, the workers and the requests alone.
LEMMA ClaimsKept ==
  ASSUME IInv, UNCHANGED <<worker, net>>,
         \A t \in Task : row[t].status = "claimed" => row'[t] = row[t]
  PROVE  DecidesOnItsClaim' /\ LiveIsAwaited' /\ OneResult' /\ ResultOfClaimant'
<1>1. DecidesOnItsClaim'
  BY DEF IInv, Shape, DecidesOnItsClaim, Claimed
<1>2. LiveIsAwaited' /\ OneResult'
  BY DEF IInv, Shape, LiveIsAwaited, OneResult
<1>3. ResultOfClaimant'
  BY MessageType DEF IInv, Shape, ResultOfClaimant
<1> QED BY <1>1, <1>2, <1>3

LEMMA ShapeOfCaller ==
  ASSUME IInv, NEW t \in Task,
         Ask(t) \/ CallerStep(t) \/ CallerDies(t) \/ Retry(t)
  PROVE  Shape'
<1> USE DEF IInv, Shape
<1>1. UNCHANGED <<worker, net>>
  BY DEF CallerStep, Ask, Answered, Deadline, Expire, CallerDies, Retry
<1>2. /\ row \in [Task -> Row] /\ told \in [Task -> Told]
      /\ told[t] = "unasked" => row[t].status = "absent"
  BY DEF TypeOK, UnaskedIsAbsent
<1>3. \A u \in Task : row[u].status = "claimed" => row'[u] = row[u]
  BY <1>2 DEF CallerStep, Ask, Answered, Deadline, Expire, Closable, CallerDies, Retry,
              Retryable, Row
<1>4. UnaskedIsAbsent'
  BY <1>2 DEF CallerStep, Ask, Answered, Deadline, Expire, Closable, CallerDies, Retry,
              Retryable, UnaskedIsAbsent, Row
<1> QED BY <1>1, <1>3, <1>4, ClaimsKept

LEMMA ShapeOfDrain ==
  ASSUME IInv, Drain
  PROVE  Shape'
<1> USE DEF IInv, Shape
<1>1. UNCHANGED <<worker, net, told>>
  BY DEF Drain
<1>2. \A u \in Task : row[u].status # "queued" => row'[u] = row[u]
  BY DEF Drain, TypeOK, Row
<1>3. UnaskedIsAbsent'
  BY <1>1, <1>2 DEF UnaskedIsAbsent
<1> QED BY <1>1, <1>2, <1>3, ClaimsKept

\* A reply to a worker that waits takes nothing out of its hands.
LEMMA ReplyReaches ==
  ASSUME IInv, NEW m \in net, NEW w, Reply(m, w)
  PROVE  /\ \A d \in Desktop : d # m.from => worker'[d] = worker[d]
         /\ worker'[m.from] = IF m.live THEN w ELSE worker[m.from]
         /\ m.live => worker[m.from].at # "deciding"
<1>1. m.from \in Desktop /\ m.live \in BOOLEAN /\ worker \in [Desktop -> Worker]
  BY MessageType DEF IInv, TypeOK
<1>2. m.live => worker[m.from].at # "deciding"
  BY DEF IInv, Shape, LiveIsAwaited
<1> QED BY <1>1, <1>2 DEF Reply

\* A reply, and the request gone.
LEMMA RequestGone ==
  ASSUME IInv, NEW m \in net, NEW w, Reply(m, w), net' = net \ {m}
  PROVE  LiveIsAwaited'
<1>1. \A n \in net' : n.live => n.from # m.from \/ ~m.live
  BY DEF IInv, Shape, LiveIsAwaited
<1>2. \A n \in net' : n.from \in Desktop
  BY MessageType DEF IInv
<1>3. \A n \in net' : n.live => worker'[n.from] = worker[n.from]
  BY <1>1, <1>2, ReplyReaches
<1> QED BY <1>3 DEF IInv, Shape, LiveIsAwaited

\* The steps that leave a worker idle.
LEMMA ShapeOfIdle ==
  ASSUME IInv, NEW m \in net, Reply(m, Idle), net' = net \ {m},
         UNCHANGED told,
         \A t \in Task : row'[t] # row[t] => m.kind = "result" /\ m.task = t /\ row'[t].status # "absent"
  PROVE  Shape'
<1> USE DEF IInv, Shape
<1>1. \A d \in Desktop : worker'[d].at = "deciding" =>
                          worker'[d] = worker[d] /\ worker[d].at = "deciding"
  BY ReplyReaches DEF Idle
<1>2. DecidesOnItsClaim'
  <2> SUFFICES ASSUME NEW d \in Desktop, worker'[d].at = "deciding"
               PROVE  worker'[d].task \in Task /\ row'[worker'[d].task] = Claimed(d)
    BY DEF DecidesOnItsClaim
  <2>1. worker'[d] = worker[d] /\ worker[d].at = "deciding"
    BY <1>1
  <2>2. worker[d].task \in Task /\ row[worker[d].task] = Claimed(d)
    BY <2>1 DEF DecidesOnItsClaim
  <2>3. m.kind = "result" => worker[d].task # m.task
    BY <2>1 DEF OneResult
  <2> QED BY <2>1, <2>2, <2>3
<1>3. UnaskedIsAbsent'
  <2> SUFFICES ASSUME NEW t \in Task, told[t] = "unasked"
               PROVE  row'[t].status = "absent"
    BY DEF UnaskedIsAbsent
  <2>1. row[t].status = "absent"
    BY DEF UnaskedIsAbsent
  <2>2. ~(m.kind = "result" /\ m.task = t)
    BY <2>1 DEF ResultOfClaimant
  <2> QED BY <2>1, <2>2
<1>4. LiveIsAwaited'
  BY RequestGone
<1>5. OneResult'
  BY <1>1 DEF OneResult
<1>6. ResultOfClaimant'
  <2> SUFFICES ASSUME NEW n \in net, n # m, n.kind = "result"
               PROVE  row'[n.task].status = "claimed" /\ row'[n.task].by = n.from
    BY DEF ResultOfClaimant
  <2>1. n.task \in Task
    BY MessageType
  <2>2. ~(m.kind = "result" /\ m.task = n.task)
    BY DEF OneResult
  <2> QED BY <2>1, <2>2 DEF ResultOfClaimant
<1> QED BY <1>2, <1>3, <1>4, <1>5, <1>6

LEMMA ShapeOfSelect ==
  ASSUME IInv, NEW m \in net, Select(m)
  PROVE  Shape'
<1> USE DEF IInv, Shape
<1>1. CASE Oldest(m.from) = {} /\ net' = net \ {m} /\ Reply(m, Idle)
  BY <1>1, ShapeOfIdle DEF Select
<1>2. ASSUME NEW t \in Oldest(m.from), net' = (net \ {m}) \cup {[m EXCEPT !.seen = t]},
             UNCHANGED worker
      PROVE  Shape'
  <2> DEFINE n == [m EXCEPT !.seen = t]
  <2>1. m \in Claim /\ n.kind = "claim" /\ n.from = m.from /\ n.live = m.live
    BY MessageType DEF Select, Claim
  <2>2. m.kind = "claim"
    BY DEF Select
  <2> HIDE DEF n
  <2>3. net' = (net \ {m}) \cup {n}
    BY <1>2 DEF n
  <2>4. UNCHANGED <<row, told>>
    BY DEF Select
  <2>5. DecidesOnItsClaim' /\ UnaskedIsAbsent'
    BY <1>2, <2>4 DEF DecidesOnItsClaim, UnaskedIsAbsent
  <2>6. LiveIsAwaited'
    BY <1>2, <2>1, <2>2, <2>3 DEF LiveIsAwaited
  <2>7. OneResult' /\ ResultOfClaimant'
    BY <1>2, <2>1, <2>3, <2>4 DEF OneResult, ResultOfClaimant
  <2> QED BY <2>5, <2>6, <2>7
<1> QED BY <1>1, <1>2 DEF Select

LEMMA ShapeOfTake ==
  ASSUME IInv, NEW m \in net, Take(m)
  PROVE  Shape'
<1> USE DEF IInv, Shape
<1>1. CASE Takeable(m) = {} /\ Reply(m, Idle) /\ UNCHANGED row
  BY <1>1, ShapeOfIdle DEF Take
<1>2. ASSUME NEW t \in Takeable(m), row' = [row EXCEPT ![t] = Claimed(m.from)],
             Reply(m, [at |-> "deciding", task |-> t])
      PROVE  Shape'
  <2> DEFINE w == [at |-> "deciding", task |-> t]
  <2>1. t \in Task /\ row[t].status = "queued" /\ m.from \in Desktop
    BY TakeableIsQueued, MessageType DEF Take
  <2>2. net' = net \ {m} /\ UNCHANGED told
    BY DEF Take
  <2>3. row'[t] = Claimed(m.from) /\ \A u \in Task : u # t => row'[u] = row[u]
    BY <1>2, <2>1 DEF TypeOK
  <2>4. w.at = "deciding" /\ w.task = t
    OBVIOUS
  <2> HIDE DEF w
  <2>5. \A d \in Desktop : worker'[d] = worker[d] \/ (d = m.from /\ worker'[d] = w)
    BY <1>2, ReplyReaches DEF w
  <2>6. DecidesOnItsClaim'
    <3> SUFFICES ASSUME NEW d \in Desktop, worker'[d].at = "deciding"
                 PROVE  worker'[d].task \in Task /\ row'[worker'[d].task] = Claimed(d)
      BY DEF DecidesOnItsClaim
    <3>1. CASE worker'[d] = worker[d]
      <4>1. worker[d].task \in Task /\ row[worker[d].task] = Claimed(d)
        BY <3>1 DEF DecidesOnItsClaim
      <4>2. worker[d].task # t
        BY <2>1, <4>1 DEF Claimed
      <4> QED BY <2>3, <3>1, <4>1, <4>2
    <3>2. CASE d = m.from /\ worker'[d] = w
      BY <2>1, <2>3, <2>4, <3>2
    <3> QED BY <2>5, <3>1, <3>2
  <2>7. UnaskedIsAbsent'
    <3>1. told[t] # "unasked"
      BY <2>1 DEF UnaskedIsAbsent
    <3> QED BY <2>2, <2>3, <3>1 DEF UnaskedIsAbsent
  <2>8. LiveIsAwaited'
    BY <1>2, <2>2, RequestGone
  <2>9. \A n \in net : n.kind = "result" => n.task \in Task /\ n.task # t
    BY <2>1, MessageType DEF ResultOfClaimant
  <2>10. OneResult'
    BY <2>2, <2>4, <2>5, <2>9 DEF OneResult
  <2>11. ResultOfClaimant'
    BY <2>2, <2>3, <2>9 DEF ResultOfClaimant
  <2> QED BY <2>6, <2>7, <2>8, <2>10, <2>11
<1> QED BY <1>1, <1>2 DEF Take

LEMMA ShapeOfFinish ==
  ASSUME IInv, NEW m \in net, Finish(m) \/ Lost(m)
  PROVE  Shape'
<1>1. CASE Lost(m)
  BY <1>1, ShapeOfIdle DEF Lost
<1>2. CASE Finish(m)
  <2>1. m.task \in Task /\ row \in [Task -> Row]
    BY <1>2, MessageType DEF Finish, IInv, TypeOK
  <2>2. \A t \in Task : row'[t] # row[t] =>
           m.kind = "result" /\ m.task = t /\ row'[t].status # "absent"
    BY <1>2, <2>1 DEF Finish, Row
  <2> QED BY <1>2, <2>2, ShapeOfIdle DEF Finish
<1> QED BY <1>1, <1>2

\* The requests of d lose their reader; nothing else about them changes.
LEMMA AbandonedShape ==
  ASSUME IInv, NEW d \in Desktop, Abandoned(d), UNCHANGED <<row, told>>,
         worker' = [worker EXCEPT ![d] = Idle]
  PROVE  Shape'
<1> USE DEF IInv, Shape
<1>1. /\ \A e \in Desktop : e # d => worker'[e] = worker[e]
      /\ worker'[d].at = "idle"
  BY DEF TypeOK, Idle
<1> DEFINE Left(m) == [m EXCEPT !.live = @ /\ m.from # d]
<1>2. \A m \in net :
        /\ Left(m).kind = m.kind /\ Left(m).from = m.from /\ m.from \in Desktop
        /\ Left(m).live => m.from # d /\ Left(m) = m
        /\ m.kind = "result" => Left(m).task = m.task
  <2> SUFFICES ASSUME NEW m \in net
               PROVE  /\ Left(m).kind = m.kind /\ Left(m).from = m.from /\ m.from \in Desktop
                      /\ Left(m).live => m.from # d /\ Left(m) = m
                      /\ m.kind = "result" => Left(m).task = m.task
    OBVIOUS
  <2>1. m \in Claim \cup Result
    BY DEF TypeOK
  <2> QED BY <2>1 DEF Claim, Result
<1>3. net' = {Left(m) : m \in net}
  BY DEF Abandoned
<1> HIDE DEF Left
<1>4. DecidesOnItsClaim' /\ UnaskedIsAbsent'
  BY <1>1 DEF DecidesOnItsClaim, UnaskedIsAbsent
<1>5. LiveIsAwaited'
  <2>1. \A n \in net' : n.from \in Desktop /\ (n.live => n \in net /\ n.from # d)
    BY <1>2, <1>3
  <2> QED BY <1>1, <2>1 DEF LiveIsAwaited
<1>6. OneResult'
  <2>1. ASSUME NEW m \in net', NEW n \in net', m.kind = "result", n.kind = "result", m.task = n.task
        PROVE  m = n
    <3>1. PICK k \in net, l \in net : m = Left(k) /\ n = Left(l)
      BY <1>3
    <3>2. k = l
      BY <1>2, <2>1, <3>1 DEF OneResult
    <3> QED BY <3>1, <3>2
  <2>2. ASSUME NEW m \in net', NEW e \in Desktop, m.kind = "result", worker'[e].at = "deciding"
        PROVE  worker'[e].task # m.task
    <3>1. PICK k \in net : m = Left(k)
      BY <1>3
    <3>2. worker'[e] = worker[e]
      BY <1>1, <2>2
    <3> QED BY <1>2, <2>2, <3>1, <3>2 DEF OneResult
  <2> QED BY <2>1, <2>2 DEF OneResult
<1>7. ResultOfClaimant'
  <2> SUFFICES ASSUME NEW m \in net, Left(m).kind = "result"
               PROVE  row[Left(m).task].status = "claimed" /\ row[Left(m).task].by = Left(m).from
    BY <1>3 DEF ResultOfClaimant
  <2> QED BY <1>2 DEF ResultOfClaimant
<1> QED BY <1>4, <1>5, <1>6, <1>7

\* A worker that is idle or decides has nothing live in flight.
LEMMA NoneLive ==
  ASSUME IInv, NEW d \in Desktop, worker[d].at \in {"idle", "deciding", "exited"}
  PROVE  \A m \in net : m.from = d => ~m.live
BY DEF IInv, Shape, LiveIsAwaited

LEMMA ShapeOfPoll ==
  ASSUME IInv, NEW d \in Desktop, Poll(d)
  PROVE  Shape'
<1> USE DEF IInv, Shape
<1> DEFINE n == [kind |-> "claim", from |-> d, live |-> TRUE, seen |-> NULL]
<1>1. n.kind = "claim" /\ n.from = d /\ n.live
  OBVIOUS
<1> HIDE DEF n
<1>2. net' = net \cup {n} /\ UNCHANGED <<row, told>> /\ worker[d].at = "idle"
  BY DEF Poll, n
<1>3. worker'[d].at = "claiming" /\ \A e \in Desktop : e # d => worker'[e] = worker[e]
  BY DEF Poll, TypeOK, Worker
<1>4. \A m \in net : m.from = d => ~m.live
  BY <1>2, NoneLive
<1>5. \A m \in net : m.from \in Desktop
  BY MessageType
<1>6. DecidesOnItsClaim' /\ UnaskedIsAbsent'
  BY <1>2, <1>3 DEF DecidesOnItsClaim, UnaskedIsAbsent
<1>7. LiveIsAwaited'
  BY <1>1, <1>2, <1>3, <1>4, <1>5 DEF LiveIsAwaited
<1>8. OneResult' /\ ResultOfClaimant'
  BY <1>1, <1>2, <1>3 DEF OneResult, ResultOfClaimant
<1> QED BY <1>6, <1>7, <1>8

LEMMA ShapeOfAnswer ==
  ASSUME IInv, NEW d \in Desktop, Answer(d)
  PROVE  Shape'
<1> USE DEF IInv, Shape
<1>1. PICK ok \in BOOLEAN : net' = net \cup {[kind |-> "result", from |-> d, live |-> TRUE,
                                            task |-> worker[d].task, ok |-> ok]}
  BY DEF Answer
<1> DEFINE n == [kind |-> "result", from |-> d, live |-> TRUE, task |-> worker[d].task, ok |-> ok]
<1>2. n.kind = "result" /\ n.from = d /\ n.live /\ n.task = worker[d].task
  OBVIOUS
<1> HIDE DEF n
<1>3. net' = net \cup {n} /\ UNCHANGED <<row, told>> /\ worker[d].at = "deciding"
  BY <1>1 DEF Answer, n
<1>4. worker'[d].at = "posting" /\ \A e \in Desktop : e # d => worker'[e] = worker[e]
  BY DEF Answer, TypeOK, Idle
<1>5. \A m \in net : m.from \in Desktop /\ (m.from = d => ~m.live)
  BY <1>3, NoneLive, MessageType
<1>6. /\ worker[d].task \in Task /\ row[worker[d].task] = Claimed(d)
      /\ \A m \in net : m.kind = "result" => m.task # worker[d].task
      /\ \A e \in Desktop : worker[e].at = "deciding" /\ e # d => worker[e].task # worker[d].task
  <2>1. \A e \in Desktop : e # d => Claimed(e) # Claimed(d)
    BY DEF Claimed
  <2>2. \A e \in Desktop : worker[e].at = "deciding" =>
                            worker[e].task \in Task /\ row[worker[e].task] = Claimed(e)
    BY DEF DecidesOnItsClaim
  <2>3. \A m \in net : m.kind = "result" => m.task # worker[d].task
    BY <1>3 DEF OneResult
  <2> QED BY <1>3, <2>1, <2>2, <2>3
<1>7. DecidesOnItsClaim' /\ UnaskedIsAbsent'
  BY <1>3, <1>4 DEF DecidesOnItsClaim, UnaskedIsAbsent
<1>8. LiveIsAwaited'
  BY <1>2, <1>3, <1>4, <1>5 DEF LiveIsAwaited
<1>9. OneResult'
  BY <1>2, <1>3, <1>4, <1>6 DEF OneResult
<1>10. ResultOfClaimant'
  BY <1>2, <1>3, <1>6 DEF ResultOfClaimant, Claimed
<1> QED BY <1>7, <1>8, <1>9, <1>10

LEMMA ShapeOfWorker ==
  ASSUME IInv, NEW d \in Desktop,
         WorkerStep(d) \/ GiveUp(d) \/ Crash(d) \/ Withdraw(d) \/ RequestStop(d)
  PROVE  Shape'
<1>1. CASE Halt(d) \/ Withdraw(d) \/ RequestStop(d)
  <2>1. UNCHANGED <<row, told, worker, net>>
    BY <1>1 DEF Halt, Withdraw, RequestStop
  <2> QED BY <2>1, ClaimsKept DEF IInv, Shape, UnaskedIsAbsent
<1>2. CASE Exit(d)
  <2> USE DEF IInv, Shape
  <2>1. /\ worker[d].at = "idle" /\ UNCHANGED <<row, told, net>>
        /\ worker'[d].at = "exited" /\ \A e \in Desktop : e # d => worker'[e] = worker[e]
    BY <1>2 DEF Exit, TypeOK, Worker
  <2>2. \A m \in net : m.from \in Desktop /\ (m.from = d => ~m.live)
    BY <2>1, NoneLive, MessageType
  <2>3. DecidesOnItsClaim' /\ UnaskedIsAbsent' /\ LiveIsAwaited'
    BY <2>1, <2>2 DEF DecidesOnItsClaim, UnaskedIsAbsent, LiveIsAwaited
  <2>4. OneResult' /\ ResultOfClaimant'
    BY <2>1 DEF OneResult, ResultOfClaimant
  <2> QED BY <2>3, <2>4
<1>3. CASE GiveUp(d)
  BY <1>3, AbandonedShape DEF GiveUp
<1>4. CASE Crash(d)
  BY <1>4, AbandonedShape DEF Crash
<1> QED BY <1>1, <1>2, <1>3, <1>4, ShapeOfPoll, ShapeOfAnswer DEF WorkerStep

\* The invariant holds at the start, and every step keeps it.
LEMMA InitIInv == Init => IInv
<1> SUFFICES ASSUME Init PROVE IInv
  OBVIOUS
<1>1. TypeOK
  BY DEF Init, TypeOK, NoRow, Idle, Row, Told, Worker
<1>2. Shape
  BY DEF Init, Shape, DecidesOnItsClaim, UnaskedIsAbsent, LiveIsAwaited, OneResult,
         ResultOfClaimant, NoRow, Idle
<1> QED BY <1>1, <1>2 DEF IInv

LEMMA NextIInv == IInv /\ [Next]_vars => IInv'
<1> SUFFICES ASSUME IInv, [Next]_vars PROVE IInv'
  OBVIOUS
<1>1. CASE UNCHANGED vars
  BY <1>1 DEF vars, IInv, TypeOK, Shape, DecidesOnItsClaim, UnaskedIsAbsent, LiveIsAwaited,
              OneResult, ResultOfClaimant
<1>2. ASSUME NEW t \in Task, Ask(t) \/ CallerStep(t) \/ CallerDies(t) \/ Retry(t)
      PROVE  IInv'
  BY <1>2, TypeOfCaller, ShapeOfCaller DEF IInv
<1>3. CASE Drain
  BY <1>3, TypeOfDrain, ShapeOfDrain DEF IInv
<1>4. ASSUME NEW m \in net, Serve(m) \/ Lost(m)
      PROVE  IInv'
  BY <1>4, TypeOfServer, ShapeOfSelect, ShapeOfTake, ShapeOfFinish DEF IInv, Serve
<1>5. ASSUME NEW d \in Desktop,
             WorkerStep(d) \/ GiveUp(d) \/ Crash(d) \/ Withdraw(d) \/ RequestStop(d)
      PROVE  IInv'
  BY <1>5, TypeOfWorker, ShapeOfWorker DEF IInv, Shape
<1> QED BY <1>1, <1>2, <1>3, <1>4, <1>5 DEF Next

\* No variable ever leaves its type, whatever requests are lost or served late.
THEOREM TypeCorrect == Spec => []TypeOK
<1>1. IInv => TypeOK
  BY DEF IInv
<1> QED BY <1>1, InitIInv, NextIInv, PTL DEF Spec

\* finish_agent_task need not compare claimed_by: a result in flight always
\* belongs to the desktop the row names.
THEOREM AnswersLandOnTheirClaim == Spec => []ResultOfClaimant
<1>1. IInv => ResultOfClaimant
  BY DEF IInv, Shape
<1> QED BY <1>1, InitIInv, NextIInv, PTL DEF Spec

-----------------------------------------------------------------------------
(* Withdrawn consent. *)

\* What a worker does not decide on has not been run late: a claim is only
\* sent under consent.
LateOnce ==
  \A d \in Desktop :
    /\ late[d] <= 1
    /\ d \in consent \/ worker[d].at \in {"claiming", "deciding"} => late[d] = 0

LEMMA LateOfServer ==
  ASSUME IInv, LateOnce, NEW m \in net, Serve(m) \/ Lost(m)
  PROVE  LateOnce'
<1>1. UNCHANGED <<consent, late>>
  BY DEF Serve, Select, Take, Finish, Lost
<1>2. ASSUME NEW d \in Desktop, worker'[d].at \in {"claiming", "deciding"}
      PROVE  worker[d].at \in {"claiming", "deciding"}
  <2>1. CASE UNCHANGED worker
    BY <1>2, <2>1
  <2>2. CASE Reply(m, Idle)
    BY <1>2, <2>2, ReplyReaches DEF Idle
  <2>3. CASE m.kind = "claim" /\ \E w : Reply(m, w)
    <3>1. m.live => worker[m.from].at = "claiming"
      BY <2>3 DEF IInv, Shape, LiveIsAwaited
    <3> QED BY <1>2, <2>3, <3>1, ReplyReaches
  <2> QED BY <2>1, <2>2, <2>3 DEF Serve, Select, Take, Finish, Lost
<1> QED BY <1>1, <1>2 DEF LateOnce

LEMMA LateOfWorker ==
  ASSUME IInv, LateOnce, NEW d \in Desktop,
         WorkerStep(d) \/ GiveUp(d) \/ Crash(d) \/ Withdraw(d) \/ RequestStop(d)
  PROVE  LateOnce'
<1> USE DEF LateOnce
<1>1. late \in [Desktop -> Nat] /\ worker \in [Desktop -> Worker]
  BY DEF IInv, TypeOK
<1>2. CASE Poll(d)
  BY <1>1, <1>2 DEF Poll, MayClaim, Worker
<1>3. CASE Halt(d) \/ Withdraw(d) \/ RequestStop(d)
  BY <1>3 DEF Halt, Withdraw, RequestStop
<1>4. CASE Exit(d)
  BY <1>1, <1>4 DEF Exit, Worker
<1>5. CASE GiveUp(d)
  BY <1>1, <1>5 DEF GiveUp, Idle
<1>6. ASSUME worker'[d].at \notin {"claiming", "deciding"}, UNCHANGED consent,
             \A e \in Desktop : e # d => worker'[e] = worker[e],
             UNCHANGED <<ran, late>> \/ (worker[d].at = "deciding" /\ Ran(d))
      PROVE  LateOnce'
  BY <1>1, <1>6 DEF Ran
<1>7. CASE Answer(d)
  <2>1. worker'[d].at = "posting" /\ \A e \in Desktop : e # d => worker'[e] = worker[e]
    BY <1>1, <1>7 DEF Answer, Idle
  <2> QED BY <1>6, <1>7, <2>1 DEF Answer
<1>8. CASE Crash(d)
  <2>1. worker'[d].at = "idle" /\ \A e \in Desktop : e # d => worker'[e] = worker[e]
    BY <1>1, <1>8 DEF Crash, Idle
  <2> QED BY <1>6, <1>8, <2>1 DEF Crash
<1> QED BY <1>2, <1>3, <1>4, <1>5, <1>7, <1>8 DEF WorkerStep

\* A desktop whose account withdrew its consent runs at most the one task whose
\* claim was on its way: poll_once asks for consent once, before the claim.
THEOREM ConsentIsKept == Spec => []OneAfterWithdrawal
<1>1. Init => LateOnce
  BY DEF Init, LateOnce, Idle
<1>2. IInv /\ LateOnce /\ [Next]_vars => LateOnce'
  <2> SUFFICES ASSUME IInv, LateOnce, [Next]_vars PROVE LateOnce'
    OBVIOUS
  <2>1. CASE UNCHANGED <<worker, consent, late>>
    BY <2>1 DEF LateOnce
  <2>2. CASE \E t \in Task : Ask(t) \/ CallerStep(t) \/ CallerDies(t) \/ Retry(t)
    BY <2>1, <2>2 DEF Ask, CallerStep, Answered, Deadline, Expire, CallerDies, Retry
  <2> QED BY <2>1, <2>2, LateOfServer, LateOfWorker DEF Next, Drain, vars
<1>3. LateOnce => OneAfterWithdrawal
  BY DEF LateOnce, OneAfterWithdrawal
<1> QED BY <1>1, <1>2, <1>3, InitIInv, NextIInv, PTL DEF Spec

-----------------------------------------------------------------------------
(* The refinement: every step is a step of RemoteCall or changes none of its *)
(* variables.                                                                *)

\* One worker holds a task in its hands, and its row is neither queued nor
\* finished.
LEMMA OneDecides ==
  ASSUME IInv, NEW d \in Desktop, worker[d].at = "deciding"
  PROVE  /\ worker[d].task \in Task /\ row[worker[d].task].status = "claimed"
         /\ \A e \in Desktop : worker[e].at = "deciding" /\ worker[e].task = worker[d].task
                                 => e = d
<1>1. \A e \in Desktop : worker[e].at = "deciding" =>
        worker[e].task \in Task /\ row[worker[e].task] = Claimed(e)
  BY DEF IInv, Shape, DecidesOnItsClaim
<1>2. \A e \in Desktop : Claimed(e).status = "claimed" /\ Claimed(e).by = e
  BY DEF Claimed
<1> QED BY <1>1, <1>2

\* A row nobody claimed is in nobody's hands.
LEMMA NotHeld ==
  ASSUME IInv, NEW t \in Task, row[t].status # "claimed"
  PROVE  t \in Permit <=> row[t].status = "queued"
BY OneDecides DEF Permit

\* Steps that neither queue a task, nor close a queued one, nor move one in or
\* out of a worker's hands.
LEMMA PermitKept ==
  ASSUME \A t \in Task : row'[t].status = "queued" <=> row[t].status = "queued",
         \A d \in Desktop : worker'[d].at = "deciding" \/ worker[d].at = "deciding"
                              => worker'[d] = worker[d]
  PROVE  Permit' = Permit
BY DEF Permit

\* A worker lets go of its task.
LEMMA PermitDropped ==
  ASSUME IInv, NEW d \in Desktop, worker[d].at = "deciding", UNCHANGED row,
         worker'[d].at # "deciding", \A e \in Desktop : e # d => worker'[e] = worker[e]
  PROVE  worker[d].task \in Permit /\ Permit' = Permit \ {worker[d].task}
<1>1. worker[d].task \in Permit
  BY OneDecides DEF Permit
<1>2. \A t \in Permit' : t \in Permit /\ t # worker[d].task
  BY OneDecides DEF Permit
<1>3. \A t \in Permit : t # worker[d].task => t \in Permit'
  BY DEF Permit
<1> QED BY <1>1, <1>2, <1>3

\* A caller between two steps hears nothing new but its own verdict.
LEMMA HeardSet ==
  ASSUME TypeOK, NEW t \in Task, NEW o, told' = [told EXCEPT ![t] = o]
  PROVE  Heard' = [Heard EXCEPT ![t] = IF o = "expiring" THEN "waiting" ELSE o]
BY DEF TypeOK, Heard

LEMMA CallerRefines ==
  ASSUME IInv, NEW t \in Task,
         Ask(t) \/ CallerStep(t) \/ CallerDies(t) \/ Retry(t)
  PROVE  [Contract!Next]_(Contract!vars)
<1>1. TypeOK /\ row \in [Task -> Row] /\ told \in [Task -> Told]
  BY DEF IInv, TypeOK
<1>2. \A u \in Task : Heard[u] = IF told[u] = "expiring" THEN "waiting" ELSE told[u]
  BY DEF Heard
<1>3. CASE Ask(t)
  <2>1. row' = [row EXCEPT ![t].status = "queued"] /\ UNCHANGED worker
    BY <1>3 DEF Ask
  <2>2. Permit' = Permit \cup {t}
    BY <1>1, <2>1 DEF Permit, Row
  <2>3. Heard' = [Heard EXCEPT ![t] = "waiting"] /\ Heard[t] = "unasked"
    BY <1>1, <1>2, <1>3, HeardSet DEF Ask
  <2>4. Contract!Ask(t)
    BY <1>3, <2>2, <2>3 DEF Ask, Contract!Ask
  <2> QED BY <2>4 DEF Contract!Next
<1>4. ASSUME NEW o \in Contract!Outcome, Heard[t] = "waiting", told' = [told EXCEPT ![t] = o],
             UNCHANGED <<ran, retried>>,
             \/ o \in {"done", "refused"} /\ t \notin Permit /\ UNCHANGED Permit
             \/ o = "unsettled" /\ UNCHANGED Permit
             \/ o = "offline" /\ t \in Permit /\ Permit' = Permit \ {t}
      PROVE  Contract!Next
  <2>1. Heard' = [Heard EXCEPT ![t] = o]
    BY <1>1, <1>4, HeardSet DEF Contract!Outcome
  <2>2. Contract!Tell(t, o)
    BY <1>4, <2>1 DEF Contract!Tell
  <2> QED BY <2>2 DEF Contract!Next
<1>5. {"done", "refused", "offline", "unsettled"} = Contract!Outcome
  BY DEF Contract!Outcome
<1>6. CASE Answered(t)
  <2>1. t \notin Permit
    BY <1>6, NotHeld DEF Answered
  <2>2. UNCHANGED Permit
    BY <1>6 DEF Answered, Permit
  <2> QED BY <1>2, <1>4, <1>5, <1>6, <2>1, <2>2 DEF Answered
<1>7. CASE Deadline(t)
  <2>1. UNCHANGED Permit
    BY <1>7 DEF Deadline, Permit
  <2>2. CASE IsCall(t)
    <3>1. Heard' = [Heard EXCEPT ![t] = "waiting"] /\ Heard[t] = "waiting"
      BY <1>1, <1>2, <1>7, <2>2, HeardSet DEF Deadline
    <3>2. UNCHANGED Heard
      BY <3>1 DEF Heard
    <3> QED BY <1>7, <2>1, <3>2 DEF Deadline, Contract!vars
  <2>3. CASE ~IsCall(t)
    BY <1>2, <1>4, <1>5, <1>7, <2>1, <2>3 DEF Deadline
  <2> QED BY <2>2, <2>3
<1>8. CASE Expire(t)
  <2>1. CASE Closable(t)
    <3>1. t \in Permit /\ \A d \in Desktop : ~(worker[d].at = "deciding" /\ worker[d].task = t)
      BY <2>1, NotHeld, OneDecides DEF Closable
    <3>2. row' = [row EXCEPT ![t].status = "failed"] /\ UNCHANGED worker
      BY <1>8, <2>1 DEF Expire
    <3>3. Permit' = Permit \ {t}
      BY <1>1, <3>1, <3>2 DEF Permit, Row
    <3> QED BY <1>2, <1>4, <1>5, <1>8, <2>1, <3>1, <3>3 DEF Expire
  <2>2. CASE ~Closable(t)
    <3>1. UNCHANGED <<row, worker>>
      BY <1>1, <1>8, <2>2 DEF Expire, Row
    <3>2. UNCHANGED Permit
      BY <3>1 DEF Permit
    <3> QED BY <1>2, <1>4, <1>5, <1>8, <2>2, <3>2 DEF Expire
  <2> QED BY <2>1, <2>2
<1>9. CASE CallerDies(t)
  <2>1. UNCHANGED Permit
    BY <1>9 DEF CallerDies, Permit
  <2> QED BY <1>2, <1>4, <1>5, <1>9, <2>1 DEF CallerDies
<1>10. CASE Retry(t)
  <2>1. row' = [row EXCEPT ![t] = [NoRow EXCEPT !.status = "queued"]] /\ UNCHANGED worker
    BY <1>10 DEF Retry
  <2>2. Permit' = Permit \cup {t}
    BY <1>1, <2>1 DEF Permit, NoRow
  <2>3. t \notin Permit
    BY <1>10, NotHeld DEF Retry, Retryable
  <2>4. told[t] # "unasked"
    BY <1>10 DEF Retry, Retryable, IInv, Shape, UnaskedIsAbsent
  <2>5. UNCHANGED Heard /\ Heard[t] # "unasked"
    BY <1>2, <1>10, <2>4 DEF Retry, Heard
  <2>6. Contract!Retry(t)
    BY <1>10, <2>2, <2>3, <2>5 DEF Retry, Contract!Retry
  <2> QED BY <2>6 DEF Contract!Next
<1> QED BY <1>3, <1>6, <1>7, <1>8, <1>9, <1>10 DEF CallerStep

\* Permits that go unused.
LEMMA LosesPermits ==
  ASSUME NEW T \in SUBSET Task, Permit' = Permit \ T, UNCHANGED <<told, ran, retried>>
  PROVE  Contract!Next
<1>1. UNCHANGED Heard
  BY DEF Heard
<1>2. Contract!Lose(T)
  BY <1>1 DEF Contract!Lose
<1> QED BY <1>2 DEF Contract!Next

LEMMA DrainRefines ==
  ASSUME IInv, Drain
  PROVE  Contract!Next
<1> DEFINE T == {t \in Task : row[t].status = "queued"}
<1>1. row \in [Task -> Row]
  BY DEF IInv, TypeOK
<1>2. \A t \in Task : row'[t].status # "queued" /\ (t \notin T => row'[t] = row[t])
  BY <1>1 DEF Drain, Row
<1>3. \A t \in T : \A d \in Desktop : ~(worker[d].at = "deciding" /\ worker[d].task = t)
  BY OneDecides
<1>4. Permit' = Permit \ T
  BY <1>2, <1>3 DEF Drain, Permit
<1> QED BY <1>4, LosesPermits DEF Drain

\* A claim whose desktop is gone takes a row to nobody; the server's other
\* steps are invisible.
LEMMA ServerRefines ==
  ASSUME IInv, NEW m \in net, Serve(m) \/ Lost(m)
  PROVE  [Contract!Next]_(Contract!vars)
<1>1. UNCHANGED <<told, ran, retried>> /\ row \in [Task -> Row]
  BY DEF Serve, Select, Take, Finish, Lost, IInv, TypeOK
<1>2. ASSUME UNCHANGED Permit PROVE UNCHANGED Contract!vars
  BY <1>1, <1>2 DEF Heard, Contract!vars
<1>3. ASSUME Reply(m, Idle) \/ UNCHANGED worker,
             \A t \in Task : row'[t].status = "queued" <=> row[t].status = "queued"
      PROVE  UNCHANGED Permit
  <2>1. \A d \in Desktop : worker'[d].at = "deciding" \/ worker[d].at = "deciding"
                            => worker'[d] = worker[d]
    BY <1>3, ReplyReaches DEF Idle
  <2> QED BY <1>3, <2>1, PermitKept
<1>4. CASE Select(m) \/ Lost(m)
  BY <1>2, <1>3, <1>4 DEF Select, Lost
<1>5. CASE Finish(m)
  <2>1. \A t \in Task : row'[t].status = "queued" <=> row[t].status = "queued"
    <3>1. m.task \in Task
      BY <1>5, MessageType DEF Finish, IInv
    <3> QED BY <1>1, <1>5, <3>1 DEF Finish, Finishable, Row
  <2> QED BY <1>2, <1>3, <1>5, <2>1 DEF Finish
<1>6. CASE Take(m) /\ Takeable(m) = {}
  BY <1>2, <1>3, <1>6 DEF Take
<1>7. ASSUME NEW t \in Takeable(m), Take(m), row' = [row EXCEPT ![t] = Claimed(m.from)],
             Reply(m, [at |-> "deciding", task |-> t])
      PROVE  [Contract!Next]_(Contract!vars)
  <2> DEFINE w == [at |-> "deciding", task |-> t]
  <2>1. t \in Task /\ row[t].status = "queued" /\ m.from \in Desktop
    BY <1>7, TakeableIsQueued, MessageType DEF Take, IInv
  <2>2. row'[t].status = "claimed" /\ \A u \in Task : u # t => row'[u] = row[u]
    BY <1>1, <1>7, <2>1 DEF Claimed
  <2>3. w.at = "deciding" /\ w.task = t
    OBVIOUS
  <2>4. \A d \in Desktop : ~(worker[d].at = "deciding" /\ worker[d].task = t)
    BY <2>1, OneDecides
  <2> HIDE DEF w
  <2>5. /\ \A d \in Desktop : d # m.from => worker'[d] = worker[d]
        /\ worker'[m.from] = IF m.live THEN w ELSE worker[m.from]
        /\ m.live => worker[m.from].at # "deciding"
    BY <1>7, ReplyReaches DEF w
  <2>6. CASE m.live
    <3>1. Permit' = Permit
      BY <2>1, <2>2, <2>3, <2>5, <2>6 DEF Permit
    <3> QED BY <1>2, <3>1
  <2>7. CASE ~m.live
    <3>1. \A d \in Desktop : worker'[d] = worker[d]
      BY <2>5, <2>7
    <3>2. Permit' = Permit \ {t}
      BY <2>1, <2>2, <2>4, <3>1 DEF Permit
    <3> QED BY <1>1, <2>1, <3>2, LosesPermits
  <2> QED BY <2>6, <2>7
<1> QED BY <1>4, <1>5, <1>6, <1>7 DEF Serve, Take

\* A worker uses the permit in its hands, or loses it.
LEMMA WorkerRefines ==
  ASSUME IInv, NEW d \in Desktop,
         WorkerStep(d) \/ GiveUp(d) \/ Crash(d) \/ Withdraw(d) \/ RequestStop(d)
  PROVE  [Contract!Next]_(Contract!vars)
<1>1. UNCHANGED <<row, told, retried>> /\ worker \in [Desktop -> Worker]
  BY DEF WorkerStep, Poll, Halt, Exit, Answer, GiveUp, Crash, Withdraw, RequestStop, IInv, TypeOK
<1>2. UNCHANGED Heard
  BY <1>1 DEF Heard
<1>3. /\ \A e \in Desktop : e # d => worker'[e] = worker[e]
      /\ worker'[d].at # "deciding" \/ UNCHANGED worker
  BY <1>1 DEF WorkerStep, Poll, Halt, Exit, Answer, GiveUp, Crash, Withdraw, RequestStop, Worker, Idle
<1>4. CASE worker[d].at = "deciding" /\ worker'[d].at # "deciding"
  <2>1. worker[d].task \in Task /\ worker[d].task \in Permit
        /\ Permit' = Permit \ {worker[d].task}
    BY <1>1, <1>3, <1>4, PermitDropped, OneDecides
  <2>2. CASE Ran(d)
    <3>1. Contract!Run(worker[d].task)
      BY <1>1, <1>2, <2>1, <2>2 DEF Ran, Contract!Run
    <3> QED BY <2>1, <3>1 DEF Contract!Next
  <2>3. CASE UNCHANGED ran
    BY <1>1, <2>1, <2>3, LosesPermits
  <2> QED BY <2>2, <2>3 DEF WorkerStep, Poll, Halt, Exit, Answer, GiveUp, Crash, Withdraw,
                            RequestStop
<1>5. CASE ~(worker[d].at = "deciding" /\ worker'[d].at # "deciding")
  <2>1. UNCHANGED ran
    BY <1>1, <1>5 DEF WorkerStep, Poll, Halt, Exit, Answer, GiveUp, Crash, Withdraw, RequestStop,
                      Idle
  <2>2. UNCHANGED Permit
    BY <1>1, <1>3, <1>5, PermitKept
  <2> QED BY <1>1, <1>2, <2>1, <2>2 DEF Contract!vars
<1> QED BY <1>4, <1>5

LEMMA InitRefines == Init => Contract!Init
<1> SUFFICES ASSUME Init PROVE Contract!Init
  OBVIOUS
<1>1. Permit = {}
  BY DEF Init, Permit, NoRow, Idle
<1>2. Heard = [t \in Task |-> "unasked"]
  BY DEF Init, Heard
<1> QED BY <1>1, <1>2 DEF Init, Contract!Init

LEMMA NextRefines == IInv /\ [Next]_vars => [Contract!Next]_(Contract!vars)
<1> SUFFICES ASSUME IInv, [Next]_vars PROVE [Contract!Next]_(Contract!vars)
  OBVIOUS
<1>1. CASE UNCHANGED vars
  BY <1>1 DEF vars, Contract!vars, Permit, Heard
<1> QED BY <1>1, CallerRefines, DrainRefines, ServerRefines, WorkerRefines DEF Next

\* The relay keeps its contract for any number of tasks, desktops, retries and
\* lost requests.
THEOREM RelayKeepsContract == Spec => KeepsContract
BY InitRefines, NextRefines, InitIInv, NextIInv, PTL DEF Spec, KeepsContract, Contract!Spec

-----------------------------------------------------------------------------
(* What the contract is worth: permits are counted. *)

\* Every request asked for or put back is one permit, and one withdrawn by a
\* caller that heard "offline" is none.
Issued(t) ==
  retried[t] + (IF Heard[t] = "unasked" THEN 0 ELSE 1) - (IF Heard[t] = "offline" THEN 1 ELSE 0)
PermitsCounted ==
  /\ ran \in [Task -> Nat] /\ retried \in [Task -> Nat]
  /\ \A t \in Task : ran[t] + (IF t \in Permit THEN 1 ELSE 0) <= Issued(t)

LEMMA CountKept ==
  ASSUME PermitsCounted, [Contract!Next]_(Contract!vars)
  PROVE  PermitsCounted'
<1> USE DEF PermitsCounted, Issued
<1>1. CASE UNCHANGED Contract!vars
  BY <1>1 DEF Contract!vars
<1>2. DOMAIN Heard = Task /\ Heard = [t \in Task |-> Heard[t]]
  BY DEF Heard
<1> HIDE DEF Heard, Permit
<1>3. ASSUME NEW t \in Task, Contract!Ask(t) PROVE PermitsCounted'
  BY <1>2, <1>3 DEF Contract!Ask
<1>4. ASSUME NEW t \in Task, Contract!Run(t) PROVE PermitsCounted'
  BY <1>2, <1>4 DEF Contract!Run
<1>5. ASSUME NEW t \in Task, Contract!Retry(t) PROVE PermitsCounted'
  BY <1>2, <1>5 DEF Contract!Retry
<1>6. ASSUME NEW T \in SUBSET Task, Contract!Lose(T) PROVE PermitsCounted'
  BY <1>6 DEF Contract!Lose
<1>7. ASSUME NEW t \in Task, NEW o \in Contract!Outcome, Contract!Tell(t, o) PROVE PermitsCounted'
  BY <1>2, <1>7 DEF Contract!Tell, Contract!Outcome
<1> QED BY <1>1, <1>3, <1>4, <1>5, <1>6, <1>7 DEF Contract!Next

\* No request is run more often than it was asked and retried, and a caller
\* told "device offline, nothing was run" is right.
THEOREM PermitsRunOnce == Spec => []NothingRunTwice
<1>1. Init => PermitsCounted
  <2> SUFFICES ASSUME Init PROVE PermitsCounted
    OBVIOUS
  <2>1. Contract!Init
    BY InitRefines
  <2> QED BY <2>1 DEF Contract!Init, PermitsCounted, Issued
<1>2. IInv /\ PermitsCounted /\ [Next]_vars => PermitsCounted'
  BY NextRefines, CountKept
<1>3. PermitsCounted => NothingRunTwice
  BY DEF PermitsCounted, Issued, NothingRunTwice, Contract!AtMostOnce, Contract!OfflineIsTrue
<1> QED BY <1>1, <1>2, <1>3, InitIInv, NextIInv, PTL DEF Spec
=============================================================================
