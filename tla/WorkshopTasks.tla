--------------------------- MODULE WorkshopTasks ---------------------------
(***************************************************************************)
(* The Workshop task table (01.APP/nodelang/workshop_tasks.py): one SQLite *)
(* table that the desktop app and every agent process write.  A call of    *)
(* the module is a short program of steps.  One step is one transaction,   *)
(* one SELECT or one reading of the clock; the steps of different          *)
(* processes interleave, and a process may die between two of its steps.   *)
(***************************************************************************)
EXTENDS Integers, Sequences, FiniteSets

CONSTANTS
  Created,      \* ids that task_create may hand out (uuid4)
  Owner,        \* agent identities (sender_key)
  Proc,         \* processes, or threads, that have the database open
  Text,         \* titles, purposes and results
  NULL,         \* SQL NULL, and "no value"
  Lease,        \* lease_seconds, in ticks of the clock
  Cap,          \* max_runs
  Calls,        \* the calls the clients of this instance make
  MaxTime,      \* bound: the last tick of the clock
  MaxRevision   \* bound: no call starts on a row at this revision

ASSUME ConstantsAssumption ==
  /\ Lease \in Nat /\ Cap \in Nat \ {0}
  /\ MaxTime \in Nat /\ MaxRevision \in Nat
  /\ NULL \notin Owner \cup Text \cup Nat

(***************************************************************************)
(* Ids.  A row is a task somebody created, the one declared row of an      *)
(* agent, or the closed copy of an earlier purpose of that agent.  The     *)
(* code hashes these tuples; created_at never changes and is left out.     *)
(***************************************************************************)
DeclaredId(o) == <<"declared", o>>
ClosedId(o, q) == <<"closed", o, q>>
Task == Created \cup {DeclaredId(o) : o \in Owner}
                \cup {ClosedId(o, q) : o \in Owner, q \in Text}

Status == {"absent", "open", "claimed", "done"}

Words == Text \cup {NULL, ""}   \* "" is the result of a declare

Row == [status : Status, owner : Owner \cup {NULL}, lease : Nat \cup {NULL},
        outcome : {NULL, "interrupted", "unknown"}, write_open : BOOLEAN,
        capacity : BOOLEAN, archived : BOOLEAN, bound : BOOLEAN,
        title : Words, purpose : Words, result : Words \cup {"closed"},
        revision : Nat]

NoRow == [status |-> "absent", owner |-> NULL, lease |-> NULL,
          outcome |-> NULL, write_open |-> FALSE, capacity |-> FALSE,
          archived |-> FALSE, bound |-> FALSE, title |-> NULL,
          purpose |-> NULL, result |-> NULL, revision |-> 0]

Step == {"look", "settle", "clock", "claim", "release", "mark_writing", "complete",
         "reread", "begin_run", "present", "archive", "title", "rename",
         "planned", "done", "insert", "existing", "probe", "copy", "reopen",
         "upsert", "missing", "bindall", "lookup", "bind", "held", "fold",
         "relocate"}

(***************************************************************************)
(* The programs.  _settle_lapsed reads the clock before its transaction,   *)
(* and every get() begins with it.  record_step and open_session share one *)
(* shape: get the row, and bind a session file to it when it has none.     *)
(***************************************************************************)
SettleLapsed == <<"look", "settle">>
RecordStep == SettleLapsed \o <<"lookup", "bind">>
Complete ==
  SettleLapsed \o <<"complete">> \o SettleLapsed \o <<"reread">> \o RecordStep
ClaimSteps == <<"clock">> \o SettleLapsed \o <<"claim">>
DeclareTail == <<"upsert">> \o ClaimSteps \o <<"missing", "bindall">> \o RecordStep

Program ==
  [claim        |-> ClaimSteps,
   release      |-> <<"release">>,
   mark_writing |-> <<"mark_writing">>,
   complete     |-> Complete,
   begin_run    |-> SettleLapsed \o <<"clock", "begin_run">>,
   archive      |-> SettleLapsed \o <<"present", "archive">>,
   rename       |-> SettleLapsed \o <<"title", "rename">>,
   planned      |-> <<"planned">>,
   done         |-> <<"done">>,
   create       |-> <<"insert">> \o SettleLapsed,
   open         |-> RecordStep,
   declare      |-> SettleLapsed \o SettleLapsed \o <<"existing">> \o DeclareTail,
   declare_on   |-> SettleLapsed \o ClaimSteps \o RecordStep,
   finish_on    |-> SettleLapsed \o Complete \o RecordStep,
   rows         |-> SettleLapsed,
   column       |-> <<"held", "fold">> \o SettleLapsed,
   backfill     |-> <<"missing", "bindall">>,
   relocate     |-> <<"relocate">>]

AgentCalls == {"claim", "release", "mark_writing", "complete", "begin_run",
               "declare_on", "finish_on"}
BoardCalls == {"archive", "rename", "planned", "done", "open", "relocate"}
TableCalls == {"rows", "column", "backfill"}

VARIABLES
  rows,   \* the table: [Task -> Row], NoRow where the id is not in it
  call,   \* the call each process is in: its remaining steps and its locals
  now     \* time.time()

vars == <<rows, call, now>>

Call == [todo : Seq(Step), op : DOMAIN Program \cup {NULL},
         task : Task \cup {NULL}, owner : Owner \cup {NULL},
         arg : Words, now : Nat, at : Nat, named : BOOLEAN, saw : Row,
         won : BOOLEAN, held : SUBSET Task]

Idle == [todo |-> <<>>, op |-> NULL, task |-> NULL, owner |-> NULL,
         arg |-> NULL, now |-> 0, at |-> 0, named |-> FALSE, saw |-> NoRow,
         won |-> FALSE, held |-> {}]

Init ==
  /\ rows = [t \in Task |-> NoRow]
  /\ call = [p \in Proc |-> Idle]
  /\ now = 0

Exists(t) == rows[t].status # "absent"
At(p, s) == call[p].todo # <<>> /\ Head(call[p].todo) = s

\* What is left of a call after its current step; nothing left is a return.
Become(p, c) == call' = [call EXCEPT ![p] = IF c.todo = <<>> THEN Idle ELSE c]
Advance(p) == Become(p, [call[p] EXCEPT !.todo = Tail(@)])
\* A return that skips the remaining steps: False, or an exception.
Return(p) == call' = [call EXCEPT ![p] = Idle]

Bumped(r) == [r EXCEPT !.revision = @ + 1]
Put(t, r) == rows' = [rows EXCEPT ![t] = Bumped(r)]

(***************************************************************************)
(* _update: the row must exist, a named revision must still be the row's,  *)
(* and where the statement relies on the lease the caller must hold it.    *)
(* Inside one BEGIN IMMEDIATE transaction the second look of _update finds *)
(* the row of the first, so a failed statement is the failed guard.        *)
(***************************************************************************)
CurrentUnchecked(c) == Exists(c.task)
Current(c) == Exists(c.task) /\ (c.named => rows[c.task].revision = c.saw.revision)
Holds(c) == rows[c.task].status = "claimed" /\ rows[c.task].owner = c.owner

\* The whole of _update for a call whose failure ends it.
Update(p, ok, r) ==
  \/ ok  /\ Put(call[p].task, r) /\ Advance(p)
  \/ ~ok /\ UNCHANGED rows       /\ Return(p)

\* claim and begin_run: the UPDATE's own condition, and the row it leaves.
ClaimableDone(r, o) == r.status # "absent" /\ r.owner \in {NULL, o}
Claimable(r, o) == r.status \in {"open", "claimed"} /\ r.owner \in {NULL, o}
TakenProlonged(r, o, t) ==
  [r EXCEPT !.status = "claimed", !.owner = o,
            !.lease = (IF @ = NULL THEN t ELSE @) + Lease,
            !.outcome = NULL, !.write_open = FALSE]
TakenBackwards(r, o, t) ==
  [r EXCEPT !.status = "claimed", !.owner = o, !.lease = t - Lease,
            !.outcome = NULL, !.write_open = FALSE]
Taken(r, o, t) ==
  [r EXCEPT !.status = "claimed", !.owner = o, !.lease = t + Lease,
            !.outcome = NULL, !.write_open = FALSE]
FreedKeepingLease(r) == [r EXCEPT !.status = "open", !.owner = NULL]
Freed(r) == [r EXCEPT !.status = "open", !.owner = NULL, !.lease = NULL]

-----------------------------------------------------------------------------
(***************************************************************************)
(* Calls.  A call that names a revision names the one its client has read; *)
(* the client's read is the start of the call, and any number of writes    *)
(* may happen before its first step.                                       *)
(***************************************************************************)
Start(p, op, t, o, a, n) ==
  call' = [call EXCEPT ![p] = [Idle EXCEPT !.todo = Program[op], !.op = op,
             !.task = t, !.owner = o, !.arg = a, !.named = n,
             !.saw = IF n THEN rows[t] ELSE NoRow]]

\* An agent's call on a task by id; complete carries its result.
BeginAgent(p) ==
  \E op \in Calls \cap AgentCalls, o \in Owner, n \in BOOLEAN :
    \E t \in {u \in Task : u \in Created \/ Exists(u)},
       a \in CASE op = "complete" -> Text \cup {""}
               [] op = "finish_on" -> {""}
               [] OTHER -> {NULL} :
      /\ rows[t].revision < MaxRevision
      /\ op \in {"declare_on", "finish_on"} => Exists(t) /\ ~n
      /\ n => Exists(t)
      /\ Start(p, op, t, o, a, n)

\* The founder's board, and the session calls: no owner is named.
BeginBoard(p) ==
  \E op \in Calls \cap BoardCalls, n \in BOOLEAN :
    \E t \in {u \in Task : u \in Created \/ Exists(u)},
       a \in IF op = "rename" THEN Text ELSE {NULL} :
      /\ rows[t].revision < MaxRevision
      /\ op \in {"open", "relocate"} => ~n
      /\ n => Exists(t)
      /\ Start(p, op, t, NULL, a, n)

\* task_create: a fresh uuid.
BeginCreate(p) ==
  /\ "create" \in Calls
  /\ \E t \in Created, a \in Text :
       /\ ~Exists(t)
       /\ \A q \in Proc : call[q].op = "create" => call[q].task # t
       /\ Start(p, "create", t, NULL, a, FALSE)

\* declare() with a purpose that is no task id: the agent's own row.
BeginDeclare(p) ==
  /\ "declare" \in Calls
  /\ \E o \in Owner, q \in Text :
       /\ rows[DeclaredId(o)].revision < MaxRevision
       /\ Start(p, "declare", DeclaredId(o), o, q, FALSE)

\* Reads of the table, and the backfill when the database is opened.
BeginTable(p) ==
  \E op \in Calls \cap TableCalls : Start(p, op, NULL, NULL, NULL, FALSE)

Begin(p) ==
  /\ call[p].todo = <<>>
  /\ \/ BeginAgent(p) \/ BeginBoard(p) \/ BeginCreate(p)
     \/ BeginDeclare(p) \/ BeginTable(p)
  /\ UNCHANGED <<rows, now>>

-----------------------------------------------------------------------------
(***************************************************************************)
(* Steps on the whole table.                                               *)
(***************************************************************************)
LapsedTooSoon(r, t) == r.status = "claimed" /\ r.lease # NULL /\ r.lease <= t
Lapsed(r, t) == r.status = "claimed" /\ r.lease # NULL /\ r.lease < t
Settled(r) ==
  [Freed(r) EXCEPT !.outcome = IF r.write_open THEN "unknown" ELSE "interrupted",
                   !.write_open = FALSE, !.revision = @ + 1]

SettleNothing(p) == At(p, "settle") /\ Advance(p) /\ UNCHANGED <<rows, now>>
\* _settle_lapsed reads the clock, and then writes in its own transaction.
Look(p) ==
  /\ At(p, "look")
  /\ Become(p, [call[p] EXCEPT !.todo = Tail(@), !.at = now])
  /\ UNCHANGED <<rows, now>>
Settle(p) ==
  /\ At(p, "settle")
  /\ rows' = [t \in Task |-> IF Lapsed(rows[t], call[p].at) THEN Settled(rows[t]) ELSE rows[t]]
  /\ Become(p, [call[p] EXCEPT !.todo = Tail(@), !.at = 0])
  /\ UNCHANGED now

\* now = time.time(), kept by the call.
Clock(p) ==
  /\ At(p, "clock")
  /\ Become(p, [call[p] EXCEPT !.todo = Tail(@), !.now = now])
  /\ UNCHANGED <<rows, now>>

\* backfill_sessions reads the rows without a file and prepares the files...
Missing(p) ==
  /\ At(p, "missing")
  /\ Become(p, [call[p] EXCEPT !.todo = Tail(@),
                  !.held = {t \in Task : Exists(t) /\ ~rows[t].bound}])
  /\ UNCHANGED <<rows, now>>

\* ...then binds those that still have none in one transaction.
BindAll(p) ==
  /\ At(p, "bindall")
  /\ rows' = [t \in Task |-> IF t \in call[p].held /\ ~rows[t].bound
                             THEN Bumped([rows[t] EXCEPT !.bound = TRUE])
                             ELSE rows[t]]
  /\ Become(p, [call[p] EXCEPT !.todo = Tail(@), !.held = {}])
  /\ UNCHANGED now

\* fold_declarations reads the declared rows of each agent.  It keeps the
\* agent's own row, or else the latest one, and holds the others still listed...
Candidates(o) ==
  {t \in Task \ Created : Exists(t) /\ (t = DeclaredId(o) \/ rows[t].owner = o)}
Keeps(o, k) ==
  IF Exists(DeclaredId(o)) THEN k = DeclaredId(o)
  ELSE k \in Candidates(o) /\ (rows[k].archived => \A t \in Candidates(o) : rows[t].archived)
Held(p) ==
  /\ At(p, "held")
  /\ \E keep \in [Owner -> Task] :
       /\ \A o \in Owner : Candidates(o) # {} => Keeps(o, keep[o])
       /\ Become(p, [call[p] EXCEPT !.todo = Tail(@),
            !.held = {t \in Task : /\ ~rows[t].archived
                                   /\ \E o \in Owner : t \in Candidates(o) \ {keep[o]}}])
  /\ UNCHANGED <<rows, now>>

\* ...and archives them one write at a time.
Fold(p) ==
  /\ At(p, "fold")
  /\ \/ /\ call[p].held = {}
        /\ Advance(p) /\ UNCHANGED rows
     \/ \E t \in call[p].held :
          /\ call' = [call EXCEPT ![p].held = @ \ {t}]
          /\ IF rows[t].archived THEN UNCHANGED rows
             ELSE Put(t, [rows[t] EXCEPT !.archived = TRUE])
  /\ UNCHANGED now

-----------------------------------------------------------------------------
(***************************************************************************)
(* Steps on one row.                                                       *)
(***************************************************************************)
\* A failed claim ends a call that named a revision (it raises) and a
\* declare of the agent's own row; a declare on a task by id goes on.
Claim(p) ==
  /\ At(p, "claim")
  /\ LET c == call[p]
         r == rows[c.task]
         ok == Current(c) /\ Claimable(r, c.owner)
     IN \/ ok /\ Put(c.task, Taken(r, c.owner, c.now)) /\ Advance(p)
        \/ /\ ~ok /\ UNCHANGED rows
           /\ IF c.named \/ c.op = "declare" THEN Return(p) ELSE Advance(p)
  /\ UNCHANGED now

Release(p) ==
  /\ At(p, "release")
  /\ LET c == call[p] IN Update(p, Current(c) /\ Holds(c), Freed(rows[c.task]))
  /\ UNCHANGED now

MarkWriting(p) ==
  /\ At(p, "mark_writing")
  /\ LET c == call[p]
     IN Update(p, Current(c) /\ Holds(c), [rows[c.task] EXCEPT !.write_open = TRUE])
  /\ UNCHANGED now

Finished(r, a) ==
  [r EXCEPT !.status = "done", !.lease = NULL, !.write_open = FALSE, !.result = a]

CompleteTask(p) ==
  /\ At(p, "complete")
  /\ LET c == call[p]
         ok == Current(c) /\ Holds(c)
     IN \/ /\ ok /\ Put(c.task, Finished(rows[c.task], c.arg))
           /\ Become(p, [c EXCEPT !.todo = Tail(@), !.won = TRUE])
        \/ /\ ~ok /\ UNCHANGED rows
           /\ IF c.named \/ ~Exists(c.task) THEN Return(p) ELSE Advance(p)
  /\ UNCHANGED now

\* won or reconciled: only then is the step recorded.  A declare on a task
\* records it a second time in either case.
Reread(p) ==
  /\ At(p, "reread")
  /\ LET c == call[p]
         r == rows[c.task]
         reconciled == r.status = "done" /\ r.owner = c.owner /\ r.result = c.arg
     IN IF c.won \/ reconciled THEN Advance(p)
        ELSE Become(p, [c EXCEPT !.todo = SubSeq(@, 6, Len(@))])
  /\ UNCHANGED <<rows, now>>

\* The other rows whose lease has not passed at the reading of the clock.
RunningAfter(c) ==
  {t \in Task \ {c.task} : /\ rows[t].status = "claimed" /\ rows[t].lease # NULL
                           /\ rows[t].lease > c.now}
Running(c) ==
  {t \in Task \ {c.task} : /\ rows[t].status = "claimed" /\ rows[t].lease # NULL
                           /\ rows[t].lease >= c.now}
BeginRun(p) ==
  /\ At(p, "begin_run")
  /\ LET c == call[p]
         r == rows[c.task]
         full == Cardinality(Running(c)) >= Cap /\ ~Holds(c)
     IN IF full
        THEN Update(p, Current(c) /\ r.status # "done", [r EXCEPT !.capacity = TRUE])
        ELSE Update(p, Current(c) /\ Claimable(r, c.owner),
                    [Taken(r, c.owner, c.now) EXCEPT !.capacity = FALSE])
  /\ UNCHANGED now

\* archive, and the read before it; a done row keeps its owner.
Closed(r) == [r EXCEPT !.status = "done", !.lease = NULL]
Present(p) ==
  /\ At(p, "present")
  /\ IF Exists(call[p].task) THEN Advance(p) ELSE Return(p)
  /\ UNCHANGED <<rows, now>>
Archive(p) ==
  /\ At(p, "archive")
  /\ LET c == call[p]
     IN Update(p, Current(c), [Closed(rows[c.task]) EXCEPT !.archived = TRUE])
  /\ UNCHANGED now

\* set_status: the founder frees or closes the task, whoever holds it.
SetPlanned(p) ==
  /\ At(p, "planned")
  /\ LET c == call[p] IN Update(p, Current(c), Freed(rows[c.task]))
  /\ UNCHANGED now
SetDone(p) ==
  /\ At(p, "done")
  /\ LET c == call[p] IN Update(p, Current(c), Closed(rows[c.task]))
  /\ UNCHANGED now

\* rename: a title that is already there is not written.
ReadTitle(p) ==
  /\ At(p, "title")
  /\ LET c == call[p]
     IN IF Current(c) /\ rows[c.task].title # c.arg THEN Advance(p) ELSE Return(p)
  /\ UNCHANGED <<rows, now>>
Rename(p) ==
  /\ At(p, "rename")
  /\ LET c == call[p] IN Update(p, Current(c), [rows[c.task] EXCEPT !.title = c.arg])
  /\ UNCHANGED now

\* create: the session file exists before the row; a uuid is fresh.
Insert(p) ==
  /\ At(p, "insert")
  /\ LET c == call[p]
     IN /\ ~Exists(c.task)
        /\ rows' = [rows EXCEPT ![c.task] =
                   [NoRow EXCEPT !.status = "open", !.title = c.arg, !.bound = TRUE]]
  /\ Advance(p)
  /\ UNCHANGED now

\* record_step and open_session: the row as get() returned it.
Lookup(p) ==
  /\ At(p, "lookup")
  /\ LET c == call[p]
         r == rows[c.task]
         next == [c EXCEPT !.todo = Tail(@), !.saw = r, !.named = TRUE]
     IN IF ~Exists(c.task) THEN Return(p)
        ELSE Become(p, IF r.bound THEN [next EXCEPT !.todo = SubSeq(c.todo, 3, Len(c.todo))]
                       ELSE next)
  /\ UNCHANGED <<rows, now>>

\* _bind_session at the revision that was read.
Bind(p) ==
  /\ At(p, "bind")
  /\ LET c == call[p]
     IN Update(p, Current(c) /\ ~rows[c.task].bound, [rows[c.task] EXCEPT !.bound = TRUE])
  /\ UNCHANGED now

\* relocate_sessions: the file of this row moved.
Relocate(p) ==
  /\ At(p, "relocate")
  /\ LET c == call[p] IN Update(p, Exists(c.task) /\ rows[c.task].bound, rows[c.task])
  /\ UNCHANGED now

-----------------------------------------------------------------------------
(***************************************************************************)
(* declared() on the agent's own row, before its claim.                    *)
(***************************************************************************)
\* A row with another purpose is copied as done, and reopened if it was done.
Existing(p) ==
  /\ At(p, "existing")
  /\ LET c == call[p]
         r == rows[c.task]
         closing == IF r.purpose \in {NULL, c.arg} THEN <<>>
                    ELSE SettleLapsed \o <<"probe", "copy", "reopen">>
     IN Become(p, [c EXCEPT !.todo = closing \o Tail(@), !.saw = r])
  /\ UNCHANGED <<rows, now>>

Probe(p) ==
  /\ At(p, "probe")
  /\ LET c == call[p]
     IN Become(p, [c EXCEPT !.todo = IF Exists(ClosedId(c.owner, c.saw.purpose))
                                     THEN SubSeq(@, 3, Len(@)) ELSE Tail(@)])
  /\ UNCHANGED <<rows, now>>

\* The INSERT fails on the primary key when another call was faster.
CopySkipped(p) == At(p, "copy") /\ Advance(p) /\ UNCHANGED <<rows, now>>
Copy(p) ==
  /\ At(p, "copy")
  /\ LET c == call[p]
         t == ClosedId(c.owner, c.saw.purpose)
     IN \/ /\ ~Exists(t)
           /\ rows' = [rows EXCEPT ![t] =
                [NoRow EXCEPT !.status = "done", !.owner = c.saw.owner,
                   !.title = c.saw.title, !.purpose = c.saw.purpose, !.result = "closed"]]
           /\ Advance(p)
        \/ Exists(t) /\ UNCHANGED rows /\ Return(p)
  /\ UNCHANGED now

Reopen(p) ==
  /\ At(p, "reopen")
  /\ LET c == call[p]
         r == rows[c.task]
     IN IF c.saw.status = "done" /\ r.status = "done"
        THEN Put(c.task, [Freed(r) EXCEPT !.result = NULL]) ELSE UNCHANGED rows
  /\ Advance(p)
  /\ UNCHANGED now

\* The title of a declaration stands for its purpose.
Upsert(p) ==
  /\ At(p, "upsert")
  /\ LET c == call[p]
         r == rows[c.task]
         told(x) == [x EXCEPT !.title = c.arg, !.purpose = c.arg]
     IN CASE r.status = "absent" ->
               rows' = [rows EXCEPT ![c.task] = [told(NoRow) EXCEPT !.status = "open"]]
          [] r.status = "done" -> UNCHANGED rows
          [] OTHER -> Put(c.task, told(r))
  /\ Advance(p)
  /\ UNCHANGED now

-----------------------------------------------------------------------------
\* The process dies, or a step raises (the database is busy) and rolls back.
Abort(p) == call[p].todo # <<>> /\ Return(p) /\ UNCHANGED <<rows, now>>

Tick == now < MaxTime /\ now' = now + 1 /\ UNCHANGED <<rows, call>>

RowStep(p) ==
  \/ Claim(p) \/ Release(p) \/ MarkWriting(p) \/ CompleteTask(p) \/ Reread(p)
  \/ BeginRun(p) \/ Present(p) \/ Archive(p) \/ SetPlanned(p) \/ SetDone(p)
  \/ ReadTitle(p) \/ Rename(p) \/ Insert(p) \/ Lookup(p) \/ Bind(p)
  \/ Relocate(p)
DeclareStep(p) == Existing(p) \/ Probe(p) \/ Copy(p) \/ Reopen(p) \/ Upsert(p)
TableStep(p) ==
  Look(p) \/ Settle(p) \/ Clock(p) \/ Missing(p) \/ BindAll(p) \/ Held(p) \/ Fold(p)

StepOf(p) == RowStep(p) \/ DeclareStep(p) \/ TableStep(p)

Next == Tick \/ \E p \in Proc : Begin(p) \/ StepOf(p) \/ Abort(p)

Spec == Init /\ [][Next]_vars

(***************************************************************************)
(* Fairness: a process goes on with its call, the Studio keeps reading the *)
(* table, and not every read dies before its first transaction.            *)
(***************************************************************************)
Poll(p) == /\ call[p].todo = <<>> /\ Start(p, "rows", NULL, NULL, NULL, FALSE)
           /\ UNCHANGED <<rows, now>>
Fairness == \A p \in Proc : /\ WF_vars(StepOf(p)) /\ SF_vars(Poll(p))
                            /\ SF_vars(Look(p)) /\ SF_vars(Settle(p))
FairSpec == Spec /\ Fairness

-----------------------------------------------------------------------------
\* Every variable has its type.
TypeOK ==
  /\ rows \in [Task -> Row]
  /\ call \in [Proc -> Call]
  /\ now \in Nat

Consistent(r) ==
  /\ r.status = "claimed" <=> r.lease # NULL
  /\ r.status = "claimed" => r.owner # NULL /\ r.outcome = NULL
  /\ r.status \in {"absent", "open"} => r.owner = NULL

\* The columns that the statements test never disagree: a lease and an owner
\* exactly while a row is claimed, no owner on an open row (claim asks only
\* for the owner, settle only for the lease), no old verdict on a held row.
LeaseConsistent == \A t \in Task : Consistent(rows[t])

\* The steps that write through _update.
UpdateSteps == {"claim", "release", "mark_writing", "complete", "begin_run",
                "archive", "planned", "done", "rename", "bind"}

\* A write that names a revision changes only the row its client read: no
\* write of another process in between, its lapse included, is overwritten.
NoLostUpdate ==
  [][\A p \in Proc : LET c == call[p] IN
       (/\ call'[p] # c /\ \E s \in UpdateSteps : At(p, s)
        /\ c.named /\ rows'[c.task] # rows[c.task]) => rows[c.task] = c.saw]_vars

\* A lease that has not passed ends only by a call of its holder, or by the
\* founder's board and archive; no other agent takes the task.
HolderKeepsLease ==
  [][\A t \in Task : LET r == rows[t] IN
       (/\ r.status = "claimed" /\ r.lease >= now
        /\ ~(rows'[t].status = "claimed" /\ rows'[t].owner = r.owner))
       => \E p \in Proc : /\ call'[p] # call[p] /\ call[p].task = t
                          /\ \/ call[p].owner = r.owner
                             \/ call[p].op \in {"archive", "planned", "done"}]_vars

\* "done stays done" (test_workshop_tasks.py): a finished row keeps its result
\* and its owner, whoever completes or claims it late; only the founder's
\* PLANNED and a new purpose of the declaring agent reopen it.
DoneStaysDone ==
  [][\A t \in Task : rows[t].status = "done" =>
       \/ /\ rows'[t].status = "done" /\ rows'[t].result = rows[t].result
          /\ rows'[t].owner = rows[t].owner
       \/ \E p \in Proc : /\ call'[p] # call[p] /\ call[p].task = t
                          /\ call[p].op \in {"planned", "declare"}]_vars

Live == {t \in Task : rows[t].status = "claimed" /\ rows[t].lease >= now}

\* A run that begin_run starts (not a renewal) finds a free slot: with it at
\* most Cap leases are live, whatever ran since the call read the clock.
StartWithinCap ==
  [][\A p \in Proc : LET c == call[p] IN
       (/\ At(p, "begin_run") /\ call'[p] # c /\ ~Holds(c)
        /\ rows'[c.task].owner = c.owner /\ rows'[c.task].status = "claimed")
       => Cardinality(Live') <= Cap]_vars

\* A new purpose closes the previous one: a declare that replaces the purpose it
\* read leaves its closed copy in the table, whatever other calls, the fold or a
\* death in an earlier declare did to it.
PurposeClosed ==
  [][\A p \in Proc : LET c == call[p] q == c.saw.purpose IN
       (/\ At(p, "upsert") /\ call'[p] # c /\ q # NULL
        /\ rows[c.task].purpose = q /\ rows'[c.task].purpose # q)
       => Exists(ClosedId(c.owner, q))]_vars

(***************************************************************************)
(* The table as its clients see it, and what it promises them.             *)
(***************************************************************************)
Seen(r) == [status |-> r.status, owner |-> r.owner, lease |-> r.lease]
Shown == [t \in Task |-> Seen(rows[t])]
Board == INSTANCE LeaseBoard WITH board <- Shown

\* Whatever the calls of all processes do between their transactions, with old
\* clocks and old rows in hand, the table is a LeaseBoard: a task is one agent's
\* at a time, passes to another only when it was given back, freed or its lease
\* had passed, and a finished one is not taken.
KeepsBoard == Board!Spec

\* A lapsed lease is settled, or renewed, although nothing runs on a timer.
LapseIsSettled == \A t \in Task : Lapsed(rows[t], now) ~> ~Lapsed(rows[t], now)
=============================================================================
