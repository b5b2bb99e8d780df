------------------------ MODULE WorkshopTasksProofs ------------------------
(***************************************************************************)
(* Theorems about WorkshopTasks, for every number of tasks, agents and     *)
(* processes and every bound.                                              *)
(***************************************************************************)
EXTENDS WorkshopTasks, SequenceTheorems, TLAPS

-----------------------------------------------------------------------------
(* Sequences of steps. *)

\* What is left of a program is again a program over the same steps.
LEMMA TailOfSteps ==
  ASSUME NEW S, NEW s \in Seq(S), s # <<>>
  PROVE  Tail(s) \in Seq(S)
BY HeadTailProperties

\* So is the rest from a later step, where a call skips some.
LEMMA RestOfSteps ==
  ASSUME NEW S, NEW s \in Seq(S), NEW k \in Nat \ {0}
  PROVE  SubSeq(s, k, Len(s)) \in Seq(S)
<1>1. Len(s) \in Nat /\ \A i \in k..Len(s) : s[i] \in S
  BY LenProperties, ElementOfSeq
<1> QED BY <1>1, SubSeqProperties

\* The steps of a call that names no agent, and of one that names no task.
Anonymous == Step \ {"claim", "begin_run"}
WholeTable == {"look", "settle", "held", "fold", "missing", "bindall"}
Allowed(o, t) == {s \in Step : /\ o \notin Owner => s \in Anonymous
                               /\ t \notin Task => s \in WholeTable}

\* _settle_lapsed is a step of any call.
LEMMA SettleType ==
  ASSUME NEW S, {"look", "settle"} \subseteq S
  PROVE  SettleLapsed \in Seq(S)
BY DEF SettleLapsed

\* The tail that record_step and open_session share takes no lease.
LEMMA RecordStepType == RecordStep \in Seq(Anonymous)
<1>1. <<"lookup", "bind">> \in Seq(Anonymous) /\ {"look", "settle"} \subseteq Anonymous
  BY DEF Anonymous, Step
<1> QED BY <1>1, SettleType, ConcatProperties, Zenon DEF RecordStep

\* Every program is a sequence of steps, and the programs of the calls that
\* name no agent, or no task, keep to the steps of such a call.
LEMMA ProgramType ==
  /\ DOMAIN Program = AgentCalls \cup BoardCalls \cup TableCalls \cup {"create", "declare"}
  /\ \A op \in AgentCalls \cup {"declare"} : Program[op] \in Seq(Step)
  /\ \A op \in BoardCalls \cup {"create"} : Program[op] \in Seq(Anonymous)
  /\ \A op \in TableCalls : Program[op] \in Seq(WholeTable)
<1>1. Anonymous \subseteq Step
  BY DEF Anonymous
<1>2. RecordStep \in Seq(Step)
  BY <1>1, RecordStepType, SeqMonotonic
<1>3. SettleLapsed \in Seq(Step) /\ SettleLapsed \in Seq(Anonymous)
      /\ SettleLapsed \in Seq(WholeTable)
  BY SettleType DEF Step, Anonymous, WholeTable
<1>4. /\ <<"complete">> \in Seq(Step) /\ <<"reread">> \in Seq(Step)
      /\ <<"clock">> \in Seq(Step) /\ <<"claim">> \in Seq(Step)
      /\ <<"upsert">> \in Seq(Step) /\ <<"missing", "bindall">> \in Seq(Step)
      /\ <<"existing">> \in Seq(Step) /\ <<"clock", "begin_run">> \in Seq(Step)
      /\ <<"release">> \in Seq(Step) /\ <<"mark_writing">> \in Seq(Step)
  BY DEF Step
<1>5. Complete \in Seq(Step)
  BY <1>2, <1>3, <1>4, ConcatProperties, Zenon DEF Complete
<1>6. ClaimSteps \in Seq(Step)
  BY <1>3, <1>4, ConcatProperties, Zenon DEF ClaimSteps
<1>7. DeclareTail \in Seq(Step)
  BY <1>2, <1>4, <1>6, ConcatProperties, Zenon DEF DeclareTail
<1>8. /\ SettleLapsed \o SettleLapsed \o <<"existing">> \o DeclareTail \in Seq(Step)
      /\ SettleLapsed \o ClaimSteps \o RecordStep \in Seq(Step)
      /\ SettleLapsed \o Complete \o RecordStep \in Seq(Step)
      /\ SettleLapsed \o <<"clock", "begin_run">> \in Seq(Step)
  BY <1>2, <1>3, <1>4, <1>5, <1>6, <1>7, ConcatProperties, Zenon
<1>9. DOMAIN Program = AgentCalls \cup BoardCalls \cup TableCalls \cup {"create", "declare"}
  BY DEF Program, AgentCalls, BoardCalls, TableCalls
<1>10. \A op \in BoardCalls \cup {"create"} : Program[op] \in Seq(Anonymous)
  <2>1. /\ <<"present", "archive">> \in Seq(Anonymous)
        /\ <<"title", "rename">> \in Seq(Anonymous)
        /\ <<"planned">> \in Seq(Anonymous) /\ <<"done">> \in Seq(Anonymous)
        /\ <<"insert">> \in Seq(Anonymous) /\ <<"relocate">> \in Seq(Anonymous)
    BY DEF Anonymous, Step
  <2>2. /\ SettleLapsed \o <<"present", "archive">> \in Seq(Anonymous)
        /\ SettleLapsed \o <<"title", "rename">> \in Seq(Anonymous)
        /\ <<"insert">> \o SettleLapsed \in Seq(Anonymous)
    BY <1>3, <2>1, ConcatProperties, Zenon
  <2>3. /\ Program["archive"] = SettleLapsed \o <<"present", "archive">>
        /\ Program["rename"] = SettleLapsed \o <<"title", "rename">>
        /\ Program["planned"] = <<"planned">> /\ Program["done"] = <<"done">>
        /\ Program["open"] = RecordStep /\ Program["relocate"] = <<"relocate">>
        /\ Program["create"] = <<"insert">> \o SettleLapsed
    BY Zenon DEF Program
  <2> QED BY <2>1, <2>2, <2>3, RecordStepType DEF BoardCalls
<1>11. \A op \in TableCalls : Program[op] \in Seq(WholeTable)
  <2>1. <<"missing", "bindall">> \in Seq(WholeTable) /\ <<"held", "fold">> \in Seq(WholeTable)
    BY DEF WholeTable
  <2>2. <<"held", "fold">> \o SettleLapsed \in Seq(WholeTable)
    BY <1>3, <2>1, ConcatProperties, Zenon
  <2>3. /\ Program["rows"] = SettleLapsed /\ Program["backfill"] = <<"missing", "bindall">>
        /\ Program["column"] = <<"held", "fold">> \o SettleLapsed
    BY Zenon DEF Program
  <2> QED BY <1>3, <2>1, <2>2, <2>3 DEF TableCalls
<1>12. \A op \in AgentCalls \cup {"declare"} : Program[op] \in Seq(Step)
  <2>1. /\ Program["claim"] = ClaimSteps /\ Program["complete"] = Complete
        /\ Program["release"] = <<"release">>
        /\ Program["mark_writing"] = <<"mark_writing">>
        /\ Program["begin_run"] = SettleLapsed \o <<"clock", "begin_run">>
        /\ Program["declare"] = SettleLapsed \o SettleLapsed \o <<"existing">> \o DeclareTail
        /\ Program["declare_on"] = SettleLapsed \o ClaimSteps \o RecordStep
        /\ Program["finish_on"] = SettleLapsed \o Complete \o RecordStep
    BY Zenon DEF Program
  <2> QED BY <1>4, <1>5, <1>6, <1>8, <2>1 DEF AgentCalls
<1> QED BY <1>9, <1>10, <1>11, <1>12

\* A program suits the agent and the task that its call names.
LEMMA ProgramAllowed ==
  ASSUME NEW o, NEW t
  PROVE  /\ \A op \in AgentCalls \cup {"declare"} :
              o \in Owner /\ t \in Task => Program[op] \in Seq(Allowed(o, t))
         /\ \A op \in BoardCalls \cup {"create"} : t \in Task => Program[op] \in Seq(Allowed(o, t))
         /\ \A op \in TableCalls : Program[op] \in Seq(Allowed(o, t))
<1>1. o \in Owner /\ t \in Task => Step \subseteq Allowed(o, t)
  BY DEF Allowed
<1>2. t \in Task => Anonymous \subseteq Allowed(o, t)
  BY DEF Allowed, Anonymous
<1>3. WholeTable \subseteq Allowed(o, t)
  BY DEF Allowed, WholeTable, Anonymous, Step
<1> QED BY <1>1, <1>2, <1>3, ProgramType, SeqMonotonic

-----------------------------------------------------------------------------
(* The invariant behind every theorem. *)

\* A call that names no agent never reaches a step that takes a lease, and
\* one that names no task never reaches a step on a row.
StepsAllowed ==
  \A p \in Proc : call[p].todo \in Seq(Allowed(call[p].owner, call[p].task))

CallsTyped == call \in [Proc -> Call] /\ StepsAllowed

\* The call that a process is left with keeps the two facts about calls.
LEMMA BecomeKeeps ==
  ASSUME CallsTyped, NEW p \in Proc, NEW c \in Call, Become(p, c),
         c.todo \in Seq(Allowed(c.owner, c.task))
  PROVE  CallsTyped'
<1>1. <<>> \in Seq(Step) /\ <<>> \in Seq(Allowed(Idle.owner, Idle.task))
  BY EmptySeq
<1>2. Idle \in Call /\ Idle.todo = <<>>
  BY <1>1 DEF Idle, Call, NoRow, Row, Words, Status
<1>3. call' \in [Proc -> Call]
  BY <1>2 DEF Become, CallsTyped
<1>4. \A q \in Proc : call'[q] = IF q = p THEN (IF c.todo = <<>> THEN Idle ELSE c)
                                 ELSE call[q]
  BY DEF Become, CallsTyped
<1>5. StepsAllowed'
  <2> SUFFICES ASSUME NEW q \in Proc
               PROVE  call'[q].todo \in Seq(Allowed(call'[q].owner, call'[q].task))
    BY DEF StepsAllowed, Allowed
  <2>1. CASE q # p
    BY <2>1, <1>4 DEF StepsAllowed, CallsTyped
  <2>2. CASE q = p /\ c.todo = <<>>
    BY <2>2, <1>1, <1>2, <1>4
  <2>3. CASE q = p /\ c.todo # <<>>
    BY <2>3, <1>4
  <2> QED BY <2>1, <2>2, <2>3
<1> QED BY <1>3, <1>5 DEF CallsTyped

\* A return leaves the process idle.
LEMMA ReturnKeeps ==
  ASSUME CallsTyped, NEW p \in Proc, Return(p)
  PROVE  CallsTyped'
<1>1. <<>> \in Seq(Step) /\ <<>> \in Seq(Allowed(Idle.owner, Idle.task))
  BY EmptySeq
<1>2. Idle \in Call /\ Idle.todo = <<>>
  BY <1>1 DEF Idle, Call, NoRow, Row, Words, Status
<1>3. Become(p, Idle)
  BY <1>2 DEF Return, Become
<1> QED BY <1>1, <1>2, <1>3, BecomeKeeps

\* So does the call after one of its steps.
LEMMA AdvanceKeeps ==
  ASSUME CallsTyped, NEW p \in Proc, call[p].todo # <<>>, Advance(p)
  PROVE  CallsTyped'
<1> DEFINE c == [call[p] EXCEPT !.todo = Tail(@)]
<1>1. call[p] \in Call /\ call[p].todo \in Seq(Step)
  BY DEF CallsTyped, Call
<1>2. Tail(call[p].todo) \in Seq(Step)
  BY <1>1, TailOfSteps
<1>3. /\ c \in Call /\ c.todo = Tail(call[p].todo)
      /\ c.owner = call[p].owner /\ c.task = call[p].task
  BY <1>1, <1>2 DEF Call
<1>4. c.todo \in Seq(Allowed(c.owner, c.task))
  BY <1>1, <1>3, TailOfSteps DEF CallsTyped, StepsAllowed
<1> QED BY <1>3, <1>4, BecomeKeeps DEF Advance

-----------------------------------------------------------------------------
(* Rows. *)

\* Rows that have their type and whose columns agree.
Good == {r \in Row : Consistent(r)}
RowsGood == rows \in [Task -> Good]

\* What the fields of a good row are.
LEMMA GoodFields ==
  ASSUME NEW r \in Good
  PROVE  /\ r \in Row
         /\ r.revision \in Nat /\ r.revision + 1 \in Nat
         /\ r.status = "claimed" <=> r.lease # NULL
         /\ r.status = "claimed" => r.owner # NULL /\ r.outcome = NULL
         /\ r.status \in {"absent", "open"} => r.owner = NULL
         /\ r.status = "claimed" => r.lease \in Nat /\ r.owner \in Owner
<1>1. r \in Row /\ r.revision \in Nat /\ r.lease \in Nat \cup {NULL} /\ r.owner \in Owner \cup {NULL}
  BY DEF Good, Row
<1>2. r.revision + 1 \in Nat
  BY <1>1
<1> QED BY <1>1, <1>2 DEF Good, Consistent

\* Counting the revision up changes no other column.
LEMMA BumpedGood ==
  ASSUME NEW r \in Good
  PROVE  Bumped(r) \in Good
<1>1. Bumped(r) \in Row
  BY GoodFields DEF Bumped, Row
<1>2. Consistent(Bumped(r))
  BY GoodFields DEF Bumped, Row, Consistent
<1> QED BY <1>1, <1>2 DEF Good

\* Columns that no statement tests may be written at any time.
LEMMA PlainColumnsGood ==
  ASSUME NEW r \in Good, NEW b \in BOOLEAN, NEW x \in Words
  PROVE  /\ [r EXCEPT !.write_open = b] \in Good
         /\ [r EXCEPT !.capacity = b] \in Good
         /\ [r EXCEPT !.archived = b] \in Good
         /\ [r EXCEPT !.bound = b] \in Good
         /\ [r EXCEPT !.title = x] \in Good
         /\ [r EXCEPT !.title = x, !.purpose = x] \in Good
         /\ [r EXCEPT !.result = NULL] \in Good
<1>1. [r EXCEPT !.write_open = b] \in Good
  BY GoodFields DEF Good, Row, Words, Consistent
<1>2. [r EXCEPT !.capacity = b] \in Good
  BY GoodFields DEF Good, Row, Words, Consistent
<1>3. [r EXCEPT !.archived = b] \in Good
  BY GoodFields DEF Good, Row, Words, Consistent
<1>4. [r EXCEPT !.bound = b] \in Good
  BY GoodFields DEF Good, Row, Words, Consistent
<1>5. [r EXCEPT !.title = x] \in Good
  BY GoodFields DEF Good, Row, Words, Consistent
<1>6. [r EXCEPT !.title = x, !.purpose = x] \in Good
  BY GoodFields DEF Good, Row, Words, Consistent
<1>7. [r EXCEPT !.result = NULL] \in Good
  BY GoodFields DEF Good, Row, Words, Consistent
<1> QED BY <1>1, <1>2, <1>3, <1>4, <1>5, <1>6, <1>7

\* claim and begin_run leave a consistent row when they name an agent.
LEMMA TakenGood ==
  ASSUME NEW r \in Good, NEW o \in Owner, NEW t \in Nat
  PROVE  Taken(r, o, t) \in Good
<1>1. t + Lease \in Nat /\ t + Lease # NULL /\ o # NULL
  BY ConstantsAssumption
<1>2. Taken(r, o, t) \in Row
  BY <1>1, GoodFields DEF Taken, Row, Status
<1>3. Consistent(Taken(r, o, t))
  BY <1>1, GoodFields DEF Taken, Row, Consistent
<1> QED BY <1>2, <1>3 DEF Good

\* So do release, PLANNED and the lapse...
LEMMA FreedGood ==
  ASSUME NEW r \in Good
  PROVE  Freed(r) \in Good /\ Settled(r) \in Good
<1>1. Freed(r) \in Row /\ Settled(r) \in Row
  BY GoodFields DEF Freed, Settled, Row, Status
<1>2. Consistent(Freed(r)) /\ Consistent(Settled(r))
  BY GoodFields DEF Freed, Settled, Row, Consistent
<1> QED BY <1>1, <1>2 DEF Good

\* ...and complete, DONE and archive.
LEMMA DoneGood ==
  ASSUME NEW r \in Good, NEW a \in Words
  PROVE  Finished(r, a) \in Good /\ Closed(r) \in Good
<1>1. Finished(r, a) \in Row /\ Closed(r) \in Row
  BY GoodFields DEF Finished, Closed, Row, Status
<1>2. Consistent(Finished(r, a)) /\ Consistent(Closed(r))
  BY GoodFields DEF Finished, Closed, Row, Consistent
<1> QED BY <1>1, <1>2 DEF Good

\* The rows that create, declare and the closing of a purpose insert.
LEMMA InsertedGood ==
  ASSUME NEW o \in Owner \cup {NULL}, NEW x \in Words, NEW q \in Words
  PROVE  /\ NoRow \in Good
         /\ [NoRow EXCEPT !.status = "open", !.title = x, !.bound = TRUE] \in Good
         /\ [[NoRow EXCEPT !.title = x, !.purpose = x] EXCEPT !.status = "open"] \in Good
         /\ [NoRow EXCEPT !.status = "done", !.owner = o, !.title = x,
               !.purpose = q, !.result = "closed"] \in Good
BY DEF NoRow, Good, Row, Words, Status, Consistent

\* A row that _update writes is good, wherever the id points.
LEMMA PutKeeps ==
  ASSUME RowsGood, NEW t, NEW r, t \in Task => r \in Good, Put(t, r)
  PROVE  RowsGood'
BY BumpedGood DEF RowsGood, Put

-----------------------------------------------------------------------------
(* Steps. *)

Base == RowsGood /\ CallsTyped /\ now \in Nat

\* The call of a process and the row it is on, typed.
LEMMA CallFields ==
  ASSUME Base, NEW p \in Proc
  PROVE  /\ call[p] \in Call /\ call[p].todo \in Seq(Step)
         /\ call[p].owner \in Owner \cup {NULL} /\ call[p].arg \in Words
         /\ call[p].now \in Nat /\ call[p].saw \in Row
         /\ call[p].task \in Task => rows[call[p].task] \in Good
BY DEF Base, RowsGood, CallsTyped, Call

\* Only a call that names an agent is ever at a step that takes a lease.
LEMMA TakerNamed ==
  ASSUME Base, NEW p \in Proc, At(p, "claim") \/ At(p, "begin_run")
  PROVE  call[p].owner \in Owner
<1> SUFFICES ASSUME call[p].owner \notin Owner PROVE FALSE
  OBVIOUS
<1>1. Head(call[p].todo) \in Allowed(call[p].owner, call[p].task)
  BY HeadTailProperties DEF Base, CallsTyped, StepsAllowed, At
<1> QED BY <1>1 DEF At, Allowed, Anonymous

\* Only a call that names a task is ever at a step on a row.
LEMMA TaskNamed ==
  ASSUME Base, NEW p \in Proc, call[p].todo # <<>>, Head(call[p].todo) \notin WholeTable
  PROVE  call[p].task \in Task
<1>1. Head(call[p].todo) \in Allowed(call[p].owner, call[p].task)
  BY HeadTailProperties DEF Base, CallsTyped, StepsAllowed
<1> QED BY <1>1 DEF Allowed

\* _update keeps the invariant when the row it writes is good.
LEMMA UpdateKeeps ==
  ASSUME Base, NEW p \in Proc, call[p].todo # <<>>, NEW ok \in BOOLEAN, NEW r,
         call[p].task \in Task => r \in Good, Update(p, ok, r), UNCHANGED now
  PROVE  Base'
<1>1. RowsGood /\ CallsTyped /\ now' \in Nat
  BY DEF Base
<1>2. CASE ok
  <2>1. RowsGood'
    BY <1>1, <1>2, PutKeeps DEF Update
  <2>2. CallsTyped'
    BY <1>1, <1>2, AdvanceKeeps DEF Update
  <2> QED BY <1>1, <2>1, <2>2 DEF Base
<1>3. CASE ~ok
  <2>1. RowsGood'
    BY <1>1, <1>3 DEF Update, RowsGood
  <2>2. CallsTyped'
    BY <1>1, <1>3, ReturnKeeps DEF Update
  <2> QED BY <1>1, <2>1, <2>2 DEF Base
<1> QED BY <1>2, <1>3

\* A step that leaves the table alone and goes on, returns, or keeps its place.
LEMMA ReadKeeps ==
  ASSUME Base, NEW p \in Proc, call[p].todo # <<>>, Advance(p) \/ Return(p),
         UNCHANGED <<rows, now>>
  PROVE  Base'
<1>1. CallsTyped'
  BY AdvanceKeeps, ReturnKeeps DEF Base
<1>2. RowsGood' /\ now' \in Nat
  BY DEF Base, RowsGood
<1> QED BY <1>1, <1>2 DEF Base

\* A step that changes the locals of its call.
LEMMA LocalKeeps ==
  ASSUME Base, NEW p \in Proc, NEW c \in Call, Become(p, c),
         c.todo \in Seq(Allowed(c.owner, c.task)),
         UNCHANGED <<rows, now>>
  PROVE  Base'
<1>1. CallsTyped'
  BY BecomeKeeps DEF Base
<1>2. RowsGood' /\ now' \in Nat
  BY DEF Base, RowsGood
<1> QED BY <1>1, <1>2 DEF Base

\* The calls that begin.
LEMMA BeginKeeps ==
  ASSUME Base, NEW p \in Proc, Begin(p)
  PROVE  Base'
<1>1. ASSUME NEW op \in DOMAIN Program, NEW t \in Task \cup {NULL},
             NEW o \in Owner \cup {NULL}, NEW a \in Words,
             NEW n \in BOOLEAN, n => t \in Task,
             Program[op] \in Seq(Allowed(o, t)),
             Start(p, op, t, o, a, n)
      PROVE  CallsTyped'
  <2> DEFINE saw == IF n THEN rows[t] ELSE NoRow
             c == [Idle EXCEPT !.todo = Program[op], !.op = op, !.task = t,
                     !.owner = o, !.arg = a, !.named = n, !.saw = saw]
  <2>1. saw \in Row
    <3>1. NoRow \in Row
      BY DEF NoRow, Row, Words, Status
    <3>2. n => rows[t] \in Row
      BY <1>1 DEF Base, RowsGood, Good
    <3> QED BY <3>1, <3>2
  <2>2. Program[op] \in Seq(Step)
    BY <1>1, SeqMonotonic DEF Allowed
  <2>3. c \in Call /\ c.owner = o /\ c.task = t /\ c.todo = Program[op]
    BY <1>1, <2>1, <2>2 DEF Idle, Call, Words
  <2>4. CASE c.todo # <<>>
    <3>1. Become(p, c)
      BY <1>1, <2>4 DEF Start, Become
    <3> QED BY <1>1, <2>3, <3>1, BecomeKeeps DEF Base
  <2>5. CASE c.todo = <<>>
    <3>1. call' = [call EXCEPT ![p] = c]
      BY <1>1 DEF Start
    <3> QED BY <1>1, <2>3, <3>1 DEF Base, CallsTyped, StepsAllowed
  <2> QED BY <2>4, <2>5
<1> SUFFICES CallsTyped'
  BY DEF Begin, Base, RowsGood
<1>2. AgentCalls \cup BoardCalls \cup TableCalls \cup {"create", "declare"} = DOMAIN Program
  BY ProgramType
<1>3. CASE BeginAgent(p)
  <2>1. PICK op \in Calls \cap AgentCalls, o \in Owner, n \in BOOLEAN, t \in Task,
             a \in Words : Start(p, op, t, o, a, n)
    BY <1>3 DEF BeginAgent, Words
  <2>2. Program[op] \in Seq(Allowed(o, t))
    BY ProgramAllowed
  <2> QED BY <1>1, <1>2, <2>1, <2>2
<1>4. CASE BeginBoard(p)
  <2>1. PICK op \in Calls \cap BoardCalls, n \in BOOLEAN, t \in Task,
             a \in Words : Start(p, op, t, NULL, a, n)
    BY <1>4 DEF BeginBoard, Words
  <2>2. Program[op] \in Seq(Allowed(NULL, t))
    BY ProgramAllowed
  <2> QED BY <1>1, <1>2, <2>1, <2>2
<1>5. CASE BeginCreate(p)
  <2>1. PICK t \in Created, a \in Text : Start(p, "create", t, NULL, a, FALSE)
    BY <1>5 DEF BeginCreate
  <2>2. t \in Task
    BY DEF Task
  <2>3. a \in Words
    BY DEF Words
  <2>4. Program["create"] \in Seq(Allowed(NULL, t))
    BY <2>2, ProgramAllowed
  <2> QED BY <1>1, <1>2, <2>1, <2>2, <2>3, <2>4
<1>6. CASE BeginDeclare(p)
  <2>1. PICK o \in Owner, q \in Text : Start(p, "declare", DeclaredId(o), o, q, FALSE)
    BY <1>6 DEF BeginDeclare
  <2>2. DeclaredId(o) \in Task
    BY DEF Task
  <2>3. q \in Words
    BY DEF Words
  <2>4. Program["declare"] \in Seq(Allowed(o, DeclaredId(o)))
    BY <2>2, ProgramAllowed
  <2> QED BY <1>1, <1>2, <2>1, <2>2, <2>3, <2>4
<1>7. CASE BeginTable(p)
  <2>1. PICK op \in Calls \cap TableCalls : Start(p, op, NULL, NULL, NULL, FALSE)
    BY <1>7 DEF BeginTable
  <2>2. Program[op] \in Seq(Allowed(NULL, NULL)) /\ NULL \in Words
    BY ProgramAllowed DEF Words
  <2> QED BY <1>1, <1>2, <2>1, <2>2
<1> QED BY <1>3, <1>4, <1>5, <1>6, <1>7 DEF Begin

\* The steps on one row.
LEMMA RowStepKeeps ==
  ASSUME Base, NEW p \in Proc, RowStep(p)
  PROVE  Base'
<1> DEFINE c == call[p]
           r == rows[c.task]
<1>1. /\ c \in Call /\ c.todo \in Seq(Step)
      /\ c.owner \in Owner \cup {NULL} /\ c.arg \in Words
      /\ c.now \in Nat /\ c.saw \in Row
      /\ c.task \in Task => r \in Good
  BY CallFields
<1>2. CASE Claim(p)
  <2>1. c.todo # <<>> /\ UNCHANGED now /\ c.owner \in Owner
    BY <1>2, TakerNamed DEF Claim, At
  <2>2. c.task \in Task => Taken(r, c.owner, c.now) \in Good
    BY <1>1, <2>1, TakenGood
  <2>3. \/ Put(c.task, Taken(r, c.owner, c.now)) /\ Advance(p)
        \/ UNCHANGED rows /\ (Return(p) \/ Advance(p))
    BY <1>2 DEF Claim
  <2>4. CASE Put(c.task, Taken(r, c.owner, c.now)) /\ Advance(p)
    BY <2>1, <2>2, <2>4, PutKeeps, AdvanceKeeps DEF Base
  <2>5. CASE UNCHANGED rows /\ (Return(p) \/ Advance(p))
    BY <2>1, <2>5, ReadKeeps
  <2> QED BY <2>3, <2>4, <2>5
<1>3. CASE Release(p)
  <2>1. c.todo # <<>> /\ UNCHANGED now /\ Update(p, Current(c) /\ Holds(c), Freed(r))
    BY <1>3 DEF Release, At
  <2>2. c.task \in Task => Freed(r) \in Good
    BY <1>1, FreedGood
  <2> QED BY <2>1, <2>2, UpdateKeeps
<1>4. CASE MarkWriting(p)
  <2>1. /\ c.todo # <<>> /\ UNCHANGED now
        /\ Update(p, Current(c) /\ Holds(c), [r EXCEPT !.write_open = TRUE])
    BY <1>4 DEF MarkWriting, At
  <2>2. c.task \in Task => [r EXCEPT !.write_open = TRUE] \in Good
    BY <1>1, PlainColumnsGood
  <2> QED BY <2>1, <2>2, UpdateKeeps
<1>5. CASE CompleteTask(p)
  <2> DEFINE d == [c EXCEPT !.todo = Tail(@), !.won = TRUE]
  <2>1. c.todo # <<>> /\ UNCHANGED now
    BY <1>5 DEF CompleteTask, At
  <2>2. \/ Put(c.task, Finished(r, c.arg)) /\ Become(p, d)
        \/ UNCHANGED rows /\ (Return(p) \/ Advance(p))
    BY <1>5 DEF CompleteTask
  <2>3. CASE Put(c.task, Finished(r, c.arg)) /\ Become(p, d)
    <3>1. Tail(c.todo) \in Seq(Step)
      BY <1>1, <2>1, TailOfSteps
    <3>2. d \in Call /\ d.owner = c.owner /\ d.task = c.task /\ d.todo = Tail(c.todo)
      BY <1>1, <3>1 DEF Call
    <3>3. d.todo \in Seq(Allowed(d.owner, d.task))
      BY <2>1, <3>2, TailOfSteps DEF Base, CallsTyped, StepsAllowed
    <3>4. CallsTyped'
      BY <2>3, <3>2, <3>3, BecomeKeeps DEF Base
    <3>5. RowsGood'
      BY <1>1, <2>3, DoneGood, PutKeeps DEF Base
    <3> QED BY <2>1, <3>4, <3>5 DEF Base
  <2>4. CASE UNCHANGED rows /\ (Return(p) \/ Advance(p))
    BY <2>1, <2>4, ReadKeeps
  <2> QED BY <2>2, <2>3, <2>4
<1>6. CASE Reread(p)
  <2> DEFINE d == [c EXCEPT !.todo = SubSeq(@, 6, Len(@))]
  <2>1. c.todo # <<>> /\ UNCHANGED <<rows, now>> /\ (Advance(p) \/ Become(p, d))
    BY <1>6 DEF Reread, At
  <2>2. SubSeq(c.todo, 6, Len(c.todo)) \in Seq(Step)
    BY <1>1, RestOfSteps
  <2>3. /\ d \in Call /\ d.owner = c.owner /\ d.task = c.task
        /\ d.todo = SubSeq(c.todo, 6, Len(c.todo))
    BY <1>1, <2>2 DEF Call
  <2>4. d.todo \in Seq(Allowed(d.owner, d.task))
    BY <2>3, RestOfSteps DEF Base, CallsTyped, StepsAllowed
  <2> QED BY <2>1, <2>3, <2>4, ReadKeeps, LocalKeeps
<1>7. CASE BeginRun(p)
  <2> DEFINE full == Cardinality(Running(c)) >= Cap /\ ~Holds(c)
             taken == [Taken(r, c.owner, c.now) EXCEPT !.capacity = FALSE]
  <2>1. c.todo # <<>> /\ UNCHANGED now /\ c.owner \in Owner
    BY <1>7, TakerNamed DEF BeginRun, At
  <2>2. c.task \in Task => taken \in Good /\ [r EXCEPT !.capacity = TRUE] \in Good
    <3>1. c.task \in Task => Taken(r, c.owner, c.now) \in Good
      BY <1>1, <2>1, TakenGood
    <3> QED BY <1>1, <3>1, PlainColumnsGood
  <2>3. \/ Update(p, Current(c) /\ r.status # "done", [r EXCEPT !.capacity = TRUE])
        \/ Update(p, Current(c) /\ Claimable(r, c.owner), taken)
    BY <1>7 DEF BeginRun
  <2>4. CASE Update(p, Current(c) /\ r.status # "done", [r EXCEPT !.capacity = TRUE])
    BY <2>1, <2>2, <2>4, UpdateKeeps
  <2>5. CASE Update(p, Current(c) /\ Claimable(r, c.owner), taken)
    BY <2>1, <2>2, <2>5, UpdateKeeps
  <2> QED BY <2>3, <2>4, <2>5
<1>8. CASE Present(p)
  BY <1>8, ReadKeeps DEF Present, At
<1>9. CASE Archive(p)
  <2>1. /\ c.todo # <<>> /\ UNCHANGED now
        /\ Update(p, Current(c), [Closed(r) EXCEPT !.archived = TRUE])
    BY <1>9 DEF Archive, At
  <2>2. c.task \in Task => Closed(r) \in Good
    BY <1>1, DoneGood
  <2>3. c.task \in Task => [Closed(r) EXCEPT !.archived = TRUE] \in Good
    <3> SUFFICES ASSUME c.task \in Task PROVE [Closed(r) EXCEPT !.archived = TRUE] \in Good
      OBVIOUS
    <3> DEFINE done == Closed(r)
    <3>1. done \in Good
      BY <2>2
    <3> HIDE DEF done
    <3>2. [done EXCEPT !.archived = TRUE] \in Good
      BY <3>1, PlainColumnsGood, NULL \in Words DEF Words
    <3> QED BY <3>2 DEF done
  <2> QED BY <2>1, <2>3, UpdateKeeps DEF Current, Exists
<1>10. CASE SetPlanned(p)
  <2>1. c.todo # <<>> /\ UNCHANGED now /\ Update(p, Current(c), Freed(r))
    BY <1>10 DEF SetPlanned, At
  <2>2. c.task \in Task => Freed(r) \in Good
    BY <1>1, FreedGood
  <2> QED BY <2>1, <2>2, UpdateKeeps DEF Current, Exists
<1>11. CASE SetDone(p)
  <2>1. c.todo # <<>> /\ UNCHANGED now /\ Update(p, Current(c), Closed(r))
    BY <1>11 DEF SetDone, At
  <2>2. c.task \in Task => Closed(r) \in Good
    BY <1>1, DoneGood
  <2> QED BY <2>1, <2>2, UpdateKeeps DEF Current, Exists
<1>12. CASE ReadTitle(p)
  BY <1>12, ReadKeeps DEF ReadTitle, At
<1>13. CASE Rename(p)
  <2>1. c.todo # <<>> /\ UNCHANGED now /\ Update(p, Current(c), [r EXCEPT !.title = c.arg])
    BY <1>13 DEF Rename, At
  <2>2. c.task \in Task => [r EXCEPT !.title = c.arg] \in Good
    BY <1>1, PlainColumnsGood
  <2> QED BY <2>1, <2>2, UpdateKeeps DEF Current, Exists
<1>14. CASE Insert(p)
  <2> DEFINE new == [NoRow EXCEPT !.status = "open", !.title = c.arg, !.bound = TRUE]
  <2>1. c.todo # <<>> /\ UNCHANGED now /\ rows' = [rows EXCEPT ![c.task] = new] /\ Advance(p)
    BY <1>14 DEF Insert, At
  <2>2. new \in Good
    BY <1>1, InsertedGood
  <2>3. RowsGood'
    BY <2>1, <2>2 DEF Base, RowsGood
  <2> QED BY <2>1, <2>3, AdvanceKeeps DEF Base
<1>15. CASE Lookup(p)
  <2> DEFINE d == [c EXCEPT !.todo = Tail(@), !.saw = r, !.named = TRUE]
             e == [d EXCEPT !.todo = SubSeq(c.todo, 3, Len(c.todo))]
  <2>1. c.todo # <<>> /\ UNCHANGED <<rows, now>> /\ (Return(p) \/ Become(p, d) \/ Become(p, e))
    BY <1>15 DEF Lookup, At
  <2>2. c.task \in Task
    BY <1>15, TaskNamed DEF Lookup, At, WholeTable
  <2>3. Tail(c.todo) \in Seq(Step) /\ SubSeq(c.todo, 3, Len(c.todo)) \in Seq(Step)
    BY <1>1, <2>1, TailOfSteps, RestOfSteps
  <2>4. /\ d \in Call /\ d.owner = c.owner /\ d.task = c.task /\ d.todo = Tail(c.todo)
        /\ e \in Call /\ e.owner = c.owner /\ e.task = c.task
        /\ e.todo = SubSeq(c.todo, 3, Len(c.todo))
    BY <1>1, <2>2, <2>3, GoodFields DEF Call
  <2>5. d.todo \in Seq(Allowed(d.owner, d.task)) /\ e.todo \in Seq(Allowed(e.owner, e.task))
    <3>1. c.todo \in Seq(Allowed(c.owner, c.task))
      BY DEF Base, CallsTyped, StepsAllowed
    <3>2. Tail(c.todo) \in Seq(Allowed(c.owner, c.task))
      BY <2>1, <3>1, TailOfSteps, Zenon
    <3>3. 3 \in Nat \ {0}
      OBVIOUS
    <3>4. SubSeq(c.todo, 3, Len(c.todo)) \in Seq(Allowed(c.owner, c.task))
      BY <3>1, <3>3, RestOfSteps, Zenon
    <3> QED BY <2>4, <3>2, <3>4
  <2> QED BY <2>1, <2>4, <2>5, ReadKeeps, LocalKeeps
<1>16. CASE Bind(p)
  <2>1. /\ c.todo # <<>> /\ UNCHANGED now
        /\ Update(p, Current(c) /\ ~r.bound, [r EXCEPT !.bound = TRUE])
    BY <1>16 DEF Bind, At
  <2>2. c.task \in Task => [r EXCEPT !.bound = TRUE] \in Good
    BY <1>1, PlainColumnsGood
  <2> QED BY <2>1, <2>2, UpdateKeeps
<1>17. CASE Relocate(p)
  BY <1>1, <1>17, UpdateKeeps DEF Relocate, At
<1> QED BY <1>2, <1>3, <1>4, <1>5, <1>6, <1>7, <1>8, <1>9, <1>10, <1>11, <1>12,
           <1>13, <1>14, <1>15, <1>16, <1>17 DEF RowStep

\* The steps of declared() before its claim.
LEMMA DeclareStepKeeps ==
  ASSUME Base, NEW p \in Proc, DeclareStep(p)
  PROVE  Base'
<1> DEFINE c == call[p]
           r == rows[c.task]
           S == Allowed(c.owner, c.task)
<1>1. /\ c \in Call /\ c.todo \in Seq(Step)
      /\ c.owner \in Owner \cup {NULL} /\ c.arg \in Words
      /\ c.saw \in Row
      /\ c.task \in Task => r \in Good
  BY CallFields
<1>2. c.todo # <<>> /\ c.task \in Task /\ now' = now
  BY TaskNamed DEF DeclareStep, Existing, Probe, Copy, Reopen, Upsert, At, WholeTable
<1>3. c.todo \in Seq(S)
  BY DEF Base, CallsTyped, StepsAllowed
<1>4. Tail(c.todo) \in Seq(S) /\ Tail(c.todo) \in Seq(Step)
  BY <1>1, <1>2, <1>3, TailOfSteps, Zenon
<1>5. CASE Existing(p)
  <2> DEFINE closing == IF r.purpose \in {NULL, c.arg} THEN <<>>
                        ELSE SettleLapsed \o <<"probe", "copy", "reopen">>
             d == [c EXCEPT !.todo = closing \o Tail(@), !.saw = r]
  <2>1. Become(p, d) /\ UNCHANGED <<rows, now>>
    BY <1>5 DEF Existing
  <2>2. closing \in Seq(Anonymous)
    <3>1. SettleLapsed \o <<"probe", "copy", "reopen">> \in Seq(Anonymous)
      <4>1. /\ <<"probe", "copy", "reopen">> \in Seq(Anonymous)
            /\ {"look", "settle"} \subseteq Anonymous
        BY DEF Anonymous, Step
      <4> QED BY <4>1, SettleType, ConcatProperties, Zenon
    <3>2. <<>> \in Seq(Anonymous)
      BY EmptySeq
    <3> QED BY <3>1, <3>2, Zenon
  <2>3. Anonymous \subseteq S /\ Anonymous \subseteq Step
    BY <1>2 DEF Allowed, Anonymous
  <2>4. closing \in Seq(S) /\ closing \in Seq(Step)
    <3> HIDE DEF closing, S
    <3> QED BY <2>2, <2>3, SeqMonotonic, Zenon
  <2>5. closing \o Tail(c.todo) \in Seq(S) /\ closing \o Tail(c.todo) \in Seq(Step)
    BY <1>4, <2>4, ConcatProperties, Zenon
  <2>6. /\ d \in Call /\ d.owner = c.owner /\ d.task = c.task
        /\ d.todo = closing \o Tail(c.todo)
    <3> HIDE DEF closing
    <3> QED BY <1>1, <1>2, <2>5, GoodFields DEF Call
  <2>7. d.todo \in Seq(Allowed(d.owner, d.task))
    BY <2>5, <2>6
  <2> QED BY <2>1, <2>6, <2>7, LocalKeeps
<1>6. CASE Probe(p)
  <2> DEFINE rest == IF Exists(ClosedId(c.owner, c.saw.purpose))
                     THEN SubSeq(c.todo, 3, Len(c.todo)) ELSE Tail(c.todo)
             d == [c EXCEPT !.todo = rest]
  <2>1. Become(p, d) /\ UNCHANGED <<rows, now>>
    BY <1>6 DEF Probe
  <2>2. 3 \in Nat \ {0}
    OBVIOUS
  <2>3. /\ SubSeq(c.todo, 3, Len(c.todo)) \in Seq(S)
        /\ SubSeq(c.todo, 3, Len(c.todo)) \in Seq(Step)
    BY <1>1, <1>3, <2>2, RestOfSteps, Zenon
  <2>4. rest \in Seq(S) /\ rest \in Seq(Step)
    BY <1>4, <2>3
  <2>5. d \in Call /\ d.owner = c.owner /\ d.task = c.task /\ d.todo = rest
    <3> HIDE DEF rest
    <3> QED BY <1>1, <2>4 DEF Call
  <2>6. d.todo \in Seq(Allowed(d.owner, d.task))
    BY <2>4, <2>5
  <2> QED BY <2>1, <2>5, <2>6, LocalKeeps
<1>7. CASE Copy(p)
  <2> DEFINE t == ClosedId(c.owner, c.saw.purpose)
             new == [NoRow EXCEPT !.status = "done", !.owner = c.saw.owner,
                       !.title = c.saw.title, !.purpose = c.saw.purpose, !.result = "closed"]
  <2>1. \/ rows' = [rows EXCEPT ![t] = new] /\ Advance(p)
        \/ UNCHANGED rows /\ Return(p)
    BY <1>7 DEF Copy
  <2>2. c.saw.owner \in Owner \cup {NULL} /\ c.saw.title \in Words /\ c.saw.purpose \in Words
    BY <1>1 DEF Row
  <2>3. new \in Good
    BY <2>2, InsertedGood
  <2>4. CASE rows' = [rows EXCEPT ![t] = new] /\ Advance(p)
    <3>1. RowsGood'
      <4> HIDE DEF t, new
      <4> QED BY <2>3, <2>4 DEF Base, RowsGood
    <3> QED BY <1>2, <2>4, <3>1, AdvanceKeeps DEF Base
  <2>5. CASE UNCHANGED rows /\ Return(p)
    BY <1>2, <2>5, ReadKeeps
  <2> QED BY <2>1, <2>4, <2>5
<1>8. CASE Reopen(p)
  <2> DEFINE free == Freed(r)
  <2>1. Advance(p) /\ (Put(c.task, [free EXCEPT !.result = NULL]) \/ UNCHANGED rows)
    BY <1>8 DEF Reopen
  <2>2. free \in Good
    BY <1>1, <1>2, FreedGood
  <2>3. [free EXCEPT !.result = NULL] \in Good
    <3> HIDE DEF free
    <3> QED BY <2>2, PlainColumnsGood, NULL \in Words DEF Words
  <2>4. RowsGood'
    <3> HIDE DEF free
    <3>1. CASE UNCHANGED rows
      BY <3>1 DEF Base, RowsGood
    <3>2. CASE Put(c.task, [free EXCEPT !.result = NULL])
      BY <2>3, <3>2, PutKeeps DEF Base
    <3> QED BY <2>1, <3>1, <3>2
  <2> QED BY <1>2, <2>1, <2>4, AdvanceKeeps DEF Base
<1>9. CASE Upsert(p)
  <2> DEFINE told(x) == [x EXCEPT !.title = c.arg, !.purpose = c.arg]
             new == [told(NoRow) EXCEPT !.status = "open"]
  <2>1. /\ Advance(p)
        /\ \/ rows' = [rows EXCEPT ![c.task] = new]
           \/ UNCHANGED rows
           \/ Put(c.task, told(r))
    BY <1>9 DEF Upsert
  <2>2. new \in Good
    BY <1>1, InsertedGood
  <2>3. told(r) \in Good
    BY <1>1, <1>2, PlainColumnsGood
  <2>4. RowsGood'
    <3>1. CASE rows' = [rows EXCEPT ![c.task] = new]
      <4> HIDE DEF new
      <4> QED BY <2>2, <3>1 DEF Base, RowsGood
    <3>2. CASE UNCHANGED rows
      BY <3>2 DEF Base, RowsGood
    <3>3. CASE Put(c.task, told(r))
      <4> HIDE DEF told
      <4> QED BY <2>3, <3>3, PutKeeps DEF Base
    <3> QED BY <2>1, <3>1, <3>2, <3>3
  <2> QED BY <1>2, <2>1, <2>4, AdvanceKeeps DEF Base
<1> QED BY <1>5, <1>6, <1>7, <1>8, <1>9 DEF DeclareStep

\* The steps on the whole table.
LEMMA TableStepKeeps ==
  ASSUME Base, NEW p \in Proc, TableStep(p)
  PROVE  Base'
<1> DEFINE c == call[p]
           S == Allowed(c.owner, c.task)
<1>1. c \in Call /\ c.todo \in Seq(Step)
  BY CallFields
<1>2. c.todo # <<>> /\ now' = now
  BY DEF TableStep, Look, Settle, Clock, Missing, BindAll, Held, Fold, At
<1>3. c.todo \in Seq(S)
  BY DEF Base, CallsTyped, StepsAllowed
<1>4. Tail(c.todo) \in Seq(S) /\ Tail(c.todo) \in Seq(Step)
  BY <1>1, <1>2, <1>3, TailOfSteps, Zenon
\* A step that only records what it read, or what it has done.
<1>5. ASSUME NEW n \in Nat, NEW m \in Nat, NEW h \in SUBSET Task,
             Become(p, [c EXCEPT !.todo = Tail(@), !.now = n, !.at = m, !.held = h])
      PROVE  CallsTyped'
  <2> DEFINE d == [c EXCEPT !.todo = Tail(@), !.now = n, !.at = m, !.held = h]
  <2>1. d \in Call /\ d.owner = c.owner /\ d.task = c.task /\ d.todo = Tail(c.todo)
    BY <1>1, <1>4 DEF Call
  <2>2. d.todo \in Seq(Allowed(d.owner, d.task))
    BY <1>4, <2>1
  <2> QED BY <1>5, <2>1, <2>2, BecomeKeeps DEF Base
<1>6. c.now \in Nat /\ c.at \in Nat /\ c.held \in SUBSET Task /\ now \in Nat
  BY <1>1 DEF Call, Base
<1>7. CASE Settle(p)
  <2>1. \A t \in Task : rows[t] \in Good /\ Settled(rows[t]) \in Good
    BY FreedGood DEF Base, RowsGood
  <2>2. RowsGood'
    BY <1>7, <2>1 DEF Settle, RowsGood
  <2>3. [c EXCEPT !.todo = Tail(@), !.at = 0]
          = [c EXCEPT !.todo = Tail(@), !.now = c.now, !.at = 0, !.held = c.held]
    BY <1>1 DEF Call
  <2>4. CallsTyped'
    BY <1>5, <1>6, <1>7, <2>3, 0 \in Nat DEF Settle
  <2> QED BY <1>2, <2>2, <2>4 DEF Base
<1>8. CASE Clock(p) \/ Look(p)
  <2>1. /\ [c EXCEPT !.todo = Tail(@), !.now = now]
             = [c EXCEPT !.todo = Tail(@), !.now = now, !.at = c.at, !.held = c.held]
        /\ [c EXCEPT !.todo = Tail(@), !.at = now]
             = [c EXCEPT !.todo = Tail(@), !.now = c.now, !.at = now, !.held = c.held]
    BY <1>1 DEF Call
  <2>2. CallsTyped'
    BY <1>5, <1>6, <1>8, <2>1 DEF Clock, Look
  <2> QED BY <1>8, <2>2 DEF Clock, Look, Base, RowsGood
<1>9. CASE Missing(p)
  <2> DEFINE h == {t \in Task : Exists(t) /\ ~rows[t].bound}
  <2>1. [c EXCEPT !.todo = Tail(@), !.held = h]
          = [c EXCEPT !.todo = Tail(@), !.now = c.now, !.at = c.at, !.held = h]
    BY <1>1 DEF Call
  <2>2. CallsTyped'
    BY <1>5, <1>6, <1>9, <2>1 DEF Missing
  <2> QED BY <1>9, <2>2 DEF Missing, Base, RowsGood
<1>10. CASE BindAll(p)
  <2>1. [c EXCEPT !.todo = Tail(@), !.held = {}]
          = [c EXCEPT !.todo = Tail(@), !.now = c.now, !.at = c.at, !.held = {}]
    BY <1>1 DEF Call
  <2>2. CallsTyped'
    BY <1>5, <1>6, <1>10, <2>1 DEF BindAll
  <2>3. \A t \in Task : rows[t] \in Good /\ Bumped([rows[t] EXCEPT !.bound = TRUE]) \in Good
    <3> SUFFICES ASSUME NEW t \in Task
                 PROVE  rows[t] \in Good /\ Bumped([rows[t] EXCEPT !.bound = TRUE]) \in Good
      OBVIOUS
    <3>1. rows[t] \in Good
      BY DEF Base, RowsGood
    <3>2. [rows[t] EXCEPT !.bound = TRUE] \in Good
      BY <3>1, PlainColumnsGood, NULL \in Words DEF Words
    <3> QED BY <3>1, <3>2, BumpedGood
  <2>4. RowsGood'
    BY <1>10, <2>3 DEF BindAll, RowsGood
  <2> QED BY <1>2, <2>2, <2>4 DEF Base
<1>11. CASE Held(p)
  <2>1. PICK h \in SUBSET Task : Become(p, [c EXCEPT !.todo = Tail(@), !.held = h])
    BY <1>11 DEF Held
  <2>2. [c EXCEPT !.todo = Tail(@), !.held = h]
          = [c EXCEPT !.todo = Tail(@), !.now = c.now, !.at = c.at, !.held = h]
    BY <1>1 DEF Call
  <2>3. CallsTyped'
    BY <1>5, <1>6, <2>1, <2>2
  <2> QED BY <1>11, <2>3 DEF Held, Base, RowsGood
<1>12. CASE Fold(p)
  <2>1. CASE Advance(p) /\ UNCHANGED rows
    BY <1>2, <2>1, ReadKeeps
  <2>2. CASE \E t \in c.held : /\ call' = [call EXCEPT ![p].held = @ \ {t}]
                               /\ \/ UNCHANGED rows
                                  \/ Put(t, [rows[t] EXCEPT !.archived = TRUE])
    <3>1. PICK t \in c.held : /\ call' = [call EXCEPT ![p].held = @ \ {t}]
                              /\ \/ UNCHANGED rows
                                 \/ Put(t, [rows[t] EXCEPT !.archived = TRUE])
      BY <2>2
    <3> DEFINE d == [c EXCEPT !.held = @ \ {t}]
    <3>2. /\ d \in Call /\ d.owner = c.owner /\ d.task = c.task /\ d.todo = c.todo
      BY <1>1, <1>6 DEF Call
    <3>3. Become(p, d)
      BY <1>2, <3>1, <3>2 DEF Become
    <3>4. CallsTyped'
      BY <1>3, <3>2, <3>3, BecomeKeeps DEF Base
    <3>5. t \in Task => [rows[t] EXCEPT !.archived = TRUE] \in Good
      BY PlainColumnsGood, NULL \in Words DEF Base, RowsGood, Words
    <3>6. RowsGood'
      BY <3>1, <3>5, PutKeeps DEF Base, RowsGood
    <3> QED BY <1>2, <3>4, <3>6 DEF Base
  <2> QED BY <1>12, <2>1, <2>2 DEF Fold
<1> QED BY <1>7, <1>8, <1>9, <1>10, <1>11, <1>12 DEF TableStep

\* Every step keeps the invariant.
LEMMA NextKeeps ==
  ASSUME Base, [Next]_vars
  PROVE  Base'
<1>1. CASE UNCHANGED vars
  BY <1>1 DEF vars, Base, RowsGood, CallsTyped, StepsAllowed
<1>2. CASE Tick
  BY <1>2 DEF Tick, Base, RowsGood, CallsTyped, StepsAllowed
<1>3. ASSUME NEW p \in Proc, Begin(p) \/ StepOf(p) \/ Abort(p)
      PROVE  Base'
  BY <1>3, BeginKeeps, RowStepKeeps, DeclareStepKeeps, TableStepKeeps, ReadKeeps
     DEF StepOf, Abort
<1> QED BY <1>1, <1>2, <1>3 DEF Next

\* The table starts empty and no call is running.
LEMMA InitBase == Init => Base
<1> SUFFICES ASSUME Init PROVE Base
  OBVIOUS
<1>1. <<>> \in Seq(Step) /\ <<>> \in Seq(Allowed(Idle.owner, Idle.task))
  BY EmptySeq
<1>2. Idle \in Call /\ Idle.todo = <<>>
  BY <1>1 DEF Idle, Call, NoRow, Row, Words, Status
<1>3. CallsTyped
  BY <1>1, <1>2 DEF Init, CallsTyped, StepsAllowed
<1>4. NoRow \in Good
  BY InsertedGood, NULL \in Words DEF Words
<1> QED BY <1>3, <1>4 DEF Init, Base, RowsGood

\* The inductive invariant holds in every reachable state.
LEMMA BaseHolds == Spec => []Base
<1>1. Base /\ [Next]_vars => Base'
  BY NextKeeps
<1> QED BY <1>1, InitBase, PTL DEF Spec

\* Every variable of the task table has its type in every reachable state.
THEOREM TypeCorrect == Spec => []TypeOK
<1>1. Base => TypeOK
  BY DEF Base, RowsGood, Good, CallsTyped, TypeOK
<1> QED BY <1>1, BaseHolds, PTL

\* The status, owner, lease and outcome columns of every row agree, whatever
\* calls interleave: settle, claim and release may each test only one of them.
THEOREM LeaseAlwaysConsistent == Spec => []LeaseConsistent
<1>1. Base => LeaseConsistent
  BY DEF Base, RowsGood, Good, LeaseConsistent
<1> QED BY <1>1, BaseHolds, PTL

-----------------------------------------------------------------------------
(* Revisions: no write is lost. *)

\* s is r, or the next version of a row that exists.
Moves(r, s) ==
  s = r \/ (s.revision = r.revision + 1 /\ (r.status # "absent" => s.status # "absent"))
\* An id that was not in the table may have been inserted.
RowsMove == \A t \in Task : rows[t].status = "absent" \/ Moves(rows[t], rows'[t])

\* A row before its revision is counted up.
Same(r, s) == /\ s \in Row /\ s.revision = r.revision
              /\ r.status # "absent" => s.status # "absent"

\* Every row that a statement builds carries the revision of the row it read.
LEMMA BuiltSame ==
  ASSUME NEW r \in Good, NEW o \in Owner \cup {NULL}, NEW t \in Nat, NEW a \in Words
  PROVE  /\ Same(r, r) /\ Same(r, Freed(r)) /\ Same(r, Taken(r, o, t))
         /\ Same(r, [Taken(r, o, t) EXCEPT !.capacity = FALSE])
         /\ Same(r, Finished(r, a)) /\ Same(r, Closed(r))
         /\ Same(r, [Closed(r) EXCEPT !.archived = TRUE])
         /\ Same(r, [Freed(r) EXCEPT !.result = NULL])
         /\ Same(r, [r EXCEPT !.write_open = TRUE])
         /\ Same(r, [r EXCEPT !.capacity = TRUE])
         /\ Same(r, [r EXCEPT !.archived = TRUE])
         /\ Same(r, [r EXCEPT !.bound = TRUE])
         /\ Same(r, [r EXCEPT !.title = a])
         /\ Same(r, [r EXCEPT !.title = a, !.purpose = a])
         /\ Moves(r, Settled(r)) /\ Moves(r, Bumped([r EXCEPT !.bound = TRUE]))
<1>1. r \in Row /\ t + Lease \in Nat /\ NULL \in Words
  <2>1. r \in Row
    BY DEF Good
  <2>2. t + Lease \in Nat
    BY ConstantsAssumption
  <2>3. NULL \in Words
    BY DEF Words
  <2> QED BY <2>1, <2>2, <2>3
<1>2. /\ Same(r, r) /\ Same(r, Freed(r)) /\ Same(r, Taken(r, o, t))
      /\ Same(r, [Taken(r, o, t) EXCEPT !.capacity = FALSE])
      /\ Same(r, Finished(r, a)) /\ Same(r, Closed(r))
      /\ Same(r, [Closed(r) EXCEPT !.archived = TRUE])
      /\ Same(r, [Freed(r) EXCEPT !.result = NULL])
  BY <1>1 DEF Row, Status, Same, Freed, Taken, Finished, Closed
<1>3. /\ Same(r, [r EXCEPT !.write_open = TRUE])
      /\ Same(r, [r EXCEPT !.capacity = TRUE])
      /\ Same(r, [r EXCEPT !.archived = TRUE])
      /\ Same(r, [r EXCEPT !.bound = TRUE])
      /\ Same(r, [r EXCEPT !.title = a])
      /\ Same(r, [r EXCEPT !.title = a, !.purpose = a])
  BY <1>1 DEF Row, Same
<1>4. Moves(r, Settled(r)) /\ Moves(r, Bumped([r EXCEPT !.bound = TRUE]))
  BY <1>1 DEF Row, Moves, Settled, Freed, Bumped
<1> QED BY <1>2, <1>3, <1>4

\* A write of one row.
LEMMA PutMoves ==
  ASSUME Base, NEW t, NEW r, t \in Task => Same(rows[t], r), Put(t, r)
  PROVE  RowsMove
<1>1. rows \in [Task -> Row]
  BY DEF Base, RowsGood, Good
<1>2. r \in Row => Bumped(r).revision = r.revision + 1 /\ Bumped(r).status = r.status
  BY DEF Bumped, Row
<1>3. \A u \in Task : rows'[u] = IF u = t THEN Bumped(r) ELSE rows[u]
  BY <1>1 DEF Put
<1> QED BY <1>2, <1>3 DEF RowsMove, Moves, Same

\* A table that a step leaves alone.
LEMMA StillMoves ==
  ASSUME UNCHANGED rows
  PROVE  RowsMove
BY DEF RowsMove, Moves

\* _update moves at most the row it writes.
LEMMA UpdateMoves ==
  ASSUME Base, NEW p \in Proc, NEW ok \in BOOLEAN, NEW r,
         call[p].task \in Task => Same(rows[call[p].task], r), Update(p, ok, r)
  PROVE  RowsMove
BY PutMoves, StillMoves DEF Update

\* Every step of a process moves rows forward by one revision, or not at all.
LEMMA StepMoves ==
  ASSUME Base, NEW p \in Proc, StepOf(p)
  PROVE  RowsMove
<1> DEFINE c == call[p]
           r == rows[c.task]
<1>1. /\ c.owner \in Owner \cup {NULL} /\ c.arg \in Words /\ c.now \in Nat
      /\ c.task \in Task => r \in Good
      /\ \A t \in Task : rows[t] \in Good
      /\ NULL \in Words /\ 0 \in Nat
  BY CallFields DEF Base, RowsGood, Words
<1>2. CASE Claim(p)
  <2>1. c.task \in Task => Same(r, Taken(r, c.owner, c.now))
    BY <1>1, BuiltSame
  <2> QED BY <1>2, <2>1, PutMoves, StillMoves DEF Claim
<1>3. CASE Release(p) \/ SetPlanned(p)
  <2>1. c.task \in Task => Same(r, Freed(r))
    BY <1>1, BuiltSame
  <2> QED BY <1>3, <2>1, UpdateMoves DEF Release, SetPlanned, Current, Exists
<1>4. CASE MarkWriting(p)
  <2>1. c.task \in Task => Same(r, [r EXCEPT !.write_open = TRUE])
    BY <1>1, BuiltSame
  <2> QED BY <1>4, <2>1, UpdateMoves DEF MarkWriting
<1>5. CASE CompleteTask(p)
  <2>1. c.task \in Task => Same(r, Finished(r, c.arg))
    BY <1>1, BuiltSame
  <2> QED BY <1>5, <2>1, PutMoves, StillMoves DEF CompleteTask
<1>6. CASE BeginRun(p)
  <2> DEFINE taken == [Taken(r, c.owner, c.now) EXCEPT !.capacity = FALSE]
  <2>1. c.task \in Task => Same(r, taken) /\ Same(r, [r EXCEPT !.capacity = TRUE])
    BY <1>1, BuiltSame
  <2>2. \/ Update(p, Current(c) /\ r.status # "done", [r EXCEPT !.capacity = TRUE])
        \/ Update(p, Current(c) /\ Claimable(r, c.owner), taken)
    BY <1>6 DEF BeginRun
  <2> HIDE DEF taken
  <2>3. CASE Update(p, Current(c) /\ r.status # "done", [r EXCEPT !.capacity = TRUE])
    BY <2>1, <2>3, UpdateMoves
  <2>4. CASE Update(p, Current(c) /\ Claimable(r, c.owner), taken)
    BY <2>1, <2>4, UpdateMoves
  <2> QED BY <2>2, <2>3, <2>4
<1>7. CASE Archive(p)
  <2>1. c.task \in Task => Same(r, [Closed(r) EXCEPT !.archived = TRUE])
    BY <1>1, BuiltSame
  <2> QED BY <1>7, <2>1, UpdateMoves DEF Archive, Current, Exists
<1>8. CASE SetDone(p)
  <2>1. c.task \in Task => Same(r, Closed(r))
    BY <1>1, BuiltSame
  <2> QED BY <1>8, <2>1, UpdateMoves DEF SetDone, Current, Exists
<1>9. CASE Rename(p)
  <2>1. c.task \in Task => Same(r, [r EXCEPT !.title = c.arg])
    BY <1>1, BuiltSame
  <2> QED BY <1>9, <2>1, UpdateMoves DEF Rename, Current, Exists
<1>10. CASE Insert(p)
  <2>1. /\ r.status = "absent"
        /\ \E n : rows' = [rows EXCEPT ![c.task] = n]
    BY <1>10 DEF Insert, Exists
  <2> QED BY <2>1 DEF RowsMove, Moves, Base, RowsGood
<1>11. CASE Bind(p)
  <2>1. c.task \in Task => Same(r, [r EXCEPT !.bound = TRUE])
    BY <1>1, BuiltSame
  <2> QED BY <1>11, <2>1, UpdateMoves DEF Bind
<1>12. CASE Relocate(p)
  <2>1. c.task \in Task => Same(r, r)
    BY <1>1, BuiltSame
  <2> QED BY <1>12, <2>1, UpdateMoves DEF Relocate, Exists
<1>13. CASE Copy(p)
  <2> DEFINE t == ClosedId(c.owner, c.saw.purpose)
  <2>1. \/ rows[t].status = "absent" /\ \E n : rows' = [rows EXCEPT ![t] = n]
        \/ UNCHANGED rows
    BY <1>13 DEF Copy, Exists
  <2> HIDE DEF t
  <2> QED BY <2>1, StillMoves DEF RowsMove, Moves, Base, RowsGood
<1>14. CASE Reopen(p)
  <2>1. c.task \in Task => Same(r, [Freed(r) EXCEPT !.result = NULL])
    BY <1>1, BuiltSame
  <2> QED BY <1>14, <2>1, PutMoves, StillMoves DEF Reopen
<1>15. CASE Upsert(p)
  <2> DEFINE told == [r EXCEPT !.title = c.arg, !.purpose = c.arg]
  <2>1. \/ r.status = "absent" /\ \E n : rows' = [rows EXCEPT ![c.task] = n]
        \/ UNCHANGED rows
        \/ Put(c.task, told)
    BY <1>15 DEF Upsert
  <2>2. c.task \in Task => Same(r, told)
    BY <1>1, BuiltSame
  <2> HIDE DEF told
  <2>3. CASE r.status = "absent" /\ \E n : rows' = [rows EXCEPT ![c.task] = n]
    BY <2>3 DEF RowsMove, Moves, Base, RowsGood
  <2>4. CASE Put(c.task, told)
    BY <2>2, <2>4, PutMoves
  <2> QED BY <2>1, <2>3, <2>4, StillMoves
<1>16. CASE Settle(p)
  <2>1. \A t \in Task : Moves(rows[t], Settled(rows[t]))
    BY <1>1, BuiltSame
  <2> QED BY <1>16, <2>1 DEF Settle, RowsMove, Moves
<1>17. CASE BindAll(p)
  <2>1. \A t \in Task : Moves(rows[t], Bumped([rows[t] EXCEPT !.bound = TRUE]))
    BY <1>1, BuiltSame
  <2> QED BY <1>17, <2>1 DEF BindAll, RowsMove, Moves
<1>18. CASE Fold(p)
  <2>1. \/ UNCHANGED rows
        \/ \E t : Put(t, [rows[t] EXCEPT !.archived = TRUE])
    BY <1>18 DEF Fold
  <2>2. \A t \in Task : Same(rows[t], [rows[t] EXCEPT !.archived = TRUE])
    BY <1>1, BuiltSame
  <2> QED BY <2>1, <2>2, PutMoves, StillMoves
<1>19. CASE Reread(p) \/ Present(p) \/ ReadTitle(p) \/ Lookup(p) \/ Existing(p)
            \/ Probe(p) \/ Look(p) \/ Clock(p) \/ Missing(p) \/ Held(p)
  BY <1>19, StillMoves DEF Reread, Present, ReadTitle, Lookup, Existing, Probe,
     Look, Clock, Missing, Held
<1> QED BY <1>2, <1>3, <1>4, <1>5, <1>6, <1>7, <1>8, <1>9, <1>10, <1>11, <1>12, <1>13,
           <1>14, <1>15, <1>16, <1>17, <1>18, <1>19 DEF StepOf, RowStep, DeclareStep, TableStep

\* The row that a call with a revision has read: the table holds that row, or
\* a later revision of it.
SawCurrent ==
  \A p \in Proc : LET c == call[p] IN
    (c.named /\ c.todo # <<>>) =>
      /\ c.task \in Task /\ Exists(c.task)
      /\ rows[c.task].revision >= c.saw.revision
      /\ rows[c.task].revision = c.saw.revision => rows[c.task] = c.saw

\* What a step may do to what a call has read: nothing, forget it, or read anew.
CallMoves(p) ==
  /\ \A q \in Proc \ {p} : call'[q] = call[q]
  /\ \/ call'[p].todo = <<>> \/ ~call'[p].named
     \/ /\ call[p].todo # <<>> /\ call'[p].task = call[p].task
        /\ call'[p].named = call[p].named /\ call'[p].saw = call[p].saw
     \/ /\ UNCHANGED rows /\ call'[p].task \in Task
        /\ call'[p].saw = rows[call'[p].task]
        /\ Exists(call'[p].task) \/ /\ call[p].named /\ call[p].todo # <<>>
                                    /\ call'[p].task = call[p].task

\* The process that returns, or that goes on with the same locals.
LEMMA PlainMoves ==
  ASSUME Base, NEW p \in Proc,
         \/ Return(p)
         \/ call[p].todo # <<>> /\ Advance(p)
         \/ \E c : /\ Become(p, c) /\ call[p].todo # <<>> /\ c.task = call[p].task
                   /\ c.named = call[p].named /\ c.saw = call[p].saw
  PROVE  CallMoves(p)
<1>1. call \in [Proc -> Call] /\ call[p] \in Call /\ Idle.todo = <<>>
  BY DEF Base, CallsTyped, Idle
<1>2. CASE Return(p)
  BY <1>1, <1>2 DEF Return, CallMoves
<1>3. ASSUME NEW c, Become(p, c), call[p].todo # <<>>, c.task = call[p].task,
             c.named = call[p].named, c.saw = call[p].saw
      PROVE  CallMoves(p)
  BY <1>1, <1>3 DEF Become, CallMoves
<1>4. CASE call[p].todo # <<>> /\ Advance(p)
  <2> DEFINE c == [call[p] EXCEPT !.todo = Tail(@)]
  <2>1. c.task = call[p].task /\ c.named = call[p].named /\ c.saw = call[p].saw
    BY <1>1 DEF Call
  <2> QED BY <1>3, <1>4, <2>1 DEF Advance
<1> QED BY <1>2, <1>3, <1>4

\* Every step of a process treats what it has read in one of those ways.
LEMMA StepCallMoves ==
  ASSUME Base, NEW p \in Proc, Begin(p) \/ StepOf(p) \/ Abort(p)
  PROVE  CallMoves(p)
<1> DEFINE c == call[p]
<1>1. call \in [Proc -> Call] /\ c \in Call /\ Idle.todo = <<>>
  BY DEF Base, CallsTyped, Idle
<1>2. CASE Abort(p)
  BY <1>2, PlainMoves DEF Abort
<1>3. CASE Begin(p)
  <2>1. UNCHANGED rows
    BY <1>3 DEF Begin
  <2>2. ASSUME NEW op, NEW t, NEW o, NEW a, NEW n \in BOOLEAN, Start(p, op, t, o, a, n),
               n => t \in Task /\ Exists(t)
        PROVE  CallMoves(p)
    <3>1. /\ \A q \in Proc \ {p} : call'[q] = call[q]
          /\ call'[p] = [Idle EXCEPT !.todo = Program[op], !.op = op, !.task = t,
                           !.owner = o, !.arg = a, !.named = n,
                           !.saw = IF n THEN rows[t] ELSE NoRow]
      BY <1>1, <2>2 DEF Start
    <3>2. call'[p].named = n /\ call'[p].task = t /\ (n => call'[p].saw = rows[t])
      BY <3>1 DEF Idle
    <3> QED BY <2>1, <2>2, <3>1, <3>2 DEF CallMoves
  <2>3. CASE BeginAgent(p) \/ BeginBoard(p)
    BY <2>2, <2>3 DEF BeginAgent, BeginBoard
  <2>4. CASE BeginCreate(p) \/ BeginDeclare(p) \/ BeginTable(p)
    BY <2>2, <2>4 DEF BeginCreate, BeginDeclare, BeginTable
  <2> QED BY <1>3, <2>3, <2>4 DEF Begin
<1>4. CASE StepOf(p)
  <2>1. c.todo # <<>>
    BY <1>4 DEF StepOf, RowStep, DeclareStep, TableStep, Claim, Release, MarkWriting,
       CompleteTask, Reread, BeginRun, Present, Archive, SetPlanned, SetDone, ReadTitle,
       Rename, Insert, Lookup, Bind, Relocate, Existing, Probe, Copy, Reopen, Upsert,
       Look, Settle, Clock, Missing, BindAll, Held, Fold, At
  <2>2. CASE Return(p) \/ Advance(p)
    BY <2>1, <2>2, PlainMoves
  <2>3. CASE CompleteTask(p)
    <3> DEFINE d == [c EXCEPT !.todo = Tail(@), !.won = TRUE]
    <3>1. d.task = c.task /\ d.named = c.named /\ d.saw = c.saw
      BY <1>1 DEF Call
    <3>2. Return(p) \/ Advance(p) \/ Become(p, d)
      BY <2>3 DEF CompleteTask
    <3> QED BY <2>1, <2>2, <3>1, <3>2, PlainMoves
  <2>4. CASE Reread(p)
    <3> DEFINE d == [c EXCEPT !.todo = SubSeq(@, 6, Len(@))]
    <3>1. d.task = c.task /\ d.named = c.named /\ d.saw = c.saw
      BY <1>1 DEF Call
    <3>2. Advance(p) \/ Become(p, d)
      BY <2>4 DEF Reread
    <3> QED BY <2>1, <2>2, <3>1, <3>2, PlainMoves
  <2>5. CASE Lookup(p)
    <3> DEFINE d == [c EXCEPT !.todo = Tail(@), !.saw = rows[c.task], !.named = TRUE]
               e == [d EXCEPT !.todo = SubSeq(c.todo, 3, Len(c.todo))]
    <3>1. c.task \in Task
      BY <2>1, <2>5, TaskNamed DEF Lookup, At, WholeTable
    <3>2. /\ d.task = c.task /\ d.saw = rows[c.task]
          /\ e.task = c.task /\ e.saw = rows[c.task]
      BY <1>1 DEF Call
    <3>3. UNCHANGED rows /\ (Return(p) \/ (Exists(c.task) /\ (Become(p, d) \/ Become(p, e))))
      BY <2>5 DEF Lookup
    <3>4. ASSUME NEW x, x = d \/ x = e, Become(p, x), Exists(c.task)
          PROVE  CallMoves(p)
      <4>1. call' = [call EXCEPT ![p] = IF x.todo = <<>> THEN Idle ELSE x]
        BY <3>4 DEF Become
      <4>2. x.task = c.task /\ x.saw = rows[c.task]
        BY <3>2, <3>4
      <4> QED BY <1>1, <3>1, <3>3, <3>4, <4>1, <4>2 DEF CallMoves
    <3> QED BY <2>2, <3>3, <3>4
  <2>6. CASE Existing(p)
    <3>1. c.task \in Task
      BY <2>1, <2>6, TaskNamed DEF Existing, At, WholeTable
    <3>2. PICK closing : Become(p, [c EXCEPT !.todo = closing \o Tail(@), !.saw = rows[c.task]])
      BY <2>6 DEF Existing
    <3> DEFINE d == [c EXCEPT !.todo = closing \o Tail(@), !.saw = rows[c.task]]
    <3>3. d.task = c.task /\ d.saw = rows[c.task] /\ d.named = c.named
      BY <1>1 DEF Call
    <3>4. UNCHANGED rows
      BY <2>6 DEF Existing
    <3>5. call' = [call EXCEPT ![p] = IF d.todo = <<>> THEN Idle ELSE d]
      BY <3>2 DEF Become
    <3> HIDE DEF d
    <3> QED BY <1>1, <2>1, <3>1, <3>3, <3>4, <3>5 DEF CallMoves
  <2>7. CASE Probe(p)
    <3>1. PICK rest : Become(p, [c EXCEPT !.todo = rest])
      BY <2>7 DEF Probe
    <3> DEFINE d == [c EXCEPT !.todo = rest]
    <3>2. d.task = c.task /\ d.named = c.named /\ d.saw = c.saw
      BY <1>1 DEF Call
    <3> QED BY <2>1, <3>1, <3>2, PlainMoves
  <2>8. CASE Look(p) \/ Settle(p) \/ Clock(p) \/ Missing(p) \/ BindAll(p) \/ Held(p)
    <3>1. ASSUME NEW d, Become(p, d), d.task = c.task, d.named = c.named, d.saw = c.saw
          PROVE  CallMoves(p)
      BY <2>1, <3>1, PlainMoves
    <3>2. ASSUME NEW n, Become(p, [c EXCEPT !.todo = Tail(@), !.now = n])
          PROVE  CallMoves(p)
      <4> DEFINE d == [c EXCEPT !.todo = Tail(@), !.now = n]
      <4>1. d.task = c.task /\ d.named = c.named /\ d.saw = c.saw
        BY <1>1 DEF Call
      <4> QED BY <3>1, <3>2, <4>1
    <3>3. ASSUME NEW n, Become(p, [c EXCEPT !.todo = Tail(@), !.at = n])
          PROVE  CallMoves(p)
      <4> DEFINE d == [c EXCEPT !.todo = Tail(@), !.at = n]
      <4>1. d.task = c.task /\ d.named = c.named /\ d.saw = c.saw
        BY <1>1 DEF Call
      <4> QED BY <3>1, <3>3, <4>1
    <3>4. ASSUME NEW n, Become(p, [c EXCEPT !.todo = Tail(@), !.held = n])
          PROVE  CallMoves(p)
      <4> DEFINE d == [c EXCEPT !.todo = Tail(@), !.held = n]
      <4>1. d.task = c.task /\ d.named = c.named /\ d.saw = c.saw
        BY <1>1 DEF Call
      <4> QED BY <3>1, <3>4, <4>1
    <3>5. \E n : \/ Become(p, [c EXCEPT !.todo = Tail(@), !.now = n])
                 \/ Become(p, [c EXCEPT !.todo = Tail(@), !.at = n])
                 \/ Become(p, [c EXCEPT !.todo = Tail(@), !.held = n])
      BY <2>8 DEF Look, Settle, Clock, Missing, BindAll, Held
    <3> QED BY <3>2, <3>3, <3>4, <3>5
  <2>9. CASE Fold(p)
    <3>1. CASE \E t : call' = [call EXCEPT ![p].held = @ \ {t}]
      BY <1>1, <2>1, <3>1 DEF CallMoves, Call
    <3> QED BY <2>2, <2>9, <3>1 DEF Fold
  <2>10. CASE \/ Claim(p) \/ Release(p) \/ MarkWriting(p) \/ BeginRun(p) \/ Present(p)
              \/ Archive(p) \/ SetPlanned(p) \/ SetDone(p) \/ ReadTitle(p) \/ Rename(p)
              \/ Insert(p) \/ Bind(p) \/ Relocate(p) \/ Copy(p) \/ Reopen(p) \/ Upsert(p)
    BY <2>2, <2>10 DEF Claim, Release, MarkWriting, BeginRun, Present, Archive, SetPlanned,
       SetDone, ReadTitle, Rename, Insert, Bind, Relocate, Copy, Reopen, Upsert, Update
  <2> QED BY <1>4, <2>3, <2>4, <2>5, <2>6, <2>7, <2>8, <2>9, <2>10
          DEF StepOf, RowStep, DeclareStep, TableStep
<1> QED BY <1>2, <1>3, <1>4

\* What a call has read stays the table's row or an earlier revision of it.
LEMMA SawCurrentKeeps ==
  ASSUME Base, SawCurrent, [Next]_vars
  PROVE  SawCurrent'
<1>1. /\ \A t \in Task : rows[t].revision \in Nat
      /\ \A q \in Proc : call[q].saw.revision \in Nat
  BY CallFields DEF Base, RowsGood, Good, Row
<1>2. CASE Tick \/ UNCHANGED vars
  BY <1>2 DEF Tick, vars, SawCurrent, Exists
<1>3. ASSUME NEW p \in Proc, Begin(p) \/ StepOf(p) \/ Abort(p)
      PROVE  SawCurrent'
  <2>1. CallMoves(p)
    BY <1>3, StepCallMoves
  <2>2. RowsMove
    BY <1>3, StepMoves, StillMoves DEF Begin, Abort
  <2>3. \A t \in Task : rows[t].status # "absent" =>
          /\ rows'[t].status # "absent"
          /\ rows'[t] = rows[t] \/ rows'[t].revision = rows[t].revision + 1
    BY <2>2 DEF RowsMove, Moves
  <2>4. ASSUME NEW q \in Proc, call'[q].named, call'[q].todo # <<>>
        PROVE  /\ call'[q].task \in Task
               /\ rows'[call'[q].task].status # "absent"
               /\ rows'[call'[q].task].revision >= call'[q].saw.revision
               /\ rows'[call'[q].task].revision = call'[q].saw.revision
                    => rows'[call'[q].task] = call'[q].saw
    <3> DEFINE t == call[q].task
               u == call'[q].task
    <3>1. CASE /\ call[q].named /\ call[q].todo # <<>> /\ u = t
               /\ call'[q].saw = call[q].saw
      <4>1. /\ t \in Task /\ rows[t].status # "absent"
            /\ rows[t].revision >= call[q].saw.revision
            /\ rows[t].revision = call[q].saw.revision => rows[t] = call[q].saw
        BY <3>1 DEF SawCurrent, Exists
      <4>2. rows[t].revision \in Nat /\ call[q].saw.revision \in Nat
        BY <1>1, <4>1
      <4> QED BY <2>3, <3>1, <4>1, <4>2
    <3>2. CASE q # p
      <4>1. call'[q] = call[q]
        BY <2>1, <3>2 DEF CallMoves
      <4> QED BY <2>4, <3>1, <4>1
    <3>3. CASE q = p /\ UNCHANGED rows /\ u \in Task /\ call'[q].saw = rows[u]
               /\ (Exists(u) \/ (call[q].named /\ call[q].todo # <<>> /\ u = t))
      <4>1. rows[u].status # "absent"
        BY <3>3 DEF SawCurrent, Exists
      <4>2. rows[u].revision \in Nat /\ rows'[u] = rows[u]
        BY <1>1, <3>3
      <4> QED BY <3>3, <4>1, <4>2
    <3> QED BY <2>1, <2>4, <3>1, <3>2, <3>3 DEF CallMoves
  <2> QED BY <2>4 DEF SawCurrent, Exists
<1> QED BY <1>2, <1>3 DEF Next

\* No call has read anything at the start.
LEMMA SawCurrentHolds == Spec => []SawCurrent
<1>1. Init => SawCurrent
  BY DEF Init, SawCurrent, Idle
<1>2. Base /\ SawCurrent /\ [Next]_vars => SawCurrent'
  BY SawCurrentKeeps
<1> QED BY <1>1, <1>2, BaseHolds, PTL DEF Spec

\* A statement of _update that names a revision leaves the table alone, or
\* finds the revision it names.
LEMMA UpdateIsCurrent ==
  ASSUME NEW p \in Proc, NEW s \in UpdateSteps, At(p, s), StepOf(p)
  PROVE  UNCHANGED rows \/ Current(call[p])
<1>1. /\ Claim(p) \/ CompleteTask(p) \/ BeginRun(p) => UNCHANGED rows \/ Current(call[p])
      /\ Release(p) \/ MarkWriting(p) \/ Archive(p) => UNCHANGED rows \/ Current(call[p])
      /\ SetPlanned(p) \/ SetDone(p) \/ Rename(p) => UNCHANGED rows \/ Current(call[p])
      /\ Bind(p) => UNCHANGED rows \/ Current(call[p])
  BY DEF Claim, CompleteTask, BeginRun, Release, MarkWriting, Archive, SetPlanned,
     SetDone, Rename, Bind, Update
<1>2. ~(Insert(p) \/ Relocate(p) \/ Copy(p) \/ Reopen(p) \/ Upsert(p) \/ Settle(p)
        \/ BindAll(p) \/ Fold(p))
  BY DEF Insert, Relocate, Copy, Reopen, Upsert, Settle, BindAll, Fold, At, UpdateSteps
<1>3. CASE Reread(p) \/ Present(p) \/ ReadTitle(p) \/ Lookup(p) \/ Existing(p)
            \/ Probe(p) \/ Look(p) \/ Clock(p) \/ Missing(p) \/ Held(p)
  BY <1>3 DEF Reread, Present, ReadTitle, Lookup, Existing, Probe, Look, Clock, Missing, Held
<1> QED BY <1>1, <1>2, <1>3 DEF StepOf, RowStep, DeclareStep, TableStep

\* Optimistic concurrency works on every write path: a write that names a
\* revision replaces exactly the row its client read, for any number of
\* processes and tasks.
THEOREM NoWriteLost == Spec => NoLostUpdate
<1> DEFINE Safe(p) ==
      (/\ call'[p] # call[p] /\ \E s \in UpdateSteps : At(p, s)
       /\ call[p].named /\ rows'[call[p].task] # rows[call[p].task])
      => rows[call[p].task] = call[p].saw
<1>1. ASSUME Base, SawCurrent, [Next]_vars, NEW p \in Proc
      PROVE  Safe(p)
  <2>1. SUFFICES ASSUME call'[p] # call[p], NEW s \in UpdateSteps, At(p, s), call[p].named,
                        rows'[call[p].task] # rows[call[p].task]
                 PROVE  rows[call[p].task] = call[p].saw
    OBVIOUS
  <2>2. PICK q \in Proc : Begin(q) \/ StepOf(q) \/ Abort(q)
    BY <1>1, <2>1 DEF Next, Tick, vars
  <2>3. q = p
    BY <1>1, <2>1, <2>2, StepCallMoves DEF CallMoves
  <2>4. StepOf(p)
    BY <2>1, <2>2, <2>3 DEF Begin, Abort
  <2>5. Current(call[p])
    BY <2>1, <2>4, UpdateIsCurrent
  <2> QED BY <1>1, <2>1, <2>5 DEF Current, SawCurrent, At
<1>2. Base /\ SawCurrent /\ [Next]_vars
        => [\A p \in Proc : LET c == call[p] IN
             (/\ call'[p] # c /\ \E s \in UpdateSteps : At(p, s)
              /\ c.named /\ rows'[c.task] # rows[c.task]) => rows[c.task] = c.saw]_vars
  BY <1>1
<1> QED BY <1>2, BaseHolds, SawCurrentHolds, PTL DEF Spec, NoLostUpdate
=============================================================================
