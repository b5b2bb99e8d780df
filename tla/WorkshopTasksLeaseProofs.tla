---------------------- MODULE WorkshopTasksLeaseProofs ----------------------
(***************************************************************************)
(* What the task table promises to the agents that share it, for every     *)
(* number of tasks, agents and processes: a lease is kept, a finished task *)
(* stays finished, a run finds a free slot, a replaced purpose is closed.  *)
(* The invariant adds to the one of WorkshopTasksProofs where a call is in *)
(* its program: which steps it can still reach, and what it knows there.   *)
(***************************************************************************)
EXTENDS WorkshopTasksProofs, FiniteSetTheorems

-----------------------------------------------------------------------------
(* The order of the steps. *)

\* The steps of declared() on the agent's own row.
DeclareSteps == {"existing", "probe", "copy", "reopen", "upsert"}

\* The steps that a call of this kind can still have to do.
StepsFor(op) == {s \in Step : /\ s \in {"archive", "planned", "done"} => op = s
                              /\ s \in DeclareSteps => op = "declare"
                              /\ s = "reread" => op # "declare"}

\* What comes right before a step: the purpose is written after the old one
\* was looked at or closed, and the copy is made after it was looked for.
Precedes(a, b) ==
  /\ b = "upsert" => a \in {"existing", "reopen"}
  /\ b = "reopen" => a = "copy"
  /\ b = "copy" => a = "probe"
  /\ b = "existing" => a = "settle"
Ordered(s) == \A i \in 1..Len(s) : i + 1 \in 1..Len(s) => Precedes(s[i], s[i + 1])

InProgram == \A p \in Proc : /\ call[p].todo \in Seq(StepsFor(call[p].op))
                             /\ Ordered(call[p].todo)

\* A call reads the clock before it relies on it, and the clock never goes back.
ClocksRead == \A p \in Proc : call[p].at <= now /\ call[p].now <= now

\* A purpose in the table, or read from it, is a text; a declare has one and
\* names its agent.
Purposes ==
  /\ \A t \in Task : rows[t].purpose \in Text \cup {NULL}
  /\ \A p \in Proc : /\ call[p].saw.purpose \in Text \cup {NULL}
                     /\ call[p].todo # <<>> /\ call[p].op = "declare"
                          => call[p].arg \in Text /\ call[p].owner \in Owner

\* A declare about to write its purpose has nothing to close, or closed it.
MayReplace(c) ==
  c.saw.purpose \in {NULL, c.arg} \/ Exists(ClosedId(c.owner, c.saw.purpose))
ClosedFirst ==
  \A p \in Proc : At(p, "reopen") \/ At(p, "upsert") => MayReplace(call[p])

\* Only finitely many ids are ever in the table.
FinitelyMany == IsFiniteSet({t \in Task : Exists(t)})

\* A program that is not at its end: its current step, and what is left.
LEMMA FirstAndRest ==
  ASSUME NEW S, NEW s \in Seq(S), s # <<>>
  PROVE  /\ Len(s) \in Nat /\ Len(s) > 0 /\ Head(s) = s[1] /\ Head(s) \in S
         /\ Tail(s) \in Seq(S) /\ Len(Tail(s)) = Len(s) - 1
         /\ \A i \in 1..Len(Tail(s)) : Tail(s)[i] = s[i + 1]
<1>1. Len(s) \in Nat /\ Len(s) # 0
  BY LenProperties, EmptySeq
<1>2. Head(s) = s[1]
  OBVIOUS
<1> QED BY <1>1, <1>2, HeadTailProperties

\* A step taken is a step less.
LEMMA RestIsShorter ==
  ASSUME NEW S, NEW s \in Seq(S), s # <<>>
  PROVE  s # Tail(s)
<1> DEFINE n == Len(s)
           m == Len(Tail(s))
<1>1. n \in Nat /\ m = n - 1
  BY FirstAndRest
<1>2. s = Tail(s) => n = m
  BY Zenon
<1> HIDE DEF n, m
<1>3. n # m
  BY <1>1
<1> QED BY <1>2, <1>3

\* The rest of an ordered program from a later step on is ordered.
LEMMA RestOrdered ==
  ASSUME NEW S, NEW s \in Seq(S), Ordered(s), NEW k \in Nat \ {0}
  PROVE  Ordered(SubSeq(s, k, Len(s)))
<1> DEFINE n == Len(s)
           r == SubSeq(s, k, n)
<1>1. n \in Nat /\ \A i \in k..n : s[i] \in S
  BY LenProperties, ElementOfSeq
<1>2. Len(r) = (IF k <= n THEN n - k + 1 ELSE 0) /\ \A i \in 1..(n - k + 1) : r[i] = s[k + i - 1]
  BY <1>1, SubSeqProperties
<1> SUFFICES ASSUME NEW i \in 1..Len(r), i + 1 \in 1..Len(r)
             PROVE  Precedes(r[i], r[i + 1])
  BY DEF Ordered
<1> HIDE DEF r
<1>3. k <= n
  BY <1>1, <1>2
<1>4. r[i] = s[k + i - 1] /\ r[i + 1] = s[k + i]
  BY <1>1, <1>2, <1>3
<1>5. k + i - 1 \in 1..n /\ k + i - 1 + 1 \in 1..n /\ k + i - 1 + 1 = k + i
  BY <1>1, <1>2, <1>3
<1> QED BY <1>4, <1>5 DEF Ordered

\* So is what is left after one step.
LEMMA TailOrdered ==
  ASSUME NEW S, NEW s \in Seq(S), s # <<>>, Ordered(s)
  PROVE  Ordered(Tail(s))
<1>1. Len(s) \in Nat /\ Len(Tail(s)) = Len(s) - 1 /\ \A i \in 1..Len(Tail(s)) : Tail(s)[i] = s[i + 1]
  BY LenProperties, HeadTailProperties
<1> SUFFICES ASSUME NEW i \in 1..Len(Tail(s)), i + 1 \in 1..Len(Tail(s))
             PROVE  Precedes(Tail(s)[i], Tail(s)[i + 1])
  BY DEF Ordered
<1>2. Tail(s)[i] = s[i + 1] /\ Tail(s)[i + 1] = s[i + 1 + 1]
  BY <1>1
<1>3. i + 1 \in 1..Len(s) /\ i + 1 + 1 \in 1..Len(s)
  BY <1>1
<1> QED BY <1>2, <1>3 DEF Ordered

\* Two ordered parts make an ordered whole when the seam is in order.
LEMMA ConcatOrdered ==
  ASSUME NEW S, NEW s \in Seq(S), NEW t \in Seq(S), Ordered(s), Ordered(t),
         (s # <<>> /\ t # <<>>) => Precedes(s[Len(s)], t[1])
  PROVE  Ordered(s \o t)
<1> DEFINE u == s \o t
<1>1. /\ Len(s) \in Nat /\ Len(t) \in Nat
      /\ Len(u) = Len(s) + Len(t)
      /\ \A i \in 1..(Len(s) + Len(t)) : u[i] = IF i <= Len(s) THEN s[i] ELSE t[i - Len(s)]
  BY LenProperties, ConcatProperties
<1> HIDE DEF u
<1> SUFFICES ASSUME NEW i \in 1..Len(u), i + 1 \in 1..Len(u)
             PROVE  Precedes(u[i], u[i + 1])
  BY DEF Ordered, u
<1>2. CASE i + 1 <= Len(s)
  <2>1. u[i] = s[i] /\ u[i + 1] = s[i + 1] /\ i \in 1..Len(s) /\ i + 1 \in 1..Len(s)
    BY <1>1, <1>2
  <2> QED BY <2>1 DEF Ordered
<1>3. CASE i = Len(s)
  <2>1. u[i] = s[Len(s)] /\ u[i + 1] = t[1] /\ Len(s) # 0 /\ Len(t) # 0
    BY <1>1, <1>3
  <2>2. s # <<>> /\ t # <<>>
    BY <2>1
  <2> QED BY <2>1, <2>2
<1>4. CASE i > Len(s)
  <2> DEFINE j == i - Len(s)
  <2>1. u[i] = t[j] /\ u[i + 1] = t[j + 1] /\ j \in 1..Len(t) /\ j + 1 \in 1..Len(t)
    BY <1>1, <1>4
  <2> QED BY <2>1 DEF Ordered
<1> QED BY <1>1, <1>2, <1>3, <1>4

\* A program that does not declare is ordered.
LEMMA PlainOrdered ==
  ASSUME NEW s \in Seq(Step \ DeclareSteps)
  PROVE  Ordered(s)
<1> SUFFICES ASSUME NEW i \in 1..Len(s), i + 1 \in 1..Len(s)
             PROVE  Precedes(s[i], s[i + 1])
  BY DEF Ordered
<1>1. s[i + 1] \in Step \ DeclareSteps
  BY ElementOfSeq
<1> QED BY <1>1 DEF Precedes, DeclareSteps

\* Steps that do not declare may follow any program; the first step stays.
LEMMA PlainFollows ==
  ASSUME NEW s \in Seq(Step), NEW t \in Seq(Step \ DeclareSteps), Ordered(s)
  PROVE  /\ s \o t \in Seq(Step) /\ Ordered(s \o t)
         /\ s # <<>> => s \o t # <<>> /\ (s \o t)[1] = s[1]
<1>1. t \in Seq(Step) /\ Ordered(t)
  BY SeqMonotonic, PlainOrdered
<1>2. Len(s) \in Nat /\ Len(t) \in Nat /\ (s # <<>> => Len(s) > 0) /\ (t # <<>> => Len(t) > 0)
  BY <1>1, LenProperties, EmptySeq
<1>3. t # <<>> => Precedes(s[Len(s)], t[1])
  <2> SUFFICES ASSUME t # <<>> PROVE Precedes(s[Len(s)], t[1])
    OBVIOUS
  <2>1. t[1] \in Step \ DeclareSteps
    BY <1>2, ElementOfSeq
  <2> QED BY <2>1 DEF Precedes, DeclareSteps
<1>4. Ordered(s \o t)
  BY <1>1, <1>3, ConcatOrdered
<1>5. /\ s \o t \in Seq(Step) /\ Len(s \o t) = Len(s) + Len(t)
      /\ \A i \in 1..(Len(s) + Len(t)) : (s \o t)[i] = IF i <= Len(s) THEN s[i] ELSE t[i - Len(s)]
  BY <1>1, ConcatProperties
<1>6. s # <<>> => s \o t # <<>> /\ (s \o t)[1] = s[1]
  <2> SUFFICES ASSUME s # <<>> PROVE s \o t # <<>> /\ (s \o t)[1] = s[1]
    OBVIOUS
  <2>1. (s \o t)[1] = s[1] /\ Len(s \o t) > 0
    BY <1>2, <1>5
  <2> QED BY <2>1
<1> QED BY <1>4, <1>5, <1>6

\* The steps that any call may have, and those of a declare.
Plain == Step \ (DeclareSteps \cup {"archive", "planned", "done"})
Quiet == Plain \ {"reread"}

\* The parts that the programs share.
LEMMA PartsPlain ==
  /\ SettleLapsed \in Seq(Quiet) /\ RecordStep \in Seq(Quiet) /\ ClaimSteps \in Seq(Quiet)
  /\ Complete \in Seq(Plain)
<1>1. /\ SettleLapsed \in Seq(Quiet) /\ <<"lookup", "bind">> \in Seq(Quiet)
      /\ <<"clock">> \in Seq(Quiet) /\ <<"claim">> \in Seq(Quiet)
  BY DEF SettleLapsed, Quiet, Plain, Step, DeclareSteps
<1>2. RecordStep \in Seq(Quiet)
  BY <1>1, ConcatProperties, Zenon DEF RecordStep
<1>3. ClaimSteps \in Seq(Quiet)
  BY <1>1, ConcatProperties, Zenon DEF ClaimSteps
<1>4. SettleLapsed \in Seq(Plain) /\ RecordStep \in Seq(Plain)
  BY <1>1, <1>2, SeqMonotonic DEF Quiet
<1>5. <<"complete">> \in Seq(Plain) /\ <<"reread">> \in Seq(Plain)
  BY DEF Plain, Step, DeclareSteps
<1>6. Complete \in Seq(Plain)
  BY <1>4, <1>5, ConcatProperties, Zenon DEF Complete
<1> QED BY <1>1, <1>2, <1>3, <1>6

\* A declare looks before it copies, and copies before it writes.
LEMMA DeclareOrdered ==
  /\ Program["declare"] \in Seq(Quiet \cup DeclareSteps)
  /\ Ordered(Program["declare"])
  /\ Program["declare"] # <<>> /\ Program["declare"][1] = "look"
<1> DEFINE front == SettleLapsed \o SettleLapsed
           Q == Quiet \cup DeclareSteps
<1>1. Quiet \subseteq Step \ DeclareSteps /\ Quiet \subseteq Q /\ Q \subseteq Step
  BY DEF Quiet, Plain, DeclareSteps, Step
<1>2. /\ SettleLapsed \in Seq(Step \ DeclareSteps) /\ RecordStep \in Seq(Step \ DeclareSteps)
      /\ ClaimSteps \in Seq(Step \ DeclareSteps)
      /\ SettleLapsed \in Seq(Q) /\ RecordStep \in Seq(Q) /\ ClaimSteps \in Seq(Q)
      /\ SettleLapsed \in Seq(Step)
  <2> HIDE DEF Q
  <2> QED BY <1>1, PartsPlain, SeqMonotonic
<1>3. /\ <<"missing", "bindall">> \in Seq(Step \ DeclareSteps)
      /\ <<"missing", "bindall">> \in Seq(Q)
      /\ <<"upsert">> \in Seq(Step) /\ <<"existing">> \in Seq(Step)
      /\ <<"upsert">> \in Seq(Q) /\ <<"existing">> \in Seq(Q)
  BY DEF Step, DeclareSteps, Quiet, Plain
<1>4. /\ front \in Seq(Step) /\ Ordered(front) /\ front # <<>> /\ front[1] = "look"
      /\ front[Len(front)] = "settle"
  <2>1. SettleLapsed # <<>> /\ SettleLapsed[1] = "look" /\ Ordered(SettleLapsed)
    BY <1>2, PlainOrdered DEF SettleLapsed
  <2>2. front \in Seq(Step) /\ Ordered(front) /\ front # <<>> /\ front[1] = "look"
    BY <1>2, <2>1, PlainFollows
  <2>3. Len(SettleLapsed) = 2 /\ SettleLapsed[2] = "settle"
    BY DEF SettleLapsed
  <2>4. /\ Len(front) = Len(SettleLapsed) + Len(SettleLapsed)
        /\ \A i \in 1..(Len(SettleLapsed) + Len(SettleLapsed)) :
             front[i] = IF i <= Len(SettleLapsed) THEN SettleLapsed[i]
                        ELSE SettleLapsed[i - Len(SettleLapsed)]
    BY <1>2, ConcatProperties
  <2> HIDE DEF front
  <2>5. front[Len(front)] = "settle"
    BY <2>3, <2>4
  <2> QED BY <2>2, <2>5
<1>5. Ordered(<<"existing">>) /\ Ordered(<<"upsert">>)
  BY DEF Ordered
<1>6. /\ DeclareTail \in Seq(Step) /\ Ordered(DeclareTail)
      /\ DeclareTail # <<>> /\ DeclareTail[1] = "upsert"
  <2> DEFINE a == <<"upsert">> \o ClaimSteps
             b == a \o <<"missing", "bindall">>
  <2>1. a \in Seq(Step) /\ Ordered(a) /\ a # <<>> /\ a[1] = "upsert"
    BY <1>2, <1>3, <1>5, PlainFollows
  <2> HIDE DEF a
  <2>2. b \in Seq(Step) /\ Ordered(b) /\ b # <<>> /\ b[1] = "upsert"
    BY <1>3, <2>1, PlainFollows
  <2> HIDE DEF b
  <2>3. b \o RecordStep \in Seq(Step) /\ Ordered(b \o RecordStep)
        /\ b \o RecordStep # <<>> /\ (b \o RecordStep)[1] = "upsert"
    BY <1>2, <2>2, PlainFollows
  <2> QED BY <2>3 DEF DeclareTail, a, b
<1>7. DeclareTail \in Seq(Q)
  BY <1>2, <1>3, ConcatProperties, Zenon DEF DeclareTail
<1>8. Program["declare"] = front \o <<"existing">> \o DeclareTail
  BY Zenon DEF Program
<1>9. Program["declare"] \in Seq(Q)
  <2>1. front \in Seq(Q)
    BY <1>2, ConcatProperties, Zenon
  <2> HIDE DEF front, Q
  <2>2. front \o <<"existing">> \in Seq(Q)
    BY <1>3, <2>1, ConcatProperties
  <2>3. front \o <<"existing">> \o DeclareTail \in Seq(Q)
    BY <1>7, <2>2, ConcatProperties
  <2> QED BY <1>8, <2>3
<1> HIDE DEF front
<1> DEFINE upto == front \o <<"existing">>
<1>10. /\ upto \in Seq(Step) /\ Len(upto) = Len(front) + 1
       /\ upto[Len(upto)] = "existing" /\ upto # <<>> /\ upto[1] = "look" /\ Ordered(upto)
  <2>1. Precedes(front[Len(front)], <<"existing">>[1])
    BY <1>4 DEF Precedes
  <2>2. Ordered(upto)
    BY <1>3, <1>4, <1>5, <2>1, ConcatOrdered
  <2>3. Len(front) \in Nat /\ Len(front) > 0 /\ Len(<<"existing">>) = 1 /\ <<"existing">>[1] = "existing"
    BY <1>4, LenProperties, EmptySeq
  <2>4. /\ upto \in Seq(Step) /\ Len(upto) = Len(front) + 1
        /\ \A i \in 1..(Len(front) + 1) :
             upto[i] = IF i <= Len(front) THEN front[i] ELSE <<"existing">>[i - Len(front)]
    BY <1>3, <1>4, <2>3, ConcatProperties
  <2> HIDE DEF upto
  <2>5. upto[Len(upto)] = "existing" /\ upto[1] = "look" /\ upto # <<>>
    BY <1>4, <2>3, <2>4
  <2> QED BY <2>2, <2>4, <2>5
<1> HIDE DEF upto
<1>11. Ordered(upto \o DeclareTail)
  <2>1. Precedes(upto[Len(upto)], DeclareTail[1])
    BY <1>6, <1>10 DEF Precedes
  <2> QED BY <1>6, <1>10, <2>1, ConcatOrdered
<1>12. upto \o DeclareTail # <<>> /\ (upto \o DeclareTail)[1] = "look"
  <2>1. Len(upto) \in Nat /\ Len(upto) > 0 /\ Len(DeclareTail) \in Nat
    BY <1>6, <1>10, LenProperties, EmptySeq
  <2>2. Len(upto \o DeclareTail) = Len(upto) + Len(DeclareTail)
        /\ \A i \in 1..(Len(upto) + Len(DeclareTail)) :
             (upto \o DeclareTail)[i] = IF i <= Len(upto) THEN upto[i]
                                        ELSE DeclareTail[i - Len(upto)]
    BY <1>6, <1>10, ConcatProperties
  <2> QED BY <1>10, <2>1, <2>2
<1> QED BY <1>8, <1>9, <1>11, <1>12 DEF upto

\* Every program keeps to the steps of its kind, in order, and begins with a
\* step that writes no purpose.
LEMMA ProgramOrdered ==
  ASSUME NEW op \in DOMAIN Program
  PROVE  /\ Program[op] \in Seq(StepsFor(op)) /\ Ordered(Program[op])
         /\ Program[op] # <<>> => Head(Program[op]) \notin {"reopen", "upsert"}
<1>1. CASE op = "declare"
  <2>1. Quiet \cup DeclareSteps \subseteq StepsFor(op)
    BY <1>1 DEF Quiet, Plain, DeclareSteps, StepsFor, Step
  <2>2. Program[op] \in Seq(StepsFor(op))
    BY <1>1, <2>1, DeclareOrdered, SeqMonotonic
  <2> QED BY <1>1, <2>2, DeclareOrdered
<1>2. ASSUME op # "declare", Program[op] \in Seq(Plain \cup ({op} \cap {"archive", "planned", "done"}))
      PROVE  /\ Program[op] \in Seq(StepsFor(op)) /\ Ordered(Program[op])
             /\ Program[op] # <<>> => Head(Program[op]) \notin {"reopen", "upsert"}
  <2> DEFINE S == Plain \cup ({op} \cap {"archive", "planned", "done"})
  <2>1. S \subseteq StepsFor(op) /\ S \subseteq Step \ DeclareSteps
    BY <1>2 DEF Plain, DeclareSteps, StepsFor, Step
  <2>2. Program[op] \in Seq(StepsFor(op)) /\ Program[op] \in Seq(Step \ DeclareSteps)
    <3> HIDE DEF S
    <3>1. Program[op] \in Seq(S)
      BY <1>2 DEF S
    <3> QED BY <2>1, <3>1, SeqMonotonic
  <2>3. Program[op] # <<>> => Head(Program[op]) \in Step \ DeclareSteps
    BY <2>2, HeadTailProperties
  <2> QED BY <2>2, <2>3, PlainOrdered DEF DeclareSteps
<1>3. /\ SettleLapsed \in Seq(Plain) /\ RecordStep \in Seq(Plain)
      /\ ClaimSteps \in Seq(Plain) /\ Complete \in Seq(Plain)
  BY PartsPlain, SeqMonotonic DEF Quiet
<1>4. CASE op \in {"claim", "release", "mark_writing", "complete", "begin_run", "declare_on",
                   "finish_on", "rename", "create", "open", "rows", "column", "backfill",
                   "relocate"}
  <2>1. /\ <<"release">> \in Seq(Plain) /\ <<"mark_writing">> \in Seq(Plain)
        /\ <<"clock", "begin_run">> \in Seq(Plain) /\ <<"title", "rename">> \in Seq(Plain)
        /\ <<"insert">> \in Seq(Plain) /\ <<"held", "fold">> \in Seq(Plain)
        /\ <<"missing", "bindall">> \in Seq(Plain) /\ <<"relocate">> \in Seq(Plain)
    BY DEF Plain, Step, DeclareSteps
  <2>2. /\ SettleLapsed \o <<"clock", "begin_run">> \in Seq(Plain)
        /\ SettleLapsed \o <<"title", "rename">> \in Seq(Plain)
        /\ <<"insert">> \o SettleLapsed \in Seq(Plain)
        /\ <<"held", "fold">> \o SettleLapsed \in Seq(Plain)
        /\ SettleLapsed \o ClaimSteps \o RecordStep \in Seq(Plain)
        /\ SettleLapsed \o Complete \o RecordStep \in Seq(Plain)
    BY <1>3, <2>1, ConcatProperties, Zenon
  <2>3. /\ Program["claim"] = ClaimSteps /\ Program["complete"] = Complete
        /\ Program["release"] = <<"release">>
        /\ Program["mark_writing"] = <<"mark_writing">>
        /\ Program["begin_run"] = SettleLapsed \o <<"clock", "begin_run">>
        /\ Program["declare_on"] = SettleLapsed \o ClaimSteps \o RecordStep
        /\ Program["finish_on"] = SettleLapsed \o Complete \o RecordStep
    BY Zenon DEF Program
  <2>4. /\ Program["rename"] = SettleLapsed \o <<"title", "rename">>
        /\ Program["create"] = <<"insert">> \o SettleLapsed
        /\ Program["open"] = RecordStep /\ Program["relocate"] = <<"relocate">>
        /\ Program["rows"] = SettleLapsed /\ Program["backfill"] = <<"missing", "bindall">>
        /\ Program["column"] = <<"held", "fold">> \o SettleLapsed
    BY Zenon DEF Program
  <2>5. Program[op] \in Seq(Plain)
    BY <1>3, <1>4, <2>1, <2>2, <2>3, <2>4
  <2>6. Program[op] \in Seq(Plain \cup ({op} \cap {"archive", "planned", "done"}))
    BY <2>5, SeqMonotonic
  <2> QED BY <1>2, <1>4, <2>6
<1>5. CASE op \in {"archive", "planned", "done"}
  <2>1. /\ Program["archive"] = SettleLapsed \o <<"present", "archive">>
        /\ Program["planned"] = <<"planned">> /\ Program["done"] = <<"done">>
    BY Zenon DEF Program
  <2>2. <<"present", "archive">> \in Seq(Plain \cup {"archive"})
    BY DEF Plain, Step, DeclareSteps
  <2>3. SettleLapsed \in Seq(Plain \cup {"archive"})
    BY <1>3, SeqMonotonic
  <2>4. SettleLapsed \o <<"present", "archive">> \in Seq(Plain \cup {"archive"})
    BY <2>2, <2>3, ConcatProperties
  <2>5. <<"planned">> \in Seq(Plain \cup {"planned"}) /\ <<"done">> \in Seq(Plain \cup {"done"})
    OBVIOUS
  <2>6. {op} \cap {"archive", "planned", "done"} = {op}
    BY <1>5
  <2>7. Program[op] \in Seq(Plain \cup {op})
    BY <1>5, <2>1, <2>4, <2>5
  <2> QED BY <1>2, <1>5, <2>6, <2>7
<1> QED BY <1>1, <1>4, <1>5, ProgramType DEF AgentCalls, BoardCalls, TableCalls

-----------------------------------------------------------------------------
(* Where a call goes. *)

\* The call that a step of p may leave: done, or the same call with a rest of
\* its program, another reading of the clock, or another row in hand.
Closing == SettleLapsed \o <<"probe", "copy", "reopen">>
Rest(p, c, d) ==
  \/ d.todo = Tail(c.todo) /\ d.saw = c.saw /\ ~At(p, "existing")
  \/ d.todo = c.todo /\ d.saw = c.saw /\ At(p, "fold")
  \/ d.todo = SubSeq(c.todo, 6, Len(c.todo)) /\ d.saw = c.saw /\ At(p, "reread")
  \/ /\ d.todo \in {Tail(c.todo), SubSeq(c.todo, 3, Len(c.todo))}
     /\ d.saw = rows[c.task] /\ At(p, "lookup")
  \/ /\ d.todo = SubSeq(c.todo, 3, Len(c.todo)) /\ d.saw = c.saw /\ At(p, "probe")
     /\ Exists(ClosedId(c.owner, c.saw.purpose))
  \/ /\ At(p, "existing") /\ d.saw = rows[c.task]
     /\ \/ d.todo = Tail(c.todo) /\ d.saw.purpose \in {NULL, c.arg}
        \/ d.todo = Closing \o Tail(c.todo)
GoesOn(p, c, d) ==
  /\ d.op = c.op /\ d.task = c.task /\ d.owner = c.owner /\ d.arg = c.arg
  /\ d.at \in {c.at, now, 0} /\ d.now \in {c.now, now}
  /\ c.todo # <<>> /\ Rest(p, c, d)
Goes(p) ==
  /\ \A q \in Proc \ {p} : call'[q] = call[q]
  /\ call'[p] = Idle \/ GoesOn(p, call[p], call'[p])

\* A return.
LEMMA ReturnGoes ==
  ASSUME Base, NEW p \in Proc, Return(p)
  PROVE  Goes(p)
BY DEF Base, CallsTyped, Return, Goes

\* A call that goes on in one of those ways.
LEMMA BecomeGoes ==
  ASSUME Base, NEW p \in Proc, NEW d, Become(p, d), GoesOn(p, call[p], d)
  PROVE  Goes(p)
BY DEF Base, CallsTyped, Become, Goes

\* The call after its step, the step not being one that chooses.
LEMMA AdvanceGoes ==
  ASSUME Base, NEW p \in Proc, Advance(p), call[p].todo # <<>>, ~At(p, "existing")
  PROVE  Goes(p)
<1> DEFINE c == call[p]
           d == [c EXCEPT !.todo = Tail(@)]
<1>1. c \in Call
  BY DEF Base, CallsTyped
<1>2. /\ d.op = c.op /\ d.task = c.task /\ d.owner = c.owner /\ d.arg = c.arg
      /\ d.at = c.at /\ d.now = c.now /\ d.todo = Tail(c.todo) /\ d.saw = c.saw
  BY <1>1 DEF Call
<1>3. GoesOn(p, c, d)
  <2> HIDE DEF d
  <2> QED BY <1>2 DEF GoesOn, Rest
<1> QED BY <1>3, BecomeGoes DEF Advance

\* Every step of a process leaves its call in one of those places.
LEMMA StepGoes ==
  ASSUME Base, NEW p \in Proc, StepOf(p) \/ Abort(p)
  PROVE  Goes(p)
<1> DEFINE c == call[p]
<1>1. c \in Call /\ c.todo # <<>>
  BY DEF StepOf, RowStep, DeclareStep, TableStep, Claim, Release, MarkWriting,
     CompleteTask, Reread, BeginRun, Present, Archive, SetPlanned, SetDone, ReadTitle,
     Rename, Insert, Lookup, Bind, Relocate, Existing, Probe, Copy, Reopen, Upsert,
     Look, Settle, Clock, Missing, BindAll, Held, Fold, At, Abort, Base, CallsTyped
<1>2. CASE Return(p)
  BY <1>2, ReturnGoes
<1>3. CASE Advance(p) /\ ~At(p, "existing")
  BY <1>1, <1>3, AdvanceGoes
\* A step that leaves the row in hand and takes a rest of the program.
<1>4. ASSUME NEW d, Become(p, d), d.op = c.op, d.task = c.task, d.owner = c.owner,
             d.arg = c.arg, d.at \in {c.at, now, 0}, d.now \in {c.now, now}, Rest(p, c, d)
      PROVE  Goes(p)
  BY <1>1, <1>4, BecomeGoes DEF GoesOn
<1>5. CASE CompleteTask(p)
  <2> DEFINE d == [c EXCEPT !.todo = Tail(@), !.won = TRUE]
  <2>1. Return(p) \/ Advance(p) \/ Become(p, d)
    BY <1>5 DEF CompleteTask
  <2>2. ~At(p, "existing")
    BY <1>5 DEF CompleteTask, At
  <2>3. /\ d.op = c.op /\ d.task = c.task /\ d.owner = c.owner /\ d.arg = c.arg
        /\ d.at = c.at /\ d.now = c.now /\ d.todo = Tail(c.todo) /\ d.saw = c.saw
    BY <1>1 DEF Call
  <2> HIDE DEF d
  <2> QED BY <1>2, <1>3, <1>4, <2>1, <2>2, <2>3 DEF Rest
<1>6. CASE Reread(p)
  <2> DEFINE d == [c EXCEPT !.todo = SubSeq(@, 6, Len(@))]
  <2>1. At(p, "reread") /\ ~At(p, "existing") /\ (Advance(p) \/ Become(p, d))
    BY <1>6 DEF Reread, At
  <2>2. /\ d.op = c.op /\ d.task = c.task /\ d.owner = c.owner /\ d.arg = c.arg
        /\ d.at = c.at /\ d.now = c.now /\ d.todo = SubSeq(c.todo, 6, Len(c.todo))
        /\ d.saw = c.saw
    BY <1>1 DEF Call
  <2> HIDE DEF d
  <2> QED BY <1>3, <1>4, <2>1, <2>2 DEF Rest
<1>7. CASE Lookup(p)
  <2> DEFINE d == [c EXCEPT !.todo = Tail(@), !.saw = rows[c.task], !.named = TRUE]
             e == [d EXCEPT !.todo = SubSeq(c.todo, 3, Len(c.todo))]
  <2>1. At(p, "lookup") /\ (Return(p) \/ Become(p, d) \/ Become(p, e))
    BY <1>7 DEF Lookup
  <2>2. /\ d.op = c.op /\ d.task = c.task /\ d.owner = c.owner /\ d.arg = c.arg
        /\ d.at = c.at /\ d.now = c.now /\ d.todo = Tail(c.todo) /\ d.saw = rows[c.task]
        /\ e.op = c.op /\ e.task = c.task /\ e.owner = c.owner /\ e.arg = c.arg
        /\ e.at = c.at /\ e.now = c.now /\ e.todo = SubSeq(c.todo, 3, Len(c.todo))
        /\ e.saw = rows[c.task]
    BY <1>1 DEF Call
  <2> HIDE DEF d, e
  <2>3. CASE Become(p, d)
    BY <1>4, <2>1, <2>2, <2>3 DEF Rest
  <2>4. CASE Become(p, e)
    BY <1>4, <2>1, <2>2, <2>4 DEF Rest
  <2> QED BY <1>2, <2>1, <2>3, <2>4
<1>8. CASE Existing(p)
  <2> DEFINE closing == IF rows[c.task].purpose \in {NULL, c.arg} THEN <<>> ELSE Closing
             d == [c EXCEPT !.todo = closing \o Tail(@), !.saw = rows[c.task]]
  <2>1. At(p, "existing") /\ Become(p, d)
    BY <1>8 DEF Existing, Closing
  <2>2. /\ d.op = c.op /\ d.task = c.task /\ d.owner = c.owner /\ d.arg = c.arg
        /\ d.at = c.at /\ d.now = c.now /\ d.todo = closing \o Tail(c.todo)
        /\ d.saw = rows[c.task]
    <3> HIDE DEF closing
    <3> QED BY <1>1 DEF Call
  <2>3. \/ d.todo = Tail(c.todo) /\ d.saw.purpose \in {NULL, c.arg}
        \/ d.todo = Closing \o Tail(c.todo)
    <3>1. Tail(c.todo) \in Seq(Step)
      BY <1>1, TailOfSteps DEF Call
    <3>2. <<>> \o Tail(c.todo) = Tail(c.todo)
      BY <3>1, ConcatEmptySeq
    <3> HIDE DEF d
    <3> QED BY <2>2, <3>2
  <2> HIDE DEF d, closing
  <2> QED BY <1>4, <2>1, <2>2, <2>3 DEF Rest
<1>9. CASE Probe(p)
  <2> DEFINE gone == Exists(ClosedId(c.owner, c.saw.purpose))
             rest == IF gone THEN SubSeq(c.todo, 3, Len(c.todo)) ELSE Tail(c.todo)
             d == [c EXCEPT !.todo = rest]
  <2>1. At(p, "probe") /\ ~At(p, "existing") /\ Become(p, d)
    BY <1>9 DEF Probe, At
  <2>2. /\ d.op = c.op /\ d.task = c.task /\ d.owner = c.owner /\ d.arg = c.arg
        /\ d.at = c.at /\ d.now = c.now /\ d.todo = rest /\ d.saw = c.saw
    <3> HIDE DEF rest
    <3> QED BY <1>1 DEF Call
  <2> HIDE DEF d
  <2>3. Rest(p, c, d)
    BY <2>1, <2>2 DEF Rest
  <2> QED BY <1>4, <2>1, <2>2, <2>3
<1>10. CASE Look(p) \/ Settle(p) \/ Clock(p) \/ Missing(p) \/ BindAll(p) \/ Held(p)
  <2>1. ~At(p, "existing") /\ c.at \in {c.at, now, 0} /\ c.now \in {c.now, now}
    BY <1>10 DEF Look, Settle, Clock, Missing, BindAll, Held, At
  <2>2. ASSUME NEW n \in {c.now, now}, NEW m \in {c.at, now, 0}, NEW h,
               Become(p, [c EXCEPT !.todo = Tail(@), !.now = n, !.at = m, !.held = h])
        PROVE  Goes(p)
    <3> DEFINE d == [c EXCEPT !.todo = Tail(@), !.now = n, !.at = m, !.held = h]
    <3>1. /\ d.op = c.op /\ d.task = c.task /\ d.owner = c.owner /\ d.arg = c.arg
          /\ d.at = m /\ d.now = n /\ d.todo = Tail(c.todo) /\ d.saw = c.saw
      BY <1>1 DEF Call
    <3>2. Become(p, d)
      BY <2>2
    <3> HIDE DEF d
    <3> QED BY <1>4, <2>1, <2>2, <3>1, <3>2 DEF Rest
  <2>3. ASSUME NEW n
        PROVE  /\ [c EXCEPT !.todo = Tail(@), !.now = n]
                    = [c EXCEPT !.todo = Tail(@), !.now = n, !.at = c.at, !.held = c.held]
               /\ [c EXCEPT !.todo = Tail(@), !.at = n]
                    = [c EXCEPT !.todo = Tail(@), !.now = c.now, !.at = n, !.held = c.held]
               /\ [c EXCEPT !.todo = Tail(@), !.held = n]
                    = [c EXCEPT !.todo = Tail(@), !.now = c.now, !.at = c.at, !.held = n]
    BY <1>1 DEF Call
  <2>4. CASE Look(p) \/ Settle(p)
    BY <2>1, <2>2, <2>3, <2>4 DEF Look, Settle
  <2>5. CASE Clock(p)
    BY <2>1, <2>2, <2>3, <2>5 DEF Clock
  <2>6. CASE Missing(p) \/ BindAll(p) \/ Held(p)
    <3>1. \E h : Become(p, [c EXCEPT !.todo = Tail(@), !.held = h])
      BY <2>6 DEF Missing, BindAll, Held
    <3> QED BY <2>1, <2>2, <2>3, <3>1
  <2> QED BY <1>10, <2>4, <2>5, <2>6
<1>11. CASE Fold(p)
  <2>1. CASE \E t : call' = [call EXCEPT ![p].held = @ \ {t}]
    <3>1. PICK t : call' = [call EXCEPT ![p].held = @ \ {t}]
      BY <2>1
    <3> DEFINE d == [c EXCEPT !.held = @ \ {t}]
    <3>2. /\ d.op = c.op /\ d.task = c.task /\ d.owner = c.owner /\ d.arg = c.arg
          /\ d.at = c.at /\ d.now = c.now /\ d.todo = c.todo /\ d.saw = c.saw
      BY <1>1 DEF Call
    <3>3. Become(p, d)
      BY <1>1, <3>1, <3>2 DEF Become
    <3>4. At(p, "fold")
      BY <1>11 DEF Fold
    <3> HIDE DEF d
    <3> QED BY <1>4, <3>2, <3>3, <3>4 DEF Rest
  <2>2. ~At(p, "existing")
    BY <1>11 DEF Fold, At
  <2> QED BY <1>3, <1>11, <2>1, <2>2 DEF Fold
<1>12. CASE \/ Claim(p) \/ Release(p) \/ MarkWriting(p) \/ BeginRun(p) \/ Present(p)
            \/ Archive(p) \/ SetPlanned(p) \/ SetDone(p) \/ ReadTitle(p) \/ Rename(p)
            \/ Insert(p) \/ Bind(p) \/ Relocate(p) \/ Copy(p) \/ Reopen(p) \/ Upsert(p)
  <2>1. ~At(p, "existing")
    BY <1>12 DEF Claim, Release, MarkWriting, BeginRun, Present, Archive, SetPlanned,
       SetDone, ReadTitle, Rename, Insert, Bind, Relocate, Copy, Reopen, Upsert, At
  <2>2. Return(p) \/ Advance(p)
    BY <1>12 DEF Claim, Release, MarkWriting, BeginRun, Present, Archive, SetPlanned,
       SetDone, ReadTitle, Rename, Insert, Bind, Relocate, Copy, Reopen, Upsert, Update
  <2> QED BY <1>2, <1>3, <2>1, <2>2
<1> QED BY <1>2, <1>5, <1>6, <1>7, <1>8, <1>9, <1>10, <1>11, <1>12
        DEF StepOf, RowStep, DeclareStep, TableStep, Abort

\* A call that begins has its whole program before it and has read nothing but
\* the row that its client names.
LEMMA BeginStarts ==
  ASSUME Base, NEW p \in Proc, Begin(p)
  PROVE  LET d == call'[p] IN
         /\ \A q \in Proc \ {p} : call'[q] = call[q]
         /\ UNCHANGED <<rows, now>>
         /\ d.op \in DOMAIN Program /\ d.todo = Program[d.op] /\ d.at = 0 /\ d.now = 0
         /\ d.saw = NoRow \/ \E t \in Task : d.saw = rows[t]
         /\ d.op = "declare" => d.arg \in Text /\ d.owner \in Owner
<1> DEFINE Started(d) ==
      /\ d.op \in DOMAIN Program /\ d.todo = Program[d.op] /\ d.at = 0 /\ d.now = 0
      /\ d.saw = NoRow \/ \E t \in Task : d.saw = rows[t]
      /\ d.op = "declare" => d.arg \in Text /\ d.owner \in Owner
<1>1. UNCHANGED <<rows, now>>
  BY DEF Begin
<1>2. ASSUME NEW op \in DOMAIN Program, NEW t, NEW o, NEW a, NEW n \in BOOLEAN,
             n => t \in Task, op = "declare" => a \in Text /\ o \in Owner,
             Start(p, op, t, o, a, n)
      PROVE  (\A q \in Proc \ {p} : call'[q] = call[q]) /\ Started(call'[p])
  <2> DEFINE d == [Idle EXCEPT !.todo = Program[op], !.op = op, !.task = t, !.owner = o,
                     !.arg = a, !.named = n, !.saw = IF n THEN rows[t] ELSE NoRow]
  <2>1. /\ \A q \in Proc \ {p} : call'[q] = call[q]
        /\ call'[p] = d
    BY <1>2 DEF Start, Base, CallsTyped
  <2>2. /\ d.op = op /\ d.todo = Program[op] /\ d.at = 0 /\ d.now = 0 /\ d.arg = a
        /\ d.owner = o /\ d.saw = IF n THEN rows[t] ELSE NoRow
    BY DEF Idle
  <2> HIDE DEF d
  <2> QED BY <1>2, <2>1, <2>2
<1> HIDE DEF Started
<1>3. /\ DOMAIN Program = AgentCalls \cup BoardCalls \cup TableCalls \cup {"create", "declare"}
      /\ "declare" \notin AgentCalls \cup BoardCalls \cup TableCalls
  BY ProgramType DEF AgentCalls, BoardCalls, TableCalls
<1>4. CASE BeginAgent(p)
  <2>1. PICK op \in Calls \cap AgentCalls, o \in Owner, n \in BOOLEAN, t \in Task :
             \E a : Start(p, op, t, o, a, n)
    BY <1>4 DEF BeginAgent
  <2>2. op \in DOMAIN Program /\ op # "declare"
    BY <1>3, <2>1
  <2>3. (\A q \in Proc \ {p} : call'[q] = call[q]) /\ Started(call'[p])
    BY <1>2, <2>1, <2>2
  <2> QED BY <1>1, <2>3 DEF Started
<1>5. CASE BeginBoard(p)
  <2>1. PICK op \in Calls \cap BoardCalls, n \in BOOLEAN, t \in Task :
             \E a : Start(p, op, t, NULL, a, n)
    BY <1>5 DEF BeginBoard
  <2>2. op \in DOMAIN Program /\ op # "declare"
    BY <1>3, <2>1
  <2>3. (\A q \in Proc \ {p} : call'[q] = call[q]) /\ Started(call'[p])
    BY <1>2, <2>1, <2>2
  <2> QED BY <1>1, <2>3 DEF Started
<1>6. CASE BeginCreate(p)
  <2>1. PICK t, a : Start(p, "create", t, NULL, a, FALSE)
    BY <1>6 DEF BeginCreate
  <2>2. (\A q \in Proc \ {p} : call'[q] = call[q]) /\ Started(call'[p])
    BY <1>2, <1>3, <2>1
  <2> QED BY <1>1, <2>2 DEF Started
<1>7. CASE BeginDeclare(p)
  <2>1. PICK o \in Owner, q \in Text : Start(p, "declare", DeclaredId(o), o, q, FALSE)
    BY <1>7 DEF BeginDeclare
  <2>2. (\A q1 \in Proc \ {p} : call'[q1] = call[q1]) /\ Started(call'[p])
    BY <1>2, <1>3, <2>1
  <2> QED BY <1>1, <2>2 DEF Started
<1>8. CASE BeginTable(p)
  <2>1. PICK op \in Calls \cap TableCalls : Start(p, op, NULL, NULL, NULL, FALSE)
    BY <1>8 DEF BeginTable
  <2>2. op \in DOMAIN Program /\ op # "declare"
    BY <1>3, <2>1
  <2>3. (\A q \in Proc \ {p} : call'[q] = call[q]) /\ Started(call'[p])
    BY <1>2, <2>1, <2>2
  <2> QED BY <1>1, <2>3 DEF Started
<1> QED BY <1>4, <1>5, <1>6, <1>7, <1>8 DEF Begin

-----------------------------------------------------------------------------
(* What a step writes. *)

\* The columns that the promises are about.
Looks(s, status, owner, lease, result, purpose) ==
  /\ s.status = status /\ s.owner = owner /\ s.lease = lease
  /\ s.result = result /\ s.purpose = purpose

\* What the current step of p may do to the row of task t.
Written(p, t) == LET c == call[p] r == rows[t] s == rows'[t] IN
  \/ Looks(s, r.status, r.owner, r.lease, r.result, r.purpose)
  \/ /\ At(p, "settle") /\ Lapsed(r, c.at)
     /\ Looks(s, "open", NULL, NULL, r.result, r.purpose)
  \/ /\ t = c.task /\ (At(p, "claim") \/ At(p, "begin_run"))
     /\ c.owner \in Owner /\ Claimable(r, c.owner)
     /\ Looks(s, "claimed", c.owner, c.now + Lease, r.result, r.purpose)
  \/ /\ t = c.task /\ At(p, "release") /\ Holds(c)
     /\ Looks(s, "open", NULL, NULL, r.result, r.purpose)
  \/ /\ t = c.task /\ At(p, "complete") /\ Holds(c)
     /\ Looks(s, "done", r.owner, NULL, c.arg, r.purpose)
  \/ /\ t = c.task /\ (At(p, "archive") \/ At(p, "done"))
     /\ r.status # "absent" /\ Looks(s, "done", r.owner, NULL, r.result, r.purpose)
  \/ /\ t = c.task /\ At(p, "planned")
     /\ r.status # "absent" /\ Looks(s, "open", NULL, NULL, r.result, r.purpose)
  \/ /\ t = c.task /\ At(p, "reopen")
     /\ r.status = "done" /\ Looks(s, "open", NULL, NULL, NULL, r.purpose)
  \/ /\ t = c.task /\ At(p, "insert")
     /\ r.status = "absent" /\ Looks(s, "open", NULL, NULL, NULL, NULL)
  \/ /\ t = c.task /\ At(p, "upsert")
     /\ \/ r.status = "absent" /\ Looks(s, "open", NULL, NULL, NULL, c.arg)
        \/ /\ r.status # "absent"
           /\ Looks(s, r.status, r.owner, r.lease, r.result, c.arg)
  \/ /\ t = ClosedId(c.owner, c.saw.purpose) /\ At(p, "copy")
     /\ r.status = "absent" /\ Looks(s, "done", c.saw.owner, NULL, "closed", c.saw.purpose)

\* The rows that the statements build, column by column.
LEMMA BuiltLooks ==
  ASSUME NEW r \in Good, NEW o \in Owner \cup {NULL}, NEW t \in Nat, NEW a \in Words
  PROVE  /\ Looks(Bumped(r), r.status, r.owner, r.lease, r.result, r.purpose)
         /\ Looks(Bumped(Taken(r, o, t)), "claimed", o, t + Lease, r.result, r.purpose)
         /\ Looks(Bumped([Taken(r, o, t) EXCEPT !.capacity = FALSE]), "claimed", o, t + Lease,
                  r.result, r.purpose)
         /\ Looks(Bumped(Freed(r)), "open", NULL, NULL, r.result, r.purpose)
         /\ Looks(Settled(r), "open", NULL, NULL, r.result, r.purpose)
         /\ Looks(Bumped([Freed(r) EXCEPT !.result = NULL]), "open", NULL, NULL, NULL, r.purpose)
         /\ Looks(Bumped(Finished(r, a)), "done", r.owner, NULL, a, r.purpose)
         /\ Looks(Bumped(Closed(r)), "done", r.owner, NULL, r.result, r.purpose)
         /\ Looks(Bumped([Closed(r) EXCEPT !.archived = TRUE]), "done", r.owner, NULL,
                  r.result, r.purpose)
         /\ Looks(Bumped([r EXCEPT !.title = a, !.purpose = a]), r.status, r.owner, r.lease,
                  r.result, a)
<1>1. r \in Row
  BY DEF Good
<1>2. /\ Looks(Bumped(r), r.status, r.owner, r.lease, r.result, r.purpose)
      /\ Looks(Bumped(Taken(r, o, t)), "claimed", o, t + Lease, r.result, r.purpose)
      /\ Looks(Bumped([Taken(r, o, t) EXCEPT !.capacity = FALSE]), "claimed", o, t + Lease,
               r.result, r.purpose)
  BY <1>1 DEF Looks, Bumped, Taken, Row
<1>3. /\ Looks(Bumped(Freed(r)), "open", NULL, NULL, r.result, r.purpose)
      /\ Looks(Settled(r), "open", NULL, NULL, r.result, r.purpose)
      /\ Looks(Bumped([Freed(r) EXCEPT !.result = NULL]), "open", NULL, NULL, NULL, r.purpose)
  BY <1>1 DEF Looks, Bumped, Freed, Settled, Row
<1>4. /\ Looks(Bumped(Finished(r, a)), "done", r.owner, NULL, a, r.purpose)
      /\ Looks(Bumped(Closed(r)), "done", r.owner, NULL, r.result, r.purpose)
      /\ Looks(Bumped([Closed(r) EXCEPT !.archived = TRUE]), "done", r.owner, NULL,
               r.result, r.purpose)
      /\ Looks(Bumped([r EXCEPT !.title = a, !.purpose = a]), r.status, r.owner, r.lease,
               r.result, a)
  BY <1>1 DEF Looks, Bumped, Finished, Closed, Row
<1> QED BY <1>2, <1>3, <1>4

\* Columns that no promise is about.
LEMMA PlainLooks ==
  ASSUME NEW r \in Good, NEW b \in BOOLEAN, NEW a \in Words
  PROVE  LET Still(s) == Looks(Bumped(s), r.status, r.owner, r.lease, r.result, r.purpose) IN
         /\ Still([r EXCEPT !.write_open = b]) /\ Still([r EXCEPT !.capacity = b])
         /\ Still([r EXCEPT !.archived = b]) /\ Still([r EXCEPT !.bound = b])
         /\ Still([r EXCEPT !.title = a])
<1>1. r \in Row
  BY DEF Good
<1> QED BY <1>1 DEF Looks, Bumped, Row

\* The step changes no column that a promise is about.
LEMMA NothingWritten ==
  ASSUME NEW p \in Proc, UNCHANGED rows
  PROVE  \A t \in Task : Written(p, t)
BY DEF Written, Looks

\* Only the row of the call is written, in one of the ways of Written.
LEMMA PutWritten ==
  ASSUME Base, NEW p \in Proc, NEW t, NEW r, Put(t, r),
         t \in Task /\ rows'[t] = Bumped(r) => Written(p, t)
  PROVE  \A u \in Task : Written(p, u)
<1>1. \A u \in Task : rows'[u] = IF u = t THEN Bumped(r) ELSE rows[u]
  BY DEF Put, Base, RowsGood
<1> SUFFICES ASSUME NEW u \in Task PROVE Written(p, u)
  OBVIOUS
<1>2. CASE u = t
  BY <1>1, <1>2
<1>3. CASE u # t
  BY <1>1, <1>3 DEF Written, Looks
<1> QED BY <1>2, <1>3

\* Every step of a process writes in one of those ways.
LEMMA StepWrites ==
  ASSUME Base, NEW p \in Proc, StepOf(p)
  PROVE  \A t \in Task : Written(p, t)
<1> DEFINE c == call[p]
           r == rows[c.task]
<1>1. /\ c.owner \in Owner \cup {NULL} /\ c.arg \in Words /\ c.now \in Nat
      /\ c.task \in Task => r \in Good
      /\ \A t \in Task : rows[t] \in Good
      /\ NULL \in Words /\ 0 \in Nat
  BY CallFields DEF Base, RowsGood, Words
<1>2. CASE Claim(p)
  <2>1. \/ UNCHANGED rows
        \/ Put(c.task, Taken(r, c.owner, c.now)) /\ Claimable(r, c.owner)
    BY <1>2 DEF Claim
  <2>2. At(p, "claim") /\ c.owner \in Owner
    BY <1>2, TakerNamed DEF Claim
  <2>3. c.task \in Task => Looks(Bumped(Taken(r, c.owner, c.now)), "claimed", c.owner,
                                 c.now + Lease, r.result, r.purpose)
    BY <1>1, BuiltLooks
  <2>4. CASE Put(c.task, Taken(r, c.owner, c.now)) /\ Claimable(r, c.owner)
    <3>1. c.task \in Task /\ rows'[c.task] = Bumped(Taken(r, c.owner, c.now))
            => Written(p, c.task)
      BY <2>2, <2>3, <2>4 DEF Written
    <3> QED BY <2>4, <3>1, PutWritten
  <2> QED BY <2>1, <2>4, NothingWritten
<1>3. CASE Release(p)
  <2>1. UNCHANGED rows \/ (Put(c.task, Freed(r)) /\ Holds(c))
    BY <1>3 DEF Release, Update
  <2>2. c.task \in Task => Looks(Bumped(Freed(r)), "open", NULL, NULL, r.result, r.purpose)
    BY <1>1, BuiltLooks
  <2>3. CASE Put(c.task, Freed(r)) /\ Holds(c)
    <3>1. c.task \in Task /\ rows'[c.task] = Bumped(Freed(r)) => Written(p, c.task)
      BY <1>3, <2>2, <2>3 DEF Written, Release
    <3> QED BY <2>3, <3>1, PutWritten
  <2> QED BY <2>1, <2>3, NothingWritten
<1>4. CASE MarkWriting(p)
  <2> DEFINE s == [r EXCEPT !.write_open = TRUE]
  <2>1. UNCHANGED rows \/ Put(c.task, s)
    BY <1>4 DEF MarkWriting, Update
  <2>2. c.task \in Task => Looks(Bumped(s), r.status, r.owner, r.lease, r.result, r.purpose)
    BY <1>1, PlainLooks
  <2> HIDE DEF s
  <2>3. c.task \in Task /\ rows'[c.task] = Bumped(s) => Written(p, c.task)
    BY <2>2 DEF Written
  <2> QED BY <2>1, <2>3, PutWritten, NothingWritten
<1>5. CASE CompleteTask(p)
  <2> DEFINE s == Finished(r, c.arg)
  <2>1. At(p, "complete") /\ (UNCHANGED rows \/ (Put(c.task, s) /\ Holds(c)))
    BY <1>5 DEF CompleteTask
  <2>2. c.task \in Task => Looks(Bumped(s), "done", r.owner, NULL, c.arg, r.purpose)
    BY <1>1, BuiltLooks
  <2> HIDE DEF s
  <2>3. CASE Put(c.task, s) /\ Holds(c)
    <3>1. c.task \in Task /\ rows'[c.task] = Bumped(s) => Written(p, c.task)
      BY <2>1, <2>2, <2>3 DEF Written
    <3> QED BY <2>3, <3>1, PutWritten
  <2> QED BY <2>1, <2>3, NothingWritten
<1>6. CASE BeginRun(p)
  <2> DEFINE s == [Taken(r, c.owner, c.now) EXCEPT !.capacity = FALSE]
             full == [r EXCEPT !.capacity = TRUE]
  <2>1. At(p, "begin_run") /\ c.owner \in Owner
    BY <1>6, TakerNamed DEF BeginRun
  <2>2. \/ UNCHANGED rows
        \/ Put(c.task, full)
        \/ Put(c.task, s) /\ Claimable(r, c.owner)
    BY <1>6 DEF BeginRun, Update
  <2>3. c.task \in Task =>
          /\ Looks(Bumped(s), "claimed", c.owner, c.now + Lease, r.result, r.purpose)
          /\ Looks(Bumped(full), r.status, r.owner, r.lease, r.result, r.purpose)
    BY <1>1, BuiltLooks, PlainLooks
  <2> HIDE DEF s, full
  <2>4. CASE Put(c.task, full)
    <3>1. c.task \in Task /\ rows'[c.task] = Bumped(full) => Written(p, c.task)
      BY <2>3 DEF Written
    <3> QED BY <2>4, <3>1, PutWritten
  <2>5. CASE Put(c.task, s) /\ Claimable(r, c.owner)
    <3>1. c.task \in Task /\ rows'[c.task] = Bumped(s) => Written(p, c.task)
      BY <2>1, <2>3, <2>5 DEF Written
    <3> QED BY <2>5, <3>1, PutWritten
  <2> QED BY <2>2, <2>4, <2>5, NothingWritten
<1>7. CASE Archive(p)
  <2> DEFINE s == [Closed(r) EXCEPT !.archived = TRUE]
  <2>1. At(p, "archive") /\ (UNCHANGED rows \/ (Put(c.task, s) /\ r.status # "absent"))
    BY <1>7 DEF Archive, Update, Current, Exists
  <2>2. c.task \in Task => Looks(Bumped(s), "done", r.owner, NULL, r.result, r.purpose)
    BY <1>1, BuiltLooks
  <2> HIDE DEF s
  <2>3. CASE Put(c.task, s) /\ r.status # "absent"
    <3>1. c.task \in Task /\ rows'[c.task] = Bumped(s) => Written(p, c.task)
      BY <2>1, <2>2, <2>3 DEF Written
    <3> QED BY <2>3, <3>1, PutWritten
  <2> QED BY <2>1, <2>3, NothingWritten
<1>8. CASE SetDone(p)
  <2> DEFINE s == Closed(r)
  <2>1. At(p, "done") /\ (UNCHANGED rows \/ (Put(c.task, s) /\ r.status # "absent"))
    BY <1>8 DEF SetDone, Update, Current, Exists
  <2>2. c.task \in Task => Looks(Bumped(s), "done", r.owner, NULL, r.result, r.purpose)
    BY <1>1, BuiltLooks
  <2> HIDE DEF s
  <2>3. CASE Put(c.task, s) /\ r.status # "absent"
    <3>1. c.task \in Task /\ rows'[c.task] = Bumped(s) => Written(p, c.task)
      BY <2>1, <2>2, <2>3 DEF Written
    <3> QED BY <2>3, <3>1, PutWritten
  <2> QED BY <2>1, <2>3, NothingWritten
<1>9. CASE SetPlanned(p)
  <2> DEFINE s == Freed(r)
  <2>1. At(p, "planned") /\ (UNCHANGED rows \/ (Put(c.task, s) /\ r.status # "absent"))
    BY <1>9 DEF SetPlanned, Update, Current, Exists
  <2>2. c.task \in Task => Looks(Bumped(s), "open", NULL, NULL, r.result, r.purpose)
    BY <1>1, BuiltLooks
  <2> HIDE DEF s
  <2>3. CASE Put(c.task, s) /\ r.status # "absent"
    <3>1. c.task \in Task /\ rows'[c.task] = Bumped(s) => Written(p, c.task)
      BY <2>1, <2>2, <2>3 DEF Written
    <3> QED BY <2>3, <3>1, PutWritten
  <2> QED BY <2>1, <2>3, NothingWritten
<1>10. CASE Rename(p)
  <2> DEFINE s == [r EXCEPT !.title = c.arg]
  <2>1. UNCHANGED rows \/ Put(c.task, s)
    BY <1>10 DEF Rename, Update
  <2>2. c.task \in Task => Looks(Bumped(s), r.status, r.owner, r.lease, r.result, r.purpose)
    BY <1>1, PlainLooks
  <2> HIDE DEF s
  <2>3. c.task \in Task /\ rows'[c.task] = Bumped(s) => Written(p, c.task)
    BY <2>2 DEF Written
  <2> QED BY <2>1, <2>3, PutWritten, NothingWritten
<1>11. CASE Bind(p)
  <2> DEFINE s == [r EXCEPT !.bound = TRUE]
  <2>1. UNCHANGED rows \/ Put(c.task, s)
    BY <1>11 DEF Bind, Update
  <2>2. c.task \in Task => Looks(Bumped(s), r.status, r.owner, r.lease, r.result, r.purpose)
    BY <1>1, PlainLooks
  <2> HIDE DEF s
  <2>3. c.task \in Task /\ rows'[c.task] = Bumped(s) => Written(p, c.task)
    BY <2>2 DEF Written
  <2> QED BY <2>1, <2>3, PutWritten, NothingWritten
<1>12. CASE Relocate(p)
  <2>1. UNCHANGED rows \/ Put(c.task, r)
    BY <1>12 DEF Relocate, Update
  <2>2. c.task \in Task => Looks(Bumped(r), r.status, r.owner, r.lease, r.result, r.purpose)
    BY <1>1, BuiltLooks
  <2>3. c.task \in Task /\ rows'[c.task] = Bumped(r) => Written(p, c.task)
    BY <2>2 DEF Written
  <2> QED BY <2>1, <2>3, PutWritten, NothingWritten
<1>13. CASE Insert(p)
  <2> DEFINE s == [NoRow EXCEPT !.status = "open", !.title = c.arg, !.bound = TRUE]
  <2>1. At(p, "insert") /\ r.status = "absent" /\ rows' = [rows EXCEPT ![c.task] = s]
    BY <1>13 DEF Insert, Exists
  <2>2. Looks(s, "open", NULL, NULL, NULL, NULL)
    BY DEF Looks, NoRow
  <2> HIDE DEF s
  <2>3. \A u \in Task : rows'[u] = IF u = c.task THEN s ELSE rows[u]
    BY <2>1 DEF Base, RowsGood
  <2> SUFFICES ASSUME NEW u \in Task PROVE Written(p, u)
    OBVIOUS
  <2>4. CASE u = c.task
    BY <2>1, <2>2, <2>3, <2>4 DEF Written
  <2>5. CASE u # c.task
    BY <2>3, <2>5 DEF Written, Looks
  <2> QED BY <2>4, <2>5
<1>14. CASE Copy(p)
  <2> DEFINE t == ClosedId(c.owner, c.saw.purpose)
             s == [NoRow EXCEPT !.status = "done", !.owner = c.saw.owner,
                     !.title = c.saw.title, !.purpose = c.saw.purpose, !.result = "closed"]
  <2>1. /\ At(p, "copy")
        /\ \/ UNCHANGED rows
           \/ rows[t].status = "absent" /\ rows' = [rows EXCEPT ![t] = s]
    BY <1>14 DEF Copy, Exists
  <2>2. Looks(s, "done", c.saw.owner, NULL, "closed", c.saw.purpose)
    BY DEF Looks, NoRow
  <2>3. CASE rows[t].status = "absent" /\ rows' = [rows EXCEPT ![t] = s]
    <3> HIDE DEF s
    <3>1. \A u \in Task : rows'[u] = IF u = t THEN s ELSE rows[u]
      <4> HIDE DEF t
      <4> QED BY <2>3 DEF Base, RowsGood
    <3> SUFFICES ASSUME NEW u \in Task PROVE Written(p, u)
      OBVIOUS
    <3>2. CASE u = t
      BY <2>1, <2>2, <2>3, <3>1, <3>2 DEF Written
    <3>3. CASE u # t
      BY <3>1, <3>3 DEF Written, Looks
    <3> QED BY <3>2, <3>3
  <2> QED BY <2>1, <2>3, NothingWritten
<1>15. CASE Reopen(p)
  <2> DEFINE s == [Freed(r) EXCEPT !.result = NULL]
  <2>1. At(p, "reopen") /\ (UNCHANGED rows \/ (Put(c.task, s) /\ r.status = "done"))
    BY <1>15 DEF Reopen
  <2>2. c.task \in Task => Looks(Bumped(s), "open", NULL, NULL, NULL, r.purpose)
    BY <1>1, BuiltLooks
  <2> HIDE DEF s
  <2>3. CASE Put(c.task, s) /\ r.status = "done"
    <3>1. c.task \in Task /\ rows'[c.task] = Bumped(s) => Written(p, c.task)
      BY <2>1, <2>2, <2>3 DEF Written
    <3> QED BY <2>3, <3>1, PutWritten
  <2> QED BY <2>1, <2>3, NothingWritten
<1>16. CASE Upsert(p)
  <2> DEFINE told(x) == [x EXCEPT !.title = c.arg, !.purpose = c.arg]
             new == [told(NoRow) EXCEPT !.status = "open"]
             s == told(r)
  <2>1. /\ At(p, "upsert")
        /\ \/ UNCHANGED rows
           \/ r.status = "absent" /\ rows' = [rows EXCEPT ![c.task] = new]
           \/ r.status # "absent" /\ Put(c.task, s)
    BY <1>16 DEF Upsert
  <2>2. Looks(new, "open", NULL, NULL, NULL, c.arg)
    BY DEF Looks, NoRow
  <2>3. c.task \in Task => Looks(Bumped(s), r.status, r.owner, r.lease, r.result, c.arg)
    BY <1>1, BuiltLooks
  <2> HIDE DEF new, s
  <2>4. CASE r.status = "absent" /\ rows' = [rows EXCEPT ![c.task] = new]
    <3>1. \A u \in Task : rows'[u] = IF u = c.task THEN new ELSE rows[u]
      BY <2>4 DEF Base, RowsGood
    <3> SUFFICES ASSUME NEW u \in Task PROVE Written(p, u)
      OBVIOUS
    <3>2. CASE u = c.task
      BY <2>1, <2>2, <2>4, <3>1, <3>2 DEF Written
    <3>3. CASE u # c.task
      BY <3>1, <3>3 DEF Written, Looks
    <3> QED BY <3>2, <3>3
  <2>5. CASE r.status # "absent" /\ Put(c.task, s)
    <3>1. c.task \in Task /\ rows'[c.task] = Bumped(s) => Written(p, c.task)
      BY <2>1, <2>3, <2>5 DEF Written
    <3> QED BY <2>5, <3>1, PutWritten
  <2> QED BY <2>1, <2>4, <2>5, NothingWritten
<1>17. CASE Settle(p)
  <2> SUFFICES ASSUME NEW t \in Task PROVE Written(p, t)
    OBVIOUS
  <2>1. /\ At(p, "settle")
        /\ rows'[t] = IF Lapsed(rows[t], c.at) THEN Settled(rows[t]) ELSE rows[t]
    BY <1>17 DEF Settle
  <2>2. Looks(Settled(rows[t]), "open", NULL, NULL, rows[t].result, rows[t].purpose)
    BY <1>1, BuiltLooks
  <2>3. CASE Lapsed(rows[t], c.at)
    BY <2>1, <2>2, <2>3 DEF Written
  <2>4. CASE ~Lapsed(rows[t], c.at)
    BY <2>1, <2>4 DEF Written, Looks
  <2> QED BY <2>3, <2>4
<1>18. CASE BindAll(p)
  <2> SUFFICES ASSUME NEW t \in Task PROVE Written(p, t)
    OBVIOUS
  <2> DEFINE s == Bumped([rows[t] EXCEPT !.bound = TRUE])
  <2>1. rows'[t] = s \/ rows'[t] = rows[t]
    BY <1>18 DEF BindAll
  <2>2. Looks(s, rows[t].status, rows[t].owner, rows[t].lease, rows[t].result, rows[t].purpose)
    BY <1>1, PlainLooks
  <2> HIDE DEF s
  <2> QED BY <2>1, <2>2 DEF Written, Looks
<1>19. CASE Fold(p)
  <2>1. UNCHANGED rows \/ \E t : Put(t, [rows[t] EXCEPT !.archived = TRUE])
    BY <1>19 DEF Fold
  <2>2. ASSUME NEW t, Put(t, [rows[t] EXCEPT !.archived = TRUE])
        PROVE  \A u \in Task : Written(p, u)
    <3> DEFINE s == [rows[t] EXCEPT !.archived = TRUE]
    <3>1. t \in Task => Looks(Bumped(s), rows[t].status, rows[t].owner, rows[t].lease,
                              rows[t].result, rows[t].purpose)
      BY <1>1, PlainLooks
    <3>2. Put(t, s)
      BY <2>2
    <3> HIDE DEF s
    <3>3. t \in Task /\ rows'[t] = Bumped(s) => Written(p, t)
      BY <3>1 DEF Written
    <3> QED BY <3>2, <3>3, PutWritten
  <2> QED BY <2>1, <2>2, NothingWritten
<1>20. CASE Reread(p) \/ Present(p) \/ ReadTitle(p) \/ Lookup(p) \/ Existing(p)
            \/ Probe(p) \/ Look(p) \/ Clock(p) \/ Missing(p) \/ Held(p)
  BY <1>20, NothingWritten DEF Reread, Present, ReadTitle, Lookup, Existing, Probe,
     Look, Clock, Missing, Held
<1> QED BY <1>2, <1>3, <1>4, <1>5, <1>6, <1>7, <1>8, <1>9, <1>10, <1>11, <1>12, <1>13, <1>14,
           <1>15, <1>16, <1>17, <1>18, <1>19, <1>20 DEF StepOf, RowStep, DeclareStep, TableStep

-----------------------------------------------------------------------------
(* The invariant. *)

\* The step at the head of a program is the first of it.
LEMMA HeadIsFirst ==
  ASSUME InProgram, NEW p \in Proc, call[p].todo # <<>>
  PROVE  /\ Head(call[p].todo) = call[p].todo[1]
         /\ Head(call[p].todo) \in StepsFor(call[p].op)
BY HeadTailProperties DEF InProgram

\* Where a call is tells what kind of call it is.
LEMMA StepTellsCall ==
  ASSUME InProgram, NEW p \in Proc, call[p].todo # <<>>
  PROVE  /\ Head(call[p].todo) \in {"archive", "planned", "done"}
              => call[p].op = Head(call[p].todo)
         /\ Head(call[p].todo) \in DeclareSteps => call[p].op = "declare"
         /\ Head(call[p].todo) = "reread" => call[p].op # "declare"
BY HeadIsFirst DEF StepsFor

\* The steps that close an earlier purpose.
LEMMA ClosingOrdered ==
  /\ Closing \in Seq(StepsFor("declare")) /\ Ordered(Closing)
  /\ Closing # <<>> /\ Closing[1] = "look" /\ Closing[Len(Closing)] = "reopen"
<1> DEFINE S == StepsFor("declare")
           a == SettleLapsed
           b == <<"probe", "copy", "reopen">>
<1>1. /\ a \in Seq(S) /\ Len(a) = 2 /\ a[1] = "look" /\ a[2] = "settle"
      /\ b \in Seq(S) /\ Len(b) = 3 /\ b[1] = "probe" /\ b[2] = "copy" /\ b[3] = "reopen"
  BY DEF StepsFor, Step, DeclareSteps, SettleLapsed
<1> HIDE DEF a, b, S
<1>2. Ordered(a) /\ Ordered(b)
  BY <1>1 DEF Ordered, Precedes
<1>3. Precedes(a[Len(a)], b[1])
  BY <1>1 DEF Precedes
<1>4. Ordered(a \o b)
  BY <1>1, <1>2, <1>3, ConcatOrdered
<1>5. /\ a \o b \in Seq(S) /\ Len(a \o b) = 5
      /\ \A i \in 1..(Len(a) + Len(b)) : (a \o b)[i] = IF i <= Len(a) THEN a[i] ELSE b[i - Len(a)]
  BY <1>1, ConcatProperties
<1>6. (a \o b)[1] = "look" /\ (a \o b)[5] = "reopen" /\ a \o b # <<>>
  BY <1>1, <1>5
<1> QED BY <1>4, <1>5, <1>6 DEF Closing, a, b, S

\* The rest of a call is a rest of its program.
LEMMA GoesInProgram ==
  ASSUME InProgram, NEW p \in Proc, NEW d, GoesOn(p, call[p], d)
  PROVE  d.todo \in Seq(StepsFor(d.op)) /\ Ordered(d.todo)
<1> DEFINE c == call[p]
           S == StepsFor(c.op)
<1>1. c.todo \in Seq(S) /\ Ordered(c.todo) /\ c.todo # <<>> /\ d.op = c.op
  BY DEF InProgram, GoesOn
<1> HIDE DEF S
<1>2. Tail(c.todo) \in Seq(S) /\ Ordered(Tail(c.todo))
  BY <1>1, TailOfSteps, TailOrdered
<1>3. \A k \in Nat \ {0} : SubSeq(c.todo, k, Len(c.todo)) \in Seq(S)
                           /\ Ordered(SubSeq(c.todo, k, Len(c.todo)))
  BY <1>1, RestOfSteps, RestOrdered
<1>4. 3 \in Nat \ {0} /\ 6 \in Nat \ {0}
  OBVIOUS
<1>5. CASE At(p, "existing") /\ d.todo = Closing \o Tail(c.todo)
  <2>1. c.todo[1] = "existing" /\ c.op = "declare"
    BY <1>1, <1>5, HeadIsFirst, StepTellsCall DEF At, DeclareSteps
  <2>2. Closing \in Seq(S) /\ Ordered(Closing) /\ Closing[Len(Closing)] = "reopen"
    BY <2>1, ClosingOrdered DEF S
  <2>3. Tail(c.todo) # <<>> => Precedes("reopen", Tail(c.todo)[1])
    <3> SUFFICES ASSUME Tail(c.todo) # <<>> PROVE Precedes("reopen", Tail(c.todo)[1])
      OBVIOUS
    <3>1. /\ Len(c.todo) \in Nat /\ Len(Tail(c.todo)) = Len(c.todo) - 1
          /\ \A i \in 1..Len(Tail(c.todo)) : Tail(c.todo)[i] = c.todo[i + 1]
      BY <1>1, LenProperties, HeadTailProperties
    <3>2. Len(Tail(c.todo)) > 0
      BY <1>2, <3>1, EmptySeq
    <3>3. Tail(c.todo)[1] = c.todo[1 + 1] /\ 1 \in 1..Len(c.todo) /\ 1 + 1 \in 1..Len(c.todo)
      BY <3>1, <3>2
    <3>4. Precedes(c.todo[1], c.todo[1 + 1])
      BY <1>1, <3>3 DEF Ordered
    <3> QED BY <2>1, <3>3, <3>4 DEF Precedes
  <2>4. Closing \o Tail(c.todo) \in Seq(S) /\ Ordered(Closing \o Tail(c.todo))
    BY <1>2, <2>2, <2>3, ConcatProperties, ConcatOrdered
  <2> QED BY <1>1, <1>5, <2>4 DEF S
<1>6. \/ d.todo \in {Tail(c.todo), c.todo, SubSeq(c.todo, 3, Len(c.todo)),
                     SubSeq(c.todo, 6, Len(c.todo))}
      \/ At(p, "existing") /\ d.todo = Closing \o Tail(c.todo)
  BY DEF GoesOn, Rest
<1> QED BY <1>1, <1>2, <1>3, <1>4, <1>5, <1>6 DEF S

\* No call leaves its program.
LEMMA InProgramKeeps ==
  ASSUME Base, InProgram, [Next]_vars
  PROVE  InProgram'
<1>1. CASE Tick \/ UNCHANGED vars
  BY <1>1 DEF Tick, vars, InProgram
<1>2. ASSUME NEW p \in Proc, Begin(p)
      PROVE  InProgram'
  <2>1. /\ \A q \in Proc \ {p} : call'[q] = call[q]
        /\ call'[p].op \in DOMAIN Program /\ call'[p].todo = Program[call'[p].op]
    BY <1>2, BeginStarts
  <2>2. call'[p].todo \in Seq(StepsFor(call'[p].op)) /\ Ordered(call'[p].todo)
    BY <2>1, ProgramOrdered
  <2> QED BY <2>1, <2>2 DEF InProgram
<1>3. ASSUME NEW p \in Proc, StepOf(p) \/ Abort(p)
      PROVE  InProgram'
  <2>1. Goes(p)
    BY <1>3, StepGoes
  <2>2. call'[p].todo \in Seq(StepsFor(call'[p].op)) /\ Ordered(call'[p].todo)
    <3>1. CASE call'[p] = Idle
      <4>1. Idle.todo = <<>> /\ <<>> \in Seq(StepsFor(Idle.op)) /\ Len(<<>>) = 0
        BY EmptySeq DEF Idle
      <4> QED BY <3>1, <4>1 DEF Ordered
    <3>2. CASE GoesOn(p, call[p], call'[p])
      BY <3>2, GoesInProgram
    <3> QED BY <2>1, <3>1, <3>2 DEF Goes
  <2> QED BY <2>1, <2>2 DEF InProgram, Goes
<1> QED BY <1>1, <1>2, <1>3 DEF Next

\* No reading of the clock is ahead of it.
LEMMA ClocksReadKeeps ==
  ASSUME Base, ClocksRead, [Next]_vars
  PROVE  ClocksRead'
<1>1. now \in Nat /\ \A q \in Proc : call[q].at \in Nat /\ call[q].now \in Nat
  BY DEF Base, CallsTyped, Call
<1>2. CASE Tick \/ UNCHANGED vars
  BY <1>1, <1>2 DEF Tick, vars, ClocksRead
<1>3. ASSUME NEW p \in Proc, Begin(p)
      PROVE  ClocksRead'
  BY <1>1, <1>3, BeginStarts DEF ClocksRead
<1>4. ASSUME NEW p \in Proc, StepOf(p) \/ Abort(p)
      PROVE  ClocksRead'
  <2>1. Goes(p) /\ now' = now
    BY <1>4, StepGoes DEF Abort, StepOf, RowStep, DeclareStep, TableStep, Claim, Release,
       MarkWriting, CompleteTask, Reread, BeginRun, Present, Archive, SetPlanned, SetDone,
       ReadTitle, Rename, Insert, Lookup, Bind, Relocate, Existing, Probe, Copy, Reopen,
       Upsert, Look, Settle, Clock, Missing, BindAll, Held, Fold
  <2>2. call'[p].at <= now /\ call'[p].now <= now
    BY <1>1, <2>1 DEF Goes, GoesOn, Idle, ClocksRead
  <2> QED BY <2>1, <2>2 DEF Goes, ClocksRead
<1> QED BY <1>2, <1>3, <1>4 DEF Next

\* A row never leaves the table.
LEMMA RowsStay ==
  ASSUME Base, [Next]_vars, NEW t \in Task, Exists(t)
  PROVE  rows'[t].status # "absent"
<1>1. RowsMove => rows'[t].status # "absent"
  BY DEF RowsMove, Moves, Exists
<1>2. CASE Tick \/ UNCHANGED vars
  BY <1>2 DEF Tick, vars, Exists
<1>3. ASSUME NEW p \in Proc, Begin(p) \/ StepOf(p) \/ Abort(p)
      PROVE  rows'[t].status # "absent"
  BY <1>1, <1>3, StepMoves, StillMoves DEF Begin, Abort
<1> QED BY <1>2, <1>3 DEF Next

\* A purpose that is written is the argument of a declare or was read.
LEMMA PurposesKeeps ==
  ASSUME Base, InProgram, Purposes, [Next]_vars
  PROVE  Purposes'
<1> DEFINE P == Text \cup {NULL}
           CallOk(d) == /\ d.saw.purpose \in P
                        /\ d.todo # <<>> /\ d.op = "declare"
                             => d.arg \in Text /\ d.owner \in Owner
<1>1. (\A t \in Task : rows[t].purpose \in P) /\ \A q \in Proc : CallOk(call[q])
  BY DEF Purposes
<1>2. NoRow.purpose = NULL /\ CallOk(Idle)
  BY DEF NoRow, Idle
<1> HIDE DEF CallOk
<1>3. CASE Tick \/ UNCHANGED vars
  BY <1>3 DEF Tick, vars, Purposes
<1>4. ASSUME NEW p \in Proc, Begin(p)
      PROVE  Purposes'
  <2>1. LET d == call'[p] IN
        /\ \A q \in Proc \ {p} : call'[q] = call[q]
        /\ UNCHANGED rows
        /\ d.saw = NoRow \/ \E t \in Task : d.saw = rows[t]
        /\ d.op = "declare" => d.arg \in Text /\ d.owner \in Owner
    BY <1>4, BeginStarts
  <2>2. CallOk(call'[p])
    BY <1>1, <1>2, <2>1 DEF CallOk
  <2> QED BY <1>1, <2>1, <2>2 DEF Purposes, CallOk
<1>5. ASSUME NEW p \in Proc, StepOf(p) \/ Abort(p)
      PROVE  Purposes'
  <2> DEFINE c == call[p]
  <2>1. Goes(p) /\ CallOk(c)
    BY <1>1, <1>5, StepGoes
  <2>2. At(p, "lookup") \/ At(p, "existing") => c.task \in Task
    BY TaskNamed DEF At, WholeTable
  <2>3. CallOk(call'[p])
    <3>1. CASE GoesOn(p, c, call'[p])
      <4>1. call'[p].saw = c.saw \/ (call'[p].saw = rows[c.task] /\ c.task \in Task)
        BY <2>2, <3>1 DEF GoesOn, Rest
      <4>2. call'[p].op = c.op /\ call'[p].arg = c.arg /\ call'[p].owner = c.owner
            /\ c.todo # <<>>
        BY <3>1 DEF GoesOn
      <4> QED BY <1>1, <2>1, <4>1, <4>2 DEF CallOk
    <3> QED BY <1>2, <2>1, <3>1 DEF Goes
  <2>4. \A q \in Proc : CallOk(call'[q])
    BY <1>1, <2>1, <2>3 DEF Goes
  <2>5. ASSUME NEW t \in Task
        PROVE  rows'[t].purpose \in P
    <3>1. CASE Abort(p)
      BY <1>1, <3>1 DEF Abort
    <3>2. CASE StepOf(p)
      <4>1. Written(p, t)
        BY <3>2, StepWrites
      <4>2. At(p, "upsert") => c.arg \in Text
        BY <2>1, StepTellsCall DEF CallOk, At, DeclareSteps
      <4>3. rows'[t].purpose \in {rows[t].purpose, NULL, c.saw.purpose}
            \/ (At(p, "upsert") /\ rows'[t].purpose = c.arg)
        BY <4>1 DEF Written, Looks
      <4> QED BY <1>1, <2>1, <4>2, <4>3 DEF CallOk
    <3> QED BY <1>5, <3>1, <3>2
  <2> QED BY <2>4, <2>5 DEF Purposes, CallOk
<1> QED BY <1>3, <1>4, <1>5 DEF Next

\* The closed copy of a purpose that a declare has read has an id.
LEMMA ClosedIdIsTask ==
  ASSUME InProgram, Purposes, NEW p \in Proc, call[p].todo # <<>>,
         Head(call[p].todo) \in DeclareSteps, call[p].saw.purpose # NULL
  PROVE  ClosedId(call[p].owner, call[p].saw.purpose) \in Task
<1>1. call[p].owner \in Owner /\ call[p].saw.purpose \in Text
  BY StepTellsCall DEF Purposes
<1> QED BY <1>1 DEF Task

\* Once a declare may replace a purpose, nothing takes that away.
LEMMA MayReplaceStays ==
  ASSUME Base, InProgram, Purposes, [Next]_vars, NEW p \in Proc, call[p].todo # <<>>,
         Head(call[p].todo) \in DeclareSteps, MayReplace(call[p]),
         NEW d, d.arg = call[p].arg, d.owner = call[p].owner, d.saw = call[p].saw
  PROVE  \/ d.saw.purpose \in {NULL, d.arg}
         \/ rows'[ClosedId(d.owner, d.saw.purpose)].status # "absent"
<1>1. CASE call[p].saw.purpose \in {NULL, call[p].arg}
  BY <1>1
<1>2. CASE call[p].saw.purpose # NULL /\ Exists(ClosedId(call[p].owner, call[p].saw.purpose))
  BY <1>2, ClosedIdIsTask, RowsStay DEF Exists
<1> QED BY <1>1, <1>2 DEF MayReplace

\* A declare that goes on from its INSERT has made the closed copy.
LEMMA CopyCopies ==
  ASSUME Base, InProgram, Purposes, NEW p \in Proc, StepOf(p) \/ Abort(p), At(p, "copy"),
         call'[p].todo # <<>>, call[p].saw.purpose # NULL
  PROVE  rows'[ClosedId(call[p].owner, call[p].saw.purpose)].status # "absent"
<1> DEFINE t == ClosedId(call[p].owner, call[p].saw.purpose)
<1>1. Idle.todo = <<>> /\ call \in [Proc -> Call]
  BY DEF Idle, Base, CallsTyped
<1>2. ~Return(p)
  BY <1>1 DEF Return
<1>3. Copy(p)
  BY <1>2 DEF StepOf, RowStep, DeclareStep, TableStep, Abort, Claim, Release, MarkWriting,
     CompleteTask, Reread, BeginRun, Present, Archive, SetPlanned, SetDone, ReadTitle,
     Rename, Insert, Lookup, Bind, Relocate, Existing, Probe, Reopen, Upsert,
     Look, Settle, Clock, Missing, BindAll, Held, Fold, At
<1>4. t \in Task
  BY ClosedIdIsTask DEF At, DeclareSteps
<1>5. rows' = [rows EXCEPT ![t] =
        [NoRow EXCEPT !.status = "done", !.owner = call[p].saw.owner,
           !.title = call[p].saw.title, !.purpose = call[p].saw.purpose, !.result = "closed"]]
  BY <1>2, <1>3 DEF Copy
<1> HIDE DEF t
<1>6. rows'[t].status = "done"
  BY <1>4, <1>5 DEF Base, RowsGood, NoRow
<1> QED BY <1>6 DEF t

\* A declare that goes on to the write of its purpose has closed the old one.
LEMMA GoesClosed ==
  ASSUME Base, InProgram, Purposes, ClosedFirst, [Next]_vars, NEW p \in Proc,
         StepOf(p) \/ Abort(p), NEW d, d = call'[p], GoesOn(p, call[p], d), d.todo # <<>>,
         Head(d.todo) \in {"reopen", "upsert"}
  PROVE  \/ d.saw.purpose \in {NULL, d.arg}
         \/ rows'[ClosedId(d.owner, d.saw.purpose)].status # "absent"
<1> DEFINE c == call[p]
           S == StepsFor(c.op)
<1>1. /\ c.todo \in Seq(S) /\ Ordered(c.todo) /\ c.todo # <<>>
      /\ d.op = c.op /\ d.owner = c.owner /\ d.arg = c.arg
  BY DEF InProgram, GoesOn
<1>2. /\ Len(c.todo) \in Nat /\ Len(c.todo) > 0 /\ Head(c.todo) = c.todo[1]
      /\ Tail(c.todo) \in Seq(S) /\ Len(Tail(c.todo)) = Len(c.todo) - 1
      /\ \A i \in 1..Len(Tail(c.todo)) : Tail(c.todo)[i] = c.todo[i + 1]
  <2> HIDE DEF S
  <2> QED BY <1>1, FirstAndRest
\* The step after the current one.
<1>3. ASSUME d.todo = Tail(c.todo)
      PROVE  Precedes(Head(c.todo), Head(d.todo))
  <2>1. Head(d.todo) = Tail(c.todo)[1] /\ Len(Tail(c.todo)) > 0
    BY <1>2, <1>3, EmptySeq, LenProperties
  <2>2. Tail(c.todo)[1] = c.todo[1 + 1] /\ 1 \in 1..Len(c.todo) /\ 1 + 1 \in 1..Len(c.todo)
    BY <1>2, <2>1
  <2> QED BY <1>1, <1>2, <2>1, <2>2 DEF Ordered
<1>4. CASE d.todo = Tail(c.todo) /\ d.saw = c.saw /\ ~At(p, "existing")
  <2>1. At(p, "reopen") \/ At(p, "copy")
    BY <1>1, <1>3, <1>4 DEF Precedes, At
  <2>2. CASE At(p, "reopen")
    BY <1>1, <1>4, <2>2, MayReplaceStays DEF ClosedFirst, At, DeclareSteps
  <2>3. CASE At(p, "copy")
    BY <1>1, <1>4, <2>3, CopyCopies
  <2> QED BY <2>1, <2>2, <2>3
<1>5. CASE d.todo = c.todo /\ At(p, "fold")
  BY <1>5 DEF At
<1>6. CASE d.todo = SubSeq(c.todo, 6, Len(c.todo)) /\ At(p, "reread")
  <2>1. c.op # "declare"
    BY <1>6, StepTellsCall DEF At
  <2>2. d.todo \in Seq(StepsFor(d.op))
    BY GoesInProgram
  <2>3. Head(d.todo) \in StepsFor(d.op)
    BY <2>2, HeadTailProperties
  <2> QED BY <1>1, <2>1, <2>3 DEF StepsFor, DeclareSteps
<1>7. CASE At(p, "lookup") /\ d.todo = Tail(c.todo)
  BY <1>3, <1>7 DEF Precedes, At
<1>8. CASE At(p, "lookup") /\ d.todo = SubSeq(c.todo, 3, Len(c.todo))
  <2>1. \A i \in 3..Len(c.todo) : c.todo[i] \in S
    BY <1>1, <1>2, ElementOfSeq
  <2>2. /\ Len(d.todo) = IF 3 <= Len(c.todo) THEN Len(c.todo) - 3 + 1 ELSE 0
        /\ \A i \in 1..(Len(c.todo) - 3 + 1) : d.todo[i] = c.todo[3 + i - 1]
        /\ d.todo \in Seq(S)
    BY <1>2, <1>8, <2>1, SubSeqProperties
  <2>3. 3 <= Len(c.todo)
    BY <1>2, <2>2, EmptySeq
  <2>4. Head(d.todo) = c.todo[3]
    BY <1>2, <2>2, <2>3
  <2>5. Precedes(c.todo[1], c.todo[2]) /\ Precedes(c.todo[2], c.todo[3])
    BY <1>1, <1>2, <2>3 DEF Ordered
  <2>6. c.todo[1] = "lookup"
    BY <1>2, <1>8 DEF At
  <2> QED BY <2>4, <2>5, <2>6 DEF Precedes
<1>9. CASE /\ d.saw = c.saw /\ At(p, "probe") /\ Exists(ClosedId(c.owner, c.saw.purpose))
  BY <1>1, <1>9, MayReplaceStays DEF MayReplace, At, DeclareSteps
<1>10. CASE At(p, "existing") /\ d.saw.purpose \in {NULL, c.arg}
  BY <1>1, <1>10
<1>11. CASE At(p, "existing") /\ d.todo = Closing \o Tail(c.todo)
  <2>1. c.op = "declare"
    BY <1>11, StepTellsCall DEF At, DeclareSteps
  <2>2. Closing \in Seq(S) /\ Closing # <<>> /\ Closing[1] = "look"
    BY <2>1, ClosingOrdered
  <2>3. Len(Closing) \in Nat /\ Len(Closing) > 0
    BY <2>2, LenProperties, EmptySeq
  <2>4. \A i \in 1..(Len(Closing) + Len(Tail(c.todo))) :
          d.todo[i] = IF i <= Len(Closing) THEN Closing[i] ELSE Tail(c.todo)[i - Len(Closing)]
    BY <1>2, <1>11, <2>2, ConcatProperties
  <2>5. d.todo[1] = "look"
    BY <1>2, <2>2, <2>3, <2>4
  <2>6. d.todo \in Seq(S)
    BY <1>2, <1>11, <2>2, ConcatProperties
  <2>7. Head(d.todo) = d.todo[1]
    BY <2>6, HeadTailProperties
  <2> QED BY <2>5, <2>7
<1> QED BY <1>4, <1>5, <1>6, <1>7, <1>8, <1>9, <1>10, <1>11 DEF GoesOn, Rest

\* Every declare closes before it writes.
LEMMA ClosedFirstKeeps ==
  ASSUME Base, InProgram, Purposes, ClosedFirst, [Next]_vars
  PROVE  ClosedFirst'
<1> SUFFICES ASSUME NEW q \in Proc, call'[q].todo # <<>>,
                    Head(call'[q].todo) \in {"reopen", "upsert"}
             PROVE  LET d == call'[q] IN
                    \/ d.saw.purpose \in {NULL, d.arg}
                    \/ rows'[ClosedId(d.owner, d.saw.purpose)].status # "absent"
  BY DEF ClosedFirst, MayReplace, Exists, At
\* The call of q is where it was.
<1>1. ASSUME call'[q] = call[q]
      PROVE  LET d == call'[q] IN
             \/ d.saw.purpose \in {NULL, d.arg}
             \/ rows'[ClosedId(d.owner, d.saw.purpose)].status # "absent"
  <2>1. call[q].todo # <<>> /\ Head(call[q].todo) \in {"reopen", "upsert"}
    BY <1>1
  <2>2. MayReplace(call[q])
    BY <2>1 DEF ClosedFirst, At
  <2> QED BY <1>1, <2>1, <2>2, MayReplaceStays DEF DeclareSteps
<1>2. CASE Tick \/ UNCHANGED vars
  BY <1>1, <1>2 DEF Tick, vars
<1>3. ASSUME NEW p \in Proc, Begin(p)
      PROVE  call'[q] = call[q]
  <2>1. /\ \A x \in Proc \ {p} : call'[x] = call[x]
        /\ call'[p].op \in DOMAIN Program /\ call'[p].todo = Program[call'[p].op]
    BY <1>3, BeginStarts
  <2>2. CASE q = p
    BY <2>1, <2>2, ProgramOrdered
  <2> QED BY <2>1, <2>2
<1>4. ASSUME NEW p \in Proc, StepOf(p) \/ Abort(p), q # p
      PROVE  call'[q] = call[q]
  BY <1>4, StepGoes DEF Goes
<1>5. CASE StepOf(q) \/ Abort(q)
  <2>1. GoesOn(q, call[q], call'[q])
    BY <1>5, StepGoes DEF Goes, Idle
  <2> QED BY <1>5, <2>1, GoesClosed
<1> QED BY <1>1, <1>2, <1>3, <1>4, <1>5 DEF Next

\* A step adds at most the row of its call and the copy of one purpose.
LEMMA FinitelyManyKeeps ==
  ASSUME Base, FinitelyMany, [Next]_vars
  PROVE  FinitelyMany'
<1> DEFINE E == {t \in Task : Exists(t)}
           F == {t \in Task : rows'[t].status # "absent"}
<1>1. IsFiniteSet(E)
  BY DEF FinitelyMany
<1> SUFFICES IsFiniteSet(F)
  BY DEF FinitelyMany, Exists
<1>2. CASE UNCHANGED rows
  BY <1>1, <1>2 DEF Exists
<1>3. ASSUME NEW p \in Proc, StepOf(p)
      PROVE  IsFiniteSet(F)
  <2> DEFINE a == call[p].task
             b == ClosedId(call[p].owner, call[p].saw.purpose)
  <2>1. F \subseteq (E \cup {a}) \cup {b}
    <3> SUFFICES ASSUME NEW t \in Task, rows'[t].status # "absent", t # a, t # b
                 PROVE  rows[t].status # "absent"
      BY DEF Exists
    <3>1. Written(p, t)
      BY <1>3, StepWrites
    <3> HIDE DEF b
    <3> QED BY <3>1 DEF Written, Looks, Lapsed, b
  <2> HIDE DEF E, F, a, b
  <2>2. IsFiniteSet((E \cup {a}) \cup {b})
    BY <1>1, FS_AddElement
  <2> QED BY <2>1, <2>2, FS_Subset
<1> QED BY <1>2, <1>3 DEF Next, Tick, Begin, Abort, vars

\* Where every call is, and what it knows there.
Placed == InProgram /\ ClocksRead /\ Purposes /\ ClosedFirst /\ FinitelyMany

\* No call is running in the empty table.
LEMMA InitPlaced == Init => Placed
<1> SUFFICES ASSUME Init PROVE Placed
  OBVIOUS
<1>1. \A p \in Proc : call[p] = Idle
  BY DEF Init
<1>2. Idle.todo = <<>> /\ <<>> \in Seq(StepsFor(Idle.op)) /\ Len(<<>>) = 0
  BY EmptySeq DEF Idle
<1>3. InProgram
  <2>1. Ordered(Idle.todo)
    BY <1>2 DEF Ordered
  <2> QED BY <1>1, <1>2, <2>1 DEF InProgram
<1>4. ClocksRead
  BY <1>1 DEF Init, ClocksRead, Idle
<1>5. Purposes
  BY <1>1, <1>2 DEF Init, Purposes, Idle, NoRow
<1>6. ClosedFirst
  BY <1>1, <1>2 DEF ClosedFirst, At
<1>7. {t \in Task : Exists(t)} = {}
  BY DEF Init, Exists, NoRow
<1>8. FinitelyMany
  BY <1>7, FS_EmptySet DEF FinitelyMany
<1> QED BY <1>3, <1>4, <1>5, <1>6, <1>8 DEF Placed

\* The inductive invariant holds in every reachable state.
LEMMA PlacedHolds == Spec => [](Base /\ Placed)
<1>1. Base /\ Placed /\ [Next]_vars => Placed'
  BY InProgramKeeps, ClocksReadKeeps, PurposesKeeps, ClosedFirstKeeps, FinitelyManyKeeps
     DEF Placed
<1> QED BY <1>1, InitPlaced, BaseHolds, PTL DEF Spec

-----------------------------------------------------------------------------
(* The promises. *)

\* A step that writes a row leaves its call in another place.
LEMMA StepMovesOn ==
  ASSUME Base, NEW p \in Proc, StepOf(p), call[p].todo # <<>>,
         Head(call[p].todo) \notin {"fold", "reread", "lookup", "probe", "existing"}
  PROVE  call'[p] # call[p]
<1>1. Goes(p)
  BY StepGoes
<1>2. CASE call'[p] = Idle
  BY <1>2 DEF Idle
<1>3. CASE GoesOn(p, call[p], call'[p])
  <2>1. call'[p].todo = Tail(call[p].todo)
    BY <1>3 DEF GoesOn, Rest, At
  <2>2. call[p].todo \in Seq(Step)
    BY CallFields
  <2>3. call[p].todo # Tail(call[p].todo)
    BY <2>2, RestIsShorter
  <2> QED BY <2>1, <2>3, Zenon
<1> QED BY <1>1, <1>2, <1>3 DEF Goes

\* Only a step of a process that goes on in its call writes the table.
LEMMA WriterSteps ==
  ASSUME [Next]_vars
  PROVE  UNCHANGED rows \/ \E p \in Proc : StepOf(p)
BY DEF Next, Tick, Begin, Abort, vars

\* A lease that has not passed is kept: the claim of another agent, a reader's
\* settle with an old clock and a late complete all leave it, for any number
\* of agents; it ends by a call of its holder or by the founder's board.
THEOREM LeaseIsKept == Spec => HolderKeepsLease
<1> DEFINE Kept(t) ==
      (/\ rows[t].status = "claimed" /\ rows[t].lease >= now
       /\ ~(rows'[t].status = "claimed" /\ rows'[t].owner = rows[t].owner))
      => \E p \in Proc : /\ call'[p] # call[p] /\ call[p].task = t
                         /\ \/ call[p].owner = rows[t].owner
                            \/ call[p].op \in {"archive", "planned", "done"}
<1>1. ASSUME Base, Placed, [Next]_vars, NEW t \in Task
      PROVE  Kept(t)
  <2> DEFINE r == rows[t]
             s == rows'[t]
  <2> SUFFICES ASSUME r.status = "claimed", r.lease >= now,
                      ~(s.status = "claimed" /\ s.owner = r.owner)
               PROVE  \E p \in Proc : /\ call'[p] # call[p] /\ call[p].task = t
                                      /\ \/ call[p].owner = r.owner
                                         \/ call[p].op \in {"archive", "planned", "done"}
    OBVIOUS
  <2>1. r \in Good /\ r.lease \in Nat /\ r.owner \in Owner /\ r.owner # NULL
    BY <1>1, GoodFields DEF Base, RowsGood
  <2>2. PICK p \in Proc : StepOf(p)
    BY <1>1, WriterSteps
  <2> DEFINE c == call[p]
  <2>3. Written(p, t)
    BY <1>1, <2>2, StepWrites
  <2>4. c.at \in Nat /\ now \in Nat /\ c.at <= now
    BY <1>1 DEF Base, CallsTyped, Call, Placed, ClocksRead
  <2>5. ~Lapsed(r, c.at)
    BY <2>1, <2>4 DEF Lapsed
  <2>6. /\ t = c.task /\ c.todo # <<>>
        /\ \/ Head(c.todo) \in {"release", "complete"} /\ c.owner = r.owner
           \/ Head(c.todo) \in {"archive", "done", "planned"}
    BY <2>1, <2>3, <2>5 DEF Written, Looks, Claimable, Holds, At
  <2>7. Head(c.todo) \in {"archive", "done", "planned"} => c.op \in {"archive", "planned", "done"}
    BY <1>1, <2>6, StepTellsCall DEF Placed
  <2>8. call'[p] # c
    BY <1>1, <2>2, <2>6, StepMovesOn
  <2> QED BY <2>6, <2>7, <2>8
<1>2. Base /\ Placed /\ [Next]_vars
        => [\A t \in Task : LET r == rows[t] IN
             (/\ r.status = "claimed" /\ r.lease >= now
              /\ ~(rows'[t].status = "claimed" /\ rows'[t].owner = r.owner))
             => \E p \in Proc : /\ call'[p] # call[p] /\ call[p].task = t
                                /\ \/ call[p].owner = r.owner
                                   \/ call[p].op \in {"archive", "planned", "done"}]_vars
  BY <1>1
<1> QED BY <1>2, PlacedHolds, PTL DEF Spec, HolderKeepsLease

\* "done stays done" for any number of processes and tasks: late claims and
\* completes, retries and renewals leave the result and the owner of a
\* finished row; PLANNED and a new purpose of its agent alone reopen it.
THEOREM FinishedStaysFinished == Spec => DoneStaysDone
<1> DEFINE Stays(t) == rows[t].status = "done" =>
      \/ /\ rows'[t].status = "done" /\ rows'[t].result = rows[t].result
         /\ rows'[t].owner = rows[t].owner
      \/ \E p \in Proc : /\ call'[p] # call[p] /\ call[p].task = t
                         /\ call[p].op \in {"planned", "declare"}
<1>1. ASSUME Base, Placed, [Next]_vars, NEW t \in Task
      PROVE  Stays(t)
  <2> DEFINE r == rows[t]
             s == rows'[t]
  <2> SUFFICES ASSUME r.status = "done",
                      ~(s.status = "done" /\ s.result = r.result /\ s.owner = r.owner)
               PROVE  \E p \in Proc : /\ call'[p] # call[p] /\ call[p].task = t
                                      /\ call[p].op \in {"planned", "declare"}
    OBVIOUS
  <2>1. PICK p \in Proc : StepOf(p)
    BY <1>1, WriterSteps
  <2> DEFINE c == call[p]
  <2>2. Written(p, t)
    BY <1>1, <2>1, StepWrites
  <2>3. t = c.task /\ c.todo # <<>> /\ Head(c.todo) \in {"planned", "reopen"}
    BY <2>2 DEF Written, Looks, Lapsed, Claimable, Holds, At
  <2>4. c.op \in {"planned", "declare"}
    BY <1>1, <2>3, StepTellsCall DEF Placed, DeclareSteps
  <2>5. call'[p] # c
    BY <1>1, <2>1, <2>3, StepMovesOn
  <2> QED BY <2>3, <2>4, <2>5
<1>2. Base /\ Placed /\ [Next]_vars
        => [\A t \in Task : rows[t].status = "done" =>
             \/ /\ rows'[t].status = "done" /\ rows'[t].result = rows[t].result
                /\ rows'[t].owner = rows[t].owner
             \/ \E p \in Proc : /\ call'[p] # call[p] /\ call[p].task = t
                                /\ call[p].op \in {"planned", "declare"}]_vars
  BY <1>1
<1> QED BY <1>2, PlacedHolds, PTL DEF Spec, DoneStaysDone

\* Only a step of its own process moves a call.
LEMMA OwnStep ==
  ASSUME Base, [Next]_vars, NEW p \in Proc, call[p].todo # <<>>, call'[p] # call[p]
  PROVE  StepOf(p) \/ Abort(p)
<1>1. PICK q \in Proc : Begin(q) \/ StepOf(q) \/ Abort(q)
  BY DEF Next, Tick, vars
<1>2. q = p
  BY <1>1, StepCallMoves DEF CallMoves
<1> QED BY <1>1, <1>2 DEF Begin

\* A run that starts leaves the board: the others that still run, and itself.
LEMMA StartIsCounted ==
  ASSUME Base, Placed, NEW p \in Proc, BeginRun(p), ~Holds(call[p]),
         rows'[call[p].task].status = "claimed", rows'[call[p].task].owner = call[p].owner
  PROVE  Cardinality({t \in Task : rows'[t].status = "claimed" /\ rows'[t].lease >= now'}) <= Cap
<1> DEFINE c == call[p]
           r == rows[c.task]
           full == [r EXCEPT !.capacity = TRUE]
           R == Running(c)
           L == {t \in Task : rows'[t].status = "claimed" /\ rows'[t].lease >= now'}
           E == {t \in Task : Exists(t)}
<1>1. c.task \in Task /\ r \in Good
  <2>1. c.task \in Task
    BY TaskNamed DEF BeginRun, At, WholeTable
  <2> QED BY <2>1, CallFields
<1>2. rows' # rows
  BY DEF Holds
<1>3. ~Put(c.task, full)
  <2> SUFFICES ASSUME Put(c.task, full) PROVE FALSE
    OBVIOUS
  <2>1. rows'[c.task] = Bumped(full)
    BY <1>1 DEF Put, Base, RowsGood
  <2>2. Looks(Bumped(full), r.status, r.owner, r.lease, r.result, r.purpose)
    <3>1. NULL \in Words
      BY DEF Words
    <3> QED BY <1>1, <3>1, PlainLooks
  <2> QED BY <2>1, <2>2 DEF Looks, Holds
<1>4. ~(Cardinality(R) >= Cap) /\ \E s : Put(c.task, s) /\ UNCHANGED now
  BY <1>2, <1>3 DEF BeginRun, Update
<1>5. \A t \in Task : t # c.task => rows'[t] = rows[t]
  BY <1>4 DEF Put, Base, RowsGood
<1>6. L \subseteq R \cup {c.task}
  <2> SUFFICES ASSUME NEW t \in Task, rows'[t].status = "claimed", rows'[t].lease >= now',
                      t # c.task
               PROVE  t \in R
    OBVIOUS
  <2>1. rows[t].status = "claimed" /\ rows[t].lease >= now
    BY <1>4, <1>5
  <2>2. rows[t].lease # NULL /\ rows[t].lease \in Nat
    BY <2>1, GoodFields DEF Base, RowsGood
  <2>3. c.now \in Nat /\ now \in Nat /\ c.now <= now
    BY DEF Base, CallsTyped, Call, Placed, ClocksRead
  <2> QED BY <2>1, <2>2, <2>3 DEF Running
<1>7. IsFiniteSet(R)
  <2>1. R \subseteq E
    BY DEF Running, Exists
  <2>2. IsFiniteSet(E)
    BY DEF Placed, FinitelyMany
  <2> HIDE DEF R, E
  <2> QED BY <2>1, <2>2, FS_Subset
<1> HIDE DEF R, L
<1>8. /\ Cardinality(R) \in Nat
      /\ IsFiniteSet(R \cup {c.task})
      /\ Cardinality(R \cup {c.task}) <= Cardinality(R) + 1
  <2>1. Cardinality(R) \in Nat
    BY <1>7, FS_CardinalityType
  <2>2. /\ IsFiniteSet(R \cup {c.task})
        /\ Cardinality(R \cup {c.task}) = IF c.task \in R THEN Cardinality(R)
                                          ELSE Cardinality(R) + 1
    BY <1>7, FS_AddElement
  <2> QED BY <2>1, <2>2
<1>9. /\ Cardinality(L) <= Cardinality(R \cup {c.task})
      /\ Cardinality(L) \in Nat /\ Cardinality(R \cup {c.task}) \in Nat
  BY <1>6, <1>8, FS_Subset, FS_CardinalityType
<1>10. Cardinality(L) <= Cap
  BY <1>4, <1>8, <1>9, ConstantsAssumption
<1> QED BY <1>10 DEF L

\* max_runs is kept at the start of every run, although the clock was read
\* before the transaction and leases lapse in between: with the new run at
\* most Cap leases are live, for any number of tasks and processes.
THEOREM RunsStartWithinCap == Spec => StartWithinCap
<1> DEFINE Within(p) ==
      (/\ At(p, "begin_run") /\ call'[p] # call[p] /\ ~Holds(call[p])
       /\ rows'[call[p].task].owner = call[p].owner /\ rows'[call[p].task].status = "claimed")
      => Cardinality(Live') <= Cap
<1>1. ASSUME Base, Placed, [Next]_vars, NEW p \in Proc
      PROVE  Within(p)
  <2> SUFFICES ASSUME At(p, "begin_run"), call'[p] # call[p], ~Holds(call[p]),
                      rows'[call[p].task].owner = call[p].owner,
                      rows'[call[p].task].status = "claimed"
               PROVE  Cardinality(Live') <= Cap
    OBVIOUS
  <2>1. StepOf(p) \/ Abort(p)
    BY <1>1, OwnStep DEF At
  <2>2. BeginRun(p)
    BY <2>1 DEF StepOf, RowStep, DeclareStep, TableStep, Abort, Claim, Release, MarkWriting,
       CompleteTask, Reread, Present, Archive, SetPlanned, SetDone, ReadTitle,
       Rename, Insert, Lookup, Bind, Relocate, Existing, Probe, Copy, Reopen, Upsert,
       Look, Settle, Clock, Missing, BindAll, Held, Fold, At, Holds
  <2> QED BY <1>1, <2>2, StartIsCounted DEF Live
<1>2. Base /\ Placed /\ [Next]_vars
        => [\A p \in Proc : LET c == call[p] IN
             (/\ At(p, "begin_run") /\ call'[p] # c /\ ~Holds(c)
              /\ rows'[c.task].owner = c.owner /\ rows'[c.task].status = "claimed")
             => Cardinality(Live') <= Cap]_vars
  BY <1>1
<1> QED BY <1>2, PlacedHolds, PTL DEF Spec, StartWithinCap

\* A declare that replaces the purpose it read leaves the closed copy of that
\* purpose in the table, whatever other calls, deaths and folds interleave.
THEOREM ReplacedIsClosed == Spec => PurposeClosed
<1> DEFINE Replaced(p) ==
      (/\ At(p, "upsert") /\ call'[p] # call[p] /\ call[p].saw.purpose # NULL
       /\ rows[call[p].task].purpose = call[p].saw.purpose
       /\ rows'[call[p].task].purpose # call[p].saw.purpose)
      => Exists(ClosedId(call[p].owner, call[p].saw.purpose))
<1>1. ASSUME Base, Placed, [Next]_vars, NEW p \in Proc
      PROVE  Replaced(p)
  <2> DEFINE c == call[p]
  <2> SUFFICES ASSUME At(p, "upsert"), call'[p] # c, c.saw.purpose # NULL,
                      rows[c.task].purpose = c.saw.purpose,
                      rows'[c.task].purpose # c.saw.purpose
               PROVE  Exists(ClosedId(c.owner, c.saw.purpose))
    OBVIOUS
  <2>1. StepOf(p)
    BY <1>1, OwnStep DEF At, Abort
  <2>2. c.task \in Task
    BY <1>1, TaskNamed DEF At, WholeTable
  <2>3. Written(p, c.task)
    BY <1>1, <2>1, <2>2, StepWrites
  <2>4. c.saw.purpose # c.arg
    BY <2>3 DEF Written, Looks, At
  <2>5. MayReplace(c)
    BY <1>1 DEF Placed, ClosedFirst
  <2> QED BY <2>4, <2>5 DEF MayReplace
<1>2. Base /\ Placed /\ [Next]_vars
        => [\A p \in Proc : LET c == call[p] q == c.saw.purpose IN
             (/\ At(p, "upsert") /\ call'[p] # c /\ q # NULL
              /\ rows[c.task].purpose = q /\ rows'[c.task].purpose # q)
             => Exists(ClosedId(c.owner, q))]_vars
  BY <1>1
<1> QED BY <1>2, PlacedHolds, PTL DEF Spec, PurposeClosed

-----------------------------------------------------------------------------
(* The table is a LeaseBoard. *)

\* What the clients see of a good row.
LEMMA SeenIs ==
  ASSUME NEW r \in Good
  PROVE  /\ Seen(r).status = r.status /\ Seen(r).owner = r.owner /\ Seen(r).lease = r.lease
         /\ r.status = "absent" => Seen(r) = Board!Absent
         /\ r.status = "open" => Seen(r) = Board!Free
         /\ r.status = "done" => Seen(r) = Board!Finished(r.owner)
         /\ r.owner \in Owner \cup {NULL}
         /\ r.status \in {"absent", "open", "claimed", "done"}
<1>1. r.status # "claimed" => r.lease = NULL
  BY GoodFields
<1>2. r.status \in {"absent", "open"} => r.owner = NULL
  BY GoodFields
<1>3. r.owner \in Owner \cup {NULL} /\ r.status \in Status
  BY DEF Good, Row
<1> QED BY <1>1, <1>2, <1>3 DEF Seen, Board!Absent, Board!Free, Board!Finished, Status

\* What is seen of a row depends on three of its columns.
LEMMA SeenLooks ==
  ASSUME NEW s, NEW st, NEW o, NEW l, NEW res, NEW pur, Looks(s, st, o, l, res, pur)
  PROVE  Seen(s) = [status |-> st, owner |-> o, lease |-> l]
BY DEF Looks, Seen

\* The change of one row, as the board sees it.
LEMMA OneShown ==
  ASSUME NEW t \in Task, \A u \in Task \ {t} : Shown'[u] = Shown[u]
  PROVE  Shown' = [Shown EXCEPT ![t] = Shown'[t]]
<1>1. Shown' = [u \in Task |-> Shown'[u]] /\ Shown = [u \in Task |-> Shown[u]]
  BY DEF Shown
<1> HIDE DEF Shown
<1>2. \A u \in Task : Shown'[u] = IF u = t THEN Shown'[t] ELSE Shown[u]
  OBVIOUS
<1> QED BY <1>1, <1>2

\* Settling ends only leases that have passed, although its clock is older.
LEMMA SettleShown ==
  ASSUME Base, Placed, NEW p \in Proc, StepOf(p), At(p, "settle")
  PROVE  \E T \in SUBSET Board!Passed : Board!Lapse(T)
<1> DEFINE T == {t \in Task : Shown'[t] # Shown[t]}
<1>1. ASSUME NEW t \in T
      PROVE  t \in Board!Passed /\ Shown'[t] = Board!Free
  <2> DEFINE r == rows[t]
             s == rows'[t]
  <2>1. Written(p, t) /\ r \in Good
    BY <1>1, StepWrites DEF Base, RowsGood
  <2>2. Shown[t] = Seen(r) /\ Shown'[t] = Seen(s)
    BY <1>1 DEF Shown
  <2>3. ~Looks(s, r.status, r.owner, r.lease, r.result, r.purpose)
    BY <1>1, <2>2 DEF Looks, Seen
  <2>4. Lapsed(r, call[p].at) /\ Looks(s, "open", NULL, NULL, r.result, r.purpose)
    BY <2>1, <2>3 DEF Written, At
  <2>5. call[p].at \in Nat /\ now \in Nat /\ call[p].at <= now
    BY DEF Base, CallsTyped, Call, Placed, ClocksRead
  <2>6. r.status = "claimed" /\ r.lease \in Nat /\ r.lease < now
    BY <2>1, <2>4, <2>5, GoodFields DEF Lapsed
  <2>7. Seen(s) = Board!Free
    BY <2>4, SeenLooks DEF Board!Free
  <2>8. Shown[t].status = "claimed" /\ Shown[t].lease < now
    BY <2>1, <2>2, <2>6, SeenIs
  <2> QED BY <1>1, <2>2, <2>7, <2>8 DEF Board!Passed
<1>2. Shown' = [t \in Task |-> Shown'[t]]
  BY DEF Shown
<1> HIDE DEF Shown
<1>3. \A t \in Task : Shown'[t] = IF t \in T THEN Board!Free ELSE Shown[t]
  BY <1>1
<1> HIDE DEF T
<1>4. Board!Lapse(T)
  BY <1>2, <1>3 DEF Board!Lapse
<1> QED BY <1>1, <1>4 DEF T

\* Any other step changes what is seen of one row, as the board allows it.
LEMMA RowShown ==
  ASSUME Base, Placed, NEW p \in Proc, StepOf(p), ~At(p, "settle"),
         NEW t \in Task, Shown'[t] # Shown[t]
  PROVE  Board!Change(t)
<1> DEFINE c == call[p]
           r == rows[t]
           s == rows'[t]
<1>1. r \in Good /\ \A u \in Task : Written(p, u)
  BY StepWrites DEF Base, RowsGood
<1>2. \A u \in Task : Shown[u] = Seen(rows[u]) /\ Shown'[u] = Seen(rows'[u])
  BY DEF Shown
<1>3. \A u \in Task : Shown'[u] # Shown[u]
        => LET v == rows[u] IN ~Looks(rows'[u], v.status, v.owner, v.lease, v.result, v.purpose)
  BY <1>2 DEF Looks, Seen
<1>4. \A u \in Task : Shown'[u] # Shown[u] =>
        \/ u = c.task /\ ~At(p, "copy")
        \/ u = ClosedId(c.owner, c.saw.purpose) /\ At(p, "copy")
  BY <1>1, <1>3 DEF Written, At
<1>5. \A u \in Task \ {t} : Shown'[u] = Shown[u]
  BY <1>4
<1>6. Shown' = [Shown EXCEPT ![t] = Seen(s)]
  BY <1>2, <1>5, OneShown
<1>7. /\ Seen(r) = Shown[t] /\ Seen(s) # Seen(r)
      /\ Seen(r).status = r.status /\ Seen(r).owner = r.owner /\ Seen(r).lease = r.lease
      /\ r.status = "absent" => Seen(r) = Board!Absent
      /\ r.status = "open" => Seen(r) = Board!Free
      /\ r.status = "done" => Seen(r) = Board!Finished(r.owner)
      /\ r.owner \in Owner \cup {NULL} /\ r.status \in {"absent", "open", "claimed", "done"}
  BY <1>1, <1>2, SeenIs
<1> HIDE DEF Shown
<1>8. CASE /\ (At(p, "claim") \/ At(p, "begin_run")) /\ c.owner \in Owner
           /\ Claimable(r, c.owner)
           /\ Looks(s, "claimed", c.owner, c.now + Lease, r.result, r.purpose)
  <2>1. c.now \in Nat /\ now \in Nat /\ Lease \in Nat /\ c.now <= now
    BY CallFields, ConstantsAssumption DEF Base, Placed, ClocksRead
  <2>2. c.now + Lease \in 0..(now + Lease)
    BY <2>1
  <2>3. Seen(s) = Board!Taken(c.owner, c.now + Lease)
    BY <1>8, SeenLooks DEF Board!Taken
  <2>4. Shown[t] = Board!Free \/ (Shown[t].status = "claimed" /\ Shown[t].owner = c.owner)
    <3>1. CASE r.status = "open"
      BY <1>7, <3>1
    <3>2. CASE r.status = "claimed"
      <4>1. r.owner # NULL
        BY <1>1, <3>2, GoodFields
      <4> QED BY <1>7, <1>8, <3>2, <4>1 DEF Claimable
    <3> QED BY <1>8, <3>1, <3>2 DEF Claimable
  <2>5. Board!Take(t, c.owner, c.now + Lease)
    BY <1>6, <2>3, <2>4 DEF Board!Take
  <2> QED BY <1>8, <2>2, <2>5 DEF Board!Change
<1>9. CASE r.status # "absent" /\ \E res : Looks(s, "open", NULL, NULL, res, r.purpose)
  <2>1. Seen(s) = Board!Free
    BY <1>9, SeenLooks DEF Board!Free
  <2>2. r.status \in {"claimed", "done"}
    BY <1>7, <1>9, <2>1
  <2>3. Board!GiveBack(t)
    BY <1>6, <1>7, <2>1, <2>2 DEF Board!GiveBack
  <2> QED BY <2>3 DEF Board!Change
<1>10. CASE r.status # "absent" /\ \E res : Looks(s, "done", r.owner, NULL, res, r.purpose)
  <2>1. Seen(s) = Board!Finished(r.owner)
    BY <1>10, SeenLooks DEF Board!Finished
  <2>2. r.status \in {"open", "claimed"}
    BY <1>7, <1>10, <2>1
  <2>3. Board!Finish(t)
    BY <1>6, <1>7, <2>1, <2>2 DEF Board!Finish
  <2> QED BY <2>3 DEF Board!Change
<1>11. CASE /\ r.status = "absent"
            /\ Seen(s) \in {Board!Free} \cup {Board!Finished(o) : o \in Owner \cup {NULL}}
  <2>1. Board!Post(t, Seen(s))
    BY <1>6, <1>7, <1>11 DEF Board!Post
  <2> QED BY <1>11, <2>1 DEF Board!Change
<1>12. ASSUME r.status = "absent", NEW pur,
              Looks(s, "open", NULL, NULL, NULL, pur)
       PROVE  Board!Change(t)
  <2>1. Seen(s) = Board!Free
    BY <1>12, SeenLooks DEF Board!Free
  <2> QED BY <1>11, <1>12, <2>1
<1>13. ASSUME r.status = "absent", Looks(s, "done", c.saw.owner, NULL, "closed", c.saw.purpose)
       PROVE  Board!Change(t)
  <2>1. Seen(s) = Board!Finished(c.saw.owner)
    BY <1>13, SeenLooks DEF Board!Finished
  <2>2. c.saw.owner \in Owner \cup {NULL}
    BY CallFields DEF Row
  <2> QED BY <1>11, <1>13, <2>1, <2>2
<1>14. ASSUME At(p, "release") \/ At(p, "complete"), Holds(c), t = c.task
       PROVE  r.status # "absent"
  BY <1>14 DEF Holds
<1>15. ~(\E pur : Looks(s, r.status, r.owner, r.lease, r.result, pur))
  BY <1>2, <1>7 DEF Looks, Seen
<1>16. Written(p, t)
  BY <1>1
<1> HIDE DEF c, r, s
<1> QED BY <1>8, <1>9, <1>10, <1>12, <1>13, <1>14, <1>15, <1>16 DEF Written, c, r, s

\* Only the clock's own step moves the time.
LEMMA StepKeepsNow ==
  ASSUME NEW p \in Proc, Begin(p) \/ StepOf(p) \/ Abort(p)
  PROVE  now' = now
BY DEF Begin, Abort, StepOf, RowStep, DeclareStep, TableStep, Claim, Release, MarkWriting, CompleteTask,
       Reread, BeginRun, Present, Archive, SetPlanned, SetDone, ReadTitle, Rename, Insert, Lookup, Bind,
       Relocate, Existing, Probe, Copy, Reopen, Upsert, Look, Settle, Clock, Missing, BindAll, Held, Fold

\* The empty table is an empty board.
LEMMA InitShown == Init => Board!Init
BY DEF Init, Board!Init, Board!Absent, Shown, Seen, NoRow

\* Every step of a process is one change of the board, or invisible on it.
LEMMA NextShown ==
  ASSUME Base, Placed, [Next]_vars
  PROVE  [Board!Next]_(Board!vars)
<1>1. CASE UNCHANGED vars
  BY <1>1 DEF vars, Board!vars, Shown
<1>2. CASE Tick
  BY <1>2 DEF Tick, Board!Next, Board!Tick, Shown
<1>3. ASSUME NEW p \in Proc, Begin(p) \/ StepOf(p) \/ Abort(p)
      PROVE  [Board!Next]_(Board!vars)
  <2>1. now' = now
    BY <1>3, StepKeepsNow
  <2>2. CASE Shown' = Shown
    BY <2>1, <2>2 DEF Board!vars
  <2>3. CASE Shown' # Shown
    <3>1. StepOf(p)
      BY <1>3, <2>3 DEF Begin, Abort, Shown
    <3>2. CASE At(p, "settle")
      BY <2>1, <2>3, <3>1, <3>2, SettleShown DEF Board!Next
    <3>3. CASE ~At(p, "settle")
      <4>1. PICK t \in Task : Shown'[t] # Shown[t]
        BY <2>3 DEF Shown
      <4>2. Board!Change(t)
        BY <3>1, <3>3, <4>1, RowShown
      <4> QED BY <2>1, <2>3, <4>2 DEF Board!Next
    <3> QED BY <3>2, <3>3
  <2> QED BY <2>2, <2>3
<1> QED BY <1>1, <1>2, <1>3 DEF Next

\* The table is a board of leases for any number of tasks, agents and processes:
\* each transaction of each call is one promised change, or is not seen.
THEOREM TableIsBoard == Spec => KeepsBoard
BY InitShown, NextShown, PlacedHolds, PTL DEF Spec, KeepsBoard, Board!Spec

\* An agent that died with a task, or that renewed it with an old clock, blocks
\* it for at most Lease ticks from now.
THEOREM LeasesAlwaysEnd == Spec => []Board!LeaseEnds
<1> DEFINE Ends == \A t \in Task : rows[t].status = "claimed" => rows[t].lease <= now + Lease
<1>1. Init => Ends
  BY DEF Init, NoRow
<1>2. ASSUME Base, Placed, Ends, [Next]_vars
      PROVE  Ends'
  <2>1. /\ now \in Nat /\ now' \in Nat /\ now <= now' /\ Lease \in Nat
        /\ \A t \in Task : rows[t] \in Good
    <3>1. now \in Nat /\ Lease \in Nat /\ \A t \in Task : rows[t] \in Good
      BY <1>2, ConstantsAssumption DEF Base, RowsGood
    <3>2. now' \in {now, now + 1}
      BY <1>2, StepKeepsNow DEF Next, Tick, vars
    <3> QED BY <3>1, <3>2
  <2> SUFFICES ASSUME NEW t \in Task, rows'[t].status = "claimed"
               PROVE  rows'[t].lease <= now' + Lease
    OBVIOUS
  <2>2. CASE rows'[t].status = rows[t].status /\ rows'[t].lease = rows[t].lease
    <3>1. rows[t].lease \in Nat /\ rows[t].lease <= now + Lease
      BY <1>2, <2>1, <2>2, GoodFields
    <3> QED BY <2>1, <2>2, <3>1
  <2>3. ASSUME NEW p \in Proc, StepOf(p)
        PROVE  rows'[t].lease <= now' + Lease
    <3>1. Written(p, t)
      BY <1>2, <2>3, StepWrites
    <3>2. \/ rows'[t].status = rows[t].status /\ rows'[t].lease = rows[t].lease
          \/ rows'[t].lease = call[p].now + Lease
      BY <3>1 DEF Written, Looks
    <3>3. call[p].now \in Nat /\ call[p].now <= now
      BY <1>2, CallFields DEF Placed, ClocksRead
    <3> QED BY <2>1, <2>2, <3>2, <3>3
  <2> QED BY <1>2, <2>2, <2>3, WriterSteps
<1>3. Ends => Board!LeaseEnds
  BY DEF Board!LeaseEnds, Shown, Seen
<1>4. Base /\ Placed /\ Ends /\ [Next]_vars => Ends'
  BY <1>2
<1> QED BY <1>1, <1>3, <1>4, PlacedHolds, PTL DEF Spec
=============================================================================
