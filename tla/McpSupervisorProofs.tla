------------------------ MODULE McpSupervisorProofs ------------------------
(***************************************************************************)
(* Theorems about McpSupervisor, for any number of requests, starts and    *)
(* installs, and whether or not a start outlasts the backoff.              *)
(***************************************************************************)
EXTENDS McpSupervisor, SequenceTheorems, FiniteSetTheorems, TLAPS

-----------------------------------------------------------------------------
(* The inductive invariant. *)

\* The thread whose turn it is to bring up the next connector: one that starts
\* it, until it has spawned it, and then the pump of the connector.
Turn(t) ==
  pc[t] \in {"run", "loop", "start", "stop", "spawn"} \/ (t \in Child /\ pc[t] = "read")
OneTurn == \A t, u \in Thread : Turn(t) /\ Turn(u) => t = u

\* A running connector is read by its pump.
AliveIsRead == \A c \in alive : pc[c] = "read"

\* Every replayed handshake had a start of its own.
Greeting == {t \in Thread : pc[t] = "handshake"}
StartsCounted == restarts + Cardinality(Greeting) <= starts

\* A child is in place, or in the hands of a thread, only once it came up.
InHand == child <= starts /\ \A t \in Thread : mine[t] <= starts

\* Before that nothing is written to it or read from it.
Fresh == \A c \in Child : c > starts => given[c] = {} /\ replied[c] = {} /\ out[c] = <<>>

\* What run() remembers of the handshake.
HandshakeSeen ==
  /\ Initialize \in asked <=> initialize
  /\ initialized => initialize
  /\ answered => initialize

\* A connector in place that runs was given the handshake.
InPlaceIsGreeted == initialize /\ child \in alive => Handshaken(child) # {}

\* A line is replied to once.
Elems(q) == {q[k] : k \in DOMAIN q}
Distinct(q) == \A i, j \in DOMAIN q : q[i] = q[j] => i = j
RepliesOnce ==
  \A c \in Child :
    replied[c] \subseteq given[c] /\ Elems(out[c]) \subseteq replied[c] /\ Distinct(out[c])

\* What may still come, as i, from the connector whose pump reads.
Open(i, c) ==
  pc[c] = "read" /\ i \in given[c] /\ (i \in replied[c] => i \in Elems(out[c]))

\* A request that is pending, or open at the connector, has no answer; one that
\* was not asked is nowhere.
Accounted ==
  /\ \A i \in Id : answers[i] <= 1
  /\ answers[Initialize] = (IF answered THEN 1 ELSE 0)
  /\ \A i \in pending : answers[i] = 0
  /\ \A i \in Id, c \in Child : Open(i, c) => answers[i] = 0
  /\ \A i \in Id : i \notin asked => answers[i] = 0 /\ i \notin pending /\ \A c \in Child : i \notin given[c]

\* With a backoff that outlasts a start: one start at a time, and the reply to
\* the latest replay is the only one that the reading pump can meet.
OneStart ==
  /\ \A t, u \in Thread : Starting(t) /\ Starting(u) => t = u
  /\ pc[Main] = "run" => \A u \in Thread : ~Starting(u)
  /\ \A t \in Thread, c \in Child : pc[t] = "handshake" /\ pc[c] = "read" => c = mine[t]
  /\ \A t \in Thread :
       pc[t] = "handshake" => mine[t] \in Child /\ child # mine[t] /\ given[mine[t]] = {}
ReplayIsLatest ==
  /\ strays = 0
  /\ \A m, c \in Child : Open(m, c) => m = replay_id

-----------------------------------------------------------------------------
(* Types. *)

LEMMA Threads ==
  /\ Child \subseteq Thread /\ Main \in Thread /\ Retry \in Thread
  /\ Main \notin Child /\ Retry \notin Child /\ Main # Retry /\ None \notin Child
  /\ Child \subseteq Nat
BY SupervisorAssumption DEF Child, Thread, Main, Retry, None

LEMMA Numbers ==
  ASSUME TypeOK
  PROVE  /\ starts \in Nat /\ child \in Nat /\ restarts \in Nat
         /\ \A t \in Thread : mine[t] \in Nat
<1>1. child \in Child \cup {None} /\ mine \in [Thread -> Child \cup {None}]
  BY DEF TypeOK
<1>2. starts \in 0..MaxStarts /\ restarts \in 0..MaxStarts /\ MaxStarts \in Nat
  BY SupervisorAssumption DEF TypeOK
<1>3. Child \cup {None} \subseteq Nat
  BY Threads DEF None
<1>. QED
  BY <1>1, <1>2, <1>3

LEMMA Messages ==
  /\ Id \subseteq Message /\ Child \subseteq Message /\ Initialized \in Message
  /\ Initialize \in Id /\ Request \subseteq Id /\ Initialize \notin Request
  /\ Initialized \notin Id /\ Initialized \notin Child
  /\ \A m \in Id : m \notin Child
  /\ \A m \in Message : m \in Child \/ m \in Id \/ m = Initialized
BY SupervisorAssumption, Threads DEF Id, Message

LEMMA Single ==
  /\ {Initialize} \in SUBSET Message /\ {Initialized} \in SUBSET Message
  /\ \A r \in Request : {r} \in SUBSET Message
BY DEF Message, Id

LEMMA GreetingFinite ==
  /\ IsFiniteSet(Thread)
  /\ \A S \in SUBSET Thread : IsFiniteSet(S) /\ Cardinality(S) \in Nat
<1>1. IsFiniteSet(Child)
  BY SupervisorAssumption, FS_Interval DEF Child
<1>2. IsFiniteSet({Main, Retry})
  <2>1. IsFiniteSet({Main})
    BY FS_Singleton
  <2>2. {Main, Retry} = {Main} \cup {Retry}
    OBVIOUS
  <2>. QED
    BY <2>1, <2>2, FS_AddElement
<1>3. IsFiniteSet(Thread)
  BY <1>1, <1>2, FS_Union DEF Thread
<1>. QED
  BY <1>3, FS_Subset, FS_CardinalityType

\* A thread that greets its connector has a number left for the replay.
LEMMA RoomToReplay ==
  ASSUME TypeOK, StartsCounted, NEW t \in Thread, pc[t] = "handshake"
  PROVE  restarts + 1 \in Child
<1>1. t \in Greeting /\ Greeting \in SUBSET Thread
  BY DEF Greeting
<1>2. Cardinality(Greeting) # 0
  BY <1>1, GreetingFinite, FS_EmptySet
<1>. QED
  BY <1>1, <1>2, GreetingFinite, SupervisorAssumption DEF TypeOK, StartsCounted, Child

\* The lines and the pending requests of a handshake.
LEMMA HandshakeTyped ==
  ASSUME TypeOK, StartsCounted, NEW t \in Thread, pc[t] = "handshake"
  PROVE  HandshakeLines \in SUBSET Message /\ HandshakePending \in SUBSET Id
BY RoomToReplay, Messages DEF TypeOK, HandshakeLines, HandshakePending

LEMMA AnswerTyped ==
  ASSUME TypeOK, NEW S, Answer(S) PROVE answers' \in [Id -> Nat]
BY DEF TypeOK, Answer

LEMMA GiveTyped ==
  ASSUME TypeOK, NEW c, NEW L \in SUBSET Message, Give(c, L) PROVE given' \in [Child -> SUBSET Message]
BY DEF TypeOK, Give

LEMMA StartTyped ==
  ASSUME TypeOK, StartsCounted, NEW t \in Thread, StartStep(t) PROVE TypeOK'
<1>1. CASE Restart(t)
  BY <1>1 DEF TypeOK, Restart, Go, agentVars, handshakeVars, processVars, installVars
<1>2. CASE TakePrevious(t)
  BY <1>2, Threads DEF TypeOK, TakePrevious, Go, agentVars, handshakeVars, processVars, installVars
<1>3. CASE StopPrevious(t)
  BY <1>3 DEF TypeOK, StopPrevious, Go, agentVars, handshakeVars, installVars
<1>4. CASE Spawn(t)
  <2>1. starts + 1 \in Child
    BY <1>4, SupervisorAssumption DEF Spawn, TypeOK, Child
  <2>. QED
    <3>1. starts' \in Child /\ starts' \in 0..MaxStarts
      BY <1>4, <2>1 DEF Spawn, Child
    <3>2. alive' \subseteq Child /\ mine' \in [Thread -> Child \cup {None}]
      BY <1>4, <3>1, Threads DEF Spawn, TypeOK
    <3>3. pc' \in [Thread -> {"off", "run", "loop", "start", "stop", "spawn", "handshake",
                              "read", "close", "done"}]
      BY <1>4, <3>1, Threads DEF Spawn, TypeOK
    <3>. QED
      BY <1>4, <3>1, <3>2, <3>3 DEF TypeOK, Spawn, agentVars, handshakeVars, installVars
<1>5. CASE SpawnFails(t)
  BY <1>5, Threads DEF TypeOK, SpawnFails, agentVars, handshakeVars, processVars, installVars
<1>6. CASE Handshake(t)
  <2>. USE <1>6
  <2>1. pc[t] = "handshake"
    BY DEF Handshake
  <2>2. restarts + 1 \in Child /\ HandshakeLines \in SUBSET Message /\ HandshakePending \in SUBSET Id
    BY <2>1, RoomToReplay, HandshakeTyped
  <2>3. replay_id' \in Child \cup {None} /\ restarts' \in 0..MaxStarts
    BY <2>2 DEF Handshake, ReplayId, TypeOK, Child
  <2>4. given' \in [Child -> SUBSET Message] /\ child' \in Child \cup {None}
    BY <2>2 DEF Handshake, Give, TypeOK
  <2>5. pc' \in [Thread -> {"off", "run", "loop", "start", "stop", "spawn", "handshake",
                            "read", "close", "done"}]
    BY DEF Handshake, HandshakeOver, Started, Go, TypeOK
  <2>. QED
    BY <2>2, <2>3, <2>4, <2>5 DEF Handshake, TypeOK, agentVars, installVars
<1>. QED
  BY <1>1, <1>2, <1>3, <1>4, <1>5, <1>6 DEF StartStep

LEMMA PumpTyped ==
  ASSUME TypeOK, NEW c \in Child, PumpStep(c) PROVE TypeOK'
<1>1. CASE PumpLine(c)
  <2>. USE <1>1
  <2>1. out' \in [Child -> Seq(Message)]
    BY DEF PumpLine, TypeOK
  <2>2. answers' \in [Id -> Nat]
    BY AnswerTyped DEF PumpLine, TypeOK
  <2>. QED
    BY <2>1, <2>2 DEF PumpLine, TypeOK, installVars
<1>2. CASE PumpEnd(c)
  <2>. USE <1>2
  <2>1. answers' \in [Id -> Nat]
    BY AnswerTyped DEF PumpEnd, TypeOK
  <2>2. pc' \in [Thread -> {"off", "run", "loop", "start", "stop", "spawn", "handshake",
                            "read", "close", "done"}]
    BY Threads DEF PumpEnd, Go, TypeOK
  <2>. QED
    BY <2>1, <2>2 DEF PumpEnd, TypeOK, handshakeVars, processVars, installVars
<1>. QED
  BY <1>1, <1>2 DEF PumpStep

LEMMA RunTyped ==
  ASSUME TypeOK, Run \/ Exit \/ AgentStep PROVE TypeOK'
<1>1. CASE Run
  BY <1>1, Threads DEF TypeOK, Run, agentVars, handshakeVars, processVars, installVars
<1>2. CASE Exit
  BY <1>2 DEF TypeOK, Exit, agentVars, handshakeVars, installVars
<1>3. CASE AgentInitializes
  <2>1. given' \in [Child -> SUBSET Message]
    BY <1>3, GiveTyped, Single DEF TypeOK, AgentInitializes
  <2>2. pending' \in SUBSET Id /\ asked' \in SUBSET Id
    BY <1>3, Messages DEF TypeOK, AgentInitializes, AfterFailedWrite
  <2>. QED
    BY <1>3, <2>1, <2>2 DEF TypeOK, AgentInitializes, installVars
<1>4. CASE AgentIsInitialized
  <2>1. given' \in [Child -> SUBSET Message]
    BY <1>4, GiveTyped, Single DEF TypeOK, AgentIsInitialized
  <2>. QED
    BY <1>4, <2>1 DEF TypeOK, AgentIsInitialized, agentVars, installVars
<1>5. ASSUME NEW r \in Request, AgentRequests(r) PROVE TypeOK'
  <2>1. answers' \in [Id -> Nat]
    BY <1>5, AnswerTyped DEF AgentRequests, TypeOK
  <2>. QED
    <3>1. given' \in [Child -> SUBSET Message]
      BY <1>5, GiveTyped, Single DEF TypeOK, AgentRequests
    <3>2. pending' \in SUBSET Id /\ asked' \in SUBSET Id
      BY <1>5, Messages DEF TypeOK, AgentRequests, AfterFailedWrite
    <3>. QED
      BY <1>5, <2>1, <3>1, <3>2 DEF TypeOK, AgentRequests, handshakeVars, installVars
<1>6. CASE AgentCloses
  BY <1>6, Threads DEF TypeOK, AgentCloses, Go, agentVars, handshakeVars, processVars, installVars
<1>. QED
  BY <1>1, <1>2, <1>3, <1>4, <1>5, <1>6 DEF AgentStep

LEMMA OutsideTyped ==
  ASSUME TypeOK, OutsideStep PROVE TypeOK'
<1>1. ASSUME NEW c \in Child, ChildReplies(c) PROVE TypeOK'
  <2>. USE <1>1
  <2>1. PICK m \in given[c] \ ({Initialized} \cup replied[c]) :
          /\ replied' = [replied EXCEPT ![c] = @ \cup {m}]
          /\ out' = [out EXCEPT ![c] = Append(@, m)]
    BY DEF ChildReplies
  <2>2. m \in Message
    BY <2>1 DEF TypeOK
  <2>3. out' \in [Child -> Seq(Message)]
    BY <2>1, <2>2 DEF TypeOK
  <2>. QED
    BY <2>1, <2>2, <2>3 DEF ChildReplies, TypeOK, agentVars, handshakeVars, installVars
<1>2. ASSUME NEW c \in Child, ChildEnds(c) PROVE TypeOK'
  BY <1>2 DEF TypeOK, ChildEnds, agentVars, handshakeVars, installVars
<1>3. CASE InstallBegins
  BY <1>3 DEF TypeOK, InstallBegins, agentVars, handshakeVars, processVars
<1>4. CASE InstallFinishes
  BY <1>4 DEF TypeOK, InstallFinishes, agentVars, handshakeVars, processVars
<1>5. CASE WatchInstall
  BY <1>5 DEF TypeOK, WatchInstall, agentVars, handshakeVars, installVars
<1>. QED
  BY <1>1, <1>2, <1>3, <1>4, <1>5 DEF OutsideStep

-----------------------------------------------------------------------------
(* One thread at a time has the turn to bring up the next connector. *)

OneAtATime == OneTurn /\ AliveIsRead /\ StartsCounted

LEMMA StartTakesTurns ==
  ASSUME TypeOK, OneTurn, AliveIsRead, NEW t \in Thread, StartStep(t)
  PROVE  OneTurn' /\ AliveIsRead'
<1>. Turn(t) \/ pc[t] = "handshake"
  BY DEF StartStep, Restart, TakePrevious, StopPrevious, Spawn, SpawnFails, Handshake, Turn
<1>0. \A u \in Thread : Turn(t) /\ Turn(u) => u = t
  BY DEF OneTurn
<1>1. CASE Restart(t) \/ TakePrevious(t) \/ StopPrevious(t)
  <2>1. \A u \in Thread : u # t => pc'[u] = pc[u]
    BY <1>1 DEF Restart, TakePrevious, StopPrevious, Go, TypeOK
  <2>2. pc[t] # "read" /\ Turn(t)
    BY <1>1 DEF Restart, TakePrevious, StopPrevious, Turn
  <2>3. alive' \subseteq alive
    BY <1>1 DEF Restart, TakePrevious, StopPrevious, processVars
  <2>4. OneTurn'
    BY <2>1, <2>2, <1>0 DEF OneTurn, Turn
  <2>. QED
    BY <2>1, <2>2, <2>3, <2>4, Threads DEF AliveIsRead, TypeOK
<1>2. CASE Spawn(t)
  <2>1. starts' \in Child /\ starts' \in Thread
    BY <1>2, SupervisorAssumption, Threads DEF Spawn, TypeOK, Child
  <2>2. /\ pc'[starts'] = "read" /\ (t # starts' => pc'[t] = "handshake")
        /\ \A u \in Thread : u # t /\ u # starts' => pc'[u] = pc[u]
    BY <1>2, <2>1 DEF Spawn, TypeOK
  <2>3. Turn(t) /\ pc[t] # "read"
    BY <1>2 DEF Spawn, Turn
  <2>4. alive' = {starts'}
    BY <1>2, <2>3, <1>0, Threads DEF Spawn, AliveIsRead, Turn, TypeOK
  <2>5. \A u \in Thread : u # starts' => ~Turn(u)'
    BY <2>2, <2>3, <1>0 DEF Turn
  <2>. QED
    BY <2>2, <2>4, <2>5 DEF OneTurn, AliveIsRead
<1>3. CASE SpawnFails(t)
  <2>1. Turn(t) /\ pc[t] # "read" /\ alive' = alive
    BY <1>3 DEF SpawnFails, Turn, processVars
  <2>2. CASE t = Main
    <3>1. /\ pc'[Main] = "read" /\ pc'[Retry] = "loop"
          /\ \A u \in Thread : u \notin {Main, Retry} => pc'[u] = pc[u]
      BY <1>3, <2>2, Threads DEF SpawnFails, TypeOK
    <3>2. \A u \in Thread : u # Retry => ~Turn(u)'
      BY <3>1, <2>1, <2>2, <1>0, Threads DEF Turn
    <3>. QED
      BY <3>1, <3>2, <2>1, Threads DEF OneTurn, AliveIsRead, TypeOK
  <2>3. CASE t # Main
    <3>1. pc'[t] = "loop" /\ \A u \in Thread : u # t => pc'[u] = pc[u]
      BY <1>3, <2>3 DEF SpawnFails, TypeOK
    <3>2. \A u \in Thread : u # t => ~Turn(u)'
      BY <3>1, <2>1, <1>0 DEF Turn
    <3>. QED
      BY <3>1, <3>2, <2>1, Threads DEF OneTurn, AliveIsRead, TypeOK
  <2>. QED
    BY <2>2, <2>3
<1>4. CASE Handshake(t)
  <2>1. /\ pc'[t] = (IF t = Main THEN "read" ELSE "done")
        /\ \A u \in Thread : u # t => pc'[u] = pc[u]
    BY <1>4 DEF Handshake, HandshakeOver, Started, Go, TypeOK
  <2>2. pc[t] = "handshake" /\ alive' = alive
    BY <1>4 DEF Handshake
  <2>3. \A u \in Thread : Turn(u)' => Turn(u)
    BY <2>1, Threads DEF Turn
  <2>. QED
    BY <2>1, <2>2, <2>3, Threads DEF OneTurn, AliveIsRead, TypeOK
<1>. QED
  BY <1>1, <1>2, <1>3, <1>4 DEF StartStep

LEMMA OthersTakeTurns ==
  ASSUME TypeOK, OneTurn, AliveIsRead,
         Run \/ Exit \/ AgentStep \/ OutsideStep \/ (\E c \in Child : PumpStep(c))
  PROVE  OneTurn' /\ AliveIsRead'
<1>1. CASE Run
  <2>1. Turn(Main) /\ alive' = alive
    BY <1>1 DEF Run, Turn, processVars
  <2>2. \A u \in Thread : u # Main => ~Turn(u)
    BY <2>1, Threads DEF OneTurn
  <2>3. \A u \in Thread : u \notin {Main, Retry} => pc'[u] = pc[u]
    BY <1>1, Threads DEF Run, TypeOK
  <2>4. \/ pc'[Main] = "read" /\ pc'[Retry] = "loop"
        \/ pc'[Main] = "start" /\ pc'[Retry] = pc[Retry]
    BY <1>1, Threads DEF Run, TypeOK
  <2>5. OneTurn'
    BY <2>2, <2>3, <2>4, Threads DEF OneTurn, Turn
  <2>. QED
    BY <2>1, <2>3, <2>5, Threads DEF AliveIsRead, TypeOK
<1>2. CASE Exit
  BY <1>2, Threads DEF Exit, OneTurn, Turn, AliveIsRead
<1>3. CASE AgentCloses
  <2>1. /\ pc'[Main] = "close" /\ pc[Main] = "read" /\ alive' = alive
        /\ \A u \in Thread : u # Main => pc'[u] = pc[u]
    BY <1>3, Threads DEF AgentCloses, Go, TypeOK, processVars
  <2>2. \A u \in Thread : Turn(u)' => Turn(u)
    BY <2>1, Threads DEF Turn
  <2>. QED
    BY <2>1, <2>2, Threads DEF OneTurn, AliveIsRead, TypeOK
<1>4. ASSUME NEW c \in Child, PumpEnd(c) PROVE OneTurn' /\ AliveIsRead'
  <2>1. /\ pc[c] = "read" /\ c \notin alive /\ alive' = alive
        /\ \A u \in Thread : u # c => pc'[u] = pc[u]
    BY <1>4, Threads DEF PumpEnd, Go, TypeOK, processVars
  <2>2. \A u \in Thread : Turn(u)' => Turn(u)
    BY <2>1 DEF Turn
  <2>. QED
    BY <2>1, <2>2, Threads DEF OneTurn, AliveIsRead, TypeOK
<1>5. ASSUME pc' = pc, alive' \subseteq alive PROVE OneTurn' /\ AliveIsRead'
  BY <1>5 DEF OneTurn, Turn, AliveIsRead
<1>6. CASE AgentInitializes \/ AgentIsInitialized \/ \E r \in Request : AgentRequests(r)
  BY <1>5, <1>6 DEF AgentInitializes, AgentIsInitialized, AgentRequests
<1>7. CASE OutsideStep
  BY <1>5, <1>7 DEF OutsideStep, ChildReplies, ChildEnds, InstallBegins, InstallFinishes, WatchInstall, processVars
<1>8. ASSUME NEW c \in Child, PumpLine(c) PROVE OneTurn' /\ AliveIsRead'
  BY <1>5, <1>8 DEF PumpLine
<1>. QED
  BY <1>1, <1>2, <1>3, <1>4, <1>6, <1>7, <1>8 DEF AgentStep, PumpStep

LEMMA GreetingShrinks ==
  ASSUME TypeOK, StartsCounted, restarts' = restarts, starts' = starts,
         \A t \in Thread : pc'[t] = pc[t] \/ pc'[t] # "handshake"
  PROVE  StartsCounted'
<1>1. Greeting' \in SUBSET Greeting /\ Greeting \in SUBSET Thread
  BY DEF Greeting
<1>2. Cardinality(Greeting') <= Cardinality(Greeting) /\ Cardinality(Greeting) \in Nat
  BY <1>1, GreetingFinite, FS_Subset
<1>3. Cardinality(Greeting') \in Nat
  BY <1>1, GreetingFinite
<1>. QED
  BY <1>2, <1>3 DEF StartsCounted, TypeOK

LEMMA StartCounts ==
  ASSUME TypeOK, StartsCounted, NEW t \in Thread, StartStep(t) PROVE StartsCounted'
<1>0. Greeting \in SUBSET Thread /\ IsFiniteSet(Greeting) /\ Cardinality(Greeting) \in Nat
  BY GreetingFinite DEF Greeting
<1>1. CASE Restart(t) \/ TakePrevious(t) \/ StopPrevious(t) \/ SpawnFails(t)
  <2>1. restarts' = restarts /\ starts' = starts
    BY <1>1 DEF Restart, TakePrevious, StopPrevious, SpawnFails, handshakeVars, processVars
  <2>2. \A u \in Thread : pc'[u] = pc[u] \/ pc'[u] # "handshake"
    BY <1>1 DEF Restart, TakePrevious, StopPrevious, SpawnFails, Go, TypeOK
  <2>. QED
    BY <2>1, <2>2, GreetingShrinks
<1>2. CASE Spawn(t)
  <2>1. Greeting' \in SUBSET (Greeting \cup {t}) /\ Greeting' \in SUBSET Thread
    <3>1. starts' \in Thread
      BY <1>2, SupervisorAssumption, Threads DEF Spawn, TypeOK, Child
    <3>2. \A u \in Thread : pc'[u] = "handshake" => pc[u] = "handshake" \/ u = t
      BY <1>2, <3>1 DEF Spawn, TypeOK
    <3>. QED
      BY <3>2 DEF Greeting
  <2>2. IsFiniteSet(Greeting \cup {t}) /\ Cardinality(Greeting \cup {t}) <= Cardinality(Greeting) + 1
    <3>1. /\ IsFiniteSet(Greeting \cup {t})
          /\ Cardinality(Greeting \cup {t}) =
               IF t \in Greeting THEN Cardinality(Greeting) ELSE Cardinality(Greeting) + 1
      BY <1>0, FS_AddElement, Zenon
    <3>. QED
      BY <1>0, <3>1
  <2>3. Cardinality(Greeting') <= Cardinality(Greeting \cup {t})
    BY <2>1, <2>2, FS_Subset
  <2>4. Cardinality(Greeting') \in Nat /\ Cardinality(Greeting \cup {t}) \in Nat
    BY <2>1, <2>2, GreetingFinite, FS_CardinalityType
  <2>5. starts' = starts + 1 /\ restarts' = restarts
    BY <1>2 DEF Spawn, handshakeVars
  <2>. QED
    BY <1>0, <2>2, <2>3, <2>4, <2>5 DEF StartsCounted, TypeOK
<1>3. CASE Handshake(t)
  <2>1. Greeting' = Greeting \ {t} /\ t \in Greeting
    BY <1>3 DEF Handshake, HandshakeOver, Started, Go, Greeting, TypeOK
  <2>2. Cardinality(Greeting') = Cardinality(Greeting) - 1
    BY <1>0, <2>1, FS_RemoveElement
  <2>3. starts' = starts /\ (restarts' = restarts \/ restarts' = restarts + 1)
    BY <1>3 DEF Handshake
  <2>. QED
    BY <1>0, <2>2, <2>3 DEF StartsCounted, TypeOK
<1>. QED
  BY <1>1, <1>2, <1>3 DEF StartStep

LEMMA OthersCount ==
  ASSUME TypeOK, StartsCounted,
         Run \/ Exit \/ AgentStep \/ OutsideStep \/ (\E c \in Child : PumpStep(c))
  PROVE  StartsCounted'
<1>1. restarts' = restarts /\ starts' = starts
  BY DEF Run, Exit, AgentStep, OutsideStep, PumpStep, AgentInitializes, AgentIsInitialized,
         AgentRequests, AgentCloses, ChildReplies, ChildEnds, InstallBegins, InstallFinishes,
         WatchInstall, PumpLine, PumpEnd, handshakeVars, processVars
<1>2. \A u \in Thread : pc'[u] = pc[u] \/ pc'[u] # "handshake"
  BY DEF Run, Exit, AgentStep, OutsideStep, PumpStep, AgentInitializes, AgentIsInitialized,
         AgentRequests, AgentCloses, ChildReplies, ChildEnds, InstallBegins, InstallFinishes,
         WatchInstall, PumpLine, PumpEnd, Go, TypeOK
<1>. QED
  BY <1>1, <1>2, GreetingShrinks

Base == TypeOK /\ OneAtATime

LEMMA BaseInit == Init => Base
<1>. SUFFICES ASSUME Init PROVE Base
  OBVIOUS
<1>1. TypeOK
  <2>1. asked \subseteq Id /\ answers \in [Id -> Nat] /\ strays \in Nat
    BY DEF Init
  <2>2. given \in [Child -> SUBSET Message] /\ replied \in [Child -> SUBSET Message]
        /\ out \in [Child -> Seq(Message)]
    BY DEF Init
  <2>3. 0 \in 0..MaxStarts
    BY SupervisorAssumption
  <2>4. pc \in [Thread -> {"off", "run", "loop", "start", "stop", "spawn", "handshake",
                           "read", "close", "done"}]
    BY DEF Init
  <2>5. {initialize, initialized, answered, closed, installing} \subseteq BOOLEAN
    BY DEF Init
  <2>. QED
    BY <2>1, <2>2, <2>3, <2>4, <2>5 DEF Init, TypeOK
<1>2. Greeting = {}
  BY DEF Init, Greeting
<1>3. Cardinality(Greeting) = 0
  BY <1>2, FS_EmptySet
<1>. QED
  BY <1>1, <1>3, Threads DEF Init, Base, OneAtATime, OneTurn, Turn, AliveIsRead, StartsCounted

LEMMA BaseStep == Base /\ [Next]_vars => Base'
<1>. SUFFICES ASSUME Base, [Next]_vars PROVE Base'
  OBVIOUS
<1>. TypeOK /\ OneTurn /\ AliveIsRead /\ StartsCounted
  BY DEF Base, OneAtATime
<1>1. CASE Run \/ Exit \/ AgentStep \/ OutsideStep \/ (\E c \in Child : PumpStep(c))
  BY <1>1, RunTyped, OutsideTyped, PumpTyped, OthersTakeTurns, OthersCount DEF Base, OneAtATime
<1>2. ASSUME NEW t \in Thread, StartStep(t) PROVE Base'
  BY <1>2, StartTyped, StartTakesTurns, StartCounts DEF Base, OneAtATime
<1>3. CASE UNCHANGED vars
  BY <1>3 DEF vars, agentVars, handshakeVars, processVars, installVars, Base, OneAtATime, TypeOK,
              OneTurn, Turn, AliveIsRead, StartsCounted, Greeting
<1>. QED
  BY <1>1, <1>2, <1>3 DEF Next

\* The type invariant: in particular a replayed initialize never becomes one
\* of the agent's pending requests, and its number never passes the starts.
THEOREM TypeCorrect == Spec => []TypeOK
<1>1. Base => TypeOK
  BY DEF Base
<1>. QED
  BY <1>1, BaseInit, BaseStep, PTL DEF Spec

\* start_child may run in run(), in its retry and in any pump: still at most
\* one connector process is running.
THEOREM NeverStacked == Spec => []OneConnector
<1>1. Base => OneConnector
  <2>. SUFFICES ASSUME Base PROVE OneConnector
    OBVIOUS
  <2>1. \A c, d \in alive : c = d
    BY Threads DEF Base, OneAtATime, TypeOK, OneTurn, AliveIsRead, Turn
  <2>2. alive = {} \/ \E c : alive = {c}
    BY <2>1
  <2>. QED
    BY <2>2, FS_EmptySet, FS_Singleton DEF OneConnector
<1>. QED
  BY <1>1, BaseInit, BaseStep, PTL DEF Spec

-----------------------------------------------------------------------------
(* The handshake comes first. *)

Greeted == HandshakeSeen /\ InHand /\ InPlaceIsGreeted /\ HandshakeFirst

LEMMA StartGreets ==
  ASSUME Base, Greeted, NEW t \in Thread, StartStep(t) PROVE Greeted'
<1>. USE Threads DEF Base, Greeted, HandshakeSeen, InHand
<1>1. CASE Restart(t) \/ SpawnFails(t)
  BY <1>1 DEF Restart, SpawnFails, agentVars, handshakeVars, processVars,
              InPlaceIsGreeted, HandshakeFirst, Handshaken
<1>2. CASE TakePrevious(t)
  <2>1. /\ UNCHANGED <<agentVars, handshakeVars, processVars>>
        /\ child' = None /\ mine' = [mine EXCEPT ![t] = child]
    BY <1>2 DEF TakePrevious
  <2>2. InHand'
    BY <2>1 DEF TypeOK, None, processVars
  <2>. QED
    BY <2>1, <2>2 DEF agentVars, handshakeVars, processVars, InPlaceIsGreeted, HandshakeFirst,
                      Handshaken, TypeOK
<1>3. CASE StopPrevious(t)
  BY <1>3 DEF StopPrevious, agentVars, handshakeVars, InPlaceIsGreeted, HandshakeFirst, Handshaken
<1>4. CASE Spawn(t)
  <2>1. /\ UNCHANGED <<agentVars, handshakeVars, child, given>>
        /\ starts' = starts + 1 /\ alive' = alive \cup {starts'}
        /\ mine' = [mine EXCEPT ![t] = starts']
    BY <1>4 DEF Spawn
  <2>2. starts \in Nat /\ child \in Nat /\ \A u \in Thread : mine[u] \in Nat
    BY Numbers
  <2>3. child # starts' /\ child <= starts'
    BY <2>1, <2>2
  <2>4. \A u \in Thread : mine'[u] = mine[u] \/ mine'[u] = starts'
    BY <2>1 DEF TypeOK
  <2>5. \A u \in Thread : mine'[u] <= starts'
    BY <2>1, <2>2, <2>4
  <2>. QED
    BY <2>1, <2>3, <2>5 DEF agentVars, handshakeVars, InPlaceIsGreeted, HandshakeFirst, Handshaken
<1>5. CASE Handshake(t)
  <2>. USE <1>5
  <2>1. UNCHANGED <<asked, initialize, initialized, answered, alive, starts, mine>>
    BY DEF Handshake, agentVars
  <2>2. CASE Reached(mine[t])
    <3>1. child' = mine[t] /\ given' = [given EXCEPT ![mine[t]] = @ \cup HandshakeLines]
      BY <2>2 DEF Handshake, Give
    <3>2. \A c \in Child : given[c] \subseteq given'[c] /\ Handshaken(c) \subseteq Handshaken(c)'
      BY <3>1 DEF TypeOK, Handshaken
    <3>3. restarts + 1 \in Child
      BY RoomToReplay DEF Handshake, OneAtATime
    <3>4. HandshakeLines \cap Request = {}
      BY <3>3, Messages DEF HandshakeLines
    <3>5. \A c \in Child : given'[c] \cap Request = given[c] \cap Request
      BY <3>1, <3>4 DEF TypeOK
    <3>6. initialize => mine[t] \in Child /\ HandshakeLines \cap (Child \cup {Initialize}) # {}
      BY <2>2, <3>3 DEF Reached, TypeOK, HandshakeLines
    <3>7. initialize => Handshaken(child)' # {}
      BY <3>1, <3>6 DEF Handshaken, TypeOK
    <3>. QED
      BY <2>1, <3>1, <3>2, <3>5, <3>7 DEF InPlaceIsGreeted, HandshakeFirst
  <2>3. CASE ~Reached(mine[t])
    BY <2>1, <2>3 DEF Handshake, InPlaceIsGreeted, HandshakeFirst, Handshaken
  <2>. QED
    BY <2>2, <2>3
<1>. QED
  BY <1>1, <1>2, <1>3, <1>4, <1>5 DEF StartStep

LEMMA AgentGreets ==
  ASSUME Base, Greeted, AgentStep PROVE Greeted'
<1>. USE Threads DEF Base, Greeted, HandshakeSeen, InHand
<1>1. CASE AgentCloses
  BY <1>1 DEF AgentCloses, agentVars, handshakeVars, processVars, InPlaceIsGreeted, HandshakeFirst,
              Handshaken, TypeOK
<1>2. ASSUME NEW r \in Request, AgentRequests(r) PROVE Greeted'
  <2>1. /\ UNCHANGED <<handshakeVars, child, alive, starts, mine>> /\ initialized
        /\ asked' = asked \cup {r}
    BY <1>2 DEF AgentRequests
  <2>2. CASE Writable
    <3>1. given' = [given EXCEPT ![child] = @ \cup {r}] /\ child \in Child
      BY <1>2, <2>2 DEF AgentRequests, Give, Writable, TypeOK
    <3>2. \A c \in Child : Handshaken(c) \subseteq Handshaken(c)'
      BY <3>1 DEF Handshaken, TypeOK
    <3>3. Handshaken(child) # {}
      BY <2>1, <2>2 DEF InPlaceIsGreeted, Writable
    <3>4. HandshakeFirst'
      BY <3>1, <3>2, <3>3 DEF HandshakeFirst, TypeOK
    <3>5. InPlaceIsGreeted'
      BY <2>1, <3>1, <3>2, <3>3 DEF InPlaceIsGreeted, handshakeVars
    <3>. QED
      BY <2>1, <3>4, <3>5, Messages DEF handshakeVars
  <2>3. CASE ~Writable
    BY <1>2, <2>1, <2>3, Messages DEF AgentRequests, handshakeVars, InPlaceIsGreeted, HandshakeFirst,
                                      Handshaken
  <2>. QED
    BY <2>2, <2>3
<1>3. CASE AgentInitializes
  <2>1. /\ UNCHANGED <<child, alive, starts, mine, initialized>> /\ initialize' /\ ~answered'
        /\ asked' = asked \cup {Initialize}
    BY <1>3 DEF AgentInitializes
  <2>2. CASE Writable
    <3>1. given' = [given EXCEPT ![child] = @ \cup {Initialize}] /\ child \in Child
      BY <1>3, <2>2 DEF AgentInitializes, Give, Writable, TypeOK
    <3>2. \A c \in Child : Handshaken(c) \subseteq Handshaken(c)'
      BY <3>1 DEF Handshaken, TypeOK
    <3>3. Handshaken(child)' # {}
      BY <2>1, <3>1 DEF Handshaken, TypeOK
    <3>4. HandshakeFirst'
      BY <3>1, <3>2, Messages DEF HandshakeFirst, TypeOK
    <3>. QED
      BY <2>1, <3>3, <3>4, Messages DEF InPlaceIsGreeted
  <2>3. CASE ~Writable
    BY <1>3, <2>1, <2>3 DEF AgentInitializes, InPlaceIsGreeted, HandshakeFirst, Handshaken, Writable
  <2>. QED
    BY <2>2, <2>3
<1>4. CASE AgentIsInitialized
  <2>1. /\ UNCHANGED <<asked, initialize, answered, child, alive, starts, mine>>
        /\ Initialize \in asked /\ initialized'
    BY <1>4 DEF AgentIsInitialized, agentVars
  <2>2. CASE Writable
    <3>1. given' = [given EXCEPT ![child] = @ \cup {Initialized}] /\ child \in Child
      BY <1>4, <2>2 DEF AgentIsInitialized, Give, Writable, TypeOK
    <3>2. \A c \in Child : Handshaken(c) \subseteq Handshaken(c)'
      BY <3>1 DEF Handshaken, TypeOK
    <3>3. HandshakeFirst'
      BY <3>1, <3>2, Messages DEF HandshakeFirst, TypeOK
    <3>. QED
      BY <2>1, <3>1, <3>2, <3>3 DEF InPlaceIsGreeted
  <2>3. CASE ~Writable
    BY <1>4, <2>1, <2>3 DEF AgentIsInitialized, InPlaceIsGreeted, HandshakeFirst, Handshaken
  <2>. QED
    BY <2>2, <2>3
<1>. QED
  BY <1>1, <1>2, <1>3, <1>4 DEF AgentStep

LEMMA OthersGreet ==
  ASSUME Base, Greeted, Run \/ Exit \/ OutsideStep \/ (\E c \in Child : PumpStep(c))
  PROVE  Greeted'
<1>. USE Threads DEF Base, Greeted, HandshakeSeen, InHand
<1>1. /\ UNCHANGED <<asked, initialize, initialized, given, starts, mine>>
      /\ alive' \subseteq alive /\ child' \in {child, None} /\ (answered' => answered \/ initialize)
  <2>1. CASE Run \/ Exit
    BY <2>1 DEF Run, Exit, agentVars, handshakeVars, processVars
  <2>2. CASE OutsideStep
    BY <2>2 DEF OutsideStep, ChildReplies, ChildEnds, InstallBegins, InstallFinishes, WatchInstall,
                agentVars, handshakeVars, processVars
  <2>3. ASSUME NEW c \in Child, PumpLine(c) PROVE <1>1!:
    <3>1. UNCHANGED <<asked, initialize, initialized, given, starts, mine, alive, child>>
      BY <2>3 DEF PumpLine
    <3>2. UNCHANGED answered \/ answered' = (answered \/ (initialize /\ Head(out[c]) = Initialize))
      BY <2>3 DEF PumpLine
    <3>3. answered' => answered \/ initialize
      BY <3>2, Zenon
    <3>4. alive' \subseteq alive /\ child' \in {child, None}
      BY <3>1
    <3>. QED
      BY <3>1, <3>3, <3>4
  <2>4. ASSUME NEW c \in Child, PumpEnd(c) PROVE <1>1!:
    BY <2>4 DEF PumpEnd, handshakeVars, processVars
  <2>. QED
    BY <2>1, <2>2, <2>3, <2>4 DEF PumpStep
<1>2. InHand'
  BY <1>1 DEF TypeOK, None
<1>3. InPlaceIsGreeted'
  BY <1>1 DEF InPlaceIsGreeted, Handshaken, TypeOK
<1>. QED
  BY <1>1, <1>2, <1>3 DEF HandshakeFirst, Handshaken

LEMMA GreetedInit == Init => Greeted
BY Threads DEF Init, Greeted, HandshakeSeen, InHand, InPlaceIsGreeted, HandshakeFirst, None

LEMMA GreetedStep == Base /\ Greeted /\ [Next]_vars => Greeted'
<1>. SUFFICES ASSUME Base, Greeted, [Next]_vars PROVE Greeted'
  OBVIOUS
<1>1. CASE UNCHANGED vars
  BY <1>1 DEF vars, agentVars, handshakeVars, processVars, Greeted, HandshakeSeen, InHand,
              InPlaceIsGreeted, HandshakeFirst, Handshaken
<1>2. ASSUME NEW t \in Thread, StartStep(t) PROVE Greeted'
  BY <1>2, StartGreets
<1>3. CASE AgentStep
  BY <1>3, AgentGreets
<1>4. CASE Run \/ Exit \/ OutsideStep \/ (\E c \in Child : PumpStep(c))
  BY <1>4, OthersGreet
<1>. QED
  BY <1>1, <1>2, <1>3, <1>4 DEF Next

\* No child is given a request before it is given the handshake, whatever
\* ends, and is started again, between the agent's lines.
THEOREM HandshakeComesFirst == Spec => []HandshakeFirst
<1>1. Greeted => HandshakeFirst
  BY DEF Greeted
<1>. QED
  BY <1>1, BaseInit, BaseStep, GreetedInit, GreetedStep, PTL DEF Spec

-----------------------------------------------------------------------------
(* Lines and replies. *)

LEMMA ElemsAppend ==
  ASSUME NEW S, NEW q \in Seq(S), NEW m \in S
  PROVE  /\ Elems(Append(q, m)) = Elems(q) \cup {m}
         /\ Distinct(q) /\ m \notin Elems(q) => Distinct(Append(q, m))
<1>1. DOMAIN q = 1..Len(q) /\ Len(q) \in Nat
  OBVIOUS
<1>2. /\ DOMAIN Append(q, m) = 1..(Len(q) + 1)
      /\ \A k \in 1..Len(q) : Append(q, m)[k] = q[k]
      /\ Append(q, m)[Len(q) + 1] = m
  OBVIOUS
<1>3. 1..(Len(q) + 1) = (1..Len(q)) \cup {Len(q) + 1}
  BY <1>1
<1>4. Elems(Append(q, m)) = Elems(q) \cup {m}
  BY <1>1, <1>2, <1>3 DEF Elems
<1>5. Distinct(q) /\ m \notin Elems(q) => Distinct(Append(q, m))
  BY <1>1, <1>2, <1>3 DEF Elems, Distinct
<1>. QED
  BY <1>4, <1>5

LEMMA ElemsTail ==
  ASSUME NEW S, NEW q \in Seq(S), q # <<>>
  PROVE  /\ Elems(q) = {Head(q)} \cup Elems(Tail(q))
         /\ Distinct(q) => Distinct(Tail(q)) /\ Head(q) \notin Elems(Tail(q))
<1>1. DOMAIN q = 1..Len(q) /\ Len(q) \in Nat \ {0} /\ Head(q) = q[1]
  OBVIOUS
<1>2. /\ DOMAIN Tail(q) = 1..(Len(q) - 1)
      /\ \A k \in 1..(Len(q) - 1) : Tail(q)[k] = q[k + 1]
  OBVIOUS
<1>3. /\ \A k \in 1..(Len(q) - 1) : k + 1 \in 1..Len(q) /\ k + 1 # 1
      /\ \A k \in 1..Len(q) : k = 1 \/ (k - 1 \in 1..(Len(q) - 1) /\ (k - 1) + 1 = k)
      /\ 1 \in 1..Len(q)
  BY <1>1
<1>4. Elems(q) \subseteq {Head(q)} \cup Elems(Tail(q))
  <2>. SUFFICES ASSUME NEW k \in DOMAIN q PROVE q[k] \in {Head(q)} \cup Elems(Tail(q))
    BY DEF Elems
  <2>1. CASE k = 1
    BY <1>1, <2>1
  <2>2. CASE k # 1
    <3>1. k - 1 \in DOMAIN Tail(q) /\ Tail(q)[k - 1] = q[k]
      BY <1>1, <1>2, <1>3, <2>2
    <3>. QED
      BY <3>1 DEF Elems
  <2>. QED
    BY <2>1, <2>2
<1>5. {Head(q)} \cup Elems(Tail(q)) \subseteq Elems(q)
  BY <1>1, <1>2, <1>3 DEF Elems
<1>6. ASSUME Distinct(q) PROVE Distinct(Tail(q)) /\ Head(q) \notin Elems(Tail(q))
  <2>1. Head(q) \notin Elems(Tail(q))
    BY <1>1, <1>2, <1>3, <1>6 DEF Distinct, Elems
  <2>2. ASSUME NEW i \in DOMAIN Tail(q), NEW j \in DOMAIN Tail(q), Tail(q)[i] = Tail(q)[j]
        PROVE  i = j
    <3>1. i \in Nat /\ j \in Nat /\ q[i + 1] = q[j + 1] /\ i + 1 \in DOMAIN q /\ j + 1 \in DOMAIN q
      BY <1>1, <1>2, <1>3, <2>2
    <3>2. i + 1 = j + 1
      BY <3>1, <1>6 DEF Distinct
    <3>. QED
      BY <3>1, <3>2
  <2>. QED
    BY <2>1, <2>2 DEF Distinct
<1>. QED
  BY <1>4, <1>5, <1>6

Settled == Fresh /\ RepliesOnce

\* A step that only writes lines, to children that came up, settles nothing.
LEMMA GivingSettles ==
  ASSUME TypeOK, Settled, replied' = replied, out' = out, starts' \in Nat, starts <= starts',
         \A c \in Child : given[c] \subseteq given'[c] /\ (c > starts => given'[c] = given[c])
  PROVE  Settled'
<1>1. Fresh'
  BY Numbers, Threads DEF Settled, Fresh
<1>2. RepliesOnce'
  BY DEF Settled, RepliesOnce
<1>. QED
  BY <1>1, <1>2 DEF Settled

LEMMA GiveKnown ==
  ASSUME TypeOK, NEW d, d <= starts, NEW L, given' = [given EXCEPT ![d] = @ \cup L]
  PROVE  \A c \in Child : given[c] \subseteq given'[c] /\ (c > starts => given'[c] = given[c])
<1>1. \A c \in Child : given[c] \subseteq given'[c] /\ (c # d => given'[c] = given[c])
  BY DEF TypeOK
<1>2. \A c \in Child : c > starts => c # d
  BY Numbers, Threads
<1>. QED
  BY <1>1, <1>2

LEMMA SettledInit == Init => Settled
<1>1. Elems(<<>>) = {} /\ Distinct(<<>>)
  BY DEF Elems, Distinct
<1>2. Init => Fresh
  BY DEF Init, Fresh
<1>3. Init => RepliesOnce
  BY <1>1 DEF Init, RepliesOnce
<1>. QED
  BY <1>2, <1>3 DEF Settled

LEMMA SettledStep == Base /\ Greeted /\ Settled /\ [Next]_vars => Settled'
<1>. SUFFICES ASSUME TypeOK, InHand, Settled, [Next]_vars PROVE Settled'
  BY DEF Base, Greeted
<1>0. ASSUME UNCHANGED <<given, replied, out>>, starts' = starts PROVE Settled'
  BY <1>0, Numbers, GivingSettles
<1>1. CASE UNCHANGED vars \/ Run \/ Exit \/ AgentCloses
  BY <1>0, <1>1 DEF vars, processVars, Run, Exit, AgentCloses
<1>2. ASSUME NEW t \in Thread, Restart(t) \/ TakePrevious(t) \/ StopPrevious(t) \/ SpawnFails(t)
      PROVE  Settled'
  BY <1>0, <1>2 DEF Restart, TakePrevious, StopPrevious, SpawnFails, processVars
<1>3. ASSUME NEW t \in Thread, Spawn(t) PROVE Settled'
  <2>1. UNCHANGED <<given, replied, out>> /\ starts' = starts + 1
    BY <1>3 DEF Spawn
  <2>. QED
    BY <2>1, Numbers, GivingSettles
<1>4. ASSUME NEW t \in Thread, Handshake(t) PROVE Settled'
  <2>1. replied' = replied /\ out' = out /\ starts' = starts /\ mine[t] <= starts
    BY <1>4 DEF Handshake, InHand
  <2>2. given' = given \/ given' = [given EXCEPT ![mine[t]] = @ \cup HandshakeLines]
    BY <1>4 DEF Handshake, Give
  <2>3. \A c \in Child : given[c] \subseteq given'[c] /\ (c > starts => given'[c] = given[c])
    BY <2>1, <2>2, GiveKnown
  <2>. QED
    BY <2>1, <2>3, Numbers, GivingSettles
<1>5. CASE AgentInitializes \/ AgentIsInitialized \/ \E r \in Request : AgentRequests(r)
  <2>1. replied' = replied /\ out' = out /\ starts' = starts /\ child <= starts
    BY <1>5 DEF AgentInitializes, AgentIsInitialized, AgentRequests, InHand
  <2>2. given' = given \/ \E m : given' = [given EXCEPT ![child] = @ \cup {m}]
    BY <1>5 DEF AgentInitializes, AgentIsInitialized, AgentRequests, Give
  <2>3. \A c \in Child : given[c] \subseteq given'[c] /\ (c > starts => given'[c] = given[c])
    BY <2>1, <2>2, GiveKnown
  <2>. QED
    BY <2>1, <2>3, Numbers, GivingSettles
<1>6. ASSUME NEW c \in Child, PumpLine(c) PROVE Settled'
  <2>1. /\ UNCHANGED <<given, replied, starts>> /\ out[c] # <<>>
        /\ out' = [out EXCEPT ![c] = Tail(@)]
    BY <1>6 DEF PumpLine
  <2>2. out[c] \in Seq(Message)
    BY DEF TypeOK
  <2>3. out'[c] = Tail(out[c]) /\ \A d \in Child : d # c => out'[d] = out[d]
    BY <2>1 DEF TypeOK
  <2>4. Fresh'
    BY <2>1, <2>3 DEF Settled, Fresh
  <2>5. Elems(out'[c]) \subseteq Elems(out[c]) /\ Distinct(out'[c])
    BY <2>1, <2>2, <2>3, ElemsTail DEF Settled, RepliesOnce
  <2>6. RepliesOnce'
    BY <2>1, <2>3, <2>5 DEF Settled, RepliesOnce
  <2>. QED
    BY <2>4, <2>6 DEF Settled
<1>7. ASSUME NEW c \in Child, PumpEnd(c) PROVE Settled'
  BY <1>0, <1>7 DEF PumpEnd, processVars
<1>8. ASSUME NEW c \in Child, ChildReplies(c) PROVE Settled'
  <2>1. PICK m \in given[c] \ ({Initialized} \cup replied[c]) :
          /\ replied' = [replied EXCEPT ![c] = @ \cup {m}]
          /\ out' = [out EXCEPT ![c] = Append(@, m)]
    BY <1>8 DEF ChildReplies
  <2>2. UNCHANGED <<given, starts>>
    BY <1>8 DEF ChildReplies
  <2>3. /\ out[c] \in Seq(Message) /\ m \in Message
        /\ out'[c] = Append(out[c], m) /\ replied'[c] = replied[c] \cup {m}
        /\ \A d \in Child : d # c => out'[d] = out[d] /\ replied'[d] = replied[d]
    BY <2>1 DEF TypeOK
  <2>4. Fresh'
    BY <2>1, <2>2, <2>3 DEF Settled, Fresh
  <2>5. Elems(out[c]) \subseteq replied[c] /\ Distinct(out[c]) /\ m \notin Elems(out[c])
    BY <2>1 DEF Settled, RepliesOnce
  <2>6. Elems(out'[c]) = Elems(out[c]) \cup {m} /\ Distinct(out'[c])
    BY <2>3, <2>5, ElemsAppend
  <2>7. RepliesOnce'
    BY <2>1, <2>2, <2>3, <2>5, <2>6 DEF Settled, RepliesOnce
  <2>. QED
    BY <2>4, <2>7 DEF Settled
<1>9. CASE (\E c \in Child : ChildEnds(c)) \/ InstallBegins \/ InstallFinishes \/ WatchInstall
  BY <1>0, <1>9 DEF ChildEnds, InstallBegins, InstallFinishes, WatchInstall, processVars
<1>. QED
  BY <1>1, <1>2, <1>3, <1>4, <1>5, <1>6, <1>7, <1>8, <1>9
  DEF Next, StartStep, PumpStep, AgentStep, OutsideStep

-----------------------------------------------------------------------------
(* The agent's requests are answered once. *)

\* A step that answers nothing and opens nothing new keeps the account.
LEMMA NothingOpened ==
  ASSUME Accounted, UNCHANGED <<asked, answers, answered, pending, given>>,
         \A i \in Id, c \in Child : Open(i, c)' => Open(i, c)
  PROVE  Accounted'
BY DEF Accounted

LEMMA StartAccounts ==
  ASSUME Base, Greeted, Settled, Accounted, NEW t \in Thread, StartStep(t) PROVE Accounted'
<1>. TypeOK
  BY DEF Base
<1>1. CASE Restart(t) \/ TakePrevious(t) \/ StopPrevious(t) \/ SpawnFails(t)
  <2>1. UNCHANGED <<asked, answers, answered, pending, given, replied, out>>
    BY <1>1 DEF Restart, TakePrevious, StopPrevious, SpawnFails, agentVars, handshakeVars, processVars
  <2>2. \A c \in Child : pc'[c] = "read" => pc[c] = "read"
    BY <1>1, Threads DEF Restart, TakePrevious, StopPrevious, SpawnFails, Go, TypeOK
  <2>. QED
    BY <2>1, <2>2, NothingOpened DEF Open
<1>2. CASE Spawn(t)
  <2>1. UNCHANGED <<asked, answers, answered, pending, given, replied, out>> /\ starts' = starts + 1
    BY <1>2 DEF Spawn, agentVars, handshakeVars
  <2>2. \A c \in Child : pc'[c] = "read" => pc[c] = "read" \/ c = starts + 1
    BY <1>2, <2>1, Threads DEF Spawn, TypeOK
  <2>3. \A c \in Child : c = starts + 1 => given[c] = {}
    BY Numbers, Threads DEF Settled, Fresh
  <2>. QED
    BY <2>1, <2>2, <2>3, NothingOpened DEF Open
<1>3. CASE Handshake(t)
  <2>1. UNCHANGED <<asked, answers, answered, replied, out>>
    BY <1>3 DEF Handshake, agentVars
  <2>2. \A c \in Child : pc'[c] = "read" => pc[c] = "read"
    BY <1>3, Threads DEF Handshake, HandshakeOver, Started, Go, TypeOK
  <2>3. \A i \in Id : i \in HandshakeLines => i = Initialize /\ initialize /\ ~answered
    BY <1>3, RoomToReplay, Messages DEF Handshake, HandshakeLines, Base, OneAtATime
  <2>4. pending' \subseteq pending \cup {Initialize} /\ (Initialize \in pending' => Initialize \in pending \/ (initialize /\ ~answered))
    BY <1>3 DEF Handshake, HandshakePending
  <2>5. \A c \in Child, i \in Id : i \in given'[c] => i \in given[c] \/ i \in HandshakeLines
    BY <1>3 DEF Handshake, Give, TypeOK
  <2>6. initialize /\ ~answered => answers[Initialize] = 0 /\ Initialize \in asked
    BY DEF Accounted, Greeted, HandshakeSeen
  <2>7. \A i \in Id, c \in Child : Open(i, c)' => Open(i, c) \/ (i = Initialize /\ initialize /\ ~answered)
    BY <2>1, <2>2, <2>3, <2>5 DEF Open
  <2>8. \A i \in Id : i \notin asked =>
          answers[i] = 0 /\ i \notin pending' /\ \A c \in Child : i \notin given'[c]
    BY <2>3, <2>4, <2>5, <2>6 DEF Accounted
  <2>9. \A i \in pending' : answers[i] = 0
    BY <2>4, <2>6 DEF Accounted
  <2>. QED
    BY <2>1, <2>6, <2>7, <2>8, <2>9 DEF Accounted
<1>. QED
  BY <1>1, <1>2, <1>3 DEF StartStep

LEMMA PumpAccounts ==
  ASSUME Base, Greeted, Settled, Accounted, NEW c \in Child, PumpStep(c) PROVE Accounted'
<1>. TypeOK
  BY DEF Base
<1>1. \A d \in Child : pc[c] = "read" /\ pc[d] = "read" => d = c
  BY Threads DEF Base, OneAtATime, OneTurn, Turn
<1>2. CASE PumpLine(c)
  <2>. DEFINE m == Head(out[c])
  <2>1. /\ UNCHANGED <<asked, given, replied, pc>> /\ out[c] # <<>> /\ pc[c] = "read"
        /\ out' = [out EXCEPT ![c] = Tail(@)]
    BY <1>2 DEF PumpLine
  <2>2. out[c] \in Seq(Message) /\ out'[c] = Tail(out[c])
    BY <2>1 DEF TypeOK
  <2>3. /\ Elems(out[c]) = {m} \cup Elems(out'[c]) /\ m \notin Elems(out'[c])
        /\ m \in replied[c] /\ m \in given[c]
    BY <2>1, <2>2, ElemsTail DEF Settled, RepliesOnce
  <2>4. \A i \in Id, d \in Child : Open(i, d)' => Open(i, d) /\ i # m
    BY <1>1, <2>1, <2>2, <2>3 DEF Open
  <2>5. CASE m \in Child
    <3>1. UNCHANGED <<answers, answered, pending>>
      BY <1>2, <2>5, Messages DEF PumpLine
    <3>. QED
      BY <2>1, <2>4, <3>1, NothingOpened
  <2>6. CASE m \in Id
    <3>1. /\ pending' = pending \ {m}
          /\ answered' = (answered \/ (initialize /\ m = Initialize))
          /\ answers' = [i \in Id |-> answers[i] + IF i \in {m} THEN 1 ELSE 0]
      BY <1>2, <2>6, Messages DEF PumpLine, Answer
    <3>2. Open(m, c)
      BY <2>1, <2>3 DEF Open
    <3>3. answers[m] = 0 /\ m \in asked
      BY <2>3, <2>6, <3>2 DEF Accounted
    <3>4. answers'[m] = 1 /\ \A i \in Id : i # m => answers'[i] = answers[i]
      BY <3>1, <3>3, <2>6 DEF TypeOK
    <3>5. answers'[Initialize] = (IF answered' THEN 1 ELSE 0)
      <4>1. CASE m = Initialize
        <5>1. initialize
          BY <3>3, <4>1 DEF Greeted, HandshakeSeen
        <5>2. answered' = TRUE
          BY <3>1, <4>1, <5>1, Zenon
        <5>. QED
          BY <3>4, <4>1, <5>2
      <4>2. CASE m # Initialize
        <5>1. answered' = answered
          BY <3>1, <4>2 DEF TypeOK
        <5>. QED
          BY <3>4, <4>2, <5>1, Messages DEF Accounted
      <4>. QED
        BY <4>1, <4>2
    <3>. HIDE DEF m
    <3>6. \A i \in Id : answers'[i] <= 1
      BY <3>4 DEF Accounted
    <3>7. \A i \in pending' : answers'[i] = 0
      BY <3>1, <3>4 DEF Accounted, TypeOK
    <3>8. \A i \in Id, d \in Child : Open(i, d)' => answers'[i] = 0
      BY <2>4, <3>4 DEF Accounted
    <3>9. \A i \in Id : i \notin asked' =>
            answers'[i] = 0 /\ i \notin pending' /\ \A d \in Child : i \notin given'[d]
      BY <2>1, <3>1, <3>3, <3>4 DEF Accounted
    <3>. QED
      BY <3>5, <3>6, <3>7, <3>8, <3>9 DEF Accounted
  <2>. QED
    BY <1>2, <2>5, <2>6 DEF PumpLine
<1>3. CASE PumpEnd(c)
  <2>1. UNCHANGED <<asked, answered, given, replied, out>> /\ pc[c] = "read"
    BY <1>3 DEF PumpEnd, handshakeVars, processVars
  <2>2. \A d \in Child : pc'[d] # "read"
    BY <1>1, <1>3, Threads DEF PumpEnd, Go, TypeOK
  <2>3. \A i \in Id, d \in Child : ~Open(i, d)'
    BY <2>2 DEF Open
  <2>4. CASE pending' = pending /\ answers' = answers
    BY <2>1, <2>3, <2>4 DEF Accounted
  <2>5. CASE pending' = {} /\ Answer(Lost)
    <3>1. \A i \in Id : answers'[i] = answers[i] + IF i \in Lost THEN 1 ELSE 0
      BY <2>5 DEF Answer
    <3>2. Lost \subseteq pending /\ \A i \in Lost : answers[i] = 0 /\ i \in asked
      BY DEF Lost, Accounted, TypeOK
    <3>3. Initialize \notin Lost
      BY <3>2 DEF Lost, Accounted, Greeted, HandshakeSeen
    <3>4. \A i \in Id : answers[i] \in Nat
      BY DEF TypeOK
    <3>5. \A i \in Id : answers'[i] <= 1 /\ (i \notin asked => answers'[i] = 0)
      BY <3>1, <3>2, <3>4 DEF Accounted
    <3>6. answers'[Initialize] = answers[Initialize]
      BY <3>1, <3>3, <3>4, Messages
    <3>. QED
      BY <2>1, <2>3, <2>5, <3>5, <3>6 DEF Accounted
  <2>. QED
    BY <1>3, <2>4, <2>5 DEF PumpEnd
<1>. QED
  BY <1>2, <1>3 DEF PumpStep

\* Nor does one that opens a request without an answer.
LEMMA OneOpened ==
  ASSUME TypeOK, Accounted, NEW r \in Id, answers[r] = 0, asked' = asked \cup {r}, answers' = answers,
         answers[Initialize] = (IF answered' THEN 1 ELSE 0), pending' \subseteq pending \cup {r},
         \A i \in Id, c \in Child : i # r /\ i \in given'[c] => i \in given[c],
         \A i \in Id, c \in Child : i # r /\ Open(i, c)' => Open(i, c)
  PROVE  Accounted'
<1>1. \A i \in Id : answers'[i] <= 1
  BY DEF Accounted
<1>2. \A i \in pending' : answers'[i] = 0
  BY DEF Accounted
<1>3. \A i \in Id, c \in Child : Open(i, c)' => answers'[i] = 0
  BY DEF Accounted
<1>4. \A i \in Id : i \notin asked' =>
        answers'[i] = 0 /\ i \notin pending' /\ \A c \in Child : i \notin given'[c]
  BY DEF Accounted
<1>. QED
  BY <1>1, <1>2, <1>3, <1>4 DEF Accounted

LEMMA AgentAccounts ==
  ASSUME Base, Greeted, Settled, Accounted, AgentStep PROVE Accounted'
<1>. TypeOK
  BY DEF Base
<1>1. CASE AgentCloses
  <2>1. UNCHANGED <<asked, answers, answered, pending, given, replied, out>>
    BY <1>1 DEF AgentCloses, agentVars, handshakeVars, processVars
  <2>2. \A c \in Child : pc'[c] = pc[c]
    BY <1>1, Threads DEF AgentCloses, Go, TypeOK
  <2>. QED
    BY <2>1, <2>2, NothingOpened DEF Open
<1>2. ASSUME NEW r \in Request, AgentRequests(r) PROVE Accounted'
  <2>1. /\ UNCHANGED <<answered, replied, out, pc>> /\ asked' = asked \cup {r} /\ r \notin asked
    BY <1>2 DEF AgentRequests, handshakeVars
  <2>2. /\ r \in Id /\ r # Initialize /\ answers[r] = 0 /\ r \notin pending
        /\ \A c \in Child : r \notin given[c]
    BY <2>1, Messages DEF Accounted
  <2>3. \A i \in Id, c \in Child : i # r /\ i \in given'[c] => i \in given[c]
    <3>1. given' = given \/ given' = [given EXCEPT ![child] = @ \cup {r}]
      BY <1>2 DEF AgentRequests, Give
    <3>. QED
      BY <3>1 DEF TypeOK
  <2>4. pending' \subseteq pending \cup {r}
    BY <1>2 DEF AgentRequests, AfterFailedWrite
  <2>5. \A i \in Id, c \in Child : i # r /\ Open(i, c)' => Open(i, c)
    BY <2>1, <2>3 DEF Open
  <2>6. CASE answers' = answers
    <3>1. answers[Initialize] = (IF answered' THEN 1 ELSE 0)
      BY <2>1 DEF Accounted
    <3>. QED
      BY <2>1, <2>2, <2>3, <2>4, <2>5, <2>6, <3>1, OneOpened
  <2>7. CASE ~Writable
    <3>1. /\ given' = given /\ pending' \subseteq pending
          /\ \A i \in Id : answers'[i] = answers[i] + IF i \in {r} THEN 1 ELSE 0
      BY <1>2, <2>7 DEF AgentRequests, AfterFailedWrite, Answer
    <3>2. answers'[r] = 1 /\ \A i \in Id : i # r => answers'[i] = answers[i]
      BY <2>2, <3>1 DEF TypeOK
    <3>3. \A c \in Child : ~Open(r, c)'
      BY <2>2, <3>1 DEF Open
    <3>4. \A i \in pending' : i \in pending /\ i \in Id /\ i # r
      BY <2>2, <3>1 DEF TypeOK
    <3>5. \A i \in pending' : answers'[i] = 0
      BY <3>2, <3>4 DEF Accounted
    <3>6. \A i \in Id, c \in Child : Open(i, c)' => answers'[i] = 0
      BY <2>5, <3>2, <3>3 DEF Accounted
    <3>7. \A i \in Id : answers'[i] <= 1
      BY <2>2, <3>2 DEF Accounted
    <3>8. answers'[Initialize] = (IF answered' THEN 1 ELSE 0)
      BY <2>1, <2>2, <3>2, Messages DEF Accounted
    <3>. QED
      BY <2>1, <3>1, <3>2, <3>4, <3>5, <3>6, <3>7, <3>8 DEF Accounted
  <2>. QED
    BY <1>2, <2>6, <2>7 DEF AgentRequests
<1>3. CASE AgentInitializes
  <2>1. /\ UNCHANGED <<answers, replied, out, pc>> /\ asked' = asked \cup {Initialize}
        /\ Initialize \notin asked /\ answered' = FALSE
    BY <1>3 DEF AgentInitializes
  <2>2. answers[Initialize] = 0
    BY <2>1, Messages DEF Accounted
  <2>3. \A i \in Id, c \in Child : i # Initialize /\ i \in given'[c] => i \in given[c]
    <3>1. given' = given \/ given' = [given EXCEPT ![child] = @ \cup {Initialize}]
      BY <1>3 DEF AgentInitializes, Give
    <3>. QED
      BY <3>1 DEF TypeOK
  <2>4. pending' \subseteq pending \cup {Initialize}
    BY <1>3 DEF AgentInitializes, AfterFailedWrite
  <2>5. \A i \in Id, c \in Child : i # Initialize /\ Open(i, c)' => Open(i, c)
    BY <2>1, <2>3 DEF Open
  <2>6. answers[Initialize] = (IF answered' THEN 1 ELSE 0)
    BY <2>1, <2>2
  <2>. QED
    BY <2>1, <2>2, <2>3, <2>4, <2>5, <2>6, Messages, OneOpened
<1>4. CASE AgentIsInitialized
  <2>1. UNCHANGED <<asked, answers, answered, pending, replied, out, pc>>
    BY <1>4 DEF AgentIsInitialized, agentVars
  <2>2. \A i \in Id, c \in Child : i \in given'[c] => i \in given[c]
    <3>1. given' = given \/ given' = [given EXCEPT ![child] = @ \cup {Initialized}]
      BY <1>4 DEF AgentIsInitialized, Give
    <3>2. \A c \in Child : given'[c] \subseteq given[c] \cup {Initialized}
      BY <3>1 DEF TypeOK
    <3>3. \A i \in Id : i # Initialized
      BY Messages
    <3>. QED
      BY <3>2, <3>3
  <2>3. \A i \in Id, c \in Child : Open(i, c)' => Open(i, c)
    BY <2>1, <2>2 DEF Open
  <2>4. \A i \in Id : i \notin asked' =>
          answers'[i] = 0 /\ i \notin pending' /\ \A c \in Child : i \notin given'[c]
    BY <2>1, <2>2 DEF Accounted
  <2>5. \A i \in Id, c \in Child : Open(i, c)' => answers'[i] = 0
    BY <2>1, <2>3 DEF Accounted
  <2>. QED
    BY <2>1, <2>4, <2>5 DEF Accounted
<1>. QED
  BY <1>1, <1>2, <1>3, <1>4 DEF AgentStep

LEMMA OthersAccount ==
  ASSUME Base, Settled, Accounted, Run \/ Exit \/ OutsideStep PROVE Accounted'
<1>. TypeOK
  BY DEF Base
<1>1. CASE Run \/ Exit
  <2>1. UNCHANGED <<asked, answers, answered, pending, given, replied, out>>
    BY <1>1 DEF Run, Exit, agentVars, handshakeVars, processVars
  <2>2. \A c \in Child : pc'[c] = "read" => pc[c] = "read"
    BY <1>1, Threads DEF Run, Exit, TypeOK
  <2>. QED
    BY <2>1, <2>2, NothingOpened DEF Open
<1>2. ASSUME NEW c \in Child, ChildReplies(c) PROVE Accounted'
  <2>1. PICK m \in given[c] \ ({Initialized} \cup replied[c]) :
          /\ replied' = [replied EXCEPT ![c] = @ \cup {m}]
          /\ out' = [out EXCEPT ![c] = Append(@, m)]
    BY <1>2 DEF ChildReplies
  <2>2. UNCHANGED <<asked, answers, answered, pending, given, pc>>
    BY <1>2 DEF ChildReplies, agentVars, handshakeVars
  <2>3. /\ out[c] \in Seq(Message) /\ m \in Message
        /\ out'[c] = Append(out[c], m) /\ replied'[c] = replied[c] \cup {m}
        /\ \A d \in Child : d # c => out'[d] = out[d] /\ replied'[d] = replied[d]
    BY <2>1 DEF TypeOK
  <2>4. Elems(out'[c]) = Elems(out[c]) \cup {m}
    BY <2>3, ElemsAppend
  <2>5. \A i \in Id, d \in Child : Open(i, d)' => Open(i, d)
    BY <2>1, <2>2, <2>3, <2>4 DEF Open
  <2>. QED
    BY <2>2, <2>5, NothingOpened
<1>3. CASE (\E c \in Child : ChildEnds(c)) \/ InstallBegins \/ InstallFinishes \/ WatchInstall
  <2>1. UNCHANGED <<asked, answers, answered, pending, given, replied, out, pc>>
    BY <1>3 DEF ChildEnds, InstallBegins, InstallFinishes, WatchInstall, agentVars, handshakeVars,
                processVars
  <2>. QED
    BY <2>1, NothingOpened DEF Open
<1>. QED
  BY <1>1, <1>2, <1>3 DEF OutsideStep

LEMMA AccountedInit == Init => Accounted
BY Messages DEF Init, Accounted, Open

LEMMA AccountedStep == Base /\ Greeted /\ Settled /\ Accounted /\ [Next]_vars => Accounted'
<1>. SUFFICES ASSUME Base, Greeted, Settled, Accounted, [Next]_vars PROVE Accounted'
  OBVIOUS
<1>1. CASE UNCHANGED vars
  BY <1>1 DEF vars, agentVars, handshakeVars, processVars, Accounted, Open
<1>2. ASSUME NEW t \in Thread, StartStep(t) PROVE Accounted'
  BY <1>2, StartAccounts
<1>3. ASSUME NEW c \in Child, PumpStep(c) PROVE Accounted'
  BY <1>3, PumpAccounts
<1>4. CASE AgentStep
  BY <1>4, AgentAccounts
<1>5. CASE Run \/ Exit \/ OutsideStep
  BY <1>5, OthersAccount
<1>. QED
  BY <1>1, <1>2, <1>3, <1>4, <1>5 DEF Next

\* Each request of the agent gets at most one reply or error, although the
\* initialize goes to every new child and a pump answers for what its child
\* took with it.
THEOREM NeverAnsweredTwice == Spec => []AnsweredOnce
<1>1. Base /\ Accounted => AnsweredOnce
  <2>. SUFFICES ASSUME TypeOK, Accounted, NEW i \in Id
                PROVE  answers[i] <= (IF i \in asked THEN 1 ELSE 0)
    BY DEF Base, AnsweredOnce
  <2>. QED
    BY DEF Accounted, TypeOK
<1>. QED
  BY <1>1, BaseInit, BaseStep, GreetedInit, GreetedStep, SettledInit, SettledStep, AccountedInit,
     AccountedStep, PTL DEF Spec

-----------------------------------------------------------------------------
(* The replayed initialize, where the backoff outlasts a start. *)

\* A step that starts nothing, puts no child in place and greets no child.
LEMMA NothingStarts ==
  ASSUME OneStart, \A t \in Thread : pc'[t] = pc[t] \/ pc'[t] \in {"read", "done", "close", "loop"},
         \A c \in Child : pc'[c] = "read" => pc[c] = "read",
         \A t \in Thread : pc'[t] = "handshake" => mine'[t] = mine[t],
         child' \in {child, None},
         \A c \in Child : c # child => given'[c] = given[c]
  PROVE  OneStart'
<1>1. \A t \in Thread : Starting(t)' => Starting(t) /\ pc'[t] = pc[t]
  BY DEF Starting
<1>2. pc'[Main] = "run" => pc[Main] = "run"
  BY Threads
<1>3. \A t \in Thread : pc'[t] = "handshake" => pc[t] = "handshake"
  OBVIOUS
<1>4. ASSUME NEW t \in Thread, NEW u \in Thread, Starting(t)', Starting(u)' PROVE t = u
  BY <1>1, <1>4 DEF OneStart
<1>5. ASSUME pc'[Main] = "run", NEW u \in Thread PROVE ~Starting(u)'
  BY <1>1, <1>2, <1>5 DEF OneStart
<1>6. ASSUME NEW t \in Thread, NEW c \in Child, pc'[t] = "handshake", pc'[c] = "read" PROVE c = mine'[t]
  BY <1>3, <1>6 DEF OneStart
<1>7. ASSUME NEW t \in Thread, pc'[t] = "handshake"
      PROVE  mine'[t] \in Child /\ child' # mine'[t] /\ given'[mine'[t]] = {}
  <2>1. mine'[t] = mine[t] /\ mine[t] \in Child /\ child # mine[t] /\ given[mine[t]] = {}
    BY <1>3, <1>7 DEF OneStart
  <2>2. child' # mine[t]
    BY <2>1, Threads
  <2>3. given'[mine[t]] = given[mine[t]]
    BY <2>1
  <2>. QED
    BY <2>1, <2>2, <2>3
<1>. QED
  BY <1>4, <1>5, <1>6, <1>7 DEF OneStart

LEMMA OneStartInit == Init => OneStart
BY Threads DEF Init, OneStart, Starting

LEMMA StartsOne ==
  ASSUME Prompt, Base, Greeted, Settled, OneStart, NEW t \in Thread, StartStep(t) PROVE OneStart'
<1>. TypeOK
  BY DEF Base
<1>0. pc[t] # "loop" => Starting(t) /\ \A u \in Thread : Starting(u) => u = t
  <2>1. pc[t] # "loop" => Starting(t)
    BY DEF Starting, StartStep, Restart, TakePrevious, StopPrevious, Spawn, SpawnFails, Handshake
  <2>. QED
    BY <2>1 DEF OneStart
<1>1. CASE Restart(t)
  <2>1. UNCHANGED <<child, given, mine>>
    BY <1>1 DEF Restart, processVars
  <2>2. CASE pc' = [pc EXCEPT ![t] = "done"]
    BY <2>1, <2>2, NothingStarts, Threads DEF TypeOK
  <2>3. CASE pc' = [pc EXCEPT ![t] = "start"] /\ \A u \in Thread : ~Starting(u)
    <3>1. pc'[t] = "start" /\ \A u \in Thread : u # t => pc'[u] = pc[u]
      BY <2>3 DEF TypeOK
    <3>2. \A u \in Thread : u # t => ~Starting(u)'
      BY <2>3, <3>1 DEF Starting
    <3>3. \A u \in Thread : pc'[u] # "handshake"
      BY <2>3, <3>1 DEF Starting
    <3>4. pc'[Main] # "run"
      <4>1. Turn(t) /\ t # Main => pc[Main] # "run"
        BY Threads DEF Base, OneAtATime, OneTurn, Turn
      <4>2. Turn(t)
        BY <1>1 DEF Restart, Turn
      <4>. QED
        BY <3>1, <4>1, <4>2, Threads
    <3>. QED
      BY <3>2, <3>3, <3>4 DEF OneStart
  <2>. QED
    BY <1>1, <2>2, <2>3 DEF Restart, Go
<1>2. CASE TakePrevious(t) \/ StopPrevious(t)
  <2>1. /\ pc'[t] \in {"stop", "spawn"} /\ pc[t] # "loop" /\ pc[t] # "run"
        /\ \A u \in Thread : u # t => pc'[u] = pc[u]
    BY <1>2 DEF TakePrevious, StopPrevious, Go, TypeOK
  <2>2. \A u \in Thread : u # t => ~Starting(u)'
    BY <1>0, <2>1 DEF Starting
  <2>3. \A u \in Thread : pc'[u] # "handshake"
    BY <2>1, <2>2 DEF Starting
  <2>4. pc'[Main] # "run"
    BY <1>0, <2>1, Threads DEF OneStart
  <2>. QED
    BY <2>2, <2>3, <2>4 DEF OneStart
<1>3. CASE Spawn(t)
  <2>1. /\ starts' = starts + 1 /\ starts' \in Child /\ mine'[t] = starts' /\ UNCHANGED <<child, given>>
        /\ pc[t] = "spawn"
    BY <1>3, SupervisorAssumption DEF Spawn, TypeOK, Child
  <2>2. /\ pc'[starts'] = "read" /\ (t # starts' => pc'[t] = "handshake")
        /\ \A u \in Thread : u # t /\ u # starts' => pc'[u] = pc[u]
    BY <1>3, <2>1, Threads DEF Spawn, TypeOK
  <2>3. \A u \in Thread : u # t => ~Starting(u)'
    BY <1>0, <2>1, <2>2 DEF Starting
  <2>4. pc'[Main] # "run"
    BY <1>0, <2>1, <2>2, Threads DEF OneStart
  <2>5. \A c \in Child : pc'[c] = "read" => c = starts'
    <3>1. Turn(t)
      BY <2>1 DEF Turn
    <3>2. \A c \in Child : pc[c] # "read"
      BY <2>1, <3>1, Threads DEF Base, OneAtATime, OneTurn, Turn
    <3>. QED
      BY <2>1, <2>2, <3>2, Threads
  <2>6. child # starts' /\ given[starts'] = {}
    <3>1. child <= starts /\ starts' > starts
      BY <2>1, Numbers DEF Greeted, InHand
    <3>2. child # starts'
      BY <2>1, <3>1, Numbers
    <3>. QED
      BY <2>1, <3>1, <3>2 DEF Settled, Fresh
  <2>7. \A u \in Thread : pc'[u] = "handshake" => u = t
    BY <2>3 DEF Starting
  <2>. QED
    BY <2>1, <2>3, <2>4, <2>5, <2>6, <2>7 DEF OneStart
<1>4. CASE SpawnFails(t)
  <2>1. UNCHANGED <<child, given, mine>>
    BY <1>4 DEF SpawnFails, processVars
  <2>2. /\ \A u \in Thread : pc'[u] = pc[u] \/ pc'[u] \in {"read", "loop"}
        /\ \A c \in Child : pc'[c] = "read" => pc[c] = "read"
    BY <1>4, Threads DEF SpawnFails, TypeOK
  <2>. QED
    BY <2>1, <2>2, NothingStarts
<1>5. CASE Handshake(t)
  <2>1. /\ pc[t] = "handshake" /\ pc'[t] \in {"read", "done"}
        /\ \A u \in Thread : u # t => pc'[u] = pc[u]
    BY <1>5 DEF Handshake, HandshakeOver, Started, Go, TypeOK
  <2>2. \A u \in Thread : ~Starting(u)'
    BY <1>0, <2>1 DEF Starting
  <2>3. \A u \in Thread : pc'[u] # "handshake"
    BY <2>2 DEF Starting
  <2>. QED
    BY <2>2, <2>3 DEF OneStart
<1>. QED
  BY <1>1, <1>2, <1>3, <1>4, <1>5 DEF StartStep

LEMMA RunStartsOne ==
  ASSUME TypeOK, OneStart, Run PROVE OneStart'
<1>1. UNCHANGED <<child, given, mine>> /\ pc[Main] = "run"
  BY DEF Run, processVars
<1>2. \A u \in Thread : ~Starting(u)
  BY <1>1 DEF OneStart
<1>3. /\ pc'[Main] \in {"read", "start"}
      /\ \A u \in Thread : u # Main => pc'[u] = pc[u] \/ pc'[u] = "loop"
  BY Threads DEF Run, TypeOK
<1>4. \A u \in Thread : u # Main => ~Starting(u)'
  BY <1>2, <1>3 DEF Starting
<1>5. \A u \in Thread : pc'[u] # "handshake"
  BY <1>3, <1>4 DEF Starting
<1>. QED
  BY <1>3, <1>4, <1>5 DEF OneStart

LEMMA OthersStartNone ==
  ASSUME TypeOK, OneStart, Exit \/ AgentStep \/ OutsideStep \/ (\E c \in Child : PumpStep(c))
  PROVE  OneStart'
<1>1. CASE Exit
  BY <1>1, NothingStarts, Threads DEF Exit
<1>2. CASE AgentCloses
  <2>1. /\ UNCHANGED <<child, given>> /\ pc'[Main] = "close"
        /\ \A u \in Thread : u # Main => pc'[u] = pc[u] /\ mine'[u] = mine[u]
    BY <1>2, Threads DEF AgentCloses, Go, TypeOK, processVars
  <2>. QED
    BY <2>1, NothingStarts, Threads
<1>3. CASE AgentInitializes \/ AgentIsInitialized \/ \E r \in Request : AgentRequests(r)
  <2>1. UNCHANGED <<child, pc, mine>>
    BY <1>3 DEF AgentInitializes, AgentIsInitialized, AgentRequests
  <2>2. given' = given \/ \E m : given' = [given EXCEPT ![child] = @ \cup {m}]
    BY <1>3 DEF AgentInitializes, AgentIsInitialized, AgentRequests, Give
  <2>3. \A c \in Child : c # child => given'[c] = given[c]
    BY <2>2 DEF TypeOK
  <2>. QED
    BY <2>1, <2>3, NothingStarts
<1>4. CASE OutsideStep
  <2>1. UNCHANGED <<child, given, pc, mine>>
    BY <1>4 DEF OutsideStep, ChildReplies, ChildEnds, InstallBegins, InstallFinishes, WatchInstall, processVars
  <2>. QED
    BY <2>1, NothingStarts
<1>5. ASSUME NEW c \in Child, PumpLine(c) PROVE OneStart'
  <2>1. UNCHANGED <<child, given, pc, mine>>
    BY <1>5 DEF PumpLine
  <2>. QED
    BY <2>1, NothingStarts
<1>6. ASSUME NEW c \in Child, PumpEnd(c) PROVE OneStart'
  <2>1. /\ UNCHANGED <<given, mine>> /\ child' \in {child, None}
        /\ pc'[c] \in {"done", "loop"} /\ \A u \in Thread : u # c => pc'[u] = pc[u]
    BY <1>6, Threads DEF PumpEnd, Go, TypeOK, processVars
  <2>. QED
    BY <2>1, NothingStarts, Threads
<1>. QED
  BY <1>1, <1>2, <1>3, <1>4, <1>5, <1>6 DEF AgentStep, PumpStep

\* A step that replays nothing, and opens nothing at a connector.
LEMMA NothingReplayed ==
  ASSUME ReplayIsLatest, UNCHANGED <<strays, replay_id>>,
         \A m, c \in Child : Open(m, c)' => Open(m, c)
  PROVE  ReplayIsLatest'
BY DEF ReplayIsLatest

LEMMA StartReplays ==
  ASSUME Base, Greeted, Settled, OneStart, ReplayIsLatest, NEW t \in Thread, StartStep(t)
  PROVE  ReplayIsLatest'
<1>. TypeOK
  BY DEF Base
<1>1. CASE Restart(t) \/ TakePrevious(t) \/ StopPrevious(t) \/ SpawnFails(t)
  <2>1. UNCHANGED <<strays, replay_id, given, replied, out>>
    BY <1>1 DEF Restart, TakePrevious, StopPrevious, SpawnFails, agentVars, handshakeVars, processVars
  <2>2. \A c \in Child : pc'[c] = "read" => pc[c] = "read"
    BY <1>1, Threads DEF Restart, TakePrevious, StopPrevious, SpawnFails, Go, TypeOK
  <2>. QED
    BY <2>1, <2>2, NothingReplayed DEF Open
<1>2. CASE Spawn(t)
  <2>1. UNCHANGED <<strays, replay_id, given, replied, out>> /\ starts' = starts + 1
    BY <1>2 DEF Spawn, agentVars, handshakeVars
  <2>2. \A c \in Child : pc'[c] = "read" => pc[c] = "read" \/ c = starts + 1
    BY <1>2, <2>1, Threads DEF Spawn, TypeOK
  <2>3. \A c \in Child : c = starts + 1 => given[c] = {}
    BY Numbers, Threads DEF Settled, Fresh
  <2>. QED
    BY <2>1, <2>2, <2>3, NothingReplayed DEF Open
<1>3. CASE Handshake(t)
  <2>1. /\ pc[t] = "handshake" /\ strays' = strays
        /\ \A c \in Child : pc'[c] = "read" => pc[c] = "read"
    BY <1>3, Threads DEF Handshake, HandshakeOver, Started, Go, TypeOK, agentVars
  <2>2. \A c \in Child : pc'[c] = "read" => c = mine[t]
    BY <2>1 DEF OneStart
  <2>3. given[mine[t]] = {} /\ mine[t] \in Child
    BY <2>1 DEF OneStart
  <2>4. given' = given \/ given' = [given EXCEPT ![mine[t]] = @ \cup HandshakeLines]
    BY <1>3 DEF Handshake, Give
  <2>5. given'[mine[t]] \subseteq HandshakeLines
    BY <2>3, <2>4 DEF TypeOK
  <2>6. \A m \in Child : m \in HandshakeLines => m = replay_id'
    <3>1. \A m \in Child : m \in HandshakeLines => initialize /\ answered /\ m = restarts + 1
      BY Messages DEF HandshakeLines
    <3>2. initialize /\ answered => replay_id' = restarts + 1
      BY <1>3 DEF Handshake, ReplayId
    <3>. QED
      BY <3>1, <3>2
  <2>7. \A m, c \in Child : Open(m, c)' => m = replay_id'
    BY <2>2, <2>5, <2>6 DEF Open
  <2>. QED
    BY <2>1, <2>7 DEF ReplayIsLatest
<1>. QED
  BY <1>1, <1>2, <1>3 DEF StartStep

LEMMA PumpHides ==
  ASSUME Base, Settled, ReplayIsLatest, NEW c \in Child, PumpStep(c) PROVE ReplayIsLatest'
<1>. TypeOK
  BY DEF Base
<1>1. CASE PumpLine(c)
  <2>. DEFINE m == Head(out[c])
  <2>1. /\ UNCHANGED <<given, replied, pc>> /\ out[c] # <<>> /\ pc[c] = "read"
        /\ out' = [out EXCEPT ![c] = Tail(@)]
    BY <1>1 DEF PumpLine
  <2>2. out[c] \in Seq(Message) /\ out'[c] = Tail(out[c])
    BY <2>1 DEF TypeOK
  <2>3. /\ Elems(out[c]) = {m} \cup Elems(out'[c]) /\ m \notin Elems(out'[c])
        /\ m \in replied[c] /\ m \in given[c]
    BY <2>1, <2>2, ElemsTail DEF Settled, RepliesOnce
  <2>4. \A d \in Child : pc[d] = "read" => d = c
    BY <2>1, Threads DEF Base, OneAtATime, OneTurn, Turn
  <2>5. \A i, d \in Child : Open(i, d)' => Open(i, d) /\ i # m
    BY <2>1, <2>2, <2>3, <2>4 DEF Open
  <2>6. CASE m \in Child
    <3>1. Open(m, c)
      BY <2>1, <2>3 DEF Open
    <3>2. m = replay_id
      BY <2>6, <3>1 DEF ReplayIsLatest
    <3>3. strays' = strays
      BY <1>1, <2>6, <3>2, Messages DEF PumpLine
    <3>4. \A i, d \in Child : ~Open(i, d)'
      BY <2>5, <3>2 DEF ReplayIsLatest
    <3>. QED
      BY <3>3, <3>4 DEF ReplayIsLatest
  <2>7. CASE m \in Id
    <3>1. UNCHANGED <<strays, replay_id>>
      BY <1>1, <2>7, Messages DEF PumpLine
    <3>. QED
      BY <2>5, <3>1, NothingReplayed
  <2>. QED
    BY <1>1, <2>6, <2>7 DEF PumpLine
<1>2. CASE PumpEnd(c)
  <2>1. UNCHANGED <<strays, replay_id, given, replied, out>>
    BY <1>2 DEF PumpEnd, handshakeVars, processVars
  <2>2. \A d \in Child : pc'[d] = "read" => pc[d] = "read"
    BY <1>2, Threads DEF PumpEnd, Go, TypeOK
  <2>. QED
    BY <2>1, <2>2, NothingReplayed DEF Open
<1>. QED
  BY <1>1, <1>2 DEF PumpStep

LEMMA OthersReplayNothing ==
  ASSUME Base, Settled, ReplayIsLatest, Run \/ Exit \/ AgentStep \/ OutsideStep
  PROVE  ReplayIsLatest'
<1>. TypeOK
  BY DEF Base
<1>1. CASE Run \/ Exit \/ AgentCloses
  <2>1. UNCHANGED <<strays, replay_id, given, replied, out>>
    BY <1>1 DEF Run, Exit, AgentCloses, agentVars, handshakeVars, processVars
  <2>2. \A c \in Child : pc'[c] = "read" => pc[c] = "read"
    BY <1>1, Threads DEF Run, Exit, AgentCloses, Go, TypeOK
  <2>. QED
    BY <2>1, <2>2, NothingReplayed DEF Open
<1>2. CASE AgentInitializes \/ AgentIsInitialized \/ \E r \in Request : AgentRequests(r)
  <2>1. UNCHANGED <<strays, replay_id, replied, out, pc>>
    BY <1>2 DEF AgentInitializes, AgentIsInitialized, AgentRequests, agentVars, handshakeVars
  <2>2. given' = given \/ \E m \in Id \cup {Initialized} : given' = [given EXCEPT ![child] = @ \cup {m}]
    BY <1>2, Messages DEF AgentInitializes, AgentIsInitialized, AgentRequests, Give
  <2>3. \A m, c \in Child : m \in given'[c] => m \in given[c]
    BY <2>2, Messages DEF TypeOK
  <2>. QED
    BY <2>1, <2>3, NothingReplayed DEF Open
<1>3. ASSUME NEW c \in Child, ChildReplies(c) PROVE ReplayIsLatest'
  <2>1. PICK m \in given[c] \ ({Initialized} \cup replied[c]) :
          /\ replied' = [replied EXCEPT ![c] = @ \cup {m}]
          /\ out' = [out EXCEPT ![c] = Append(@, m)]
    BY <1>3 DEF ChildReplies
  <2>2. UNCHANGED <<strays, replay_id, given, pc>>
    BY <1>3 DEF ChildReplies, agentVars, handshakeVars
  <2>3. /\ out[c] \in Seq(Message) /\ m \in Message
        /\ out'[c] = Append(out[c], m) /\ replied'[c] = replied[c] \cup {m}
        /\ \A d \in Child : d # c => out'[d] = out[d] /\ replied'[d] = replied[d]
    BY <2>1 DEF TypeOK
  <2>4. Elems(out'[c]) = Elems(out[c]) \cup {m}
    BY <2>3, ElemsAppend
  <2>5. \A i, d \in Child : Open(i, d)' => Open(i, d)
    BY <2>1, <2>2, <2>3, <2>4 DEF Open
  <2>. QED
    BY <2>2, <2>5, NothingReplayed
<1>4. CASE (\E c \in Child : ChildEnds(c)) \/ InstallBegins \/ InstallFinishes \/ WatchInstall
  <2>1. UNCHANGED <<strays, replay_id, given, replied, out, pc>>
    BY <1>4 DEF ChildEnds, InstallBegins, InstallFinishes, WatchInstall, agentVars, handshakeVars,
                processVars
  <2>. QED
    BY <2>1, NothingReplayed DEF Open
<1>. QED
  BY <1>1, <1>2, <1>3, <1>4 DEF AgentStep, OutsideStep

PromptInv == OneStart /\ ReplayIsLatest

LEMMA PromptInit == Init => PromptInv
BY OneStartInit, Threads DEF Init, PromptInv, ReplayIsLatest, Open

LEMMA PromptStep ==
  Prompt /\ Base /\ Greeted /\ Settled /\ PromptInv /\ [Next]_vars => PromptInv'
<1>. SUFFICES ASSUME Prompt, Base, Greeted, Settled, OneStart, ReplayIsLatest, [Next]_vars
              PROVE  OneStart' /\ ReplayIsLatest'
  BY DEF PromptInv
<1>. TypeOK
  BY DEF Base
<1>1. ASSUME NEW t \in Thread, StartStep(t) PROVE OneStart' /\ ReplayIsLatest'
  BY <1>1, StartsOne, StartReplays
<1>2. ASSUME NEW c \in Child, PumpStep(c) PROVE OneStart' /\ ReplayIsLatest'
  BY <1>2, OthersStartNone, PumpHides
<1>3. CASE Run
  BY <1>3, RunStartsOne, OthersReplayNothing
<1>4. CASE Exit \/ AgentStep \/ OutsideStep
  BY <1>4, OthersStartNone, OthersReplayNothing
<1>5. CASE UNCHANGED vars
  BY <1>5 DEF vars, agentVars, handshakeVars, processVars, OneStart, ReplayIsLatest, Starting, Open
<1>. QED
  BY <1>1, <1>2, <1>3, <1>4, <1>5 DEF Next

\* No reply to an initialize that the supervisor replayed reaches the agent,
\* where no _restart wakes while a start_child is still under way.
THEOREM ReplaysStayHidden == Prompt => (Spec => []ReplayHidden)
<1>. SUFFICES ASSUME Prompt PROVE Spec => []ReplayHidden
  OBVIOUS
<1>1. PromptInv => ReplayHidden
  BY DEF PromptInv, ReplayIsLatest, ReplayHidden
<1>2. Base /\ Greeted /\ Settled /\ PromptInv /\ [Next]_vars => PromptInv'
  BY PromptStep
<1>. QED
  BY <1>1, <1>2, BaseInit, BaseStep, GreetedInit, GreetedStep, SettledInit, SettledStep, PromptInit,
     PTL DEF Spec
=============================================================================
