--------------------------- MODULE McpSupervisor ---------------------------
(***************************************************************************)
(* The process an agent starts for ArchHub's connector                     *)
(* (01.APP/nodelang/mcp_supervisor.py).  It holds the agent's pipe, runs   *)
(* the connector as its child and starts it again whenever it ends.  One   *)
(* step is one region under self.lock, or one call between two of them;    *)
(* the threads are run() itself, the first retry of run(), and the pump of *)
(* every child, which becomes the thread that restarts it.                 *)
(***************************************************************************)
EXTENDS Integers, Sequences, FiniteSets

CONSTANTS
  Request,      \* ids of the agent's requests after initialize
  Initialize,   \* the id of its initialize request
  Initialized,  \* its notifications/initialized line
  Prompt,       \* the backoff outlasts a start_child that is under way
  MaxStarts,    \* bound: connectors that come up
  MaxInstalls   \* bound: installs that begin

ASSUME SupervisorAssumption ==
  /\ MaxStarts \in Nat \ {0} /\ MaxInstalls \in Nat /\ Prompt \in BOOLEAN
  /\ Initialize # Initialized /\ {Initialize, Initialized} \cap (Request \cup Nat) = {}
  /\ Request \cap Nat = {}

Child == 1..MaxStarts                 \* children, in the order they came up
None == 0
Main == 0                             \* the thread of run()
Retry == MaxStarts + 1                \* the thread of run()'s own _restart
Thread == {Main, Retry} \cup Child    \* thread c is the pump of child c

Id == Request \cup {Initialize}
\* A replayed initialize carries the number of the restart as its id.
Message == Id \cup {Initialized} \cup Child

VARIABLES
  asked,        \* ids whose line run() has read
  answers,      \* the replies and errors the agent got for each id
  strays,       \* the replies it got for ids that it never sent
  initialize, initialized, answered, replay_id, pending, restarts, child, closed,
  alive,        \* children whose process is running
  given,        \* the lines written to each child
  replied,      \* those it has replied to
  out,          \* its replies that its pump has not read
  starts,       \* children that came up so far
  pc, mine,     \* where each thread is, and the child it has in hand
  installing, installs

agentVars == <<asked, answers, strays>>
handshakeVars == <<initialize, initialized, answered, replay_id, restarts>>
processVars == <<alive, given, replied, out, starts>>
installVars == <<installing, installs>>
vars == <<agentVars, handshakeVars, pending, child, closed, processVars, pc, mine,
          installVars>>

Init ==
  /\ asked = {} /\ answers = [i \in Id |-> 0] /\ strays = 0
  /\ initialize = FALSE /\ initialized = FALSE /\ answered = FALSE
  /\ replay_id = None /\ restarts = 0
  /\ pending = {} /\ child = None /\ closed = FALSE
  /\ alive = {} /\ starts = 0
  /\ given = [c \in Child |-> {}] /\ replied = given /\ out = [c \in Child |-> <<>>]
  /\ pc = [t \in Thread |-> IF t = Main THEN "run" ELSE "off"]
  /\ mine = [t \in Thread |-> None]
  /\ installing \in BOOLEAN /\ installs = 0

Go(t, s) == pc' = [pc EXCEPT ![t] = s]
\* start_child returns: run() reads the agent, a _restart is over.
Started(t) == Go(t, IF t = Main THEN "read" ELSE "done")
Answer(ids) == answers' = [i \in Id |-> answers[i] + IF i \in ids THEN 1 ELSE 0]
Give(c, lines) == given' = [given EXCEPT ![c] = @ \cup lines]

-----------------------------------------------------------------------------
(* run() before its first line, _restart and start_child. *)

\* run(): a start, unless an install is running; then _restart does it.
Run ==
  /\ pc[Main] = "run"
  /\ pc' = IF installing THEN [pc EXCEPT ![Main] = "read", ![Retry] = "loop"]
           ELSE [pc EXCEPT ![Main] = "start"]
  /\ UNCHANGED <<agentVars, handshakeVars, pending, child, closed, processVars, mine,
                 installVars>>

\* One turn of _restart: it waits for an install, and sleeps before a start.
Starting(t) == pc[t] \in {"start", "stop", "spawn", "handshake"}
Restart(t) ==
  /\ pc[t] = "loop"
  /\ \/ closed /\ Go(t, "done")
     \/ /\ ~closed /\ ~installing
        /\ Prompt => \A u \in Thread : ~Starting(u)
        /\ Go(t, "start")
  /\ UNCHANGED <<agentVars, handshakeVars, pending, child, closed, processVars, mine,
                 installVars>>

\* start_child takes the previous child out...
TakePrevious(t) ==
  /\ pc[t] = "start"
  /\ mine' = [mine EXCEPT ![t] = child]
  /\ child' = None
  /\ Go(t, "stop")
  /\ UNCHANGED <<agentVars, handshakeVars, pending, closed, processVars, installVars>>

\* ...stops it...
StopPrevious(t) ==
  /\ pc[t] = "stop"
  /\ alive' = alive \ {mine[t]}
  /\ Go(t, "spawn")
  /\ UNCHANGED <<agentVars, handshakeVars, pending, child, closed, given, replied, out, starts,
                 mine, installVars>>

\* ...and starts the next one and its pump.
Spawn(t) ==
  /\ pc[t] = "spawn" /\ starts < MaxStarts
  /\ starts' = starts + 1
  /\ alive' = alive \cup {starts'}
  /\ mine' = [mine EXCEPT ![t] = starts']
  /\ pc' = [pc EXCEPT ![t] = "handshake", ![starts'] = "read"]
  /\ UNCHANGED <<agentVars, handshakeVars, pending, child, closed, given, replied, out, installVars>>

\* Popen failed: run() leaves it to a thread, _restart tries again.
SpawnFails(t) ==
  /\ pc[t] = "spawn"
  /\ pc' = IF t = Main THEN [pc EXCEPT ![Main] = "read", ![Retry] = "loop"]
           ELSE [pc EXCEPT ![t] = "loop"]
  /\ UNCHANGED <<agentVars, handshakeVars, pending, child, closed, processVars, mine,
                 installVars>>

\* The lines of the handshake: the agent's initialize, under an id of its own
\* once the agent has its reply, and its initialized notification.
HandshakeOnce ==
  (IF initialize /\ ~answered THEN {Initialize} ELSE {})
  \cup IF initialize /\ initialized THEN {Initialized} ELSE {}
HandshakeReplayOnly ==
  (IF initialize /\ answered THEN {restarts + 1} ELSE {})
  \cup IF initialize /\ initialized THEN {Initialized} ELSE {}
HandshakeLines ==
  (IF initialize THEN {IF answered THEN restarts + 1 ELSE Initialize} ELSE {})
  \cup IF initialize /\ initialized THEN {Initialized} ELSE {}

\* Only the initialize that the agent still waits for becomes pending.
HandshakePendingAlways ==
  pending \cup IF initialize THEN {IF answered THEN restarts + 1 ELSE Initialize} ELSE {}
HandshakePending == pending \cup IF initialize /\ ~answered THEN {Initialize} ELSE {}

\* The id whose reply the agent must not see.  A child that ends before its
\* reply leaves the id of an earlier replay, which the new one replaces.
ReplayIdKept == IF replay_id = None THEN restarts + 1 ELSE replay_id
ReplayId == restarts + 1

\* A write to a child that has ended raises; without initialize none is made.
Reached(c) == initialize => c \in alive

\* start_child returns True in both cases: the pump of a child that ended
\* starts the next one.
HandshakeOverRetry(t) == IF Reached(mine[t]) THEN Started(t) ELSE Go(t, "loop")
HandshakeOver(t) == Started(t)

Handshake(t) ==
  /\ pc[t] = "handshake"
  /\ pending' = HandshakePending
  /\ IF initialize /\ answered
     THEN restarts' = restarts + 1 /\ replay_id' = ReplayId
     ELSE UNCHANGED <<restarts, replay_id>>
  /\ IF Reached(mine[t]) THEN Give(mine[t], HandshakeLines) /\ child' = mine[t]
     ELSE UNCHANGED <<given, child>>
  /\ HandshakeOver(t)
  /\ UNCHANGED <<agentVars, initialize, initialized, answered, closed, alive, replied, out, starts,
                 mine, installVars>>

-----------------------------------------------------------------------------
(* _pump: from the child to the agent, until the child ends. *)

\* One line.  The reply to a replayed initialize becomes tools/list_changed.
PumpLine(c) ==
  /\ pc[c] = "read" /\ out[c] # <<>>
  /\ LET m == Head(out[c])
     IN \/ /\ m \in Child /\ m = replay_id
           /\ replay_id' = None
           /\ UNCHANGED <<answers, strays, pending, answered>>
        \/ /\ m \in Child /\ m # replay_id
           /\ strays' = strays + 1
           /\ UNCHANGED <<answers, pending, answered, replay_id>>
        \/ /\ m \in Id
           /\ pending' = pending \ {m}
           /\ answered' = (answered \/ (initialize /\ m = Initialize))
           /\ Answer({m})
           /\ UNCHANGED <<strays, replay_id>>
  /\ out' = [out EXCEPT ![c] = Tail(@)]
  /\ UNCHANGED <<asked, initialize, initialized, restarts, child, closed, alive, given,
                 replied, starts, pc, mine, installVars>>

\* The requests that ended with the child.  An initialize without a reply is
\* not lost: the next child gets it.
LostSilently == {}
Lost == pending \ IF initialize /\ ~answered THEN {Initialize} ELSE {}

\* The end of the child.  Another child may be in place already.
SupersededByNone(c) == child # c
Superseded(c) == child \notin {c, None}
PumpEnd(c) ==
  /\ pc[c] = "read" /\ out[c] = <<>> /\ c \notin alive
  /\ \/ /\ Superseded(c)
        /\ Go(c, "done")
        /\ UNCHANGED <<child, pending, answers>>
     \/ /\ ~Superseded(c)
        /\ child' = None
        /\ pending' = {}
        /\ Answer(Lost)
        /\ Go(c, IF closed THEN "done" ELSE "loop")
  /\ UNCHANGED <<asked, strays, handshakeVars, closed, processVars, mine, installVars>>

-----------------------------------------------------------------------------
(* run(): from the agent to the child.  A line is written under the lock;   *)
(* a request that reaches no child is answered "restarting".                *)

Writable == child \in alive

\* What stays pending of a request whose write failed.
KeptPending(r) == pending \cup {r}
AfterFailedWrite(r) == IF child = None THEN pending ELSE pending \ {r}

AgentInitializes ==
  /\ pc[Main] = "read" /\ Initialize \notin asked
  /\ asked' = asked \cup {Initialize}
  /\ initialize' = TRUE /\ answered' = FALSE
  /\ IF Writable
     THEN pending' = pending \cup {Initialize} /\ Give(child, {Initialize})
     ELSE pending' = AfterFailedWrite(Initialize) /\ UNCHANGED given
  /\ UNCHANGED <<answers, strays, initialized, replay_id, restarts, child, closed, alive,
                 replied, out, starts, pc, mine, installVars>>

AgentIsInitialized ==
  /\ pc[Main] = "read" /\ Initialize \in asked /\ ~initialized
  /\ initialized' = TRUE
  /\ IF Writable THEN Give(child, {Initialized}) ELSE UNCHANGED given
  /\ UNCHANGED <<agentVars, initialize, answered, replay_id, restarts, pending, child, closed,
                 alive, replied, out, starts, pc, mine, installVars>>

AgentRequests(r) ==
  /\ pc[Main] = "read" /\ initialized /\ r \notin asked
  /\ asked' = asked \cup {r}
  /\ IF Writable
     THEN /\ pending' = pending \cup {r}
          /\ Give(child, {r})
          /\ UNCHANGED answers
     ELSE /\ pending' = AfterFailedWrite(r)
          /\ Answer({r})
          /\ UNCHANGED given
  /\ UNCHANGED <<strays, handshakeVars, child, closed, alive, replied, out, starts, pc, mine,
                 installVars>>

\* The agent closes its pipe...
AgentCloses ==
  /\ pc[Main] = "read"
  /\ closed' = TRUE
  /\ mine' = [mine EXCEPT ![Main] = child]
  /\ Go(Main, "close")
  /\ UNCHANGED <<agentVars, handshakeVars, pending, child, processVars, installVars>>

\* ...run() ends the child it saw, and the process exits with its threads;
\* the end of the pipe ends any other connector.
Exit ==
  /\ pc[Main] = "close"
  /\ alive' = {}
  /\ pc' = [t \in Thread |-> "done"]
  /\ UNCHANGED <<agentVars, handshakeVars, pending, child, closed, given, replied, out, starts, mine,
                 installVars>>

-----------------------------------------------------------------------------
(* The connector, and the installer.  Both are other processes. *)

Handshaken(c) == given[c] \cap (Child \cup {Initialize})

\* The connector replies to a line it was given, to the handshake first.
ChildReplies(c) ==
  /\ c \in alive
  /\ \E m \in given[c] \ ({Initialized} \cup replied[c]) :
       /\ m \in Request => Handshaken(c) \subseteq replied[c]
       /\ replied' = [replied EXCEPT ![c] = @ \cup {m}]
       /\ out' = [out EXCEPT ![c] = Append(@, m)]
  /\ UNCHANGED <<agentVars, handshakeVars, pending, child, closed, alive, given, starts,
                 pc, mine, installVars>>

\* It ends: a crash, a broken import.
ChildEnds(c) ==
  /\ c \in alive /\ starts < MaxStarts
  /\ alive' = alive \ {c}
  /\ UNCHANGED <<agentVars, handshakeVars, pending, child, closed, given, replied, out, starts,
                 pc, mine, installVars>>

InstallBegins ==
  /\ ~installing /\ installs < MaxInstalls
  /\ installing' = TRUE /\ installs' = installs + 1
  /\ UNCHANGED <<agentVars, handshakeVars, pending, child, closed, processVars, pc, mine>>

InstallFinishes ==
  /\ installing /\ installing' = FALSE
  /\ UNCHANGED <<agentVars, handshakeVars, pending, child, closed, processVars, pc, mine,
                 installs>>

\* _watch_install ends the connector so that none of its files is in use.
WatchInstall ==
  /\ installing /\ ~closed /\ child \in alive /\ starts < MaxStarts
  /\ alive' = alive \ {child}
  /\ UNCHANGED <<agentVars, handshakeVars, pending, child, closed, given, replied, out, starts,
                 pc, mine, installVars>>

-----------------------------------------------------------------------------
StartStep(t) ==
  Restart(t) \/ TakePrevious(t) \/ StopPrevious(t) \/ Spawn(t) \/ SpawnFails(t) \/ Handshake(t)
PumpStep(c) == PumpLine(c) \/ PumpEnd(c)
AgentStep ==
  AgentInitializes \/ AgentIsInitialized \/ (\E r \in Request : AgentRequests(r)) \/ AgentCloses
OutsideStep ==
  \/ \E c \in Child : ChildReplies(c) \/ ChildEnds(c)
  \/ InstallBegins \/ InstallFinishes \/ WatchInstall

Next ==
  \/ Run \/ Exit \/ AgentStep \/ OutsideStep
  \/ \E t \in Thread : StartStep(t)
  \/ \E c \in Child : PumpStep(c)

Spec == Init /\ [][Next]_vars

(***************************************************************************)
(* Fairness: every thread goes on, an install finishes, Popen does not     *)
(* fail forever, and a connector that stays up answers.                    *)
(***************************************************************************)
Fairness ==
  /\ WF_vars(Run) /\ WF_vars(Exit) /\ WF_vars(InstallFinishes)
  /\ \A t \in Thread : WF_vars(StartStep(t)) /\ SF_vars(Spawn(t))
  /\ \A c \in Child : WF_vars(PumpStep(c)) /\ WF_vars(ChildReplies(c))
FairSpec == Spec /\ Fairness

-----------------------------------------------------------------------------
\* Every variable has its type; a replayed initialize never becomes a pending
\* request of the agent.
TypeOK ==
  /\ asked \subseteq Id /\ answers \in [Id -> Nat] /\ strays \in Nat
  /\ {initialize, initialized, answered, closed, installing} \subseteq BOOLEAN
  /\ replay_id \in Child \cup {None} /\ restarts \in 0..MaxStarts /\ installs \in Nat
  /\ pending \subseteq Id /\ child \in Child \cup {None}
  /\ alive \subseteq Child /\ starts \in 0..MaxStarts
  /\ given \in [Child -> SUBSET Message] /\ replied \in [Child -> SUBSET Message]
  /\ out \in [Child -> Seq(Message)]
  /\ pc \in [Thread -> {"off", "run", "loop", "start", "stop", "spawn", "handshake",
                        "read", "close", "done"}]
  /\ mine \in [Thread -> Child \cup {None}]

\* The agent gets at most one answer to each of its requests, the initialize
\* that every new child is given included, and none before it asks.
AnsweredOnce == \A i \in Id : answers[i] <= (IF i \in asked THEN 1 ELSE 0)

\* "a replayed initialize whose reply the agent must not see twice": no reply
\* to an id that the agent never sent reaches it.
ReplayHidden == strays = 0

\* "never stack connectors under one supervisor": at most one is running,
\* however often children end while start_child is under way.
OneConnector == Cardinality(alive) <= 1

\* A child is given a request only together with, or after, its handshake.
HandshakeFirst == \A c \in Child : given[c] \cap Request # {} => Handshaken(c) # {}

\* Every request is answered, by a connector or with "restarting", whatever
\* ends in between.
RequestsAnswered ==
  \A r \in Request : r \in asked ~> (answers[r] > 0 \/ closed)

\* The initialize is answered by the first connector that comes up and stays.
InitializeAnswered == Initialize \in asked ~> (answers[Initialize] > 0 \/ closed)

\* "the child is started again until it comes up": the supervisor never stays
\* without a running child in place.
ConnectorReturns == []<>(child \in alive \/ closed)
=============================================================================
