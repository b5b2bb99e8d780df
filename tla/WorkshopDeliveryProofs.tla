----------------------- MODULE WorkshopDeliveryProofs -----------------------
(***************************************************************************)
(* What WorkshopDelivery promises, for any number of sessions, messages    *)
(* and senders, any page limit and any number of declarations.             *)
(***************************************************************************)
EXTENDS WorkshopDelivery, FiniteSetTheorems, TLAPS

\* The number of messages in the room is a number.
LEMMA HeadIsNat ==
  Head \in Nat
<1>1. IsFiniteSet(Message)
  BY ConstantsAssumption
<1>2. IsFiniteSet({m \in Message : sent[m] # NULL})
  BY <1>1, FS_Subset
<1>3. QED
  BY <1>2, FS_CardinalityType DEF Head

\* A page of pending() holds stored messages that name the session and that it has
\* not answered.
LEMMA PendingSelects ==
  ASSUME NEW s \in Session, NEW m \in Pending(s)
  PROVE  m \in Message /\ sent[m] # NULL /\ to[m] \in Names(s) /\ <<m, s>> \notin answered
BY DEF Pending, Unacknowledged, Stored, Entitled, Acknowledged

-----------------------------------------------------------------------------
(* Type correctness, with the shape of a send() under way *)

\* A call that is under way has a message, and one past its transaction has it
\* in the store; a push is under way only in the loop of deliver.
CallShape ==
  \A c \in Call :
    /\ call[c].at # "new" => call[c].msg \in Message
    /\ call[c].at \in {"resolve", "push"} => sent[call[c].msg] \in Sent
    /\ call[c].now # NULL => call[c].at = "push"

Base == TypeOK /\ CallShape

CallType ==
  [at : {"new", "append", "resolve", "push"}, msg : Message \cup {NULL}, routed : SUBSET Session,
   keep : BOOLEAN, todo : SUBSET Session, now : Session \cup {NULL},
   named : [Session -> SUBSET Session]]

\* A call that is not under way has the type of one.
LEMMA NoCallType ==
  NoCall \in CallType /\ NoCall.at = "new" /\ NoCall.now = NULL
BY DEF NoCall, CallType

\* A step of one call keeps the types and the shape of all of them.
LEMMA CallStep ==
  ASSUME Base, NEW c \in Call, NEW r \in CallType, call' = [call EXCEPT ![c] = r],
         \A k \in Message : sent[k] \in Sent => sent'[k] \in Sent,
         r.at # "new" => r.msg \in Message,
         r.at \in {"resolve", "push"} => sent'[r.msg] \in Sent,
         r.now # NULL => r.at = "push"
  PROVE  call' \in [Call -> CallType] /\ CallShape'
<1>1. call \in [Call -> CallType]
  BY DEF Base, TypeOK, CallType
<1>2. call' \in [Call -> CallType] /\ call'[c] = r /\ \A d \in Call \ {c} : call'[d] = call[d]
  BY <1>1
<1>3. ASSUME NEW d \in Call
      PROVE  /\ call'[d].at # "new" => call'[d].msg \in Message
             /\ call'[d].at \in {"resolve", "push"} => sent'[call'[d].msg] \in Sent
             /\ call'[d].now # NULL => call'[d].at = "push"
  <2>1. CASE d = c
    BY <2>1, <1>2
  <2>2. CASE d # c
    <3>1. /\ call[d].at # "new" => call[d].msg \in Message
          /\ call[d].at \in {"resolve", "push"} => sent[call[d].msg] \in Sent
          /\ call[d].now # NULL => call[d].at = "push"
      BY DEF Base, CallShape
    <3>2. QED
      BY <3>1, <2>2, <1>2
  <2>3. QED
    BY <2>1, <2>2
<1>4. QED
  BY <1>2, <1>3 DEF CallShape

\* The fields of a call under way.
LEMMA CallFields ==
  ASSUME Base, NEW c \in Call
  PROVE  /\ call[c] \in CallType
         /\ call[c].at # "new" => call[c].msg \in Message
         /\ call[c].at \in {"resolve", "push"} => sent[call[c].msg] \in Sent
         /\ call[c].now # NULL => call[c].at = "push" /\ call[c].now \in Session
BY DEF Base, TypeOK, CallShape, CallType

\* A push's row has a state.
LEMMA RecordedType ==
  ASSUME Base, NEW m \in Message, NEW s \in Session, NEW st \in State, Recorded(m, s, st)
  PROVE  row' \in [Message -> [Session -> State]]
<1>1. row \in [Message -> [Session -> State]]
  BY DEF Base, TypeOK
<1>2. [row[m] EXCEPT ![s] = st] \in [Session -> State]
  BY <1>1
<1>3. [row EXCEPT ![m][s] = st] = [row EXCEPT ![m] = [row[m] EXCEPT ![s] = st]]
  BY <1>1
<1>4. QED
  BY <1>1, <1>2, <1>3 DEF Recorded

\* Messages are routed to sessions.
LEMMA RoutedIsSessions ==
  ASSUME TypeOK, NEW m \in Message, sent[m] \in Sent
  PROVE  Routed(m) \subseteq Session
BY DEF Routed, Recipients, Sent, TypeOK

\* _settle_waiting asks for the receipts of sessions.
LEMMA NamedIsSessions ==
  ASSUME NEW m \in Message
  PROVE  NamedNow(m) \in [Session -> SUBSET Session]
BY DEF NamedNow, Heirs

\* The first state has types.
LEMMA InitBase ==
  ASSUME Init
  PROVE  Base
<1>1. NoCall \in CallType
  BY NoCallType
<1>2. Header \subseteq Name /\ MaxDeclares \in Nat
  BY ConstantsAssumption
<1>3. TypeOK
  BY <1>1, <1>2 DEF Init, TypeOK, State, CallType
<1>4. CallShape
  BY DEF Init, CallShape, NoCall
<1>5. QED
  BY <1>3, <1>4 DEF Base

\* Every step keeps types and the shape of a call.
LEMMA NextBase ==
  ASSUME Base, [Next]_vars
  PROVE  Base'
<1>1. ASSUME NEW s \in Session, NEW role \in BOOLEAN, NEW status \in {"working", "done"}, Declare(s, role, status)
      PROVE  Base'
  BY <1>1 DEF Declare, Base, TypeOK, CallShape, Sent, room, state, connector, agent
<1>2. ASSUME NEW s \in Session, AgentEnds(s)
      PROVE  Base'
  BY <1>2 DEF AgentEnds, Base, TypeOK, CallShape, Sent, room, state, connector, agent
<1>3. ASSUME NEW s \in Session, AgentResumes(s)
      PROVE  Base'
  BY <1>3 DEF AgentResumes, Base, TypeOK, CallShape, Sent, room, state, connector, agent
<1>4. ASSUME NEW c \in Call, NEW m \in Message, Prepare(c, m)
      PROVE  Base'
  <2> DEFINE r == [NoCall EXCEPT !.at = "append", !.msg = m, !.routed = Recipients(to[m]),
                    !.keep = to[m] = Role \/ decl[to[m]].status # "none"]
  <2>1. r \in CallType /\ r.at = "append" /\ r.msg = m /\ r.now = NULL
    BY NoCallType DEF CallType, Recipients
  <2>2. call' = [call EXCEPT ![c] = r] /\ sent' = sent
    BY <1>4 DEF Prepare, room, state, connector, agent
  <2> HIDE DEF r
  <2>3. call' \in [Call -> CallType] /\ CallShape'
    BY <2>1, <2>2, CallStep
  <2>8. TypeOK'
    BY <1>4, <2>3 DEF Prepare, Base, TypeOK, CallType, Sent, room, state, connector, agent
  <2>9. QED
    BY <2>8, <2>3 DEF Base
<1>5. ASSUME NEW c \in Call, Append(c)
      PROVE  Base'
  <2> DEFINE m == call[c].msg
             new == [at |-> Head + 1, routed |-> call[c].routed, keep |-> call[c].keep]
             r == [call[c] EXCEPT !.at = "resolve", !.routed = {}, !.keep = FALSE]
  <2>1. m \in Message /\ call[c] \in CallType /\ call[c].now = NULL
    BY <1>5, CallFields DEF Append
  <2>2. new \in Sent
    BY <2>1, HeadIsNat DEF Sent, CallType
  <2>3. r \in CallType /\ r.at = "resolve" /\ r.msg = m /\ r.now = NULL
    BY <2>1 DEF CallType
  <2>4. sent' \in [Message -> {NULL} \cup Sent] /\ sent'[m] \in Sent
        /\ \A k \in Message : sent[k] \in Sent => sent'[k] \in Sent
    <3>1. sent \in [Message -> {NULL} \cup Sent]
      BY DEF Base, TypeOK, Sent
    <3>2. (sent' = sent /\ sent[m] # NULL) \/ sent' = [sent EXCEPT ![m] = new]
      BY <1>5 DEF Append
    <3> HIDE DEF new
    <3>3. QED
      BY <2>1, <2>2, <3>1, <3>2
  <2>5. call' = [call EXCEPT ![c] = r]
    BY <1>5 DEF Append
  <2> HIDE DEF r, new
  <2>6. call' \in [Call -> CallType] /\ CallShape'
    <3>1. \A k \in Message : sent[k] \in Sent => sent'[k] \in Sent
      BY <2>4
    <3>2. r.msg \in Message /\ sent'[r.msg] \in Sent
      BY <2>1, <2>3, <2>4
    <3> HIDE DEF m
    <3>3. QED
      BY <2>3, <2>5, <3>1, <3>2, CallStep
  <2>8. TypeOK'
    BY <1>5, <2>1, <2>4, <2>6 DEF Append, Base, TypeOK, CallType, Sent, room, state, connector, agent
  <2>9. QED
    BY <2>8, <2>6 DEF Base
<1>6. ASSUME NEW c \in Call, Resolve(c)
      PROVE  Base'
  <2> DEFINE m == call[c].msg
             r == [call[c] EXCEPT !.at = "push", !.todo = Routed(m), !.named = NamedNow(m)]
  <2>1. m \in Message /\ sent[m] \in Sent /\ call[c] \in CallType /\ call[c].now = NULL /\ sent' = sent
    BY <1>6, CallFields DEF Resolve, room, state, connector, agent
  <2>2. Routed(m) \subseteq Session /\ NamedNow(m) \in [Session -> SUBSET Session]
    BY <2>1, RoutedIsSessions, NamedIsSessions DEF Base
  <2>3. r \in CallType /\ r.at = "push" /\ r.msg = m /\ r.now = NULL
    BY <2>1, <2>2 DEF CallType
  <2>4. call' = [call EXCEPT ![c] = NoCall] \/ call' = [call EXCEPT ![c] = r]
    BY <1>6 DEF Resolve, Finished
  <2> HIDE DEF r
  <2>5. call' \in [Call -> CallType] /\ CallShape'
    BY <2>1, <2>3, <2>4, NoCallType, CallStep
  <2>8. TypeOK'
    BY <1>6, <2>5 DEF Resolve, Base, TypeOK, CallType, Sent, room, state, connector, agent
  <2>9. QED
    BY <2>8, <2>5 DEF Base
<1>7. ASSUME NEW c \in Call, NEW s \in Session, Push(c, s)
      PROVE  Base'
  <2> DEFINE m == call[c].msg
             q == [call[c] EXCEPT !.todo = @ \ {s}]
             r == [call[c] EXCEPT !.now = s]
  <2>1. m \in Message /\ sent[m] \in Sent /\ call[c] \in CallType /\ call[c].at = "push" /\ sent' = sent
    BY <1>7, CallFields DEF Push, room, state, connector, agent
  <2>2. q \in CallType /\ q.at = "push" /\ q.msg = m
    BY <2>1 DEF CallType
  <2>3. r \in CallType /\ r.at = "push" /\ r.msg = m
    BY <2>1 DEF CallType
  <2>4. call' = [call EXCEPT ![c] = q] \/ call' = [call EXCEPT ![c] = r]
    BY <1>7 DEF Push
  <2> HIDE DEF q, r
  <2>5. call' \in [Call -> CallType] /\ CallShape'
    BY <2>1, <2>2, <2>3, <2>4, CallStep
  <2>6. row' \in [Message -> [Session -> State]]
    BY <1>7, <2>1, RecordedType DEF Push, Base, TypeOK, State
  <2>8. TypeOK'
    BY <1>7, <2>5, <2>6 DEF Push, Base, TypeOK, CallType, Sent, room, state, connector, agent
  <2>9. QED
    BY <2>8, <2>5 DEF Base
<1>8. ASSUME NEW c \in Call, Land(c)
      PROVE  Base'
  BY <1>8 DEF Land, Base, TypeOK, CallShape, Sent, room, state, connector, agent
<1>9. ASSUME NEW c \in Call, PushEnds(c)
      PROVE  Base'
  <2> DEFINE m == call[c].msg
             s == call[c].now
             r == [call[c] EXCEPT !.now = NULL, !.todo = @ \ {s}]
  <2>1. /\ m \in Message /\ sent[m] \in Sent /\ s \in Session
        /\ call[c] \in CallType /\ call[c].at = "push" /\ sent' = sent
    BY <1>9, CallFields DEF PushEnds, room, state, connector, agent
  <2>2. r \in CallType /\ r.at = "push" /\ r.msg = m
    BY <2>1 DEF CallType
  <2>3. call' = [call EXCEPT ![c] = r]
    BY <1>9 DEF PushEnds
  <2> HIDE DEF r
  <2>4. call' \in [Call -> CallType] /\ CallShape'
    BY <2>1, <2>2, <2>3, CallStep
  <2>5. row' \in [Message -> [Session -> State]]
    BY <1>9, <2>1, RecordedType DEF PushEnds, State
  <2>8. TypeOK'
    BY <1>9, <2>4, <2>5 DEF PushEnds, Base, TypeOK, CallType, Sent, room, state, connector, agent
  <2>9. QED
    BY <2>8, <2>4 DEF Base
<1>10. ASSUME NEW c \in Call, SettleSent(c)
      PROVE  Base'
  <2>1. call' = [call EXCEPT ![c] = NoCall] /\ sent' = sent
    BY <1>10 DEF SettleSent, Finished, room, state, connector, agent
  <2>2. call' \in [Call -> CallType] /\ CallShape'
    BY <2>1, NoCallType, CallStep
  <2>8. TypeOK'
    BY <1>10, <2>2 DEF SettleSent, Base, TypeOK, CallType, Sent, room, state, connector, agent
  <2>9. QED
    BY <2>8, <2>2 DEF Base
<1>11. ASSUME NEW c \in Call, SenderEnds(c)
      PROVE  Base'
  <2>1. call' = [call EXCEPT ![c] = NoCall] /\ sent' = sent
    BY <1>11 DEF SenderEnds, Finished, room, state, connector, agent
  <2>2. call' \in [Call -> CallType] /\ CallShape'
    BY <2>1, NoCallType, CallStep
  <2>8. TypeOK'
    BY <1>11, <2>2 DEF SenderEnds, Base, TypeOK, CallType, Sent, room, state, connector, agent
  <2>9. QED
    BY <2>8, <2>2 DEF Base
<1>12. ASSUME NEW s \in Session, Fetch(s)
      PROVE  Base'
  <2>1. Pending(s) \subseteq Message
    BY PendingSelects
  <2>2. fetch' \in [Session -> {NULL} \cup SUBSET Message]
    BY <1>12, <2>1 DEF Fetch, Base, TypeOK
  <2>3. TypeOK'
    BY <1>12, <2>2 DEF Fetch, Base, TypeOK, room, state, connector, agent
  <2>4. CallShape'
    BY <1>12 DEF Fetch, Base, CallShape, room, state, connector, agent
  <2>5. QED
    BY <2>3, <2>4 DEF Base
<1>13. ASSUME NEW s \in Session, Keep(s)
      PROVE  Base'
  BY <1>13 DEF Keep, Base, TypeOK, CallShape, Sent, room, state, connector, agent
<1>14. ASSUME NEW s \in Session, Tool(s)
      PROVE  Base'
  BY <1>14 DEF Tool, Given, Base, TypeOK, CallShape, Sent, room, state, connector, agent
<1>15. ASSUME NEW s \in Session, HookPrint(s)
      PROVE  Base'
  BY <1>15 DEF HookPrint, Given, Base, TypeOK, CallShape, Sent, room, state, connector, agent
<1>16. ASSUME NEW s \in Session, NEW ms \in receipts[s], Receipt(s, ms)
      PROVE  Base'
  <2>1. row' \in [Message -> [Session -> State]] /\ waiting' \subseteq Message
    <3>1. \A m \in Message : [row[m] EXCEPT ![s] = "delivered"] \in [Session -> State]
      BY DEF Base, TypeOK, State
    <3>2. CASE Seen(s, ms)
      BY <3>1, <3>2 DEF Seen, Base, TypeOK
    <3>3. CASE UNCHANGED <<row, waiting>>
      BY <3>3 DEF Base, TypeOK
    <3>4. QED
      BY <1>16, <3>2, <3>3 DEF Receipt
  <2>2. receipts' \in [Session -> SUBSET SUBSET Message]
    BY <1>16 DEF Receipt, Base, TypeOK
  <2>3. TypeOK'
    BY <1>16, <2>1, <2>2 DEF Receipt, Base, TypeOK, room, state, connector, agent
  <2>4. CallShape'
    BY <1>16 DEF Receipt, Base, CallShape, room, state, connector, agent
  <2>5. QED
    BY <2>3, <2>4 DEF Base
<1>17. ASSUME NEW s \in Session, NEW next \in 0..Head, Read(s, next)
      PROVE  Base'
  <2>1. pos[s] \in Nat /\ next \in Nat
    BY <1>17, HeadIsNat DEF Base, TypeOK
  <2>2. cursor' \in [Session -> Nat] /\ pos' \in [Session -> Nat]
    BY <1>17, <2>1 DEF Read, ReadCursor, Base, TypeOK
  <2>3. fetch' \in [Session -> {NULL} \cup SUBSET Message] /\ page' \in [Session -> SUBSET Message]
    BY <1>17 DEF Read, Superseded, Base, TypeOK
  <2>4. TypeOK'
    BY <1>17, <2>2, <2>3 DEF Read, Base, TypeOK, room, state, connector, agent
  <2>5. CallShape'
    BY <1>17 DEF Read, Base, CallShape, room, state, connector, agent
  <2>6. QED
    BY <2>4, <2>5 DEF Base
<1>18. ASSUME NEW s \in Session, NEW m \in Message, Answer(s, m)
      PROVE  Base'
  BY <1>18 DEF Answer, Superseded, Stored, Base, TypeOK, CallShape, Sent, room, state, connector, agent
<1>19. ASSUME NEW m \in Message, Expire(m)
      PROVE  Base'
  BY <1>19 DEF Expire, Expirable, Stored, Base, TypeOK, CallShape, Sent, room, state, connector, agent
<1>20. CASE UNCHANGED vars
  BY <1>20 DEF vars, Base, TypeOK, CallShape, Sent, room, state, connector, agent
<1>21. QED
  BY <1>1, <1>2, <1>3, <1>4, <1>5, <1>6, <1>7, <1>8, <1>9, <1>10, <1>11, <1>12, <1>13, <1>14, <1>15, <1>16, <1>17, <1>18, <1>19, <1>20 DEF Next, SendStep, AgentStep

-----------------------------------------------------------------------------
(* Rows only move forward: what a step may do to one of them *)

\* The row of a push is written once.
LEMMA RecordedRow ==
  ASSUME Base, NEW m \in Message, NEW s \in Session, NEW st, Recorded(m, s, st),
         NEW k \in Message, NEW t \in Session
  PROVE  \/ row'[k][t] = row[k][t]
         \/ k = m /\ t = s /\ row'[k][t] = st /\ row[k][t] = "none"
<1>1. row \in [Message -> [Session -> State]]
  BY DEF Base, TypeOK
<1>2. CASE row[m][s] # "none"
  BY <1>2 DEF Recorded
<1>3. CASE row[m][s] = "none"
  <2>1. row' = [row EXCEPT ![m] = [row[m] EXCEPT ![s] = st]]
    BY <1>1, <1>3 DEF Recorded
  <2>2. QED
    BY <1>1, <1>3, <2>1
<1>4. QED
  BY <1>2, <1>3

\* A receipt marks the rows of its own session only.
LEMMA SeenRow ==
  ASSUME Base, NEW s \in Session, NEW ms, Seen(s, ms), NEW k \in Message, NEW t \in Session
  PROVE  \/ row'[k][t] = row[k][t]
         \/ k \in ms /\ t = s /\ row'[k][t] = "delivered"
<1>1. row[k] \in [Session -> State]
  BY DEF Base, TypeOK
<1>2. row'[k] = row[k] \/ (k \in ms /\ row'[k] = [row[k] EXCEPT ![s] = "delivered"])
  BY DEF Seen
<1>3. QED
  BY <1>1, <1>2

\* A delivered row stays delivered.
LEMMA DeliveredStays ==
  ASSUME Base, [Next]_vars, NEW k \in Message, NEW t \in Session, row[k][t] = "delivered"
  PROVE  row'[k][t] = "delivered"
<1>1. CASE row' = row
  BY <1>1
<1>2. ASSUME NEW c \in Call, NEW s \in Session, Push(c, s)
      PROVE  row'[k][t] = "delivered"
  BY <1>2, CallFields, RecordedRow DEF Push
<1>3. ASSUME NEW c \in Call, PushEnds(c)
      PROVE  row'[k][t] = "delivered"
  BY <1>3, CallFields, RecordedRow DEF PushEnds
<1>4. ASSUME NEW s \in Session, NEW ms \in receipts[s], Receipt(s, ms)
      PROVE  row'[k][t] = "delivered"
  BY <1>4, SeenRow DEF Receipt
<1>5. row' = row \/ (\E c \in Call : PushEnds(c) \/ \E s \in Session : Push(c, s))
                 \/ (\E s \in Session : \E ms \in receipts[s] : Receipt(s, ms))
  BY DEF Next, SendStep, AgentStep, Declare, AgentEnds, AgentResumes, Prepare, Append, Resolve,
         Land, SettleSent, SenderEnds, Fetch, Keep, Tool, HookPrint, Read, Answer, Expire,
         vars, room, state
<1>6. QED
  BY <1>1, <1>2, <1>3, <1>4, <1>5

-----------------------------------------------------------------------------
(* What is recorded was shown *)

\* A receipt under way is for what its agent was shown, and the cursor is not past
\* what its agent was given by read().
Shown ==
  \A s \in Session :
    /\ cursor[s] <= pos[s]
    /\ \A ms \in receipts[s] : ms \subseteq told[s]
    /\ \A m \in Message : row[m][s] = "delivered" => m \in told[s]

\* Every step keeps Shown.
LEMMA NextShown ==
  ASSUME Base, Shown, [Next]_vars
  PROVE  Shown'
<1>1. ASSUME NEW s \in Session, NEW role \in BOOLEAN, NEW status \in {"working", "done"}, Declare(s, role, status)
      PROVE  Shown'
  BY <1>1 DEF Declare, Shown, room, state, connector, agent
<1>2. ASSUME NEW s \in Session, AgentEnds(s)
      PROVE  Shown'
  BY <1>2 DEF AgentEnds, Base, TypeOK, Shown, room, state, connector, agent
<1>3. ASSUME NEW s \in Session, AgentResumes(s)
      PROVE  Shown'
  BY <1>3 DEF AgentResumes, Shown, room, state, connector, agent
<1>4. ASSUME NEW c \in Call, NEW m \in Message, Prepare(c, m)
      PROVE  Shown'
  BY <1>4 DEF Prepare, Shown, room, state, connector, agent
<1>5. ASSUME NEW c \in Call, Append(c)
      PROVE  Shown'
  BY <1>5 DEF Append, Shown, room, state, connector, agent
<1>6. ASSUME NEW c \in Call, Resolve(c)
      PROVE  Shown'
  BY <1>6 DEF Resolve, Shown, room, state, connector, agent
<1>7. ASSUME NEW c \in Call, NEW s \in Session, Push(c, s)
      PROVE  Shown'
  <2>1. cursor' = cursor /\ pos' = pos /\ receipts' = receipts /\ told' = told
    BY <1>7 DEF Push, room, state, connector, agent
  <2>2. \A k \in Message, t \in Session : row'[k][t] = "delivered" => k \in told[t]
    BY <1>7, CallFields, RecordedRow DEF Push, Shown
  <2>3. QED
    BY <2>1, <2>2 DEF Shown
<1>8. ASSUME NEW c \in Call, Land(c)
      PROVE  Shown'
  <2>1. call[c].now \in Session
    BY <1>8, CallFields DEF Land
  <2>2. \A t \in Session : told[t] \subseteq told'[t]
    BY <1>8, <2>1 DEF Land, Base, TypeOK
  <2>3. cursor' = cursor /\ pos' = pos /\ receipts' = receipts /\ row' = row
    BY <1>8 DEF Land, room, state, connector, agent
  <2>4. QED
    BY <2>2, <2>3 DEF Shown
<1>9. ASSUME NEW c \in Call, PushEnds(c)
      PROVE  Shown'
  <2>1. cursor' = cursor /\ pos' = pos /\ receipts' = receipts /\ told' = told
    BY <1>9 DEF PushEnds, room, state, connector, agent
  <2>2. \A k \in Message, t \in Session : row'[k][t] = "delivered" => k \in told[t]
    BY <1>9, CallFields, RecordedRow DEF PushEnds, Shown
  <2>3. QED
    BY <2>1, <2>2 DEF Shown
<1>10. ASSUME NEW c \in Call, SettleSent(c)
      PROVE  Shown'
  BY <1>10 DEF SettleSent, Shown, room, state, connector, agent
<1>11. ASSUME NEW c \in Call, SenderEnds(c)
      PROVE  Shown'
  BY <1>11 DEF SenderEnds, Shown, room, state, connector, agent
<1>12. ASSUME NEW s \in Session, Fetch(s)
      PROVE  Shown'
  BY <1>12 DEF Fetch, Shown, room, state, connector, agent
<1>13. ASSUME NEW s \in Session, Keep(s)
      PROVE  Shown'
  BY <1>13 DEF Keep, Shown, room, state, connector, agent
<1>14. ASSUME NEW s \in Session, Tool(s)
      PROVE  Shown'
  <2>1. cursor' = cursor /\ pos' = pos /\ row' = row
    BY <1>14 DEF Tool, room, state, connector, agent
  <2>2. \A t \in Session : told[t] \subseteq told'[t]
    BY <1>14 DEF Tool, Given, Base, TypeOK
  <2>3. \A t \in Session : \A ms \in receipts'[t] : ms \subseteq told'[t]
    BY <1>14 DEF Tool, Given, Base, TypeOK, Shown
  <2>4. QED
    BY <2>1, <2>2, <2>3 DEF Shown
<1>15. ASSUME NEW s \in Session, HookPrint(s)
      PROVE  Shown'
  <2>1. cursor' = cursor /\ pos' = pos /\ row' = row
    BY <1>15 DEF HookPrint, room, state, connector, agent
  <2>2. \A t \in Session : told[t] \subseteq told'[t]
    BY <1>15 DEF HookPrint, Given, Base, TypeOK
  <2>3. \A t \in Session : \A ms \in receipts'[t] : ms \subseteq told'[t]
    BY <1>15 DEF HookPrint, Given, Base, TypeOK, Shown
  <2>4. QED
    BY <2>1, <2>2, <2>3 DEF Shown
<1>16. ASSUME NEW s \in Session, NEW ms \in receipts[s], Receipt(s, ms)
      PROVE  Shown'
  <2>1. cursor' = cursor /\ pos' = pos /\ told' = told
    BY <1>16 DEF Receipt, room, state, connector, agent
  <2>2. \A t \in Session : receipts'[t] \subseteq receipts[t]
    BY <1>16 DEF Receipt, Base, TypeOK
  <2>3. \A k \in Message, t \in Session : row'[k][t] = "delivered" => k \in told[t]
    BY <1>16, SeenRow DEF Receipt, Shown
  <2>4. QED
    BY <2>1, <2>2, <2>3 DEF Shown
<1>17. ASSUME NEW s \in Session, NEW next \in 0..Head, Read(s, next)
      PROVE  Shown'
  <2>1. row' = row /\ receipts' = receipts /\ told' = told
    BY <1>17 DEF Read, room, state, connector, agent
  <2>2. \A t \in Session : cursor'[t] <= pos'[t]
    BY <1>17, HeadIsNat DEF Read, ReadCursor, Base, TypeOK, Shown
  <2>3. QED
    BY <2>1, <2>2 DEF Shown
<1>18. ASSUME NEW s \in Session, NEW m \in Message, Answer(s, m)
      PROVE  Shown'
  BY <1>18 DEF Answer, Shown, room, state, connector, agent
<1>19. ASSUME NEW m \in Message, Expire(m)
      PROVE  Shown'
  BY <1>19 DEF Expire, Shown, room, state, connector, agent
<1>20. CASE UNCHANGED vars
  BY <1>20 DEF vars, Shown, room, state, connector, agent
<1>21. QED
  BY <1>1, <1>2, <1>3, <1>4, <1>5, <1>6, <1>7, <1>8, <1>9, <1>10, <1>11, <1>12, <1>13, <1>14, <1>15, <1>16, <1>17, <1>18, <1>19, <1>20 DEF Next, SendStep, AgentStep

-----------------------------------------------------------------------------
(* An answered message stays quiet *)

\* Every step keeps answered messages out of the pages.
LEMMA NextQuiet ==
  ASSUME Base, AnsweredIsQuiet, [Next]_vars
  PROVE  AnsweredIsQuiet'
<1>1. ASSUME NEW s \in Session, NEW role \in BOOLEAN, NEW status \in {"working", "done"}, Declare(s, role, status)
      PROVE  AnsweredIsQuiet'
  BY <1>1 DEF Declare, AnsweredIsQuiet, room, state, connector, agent
<1>2. ASSUME NEW s \in Session, AgentEnds(s)
      PROVE  AnsweredIsQuiet'
  BY <1>2 DEF AgentEnds, Base, TypeOK, AnsweredIsQuiet, room, state, connector, agent
<1>3. ASSUME NEW s \in Session, AgentResumes(s)
      PROVE  AnsweredIsQuiet'
  BY <1>3 DEF AgentResumes, AnsweredIsQuiet, room, state, connector, agent
<1>4. ASSUME NEW c \in Call, NEW m \in Message, Prepare(c, m)
      PROVE  AnsweredIsQuiet'
  BY <1>4 DEF Prepare, AnsweredIsQuiet, room, state, connector, agent
<1>5. ASSUME NEW c \in Call, Append(c)
      PROVE  AnsweredIsQuiet'
  BY <1>5 DEF Append, AnsweredIsQuiet, room, state, connector, agent
<1>6. ASSUME NEW c \in Call, Resolve(c)
      PROVE  AnsweredIsQuiet'
  BY <1>6 DEF Resolve, AnsweredIsQuiet, room, state, connector, agent
<1>7. ASSUME NEW c \in Call, NEW s \in Session, Push(c, s)
      PROVE  AnsweredIsQuiet'
  BY <1>7 DEF Push, AnsweredIsQuiet, room, state, connector, agent
<1>8. ASSUME NEW c \in Call, Land(c)
      PROVE  AnsweredIsQuiet'
  BY <1>8 DEF Land, AnsweredIsQuiet, room, state, connector, agent
<1>9. ASSUME NEW c \in Call, PushEnds(c)
      PROVE  AnsweredIsQuiet'
  BY <1>9 DEF PushEnds, AnsweredIsQuiet, room, state, connector, agent
<1>10. ASSUME NEW c \in Call, SettleSent(c)
      PROVE  AnsweredIsQuiet'
  BY <1>10 DEF SettleSent, AnsweredIsQuiet, room, state, connector, agent
<1>11. ASSUME NEW c \in Call, SenderEnds(c)
      PROVE  AnsweredIsQuiet'
  BY <1>11 DEF SenderEnds, AnsweredIsQuiet, room, state, connector, agent
<1>12. ASSUME NEW s \in Session, Fetch(s)
      PROVE  AnsweredIsQuiet'
  <2>1. answered' = answered /\ page' = page
    BY <1>12 DEF Fetch, room, state, connector, agent
  <2>2. \A m \in Pending(s) : <<m, s>> \notin answered
    BY PendingSelects
  <2>3. fetch'[s] = Pending(s) /\ \A t \in Session \ {s} : fetch'[t] = fetch[t]
    BY <1>12 DEF Fetch, Base, TypeOK
  <2>4. QED
    BY <2>1, <2>2, <2>3 DEF AnsweredIsQuiet
<1>13. ASSUME NEW s \in Session, Keep(s)
      PROVE  AnsweredIsQuiet'
  BY <1>13 DEF Keep, Base, TypeOK, AnsweredIsQuiet, room, state, connector, agent
<1>14. ASSUME NEW s \in Session, Tool(s)
      PROVE  AnsweredIsQuiet'
  BY <1>14 DEF Tool, Base, TypeOK, AnsweredIsQuiet, room, state, connector, agent
<1>15. ASSUME NEW s \in Session, HookPrint(s)
      PROVE  AnsweredIsQuiet'
  BY <1>15 DEF HookPrint, Base, TypeOK, AnsweredIsQuiet, room, state, connector, agent
<1>16. ASSUME NEW s \in Session, NEW ms \in receipts[s], Receipt(s, ms)
      PROVE  AnsweredIsQuiet'
  BY <1>16 DEF Receipt, AnsweredIsQuiet, room, state, connector, agent
<1>17. ASSUME NEW s \in Session, NEW next \in 0..Head, Read(s, next)
      PROVE  AnsweredIsQuiet'
  <2>1. \A t \in Session : page'[t] \subseteq page[t] /\ (fetch'[t] = fetch[t] \/ fetch'[t] = NULL)
    BY <1>17 DEF Read, Superseded, Base, TypeOK
  <2>2. answered' = answered
    BY <1>17 DEF Read, room, state, connector, agent
  <2>3. QED
    BY <2>1, <2>2 DEF AnsweredIsQuiet
<1>18. ASSUME NEW s \in Session, NEW m \in Message, Answer(s, m)
      PROVE  AnsweredIsQuiet'
  <2>1. \A t \in Session : page'[t] \subseteq page[t] /\ (fetch'[t] = fetch[t] \/ fetch'[t] = NULL)
    BY <1>18 DEF Answer, Superseded, Base, TypeOK
  <2>2. s \notin Hooked => page'[s] = {} /\ fetch'[s] = NULL
    BY <1>18 DEF Answer, Superseded, Base, TypeOK
  <2>3. \A k \in Message, t \in Session : t # s /\ <<k, t>> \in answered' => <<k, t>> \in answered
    BY <1>18 DEF Answer
  <2>4. ASSUME NEW t \in Session \ Hooked, NEW k \in Message, <<k, t>> \in answered'
        PROVE  k \notin page'[t] /\ (fetch'[t] # NULL => k \notin fetch'[t])
    <3>1. CASE t = s
      BY <3>1, <2>2, <2>4
    <3>2. CASE t # s
      BY <3>2, <2>1, <2>3, <2>4 DEF AnsweredIsQuiet
    <3>3. QED
      BY <3>1, <3>2
  <2>5. QED
    BY <2>4 DEF AnsweredIsQuiet
<1>19. ASSUME NEW m \in Message, Expire(m)
      PROVE  AnsweredIsQuiet'
  BY <1>19 DEF Expire, AnsweredIsQuiet, room, state, connector, agent
<1>20. CASE UNCHANGED vars
  BY <1>20 DEF vars, AnsweredIsQuiet, room, state, connector, agent
<1>21. QED
  BY <1>1, <1>2, <1>3, <1>4, <1>5, <1>6, <1>7, <1>8, <1>9, <1>10, <1>11, <1>12, <1>13, <1>14, <1>15, <1>16, <1>17, <1>18, <1>19, <1>20 DEF Next, SendStep, AgentStep

-----------------------------------------------------------------------------
(* A waiting message is kept *)

Acked(m) == \E s \in Session : row[m][s] = "delivered" \/ <<m, s>> \in answered

\* An acknowledgement is never taken back.
LEMMA AckedStays ==
  ASSUME Base, [Next]_vars, NEW m \in Message, Acked(m)
  PROVE  Acked(m)'
<1>1. answered \subseteq answered'
  BY DEF Next, SendStep, AgentStep, Declare, AgentEnds, AgentResumes, Prepare, Append, Resolve, Push,
         Land, PushEnds, SettleSent, SenderEnds, Fetch, Keep, Tool, HookPrint, Receipt, Read,
         Answer, Expire, vars, room, state
<1>2. PICK s \in Session : row[m][s] = "delivered" \/ <<m, s>> \in answered
  BY DEF Acked
<1>3. row'[m][s] = "delivered" \/ <<m, s>> \in answered'
  BY <1>1, <1>2, DeliveredStays
<1>4. QED
  BY <1>3 DEF Acked

\* Whatever settles a message, somebody acknowledged it.
LEMMA SettledIsAcked ==
  ASSUME NEW m \in Message, NEW r, NEW named \in [Session -> SUBSET Session], Settles(r, named, m)
  PROVE  \E s \in Session : r[m][s] = "delivered" \/ <<m, s>> \in answered
BY DEF Settles, Acknowledged

\* Every step keeps what waits.
LEMMA NextKept ==
  ASSUME Base, WaitingIsKept, [Next]_vars
  PROVE  WaitingIsKept'
<1>1. \A m \in Message : Acked(m) => Acked(m)'
  BY AckedStays
<1>2. ASSUME NEW s \in Session, NEW role \in BOOLEAN, NEW status \in {"working", "done"}, Declare(s, role, status)
      PROVE  WaitingIsKept'
  BY <1>1, <1>2 DEF Declare, WaitingIsKept, Acked, room, state, connector, agent
<1>3. ASSUME NEW s \in Session, AgentEnds(s)
      PROVE  WaitingIsKept'
  BY <1>1, <1>3 DEF AgentEnds, WaitingIsKept, Acked, room, state, connector, agent
<1>4. ASSUME NEW s \in Session, AgentResumes(s)
      PROVE  WaitingIsKept'
  BY <1>1, <1>4 DEF AgentResumes, WaitingIsKept, Acked, room, state, connector, agent
<1>5. ASSUME NEW c \in Call, NEW m \in Message, Prepare(c, m)
      PROVE  WaitingIsKept'
  BY <1>1, <1>5 DEF Prepare, WaitingIsKept, Acked, room, state, connector, agent
<1>6. ASSUME NEW c \in Call, Append(c)
      PROVE  WaitingIsKept'
  <2> DEFINE m == call[c].msg
  <2>1. m \in Message /\ m \notin gone
    BY <1>6, CallFields DEF Append
  <2>2. gone' = gone /\ waiting \subseteq waiting' /\ (call[c].keep => m \in waiting')
    BY <1>6 DEF Append, room, state, connector, agent
  <2>3. \A k \in Message \ {m} : sent'[k] = sent[k]
    BY <1>6 DEF Append, Base, TypeOK
  <2>4. sent'[m] = sent[m] \/ sent'[m].keep = call[c].keep
    BY <1>6, <2>1 DEF Append, Base, TypeOK
  <2>5. ASSUME NEW k \in Message, sent'[k] # NULL, sent'[k].keep, k \notin waiting' \/ k \in gone'
        PROVE  Acked(k)'
    <3>1. CASE sent'[k] = sent[k]
      BY <3>1, <2>2, <2>5, <1>1 DEF WaitingIsKept, Acked
    <3>2. CASE sent'[k] # sent[k]
      BY <3>2, <2>1, <2>2, <2>3, <2>4, <2>5
    <3>3. QED
      BY <3>1, <3>2
  <2>6. QED
    BY <2>5 DEF WaitingIsKept, Acked
<1>7. ASSUME NEW c \in Call, Resolve(c)
      PROVE  WaitingIsKept'
  BY <1>1, <1>7 DEF Resolve, WaitingIsKept, Acked, room, state, connector, agent
<1>8. ASSUME NEW c \in Call, NEW s \in Session, Push(c, s)
      PROVE  WaitingIsKept'
  BY <1>1, <1>8 DEF Push, WaitingIsKept, Acked, room, state, connector, agent
<1>9. ASSUME NEW c \in Call, Land(c)
      PROVE  WaitingIsKept'
  BY <1>1, <1>9 DEF Land, WaitingIsKept, Acked, room, state, connector, agent
<1>10. ASSUME NEW c \in Call, PushEnds(c)
      PROVE  WaitingIsKept'
  BY <1>1, <1>10 DEF PushEnds, WaitingIsKept, Acked, room, state, connector, agent
<1>11. ASSUME NEW c \in Call, SettleSent(c)
      PROVE  WaitingIsKept'
  <2> DEFINE m == call[c].msg
  <2>1. m \in Message /\ call[c].named \in [Session -> SUBSET Session]
    BY <1>11, CallFields DEF SettleSent, CallType
  <2>2. sent' = sent /\ gone' = gone /\ row' = row /\ answered' = answered
    BY <1>11 DEF SettleSent, room, state, connector, agent
  <2>3. waiting' = waiting \/ (waiting' = waiting \ {m} /\ Settles(row, call[c].named, m))
    BY <1>11 DEF SettleSent
  <2>4. Settles(row, call[c].named, m) => Acked(m)
    BY <2>1, SettledIsAcked DEF Acked
  <2>5. QED
    BY <2>2, <2>3, <2>4 DEF WaitingIsKept, Acked
<1>12. ASSUME NEW c \in Call, SenderEnds(c)
      PROVE  WaitingIsKept'
  BY <1>1, <1>12 DEF SenderEnds, WaitingIsKept, Acked, room, state, connector, agent
<1>13. ASSUME NEW s \in Session, Fetch(s)
      PROVE  WaitingIsKept'
  BY <1>1, <1>13 DEF Fetch, WaitingIsKept, Acked, room, state, connector, agent
<1>14. ASSUME NEW s \in Session, Keep(s)
      PROVE  WaitingIsKept'
  BY <1>1, <1>14 DEF Keep, WaitingIsKept, Acked, room, state, connector, agent
<1>15. ASSUME NEW s \in Session, Tool(s)
      PROVE  WaitingIsKept'
  BY <1>1, <1>15 DEF Tool, WaitingIsKept, Acked, room, state, connector, agent
<1>16. ASSUME NEW s \in Session, HookPrint(s)
      PROVE  WaitingIsKept'
  BY <1>1, <1>16 DEF HookPrint, WaitingIsKept, Acked, room, state, connector, agent
<1>17. ASSUME NEW s \in Session, NEW ms \in receipts[s], Receipt(s, ms)
      PROVE  WaitingIsKept'
  <2>1. sent' = sent /\ gone' = gone /\ answered' = answered
    BY <1>17 DEF Receipt, room, state, connector, agent
  <2>2. \A k \in Message : k \in waiting /\ k \notin waiting' => Acked(k)'
    <3> SUFFICES ASSUME NEW k \in Message, k \in waiting, k \notin waiting'
                 PROVE  Acked(k)'
      OBVIOUS
    <3>1. Seen(s, ms)
      BY <1>17 DEF Receipt
    <3>2. Settles(row', NamedNow(k), k)
      BY <3>1 DEF Seen
    <3>3. NamedNow(k) \in [Session -> SUBSET Session]
      BY NamedIsSessions
    <3>4. \E t \in Session : row'[k][t] = "delivered" \/ <<k, t>> \in answered
      BY <3>2, <3>3, SettledIsAcked
    <3>5. QED
      BY <3>4, <2>1 DEF Acked
  <2>3. QED
    BY <2>1, <2>2, <1>1 DEF WaitingIsKept, Acked
<1>18. ASSUME NEW s \in Session, NEW next \in 0..Head, Read(s, next)
      PROVE  WaitingIsKept'
  BY <1>1, <1>18 DEF Read, WaitingIsKept, Acked, room, state, connector, agent
<1>19. ASSUME NEW s \in Session, NEW m \in Message, Answer(s, m)
      PROVE  WaitingIsKept'
  BY <1>1, <1>19 DEF Answer, WaitingIsKept, Acked, room, state, connector, agent
<1>20. ASSUME NEW m \in Message, Expire(m)
      PROVE  WaitingIsKept'
  <2>1. sent' = sent /\ waiting' = waiting /\ gone' = gone \cup {m} /\ m \notin waiting
    BY <1>20 DEF Expire, Expirable, room, state, connector, agent
  <2>2. QED
    BY <2>1, <1>1 DEF WaitingIsKept, Acked
<1>21. CASE UNCHANGED vars
  BY <1>1, <1>21 DEF vars, WaitingIsKept, Acked, room, state, connector, agent
<1>22. QED
  BY <1>2, <1>3, <1>4, <1>5, <1>6, <1>7, <1>8, <1>9, <1>10, <1>11, <1>12, <1>13, <1>14, <1>15, <1>16, <1>17, <1>18, <1>19, <1>20, <1>21 DEF Next, SendStep, AgentStep

-----------------------------------------------------------------------------
(* Only those who are named *)

\* s is named by m, or has held the role that m means.
May(m, s) ==
  \/ to[m] = s
  \/ decl[s].held /\ (to[m] = Role \/ decl[to[m]].held)

Holders == \A s \in Session : decl[s].role => decl[s].held

\* Nobody else is routed, pushed to or about to be.
Routes ==
  /\ \A m \in Message, s \in Session : sent[m] \in Sent /\ s \in sent[m].routed => May(m, s)
  /\ \A c \in Call, s \in Session :
       /\ call[c].msg \in Message
       /\ s \in call[c].routed \/ s \in call[c].todo \/ s = call[c].now
       => May(call[c].msg, s)

\* Nobody else has it in a page.
Pages ==
  \A m \in Message, s \in Session :
    /\ m \in told[s] => May(m, s)
    /\ m \in page[s] => May(m, s)
    /\ fetch[s] # NULL /\ m \in fetch[s] => May(m, s)

\* Headers do not change, and who has held the role has held it.
LEMMA HeldStays ==
  ASSUME Base, Holders, [Next]_vars
  PROVE  to' = to /\ Holders' /\ \A s \in Session : decl[s].held => decl'[s].held
<1>1. ASSUME NEW s \in Session, NEW role \in BOOLEAN, NEW status \in {"working", "done"},
             Declare(s, role, status)
      PROVE  Holders' /\ \A t \in Session : decl[t].held => decl'[t].held
  <2>1. PICK n \in 1..MaxDeclares :
          decl' = [decl EXCEPT ![s] = [status |-> status, role |-> role,
                                       held |-> decl[s].held \/ role, at |-> n]]
    BY <1>1 DEF Declare
  <2>2. QED
    BY <2>1 DEF Base, TypeOK, Holders
<1>2. to' = to
  BY DEF Next, SendStep, AgentStep, Declare, AgentEnds, AgentResumes, Prepare, Append, Resolve, Push,
         Land, PushEnds, SettleSent, SenderEnds, Fetch, Keep, Tool, HookPrint, Receipt, Read,
         Answer, Expire, vars, room, state
<1>3. decl' = decl \/ \E s \in Session, role \in BOOLEAN, status \in {"working", "done"} :
                         Declare(s, role, status)
  BY DEF Next, SendStep, AgentStep, Declare, AgentEnds, AgentResumes, Prepare, Append, Resolve, Push,
         Land, PushEnds, SettleSent, SenderEnds, Fetch, Keep, Tool, HookPrint, Receipt, Read,
         Answer, Expire, vars, room, state
<1>4. QED
  BY <1>1, <1>2, <1>3 DEF Holders

\* Once named is named for ever.
LEMMA MayStays ==
  ASSUME Base, Holders, [Next]_vars, NEW m \in Message, NEW s \in Session, May(m, s)
  PROVE  May(m, s)'
<1>1. to[m] \in Session \cup {Role}
  BY DEF Base, TypeOK, Name
<1>2. QED
  BY <1>1, HeldStays DEF May

\* A name of s is one that s may answer to.
LEMMA NamesMay ==
  ASSUME Base, Holders, NEW m \in Message, NEW s \in Session, to[m] \in Names(s)
  PROVE  May(m, s)
BY DEF Names, Holds, Holders, May

\* Whoever a message is routed to, at the send or later, is named.
LEMMA RoutedMay ==
  ASSUME Base, Holders, Routes, NEW m \in Message, sent[m] \in Sent, NEW s \in Routed(m)
  PROVE  May(m, s)
<1>1. s \in Session
  BY RoutedIsSessions DEF Base
<1>2. CASE s \in sent[m].routed
  BY <1>1, <1>2 DEF Routes
<1>3. CASE s \notin sent[m].routed
  BY <1>1, <1>3, NamesMay DEF Routed, Recipients
<1>4. QED
  BY <1>2, <1>3

\* Every step keeps to the named in what it routes.
LEMMA NextRoutes ==
  ASSUME Base, Holders, Routes, [Next]_vars
  PROVE  Routes'
<1>1. \A m \in Message, s \in Session : May(m, s) => May(m, s)'
  BY MayStays
<1>2. ASSUME NEW s \in Session, NEW role \in BOOLEAN, NEW status \in {"working", "done"}, Declare(s, role, status)
      PROVE  Routes'
  <2>1. sent' = sent /\ call' = call
    BY <1>2 DEF Declare, room, state, connector, agent
  <2>2. QED
    BY <1>1, <2>1 DEF Routes
<1>3. ASSUME NEW s \in Session, AgentEnds(s)
      PROVE  Routes'
  <2>1. sent' = sent /\ call' = call
    BY <1>3 DEF AgentEnds, room, state, connector, agent
  <2>2. QED
    BY <1>1, <2>1 DEF Routes
<1>4. ASSUME NEW s \in Session, AgentResumes(s)
      PROVE  Routes'
  <2>1. sent' = sent /\ call' = call
    BY <1>4 DEF AgentResumes, room, state, connector, agent
  <2>2. QED
    BY <1>1, <2>1 DEF Routes
<1>5. ASSUME NEW c \in Call, NEW m \in Message, Prepare(c, m)
      PROVE  Routes'
  <2>1. sent' = sent
    BY <1>5 DEF Prepare, room, state, connector, agent
  <2>2. /\ call'[c].msg = m /\ call'[c].routed = Recipients(to[m])
        /\ call'[c].todo = {} /\ call'[c].now = NULL
    BY <1>5 DEF Prepare, NoCall, Base, TypeOK
  <2>3. \A d \in Call \ {c} : call'[d] = call[d]
    BY <1>5 DEF Prepare, Base, TypeOK
  <2>4. \A s \in Recipients(to[m]) : s \in Session /\ May(m, s)
    BY NamesMay DEF Recipients
  <2>5. NULL \notin Session
    BY ConstantsAssumption
  <2>6. QED
    BY <1>1, <2>1, <2>2, <2>3, <2>4, <2>5 DEF Routes
<1>6. ASSUME NEW c \in Call, Append(c)
      PROVE  Routes'
  <2> DEFINE m == call[c].msg
  <2>1. m \in Message /\ call[c] \in CallType
    BY <1>6, CallFields DEF Append
  <2>2. sent' = sent \/ sent' = [sent EXCEPT ![m] = [at |-> Head + 1, routed |-> call[c].routed,
                                                    keep |-> call[c].keep]]
    BY <1>6 DEF Append
  <2>3. \A k \in Message : sent'[k] = sent[k] \/ (k = m /\ sent'[k].routed = call[c].routed)
    BY <2>1, <2>2 DEF Base, TypeOK
  <2>4. \A d \in Call : /\ call'[d].msg = call[d].msg /\ call'[d].routed \subseteq call[d].routed
                        /\ call'[d].todo = call[d].todo /\ call'[d].now = call[d].now
    BY <1>6, <2>1 DEF Append, Base, TypeOK
  <2>5. \A k \in Message, s \in Session : sent'[k] \in Sent /\ s \in sent'[k].routed => May(k, s)
    BY <2>1, <2>3 DEF Routes
  <2>6. QED
    BY <1>1, <2>4, <2>5 DEF Routes
<1>7. ASSUME NEW c \in Call, Resolve(c)
      PROVE  Routes'
  <2> DEFINE m == call[c].msg
  <2>1. sent' = sent /\ m \in Message /\ sent[m] \in Sent /\ NULL \notin Session
    BY <1>7, CallFields, ConstantsAssumption DEF Resolve, room, state, connector, agent
  <2>2. \A d \in Call \ {c} : call'[d] = call[d]
    BY <1>7 DEF Resolve, Finished, Base, TypeOK
  <2>3. CASE Finished(c)
    <3>1. call'[c].routed = {} /\ call'[c].todo = {} /\ call'[c].now = NULL
      BY <2>3 DEF Finished, NoCall, Base, TypeOK
    <3>2. QED
      BY <1>1, <2>1, <2>2, <3>1 DEF Routes
  <2>4. CASE ~Finished(c)
    <3>1. call' = [call EXCEPT ![c].at = "push", ![c].todo = Routed(m), ![c].named = NamedNow(m)]
      BY <1>7, <2>4 DEF Resolve
    <3>2. /\ call'[c].msg = m /\ call'[c].routed = call[c].routed
          /\ call'[c].todo = Routed(m) /\ call'[c].now = call[c].now
      BY <3>1 DEF Base, TypeOK
    <3>3. \A s \in Routed(m) : May(m, s)
      BY <2>1, RoutedMay
    <3>4. QED
      BY <1>1, <2>1, <2>2, <3>2, <3>3 DEF Routes
  <2>5. QED
    BY <2>3, <2>4
<1>8. ASSUME NEW c \in Call, NEW s \in Session, Push(c, s)
      PROVE  Routes'
  <2>1. sent' = sent /\ call[c].now = NULL
    BY <1>8 DEF Push, room, state, connector, agent
  <2>2. \A d \in Call \ {c} : call'[d] = call[d]
    BY <1>8 DEF Push, Base, TypeOK
  <2>3. /\ call'[c].msg = call[c].msg /\ call'[c].routed = call[c].routed
        /\ call'[c].todo \subseteq call[c].todo
        /\ call'[c].now = NULL \/ call'[c].now \in call[c].todo
    <3>1. call[c] \in CallType
      BY CallFields
    <3>2. CASE call' = [call EXCEPT ![c] = [call[c] EXCEPT !.todo = @ \ {s}]]
      BY <3>1, <3>2, <2>1 DEF Base, TypeOK, CallType
    <3>3. CASE call' = [call EXCEPT ![c] = [call[c] EXCEPT !.now = s]]
      BY <1>8, <3>1, <3>3 DEF Push, Base, TypeOK, CallType
    <3>4. QED
      BY <1>8, <3>2, <3>3 DEF Push
  <2>4. NULL \notin Session
    BY ConstantsAssumption
  <2>5. QED
    BY <1>1, <2>1, <2>2, <2>3, <2>4 DEF Routes
<1>9. ASSUME NEW c \in Call, Land(c)
      PROVE  Routes'
  <2>1. sent' = sent /\ call' = call
    BY <1>9 DEF Land, room, state, connector, agent
  <2>2. QED
    BY <1>1, <2>1 DEF Routes
<1>10. ASSUME NEW c \in Call, PushEnds(c)
      PROVE  Routes'
  <2>1. sent' = sent
    BY <1>10 DEF PushEnds, room, state, connector, agent
  <2>2. \A d \in Call \ {c} : call'[d] = call[d]
    BY <1>10 DEF PushEnds, Base, TypeOK
  <2>3. /\ call'[c].msg = call[c].msg /\ call'[c].routed = call[c].routed
        /\ call'[c].todo \subseteq call[c].todo /\ call'[c].now = NULL
    BY <1>10 DEF PushEnds, Base, TypeOK
  <2>4. NULL \notin Session
    BY ConstantsAssumption
  <2>5. QED
    BY <1>1, <2>1, <2>2, <2>3, <2>4 DEF Routes
<1>11. ASSUME NEW c \in Call, SettleSent(c)
      PROVE  Routes'
  <2>1. sent' = sent /\ NULL \notin Session
    BY <1>11, ConstantsAssumption DEF SettleSent, room, state, connector, agent
  <2>2. \A d \in Call \ {c} : call'[d] = call[d]
    BY <1>11 DEF SettleSent, Finished, Base, TypeOK
  <2>3. call'[c].routed = {} /\ call'[c].todo = {} /\ call'[c].now = NULL
    BY <1>11 DEF SettleSent, Finished, NoCall, Base, TypeOK
  <2>4. QED
    BY <1>1, <2>1, <2>2, <2>3 DEF Routes
<1>12. ASSUME NEW c \in Call, SenderEnds(c)
      PROVE  Routes'
  <2>1. sent' = sent /\ NULL \notin Session
    BY <1>12, ConstantsAssumption DEF SenderEnds, room, state, connector, agent
  <2>2. \A d \in Call \ {c} : call'[d] = call[d]
    BY <1>12 DEF SenderEnds, Finished, Base, TypeOK
  <2>3. call'[c].routed = {} /\ call'[c].todo = {} /\ call'[c].now = NULL
    BY <1>12 DEF SenderEnds, Finished, NoCall, Base, TypeOK
  <2>4. QED
    BY <1>1, <2>1, <2>2, <2>3 DEF Routes
<1>13. ASSUME NEW s \in Session, Fetch(s)
      PROVE  Routes'
  <2>1. sent' = sent /\ call' = call
    BY <1>13 DEF Fetch, room, state, connector, agent
  <2>2. QED
    BY <1>1, <2>1 DEF Routes
<1>14. ASSUME NEW s \in Session, Keep(s)
      PROVE  Routes'
  <2>1. sent' = sent /\ call' = call
    BY <1>14 DEF Keep, room, state, connector, agent
  <2>2. QED
    BY <1>1, <2>1 DEF Routes
<1>15. ASSUME NEW s \in Session, Tool(s)
      PROVE  Routes'
  <2>1. sent' = sent /\ call' = call
    BY <1>15 DEF Tool, room, state, connector, agent
  <2>2. QED
    BY <1>1, <2>1 DEF Routes
<1>16. ASSUME NEW s \in Session, HookPrint(s)
      PROVE  Routes'
  <2>1. sent' = sent /\ call' = call
    BY <1>16 DEF HookPrint, room, state, connector, agent
  <2>2. QED
    BY <1>1, <2>1 DEF Routes
<1>17. ASSUME NEW s \in Session, NEW ms \in receipts[s], Receipt(s, ms)
      PROVE  Routes'
  <2>1. sent' = sent /\ call' = call
    BY <1>17 DEF Receipt, room, state, connector, agent
  <2>2. QED
    BY <1>1, <2>1 DEF Routes
<1>18. ASSUME NEW s \in Session, NEW next \in 0..Head, Read(s, next)
      PROVE  Routes'
  <2>1. sent' = sent /\ call' = call
    BY <1>18 DEF Read, room, state, connector, agent
  <2>2. QED
    BY <1>1, <2>1 DEF Routes
<1>19. ASSUME NEW s \in Session, NEW m \in Message, Answer(s, m)
      PROVE  Routes'
  <2>1. sent' = sent /\ call' = call
    BY <1>19 DEF Answer, room, state, connector, agent
  <2>2. QED
    BY <1>1, <2>1 DEF Routes
<1>20. ASSUME NEW m \in Message, Expire(m)
      PROVE  Routes'
  <2>1. sent' = sent /\ call' = call
    BY <1>20 DEF Expire, room, state, connector, agent
  <2>2. QED
    BY <1>1, <2>1 DEF Routes
<1>21. CASE UNCHANGED vars
  <2>1. sent' = sent /\ call' = call
    BY <1>21 DEF vars, room, state, connector, agent
  <2>2. QED
    BY <1>1, <2>1 DEF Routes
<1>22. QED
  BY <1>2, <1>3, <1>4, <1>5, <1>6, <1>7, <1>8, <1>9, <1>10, <1>11, <1>12, <1>13, <1>14, <1>15, <1>16, <1>17, <1>18, <1>19, <1>20, <1>21 DEF Next, SendStep, AgentStep

\* Every step keeps to the named in what it hands over.
LEMMA NextPages ==
  ASSUME Base, Holders, Routes, Pages, [Next]_vars
  PROVE  Pages'
<1>1. \A m \in Message, s \in Session : May(m, s) => May(m, s)'
  BY MayStays
<1>2. ASSUME NEW s \in Session, NEW role \in BOOLEAN, NEW status \in {"working", "done"}, Declare(s, role, status)
      PROVE  Pages'
  <2>1. told' = told /\ page' = page /\ fetch' = fetch
    BY <1>2 DEF Declare, room, state, connector, agent
  <2>2. QED
    BY <1>1, <2>1 DEF Pages
<1>3. ASSUME NEW s \in Session, AgentEnds(s)
      PROVE  Pages'
  <2>1. \A t \in Session : page'[t] = page[t] \/ page'[t] = {} \/ (fetch[t] # NULL /\ page'[t] = fetch[t])
    BY <1>3 DEF AgentEnds, Base, TypeOK, room, state, connector, agent
  <2>2. \A t \in Session : fetch'[t] = fetch[t] \/ fetch'[t] = NULL
    BY <1>3 DEF AgentEnds, Base, TypeOK, room, state, connector, agent
  <2>3. \A t \in Session : \/ told'[t] = told[t] \/ told'[t] \subseteq told[t] \cup page[t]
                            \/ (fetch[t] # NULL /\ told'[t] \subseteq told[t] \cup fetch[t])
    BY <1>3 DEF AgentEnds, Base, TypeOK, room, state, connector, agent
  <2>4. QED
    BY <1>1, <2>1, <2>2, <2>3 DEF Pages
<1>4. ASSUME NEW s \in Session, AgentResumes(s)
      PROVE  Pages'
  <2>1. told' = told /\ page' = page /\ fetch' = fetch
    BY <1>4 DEF AgentResumes, room, state, connector, agent
  <2>2. QED
    BY <1>1, <2>1 DEF Pages
<1>5. ASSUME NEW c \in Call, NEW m \in Message, Prepare(c, m)
      PROVE  Pages'
  <2>1. told' = told /\ page' = page /\ fetch' = fetch
    BY <1>5 DEF Prepare, room, state, connector, agent
  <2>2. QED
    BY <1>1, <2>1 DEF Pages
<1>6. ASSUME NEW c \in Call, Append(c)
      PROVE  Pages'
  <2>1. told' = told /\ page' = page /\ fetch' = fetch
    BY <1>6 DEF Append, room, state, connector, agent
  <2>2. QED
    BY <1>1, <2>1 DEF Pages
<1>7. ASSUME NEW c \in Call, Resolve(c)
      PROVE  Pages'
  <2>1. told' = told /\ page' = page /\ fetch' = fetch
    BY <1>7 DEF Resolve, room, state, connector, agent
  <2>2. QED
    BY <1>1, <2>1 DEF Pages
<1>8. ASSUME NEW c \in Call, NEW s \in Session, Push(c, s)
      PROVE  Pages'
  <2>1. told' = told /\ page' = page /\ fetch' = fetch
    BY <1>8 DEF Push, room, state, connector, agent
  <2>2. QED
    BY <1>1, <2>1 DEF Pages
<1>9. ASSUME NEW c \in Call, Land(c)
      PROVE  Pages'
  <2>1. page' = page /\ fetch' = fetch
    BY <1>9 DEF Land, room, state, connector, agent
  <2>2. call[c].msg \in Message /\ call[c].now \in Session
    BY <1>9, CallFields DEF Land
  <2>3. May(call[c].msg, call[c].now)
    BY <2>2 DEF Routes
  <2>4. \A t \in Session : told'[t] = told[t] \/ (t = call[c].now /\ told'[t] = told[t] \cup {call[c].msg})
    BY <1>9, <2>2 DEF Land, Base, TypeOK
  <2>5. QED
    BY <1>1, <2>1, <2>3, <2>4 DEF Pages
<1>10. ASSUME NEW c \in Call, PushEnds(c)
      PROVE  Pages'
  <2>1. told' = told /\ page' = page /\ fetch' = fetch
    BY <1>10 DEF PushEnds, room, state, connector, agent
  <2>2. QED
    BY <1>1, <2>1 DEF Pages
<1>11. ASSUME NEW c \in Call, SettleSent(c)
      PROVE  Pages'
  <2>1. told' = told /\ page' = page /\ fetch' = fetch
    BY <1>11 DEF SettleSent, room, state, connector, agent
  <2>2. QED
    BY <1>1, <2>1 DEF Pages
<1>12. ASSUME NEW c \in Call, SenderEnds(c)
      PROVE  Pages'
  <2>1. told' = told /\ page' = page /\ fetch' = fetch
    BY <1>12 DEF SenderEnds, room, state, connector, agent
  <2>2. QED
    BY <1>1, <2>1 DEF Pages
<1>13. ASSUME NEW s \in Session, Fetch(s)
      PROVE  Pages'
  <2>1. told' = told /\ page' = page
    BY <1>13 DEF Fetch, room, state, connector, agent
  <2>2. \A m \in Pending(s) : m \in Message /\ May(m, s)
    BY PendingSelects, NamesMay
  <2>3. fetch'[s] = Pending(s) /\ \A t \in Session \ {s} : fetch'[t] = fetch[t]
    BY <1>13 DEF Fetch, Base, TypeOK
  <2>4. QED
    BY <1>1, <2>1, <2>2, <2>3 DEF Pages
<1>14. ASSUME NEW s \in Session, Keep(s)
      PROVE  Pages'
  <2>1. \A t \in Session : page'[t] = page[t] \/ page'[t] = {} \/ (fetch[t] # NULL /\ page'[t] = fetch[t])
    BY <1>14 DEF Keep, Base, TypeOK, room, state, connector, agent
  <2>2. \A t \in Session : fetch'[t] = fetch[t] \/ fetch'[t] = NULL
    BY <1>14 DEF Keep, Base, TypeOK, room, state, connector, agent
  <2>3. \A t \in Session : \/ told'[t] = told[t] \/ told'[t] \subseteq told[t] \cup page[t]
                            \/ (fetch[t] # NULL /\ told'[t] \subseteq told[t] \cup fetch[t])
    BY <1>14 DEF Keep, Base, TypeOK, room, state, connector, agent
  <2>4. QED
    BY <1>1, <2>1, <2>2, <2>3 DEF Pages
<1>15. ASSUME NEW s \in Session, Tool(s)
      PROVE  Pages'
  <2>1. \A t \in Session : page'[t] = page[t] \/ page'[t] = {} \/ (fetch[t] # NULL /\ page'[t] = fetch[t])
    BY <1>15 DEF Tool, Given, Base, TypeOK, room, state, connector, agent
  <2>2. \A t \in Session : fetch'[t] = fetch[t] \/ fetch'[t] = NULL
    BY <1>15 DEF Tool, Given, Base, TypeOK, room, state, connector, agent
  <2>3. \A t \in Session : \/ told'[t] = told[t] \/ told'[t] \subseteq told[t] \cup page[t]
                            \/ (fetch[t] # NULL /\ told'[t] \subseteq told[t] \cup fetch[t])
    BY <1>15 DEF Tool, Given, Base, TypeOK, room, state, connector, agent
  <2>4. QED
    BY <1>1, <2>1, <2>2, <2>3 DEF Pages
<1>16. ASSUME NEW s \in Session, HookPrint(s)
      PROVE  Pages'
  <2>1. \A t \in Session : page'[t] = page[t] \/ page'[t] = {} \/ (fetch[t] # NULL /\ page'[t] = fetch[t])
    BY <1>16 DEF HookPrint, Given, Base, TypeOK, room, state, connector, agent
  <2>2. \A t \in Session : fetch'[t] = fetch[t] \/ fetch'[t] = NULL
    BY <1>16 DEF HookPrint, Given, Base, TypeOK, room, state, connector, agent
  <2>3. \A t \in Session : \/ told'[t] = told[t] \/ told'[t] \subseteq told[t] \cup page[t]
                            \/ (fetch[t] # NULL /\ told'[t] \subseteq told[t] \cup fetch[t])
    BY <1>16 DEF HookPrint, Given, Base, TypeOK, room, state, connector, agent
  <2>4. QED
    BY <1>1, <2>1, <2>2, <2>3 DEF Pages
<1>17. ASSUME NEW s \in Session, NEW ms \in receipts[s], Receipt(s, ms)
      PROVE  Pages'
  <2>1. told' = told /\ page' = page /\ fetch' = fetch
    BY <1>17 DEF Receipt, room, state, connector, agent
  <2>2. QED
    BY <1>1, <2>1 DEF Pages
<1>18. ASSUME NEW s \in Session, NEW next \in 0..Head, Read(s, next)
      PROVE  Pages'
  <2>1. \A t \in Session : page'[t] = page[t] \/ page'[t] = {} \/ (fetch[t] # NULL /\ page'[t] = fetch[t])
    BY <1>18 DEF Read, Superseded, Base, TypeOK, room, state, connector, agent
  <2>2. \A t \in Session : fetch'[t] = fetch[t] \/ fetch'[t] = NULL
    BY <1>18 DEF Read, Superseded, Base, TypeOK, room, state, connector, agent
  <2>3. \A t \in Session : \/ told'[t] = told[t] \/ told'[t] \subseteq told[t] \cup page[t]
                            \/ (fetch[t] # NULL /\ told'[t] \subseteq told[t] \cup fetch[t])
    BY <1>18 DEF Read, Superseded, Base, TypeOK, room, state, connector, agent
  <2>4. QED
    BY <1>1, <2>1, <2>2, <2>3 DEF Pages
<1>19. ASSUME NEW s \in Session, NEW m \in Message, Answer(s, m)
      PROVE  Pages'
  <2>1. \A t \in Session : page'[t] = page[t] \/ page'[t] = {} \/ (fetch[t] # NULL /\ page'[t] = fetch[t])
    BY <1>19 DEF Answer, Superseded, Base, TypeOK, room, state, connector, agent
  <2>2. \A t \in Session : fetch'[t] = fetch[t] \/ fetch'[t] = NULL
    BY <1>19 DEF Answer, Superseded, Base, TypeOK, room, state, connector, agent
  <2>3. \A t \in Session : \/ told'[t] = told[t] \/ told'[t] \subseteq told[t] \cup page[t]
                            \/ (fetch[t] # NULL /\ told'[t] \subseteq told[t] \cup fetch[t])
    BY <1>19 DEF Answer, Superseded, Base, TypeOK, room, state, connector, agent
  <2>4. QED
    BY <1>1, <2>1, <2>2, <2>3 DEF Pages
<1>20. ASSUME NEW m \in Message, Expire(m)
      PROVE  Pages'
  <2>1. told' = told /\ page' = page /\ fetch' = fetch
    BY <1>20 DEF Expire, room, state, connector, agent
  <2>2. QED
    BY <1>1, <2>1 DEF Pages
<1>21. CASE UNCHANGED vars
  <2>1. told' = told /\ page' = page /\ fetch' = fetch
    BY <1>21 DEF vars, room, state, connector, agent
  <2>2. QED
    BY <1>1, <2>1 DEF Pages
<1>22. QED
  BY <1>2, <1>3, <1>4, <1>5, <1>6, <1>7, <1>8, <1>9, <1>10, <1>11, <1>12, <1>13, <1>14, <1>15, <1>16, <1>17, <1>18, <1>19, <1>20, <1>21 DEF Next, SendStep, AgentStep

-----------------------------------------------------------------------------
(* The theorems *)

\* Every variable has its type, whatever the senders, connectors and hooks do.
THEOREM TypeCorrect == Spec => []TypeOK
<1>1. Init => Base
  BY InitBase
<1>2. Base /\ [Next]_vars => Base'
  BY NextBase
<1>3. Base => TypeOK
  BY DEF Base
<1>4. QED
  BY <1>1, <1>2, <1>3, PTL DEF Spec

\* A row that says delivered and a cursor that passed a message are never ahead of
\* what the agent was shown, on whichever channel.
THEOREM AlwaysShown == Spec => []AcknowledgedWasShown
<1>1. Init => Base /\ Shown
  <2>1. Init => Shown
    BY DEF Init, Shown
  <2>2. QED
    BY <2>1, InitBase
<1>2. Base /\ Shown /\ [Next]_vars => (Base /\ Shown)'
  BY NextBase, NextShown
<1>3. Base /\ Shown => AcknowledgedWasShown
  <2> SUFFICES ASSUME Base, Shown, NEW m \in Message, NEW s \in Session
               PROVE  /\ row[m][s] = "delivered" => m \in told[s]
                      /\ m \in Stored /\ sent[m].at <= cursor[s] => HasRead(m, s)
    BY DEF AcknowledgedWasShown
  <2>1. row[m][s] = "delivered" => m \in told[s]
    BY DEF Shown
  <2>2. m \in Stored => sent[m].at \in Nat
    BY DEF Stored, Base, TypeOK, Sent
  <2>3. cursor[s] \in Nat /\ pos[s] \in Nat /\ cursor[s] <= pos[s]
    BY DEF Base, TypeOK, Shown
  <2>4. QED
    BY <2>1, <2>2, <2>3 DEF HasRead
<1>4. QED
  BY <1>1, <1>2, <1>3, PTL DEF Spec

\* A page fetched ahead never brings back what the agent has answered.
THEOREM AnsweredStaysQuiet == Spec => []AnsweredIsQuiet
<1>1. Init => Base /\ AnsweredIsQuiet
  <2>1. Init => AnsweredIsQuiet
    BY DEF Init, AnsweredIsQuiet
  <2>2. QED
    BY <2>1, InitBase
<1>2. Base /\ AnsweredIsQuiet /\ [Next]_vars => (Base /\ AnsweredIsQuiet)'
  BY NextBase, NextQuiet
<1>3. QED
  BY <1>1, <1>2, PTL DEF Spec

\* A message for a role or a known agent is neither settled nor expired before
\* somebody acknowledged it.
THEOREM WaitingAlwaysKept == Spec => []WaitingIsKept
<1>1. Init => Base /\ WaitingIsKept
  <2>1. Init => WaitingIsKept
    BY DEF Init, WaitingIsKept
  <2>2. QED
    BY <2>1, InitBase
<1>2. Base /\ WaitingIsKept /\ [Next]_vars => (Base /\ WaitingIsKept)'
  BY NextBase, NextKept
<1>3. QED
  BY <1>1, <1>2, PTL DEF Spec

\* By push, tool result or hook a message comes before nobody it does not name.
THEOREM OnlyNamedAreTold == Spec => []OnlyNamed
<1> DEFINE IInv == Base /\ Holders /\ Routes /\ Pages
<1>1. Init => IInv
  <2> SUFFICES ASSUME Init
               PROVE  IInv
    OBVIOUS
  <2>1. Holders
    BY DEF Init, Holders
  <2>2. NULL \notin Message
    BY ConstantsAssumption
  <2>3. Base
    BY InitBase
  <2>4. Routes
    <3>1. \A m \in Message : sent[m] = NULL
      BY DEF Init
    <3>2. \A c \in Call : call[c].msg = NULL
      BY DEF Init, NoCall
    <3>3. \A m \in Message, s \in Session : sent[m] \in Sent /\ s \in sent[m].routed => May(m, s)
      BY <3>1, ConstantsAssumption
    <3>4. QED
      BY <2>2, <3>2, <3>3 DEF Routes
  <2>5. Pages
    BY DEF Init, Pages
  <2>6. QED
    BY <2>1, <2>3, <2>4, <2>5
<1>2. IInv /\ [Next]_vars => IInv'
  BY NextBase, HeldStays, NextRoutes, NextPages
<1>3. IInv => OnlyNamed
  BY DEF Base, TypeOK, Pages, May, OnlyNamed
<1>4. QED
  BY <1>1, <1>2, <1>3, PTL DEF Spec
=============================================================================
