-------------------------- MODULE WorkshopDelivery --------------------------
(***************************************************************************)
(* A Workshop message on its way to the agents it names                    *)
(* (workshop_mailbox.py, workshop_live.py, native_agent_mcp.py and         *)
(* native_agent_hooks.py).  The store is one SQLite file that every        *)
(* process opens.  send() records the message, then a thread of the sender *)
(* pushes it into the recipients' running sessions.  Beside that, the      *)
(* connector of each agent polls pending(), hands the page over in the     *)
(* next tool result and writes a receipt; a session without a live door    *)
(* gets its page from its stop hook.  Nothing joins these channels but the *)
(* rows of workshop_live_deliveries.                                       *)
(*                                                                         *)
(* Left out: the rows under a bare name that only tell the sender what     *)
(* became of its send, projects, several addressees in one header, and     *)
(* names that discover_target() finds outside the declarations.            *)
(***************************************************************************)
EXTENDS Naturals, FiniteSets

CONSTANTS
  Session,      \* agent sessions, by sender_key
  Hooked,       \* those that only a stop hook reaches (Cursor)
  Reader,       \* those whose agents use read(), and not only what they are handed
  Role,         \* one registered role: a name that passes between sessions
  Header,       \* the names that messages are addressed to
  Message,      \* idempotency keys of sends
  Call,         \* threads that call send(), and again with the same key
  PageLimit,    \* the most messages in one page of pending(): 20 in the code
  MaxDeclares,  \* bound on declarations
  NULL

Name == Session \cup {Role}
Sent == [at : Nat, routed : SUBSET Session, keep : BOOLEAN]

ASSUME ConstantsAssumption ==
  /\ IsFiniteSet(Message)
  /\ Header \subseteq Name /\ Hooked \subseteq Session /\ Reader \subseteq Session /\ Role \notin Session
  /\ NULL \notin Message \cup Session /\ NULL \notin Sent
  /\ PageLimit \in Nat \ {0} /\ MaxDeclares \in Nat

VARIABLES
  decl,      \* workshop_declarations, with updated_at as a count; held is history
  running,   \* sessions whose processes live (_session_alive)
  to,        \* the header of each message
  sent,      \* messages: sequence, routing evidence; NULL before append
  gone,      \* messages that retention has deleted
  waiting,   \* workshop_waiting
  row,       \* workshop_live_deliveries by session
  cursor,    \* workshop_delivery_cursors
  answered,  \* replies, as <<message, session>>
  call,      \* send() under way
  fetch,     \* the page that refresh() or the stop hook was given
  page,      \* pages
  shown,     \* shown
  receipts,  \* pages handed over whose receipt is not written yet
  pos,       \* next_since, as the agent knows it
  told       \* what was put before the agent: pushed, attached or hooked

room == <<decl, running, to, gone>>
state == <<sent, waiting, row, cursor, answered>>
connector == <<fetch, page, shown, receipts>>
agent == <<pos, told>>
vars == <<room, state, call, connector, agent>>

State == {"none", "queued", "failed", "delivered"}

-----------------------------------------------------------------------------
(* Who a name stands for. *)

\* read_declarations: current
Up(s) == decl[s].status = "working" /\ s \in running

\* read_declarations: the current holder of the role is the one declared last.
Holds(s) ==
  /\ Up(s) /\ decl[s].role
  /\ \A t \in Session : Up(t) /\ decl[t].role => decl[t].at <= decl[s].at

\* A mutant of Names: whoever is current answers to the role.
NamesOfAny(s) == IF Up(s) THEN {s, Role} ELSE {s}

\* The holder answers to the role and to the sessions that held it before it.
Names(s) ==
  {s} \cup (IF Holds(s) THEN {Role} \cup {t \in Session : decl[t].role /\ ~Up(t)} ELSE {})

\* _recipient_rows
Recipients(n) == {s \in Session : Up(s) /\ n \in Names(s)}

\* The recipients noted at the send, as long as one of them is current.
Routed(m) ==
  IF \E s \in sent[m].routed : Up(s) THEN sent[m].routed ELSE Recipients(to[m])

\* _deliver_to and _can_ack
Entitled(m, s) == to[m] \in Names(s) /\ s \in Routed(m)

\* The sessions whose receipts count for s: a holder takes over its predecessors'.
Heirs(s) == Names(s) \cap Session

\* _acknowledged, in the table r
Acknowledged(r, heirs, m, s) ==
  (\E t \in heirs : r[m][t] = "delivered") \/ <<m, s>> \in answered

\* Whom the header names in the declarations read now, with their aliases.
NamedNow(m) == [s \in Session |-> IF s \in Recipients(to[m]) THEN Heirs(s) ELSE {}]

\* A mutant of Settles: an address with no current holder counts as served.
SettlesForNobody(r, named, m) ==
  \A s \in {t \in Session : named[t] # {}} : Acknowledged(r, named[s], m, s)

\* _settle_waiting, with the declarations that its caller read
Settles(r, named, m) ==
  LET holders == {s \in Session : named[s] # {}}
  IN holders # {} /\ \A s \in holders : Acknowledged(r, named[s], m, s)

Stored == {m \in Message : sent[m] # NULL /\ m \notin gone}
Head == Cardinality({m \in Message : sent[m] # NULL})

\* What pending() selects for s, and the page it returns.
Unacknowledged(s) ==
  {m \in Stored : /\ sent[m].at > cursor[s]
                  /\ Entitled(m, s)
                  /\ ~Acknowledged(row, Heirs(s), m, s)}
InPage(m, s) ==
  Cardinality({k \in Unacknowledged(s) : sent[k].at < sent[m].at}) < PageLimit
Pending(s) == {m \in Unacknowledged(s) : InPage(m, s)}

-----------------------------------------------------------------------------
NoCall == [at |-> "new", msg |-> NULL, routed |-> {}, keep |-> FALSE,
           todo |-> {}, now |-> NULL, named |-> [s \in Session |-> {}]]

Init ==
  /\ decl = [s \in Session |-> [status |-> "none", role |-> FALSE, held |-> FALSE, at |-> 0]]
  /\ running = Session
  /\ to \in [Message -> Header]
  /\ sent = [m \in Message |-> NULL]
  /\ gone = {} /\ waiting = {} /\ answered = {}
  /\ row = [m \in Message |-> [s \in Session |-> "none"]]
  /\ cursor = [s \in Session |-> 0]
  /\ call = [c \in Call |-> NoCall]
  /\ fetch = [s \in Session |-> NULL]
  /\ page = [s \in Session |-> {}]
  /\ shown = [s \in Session |-> {}]
  /\ receipts = [s \in Session |-> {}]
  /\ pos = [s \in Session |-> 0]
  /\ told = [s \in Session |-> {}]

-----------------------------------------------------------------------------
(* Sessions come and go. *)

\* _declare: a role is kept until another one is declared; updated_at is later than
\* any other.
Declare(s, role, status) ==
  /\ s \in running
  /\ \E n \in 1..MaxDeclares :
       /\ \A t \in Session : decl[t].at < n
       /\ n > 1 => \E t \in Session : decl[t].at = n - 1
       /\ decl' = [decl EXCEPT ![s] = [status |-> status, role |-> role,
                                       held |-> decl[s].held \/ role, at |-> n]]
  /\ UNCHANGED <<running, to, gone, state, call, connector, agent>>

\* A connector that ends takes its page, what it has shown and its receipts with it.
AgentEnds(s) ==
  /\ s \in running
  /\ running' = running \ {s}
  /\ fetch' = [fetch EXCEPT ![s] = NULL]
  /\ page' = [page EXCEPT ![s] = {}]
  /\ shown' = [shown EXCEPT ![s] = {}]
  /\ receipts' = [receipts EXCEPT ![s] = {}]
  /\ UNCHANGED <<decl, to, gone, state, call, agent>>

AgentResumes(s) ==
  /\ s \notin running
  /\ running' = running \cup {s}
  /\ UNCHANGED <<decl, to, gone, state, call, connector, agent>>

-----------------------------------------------------------------------------
(* send() *)

\* _send reads the declarations before its transaction.
Prepare(c, m) ==
  /\ call[c].at = "new" /\ m \notin gone
  /\ call' = [call EXCEPT ![c] = [NoCall EXCEPT
       !.at = "append", !.msg = m, !.routed = Recipients(to[m]),
       !.keep = to[m] = Role \/ decl[to[m]].status # "none"]]
  /\ UNCHANGED <<room, state, connector, agent>>

\* _send's transaction: a retry finds the message of its key.  What _send read has
\* served then.
Append(c) ==
  LET m == call[c].msg
  IN /\ call[c].at = "append" /\ m \notin gone
     /\ sent' = IF sent[m] # NULL THEN sent
                ELSE [sent EXCEPT ![m] = [at |-> Head + 1, routed |-> call[c].routed,
                                          keep |-> call[c].keep]]
     /\ waiting' = IF call[c].keep THEN waiting \cup {m} ELSE waiting
     /\ call' = [call EXCEPT ![c].at = "resolve", ![c].routed = {}, ![c].keep = FALSE]
     /\ UNCHANGED <<room, row, cursor, answered, connector, agent>>

Finished(c) == call' = [call EXCEPT ![c] = NoCall]

\* _sender_may_push says no, or nobody is there to push to; in _deliver_now also whom
\* to push to, and the declarations it will settle with.
Resolve(c) ==
  LET m == call[c].msg
  IN /\ call[c].at = "resolve" /\ m \notin gone
     /\ \/ Finished(c)
        \/ /\ Routed(m) # {}
           /\ call' = [call EXCEPT ![c].at = "push", ![c].todo = Routed(m),
                                   ![c].named = NamedNow(m)]
     /\ UNCHANGED <<room, state, connector, agent>>

\* A mutant of Recorded: the row says what the sender is told.
RecordedSent(m, s, st) ==
  row' = IF row[m][s] = "none" THEN [row EXCEPT ![m][s] = "sent"] ELSE row

\* INSERT OR IGNORE of a push's row.
Recorded(m, s, st) ==
  row' = IF row[m][s] = "none" THEN [row EXCEPT ![m][s] = st] ELSE row

\* deliver, up to push(): a session with a row is skipped, a hooked one is queued.
Push(c, s) ==
  LET m == call[c].msg
  IN /\ call[c].at = "push" /\ call[c].now = NULL /\ s \in call[c].todo
     /\ IF row[m][s] # "none" \/ s \in Hooked
          THEN /\ Recorded(m, s, "queued")
               /\ call' = [call EXCEPT ![c].todo = @ \ {s}]
          ELSE /\ call' = [call EXCEPT ![c].now = s]
               /\ UNCHANGED row
     /\ UNCHANGED <<room, sent, waiting, cursor, answered, connector, agent>>

\* The transport puts the text into the running session.
Land(c) ==
  LET s == call[c].now
  IN /\ s # NULL /\ s \in running
     /\ told' = [told EXCEPT ![s] = @ \cup {call[c].msg}]
     /\ UNCHANGED <<room, state, call, connector, pos>>

\* push() returns: delivered only if the text is there; failed may be wrong.
PushEnds(c) ==
  LET m == call[c].msg
      s == call[c].now
  IN /\ s # NULL
     /\ \/ m \in told[s] /\ Recorded(m, s, "delivered")
        \/ Recorded(m, s, "failed")
     /\ call' = [call EXCEPT ![c].now = NULL, ![c].todo = @ \ {s}]
     /\ UNCHANGED <<room, sent, waiting, cursor, answered, connector, agent>>

\* The end of _deliver_now settles with the declarations from before the pushes.
SettleSent(c) ==
  LET m == call[c].msg
  IN /\ call[c].at = "push" /\ call[c].todo = {}
     /\ waiting' = IF Settles(row, call[c].named, m) THEN waiting \ {m} ELSE waiting
     /\ Finished(c)
     /\ UNCHANGED <<room, sent, row, cursor, answered, connector, agent>>

\* The sender's process ends, and its daemon thread with it.
SenderEnds(c) ==
  /\ call[c].at # "new"
  /\ Finished(c)
  /\ UNCHANGED <<room, state, connector, agent>>

-----------------------------------------------------------------------------
(* The agent's side *)

\* _seen: the receipts of session s for the messages it is still entitled to.
Seen(s, ms) ==
  LET mine == {m \in ms \cap Stored : Entitled(m, s)}
      marked == [m \in Message |-> IF m \in mine THEN [row[m] EXCEPT ![s] = "delivered"] ELSE row[m]]
  IN /\ row' = marked
     /\ waiting' = waiting \ {m \in mine : Settles(marked, NamedNow(m), m)}

\* pending(), called by refresh() or by the stop hook of a session without a connector
Fetch(s) ==
  /\ s \in running /\ decl[s].status # "none" /\ fetch[s] = NULL
  /\ s \in Hooked => receipts[s] = {}
  /\ fetch' = [fetch EXCEPT ![s] = Pending(s)]
  /\ UNCHANGED <<room, state, call, page, shown, receipts, agent>>

\* refresh(): the page is kept.
Keep(s) ==
  /\ s \notin Hooked /\ fetch[s] # NULL
  /\ page' = [page EXCEPT ![s] = fetch[s]]
  /\ fetch' = [fetch EXCEPT ![s] = NULL]
  /\ UNCHANGED <<room, state, call, shown, receipts, agent>>

\* The page ms comes before the agent, and its receipt is to be written.
Given(s, ms) ==
  /\ told' = [told EXCEPT ![s] = @ \cup ms]
  /\ receipts' = IF ms = {} THEN receipts ELSE [receipts EXCEPT ![s] = @ \cup {ms}]

\* deliver_pending, for a tool other than read and send: what the page has and this
\* connector has not shown yet rides the result, and a thread writes the receipt.
Tool(s) ==
  LET fresh == page[s] \ shown[s]
  IN /\ s \in running /\ page[s] # {}
     /\ page' = [page EXCEPT ![s] = {}]
     /\ shown' = [shown EXCEPT ![s] = @ \cup fresh]
     /\ Given(s, fresh)
     /\ UNCHANGED <<room, state, call, fetch, pos>>

\* emit_cursor_hook: the output, and only then the receipt.
HookPrint(s) ==
  /\ s \in Hooked /\ fetch[s] # NULL
  /\ Given(s, fetch[s])
  /\ fetch' = [fetch EXCEPT ![s] = NULL]
  /\ UNCHANGED <<room, state, call, page, shown, pos>>

\* _record_seen, cursor_hook_finish: the receipt is written, or the store was busy.
Receipt(s, ms) ==
  /\ ms \in receipts[s]
  /\ receipts' = [receipts EXCEPT ![s] = @ \ {ms}]
  /\ (Seen(s, ms) \/ UNCHANGED <<row, waiting>>)
  /\ UNCHANGED <<room, sent, cursor, answered, call, fetch, page, shown, agent>>

\* A mutant of Superseded: no epoch, only the page in hand is dropped.
SupersededPage(s) ==
  page' = [page EXCEPT ![s] = {}] /\ UNCHANGED fetch

\* deliver_pending, for read and send: the page is dropped, and the new epoch makes
\* refresh() drop the one it is waiting for.
Superseded(s) ==
  /\ fetch' = IF s \in Hooked THEN fetch ELSE [fetch EXCEPT ![s] = NULL]
  /\ page' = [page EXCEPT ![s] = {}]

\* A mutant of ReadCursor: what is read now counts as received.
ReadCursorNext(since, next) == next

\* read_cursor
ReadCursor(since, next) == since

\* read(): a part of the room after since, which also says that the agent has what
\* came before.  The agent waits for the result, which arrives or is lost.
Read(s, next) ==
  LET since == pos[s]
  IN /\ s \in running \cap Reader
     /\ next \in since..Head
     /\ next = since => \A m \in Stored : sent[m].at <= since
     /\ cursor' = [cursor EXCEPT ![s] = IF @ < ReadCursor(since, next)
                                          THEN ReadCursor(since, next) ELSE @]
     /\ (pos' = [pos EXCEPT ![s] = next] \/ UNCHANGED pos)
     /\ Superseded(s)
     /\ UNCHANGED <<room, sent, waiting, row, answered, call, shown, receipts, told>>

HasRead(m, s) == sent[m].at <= pos[s]

\* send(reply_to): an answer acknowledges the message.
Answer(s, m) ==
  /\ s \in running
  /\ m \in Stored /\ (m \in told[s] \/ HasRead(m, s))
  /\ answered' = answered \cup {<<m, s>>}
  /\ Superseded(s)
  /\ UNCHANGED <<room, sent, waiting, row, cursor, call, shown, receipts, agent>>

\* _retain_messages: an old message goes unless it waits for its addressee.
Expirable(m) == m \in Stored /\ m \notin waiting

Expire(m) ==
  /\ Expirable(m)
  /\ gone' = gone \cup {m}
  /\ UNCHANGED <<decl, running, to, state, call, connector, agent>>

-----------------------------------------------------------------------------
SendStep(c) ==
  \/ \E m \in Message : Prepare(c, m)
  \/ Append(c) \/ Resolve(c)
  \/ \E s \in Session : Push(c, s)
  \/ Land(c) \/ PushEnds(c) \/ SettleSent(c) \/ SenderEnds(c)

AgentStep(s) ==
  \/ \E role \in BOOLEAN, status \in {"working", "done"} : Declare(s, role, status)
  \/ AgentEnds(s) \/ AgentResumes(s)
  \/ Fetch(s) \/ Keep(s) \/ Tool(s) \/ HookPrint(s)
  \/ \E ms \in receipts[s] : Receipt(s, ms)
  \/ \E next \in 0..Head : Read(s, next)
  \/ \E m \in Message : Answer(s, m)

Next == \/ \E c \in Call : SendStep(c)
        \/ \E s \in Session : AgentStep(s)
        \/ \E m \in Message : Expire(m)

Spec == Init /\ [][Next]_vars

-----------------------------------------------------------------------------
\* Every variable has its type.
TypeOK ==
  /\ decl \in [Session -> [status : {"none", "working", "done"}, role : BOOLEAN,
                       held : BOOLEAN, at : 0..MaxDeclares]]
  /\ running \subseteq Session /\ to \in [Message -> Name]
  /\ sent \in [Message -> {NULL} \cup Sent]
  /\ gone \subseteq Message /\ waiting \subseteq Message
  /\ row \in [Message -> [Session -> State]]
  /\ cursor \in [Session -> Nat] /\ answered \subseteq Message \X Session
  /\ call \in [Call -> [at : {"new", "append", "resolve", "push"},
                        msg : Message \cup {NULL}, routed : SUBSET Session, keep : BOOLEAN,
                        todo : SUBSET Session, now : Session \cup {NULL},
                        named : [Session -> SUBSET Session]]]
  /\ fetch \in [Session -> {NULL} \cup SUBSET Message]
  /\ page \in [Session -> SUBSET Message] /\ shown \in [Session -> SUBSET Message]
  /\ receipts \in [Session -> SUBSET SUBSET Message]
  /\ pos \in [Session -> Nat] /\ told \in [Session -> SUBSET Message]

\* An acknowledged message was put before the agent: a row that says delivered, on
\* whichever channel, and a cursor that passed the message, are never ahead of what
\* the agent was shown.
AcknowledgedWasShown ==
  \A m \in Message, s \in Session :
    /\ row[m][s] = "delivered" => m \in told[s]
    /\ m \in Stored /\ sent[m].at <= cursor[s] => HasRead(m, s)

\* What an agent has answered is not attached to its tool results again, although
\* pages are fetched ahead and in the background.
AnsweredIsQuiet ==
  \A s \in Session \ Hooked, m \in Message :
    <<m, s>> \in answered => m \notin page[s] /\ (fetch[s] # NULL => m \notin fetch[s])

\* "Keep a waiting address until every named holder has received it": a message for
\* a role or a known agent is neither settled nor expired before some session has
\* acknowledged or answered it.
WaitingIsKept ==
  \A m \in Message :
    sent[m] # NULL /\ sent[m].keep /\ (m \notin waiting \/ m \in gone)
      => \E s \in Session : row[m][s] = "delivered" \/ <<m, s>> \in answered

\* "Name one peer to deliver it to that agent only": by push, tool result or hook a
\* message comes before nobody but the session it names, a session that has held the
\* role it names, or one that has held the role of the session it names.
OnlyNamed ==
  \A s \in Session : \A m \in told[s] :
    \/ to[m] = s
    \/ decl[s].held /\ (to[m] = Role \/ decl[to[m]].held)
=============================================================================
