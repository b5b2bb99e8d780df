-------------------------- MODULE SessionDocuments --------------------------
(***************************************************************************)
(* One open .archhub file (canvas_documents.py, session_files.py) that the *)
(* founder's window (studio/api.js) and agent processes edit at the same   *)
(* time.  Edits hold the file's lock from their read to their write and    *)
(* stamp a new revision; the window keeps a copy, saves it against the     *)
(* revision it started from, and the server merges.  Two writers take no   *)
(* lock and stamp no revision: update_session of the workshop (and the     *)
(* refresh_steps of a poll, which is like it), and the founder's Save.     *)
(***************************************************************************)
EXTENDS Integers, Sequences, FiniteSets, Functions

CONSTANTS
  Graph,        \* ids of nodes and wires
  Title,        \* the title of the document
  Frame,        \* its viewport, groups and notes
  Value,        \* values of these
  Allowed,      \* which of them each can have; NULL: a node or wire may be absent
  NULL,         \* no item, no document, no request, no lock holder
  Agent,        \* agent processes
  Fetch, Last,  \* bound: saves of a page and of pages that end, in flight at once
  Poll,         \* bound: polls of the window in flight at once
  Opened,       \* the content before the first edit
  Kept,         \* snapshots remember() keeps
  MaxRevision,  \* bound: no write starts at this revision
  MaxGesture    \* bound: gestures in the window

Item == Graph \cup {Title} \cup Frame
Content == {c \in [Item -> Value \cup {NULL}] : \A n \in Item : c[n] \in Allowed[n]}
Request == Fetch \cup Last
Part == {u \in UNION {[N -> Value \cup {NULL}] : N \in SUBSET Item} : \A n \in DOMAIN u : u[n] \in Allowed[n]}
Entry == [revision : Nat, op : {"edit", "undo"}, undo : Part]
File == [nodes : Content, revision : Nat, history : Seq(Entry)]

\* The window: its document, whose revision is sessionRevision; what gestures
\* changed since it took that document (localDirty: something); whether the
\* autosave timer runs; document.hidden.
Win == [doc : File, mine : SUBSET Item, queued : BOOLEAN, hidden : BOOLEAN]

\* A save: who awaits it, what it carries, and the file it read, then wrote.
Save == [at : {"sent", "read", "saved", "write", "written"}, by : {"timer", "founder", "nobody"},
         doc : File, base : Nat, mine : SUBSET Item, file : File \cup {NULL}]
PollFile == [head : Nat, doc : File \cup {NULL}]

ASSUME DocumentAssumption ==
  /\ Kept \in Nat \ {0} /\ MaxRevision \in Nat /\ MaxGesture \in Nat
  /\ NULL \notin Value \cup Agent \cup Request \cup File \cup Content \cup Win \cup Save \cup PollFile
  /\ Allowed \in [Item -> SUBSET (Value \cup {NULL})]
  /\ \A n \in Item : NULL \in Allowed[n] => n \in Graph
  /\ Agent \cap Request = {} /\ Title \notin Graph /\ Graph \cap Frame = {}
  /\ Opened \in Content

VARIABLES
  file,      \* the file on disk: its content, revision and history
  lock,      \* who holds locked(path)
  hand,      \* what each process read, while it is between read and write
  snaps,     \* _SNAPSHOTS: content by revision, lost with the application
  win,       \* the founder's window
  save,      \* its saves: one is awaited (fileWrites), others outlive a page
  poll,      \* its pollFile calls, from the head they got to the document
  gestures,  \* how many gestures the window has seen
  past,      \* history: the content every revision was written with
  wild       \* history: a writer without the lock has written

vars == <<file, lock, hand, snaps, win, save, poll, gestures, past, wild>>

Init ==
  /\ file = [nodes |-> Opened, revision |-> 0, history |-> <<>>]
  /\ lock = NULL
  /\ hand = [p \in Agent |-> NULL]
  /\ snaps = <<>>
  /\ win = NULL
  /\ save = [r \in Request |-> NULL] /\ poll = [q \in Poll |-> NULL]
  /\ gestures = 0 /\ wild = FALSE
  /\ past = [r \in {0} |-> file.nodes]

-----------------------------------------------------------------------------
\* The nodes and wires an edit changed, with their values before it, and the
\* title before it.  The frame is not recorded.
Differ(c, d) == {n \in Graph : c[n] # d[n]}
UndoOfAfter(before, after) == Restrict(after, Differ(before, after) \cup {Title})
UndoOf(before, after) == Restrict(before, Differ(before, after) \cup {Title})

\* canvas_documents._stamp: the history is the one of the file that was read.
Stamped(before, nodes, op) ==
  LET r == before.revision + 1
  IN [nodes |-> nodes, revision |-> r,
      history |-> Append(before.history,
                    [revision |-> r, op |-> op, undo |-> UndoOf(before.nodes, nodes)])]

\* write_document replaces the whole file.
Write(f) ==
  /\ file' = f
  /\ past' = IF wild THEN past ELSE [x \in DOMAIN past \cup {f.revision} |->
                IF x = f.revision THEN f.nodes ELSE past[x]]

\* undo_last puts back nodes and wires, and leaves the title as it is.
UndonePresent(u, c) == [n \in Item |-> IF n \in DOMAIN u \cap Graph /\ c[n] # NULL THEN u[n] ELSE c[n]]
Undone(u, c) == [n \in Item |-> IF n \in DOMAIN u \cap Graph THEN u[n] ELSE c[n]]

\* held[revision] = document, and all but the newest Kept are dropped.
NewestAndOneMore(R) == {r \in R : Cardinality({s \in R : s > r}) <= Kept}
Newest(R) == {r \in R : Cardinality({s \in R : s > r}) < Kept}
Remember(f) ==
  LET all == [r \in DOMAIN snaps \cup {f.revision} |->
                IF r = f.revision THEN f.nodes ELSE snaps[r]]
  IN snaps' = Restrict(all, Newest(DOMAIN all))

Held(r) == IF r \in DOMAIN snaps THEN snaps[r] ELSE NULL

\* The three-way merge.  Without a base every item of ours counts as changed
\* by us, and none as removed.
Touched(base, ours) ==
  {n \in Item : IF base = NULL THEN ours[n] # NULL ELSE ours[n] # base[n]}
Merge(base, ours, theirs) ==
  [n \in Item |-> IF n \in Touched(base, ours) THEN ours[n] ELSE theirs[n]]

-----------------------------------------------------------------------------
\* Bound: nothing more begins after a write beside the lock, as the properties
\* are about the files without one.
Calm == ~wild

\* locked(path) waits for whoever holds the file.
FreeOrNot == TRUE
Free == lock = NULL

\* Agents: edit() and undo_last().
BeginEdit(p) ==
  /\ hand[p] = NULL /\ Free /\ file.revision < MaxRevision /\ Calm
  /\ lock' = p
  /\ hand' = [hand EXCEPT ![p] = file]
  /\ UNCHANGED <<file, snaps, win, save, poll, gestures, past, wild>>

Unlock(p) == lock' = NULL /\ hand' = [hand EXCEPT ![p] = NULL]

\* An edit that changes nothing, or raises, writes nothing.
EndEdit(p) ==
  /\ lock = p
  /\ \/ UNCHANGED <<file, past>>
     \/ \E n \in Item : \E v \in Allowed[n] :
          /\ hand[p].nodes[n] # v
          /\ Write(Stamped(hand[p], [hand[p].nodes EXCEPT ![n] = v], "edit"))
  /\ Unlock(p)
  /\ UNCHANGED <<snaps, win, save, poll, gestures, wild>>

\* The newest entry that is no undo.  Its mark "undo:" is set on the edited
\* document, and _stamp copies the history of the file that was read.
Edits(h) == {i \in DOMAIN h : h[i].op # "undo"}
Latest(h) == {i \in Edits(h) : \A j \in Edits(h) : j <= i}
EndUndo(p) ==
  /\ lock = p
  /\ \E i \in Latest(hand[p].history) :
       Write(Stamped(hand[p], Undone(hand[p].history[i].undo, hand[p].nodes), "undo"))
  /\ Unlock(p)
  /\ UNCHANGED <<snaps, win, save, poll, gestures, wild>>

\* update_session reads the file and writes it back, beside the lock.
BeginUpdate(p) ==
  /\ hand[p] = NULL /\ file.revision < MaxRevision /\ Calm
  /\ hand' = [hand EXCEPT ![p] = file]
  /\ UNCHANGED <<file, lock, snaps, win, save, poll, gestures, past, wild>>

EndUpdate(p) ==
  /\ hand[p] # NULL /\ lock # p
  /\ \E n \in Graph : \E v \in Allowed[n] \ {NULL} : file' = [hand[p] EXCEPT !.nodes[n] = v]
  /\ hand' = [hand EXCEPT ![p] = NULL]
  /\ wild' = TRUE
  /\ UNCHANGED <<lock, snaps, win, save, poll, gestures, past>>

\* The process dies; the system gives its lock back.
Die(p) ==
  /\ hand[p] # NULL
  /\ hand' = [hand EXCEPT ![p] = NULL]
  /\ lock' = IF lock = p THEN NULL ELSE lock
  /\ UNCHANGED <<file, snaps, win, save, poll, gestures, past, wild>>

-----------------------------------------------------------------------------
(***************************************************************************)
(* The window.  adoptFile queues a save of the document it opened; open    *)
(* itself does not remember() what it served.                              *)
(***************************************************************************)
Open == win # NULL
Dirty == win.mine # {}
Idle(r) == save[r] = NULL

\* fileWrites: the window's next save waits for the one before it.
Chained == \A r \in Request : save[r] # NULL => save[r].by = "nobody"

OpenFile ==
  /\ ~Open /\ Calm
  /\ win' = [doc |-> file, mine |-> {}, queued |-> TRUE, hidden |-> FALSE]
  /\ UNCHANGED <<file, lock, hand, snaps, save, poll, gestures, past, wild>>

Gesture ==
  /\ Open /\ gestures < MaxGesture /\ Calm
  /\ \E n \in Item : \E v \in Allowed[n] :
       /\ win.doc.nodes[n] # v
       /\ win' = [win EXCEPT !.doc.nodes[n] = v, !.mine = @ \cup {n}, !.queued = TRUE]
  /\ gestures' = gestures + 1
  /\ UNCHANGED <<file, lock, hand, snaps, save, poll, past, wild>>

\* The page goes to the background, or comes back.
Turn ==
  /\ Open /\ Calm
  /\ win' = [win EXCEPT !.hidden = ~@]
  /\ UNCHANGED <<file, lock, hand, snaps, save, poll, gestures, past, wild>>

Sent(by, base) ==
  [at |-> "sent", by |-> by, doc |-> win.doc, base |-> base, mine |-> win.mine, file |-> NULL]

\* saveNow sends the document and its revision, when the timer is due ...
SendSave(r) ==
  /\ Open /\ win.queued /\ Idle(r) /\ Chained
  /\ save' = [save EXCEPT ![r] = Sent("timer", win.doc.revision)]
  /\ win' = [win EXCEPT !.queued = FALSE]
  /\ UNCHANGED <<file, lock, hand, snaps, poll, gestures, past, wild>>

\* ... or at once, when the founder saves.
SaveSession(r) ==
  /\ Open /\ Idle(r) /\ Chained /\ Calm
  /\ save' = [save EXCEPT ![r] = Sent("founder", win.doc.revision)]
  /\ win' = [win EXCEPT !.queued = FALSE]
  /\ UNCHANGED <<file, lock, hand, snaps, poll, gestures, past, wild>>

\* pagehide: a last save, which names no base revision (0) and no one awaits.
\* What is at the server stays there; replies find no page.
Left(s) == IF s = NULL \/ s.at \in {"saved", "written"} THEN NULL ELSE [s EXCEPT !.by = "nobody"]
CloseWindow(r) ==
  /\ Open /\ Idle(r)
  /\ save' = [x \in Request |-> IF x = r THEN Sent("nobody", 0) ELSE Left(save[x])]
  /\ win' = NULL
  /\ poll' = [q \in Poll |-> NULL]
  /\ UNCHANGED <<file, lock, hand, snaps, gestures, past, wild>>

At(r, at) == save[r] # NULL /\ save[r].at = at

\* commit_ui takes the lock and reads the file ...
BeginCommit(r) ==
  /\ At(r, "sent") /\ Free /\ file.revision < MaxRevision /\ Calm
  /\ lock' = r
  /\ save' = [save EXCEPT ![r].at = "read", ![r].file = file]
  /\ UNCHANGED <<file, hand, snaps, win, poll, gestures, past, wild>>

\* The server has done what a save asks for; its reply is for an open page.
Answered(r, at, f) ==
  save' = [save EXCEPT ![r] = IF @.by = "nobody" THEN NULL ELSE [@ EXCEPT !.at = at, !.file = f]]

\* ... merges with what came since the base, writes and remembers.
Committed(s) ==
  LET ours == s.doc.nodes
      nodes == IF s.file.revision = s.base THEN ours ELSE Merge(Held(s.base), ours, s.file.nodes)
  IN IF nodes = s.file.nodes THEN s.file ELSE Stamped(s.file, nodes, "edit")
EndCommit(r) ==
  /\ At(r, "read")
  /\ LET f == Committed(save[r])
     IN /\ IF f = save[r].file THEN UNCHANGED <<file, past>> ELSE Write(f)
        /\ Remember(f)
        /\ Answered(r, "saved", f)
  /\ lock' = NULL
  /\ UNCHANGED <<hand, win, poll, gestures, wild>>

\* The reply, unless a gesture came meanwhile: the window takes the merged
\* document if its nodes or wires are not the ones sent, else only its
\* properties, and with them the revision.
AdoptedRevision(s) == [s.file EXCEPT !.nodes = s.doc.nodes]
Adopted(s) ==
  IF \E n \in Graph : s.file.nodes[n] # s.doc.nodes[n] THEN s.file
  ELSE [s.file EXCEPT !.nodes = s.doc.nodes]
\* A founder's Save goes on with the window's document as it is then.
Saved(r) ==
  /\ At(r, "saved")
  /\ LET s == save[r]
         w == IF win.doc = s.doc THEN [win EXCEPT !.doc = Adopted(s), !.mine = {}] ELSE win
     IN /\ win' = w
        /\ save' = [save EXCEPT ![r] =
                      IF s.by = "founder" THEN [s EXCEPT !.at = "write", !.doc = w.doc] ELSE NULL]
  /\ UNCHANGED <<file, lock, hand, snaps, poll, gestures, past, wild>>

\* The founder's Save replaces the file, beside the lock, with the window's
\* document, and queues an autosave when it is done.
ServeWrite(r) ==
  /\ At(r, "write")
  /\ file' = save[r].doc
  /\ Remember(save[r].doc)
  /\ Answered(r, "written", save[r].doc)
  /\ wild' = TRUE
  /\ UNCHANGED <<lock, hand, win, poll, gestures, past>>

Written(r) ==
  /\ At(r, "written")
  /\ win' = [win EXCEPT !.queued = TRUE]
  /\ save' = [save EXCEPT ![r] = NULL]
  /\ UNCHANGED <<file, lock, hand, snaps, poll, gestures, past, wild>>

\* The save raises (another editor holds the file), or its reply is lost.
SaveFails(r) ==
  /\ save[r] # NULL /\ save[r].at # "read"
  /\ save' = [save EXCEPT ![r] = NULL]
  /\ UNCHANGED <<file, lock, hand, snaps, win, poll, gestures, past, wild>>

\* pollFile: head, then read, then adopt.  A hidden page begins none, a dirty
\* one goes on with none, and the timer does not wait for the poll before.
PollHead(q) ==
  /\ Open /\ poll[q] = NULL /\ ~Dirty /\ ~win.hidden
  /\ Remember(file)
  /\ poll' = [poll EXCEPT ![q] = [head |-> file.revision, doc |-> NULL]]
  /\ UNCHANGED <<file, lock, hand, win, save, gestures, past, wild>>

AheadByTwo(x) == x > win.doc.revision + 1
Ahead(x) == x > win.doc.revision
PollRead(q) ==
  /\ poll[q] # NULL /\ poll[q].doc = NULL
  /\ IF ~Dirty /\ Ahead(poll[q].head)
     THEN Remember(file) /\ poll' = [poll EXCEPT ![q].doc = file]
     ELSE poll' = [poll EXCEPT ![q] = NULL] /\ UNCHANGED snaps
  /\ UNCHANGED <<file, lock, hand, win, save, gestures, past, wild>>

PollAdopt(q) ==
  /\ poll[q] # NULL /\ poll[q].doc # NULL
  /\ win' = IF ~Dirty THEN [win EXCEPT !.doc = poll[q].doc] ELSE win
  /\ poll' = [poll EXCEPT ![q] = NULL]
  /\ UNCHANGED <<file, lock, hand, snaps, save, gestures, past, wild>>

\* The application ends: its window, its snapshots and its requests with it.
Restart ==
  /\ win' = NULL
  /\ snaps' = <<>>
  /\ save' = [r \in Request |-> NULL] /\ poll' = [q \in Poll |-> NULL]
  /\ lock' = IF lock \in Request THEN NULL ELSE lock
  /\ UNCHANGED <<file, hand, gestures, past, wild>>

AgentStep(p) == BeginEdit(p) \/ EndEdit(p) \/ EndUndo(p) \/ BeginUpdate(p) \/ EndUpdate(p) \/ Die(p)
WindowStep ==
  \/ OpenFile \/ Gesture \/ Turn
  \/ \E r \in Fetch : SendSave(r) \/ SaveSession(r)
  \/ \E r \in Last : CloseWindow(r)
SaveStep(r) ==
  \/ BeginCommit(r) \/ EndCommit(r)
  \/ Saved(r) \/ ServeWrite(r) \/ Written(r) \/ SaveFails(r)
PollStep(q) == PollHead(q) \/ PollRead(q) \/ PollAdopt(q)
Next ==
  \/ \E p \in Agent : AgentStep(p)
  \/ WindowStep
  \/ \E r \in Request : SaveStep(r)
  \/ \E q \in Poll : PollStep(q)
  \/ Restart

Spec == Init /\ [][Next]_vars

(***************************************************************************)
(* Fairness: timers and requests of an open window run; a save that waits  *)
(* for the lock gets it or gives up (TimeoutError); an edit ends.  A page  *)
(* is polled only while it is shown, so nothing makes it come back.        *)
(***************************************************************************)
Fairness ==
  /\ WF_vars(\E r \in Fetch : SendSave(r))
  /\ \A r \in Request : /\ WF_vars(BeginCommit(r) \/ SaveFails(r)) /\ WF_vars(EndCommit(r))
                        /\ WF_vars(Saved(r)) /\ WF_vars(ServeWrite(r)) /\ WF_vars(Written(r))
  /\ WF_vars(\E q \in Poll : PollHead(q))
  /\ \A q \in Poll : WF_vars(PollRead(q)) /\ WF_vars(PollAdopt(q))
  /\ \A p \in Agent : WF_vars(EndEdit(p))
FairSpec == Spec /\ Fairness

-----------------------------------------------------------------------------
\* Every variable has its type.
TypeOK ==
  /\ file \in File
  /\ lock \in Agent \cup Request \cup {NULL}
  /\ hand \in [Agent -> File \cup {NULL}]
  /\ DOMAIN snaps \subseteq Nat /\ Cardinality(DOMAIN snaps) <= Kept
  /\ \A x \in DOMAIN snaps : snaps[x] \in Content
  /\ win \in Win \cup {NULL}
  /\ save \in [Request -> Save \cup {NULL}]
  /\ poll \in [Poll -> PollFile \cup {NULL}]
  /\ gestures \in 0..MaxGesture /\ wild \in BOOLEAN

\* "One writer per file across the app and every agent process": what the
\* holder of the lock read is what its write will replace.
LockedCopyIsCurrent ==
  ~wild => /\ \A p \in Agent : lock = p => hand[p] = file
           /\ \A r \in Request : At(r, "read") => save[r].file = file

\* The history undoes the file: each entry leads from its revision back to the
\* one before, whoever wrote the two, in every node and wire and in the title.
HistoryUndoes ==
  ~wild => \A i \in DOMAIN file.history :
    LET e == file.history[i]
    IN \A n \in Graph \cup {Title} :
         past[e.revision - 1][n] = IF n \in DOMAIN e.undo THEN e.undo[n] ELSE past[e.revision][n]

\* An undo right after an edit brings back the nodes and wires from before that
\* edit, whoever made the two.
UndoRestores ==
  LET h == file.history
      k == Len(h)
  IN (~wild /\ k >= 2 /\ h[k].op = "undo" /\ h[k-1].op = "edit")
     => \A n \in Graph : file.nodes[n] = past[file.revision - 2][n]

\* What a save leaves alone: the nodes and wires no gesture of its window has
\* changed since the window took the document it sends.
Keeps(s) == \A n \in Graph \ s.mine : file'.nodes[n] = file.nodes[n]
Commits(r) == At(r, "read") /\ ~At(r, "read")' /\ ~wild

\* What a window's save did not change stays as the agents left it, if the
\* server still has the base it names.
MergeKeepsTheirs ==
  [][\A r \in Request :
       (/\ Commits(r)
        /\ save[r].base = save[r].doc.revision
        /\ save[r].base = file.revision \/ save[r].base \in DOMAIN snaps) => Keeps(save[r])]_vars

\* What merge's docstring says: the other editor's changes survive ours.
TheirsSurvive == [][\A r \in Request : Commits(r) => Keeps(save[r])]_vars

\* An open page that is shown catches up with the file, in its revision and in
\* the nodes and wires its founder has not changed, unless a save has failed
\* and nothing has been queued since: then it stays dirty and deaf.
Deaf == Open /\ Dirty /\ ~win.queued /\ Chained
Stale == ~wild /\ \E n \in Graph \ win.mine : win.doc.nodes[n] # file.nodes[n]
Behind == Open /\ (win.doc.revision < file.revision \/ Stale)
WindowCatchesUp == Behind ~> (~Behind \/ Deaf \/ win.hidden)
=============================================================================
