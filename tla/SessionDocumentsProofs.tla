----------------------- MODULE SessionDocumentsProofs -----------------------
(***************************************************************************)
(* Theorems about SessionDocuments, for any items, values, agents, number  *)
(* of requests, snapshots and revisions: what locked() and the merge give  *)
(* the editors of a file while nobody writes beside it.                    *)
(***************************************************************************)
EXTENDS SessionDocuments, SequenceTheorems, FiniteSetTheorems, TLAPS

-----------------------------------------------------------------------------
(* The inductive invariant. *)

\* The lock's holder has a copy of the file in hand; a save that has read the
\* file holds the lock.
LockShape ==
  /\ hand \in [Agent -> File \cup {NULL}]
  /\ lock \in Agent \cup Request \cup {NULL} /\ wild \in BOOLEAN
  /\ \A r \in Request : At(r, "read") => lock = r
  /\ \A p \in Agent : lock = p => hand[p] # NULL

\* The window and its requests carry what they saw; what somebody awaits is
\* awaited by an open page.
Awaited(r) == save[r] # NULL /\ save[r].by # "nobody"
Reading ==
  /\ win \in Win \cup {NULL}
  /\ save \in [Request -> Save \cup {NULL}]
  /\ poll \in [Poll -> PollFile \cup {NULL}]
  /\ \A r \in Request : At(r, "read") \/ At(r, "saved") => save[r].file \in File
  /\ \A r \in Request : At(r, "saved") \/ At(r, "written") => Awaited(r)
  /\ \A r \in Request : Awaited(r) => Open
  /\ \A q \in Poll : poll[q] # NULL => Open

\* A copy of the file is the revision it names, in the nodes and wires outside M.
Mirrors(f, M) == f.revision \in DOMAIN past /\ \A n \in Graph \ M : f.nodes[n] = past[f.revision][n]

\* The window's document and the ones its saves carry are copies but for the
\* founder's gestures; what the server gives back is a copy.
CopiesArePast ==
  ~wild =>
    /\ Open => Mirrors(win.doc, win.mine)
    /\ \A r \in Request : At(r, "sent") \/ At(r, "read") => Mirrors(save[r].doc, save[r].mine)
    /\ \A r \in Request : At(r, "saved") => Mirrors(save[r].file, {})
    /\ \A q \in Poll : poll[q] # NULL /\ poll[q].doc # NULL => Mirrors(poll[q].doc, {})

\* Revision r is entry r of the history, and past has every revision.
PastIsKept ==
  ~wild =>
    /\ DOMAIN past = 0..file.revision /\ past[file.revision] = file.nodes
    /\ \A r \in DOMAIN past : past[r] \in Content
    /\ Len(file.history) = file.revision
    /\ \A i \in DOMAIN file.history : file.history[i].revision = i

\* A snapshot is the revision it is kept under.
SnapsArePast ==
  /\ DOMAIN snaps \subseteq Nat
  /\ \A r \in DOMAIN snaps : snaps[r] \in Content
  /\ ~wild => \A r \in DOMAIN snaps : r \in DOMAIN past /\ snaps[r] = past[r]

IInv ==
  /\ file \in File /\ LockShape /\ Reading /\ PastIsKept /\ SnapsArePast /\ CopiesArePast
  /\ LockedCopyIsCurrent /\ HistoryUndoes /\ UndoRestores

-----------------------------------------------------------------------------
(* What a write does. *)

\* _stamp makes a file of a file.
LEMMA StampedType ==
  ASSUME NEW f \in File, NEW c \in Content, NEW op \in {"edit", "undo"}
  PROVE  /\ Stamped(f, c, op) \in File
         /\ Stamped(f, c, op).nodes = c /\ Stamped(f, c, op).revision = f.revision + 1
         /\ Stamped(f, c, op).history =
              Append(f.history, [revision |-> f.revision + 1, op |-> op, undo |-> UndoOf(f.nodes, c)])
<1>1. f.nodes \in Content /\ f.revision \in Nat /\ f.history \in Seq(Entry)
  BY DEF File
<1> DEFINE N == Differ(f.nodes, c) \cup {Title}
<1>2. /\ N \in SUBSET Item /\ UndoOf(f.nodes, c) \in [N -> Value \cup {NULL}]
      /\ \A n \in N : UndoOf(f.nodes, c)[n] \in Allowed[n]
  BY <1>1 DEF UndoOf, Restrict, Differ, Content, Item
<1>3. UndoOf(f.nodes, c) \in Part
  BY <1>2 DEF Part
<1> DEFINE e == [revision |-> f.revision + 1, op |-> op, undo |-> UndoOf(f.nodes, c)]
<1>4. e \in Entry
  BY <1>1, <1>3 DEF Entry
<1>5. Append(f.history, e) \in Seq(Entry)
  BY <1>1, <1>4, AppendProperties
<1> QED BY <1>1, <1>5 DEF Stamped, File

\* Undoing an entry gives a content.
LEMMA UndoneType ==
  ASSUME NEW c \in Content, NEW e \in Entry
  PROVE  Undone(e.undo, c) \in Content
<1>1. e.undo \in Part
  BY DEF Entry
<1>2. PICK N \in SUBSET Item : e.undo \in [N -> Value \cup {NULL}]
  BY <1>1 DEF Part
<1>3. \A n \in N : e.undo[n] \in Allowed[n]
  BY <1>1, <1>2 DEF Part
<1> QED BY <1>2, <1>3 DEF Undone, Content

\* A merge gives a content, whatever its base.
LEMMA MergeType ==
  ASSUME NEW base, NEW c \in Content, NEW d \in Content
  PROVE  Merge(base, c, d) \in Content
BY DEF Merge, Content

\* A stamped write of what the lock's holder read extends the past, and its entry
\* leads back.
LEMMA StampedPast ==
  ASSUME IInv, ~wild, UNCHANGED wild, NEW c \in Content, NEW op \in {"edit", "undo"},
         Write(Stamped(file, c, op)),
         (op = "undo" /\ file.revision >= 1 /\ file.history[file.revision].op = "edit")
           => \A n \in Graph : c[n] = past[file.revision - 1][n]
  PROVE  PastIsKept' /\ HistoryUndoes' /\ UndoRestores'
         /\ (\A r \in DOMAIN past : r \in DOMAIN past' /\ past'[r] = past[r])
<1> DEFINE r == file.revision
           h == file.history
           e == [revision |-> r + 1, op |-> op, undo |-> UndoOf(file.nodes, c)]
<1>1. /\ file.nodes \in Content /\ r \in Nat /\ h \in Seq(Entry)
      /\ DOMAIN past = 0..r /\ past[r] = file.nodes
      /\ \A x \in 0..r : past[x] \in Content
      /\ Len(h) = r /\ \A i \in DOMAIN h : h[i].revision = i
  BY DEF IInv, File, PastIsKept
<1>2. file'.nodes = c /\ file'.revision = r + 1 /\ file'.history = Append(h, e)
  BY StampedType DEF IInv, Write
<1>3. /\ DOMAIN past' = 0..(r + 1) /\ past'[r + 1] = c
      /\ \A x \in 0..r : past'[x] = past[x]
  <2>1. past' = [x \in DOMAIN past \cup {r + 1} |-> IF x = r + 1 THEN c ELSE past[x]]
    BY StampedType DEF IInv, Write
  <2> QED BY <1>1, <2>1
<1>4. /\ DOMAIN file'.history = 1..(r + 1) /\ Len(file'.history) = r + 1
      /\ \A i \in 1..r : file'.history[i] = h[i]
      /\ file'.history[r + 1] = e
  <2>1. Len(Append(h, e)) = Len(h) + 1 /\ \A i \in 1..Len(h) : Append(h, e)[i] = h[i]
    BY <1>1
  <2>2. Append(h, e)[Len(h) + 1] = e
    BY <1>1
  <2>3. DOMAIN Append(h, e) = 1..(Len(h) + 1)
    BY <1>1
  <2> QED BY <1>1, <1>2, <2>1, <2>2, <2>3
<1>5. DOMAIN h = 1..r
  BY <1>1, LenProperties
<1>6. PastIsKept'
  BY <1>1, <1>2, <1>3, <1>4, <1>5 DEF PastIsKept
<1>7. HistoryUndoes'
  <2> SUFFICES ASSUME NEW i \in 1..(r + 1), NEW n \in Graph \cup {Title}
               PROVE  past'[file'.history[i].revision - 1][n] =
                        IF n \in DOMAIN file'.history[i].undo THEN file'.history[i].undo[n]
                        ELSE past'[file'.history[i].revision][n]
    BY <1>4 DEF HistoryUndoes
  <2>1. CASE i \in 1..r
    <3>1. /\ h[i].revision = i
          /\ past[i - 1][n] = IF n \in DOMAIN h[i].undo THEN h[i].undo[n] ELSE past[i][n]
      <4>1. i \in DOMAIN h
        BY <1>5, <2>1
      <4>2. h[i].revision = i
        BY <1>1, <4>1
      <4>3. HistoryUndoes
        BY DEF IInv
      <4>4. past[h[i].revision - 1][n] =
              IF n \in DOMAIN h[i].undo THEN h[i].undo[n] ELSE past[h[i].revision][n]
        BY <4>1, <4>3 DEF HistoryUndoes
      <4> QED BY <4>2, <4>4
    <3>2. past'[i - 1] = past[i - 1] /\ past'[i] = past[i]
      BY <1>1, <1>3, <2>1
    <3> QED BY <1>4, <2>1, <3>1, <3>2
  <2>2. CASE i = r + 1
    <3>1. e.revision = r + 1 /\ e.undo = [x \in Differ(file.nodes, c) \cup {Title} |-> file.nodes[x]]
      BY DEF UndoOf, Restrict
    <3>2. past'[r] = file.nodes /\ past'[r + 1] = c
      BY <1>1, <1>3
    <3>3. (r + 1) - 1 = r
      BY <1>1
    <3> HIDE DEF e
    <3>4. file'.history[i] = e
      BY <1>4, <2>2
    <3> QED BY <3>1, <3>2, <3>3, <3>4 DEF Differ
  <2> QED BY <1>1, <2>1, <2>2
<1>8. UndoRestores'
  <2> SUFFICES ASSUME r + 1 >= 2, e.op = "undo", h[r].op = "edit"
               PROVE  \A n \in Graph : c[n] = past'[r - 1][n]
    <3>1. (r + 1) - 1 = r /\ (r + 1) - 2 = r - 1 /\ (r + 1 >= 2 => r \in 1..r)
      BY <1>1
    <3> QED BY <1>2, <1>4, <3>1 DEF UndoRestores
  <2>1. (\A n \in Graph : c[n] = past[r - 1][n]) /\ r - 1 \in 0..r
    BY <1>1
  <2> QED BY <1>3, <2>1
<1> QED BY <1>1, <1>3, <1>6, <1>7, <1>8

\* Nothing is written.
LEMMA FileKept ==
  ASSUME IInv, UNCHANGED <<file, past>>, wild' = wild
  PROVE  file' \in File /\ PastIsKept' /\ HistoryUndoes' /\ UndoRestores'
BY DEF IInv, PastIsKept, HistoryUndoes, UndoRestores

\* The past only grows.
Grows == \A x \in DOMAIN past : x \in DOMAIN past' /\ past'[x] = past[x]

\* remember() keeps what was read or written.
LEMMA RememberPast ==
  ASSUME SnapsArePast, NEW f \in File, Remember(f),
         ~wild' => ~wild /\ Grows /\ f.revision \in DOMAIN past' /\ past'[f.revision] = f.nodes
  PROVE  SnapsArePast'
<1> DEFINE all == [r \in DOMAIN snaps \cup {f.revision} |->
                     IF r = f.revision THEN f.nodes ELSE snaps[r]]
<1>1. f.nodes \in Content /\ f.revision \in Nat
  BY DEF File
<1>2. DOMAIN all \subseteq Nat /\ \A r \in DOMAIN all : all[r] \in Content
  BY <1>1 DEF SnapsArePast
<1>3. ~wild' => \A r \in DOMAIN all : r \in DOMAIN past' /\ all[r] = past'[r]
  BY DEF SnapsArePast, Grows
<1>4. Newest(DOMAIN all) \subseteq DOMAIN all
  BY DEF Newest
<1>5. snaps' = Restrict(all, Newest(DOMAIN all))
  BY DEF Remember
<1> HIDE DEF all
<1>6. DOMAIN snaps' \subseteq DOMAIN all /\ \A r \in DOMAIN snaps' : snaps'[r] = all[r]
  BY <1>4, <1>5 DEF Restrict
<1> QED BY <1>2, <1>3, <1>6 DEF SnapsArePast

\* The window's copies stay copies while only the past grows.
LEMMA CopiesKept ==
  ASSUME IInv, UNCHANGED <<win, save, poll>>, wild' = wild, ~wild => Grows
  PROVE  CopiesArePast'
BY DEF IInv, CopiesArePast, Mirrors, Grows, Open, At

-----------------------------------------------------------------------------
(* The agents. *)

\* An agent's step leaves the window, the saves and the snapshots alone.
LEMMA AgentFrame ==
  ASSUME IInv, NEW p \in Agent, AgentStep(p)
  PROVE  UNCHANGED <<snaps, win, save, poll>> /\ Reading'
<1>1. UNCHANGED <<snaps, win, save, poll>>
  BY DEF AgentStep, BeginEdit, EndEdit, EndUndo, BeginUpdate, EndUpdate, Die
<1> QED BY <1>1 DEF IInv, Reading, At, Awaited, Open

\* edit() and undo_last() begin: the lock is taken and the file read under it.
LEMMA BeginEditKeeps ==
  ASSUME IInv, NEW p \in Agent, BeginEdit(p)
  PROVE  IInv'
<1>1. /\ lock = NULL /\ lock' = p /\ hand' = [hand EXCEPT ![p] = file]
      /\ UNCHANGED <<file, past, wild, snaps, win, save, poll>>
  BY DEF BeginEdit, Free
<1>2. file \in File /\ file # NULL /\ hand \in [Agent -> File \cup {NULL}] /\ NULL \notin Request
  BY DocumentAssumption DEF IInv, LockShape
<1>3. \A r \in Request : ~At(r, "read")
  BY <1>1, <1>2 DEF IInv, LockShape
<1>4. \A r \in Request : ~At(r, "read")'
  BY <1>1, <1>3 DEF At
<1>5. LockShape' /\ LockedCopyIsCurrent'
  BY <1>1, <1>2, <1>4 DEF IInv, LockShape, LockedCopyIsCurrent
<1>6. SnapsArePast' /\ CopiesArePast'
  BY <1>1, CopiesKept DEF IInv, SnapsArePast, Grows
<1> QED BY <1>1, <1>5, <1>6, FileKept, AgentFrame DEF AgentStep, IInv

\* The lock is given back after a stamped write, or after none.
LEMMA UnlockKeeps ==
  ASSUME IInv, NEW p \in Agent, lock = p, Unlock(p), UNCHANGED wild, UNCHANGED <<snaps, win, save, poll>>,
         Reading', file' \in File, PastIsKept', HistoryUndoes', UndoRestores', ~wild => Grows
  PROVE  IInv'
<1>1. NULL \notin Agent /\ hand \in [Agent -> File \cup {NULL}] /\ p \notin Request
  BY DocumentAssumption DEF IInv, LockShape
<1>2. \A r \in Request : ~At(r, "read")
  BY <1>1 DEF IInv, LockShape
<1>3. \A r \in Request : ~At(r, "read")'
  BY <1>2 DEF At
<1>4. LockShape' /\ LockedCopyIsCurrent'
  BY <1>1, <1>3 DEF IInv, LockShape, LockedCopyIsCurrent, Unlock
<1>5. SnapsArePast' /\ CopiesArePast'
  BY CopiesKept DEF IInv, SnapsArePast, LockShape, Grows
<1> QED BY <1>4, <1>5 DEF IInv

\* A stamped write by the agent that holds the lock.
LEMMA AgentWrites ==
  ASSUME IInv, NEW p \in Agent, lock = p, AgentStep(p), Unlock(p), UNCHANGED wild,
         NEW c \in Content, NEW op \in {"edit", "undo"}, Write(Stamped(hand[p], c, op)),
         (~wild /\ op = "undo" /\ file.revision >= 1 /\ file.history[file.revision].op = "edit")
           => \A n \in Graph : c[n] = past[file.revision - 1][n]
  PROVE  IInv'
<1>1. hand[p] \in File /\ wild \in BOOLEAN /\ (~wild => hand[p] = file)
  BY DEF IInv, LockShape, LockedCopyIsCurrent
<1>2. file' \in File
  BY <1>1, StampedType DEF Write
<1>3. CASE wild
  BY <1>2, <1>3, AgentFrame, UnlockKeeps DEF PastIsKept, HistoryUndoes, UndoRestores
<1>4. CASE ~wild
  <2>1. Write(Stamped(file, c, op))
    BY <1>1, <1>4
  <2>2. PastIsKept' /\ HistoryUndoes' /\ UndoRestores' /\ Grows
    BY <1>4, <2>1, StampedPast DEF Grows
  <2> QED BY <1>2, <2>2, AgentFrame, UnlockKeeps
<1> QED BY <1>3, <1>4

\* edit() ends with one stamped write, or with none.
LEMMA EndEditKeeps ==
  ASSUME IInv, NEW p \in Agent, EndEdit(p)
  PROVE  IInv'
<1>1. lock = p /\ Unlock(p) /\ UNCHANGED wild /\ AgentStep(p)
  BY DEF EndEdit, AgentStep
<1>2. CASE UNCHANGED <<file, past>>
  BY <1>1, <1>2, FileKept, AgentFrame, UnlockKeeps DEF Grows
<1>3. ASSUME NEW n \in Item, NEW v \in Allowed[n],
             Write(Stamped(hand[p], [hand[p].nodes EXCEPT ![n] = v], "edit"))
      PROVE  IInv'
  <2>1. hand[p] \in File
    BY <1>1 DEF IInv, LockShape
  <2>2. [hand[p].nodes EXCEPT ![n] = v] \in Content
    BY <2>1, DocumentAssumption DEF File, Content
  <2> QED BY <1>1, <1>3, <2>2, AgentWrites
<1> QED BY <1>2, <1>3 DEF EndEdit

\* The undo of the newest entry brings back the nodes and wires before it.
LEMMA UndoIsPast ==
  ASSUME IInv, ~wild, NEW i \in Latest(file.history), file.revision >= 1,
         file.history[file.revision].op = "edit"
  PROVE  \A n \in Graph : Undone(file.history[i].undo, file.nodes)[n] = past[file.revision - 1][n]
<1> DEFINE r == file.revision
           h == file.history
<1>1. /\ r \in Nat /\ h \in Seq(Entry) /\ Len(h) = r
      /\ past[r] = file.nodes /\ \A x \in 0..r : past[x] \in Content
      /\ \A x \in DOMAIN h : h[x].revision = x
  BY DEF IInv, File, PastIsKept
<1>2. DOMAIN h = 1..r
  BY <1>1, LenProperties
<1>3. r \in Edits(h)
  BY <1>1, <1>2 DEF Edits
<1>4. i = r
  BY <1>1, <1>2, <1>3 DEF Latest, Edits
<1>5. \A n \in Graph : past[r - 1][n] = IF n \in DOMAIN h[r].undo THEN h[r].undo[n] ELSE past[r][n]
  BY <1>1, <1>2 DEF IInv, HistoryUndoes
<1> QED BY <1>1, <1>4, <1>5 DEF Undone, Item

\* undo_last() ends with a stamped write of the undone content.
LEMMA EndUndoKeeps ==
  ASSUME IInv, NEW p \in Agent, EndUndo(p)
  PROVE  IInv'
<1>1. lock = p /\ Unlock(p) /\ UNCHANGED wild /\ AgentStep(p)
  BY DEF EndUndo, AgentStep
<1>2. PICK i \in Latest(hand[p].history) :
        Write(Stamped(hand[p], Undone(hand[p].history[i].undo, hand[p].nodes), "undo"))
  BY DEF EndUndo
<1> DEFINE c == Undone(hand[p].history[i].undo, hand[p].nodes)
<1>3. hand[p] \in File /\ (~wild => hand[p] = file)
  BY <1>1 DEF IInv, LockShape, LockedCopyIsCurrent
<1>4. c \in Content
  <2>1. hand[p].history \in Seq(Entry) /\ hand[p].nodes \in Content /\ i \in DOMAIN hand[p].history
    BY <1>3 DEF File, Latest, Edits
  <2>2. hand[p].history[i] \in Entry
    BY <2>1, ElementOfSeq, LenProperties
  <2> QED BY <2>1, <2>2, UndoneType
<1>5. (~wild /\ file.revision >= 1 /\ file.history[file.revision].op = "edit")
        => \A n \in Graph : c[n] = past[file.revision - 1][n]
  BY <1>3, UndoIsPast
<1> HIDE DEF c
<1>6. Write(Stamped(hand[p], c, "undo"))
  BY <1>2 DEF c
<1> QED BY <1>1, <1>4, <1>5, <1>6, AgentWrites

\* update_session, beside the lock, and a process that dies.
LEMMA UpdateKeeps ==
  ASSUME IInv, NEW p \in Agent, BeginUpdate(p) \/ EndUpdate(p) \/ Die(p)
  PROVE  IInv'
<1>1. UNCHANGED <<snaps, win, save, poll, past>> /\ Reading'
  BY AgentFrame DEF AgentStep, BeginUpdate, EndUpdate, Die
<1>2. /\ hand \in [Agent -> File \cup {NULL}] /\ file \in File /\ file # NULL
      /\ wild \in BOOLEAN /\ NULL \notin Agent /\ p \notin Request /\ NULL \notin Request
  BY DocumentAssumption DEF IInv, LockShape
<1>3. \A r \in Request : At(r, "read")' <=> At(r, "read")
  BY <1>1 DEF At
<1>4. wild' = wild => CopiesArePast'
  BY <1>1, CopiesKept DEF Grows
<1>5. CASE BeginUpdate(p)
  <2>1. hand[p] = NULL /\ hand' = [hand EXCEPT ![p] = file] /\ UNCHANGED <<file, lock, wild>>
    BY <1>5 DEF BeginUpdate
  <2>2. lock # p
    BY <1>2, <2>1 DEF IInv, LockShape
  <2>3. LockShape' /\ LockedCopyIsCurrent'
    BY <1>1, <1>2, <1>3, <2>1, <2>2 DEF IInv, LockShape, LockedCopyIsCurrent
  <2>4. SnapsArePast'
    BY <1>1, <2>1 DEF IInv, SnapsArePast
  <2> QED BY <1>1, <1>4, <2>1, <2>3, <2>4, FileKept DEF IInv
<1>6. CASE EndUpdate(p)
  <2>1. /\ hand[p] \in File /\ hand' = [hand EXCEPT ![p] = NULL] /\ lock # p /\ UNCHANGED lock
        /\ wild' = TRUE
    BY <1>2, <1>6 DEF EndUpdate
  <2>2. PICK n \in Graph : \E v \in Allowed[n] \ {NULL} : file' = [hand[p] EXCEPT !.nodes[n] = v]
    BY <1>6 DEF EndUpdate
  <2>3. file' \in File
    BY <2>1, <2>2, DocumentAssumption DEF File, Content, Item
  <2>4. LockShape'
    BY <1>1, <1>2, <1>3, <2>1 DEF IInv, LockShape
  <2>5. SnapsArePast'
    BY <1>1, <2>1 DEF IInv, SnapsArePast
  <2> QED BY <1>1, <2>1, <2>3, <2>4, <2>5 DEF IInv, PastIsKept, CopiesArePast, LockedCopyIsCurrent,
                                              HistoryUndoes, UndoRestores
<1>7. CASE Die(p)
  <2>1. /\ hand' = [hand EXCEPT ![p] = NULL] /\ lock' = (IF lock = p THEN NULL ELSE lock)
        /\ UNCHANGED <<file, wild>>
    BY <1>7 DEF Die
  <2>2. LockShape' /\ LockedCopyIsCurrent'
    BY <1>1, <1>2, <1>3, <2>1 DEF IInv, LockShape, LockedCopyIsCurrent
  <2>3. SnapsArePast'
    BY <1>1, <2>1 DEF IInv, SnapsArePast
  <2> QED BY <1>1, <1>4, <2>1, <2>2, <2>3, FileKept DEF IInv
<1> QED BY <1>5, <1>6, <1>7

-----------------------------------------------------------------------------
(* The window. *)

\* Mirrors in the next state.
MirrorsNext(f, M) == f.revision \in DOMAIN past' /\ \A n \in Graph \ M : f.nodes[n] = past'[f.revision][n]

\* The file that is read is a copy of itself.
LEMMA FileMirrors ==
  ASSUME IInv, ~wild, UNCHANGED past, NEW M
  PROVE  MirrorsNext(file, M)
BY DEF IInv, PastIsKept, File, MirrorsNext

\* Only the window changes.
LEMMA WinMoves ==
  ASSUME IInv, UNCHANGED <<save, poll, past, wild>>, win' \in Win \cup {NULL}, win' = NULL => win = NULL,
         ~wild /\ win' # NULL => MirrorsNext(win'.doc, win'.mine)
  PROVE  Reading' /\ CopiesArePast'
<1>1. Reading'
  BY DEF IInv, Reading, At, Awaited, Open
<1>2. CopiesArePast'
  BY DEF IInv, CopiesArePast, Mirrors, MirrorsNext, At, Open
<1> QED BY <1>1, <1>2

\* One save changes, and with it perhaps the window.
LEMMA SaveMoves ==
  ASSUME IInv, NEW r \in Request, NEW s \in Save \cup {NULL}, save' = [save EXCEPT ![r] = s], UNCHANGED poll,
         win' \in Win \cup {NULL}, win' = NULL => win = NULL,
         s # NULL => /\ s.at \in {"read", "saved"} => s.file \in File
                     /\ s.at \in {"saved", "written"} => s.by # "nobody"
                     /\ s.by # "nobody" => win' # NULL
  PROVE  Reading'
<1>1. save' \in [Request -> Save \cup {NULL}] /\ save'[r] = s
      /\ \A x \in Request : x # r => save'[x] = save[x]
  BY DEF IInv, Reading
<1>2. \A x \in Request : At(x, "read")' \/ At(x, "saved")' => save'[x].file \in File
  BY <1>1 DEF IInv, Reading, At
<1>3. \A x \in Request : At(x, "saved")' \/ At(x, "written")' => Awaited(x)'
  BY <1>1 DEF IInv, Reading, At, Awaited
<1>4. \A x \in Request : Awaited(x)' => Open'
  BY <1>1 DEF IInv, Reading, Awaited, Open
<1>5. \A q \in Poll : poll'[q] # NULL => Open'
  BY DEF IInv, Reading, Open
<1> QED BY <1>1, <1>2, <1>3, <1>4, <1>5 DEF IInv, Reading

\* And it is a copy if what changes is one.
LEMMA SaveCopies ==
  ASSUME IInv, NEW r \in Request, NEW s \in Save \cup {NULL}, save' = [save EXCEPT ![r] = s],
         UNCHANGED <<poll, wild>>, ~wild => Grows,
         ~wild /\ win' # NULL => MirrorsNext(win'.doc, win'.mine),
         ~wild /\ s # NULL => /\ s.at \in {"sent", "read"} => MirrorsNext(s.doc, s.mine)
                              /\ s.at = "saved" => MirrorsNext(s.file, {})
  PROVE  CopiesArePast'
<1> SUFFICES ASSUME ~wild PROVE CopiesArePast'
  BY DEF CopiesArePast
<1>1. save'[r] = s /\ \A x \in Request : x # r => save'[x] = save[x]
  BY DEF IInv, Reading
<1>2. \A x \in Request : At(x, "sent")' \/ At(x, "read")' => MirrorsNext(save'[x].doc, save'[x].mine)
  BY <1>1 DEF IInv, CopiesArePast, Mirrors, MirrorsNext, Grows, At
<1>3. \A x \in Request : At(x, "saved")' => MirrorsNext(save'[x].file, {})
  BY <1>1 DEF IInv, CopiesArePast, Mirrors, MirrorsNext, Grows, At
<1>4. \A q \in Poll : poll'[q] # NULL /\ poll'[q].doc # NULL => MirrorsNext(poll'[q].doc, {})
  BY DEF IInv, CopiesArePast, Mirrors, MirrorsNext, Grows
<1> QED BY <1>2, <1>3, <1>4 DEF CopiesArePast, Mirrors, MirrorsNext, Open

\* The window's own steps write nothing; two of them remember the file.
LEMMA WindowKeeps ==
  ASSUME IInv, UNCHANGED <<file, lock, hand, past, wild>>,
         UNCHANGED snaps \/ Remember(file), Reading', CopiesArePast',
         \A r \in Request : At(r, "read")' => At(r, "read") /\ save'[r] = save[r]
  PROVE  IInv'
<1>1. file \in File /\ wild \in BOOLEAN /\ SnapsArePast
  BY DEF IInv, LockShape
<1>2. LockShape' /\ LockedCopyIsCurrent'
  BY DEF IInv, LockShape, LockedCopyIsCurrent
<1>3. SnapsArePast'
  <2>1. CASE UNCHANGED snaps
    BY <1>1, <2>1 DEF SnapsArePast
  <2>2. CASE Remember(file)
    <3>1. ~wild => file.revision \in DOMAIN past /\ past[file.revision] = file.nodes
      BY DEF IInv, PastIsKept, File
    <3> QED BY <1>1, <2>2, <3>1, RememberPast DEF Grows
  <2> QED BY <2>1, <2>2
<1> QED BY <1>2, <1>3, FileKept DEF IInv

\* Opening the file, a gesture, and a page that is hidden or shown.
LEMMA PageKeeps ==
  ASSUME IInv, OpenFile \/ Gesture \/ Turn
  PROVE  IInv'
<1>1. /\ UNCHANGED <<file, lock, hand, snaps, save, poll, past, wild>>
      /\ file \in File /\ wild \in BOOLEAN /\ win \in Win \cup {NULL}
      /\ \A r \in Request : At(r, "read")' => At(r, "read") /\ save'[r] = save[r]
  BY DEF OpenFile, Gesture, Turn, IInv, LockShape, Reading, At
<1>2. ~wild /\ Open => MirrorsNext(win.doc, win.mine)
  BY <1>1 DEF IInv, CopiesArePast, Mirrors, MirrorsNext
<1>3. CASE OpenFile
  <2>1. win' \in Win /\ win'.doc = file
    BY <1>1, <1>3 DEF OpenFile, Win
  <2>2. ~wild => MirrorsNext(win'.doc, win'.mine)
    BY <1>1, <2>1, FileMirrors
  <2>3. win = NULL
    BY <1>3 DEF OpenFile, Open
  <2> QED BY <1>1, <2>1, <2>2, <2>3, WinMoves, WindowKeeps
<1>4. CASE Gesture
  <2>1. win \in Win /\ Open
    BY <1>1, <1>4 DEF Gesture, Open
  <2>2. PICK n \in Item : \E v \in Allowed[n] :
          win' = [win EXCEPT !.doc.nodes[n] = v, !.mine = @ \cup {n}, !.queued = TRUE]
    BY <1>4 DEF Gesture
  <2>3. PICK v \in Allowed[n] :
          win' = [win EXCEPT !.doc.nodes[n] = v, !.mine = @ \cup {n}, !.queued = TRUE]
    BY <2>2
  <2>4. win.doc \in File /\ win.doc.nodes \in Content /\ win.mine \in SUBSET Item
    BY <2>1 DEF Win, File
  <2>5. [win.doc.nodes EXCEPT ![n] = v] \in Content
    BY <2>4, DocumentAssumption DEF Content
  <2>6. [win.doc EXCEPT !.nodes[n] = v] \in File
    BY <2>4, <2>5 DEF File
  <2>7. win' = [win EXCEPT !.doc = [win.doc EXCEPT !.nodes[n] = v], !.mine = win.mine \cup {n}, !.queued = TRUE]
    BY <2>1, <2>3 DEF Win
  <2>8. win' \in Win
    BY <2>1, <2>4, <2>6, <2>7 DEF Win
  <2>9. /\ win'.doc.revision = win.doc.revision /\ win'.mine = win.mine \cup {n}
        /\ \A x \in Item : x # n => win'.doc.nodes[x] = win.doc.nodes[x]
    BY <2>1, <2>3, <2>4 DEF Win, File, Content
  <2>10. ~wild => MirrorsNext(win'.doc, win'.mine)
    BY <1>2, <2>1, <2>9 DEF MirrorsNext, Item
  <2>11. win' # NULL
    BY <2>8, DocumentAssumption
  <2> QED BY <1>1, <2>8, <2>10, <2>11, WinMoves, WindowKeeps
<1>5. CASE Turn
  <2>1. win \in Win /\ Open /\ win' = [win EXCEPT !.hidden = ~win.hidden]
    BY <1>1, <1>5 DEF Turn, Open
  <2>2. win' \in Win /\ win'.doc = win.doc /\ win'.mine = win.mine
    BY <2>1 DEF Win
  <2>3. win' # NULL
    BY <2>2, DocumentAssumption
  <2> QED BY <1>1, <1>2, <2>1, <2>2, <2>3, WinMoves, WindowKeeps
<1> QED BY <1>3, <1>4, <1>5

\* What the page sends is its document.
LEMMA SentIs ==
  ASSUME IInv, Open, NEW by \in {"timer", "founder", "nobody"}, NEW base \in Nat
  PROVE  /\ Sent(by, base) \in Save /\ Sent(by, base) # NULL
         /\ Sent(by, base).at = "sent" /\ Sent(by, base).by = by
         /\ Sent(by, base).doc = win.doc /\ Sent(by, base).mine = win.mine
<1>1. win \in Win
  BY DEF IInv, Reading, Open
<1>2. Sent(by, base) \in Save
  BY <1>1 DEF Sent, Save, Win
<1> QED BY <1>2, DocumentAssumption DEF Sent

\* saveNow, by the timer or for the founder's Save.
LEMMA SendKeeps ==
  ASSUME IInv, NEW r \in Fetch, SendSave(r) \/ SaveSession(r)
  PROVE  IInv'
<1>1. /\ UNCHANGED <<file, lock, hand, snaps, poll, past, wild>> /\ r \in Request
      /\ Open /\ win \in Win /\ win' = [win EXCEPT !.queued = FALSE]
  BY DEF SendSave, SaveSession, IInv, Reading, Open, Request
<1>2. win.doc \in File /\ win.doc.revision \in Nat /\ win' \in Win /\ win'.doc = win.doc /\ win'.mine = win.mine
  BY <1>1 DEF Win, File
<1>3. PICK by \in {"timer", "founder"} : save' = [save EXCEPT ![r] = Sent(by, win.doc.revision)]
  BY DEF SendSave, SaveSession
<1> DEFINE s == Sent(by, win.doc.revision)
<1>4. s \in Save /\ s # NULL /\ s.at = "sent" /\ s.by = by /\ s.doc = win.doc /\ s.mine = win.mine
  BY <1>1, <1>2, SentIs
<1>5. save' = [save EXCEPT ![r] = s] /\ save \in [Request -> Save \cup {NULL}]
  BY <1>3 DEF IInv, Reading
<1> HIDE DEF s
<1>6. win' # NULL
  BY <1>2, DocumentAssumption
<1>7. Reading'
  BY <1>1, <1>2, <1>4, <1>5, <1>6, SaveMoves
<1>8. ~wild => MirrorsNext(win.doc, win.mine)
  BY <1>1 DEF IInv, CopiesArePast, Mirrors, MirrorsNext
<1>9. CopiesArePast'
  BY <1>1, <1>2, <1>4, <1>5, <1>8, SaveCopies DEF Grows
<1>10. \A x \in Request : At(x, "read")' => At(x, "read") /\ save'[x] = save[x]
  BY <1>4, <1>5 DEF At
<1> QED BY <1>1, <1>7, <1>9, <1>10, WindowKeeps

\* pagehide: what was in flight goes on without a page.
LEMMA CloseKeeps ==
  ASSUME IInv, NEW r \in Last, CloseWindow(r)
  PROVE  IInv'
<1>1. /\ UNCHANGED <<file, lock, hand, snaps, past, wild>> /\ r \in Request
      /\ Open /\ win' = NULL /\ poll' = [q \in Poll |-> NULL]
      /\ save' = [x \in Request |-> IF x = r THEN Sent("nobody", 0) ELSE Left(save[x])]
  BY DEF CloseWindow, Request
<1> DEFINE s == Sent("nobody", 0)
<1>2. s \in Save /\ s # NULL /\ s.at = "sent" /\ s.by = "nobody" /\ s.doc = win.doc /\ s.mine = win.mine
  BY <1>1, SentIs
<1> HIDE DEF s
<1>3. save'[r] = s /\ \A x \in Request : x # r => save'[x] = Left(save[x])
  BY <1>1 DEF s
<1>4. \A x \in Request : save[x] \in Save \cup {NULL}
  BY DEF IInv, Reading
<1>5. ASSUME NEW x \in Request, x # r, save'[x] # NULL
      PROVE  /\ save'[x] \in Save /\ save[x] # NULL /\ save'[x].by = "nobody"
             /\ save'[x].at = save[x].at /\ save[x].at \notin {"saved", "written"}
             /\ save'[x].doc = save[x].doc /\ save'[x].mine = save[x].mine /\ save'[x].file = save[x].file
  <2>1. save[x] # NULL /\ save[x].at \notin {"saved", "written"} /\ save'[x] = [save[x] EXCEPT !.by = "nobody"]
    BY <1>3, <1>5 DEF Left
  <2>2. save[x] \in Save
    BY <1>4, <2>1
  <2> QED BY <2>1, <2>2 DEF Save
<1>6. save' \in [Request -> Save \cup {NULL}]
  <2>1. \A x \in Request : save'[x] \in Save \cup {NULL}
    BY <1>2, <1>3, <1>5
  <2> QED BY <1>1, <2>1
<1>7. \A x \in Request : save'[x] # NULL => save'[x].by = "nobody" /\ save'[x].at \notin {"saved", "written"}
  BY <1>2, <1>3, <1>5
<1>8. \A x \in Request : At(x, "read")' => At(x, "read") /\ save'[x].file = save[x].file
  BY <1>2, <1>3, <1>5 DEF At
<1>9. Reading'
  BY <1>1, <1>6, <1>7, <1>8 DEF IInv, Reading, At, Awaited, Open
<1>10. CopiesArePast'
  <2>1. ASSUME ~wild, NEW x \in Request, At(x, "sent")' \/ At(x, "read")'
        PROVE  MirrorsNext(save'[x].doc, save'[x].mine)
    <3>1. CASE x = r
      BY <1>1, <1>2, <1>3, <2>1, <3>1 DEF IInv, CopiesArePast, Mirrors, MirrorsNext
    <3>2. CASE x # r
      <4>1. (At(x, "sent") \/ At(x, "read")) /\ save'[x].doc = save[x].doc /\ save'[x].mine = save[x].mine
        BY <1>5, <2>1, <3>2 DEF At
      <4> QED BY <1>1, <2>1, <4>1 DEF IInv, CopiesArePast, Mirrors, MirrorsNext
    <3> QED BY <3>1, <3>2
  <2>2. \A x \in Request : ~At(x, "saved")'
    BY <1>7 DEF At
  <2> QED BY <1>1, <2>1, <2>2 DEF CopiesArePast, Mirrors, MirrorsNext, Open
<1>11. LockShape' /\ LockedCopyIsCurrent'
  BY <1>1, <1>8 DEF IInv, LockShape, LockedCopyIsCurrent
<1>12. SnapsArePast'
  BY <1>1 DEF IInv, SnapsArePast
<1> QED BY <1>1, <1>9, <1>10, <1>11, <1>12, FileKept DEF IInv

\* A request leaves the queue of the window: it failed, or the founder's Save has
\* been answered.
LEMMA SaveEndsKeeps ==
  ASSUME IInv, NEW r \in Request, Written(r) \/ SaveFails(r)
  PROVE  IInv'
<1>1. /\ UNCHANGED <<file, lock, hand, snaps, poll, past, wild>>
      /\ save' = [save EXCEPT ![r] = NULL] /\ save \in [Request -> Save \cup {NULL}]
      /\ win \in Win \cup {NULL}
  BY DEF Written, SaveFails, IInv, Reading
<1>2. /\ win' \in Win \cup {NULL} /\ (win' = NULL => win = NULL)
      /\ win' # NULL => win # NULL /\ win'.doc = win.doc /\ win'.mine = win.mine
  <2>1. CASE SaveFails(r)
    BY <1>1, <2>1 DEF SaveFails
  <2>2. CASE Written(r)
    <3>1. win \in Win /\ win' = [win EXCEPT !.queued = TRUE]
      BY <1>1, <2>2 DEF Written, IInv, Reading, Open, Awaited
    <3>2. win' \in Win /\ win'.doc = win.doc /\ win'.mine = win.mine
      BY <3>1 DEF Win
    <3> QED BY <3>1, <3>2, DocumentAssumption
  <2> QED BY <2>1, <2>2
<1>3. Reading'
  BY <1>1, <1>2, SaveMoves
<1>4. CopiesArePast'
  <2>1. ~wild /\ win # NULL => MirrorsNext(win.doc, win.mine)
    BY <1>1 DEF IInv, CopiesArePast, Mirrors, MirrorsNext, Open
  <2> QED BY <1>1, <1>2, <2>1, SaveCopies DEF Grows
<1>5. \A x \in Request : At(x, "read")' => At(x, "read") /\ save'[x] = save[x]
  BY <1>1 DEF At
<1> QED BY <1>1, <1>3, <1>4, <1>5, WindowKeeps

\* What the window adopts is a copy of what commit_ui answered.
LEMMA AdoptedIs ==
  ASSUME NEW s \in Save, s.file \in File
  PROVE  /\ Adopted(s) \in File /\ Adopted(s).revision = s.file.revision
         /\ \A n \in Graph : Adopted(s).nodes[n] = s.file.nodes[n]
<1>1. s.doc \in File /\ s.doc.nodes \in Content /\ s.file.nodes \in Content
  BY DEF Save, File
<1>2. CASE \E n \in Graph : s.file.nodes[n] # s.doc.nodes[n]
  BY <1>2 DEF Adopted
<1>3. CASE ~ \E n \in Graph : s.file.nodes[n] # s.doc.nodes[n]
  <2>1. Adopted(s) = [s.file EXCEPT !.nodes = s.doc.nodes]
    BY <1>3 DEF Adopted
  <2> QED BY <1>1, <1>3, <2>1 DEF File
<1> QED BY <1>2, <1>3

\* The reply to an autosave.
LEMMA SavedKeeps ==
  ASSUME IInv, NEW r \in Request, Saved(r)
  PROVE  IInv'
<1> DEFINE s == save[r]
           w == IF win.doc = s.doc THEN [win EXCEPT !.doc = Adopted(s), !.mine = {}] ELSE win
           t == IF s.by = "founder" THEN [s EXCEPT !.at = "write", !.doc = w.doc] ELSE NULL
<1>1. /\ UNCHANGED <<file, lock, hand, snaps, poll, past, wild>> /\ At(r, "saved")
      /\ win' = w /\ save' = [save EXCEPT ![r] = t]
  BY DEF Saved
<1>2. /\ save \in [Request -> Save \cup {NULL}] /\ s \in Save /\ s.file \in File /\ win \in Win /\ win # NULL
  BY <1>1 DEF IInv, Reading, Open, Awaited, At
<1>3. /\ Adopted(s) \in File /\ Adopted(s).revision = s.file.revision
      /\ \A n \in Graph : Adopted(s).nodes[n] = s.file.nodes[n]
  BY <1>2, AdoptedIs
<1>4. w \in Win /\ w # NULL
  <2>1. w \in Win
    BY <1>2, <1>3 DEF Win
  <2> QED BY <2>1, DocumentAssumption
<1>5. ~wild => MirrorsNext(w.doc, w.mine)
  <2>1. CASE win.doc = s.doc
    <3>1. w.doc = Adopted(s) /\ w.mine = {}
      BY <1>2, <2>1 DEF Win
    <3>2. ~wild => Mirrors(s.file, {})
      BY <1>1 DEF IInv, CopiesArePast
    <3> QED BY <1>1, <1>3, <3>1, <3>2 DEF Mirrors, MirrorsNext
  <2>2. CASE win.doc # s.doc
    BY <1>1, <1>2, <2>2 DEF IInv, CopiesArePast, Mirrors, MirrorsNext, Open
  <2> QED BY <2>1, <2>2
<1>6. t \in Save \cup {NULL} /\ (t # NULL => t.at = "write")
  <2>1. w.doc \in File
    BY <1>4 DEF Win
  <2> HIDE DEF w
  <2> QED BY <1>2, <2>1 DEF Save
<1> HIDE DEF s, w, t
<1>7. Reading'
  BY <1>1, <1>4, <1>6, SaveMoves
<1>8. CopiesArePast'
  BY <1>1, <1>5, <1>6, SaveCopies DEF Grows
<1>9. \A x \in Request : At(x, "read")' => At(x, "read") /\ save'[x] = save[x]
  BY <1>1, <1>2, <1>6 DEF At
<1> QED BY <1>1, <1>7, <1>8, <1>9, WindowKeeps

\* The polls.
LEMMA PollKeeps ==
  ASSUME IInv, NEW q \in Poll, PollStep(q)
  PROVE  IInv'
<1>1. /\ UNCHANGED <<file, lock, hand, save, past, wild>> /\ file \in File /\ file.revision \in Nat
      /\ UNCHANGED snaps \/ Remember(file)
      /\ win \in Win /\ win # NULL /\ poll \in [Poll -> PollFile \cup {NULL}]
  BY DEF PollStep, PollHead, PollRead, PollAdopt, IInv, Reading, File, Open
<1>2. PICK v \in PollFile \cup {NULL} :
        /\ poll' = [poll EXCEPT ![q] = v]
        /\ ~wild /\ v # NULL /\ v.doc # NULL => MirrorsNext(v.doc, {})
  <2>1. CASE PollHead(q)
    <3> DEFINE v == [head |-> file.revision, doc |-> NULL]
    <3>1. v \in PollFile /\ v.doc = NULL /\ poll' = [poll EXCEPT ![q] = v]
      BY <1>1, <2>1 DEF PollFile, PollHead
    <3> HIDE DEF v
    <3> QED BY <3>1
  <2>2. CASE PollRead(q) /\ poll' = [poll EXCEPT ![q].doc = file]
    <3> DEFINE v == [poll[q] EXCEPT !.doc = file]
    <3>1. poll[q] \in PollFile /\ poll' = [poll EXCEPT ![q] = v]
      BY <1>1, <2>2 DEF PollRead
    <3>2. v \in PollFile /\ v.doc = file
      BY <1>1, <3>1 DEF PollFile
    <3>3. ~wild => MirrorsNext(file, {})
      BY <1>1, FileMirrors
    <3> HIDE DEF v
    <3> QED BY <3>1, <3>2, <3>3
  <2>3. CASE poll' = [poll EXCEPT ![q] = NULL]
    BY <2>3
  <2> QED BY <2>1, <2>2, <2>3 DEF PollStep, PollRead, PollAdopt
<1>3. /\ win' \in Win /\ win' # NULL
      /\ ~wild => MirrorsNext(win'.doc, win'.mine)
  <2>1. ~wild => MirrorsNext(win.doc, win.mine)
    BY <1>1 DEF IInv, CopiesArePast, Mirrors, MirrorsNext, Open
  <2>2. CASE UNCHANGED win
    BY <1>1, <2>1, <2>2
  <2>3. CASE PollAdopt(q) /\ ~Dirty
    <3>1. /\ win' = [win EXCEPT !.doc = poll[q].doc] /\ win.mine = {}
          /\ poll[q] \in PollFile /\ poll[q].doc \in File
      BY <1>1, <2>3 DEF PollAdopt, Dirty, PollFile
    <3>2. ~wild => MirrorsNext(poll[q].doc, {})
      BY <1>1, <2>3 DEF PollAdopt, IInv, CopiesArePast, Mirrors, MirrorsNext
    <3>3. win' \in Win /\ win'.doc = poll[q].doc /\ win'.mine = {}
      BY <1>1, <3>1 DEF Win
    <3> QED BY <3>2, <3>3, DocumentAssumption
  <2> QED BY <2>2, <2>3 DEF PollStep, PollHead, PollRead, PollAdopt
<1>4. poll' \in [Poll -> PollFile \cup {NULL}] /\ poll'[q] = v /\ \A x \in Poll : x # q => poll'[x] = poll[x]
  BY <1>1, <1>2
<1>5. Reading'
  BY <1>1, <1>3, <1>4 DEF IInv, Reading, At, Awaited, Open
<1>6. CopiesArePast'
  <2> SUFFICES ASSUME ~wild PROVE CopiesArePast'
    BY <1>1 DEF CopiesArePast
  <2>1. \A x \in Poll : poll'[x] # NULL /\ poll'[x].doc # NULL => MirrorsNext(poll'[x].doc, {})
    BY <1>1, <1>2, <1>4 DEF IInv, CopiesArePast, Mirrors, MirrorsNext
  <2>2. \A x \in Request : /\ At(x, "sent")' \/ At(x, "read")' => MirrorsNext(save'[x].doc, save'[x].mine)
                           /\ At(x, "saved")' => MirrorsNext(save'[x].file, {})
    BY <1>1 DEF IInv, CopiesArePast, Mirrors, MirrorsNext, At
  <2> QED BY <1>3, <2>1, <2>2 DEF CopiesArePast, Mirrors, MirrorsNext
<1>7. \A x \in Request : At(x, "read")' => At(x, "read") /\ save'[x] = save[x]
  BY <1>1 DEF At
<1> QED BY <1>1, <1>5, <1>6, <1>7, WindowKeeps

-----------------------------------------------------------------------------
(* The server. *)

\* commit_ui takes the lock and reads the file.
LEMMA BeginCommitKeeps ==
  ASSUME IInv, NEW r \in Request, BeginCommit(r)
  PROVE  IInv'
<1> DEFINE s == [save[r] EXCEPT !.at = "read", !.file = file]
<1>1. /\ lock = NULL /\ lock' = r /\ At(r, "sent")
      /\ UNCHANGED <<file, hand, past, wild, snaps, win, poll>>
      /\ save' = [save EXCEPT ![r].at = "read", ![r].file = file]
  BY DEF BeginCommit, Free
<1>2. /\ r \notin Agent /\ NULL \notin Agent /\ NULL \notin Request /\ file \in File
      /\ save \in [Request -> Save \cup {NULL}] /\ save[r] \in Save
  BY <1>1, DocumentAssumption DEF IInv, Reading, At
<1>3. /\ s \in Save /\ s.at = "read" /\ s.file = file /\ s.doc = save[r].doc /\ s.mine = save[r].mine
      /\ s.by = save[r].by
  BY <1>2 DEF Save
<1>4. save' = [save EXCEPT ![r] = s]
  BY <1>1, <1>2
<1> HIDE DEF s
<1>5. Reading'
  <2>1. s.by # "nobody" => win # NULL
    BY <1>1, <1>3 DEF IInv, Reading, Awaited, Open, At
  <2> QED BY <1>1, <1>2, <1>3, <1>4, <2>1, SaveMoves DEF IInv, Reading
<1>6. CopiesArePast'
  <2>1. ~wild => MirrorsNext(s.doc, s.mine) /\ (win # NULL => MirrorsNext(win.doc, win.mine))
    BY <1>1, <1>3 DEF IInv, CopiesArePast, Mirrors, MirrorsNext, Open
  <2> QED BY <1>1, <1>3, <1>4, <2>1, SaveCopies DEF Grows
<1>7. \A x \in Request : ~At(x, "read")
  BY <1>1, <1>2 DEF IInv, LockShape
<1>8. \A x \in Request : At(x, "read")' => x = r /\ save'[x].file = file
  BY <1>2, <1>3, <1>4, <1>7 DEF At
<1>9. LockShape' /\ LockedCopyIsCurrent'
  BY <1>1, <1>2, <1>8 DEF IInv, LockShape, LockedCopyIsCurrent
<1>10. SnapsArePast'
  BY <1>1 DEF IInv, SnapsArePast
<1> QED BY <1>1, <1>5, <1>6, <1>9, <1>10, FileKept DEF IInv

\* What commit_ui makes of a save is the file it read, or a stamped write of it.
LEMMA CommittedIs ==
  ASSUME IInv, NEW r \in Request, At(r, "read")
  PROVE  \E c \in Content :
           /\ c = IF save[r].file.revision = save[r].base THEN save[r].doc.nodes
                  ELSE Merge(Held(save[r].base), save[r].doc.nodes, save[r].file.nodes)
           /\ Committed(save[r]) = IF c = save[r].file.nodes THEN save[r].file
                                   ELSE Stamped(save[r].file, c, "edit")
           /\ save[r].file \in File /\ Committed(save[r]) \in File
           /\ c = save[r].file.nodes <=> Committed(save[r]) = save[r].file
           /\ Committed(save[r]).nodes = c
<1> DEFINE s == save[r]
           c == IF s.file.revision = s.base THEN s.doc.nodes
                ELSE Merge(Held(s.base), s.doc.nodes, s.file.nodes)
<1>1. s \in Save /\ s.file \in File
  BY DEF IInv, Reading, At
<1>2. s.doc.nodes \in Content /\ s.file.nodes \in Content /\ s.file.revision \in Nat
  BY <1>1 DEF File, Save
<1>3. c \in Content
  BY <1>2, MergeType
<1>4. Committed(s) = IF c = s.file.nodes THEN s.file ELSE Stamped(s.file, c, "edit")
  BY DEF Committed
<1> HIDE DEF c
<1>5. /\ Stamped(s.file, c, "edit") \in File
      /\ Stamped(s.file, c, "edit").revision = s.file.revision + 1
      /\ Stamped(s.file, c, "edit").nodes = c
  BY <1>1, <1>3, StampedType
<1>6. Stamped(s.file, c, "edit") # s.file
  BY <1>2, <1>5
<1>7. Committed(s) \in File /\ (c = s.file.nodes <=> Committed(s) = s.file) /\ Committed(s).nodes = c
  BY <1>1, <1>4, <1>5, <1>6
<1>8. c = IF s.file.revision = s.base THEN s.doc.nodes ELSE Merge(Held(s.base), s.doc.nodes, s.file.nodes)
  BY DEF c
<1> QED BY <1>1, <1>3, <1>4, <1>7, <1>8

\* The reply to a page that is there, and none to one that is gone.
LEMMA AnsweredIs ==
  ASSUME IInv, NEW r \in Request, save[r] # NULL, NEW at \in {"saved", "written"}, NEW f \in File,
         Answered(r, at, f)
  PROVE  \E s \in Save \cup {NULL} :
           /\ save' = [save EXCEPT ![r] = s]
           /\ s # NULL => s.at = at /\ s.file = f /\ s.by # "nobody" /\ win # NULL
<1>1. save \in [Request -> Save \cup {NULL}] /\ save[r] \in Save
  BY DEF IInv, Reading
<1>2. CASE save[r].by = "nobody"
  BY <1>2 DEF Answered
<1>3. CASE save[r].by # "nobody"
  <2> DEFINE s == [save[r] EXCEPT !.at = at, !.file = f]
  <2>1. save' = [save EXCEPT ![r] = s] /\ win # NULL
    BY <1>1, <1>3 DEF Answered, IInv, Reading, Awaited, Open
  <2>2. s \in Save /\ s.at = at /\ s.file = f /\ s.by = save[r].by
    BY <1>1 DEF Save
  <2> HIDE DEF s
  <2> QED BY <1>3, <2>1, <2>2
<1> QED BY <1>2, <1>3

\* commit_ui merges, writes, remembers and gives the lock back.
LEMMA EndCommitKeeps ==
  ASSUME IInv, NEW r \in Request, EndCommit(r)
  PROVE  IInv'
<1> DEFINE f == Committed(save[r])
           was == save[r].file
<1>1. /\ At(r, "read") /\ lock = r /\ lock' = NULL /\ UNCHANGED <<hand, win, poll, wild>>
      /\ Remember(f) /\ (IF f = was THEN UNCHANGED <<file, past>> ELSE Write(f))
      /\ Answered(r, "saved", f)
  BY DEF EndCommit, IInv, LockShape
<1>2. PICK c \in Content :
         /\ f = IF c = was.nodes THEN was ELSE Stamped(was, c, "edit")
         /\ was \in File /\ f \in File /\ (c = was.nodes <=> f = was)
  BY <1>1, CommittedIs
<1> HIDE DEF f
<1>3. PICK s \in Save \cup {NULL} :
         /\ save' = [save EXCEPT ![r] = s]
         /\ s # NULL => s.at = "saved" /\ s.file = f /\ s.by # "nobody" /\ win # NULL
  BY <1>1, <1>2, AnsweredIs DEF At
<1>4. /\ wild \in BOOLEAN /\ NULL \notin Agent /\ file \in File /\ (~wild => was = file) /\ r \notin Agent
      /\ save \in [Request -> Save \cup {NULL}] /\ win \in Win \cup {NULL}
  BY <1>1, DocumentAssumption DEF IInv, LockShape, LockedCopyIsCurrent, Reading
<1>5. \A x \in Request : ~At(x, "read")'
  <2>1. \A x \in Request : x # r => ~At(x, "read")
    BY <1>1 DEF IInv, LockShape
  <2> QED BY <1>3, <1>4, <2>1 DEF At
<1>6. LockShape' /\ LockedCopyIsCurrent'
  BY <1>1, <1>4, <1>5 DEF IInv, LockShape, LockedCopyIsCurrent
<1>7. Reading'
  BY <1>1, <1>2, <1>3, <1>4, SaveMoves
<1>8. file' \in File
  BY <1>1, <1>2, <1>4 DEF Write
<1>9. PastIsKept' /\ HistoryUndoes' /\ UndoRestores' /\ (~wild => file' = f /\ Grows)
  <2>1. CASE wild
    BY <1>1, <2>1 DEF PastIsKept, HistoryUndoes, UndoRestores
  <2>2. CASE ~wild /\ f = was
    BY <1>1, <1>4, <2>2, FileKept DEF Grows
  <2>3. CASE ~wild /\ f # was
    <3>1. Write(Stamped(file, c, "edit")) /\ file' = f
      BY <1>1, <1>2, <1>4, <2>3 DEF Write
    <3> QED BY <1>1, <2>3, <3>1, StampedPast DEF Grows
  <2> QED BY <1>4, <2>1, <2>2, <2>3
<1>10. ~wild => f.revision \in DOMAIN past' /\ past'[f.revision] = f.nodes
  BY <1>1, <1>8, <1>9 DEF PastIsKept, File
<1>11. SnapsArePast'
  BY <1>1, <1>2, <1>4, <1>9, <1>10, RememberPast DEF IInv
<1>12. CopiesArePast'
  <2>1. ~wild => MirrorsNext(f, {}) /\ (win # NULL => MirrorsNext(win.doc, win.mine))
    BY <1>9, <1>10 DEF IInv, CopiesArePast, Mirrors, MirrorsNext, Open, Grows
  <2> QED BY <1>1, <1>3, <1>9, <2>1, SaveCopies
<1> QED BY <1>6, <1>7, <1>8, <1>9, <1>11, <1>12 DEF IInv

\* The founder's Save writes beside the lock.
LEMMA ServeWriteKeeps ==
  ASSUME IInv, NEW r \in Request, ServeWrite(r)
  PROVE  IInv'
<1> DEFINE f == save[r].doc
<1>1. /\ At(r, "write") /\ UNCHANGED <<lock, hand, win, poll, past>> /\ wild' = TRUE
      /\ file' = f /\ Remember(f) /\ Answered(r, "written", f)
  BY DEF ServeWrite
<1>2. save \in [Request -> Save \cup {NULL}] /\ f \in File /\ win \in Win \cup {NULL} /\ SnapsArePast
  BY <1>1 DEF IInv, Reading, At, Save
<1> HIDE DEF f
<1>3. PICK s \in Save \cup {NULL} :
         /\ save' = [save EXCEPT ![r] = s]
         /\ s # NULL => s.at = "written" /\ s.by # "nobody" /\ win # NULL
  BY <1>1, <1>2, AnsweredIs DEF At
<1>4. Reading'
  BY <1>1, <1>2, <1>3, SaveMoves
<1>5. \A x \in Request : At(x, "read")' => At(x, "read")
  BY <1>2, <1>3 DEF At
<1>6. LockShape'
  BY <1>1, <1>5 DEF IInv, LockShape
<1>7. SnapsArePast'
  BY <1>1, <1>2, RememberPast
<1> QED BY <1>1, <1>2, <1>4, <1>6, <1>7
        DEF IInv, PastIsKept, CopiesArePast, LockedCopyIsCurrent, HistoryUndoes, UndoRestores

\* The application ends and starts again without its snapshots.
LEMMA RestartKeeps ==
  ASSUME IInv, Restart
  PROVE  IInv'
<1>1. /\ win' = NULL /\ save' = [r \in Request |-> NULL] /\ poll' = [q \in Poll |-> NULL]
      /\ lock' = (IF lock \in Request THEN NULL ELSE lock) /\ snaps' = <<>>
      /\ UNCHANGED <<file, hand, past, wild>>
  BY DEF Restart
<1>2. NULL \notin Agent
  BY DocumentAssumption
<1>3. \A r \in Request : save'[r] = NULL
  BY <1>1
<1>4. \A q \in Poll : poll'[q] = NULL
  BY <1>1
<1>5. LockShape' /\ LockedCopyIsCurrent'
  BY <1>1, <1>2, <1>3 DEF IInv, LockShape, LockedCopyIsCurrent, At
<1>6. Reading'
  BY <1>1, <1>3, <1>4 DEF Reading, At, Awaited
<1>7. DOMAIN snaps' = {}
  BY <1>1
<1>8. SnapsArePast'
  BY <1>7 DEF SnapsArePast
<1>9. CopiesArePast'
  BY <1>1, <1>3, <1>4 DEF CopiesArePast, At, Open
<1> QED BY <1>1, <1>5, <1>6, <1>8, <1>9, FileKept DEF IInv

-----------------------------------------------------------------------------
(* The theorems. *)

\* The opened file satisfies the invariant.
LEMMA InitIInv == Init => IInv
<1> SUFFICES ASSUME Init PROVE IInv
  OBVIOUS
<1>1. /\ file.nodes \in Content /\ file.revision = 0 /\ file.history = <<>> /\ file \in File
  BY DocumentAssumption DEF Init, File
<1>2. (\A r \in Request : save[r] = NULL) /\ (\A q \in Poll : poll[q] = NULL) /\ win = NULL
  BY DEF Init
<1>3. LockShape /\ LockedCopyIsCurrent
  BY <1>2, DocumentAssumption DEF Init, LockShape, LockedCopyIsCurrent, At
<1>4. Reading /\ CopiesArePast
  BY <1>2 DEF Init, Reading, CopiesArePast, At, Awaited, Open
<1>5. DOMAIN snaps = {} /\ DOMAIN file.history = {} /\ Len(file.history) = 0
  BY <1>1 DEF Init
<1>6. past = [r \in {0} |-> file.nodes]
  BY DEF Init
<1>7. PastIsKept
  BY <1>1, <1>5, <1>6 DEF PastIsKept
<1>8. SnapsArePast /\ HistoryUndoes /\ UndoRestores
  BY <1>5 DEF SnapsArePast, HistoryUndoes, UndoRestores
<1> QED BY <1>1, <1>3, <1>4, <1>7, <1>8 DEF IInv

\* Every step keeps it.
LEMMA NextIInv == IInv /\ [Next]_vars => IInv'
<1> SUFFICES ASSUME IInv, [Next]_vars PROVE IInv'
  OBVIOUS
<1>1. CASE UNCHANGED vars
  BY <1>1 DEF vars, IInv, LockShape, Reading, PastIsKept, SnapsArePast, CopiesArePast, Mirrors, At, Awaited, Open,
              LockedCopyIsCurrent, HistoryUndoes, UndoRestores
<1>2. ASSUME NEW p \in Agent, AgentStep(p) PROVE IInv'
  BY <1>2, BeginEditKeeps, EndEditKeeps, EndUndoKeeps, UpdateKeeps DEF AgentStep
<1>3. CASE WindowStep
  BY <1>3, PageKeeps, SendKeeps, CloseKeeps DEF WindowStep
<1>4. ASSUME NEW r \in Request, SaveStep(r) PROVE IInv'
  BY <1>4, BeginCommitKeeps, EndCommitKeeps, SavedKeeps, ServeWriteKeeps, SaveEndsKeeps DEF SaveStep
<1> QED BY <1>1, <1>2, <1>3, <1>4, PollKeeps, RestartKeeps DEF Next

\* locked() is one writer per file: what its holder read is what it replaces.
THEOREM LockAlwaysCurrent == Spec => []LockedCopyIsCurrent
<1>1. IInv => LockedCopyIsCurrent
  BY DEF IInv
<1> QED BY <1>1, InitIInv, NextIInv, PTL DEF Spec

\* Every entry _stamp writes leads from its revision back to the one before, in
\* the nodes, the wires and the title.
THEOREM HistoryAlwaysUndoes == Spec => []HistoryUndoes
<1>1. IInv => HistoryUndoes
  BY DEF IInv
<1> QED BY <1>1, InitIInv, NextIInv, PTL DEF Spec

\* undo_last right after an edit restores the nodes and wires from before that
\* edit.
THEOREM UndoAlwaysRestores == Spec => []UndoRestores
<1>1. IInv => UndoRestores
  BY DEF IInv
<1> QED BY <1>1, InitIInv, NextIInv, PTL DEF Spec

\* The file changes under a save that has read it only by that save's commit.
LEMMA CommitsAlone ==
  ASSUME IInv, Next, NEW r \in Request, Commits(r)
  PROVE  EndCommit(r) \/ UNCHANGED file
<1>1. At(r, "read") /\ lock = r /\ save'[r] # save[r]
  BY DEF Commits, At, IInv, LockShape
<1>2. ASSUME NEW p \in Agent, AgentStep(p) PROVE UNCHANGED file
  BY <1>1, <1>2, AgentFrame
<1>3. ASSUME NEW x \in Request, SaveStep(x), x # r PROVE UNCHANGED file
  <2>1. save'[r] = save[r]
    BY <1>3 DEF SaveStep, BeginCommit, EndCommit, Saved, ServeWrite, Written, SaveFails, Answered, IInv, Reading
  <2> QED BY <1>1, <2>1
<1>4. SaveStep(r) => EndCommit(r)
  BY <1>1 DEF SaveStep, BeginCommit, Saved, ServeWrite, Written, SaveFails, At
<1>5. WindowStep \/ (\E q \in Poll : PollStep(q)) \/ Restart => UNCHANGED file
  BY DEF WindowStep, OpenFile, Gesture, Turn, SendSave, SaveSession, CloseWindow, PollStep, PollHead, PollRead,
         PollAdopt, Restart
<1> QED BY <1>2, <1>3, <1>4, <1>5 DEF Next

\* commit_ui keeps the nodes and wires that no gesture of the window has changed,
\* as long as the server has the base that the window names.
THEOREM MergeAlwaysKeepsTheirs == Spec => MergeKeepsTheirs
<1> DEFINE Known(r) == /\ Commits(r)
                       /\ save[r].base = save[r].doc.revision
                       /\ save[r].base = file.revision \/ save[r].base \in DOMAIN snaps
<1>1. ASSUME IInv, Next, NEW r \in Request, Known(r) PROVE Keeps(save[r])
  <2> DEFINE s == save[r]
  <2>1. EndCommit(r) \/ UNCHANGED file
    BY <1>1, CommitsAlone
  <2>2. CASE UNCHANGED file
    BY <2>2 DEF Keeps
  <2>3. CASE EndCommit(r)
    <3>1. At(r, "read") /\ ~wild /\ s.file = file /\ file \in File
      BY <1>1 DEF IInv, LockedCopyIsCurrent, Commits
    <3>2. PICK c \in Content :
            /\ c = IF file.revision = s.base THEN s.doc.nodes
                   ELSE Merge(Held(s.base), s.doc.nodes, file.nodes)
            /\ c = file.nodes <=> Committed(s) = file
            /\ Committed(s).nodes = c
      BY <1>1, <3>1, CommittedIs
    <3>3. file'.nodes = c
      BY <2>3, <3>1, <3>2 DEF EndCommit, Write
    <3>4. \A n \in Graph \ s.mine : s.doc.nodes[n] = past[s.base][n]
      BY <1>1, <3>1 DEF IInv, CopiesArePast, Mirrors
    <3>5. CASE file.revision = s.base
      <4>1. past[s.base] = file.nodes
        BY <1>1, <3>1, <3>5 DEF IInv, PastIsKept
      <4> QED BY <3>2, <3>3, <3>4, <3>5, <4>1 DEF Keeps
    <3>6. CASE file.revision # s.base
      <4>1. Held(s.base) = past[s.base] /\ Held(s.base) # NULL
        BY <1>1, <3>1, <3>6, DocumentAssumption DEF IInv, SnapsArePast, Held
      <4>2. \A n \in Graph \ s.mine : n \in Item /\ n \notin Touched(Held(s.base), s.doc.nodes)
        BY <3>4, <4>1 DEF Touched, Item
      <4> QED BY <3>2, <3>3, <3>6, <4>2 DEF Merge, Keeps
    <3> QED BY <3>5, <3>6
  <2> QED BY <2>1, <2>2, <2>3
<1>2. IInv /\ [Next]_vars => [\A r \in Request : Known(r) => Keeps(save[r])]_vars
  BY <1>1
<1> QED BY <1>2, InitIInv, NextIInv, PTL DEF Spec, MergeKeepsTheirs

-----------------------------------------------------------------------------
(* The type invariant, with the snapshots' limit.  IInv has the rest of it. *)

\* At most Kept snapshots.  That they are finitely many is what lets the ones
\* above a revision be counted.
Bounded ==
  /\ IsFiniteSet(DOMAIN snaps) /\ Cardinality(DOMAIN snaps) <= Kept
  /\ gestures \in 0..MaxGesture

\* A set of revisions that is not empty has an oldest one.
LEMMA OldestIn ==
  ASSUME NEW R, R \subseteq Nat, R # {}
  PROVE  \E m \in R : \A r \in R : m <= r
<1>1. PICK m \in R : \A r \in R : ~(<<r, m>> \in OpToRel(<, Nat))
  BY NatLessThanWellFounded, WFMin
<1>2. \A r \in R : ~(r < m)
  BY <1>1 DEF OpToRel
<1> QED BY <1>2

\* remember() drops all but Kept: the oldest revision it keeps has fewer than
\* Kept above it, and the others it keeps are above it.
LEMMA NewestBounded ==
  ASSUME NEW R, R \subseteq Nat, IsFiniteSet(R)
  PROVE  IsFiniteSet(Newest(R)) /\ Cardinality(Newest(R)) <= Kept
<1>1. Newest(R) \in SUBSET R /\ Kept \in Nat
  BY DocumentAssumption DEF Newest
<1>2. IsFiniteSet(Newest(R))
  BY <1>1, FS_Subset
<1>3. CASE Newest(R) = {}
  BY <1>1, <1>2, <1>3, FS_EmptySet
<1>4. CASE Newest(R) # {}
  <2>1. PICK m \in Newest(R) : \A r \in Newest(R) : m <= r
    BY <1>1, <1>4, OldestIn
  <2> DEFINE Above == {s \in R : s > m}
             Others == Newest(R) \ {m}
  <2>2. Cardinality(Above) < Kept
    BY <2>1 DEF Newest
  <2>3. IsFiniteSet(Above)
    BY FS_Subset
  <2>4. Others \in SUBSET Above
    <3> SUFFICES ASSUME NEW r \in Newest(R), r # m PROVE r \in R /\ r > m
      OBVIOUS
    <3>1. r \in R /\ r \in Nat /\ m \in Nat /\ m <= r
      BY <1>1, <2>1
    <3> QED BY <3>1
  <2>5. Cardinality(Others) <= Cardinality(Above)
    BY <2>3, <2>4, FS_Subset
  <2>6. Cardinality(Others) = Cardinality(Newest(R)) - 1
    BY <1>2, <2>1, FS_RemoveElement
  <2>7. Cardinality(Above) \in Nat /\ Cardinality(Newest(R)) \in Nat
    BY <1>2, <2>3, FS_CardinalityType
  <2> QED BY <1>1, <1>2, <2>2, <2>5, <2>6, <2>7
<1> QED BY <1>3, <1>4

\* So there are never more snapshots than that after remember().
LEMMA RememberBounded ==
  ASSUME IsFiniteSet(DOMAIN snaps), DOMAIN snaps \subseteq Nat, NEW f \in File, Remember(f)
  PROVE  IsFiniteSet(DOMAIN snaps') /\ Cardinality(DOMAIN snaps') <= Kept
<1> DEFINE R == DOMAIN snaps \cup {f.revision}
<1>1. IsFiniteSet(R) /\ R \subseteq Nat
  BY FS_AddElement DEF File
<1>2. Newest(R) \subseteq R
  BY DEF Newest
<1>3. DOMAIN snaps' = Newest(R)
  BY <1>2 DEF Remember, Restrict
<1> QED BY <1>1, <1>3, NewestBounded

\* Every step keeps the limits.
LEMMA NextBounded == IInv /\ Bounded /\ [Next]_vars => Bounded'
<1> SUFFICES ASSUME IInv, Bounded, [Next]_vars PROVE Bounded'
  OBVIOUS
<1>1. file \in File /\ DOMAIN snaps \subseteq Nat
  BY DEF IInv, SnapsArePast
<1>2. gestures' \in 0..MaxGesture
  <2>1. UNCHANGED gestures \/ (gestures < MaxGesture /\ gestures' = gestures + 1)
    BY DEF Next, vars, AgentStep, BeginEdit, EndEdit, EndUndo, BeginUpdate, EndUpdate, Die, WindowStep, OpenFile,
           Gesture, Turn, SendSave, SaveSession, CloseWindow, SaveStep, BeginCommit, EndCommit, Saved, ServeWrite,
           Written, SaveFails, PollStep, PollHead, PollRead, PollAdopt, Restart
  <2> QED BY <2>1, DocumentAssumption DEF Bounded
<1>3. UNCHANGED snaps \/ DOMAIN snaps' = {} \/ (\E f \in File : Remember(f))
  <2>1. ASSUME NEW r \in Request, EndCommit(r) PROVE \E f \in File : Remember(f)
    <3>1. Remember(Committed(save[r])) /\ At(r, "read")
      BY <2>1 DEF EndCommit
    <3>2. Committed(save[r]) \in File
      BY <3>1, CommittedIs
    <3> QED BY <3>1, <3>2
  <2>2. ASSUME NEW r \in Request, ServeWrite(r) PROVE \E f \in File : Remember(f)
    <3>1. Remember(save[r].doc) /\ save[r].doc \in File
      BY <2>2 DEF ServeWrite, At, IInv, Reading, Save
    <3> QED BY <3>1
  <2>3. ASSUME NEW r \in Request, SaveStep(r) PROVE UNCHANGED snaps \/ (\E f \in File : Remember(f))
    BY <2>1, <2>2, <2>3 DEF SaveStep, BeginCommit, Saved, Written, SaveFails
  <2>4. ASSUME NEW q \in Poll, PollStep(q) PROVE UNCHANGED snaps \/ (\E f \in File : Remember(f))
    BY <1>1, <2>4 DEF PollStep, PollHead, PollRead, PollAdopt
  <2>5. CASE Restart
    BY <2>5 DEF Restart
  <2>6. CASE \E p \in Agent : AgentStep(p)
    BY <2>6, AgentFrame
  <2>7. CASE WindowStep \/ UNCHANGED vars
    BY <2>7 DEF WindowStep, OpenFile, Gesture, Turn, SendSave, SaveSession, CloseWindow, vars
  <2> QED BY <2>3, <2>4, <2>5, <2>6, <2>7 DEF Next
<1>4. IsFiniteSet(DOMAIN snaps') /\ Cardinality(DOMAIN snaps') <= Kept
  BY <1>1, <1>3, RememberBounded, FS_EmptySet, DocumentAssumption DEF Bounded
<1> QED BY <1>2, <1>4 DEF Bounded

\* Every variable keeps its type: in particular what an unlocked writer leaves in
\* the middle of locked ones is a file, and _SNAPSHOTS never outgrows its limit.
THEOREM TypeCorrect == Spec => []TypeOK
<1>1. Init => Bounded
  <2>1. Init => DOMAIN snaps = {} /\ gestures = 0
    BY DEF Init
  <2> QED BY <2>1, FS_EmptySet, DocumentAssumption DEF Bounded
<1>2. IInv /\ Bounded => TypeOK
  BY DEF IInv, LockShape, Reading, SnapsArePast, Bounded, TypeOK
<1> QED BY <1>1, <1>2, InitIInv, NextIInv, NextBounded, PTL DEF Spec
=============================================================================
