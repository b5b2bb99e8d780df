-------------------------- MODULE MCWorkshopTasks --------------------------
(* Small instances of WorkshopTasks for TLC. *)
EXTENDS WorkshopTasks, TLC

\* The calls of the agents and of the founder's board; of declare() with the
\* Studio's column; of the slots; of the poll.
SharedCalls == {"create", "claim", "release", "complete", "mark_writing", "rows",
              "archive", "planned", "done", "open", "relocate"}
DeclareCalls == {"declare", "declare_on", "finish_on", "backfill", "column"}
RunCalls == {"create", "begin_run", "rows"}
PollCalls == {"create", "claim", "rename", "rows"}

Symmetry == Permutations(Created) \cup Permutations(Owner)
              \cup Permutations(Proc) \cup Permutations(Text)
=============================================================================
