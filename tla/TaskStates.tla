------------------------------ MODULE TaskStates ------------------------------
(***************************************************************************)
(* The task state machine of packages/core/src/task/task.ts: the statuses  *)
(* a piece of work can have and the moves between them.  Everything that   *)
(* moves work in the office goes through this one table.                   *)
(***************************************************************************)

TaskStatuses ==
  { "backlog", "assigned", "in_progress", "in_review", "changes_requested",
    "approved", "done", "blocked", "escalated", "transferred", "cancelled" }

TerminalStatuses == {"done", "cancelled"}

\* Statuses an event only passes through: every handler that enters one of
\* them leaves it again before the task is stored.
TransientStatuses == {"approved", "changes_requested", "transferred"}

RestingStatuses == TaskStatuses \ TransientStatuses

TaskTransitions ==
  UNION
  { {"backlog"}           \X {"assigned", "cancelled"},
    {"assigned"}          \X {"in_progress", "backlog", "blocked", "transferred", "cancelled"},
    {"in_progress"}       \X {"in_review", "done", "blocked", "escalated", "transferred",
                              "cancelled"},
    {"in_review"}         \X {"approved", "changes_requested", "escalated", "cancelled"},
    {"changes_requested"} \X {"in_progress", "escalated", "transferred", "cancelled"},
    {"approved"}          \X {"done", "assigned", "in_review"},
    {"blocked"}           \X {"assigned", "in_progress", "escalated", "transferred", "cancelled"},
    {"escalated"}         \X {"assigned", "in_progress", "transferred", "cancelled"},
    {"transferred"}       \X {"assigned", "cancelled"} }

CanTransition(from, to) == <<from, to>> \in TaskTransitions
===============================================================================
