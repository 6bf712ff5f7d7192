----------------------------- MODULE Inspection -----------------------------
(***************************************************************************)
(* What a debugger container promises the inspection service, without      *)
(* daemon, scripts, timer, posts or restarts: a job is registered with the *)
(* number of its tasks, its tasks are heard of while it is registered, and *)
(* it is terminated when nothing is left to hear.  Only once a post has    *)
(* gone wrong may a task be missed, and a report or the end of a job come  *)
(* out of turn; even then no job ends with a task that is merely forgotten.*)
(*                                                                         *)
(* It is the abstract view of StartDebugger and runTask                    *)
(* (src/internal/debugger); DebugTask implements it.                       *)
(***************************************************************************)
EXTENDS FiniteSets

CONSTANTS
    Jobs,     \* the jobs, one for each task file
    TasksOf,  \* the set of tasks of each
    Quiet     \* the tasks the service never hears of

VARIABLES
    phase,   \* of each job: "none", "registered" or "terminated"
    count,   \* the number each was registered with
    heard,   \* the tasks the service has heard of
    missed,  \* the tasks it may have missed because a post went wrong
    trouble  \* has a post gone wrong?

vars == <<phase, count, heard, missed, trouble>>

InTurn(j) == trouble' \/ phase[j] = "registered"

Register(j) ==
    /\ phase' = [phase EXCEPT ![j] = "registered"]
    /\ count' = [count EXCEPT ![j] = Cardinality(TasksOf[j])]
    /\ UNCHANGED <<heard, missed>>

Hear(j, t) ==
    /\ InTurn(j)
    /\ heard' = heard \cup {t}
    /\ UNCHANGED <<phase, count, missed>>

Miss(t) ==
    /\ trouble'
    /\ heard' \in {heard, heard \cup {t}}
    /\ missed' = missed \cup {t}
    /\ UNCHANGED <<phase, count>>

Terminate(j) ==
    /\ InTurn(j)
    /\ TasksOf[j] \subseteq heard \cup missed \cup Quiet
    /\ phase' = [phase EXCEPT ![j] = "terminated"]
    /\ UNCHANGED <<count, heard, missed>>

GoWrong == trouble' /\ UNCHANGED <<phase, count, heard, missed>>

Init ==
    /\ phase = [j \in Jobs |-> "none"]
    /\ count = [j \in Jobs |-> 0]
    /\ heard = {} /\ missed = {}
    /\ trouble = FALSE

Next ==
    /\ trouble => trouble'
    /\ \/ \E j \in Jobs : \/ Register(j) \/ Terminate(j)
                          \/ \E t \in TasksOf[j] : Hear(j, t) \/ Miss(t)
       \/ GoWrong

Spec == Init /\ [][Next]_vars
=============================================================================
