------------------------------ MODULE DebugTask ------------------------------
(***************************************************************************)
(* The debugger container at work on its task files: debugger-start.sh     *)
(* runs the daemon (src/internal/debugger) once for every file, the daemon *)
(* registers the job, runs the script of every task it knows under a ten   *)
(* second timer, and tells the inspection service that it is done.         *)
(*                                                                         *)
(* Script, timer and daemon run concurrently.  A script posts its own      *)
(* result; the daemon posts one only for a script that failed, was killed  *)
(* or could not be run.  The timer kills the script and not the command    *)
(* the script is running: CombinedOutput returns only when that has ended  *)
(* too, since it holds the pipe.                                           *)
(*                                                                         *)
(* What a script finds and what a report says are left out: a report is    *)
(* the task and who sent it.                                               *)
(***************************************************************************)
EXTENDS Naturals, Sequences, FiniteSets, SequencesExt

CONSTANTS
    Files,        \* the task files of the mounted ConfigMap
    Tasks,        \* of each file the lists of task names, one per category, or Garbage
    Garbage,      \* what does not decode
    TaskMap,      \* the task names the daemon knows
    NoScript,     \* those of them whose script is not in the image
    Silent,       \* those of them whose script ends without a post
    MaxFaults,    \* bound on posts that go wrong
    MaxRestarts   \* bound on restarts of the container

(* A file names finitely many tasks, each at most once.                    *)
ASSUME TasksAssumption ==
    \A f \in Files : Tasks[f] # Garbage =>
        /\ IsFiniteSet(UNION {ToSet(list) : list \in Tasks[f]})
        /\ \A list \in Tasks[f] : list \in Seq(ToSet(list)) /\ IsInjective(list)
        /\ \A l1, l2 \in Tasks[f] :
               l1 # l2 => ToSet(l1) \cap ToSet(l2) = {}
ASSUME ScriptsAssumption ==
    NoScript \subseteq TaskMap /\ Silent \subseteq TaskMap \ NoScript
ASSUME BoundsAssumption == MaxFaults \in Nat /\ MaxRestarts \in Nat

VARIABLES
    files,     \* the files debugger-start.sh has still to hand out
    daemon,    \* the daemon: where it is, its file, the lists to do, the list it is at
    proc,      \* the script of the task at hand and the command it is running
    expired,   \* the ten seconds of the task at hand are over
    service,   \* what the inspection service has accepted
    lost,      \* tasks whose fallback report was not delivered for certain
    faults,    \* posts that went wrong so far
    restarts   \* restarts so far

vars == <<files, daemon, proc, expired, service, lost, faults, restarts>>

Lists(f) == IF Tasks[f] = Garbage THEN {} ELSE Tasks[f]
Names(f) == UNION {ToSet(list) : list \in Lists(f)}
Valid(f) == [file : {f}, name : Names(f) \cap TaskMap]
Entry == UNION {Valid(f) : f \in Files}

(* CountValidTasks counts the names the daemon knows.                      *)
CountAllTasks(f) == Cardinality(Names(f))
CountValidTasks(f) == Cardinality(Names(f) \cap TaskMap)

NoDaemon == [pc |-> "shell"]
NoProc == [bash |-> "gone", command |-> "none"]

Job == [pc : {"register", "next", "wait", "report", "terminate"},
        file : Files,
        todo : SUBSET UNION {Lists(f) : f \in Files},
        list : Seq(UNION {Names(f) : f \in Files})]

(* The code counts once bash has gone; that of a killed one is not 0.      *)
Script == [task : Entry, bash : {"alive", "gone"}, code : {0, 1, 100},
           command : {"none", "check", "curl"}]

Service == [jobcount : [Files -> Nat],
            phase : [Files -> {"none", "registered", "terminated"}],
            reports : SUBSET [task : Entry, by : {"script", "daemon"}]]

Task == [file |-> daemon.file, name |-> Head(daemon.list)]

-----------------------------------------------------------------------------
(* Posts.  One may be refused with an error status, fail before the        *)
(* service has it, or be accepted and its answer lost.                     *)

Answers == {"ok"} \cup
           IF faults < MaxFaults THEN {"refused", "failed", "lost"} ELSE {}

Answered(a) == /\ a \in Answers
               /\ faults' = IF a = "ok" THEN faults ELSE faults + 1

Accept(a, s) == service' = IF a \in {"ok", "lost"} THEN s ELSE service

(* PostJSONString is content with any answer, whatever its status.         *)
PostFailed(a) == a \in {"failed", "lost"}

(* send_post of the scripts is not.                                        *)
send_post(a) == IF a = "ok" THEN 0 ELSE 100

WithReport(t, who) ==
    [service EXCEPT !.reports = @ \cup {[task |-> t, by |-> who]}]

-----------------------------------------------------------------------------
(* debugger-start.sh and the daemon.  CountAllTasks, SkipCategory,         *)
(* RunUnchecked, TimeoutWithoutKill, OutputOfBash and ResultWithoutPost    *)
(* are slips a maintainer could make.                                      *)

(* The next file: the daemon leaves a file alone that does not decode or   *)
(* names no task it knows.                                                 *)
StartDebugger(f) ==
    /\ daemon.pc = "shell"
    /\ f \in files
    /\ files' = files \ {f}
    /\ daemon' = IF CountValidTasks(f) = 0 THEN NoDaemon
                 ELSE [pc |-> "register", file |-> f, todo |-> Lists(f), list |-> <<>>]
    /\ UNCHANGED <<proc, expired, service, lost, faults, restarts>>

Register(a) ==
    /\ daemon.pc = "register"
    /\ Answered(a)
    /\ Accept(a, [service EXCEPT !.jobcount[daemon.file] = CountValidTasks(daemon.file),
                                 !.phase[daemon.file] = "registered"])
    /\ daemon' = IF PostFailed(a) THEN NoDaemon ELSE [daemon EXCEPT !.pc = "next"]
    /\ UNCHANGED <<files, proc, expired, lost, restarts>>

(* Go visits the categories in any order.                                  *)
NextCategory ==
    /\ daemon.pc = "next"
    /\ daemon.list = <<>>
    /\ IF daemon.todo = {}
       THEN daemon' = [daemon EXCEPT !.pc = "terminate"]
       ELSE \E list \in daemon.todo :
               daemon' = [daemon EXCEPT !.todo = @ \ {list}, !.list = list]
    /\ UNCHANGED <<files, proc, expired, service, lost, faults, restarts>>

SkipCategory ==
    /\ daemon.pc = "next"
    /\ daemon.list # <<>>
    /\ Task.name \notin TaskMap
    /\ daemon' = [daemon EXCEPT !.list = <<>>]
    /\ UNCHANGED <<files, proc, expired, service, lost, faults, restarts>>

(* A name the daemon does not know is passed over.                         *)
SkipTask ==
    /\ daemon.pc = "next"
    /\ daemon.list # <<>>
    /\ Task.name \notin TaskMap
    /\ daemon' = [daemon EXCEPT !.list = Tail(@)]
    /\ UNCHANGED <<files, proc, expired, service, lost, faults, restarts>>

RunUnchecked ==
    /\ daemon.pc = "next"
    /\ daemon.list # <<>>
    /\ IF Task.name \in NoScript \/ Task.name \notin TaskMap
       THEN /\ daemon' = [daemon EXCEPT !.pc = "report"]
            /\ UNCHANGED <<proc, expired>>
       ELSE /\ daemon' = [daemon EXCEPT !.pc = "wait"]
            /\ proc' = [task |-> Task, bash |-> "alive", code |-> 1,
                         command |-> "check"]
            /\ expired' = FALSE
    /\ UNCHANGED <<files, service, lost, faults, restarts>>

(* runTask starts the script and its timer, or cannot.                     *)
RunTask ==
    /\ daemon.pc = "next"
    /\ daemon.list # <<>>
    /\ Task.name \in TaskMap
    /\ IF Task.name \in NoScript
       THEN /\ daemon' = [daemon EXCEPT !.pc = "report"]
            /\ UNCHANGED <<proc, expired>>
       ELSE /\ daemon' = [daemon EXCEPT !.pc = "wait"]
            /\ proc' = [task |-> Task, bash |-> "alive", code |-> 1,
                      command |-> "check"]
            /\ expired' = FALSE
    /\ UNCHANGED <<files, service, lost, faults, restarts>>

TimeoutWithoutKill ==
    /\ daemon.pc = "wait"
    /\ ~expired
    /\ expired' = TRUE
    /\ UNCHANGED <<files, daemon, proc, service, lost, faults, restarts>>

(* The deadline passes: a script that still runs is killed.                *)
Timeout ==
    /\ daemon.pc = "wait"
    /\ ~expired
    /\ expired' = TRUE
    /\ proc' = [proc EXCEPT !.bash = "gone"]
    /\ UNCHANGED <<files, daemon, service, lost, faults, restarts>>

OutputOfBash == proc.bash = "gone"

(* CombinedOutput has all there is once nobody holds the pipe.             *)
CombinedOutput == proc.bash = "gone" /\ proc.command = "none"

ResultWithoutPost == IF expired \/ proc.code = 1 THEN 1 ELSE 0

(* A script that ended in time with 0 has succeeded; the deadline comes    *)
(* first.                                                                  *)
Result == IF expired THEN 1 ELSE proc.code

TaskEnds ==
    /\ daemon.pc = "wait"
    /\ CombinedOutput
    /\ daemon' = IF Result = 0 THEN [daemon EXCEPT !.pc = "next", !.list = Tail(@)]
                 ELSE [daemon EXCEPT !.pc = "report"]
    /\ UNCHANGED <<files, proc, expired, service, lost, faults, restarts>>

(* The daemon reports a failed task as false and goes on whatever becomes  *)
(* of the report.                                                          *)
ReportFailure(a) ==
    /\ daemon.pc = "report"
    /\ Answered(a)
    /\ Accept(a, WithReport(Task, "daemon"))
    /\ lost' = IF a = "ok" THEN lost ELSE lost \cup {Task}
    /\ daemon' = [daemon EXCEPT !.pc = "next", !.list = Tail(@)]
    /\ UNCHANGED <<files, proc, expired, restarts>>

Terminate(a) ==
    /\ daemon.pc = "terminate"
    /\ Answered(a)
    /\ Accept(a, [service EXCEPT !.phase[daemon.file] = "terminated"])
    /\ daemon' = NoDaemon
    /\ UNCHANGED <<files, proc, expired, lost, restarts>>

-----------------------------------------------------------------------------
(* The scripts, under set -e.                                              *)

ScriptStep == UNCHANGED <<files, daemon, expired, lost, restarts>>

(* The command a script runs ends, whether or not the script still lives.  *)
CheckEnds ==
    /\ proc.command = "check"
    /\ proc' = [proc EXCEPT !.command = "none"]
    /\ ScriptStep
    /\ UNCHANGED <<service, faults>>

(* A living script runs another command, gives up, posts what it found, or *)
(* is one that never posts.                                                *)
ScriptGoesOn ==
    /\ proc.bash = "alive"
    /\ proc.command = "none"
    /\ \/ proc' = [proc EXCEPT !.command = "check"]
       \/ proc' = [proc EXCEPT !.bash = "gone", !.code = 1]
       \/ /\ proc.task.name \notin Silent
          /\ proc' = [proc EXCEPT !.command = "curl"]
       \/ /\ proc.task.name \in Silent
          /\ proc' = [proc EXCEPT !.bash = "gone", !.code = 0]
    /\ ScriptStep
    /\ UNCHANGED <<service, faults>>

(* curl ends; the script, if it still lives, exits with what send_post     *)
(* makes of the answer.                                                    *)
CurlEnds(a) ==
    /\ proc.command = "curl"
    /\ Answered(a)
    /\ Accept(a, WithReport(proc.task, "script"))
    /\ proc' = IF proc.bash = "alive"
               THEN [proc EXCEPT !.command = "none", !.bash = "gone",
                                 !.code = send_post(a)]
               ELSE [proc EXCEPT !.command = "none"]
    /\ ScriptStep

-----------------------------------------------------------------------------
(* The container dies at any time and starts all over.                     *)
Restart ==
    /\ restarts < MaxRestarts
    /\ restarts' = restarts + 1
    /\ files' = Files
    /\ daemon' = NoDaemon
    /\ proc' = NoProc
    /\ expired' = FALSE
    /\ UNCHANGED <<service, lost, faults>>

-----------------------------------------------------------------------------
Init ==
    /\ files = Files
    /\ daemon = NoDaemon
    /\ proc = NoProc
    /\ expired = FALSE
    /\ service = [jobcount |-> [f \in Files |-> 0],
                  phase |-> [f \in Files |-> "none"],
                  reports |-> {}]
    /\ lost = {}
    /\ faults = 0
    /\ restarts = 0

Daemon ==
    \/ \E f \in Files : StartDebugger(f)
    \/ NextCategory \/ SkipTask \/ RunTask \/ TaskEnds

Posts == \E a \in Answers : Register(a) \/ ReportFailure(a) \/ Terminate(a)

Curl == \E a \in Answers : CurlEnds(a)

Next == Daemon \/ Posts \/ Timeout \/ CheckEnds \/ ScriptGoesOn \/ Curl \/ Restart

(* Daemon and timer run.  Nothing says that a script or a command of it    *)
(* ends, nor that a post is answered: curl and the daemon's client have no *)
(* timeout.                                                                *)
Fairness == WF_vars(Daemon) /\ WF_vars(Timeout)

Safe == Init /\ [][Next]_vars
Spec == Safe /\ Fairness

-----------------------------------------------------------------------------
(* Properties.                                                             *)

(* Each variable is of its type: scripts and reports are of tasks of their *)
(* file which the daemon knows (StartDebugger, runTask).                   *)
TypeOK ==
    /\ files \subseteq Files
    /\ daemon \in Job \cup {NoDaemon}
    /\ proc \in Script \cup {NoProc}
    /\ expired \in BOOLEAN
    /\ service \in Service
    /\ lost \subseteq Entry
    /\ faults \in Nat
    /\ restarts \in Nat

Accounted(t) == \/ \E r \in service.reports : r.task = t
                \/ t \in lost
                \/ t.name \in Silent

Reported(f) == {t \in Valid(f) : \E r \in service.reports : r.task = t}

(* When a job is terminated the service has a report of every task, except *)
(* those whose script ends well without one and those whose fallback       *)
(* report went astray: a script that crashed, was killed at any point or   *)
(* could not post is reported by the daemon (StartDebugger).               *)
AccountedFor ==
    \A f \in Files : service.phase[f] = "terminated" =>
        \A t \in Valid(f) : Accounted(t)

(* If no post went wrong, the service can tell a complete job: the number  *)
(* registered is that of the tasks it hears of, and of the silent ones     *)
(* (CountValidTasks against the loop of StartDebugger).                    *)
CountMatches ==
    \A f \in Files : service.phase[f] = "terminated" /\ faults = 0 =>
        /\ service.jobcount[f] >= Cardinality(Reported(f))
        /\ service.jobcount[f] <=
               Cardinality(Reported(f) \cup {t \in Valid(f) : t.name \in Silent})

(* If no post went wrong, no report arrives after its job was terminated:  *)
(* a killed script's curl is waited for (runTask).                         *)
NoLateReport ==
    [][faults' = 0 => \A r \in service'.reports \ service.reports :
           service.phase[r.task.file] = "registered"]_service

(* What the service sees of all this is the abstract inspection, whatever  *)
(* scripts, timer, posts and restarts do (StartDebugger, runTask).         *)
Inspected == INSTANCE Inspection WITH
    Jobs <- Files,
    TasksOf <- [f \in Files |-> Valid(f)],
    Quiet <- {t \in Entry : t.name \in Silent},
    phase <- service.phase,
    count <- service.jobcount,
    heard <- {r.task : r \in service.reports},
    missed <- lost,
    trouble <- faults > 0

ImplementsInspection == Inspected!Spec

(* The container rests after its files; if no post went wrong, every job   *)
(* with a task to do has been registered and terminated.                   *)
AtRest ==
    /\ daemon.pc = "shell" /\ files = {}
    /\ faults = 0 => \A f \in Files :
           CountValidTasks(f) # 0 => service.phase[f] = "terminated"

(* The daemon waits for the answer to a post, or for a command that goes   *)
(* on after its script was killed.                                         *)
Held ==
    \/ daemon.pc \in {"register", "report", "terminate"}
    \/ daemon.pc = "wait" /\ expired /\ proc.bash = "gone" /\ proc.command # "none"

(* The container gets through its files, unless a post is never answered   *)
(* or a command never ends: a script that runs one command after another,  *)
(* or hangs between them, does not hold it, and nothing in the daemon does *)
(* (StartDebugger, runTask).                                               *)
JobsEnd == <>[]AtRest \/ <>[]Held
=============================================================================
