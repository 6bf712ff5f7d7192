--------------------------- MODULE DebugTaskProofs ---------------------------
(***************************************************************************)
(* Proofs about DebugTask: when a job is terminated, every task is         *)
(* accounted for at the service, as many as were registered, and no report *)
(* comes late while no post goes wrong, whatever the files, scripts,       *)
(* answers and restarts are; which together implement the abstract         *)
(* Inspection.                                                             *)
(***************************************************************************)
EXTENDS DebugTask, SequenceTheorems, FiniteSetTheorems, TLAPS

AllLists == UNION {Lists(f) : f \in Files}
AllNames == UNION {Names(f) : f \in Files}

LEMMA ListsAreSequences == \A f \in Files : \A list \in Lists(f) : list \in Seq(AllNames)
<1> SUFFICES ASSUME NEW f \in Files, NEW list \in Lists(f)
             PROVE  list \in Seq(AllNames)
  OBVIOUS
<1>1. list \in Seq(ToSet(list))
  BY TasksAssumption DEF Lists
<1>2. ToSet(list) \subseteq AllNames
  BY DEF AllNames, Names
<1> QED
  BY <1>1, <1>2, SeqMonotonic

(* A name of a list is its head or in its tail.                            *)
LEMMA HeadOrTail ==
    ASSUME NEW S, NEW s \in Seq(S), s # <<>>
    PROVE  /\ Head(s) \in ToSet(s)
           /\ Tail(s) \in Seq(S)
           /\ ToSet(s) = {Head(s)} \cup ToSet(Tail(s))
<1>1. /\ Tail(s) \in Seq(S)
      /\ Len(Tail(s)) = Len(s) - 1
      /\ \A i \in 1..Len(Tail(s)) : Tail(s)[i] = s[i+1]
  BY HeadTailProperties
<1>2. /\ Len(s) \in Nat \ {0}
      /\ DOMAIN s = 1..Len(s)
      /\ DOMAIN Tail(s) = 1..Len(Tail(s))
      /\ Head(s) = s[1]
  BY <1>1, EmptySeq, LenProperties
<1>3. ASSUME NEW i \in DOMAIN s
      PROVE  s[i] \in {Head(s)} \cup ToSet(Tail(s))
  <2>1. CASE i = 1
    BY <1>2, <2>1
  <2>2. CASE i # 1
    <3>1. i - 1 \in DOMAIN Tail(s) /\ Tail(s)[i-1] = s[i]
      BY <1>1, <1>2, <2>2
    <3> QED
      BY <3>1 DEF ToSet
  <2> QED
    BY <2>1, <2>2
<1>4. ASSUME NEW i \in DOMAIN Tail(s)
      PROVE  Tail(s)[i] \in ToSet(s)
  <2>1. i + 1 \in DOMAIN s /\ Tail(s)[i] = s[i+1]
    BY <1>1, <1>2
  <2> QED
    BY <2>1 DEF ToSet
<1>5. Head(s) \in ToSet(s)
  BY <1>2 DEF ToSet
<1> QED
  BY <1>1, <1>3, <1>4, <1>5 DEF ToSet

-----------------------------------------------------------------------------
(* The inductive invariant.                                                *)

Running == daemon.pc \in {"next", "wait", "report", "terminate"}

(* The daemon works on names of its file; it is at a task it knows while   *)
(* that runs or is reported, and no script lives but the one it waits for. *)
PlaceInv ==
    /\ daemon.pc # "shell" => /\ daemon \in Job
                              /\ daemon.todo \subseteq Lists(daemon.file)
                              /\ ToSet(daemon.list) \subseteq Names(daemon.file)
    /\ daemon.pc = "register" => daemon.todo = Lists(daemon.file)
    /\ daemon.pc = "terminate" => daemon.todo = {} /\ daemon.list = <<>>
    /\ daemon.pc \in {"wait", "report"} => daemon.list # <<>> /\ Task.name \in TaskMap
    /\ daemon.pc = "wait" => proc \in Script /\ proc.task = Task
    /\ daemon.pc # "wait" => proc.command = "none" /\ proc.bash = "gone"

(* Every task is accounted for or still to come; a script leaves with 0    *)
(* only if its task is.                                                    *)
AccountInv ==
    /\ Running => \A t \in Valid(daemon.file) :
           \/ Accounted(t)
           \/ t.name \in ToSet(daemon.list)
           \/ \E list \in daemon.todo : t.name \in ToSet(list)
    /\ daemon.pc = "wait" /\ proc.code = 0 => Accounted(Task)
    /\ AccountedFor

(* As long as no post went wrong the service knows of the job.             *)
RegisteredInv ==
    Running /\ faults = 0 => service.phase[daemon.file] = "registered"

Inv == TypeOK /\ PlaceInv /\ AccountInv /\ RegisteredInv

-----------------------------------------------------------------------------
(* The task at hand is a task of its file.                                 *)
LEMMA TaskIsEntry ==
    ASSUME PlaceInv, daemon.pc \in {"wait", "report"}
    PROVE  Task \in Valid(daemon.file) /\ Task \in Entry /\ Task.file = daemon.file
<1>1. /\ daemon \in Job /\ daemon.list # <<>> /\ Task.name \in TaskMap
      /\ ToSet(daemon.list) \subseteq Names(daemon.file)
  BY DEF PlaceInv
<1>2. daemon.list \in Seq(AllNames) /\ daemon.file \in Files
  BY <1>1 DEF Job, AllNames
<1>3. Head(daemon.list) \in Names(daemon.file)
  BY <1>1, <1>2, HeadOrTail
<1>4. Task \in Valid(daemon.file)
  BY <1>1, <1>3 DEF Task, Valid
<1> QED
  BY <1>2, <1>4 DEF Entry, Task

(* The daemon goes on with the rest of its list.                           *)
LEMMA Advance ==
    ASSUME PlaceInv, daemon.pc \in {"next", "report", "wait"}, daemon.list # <<>>,
           daemon' = [daemon EXCEPT !.pc = "next", !.list = Tail(@)]
    PROVE  /\ daemon' \in Job
           /\ daemon'.pc = "next"
           /\ daemon'.file = daemon.file /\ daemon'.todo = daemon.todo
           /\ ToSet(daemon.list) = {Task.name} \cup ToSet(daemon'.list)
<1>1. daemon \in Job
  BY DEF PlaceInv
<1>2. daemon.list \in Seq(AllNames)
  BY <1>1 DEF Job, AllNames
<1>3. /\ Tail(daemon.list) \in Seq(AllNames)
      /\ ToSet(daemon.list) = {Head(daemon.list)} \cup ToSet(Tail(daemon.list))
  BY <1>2, HeadOrTail
<1> QED
  BY <1>1, <1>3 DEF Job, AllNames, Task

(* What a post changes, and what it leaves.                                *)
LEMMA Posting ==
    ASSUME TypeOK, NEW a, Answered(a), NEW s \in Service, Accept(a, s)
    PROVE  /\ faults' \in Nat /\ service' \in Service
           /\ service' \in {service, s}
           /\ faults' = 0 => faults = 0 /\ service' = s /\ a = "ok"
           /\ a = "ok" => service' = s
BY DEF TypeOK, Answered, Answers, Accept

(* Reports only grow in number, and a task accounted for stays so.         *)
LEMMA AccountedStays ==
    ASSUME service.reports \subseteq service'.reports, lost \subseteq lost'
    PROVE  \A t : Accounted(t) => Accounted(t)'
BY DEF Accounted

-----------------------------------------------------------------------------
LEMMA InitInv == Init => Inv
<1> SUFFICES ASSUME Init PROVE Inv
  OBVIOUS
<1>1. TypeOK
  BY DEF Init, TypeOK, Service
<1>2. PlaceInv /\ RegisteredInv /\ AccountInv
  BY DEF Init, PlaceInv, RegisteredInv, AccountInv, AccountedFor, Running, NoDaemon, NoProc
<1> QED
  BY <1>1, <1>2 DEF Inv

LEMMA StartDebuggerInv ==
    ASSUME Inv, NEW f \in Files, StartDebugger(f)
    PROVE  Inv'
<1> USE DEF Inv
<1>0. /\ UNCHANGED <<proc, expired, service, lost, faults, restarts>>
      /\ files' \subseteq Files
      /\ daemon.pc = "shell"
  BY DEF StartDebugger, TypeOK
<1>1. CASE daemon' = NoDaemon
  BY <1>0, <1>1 DEF TypeOK, PlaceInv, AccountInv, RegisteredInv, Running, NoDaemon,
     AccountedFor, Accounted
<1>2. CASE daemon' = [pc |-> "register", file |-> f, todo |-> Lists(f), list |-> <<>>]
  <2>1. daemon' \in Job
    BY <1>2, EmptySeq DEF Job
  <2>2. ToSet(<<>>) = {}
    BY DEF ToSet
  <2> QED
    BY <1>0, <1>2, <2>1, <2>2 DEF TypeOK, PlaceInv, AccountInv, RegisteredInv, Running,
       AccountedFor, Accounted
<1> QED
  BY <1>1, <1>2 DEF StartDebugger

(* A file has finitely many tasks.                                         *)
LEMMA FilesAreFinite == \A f \in Files : IsFiniteSet(Names(f) \cap TaskMap)
<1> SUFFICES ASSUME NEW f \in Files PROVE IsFiniteSet(Names(f) \cap TaskMap)
  OBVIOUS
<1>1. IsFiniteSet(Names(f))
  <2>1. CASE Tasks[f] = Garbage
    <3>1. Names(f) = {}
      BY <2>1 DEF Names, Lists
    <3> QED
      BY <3>1, FS_EmptySet
  <2>2. CASE Tasks[f] # Garbage
    BY <2>2, TasksAssumption DEF Names, Lists
  <2> QED
    BY <2>1, <2>2
<1> QED
  BY <1>1, FS_Subset

(* The number of valid tasks is one.                                       *)
LEMMA ValidTasksCounted == \A f \in Files : CountValidTasks(f) \in Nat
BY FilesAreFinite, FS_CardinalityType DEF CountValidTasks

(* It is the number of the tasks that are run, so no name counts twice.    *)
LEMMA CountIsNumberOfTasks ==
    ASSUME NEW f \in Files
    PROVE  IsFiniteSet(Valid(f)) /\ Cardinality(Valid(f)) = CountValidTasks(f)
<1> DEFINE names == Names(f) \cap TaskMap
           task == [n \in names |-> [file |-> f, name |-> n]]
<1>1. task \in [names -> Valid(f)]
  BY DEF Valid
<1>2. ASSUME NEW m \in names, NEW n \in names, task[m] = task[n]
      PROVE  m = n
  <2>1. task[m].name = m /\ task[n].name = n
    OBVIOUS
  <2> QED
    BY <1>2, <2>1
<1>3. ASSUME NEW t \in Valid(f)
      PROVE  \E n \in names : task[n] = t
  <2>1. t.name \in names /\ t = [file |-> f, name |-> t.name]
    BY DEF Valid
  <2> QED
    BY <2>1
<1> HIDE DEF task
<1>4. task \in Bijection(names, Valid(f))
  BY <1>1, <1>2, <1>3 DEF Bijection, Injection, Surjection, IsInjective
<1>5. ExistsBijection(names, Valid(f))
  BY <1>4 DEF ExistsBijection
<1>6. IsFiniteSet(names)
  BY FilesAreFinite
<1> QED
  BY <1>5, <1>6, FS_Bijection DEF CountValidTasks

(* Every name of a file is in one of its lists.                            *)
LEMMA ListedNames ==
    \A f \in Files : \A t \in Valid(f) : \E list \in Lists(f) : t.name \in ToSet(list)
BY DEF Valid, Names

LEMMA RegisterInv ==
    ASSUME Inv, NEW a, Register(a)
    PROVE  Inv'
<1> USE DEF Inv
<1> DEFINE s == [service EXCEPT !.jobcount[daemon.file] = CountValidTasks(daemon.file),
                                !.phase[daemon.file] = "registered"]
<1>0. /\ UNCHANGED <<files, proc, expired, lost, restarts>>
      /\ daemon.pc = "register" /\ daemon \in Job /\ daemon.file \in Files
      /\ daemon.todo = Lists(daemon.file)
      /\ Answered(a) /\ Accept(a, s)
      /\ daemon' = IF PostFailed(a) THEN NoDaemon ELSE [daemon EXCEPT !.pc = "next"]
  BY DEF Register, PlaceInv, Job
<1>1. s \in Service /\ s.reports = service.reports
      /\ s.phase = [service.phase EXCEPT ![daemon.file] = "registered"]
  <2>1. CountValidTasks(daemon.file) \in Nat
    BY <1>0, ValidTasksCounted
  <2> QED
    BY <1>0, <2>1 DEF TypeOK, Service
<1>2. /\ faults' \in Nat /\ service' \in Service
      /\ service' \in {service, s}
      /\ faults' = 0 => faults = 0 /\ service' = s /\ a = "ok"
  <2> HIDE DEF s
  <2> QED
    BY <1>0, <1>1, Posting
<1>3. service'.reports = service.reports
  BY <1>1, <1>2
<1>4. \A t : Accounted(t)' <=> Accounted(t)
  BY <1>0, <1>3 DEF Accounted
<1>5. \A f \in Files : service'.phase[f] = "terminated" => service.phase[f] = "terminated"
  <2> HIDE DEF s
  <2> QED
    BY <1>0, <1>1, <1>2 DEF TypeOK, Service
<1>6. AccountedFor'
  BY <1>4, <1>5 DEF AccountInv, AccountedFor
<1> HIDE DEF s
<1>7. CASE PostFailed(a)
  BY <1>0, <1>2, <1>6, <1>7 DEF TypeOK, PlaceInv, AccountInv, RegisteredInv, Running, NoDaemon
<1>8. CASE ~PostFailed(a)
  <2>1. daemon' \in Job /\ daemon'.pc = "next" /\ daemon'.file = daemon.file
        /\ daemon'.todo = daemon.todo /\ daemon'.list = daemon.list
    BY <1>0, <1>8 DEF Job
  <2>2. TypeOK'
    BY <1>0, <1>2, <2>1 DEF TypeOK
  <2>3. PlaceInv'
    BY <1>0, <2>1 DEF PlaceInv
  <2>4. AccountInv'
    BY <1>0, <1>6, <2>1, ListedNames DEF AccountInv
  <2>5. RegisteredInv'
    BY <1>0, <1>1, <1>2, <2>1 DEF RegisteredInv, TypeOK, Service
  <2> QED
    BY <2>2, <2>3, <2>4, <2>5
<1> QED
  BY <1>7, <1>8

(* A step that leaves service and lost alone accounts for what it did.     *)
LEMMA AccountedUnchanged ==
    ASSUME UNCHANGED <<service, lost>>
    PROVE  /\ \A t : Accounted(t)' <=> Accounted(t)
           /\ AccountedFor' <=> AccountedFor
BY DEF Accounted, AccountedFor

LEMMA NextCategoryInv ==
    ASSUME Inv, NextCategory
    PROVE  Inv'
<1> USE DEF Inv
<1>0. /\ UNCHANGED <<files, proc, expired, service, lost, faults, restarts>>
      /\ daemon.pc = "next" /\ daemon.list = <<>>
      /\ daemon \in Job /\ daemon.file \in Files
      /\ daemon.todo \subseteq Lists(daemon.file)
  BY DEF NextCategory, PlaceInv, Job
<1>1. (\A t : Accounted(t)' <=> Accounted(t)) /\ AccountedFor'
  BY <1>0, AccountedUnchanged DEF AccountInv
<1>2. ToSet(<<>>) = {}
  BY DEF ToSet
<1>3. CASE daemon.todo = {} /\ daemon' = [daemon EXCEPT !.pc = "terminate"]
  <2>1. daemon' \in Job /\ daemon'.pc = "terminate" /\ daemon'.file = daemon.file
        /\ daemon'.todo = {} /\ daemon'.list = <<>>
    BY <1>0, <1>3 DEF Job
  <2>2. TypeOK' /\ PlaceInv' /\ RegisteredInv'
    BY <1>0, <1>2, <2>1 DEF TypeOK, PlaceInv, RegisteredInv, Running
  <2>3. \A t \in Valid(daemon.file) : Accounted(t)
    BY <1>0, <1>2, <1>3 DEF AccountInv, Running
  <2>4. AccountInv'
    BY <1>1, <2>1, <2>3 DEF AccountInv
  <2> QED
    BY <2>2, <2>4
<1>4. ASSUME NEW list \in daemon.todo,
             daemon' = [daemon EXCEPT !.todo = @ \ {list}, !.list = list]
      PROVE  Inv'
  <2>1. list \in Seq(AllNames) /\ list \in Lists(daemon.file)
    BY <1>0, <1>4, ListsAreSequences
  <2>2. daemon' \in Job /\ daemon'.pc = "next" /\ daemon'.file = daemon.file
        /\ daemon'.todo = daemon.todo \ {list} /\ daemon'.list = list
    BY <1>0, <1>4, <2>1 DEF Job, AllNames
  <2>3. ToSet(list) \subseteq Names(daemon.file)
    BY <2>1 DEF Names
  <2>4. TypeOK' /\ PlaceInv' /\ RegisteredInv'
    BY <1>0, <2>1, <2>2, <2>3 DEF TypeOK, PlaceInv, RegisteredInv, Running
  <2>5. AccountInv'
    BY <1>0, <1>1, <1>2, <2>2 DEF AccountInv, Running
  <2> QED
    BY <2>4, <2>5
<1> QED
  BY <1>3, <1>4 DEF NextCategory

(* The daemon leaves a task that is accounted for or that it does not      *)
(* know.                                                                   *)
LEMMA AdvanceInv ==
    ASSUME Inv, daemon.pc \in {"next", "report", "wait"}, daemon.list # <<>>,
           daemon' = [daemon EXCEPT !.pc = "next", !.list = Tail(@)],
           proc' = proc, proc.command = "none", proc.bash = "gone",
           expired' = expired, files' = files, restarts' = restarts,
           service' \in Service, lost' \subseteq Entry, faults' \in Nat,
           service'.phase = service.phase, faults' = 0 => faults = 0,
           service.reports \subseteq service'.reports, lost \subseteq lost',
           NEW now, now = Task, Accounted(now)' \/ now.name \notin TaskMap
    PROVE  Inv'
<1> USE DEF Inv
<1>0. /\ daemon \in Job /\ daemon.file \in Files
      /\ daemon.todo \subseteq Lists(daemon.file)
      /\ ToSet(daemon.list) \subseteq Names(daemon.file)
  BY DEF PlaceInv, Job
<1>1. /\ daemon' \in Job
      /\ daemon'.pc = "next"
      /\ daemon'.file = daemon.file /\ daemon'.todo = daemon.todo
      /\ ToSet(daemon.list) = {Task.name} \cup ToSet(daemon'.list)
  BY Advance
<1>2. \A t : Accounted(t) => Accounted(t)'
  BY AccountedStays
<1>3. TypeOK'
  BY <1>1 DEF TypeOK
<1>4. PlaceInv'
  BY <1>0, <1>1 DEF PlaceInv
<1>5. RegisteredInv'
  BY <1>1 DEF RegisteredInv, Running
<1>6. AccountedFor'
  BY <1>2 DEF AccountInv, AccountedFor
<1>7. ASSUME NEW t \in Valid(daemon.file)
      PROVE  \/ Accounted(t)'
             \/ t.name \in ToSet(daemon'.list)
             \/ \E list \in daemon'.todo : t.name \in ToSet(list)
  <2>1. \/ Accounted(t)
        \/ t.name \in ToSet(daemon.list)
        \/ \E list \in daemon.todo : t.name \in ToSet(list)
    BY DEF AccountInv, Running
  <2>2. CASE t.name = Task.name
    <3>1. t = now /\ t.name \in TaskMap
      BY <2>2 DEF Valid, Task
    <3> QED
      BY <3>1
  <2> QED
    BY <1>1, <1>2, <2>1, <2>2
<1>8. AccountInv'
  BY <1>1, <1>6, <1>7 DEF AccountInv
<1> QED
  BY <1>3, <1>4, <1>5, <1>8

LEMMA SkipTaskInv == Inv /\ SkipTask => Inv'
<1> SUFFICES ASSUME Inv, SkipTask PROVE Inv'
  OBVIOUS
<1>1. service \in Service /\ lost \subseteq Entry /\ faults \in Nat
      /\ proc.command = "none" /\ proc.bash = "gone"
  BY DEF SkipTask, Inv, TypeOK, PlaceInv
<1>2. PICK now : now = Task
  OBVIOUS
<1>3. now.name \notin TaskMap
  BY <1>2 DEF SkipTask
<1> QED
  BY <1>1, <1>2, <1>3, AdvanceInv DEF SkipTask

LEMMA RunTaskInv == Inv /\ RunTask => Inv'
<1> SUFFICES ASSUME Inv, RunTask PROVE Inv'
  OBVIOUS
<1> USE DEF Inv
<1>0. /\ UNCHANGED <<files, service, lost, faults, restarts>>
      /\ daemon.pc = "next" /\ daemon.list # <<>> /\ Task.name \in TaskMap
      /\ daemon \in Job /\ daemon.file \in Files
  BY DEF RunTask, PlaceInv, Job
<1>1. (\A t : Accounted(t)' <=> Accounted(t)) /\ AccountedFor'
  BY <1>0, AccountedUnchanged DEF AccountInv
<1>2. ASSUME NEW pc \in {"report", "wait"}, daemon' = [daemon EXCEPT !.pc = pc]
      PROVE  /\ daemon' \in Job /\ daemon'.pc = pc /\ daemon'.file = daemon.file
             /\ daemon'.todo = daemon.todo /\ daemon'.list = daemon.list
             /\ Task' = Task
  BY <1>0, <1>2 DEF Job, Task
<1>3. CASE daemon' = [daemon EXCEPT !.pc = "report"] /\ UNCHANGED <<proc, expired>>
  BY <1>0, <1>1, <1>2, <1>3 DEF TypeOK, PlaceInv, AccountInv, RegisteredInv, Running
<1>4. CASE /\ daemon' = [daemon EXCEPT !.pc = "wait"]
           /\ proc' = [task |-> Task, bash |-> "alive", code |-> 1, command |-> "check"]
           /\ expired' = FALSE
  <2>1. Task \in Entry
    <3>1. daemon.list \in Seq(AllNames)
      BY <1>0 DEF Job, AllNames
    <3>2. Head(daemon.list) \in Names(daemon.file)
      BY <1>0, <3>1, HeadOrTail DEF PlaceInv
    <3>3. Task \in Valid(daemon.file)
      BY <1>0, <3>2 DEF Task, Valid
    <3> QED
      BY <1>0, <3>3 DEF Entry
  <2>2. proc' \in Script /\ proc'.code = 1 /\ proc'.task = Task
    BY <1>4, <2>1 DEF Script
  <2>3. TypeOK' /\ PlaceInv' /\ RegisteredInv'
    BY <1>0, <1>2, <1>4, <2>2 DEF TypeOK, PlaceInv, RegisteredInv, Running
  <2>4. AccountInv'
    BY <1>0, <1>1, <1>2, <1>4, <2>2 DEF AccountInv, Running
  <2> QED
    BY <2>3, <2>4
<1> QED
  BY <1>3, <1>4 DEF RunTask

LEMMA TimeoutInv == Inv /\ Timeout => Inv'
<1> SUFFICES ASSUME Inv, Timeout PROVE Inv'
  OBVIOUS
<1> USE DEF Inv
<1>0. /\ UNCHANGED <<files, daemon, service, lost, faults, restarts>>
      /\ daemon.pc = "wait" /\ Task' = Task
      /\ proc \in Script /\ proc.task = Task
  BY DEF Timeout, PlaceInv, Task
<1>1. proc' \in Script /\ proc'.task = proc.task /\ proc'.code = proc.code
  BY <1>0 DEF Timeout, Script
<1>2. (\A t : Accounted(t)' <=> Accounted(t)) /\ AccountedFor'
  BY <1>0, AccountedUnchanged DEF AccountInv
<1>3. TypeOK' /\ PlaceInv' /\ RegisteredInv'
  BY <1>0, <1>1 DEF TypeOK, PlaceInv, RegisteredInv, Running, Timeout
<1>4. AccountInv'
  BY <1>0, <1>1, <1>2 DEF AccountInv, Running
<1> QED
  BY <1>3, <1>4

LEMMA TaskEndsInv == Inv /\ TaskEnds => Inv'
<1> SUFFICES ASSUME Inv, TaskEnds PROVE Inv'
  OBVIOUS
<1>9. PICK now : now = Task
  OBVIOUS
<1>0. /\ UNCHANGED <<files, proc, expired, service, lost, faults, restarts>>
      /\ daemon.pc = "wait" /\ proc.bash = "gone" /\ proc.command = "none"
      /\ daemon \in Job /\ daemon.file \in Files
      /\ daemon.list # <<>> /\ Task.name \in TaskMap
  BY DEF TaskEnds, CombinedOutput, Inv, PlaceInv, Job
<1>1. (\A t : Accounted(t)' <=> Accounted(t)) /\ AccountedFor'
  BY <1>0, AccountedUnchanged DEF Inv, AccountInv
<1>2. CASE Result = 0 /\ daemon' = [daemon EXCEPT !.pc = "next", !.list = Tail(@)]
  <2>1. proc.code = 0
    BY <1>2, 1 # 0 DEF Result
  <2>2. Accounted(now)
    BY <1>0, <1>9, <2>1 DEF Inv, AccountInv
  <2>3. Accounted(now)'
    BY <2>2, <1>0 DEF Accounted
  <2>4. service \in Service /\ lost \subseteq Entry /\ faults \in Nat
    BY DEF Inv, TypeOK
  <2> QED
    BY <1>0, <1>2, <1>9, <2>3, <2>4, AdvanceInv
<1>3. CASE daemon' = [daemon EXCEPT !.pc = "report"]
  <2>1. daemon' \in Job /\ daemon'.pc = "report" /\ daemon'.file = daemon.file
        /\ daemon'.todo = daemon.todo /\ daemon'.list = daemon.list /\ Task' = Task
    BY <1>0, <1>3 DEF Job, Task
  <2>2. TypeOK' /\ PlaceInv' /\ RegisteredInv'
    BY <1>0, <2>1 DEF Inv, TypeOK, PlaceInv, RegisteredInv, Running
  <2>3. AccountInv'
    BY <1>0, <1>1, <2>1 DEF Inv, AccountInv, Running
  <2> QED
    BY <2>2, <2>3 DEF Inv
<1> QED
  BY <1>2, <1>3 DEF TaskEnds

(* A report of a task of some file is one the service takes.               *)
LEMMA ReportIsAccepted ==
    ASSUME TypeOK, NEW t \in Entry, NEW who \in {"script", "daemon"}
    PROVE  /\ WithReport(t, who) \in Service
           /\ WithReport(t, who).phase = service.phase
           /\ service.reports \subseteq WithReport(t, who).reports
           /\ WithReport(t, who).reports \subseteq
                  service.reports \cup {[task |-> t, by |-> who]}
           /\ \E r \in WithReport(t, who).reports : r.task = t
<1> DEFINE rep == [task |-> t, by |-> who]
<1>1. rep \in [task : Entry, by : {"script", "daemon"}] /\ rep.task = t
  OBVIOUS
<1>2. WithReport(t, who).reports = service.reports \cup {rep}
  BY DEF TypeOK, Service, WithReport
<1> HIDE DEF rep
<1>3. WithReport(t, who).phase = service.phase
      /\ WithReport(t, who) \in Service
  <2>1. service.reports \cup {rep} \in SUBSET [task : Entry, by : {"script", "daemon"}]
    BY <1>1 DEF TypeOK, Service
  <2>2. WithReport(t, who) = [service EXCEPT !.reports = service.reports \cup {rep}]
    BY DEF WithReport, rep
  <2> QED
    BY <2>1, <2>2 DEF TypeOK, Service
<1> QED
  BY <1>1, <1>2, <1>3 DEF rep

LEMMA ReportFailureInv ==
    ASSUME Inv, NEW a, ReportFailure(a)
    PROVE  Inv'
<1>1. PICK now : now = Task
  OBVIOUS
<1>2. /\ UNCHANGED <<files, proc, expired, restarts>>
      /\ daemon.pc = "report" /\ daemon.list # <<>>
      /\ proc.command = "none" /\ proc.bash = "gone"
      /\ daemon' = [daemon EXCEPT !.pc = "next", !.list = Tail(@)]
      /\ Answered(a) /\ Accept(a, WithReport(now, "daemon"))
      /\ lost' = IF a = "ok" THEN lost ELSE lost \cup {now}
  BY <1>1 DEF ReportFailure, Inv, PlaceInv
<1>3. now \in Entry
  BY <1>1, <1>2, TaskIsEntry DEF Inv
<1>4. /\ WithReport(now, "daemon") \in Service
      /\ WithReport(now, "daemon").phase = service.phase
      /\ service.reports \subseteq WithReport(now, "daemon").reports
      /\ \E r \in WithReport(now, "daemon").reports : r.task = now
  BY <1>3, ReportIsAccepted DEF Inv
<1>5. /\ faults' \in Nat /\ service' \in Service
      /\ service' \in {service, WithReport(now, "daemon")}
      /\ faults' = 0 => faults = 0
      /\ a = "ok" => service' = WithReport(now, "daemon")
  BY <1>2, <1>4, Posting DEF Inv
<1>6. Accounted(now)'
  BY <1>2, <1>4, <1>5 DEF Accounted
<1>7. lost' \subseteq Entry /\ lost \subseteq lost'
  BY <1>2, <1>3 DEF Inv, TypeOK
<1>8. service'.phase = service.phase /\ service.reports \subseteq service'.reports
  BY <1>4, <1>5
<1> QED
  BY <1>1, <1>2, <1>5, <1>6, <1>7, <1>8, AdvanceInv

(* Nothing is left to do when the daemon terminates the job.               *)
LEMMA AllAccounted ==
    ASSUME Inv, daemon.pc = "terminate"
    PROVE  \A t \in Valid(daemon.file) : Accounted(t)
<1>1. daemon.todo = {} /\ daemon.list = <<>> /\ ToSet(<<>>) = {}
  BY DEF Inv, PlaceInv, ToSet
<1> QED
  BY <1>1 DEF Inv, AccountInv, Running

LEMMA TerminateInv ==
    ASSUME Inv, NEW a, Terminate(a)
    PROVE  Inv'
<1> DEFINE s == [service EXCEPT !.phase[daemon.file] = "terminated"]
<1>1. /\ UNCHANGED <<files, proc, expired, lost, restarts>>
      /\ daemon.pc = "terminate" /\ daemon.file \in Files
      /\ daemon.todo = {} /\ daemon.list = <<>>
      /\ Answered(a) /\ Accept(a, s) /\ daemon' = NoDaemon
      /\ proc.command = "none" /\ proc.bash = "gone"
  BY DEF Terminate, Inv, PlaceInv, Job
<1>2. s \in Service /\ s.reports = service.reports
      /\ s.phase = [service.phase EXCEPT ![daemon.file] = "terminated"]
  BY <1>1 DEF Inv, TypeOK, Service
<1> HIDE DEF s
<1>3. faults' \in Nat /\ service' \in Service /\ service' \in {service, s}
  BY <1>1, <1>2, Posting DEF Inv
<1>4. service'.reports = service.reports
  BY <1>2, <1>3
<1>5. \A t : Accounted(t)' <=> Accounted(t)
  BY <1>1, <1>4 DEF Accounted
<1>6. \A t \in Valid(daemon.file) : Accounted(t)
  BY <1>1, AllAccounted
<1>7. AccountedFor'
  <2> SUFFICES ASSUME NEW f \in Files, service'.phase[f] = "terminated"
               PROVE  \A t \in Valid(f) : Accounted(t)'
    BY DEF AccountedFor
  <2>1. CASE f = daemon.file
    BY <1>5, <1>6, <2>1
  <2>2. CASE f # daemon.file
    <3>1. service.phase[f] = "terminated"
      BY <1>1, <1>2, <1>3, <2>2 DEF Inv, TypeOK, Service
    <3> QED
      BY <1>5, <3>1 DEF Inv, AccountInv, AccountedFor
  <2> QED
    BY <2>1, <2>2
<1> QED
  BY <1>1, <1>3, <1>7 DEF Inv, TypeOK, PlaceInv, AccountInv, RegisteredInv, Running, NoDaemon

(* What the script and its command do keeps the invariant if it leaves     *)
(* code 0 only with a task that is accounted for.                          *)
LEMMA ScriptInv ==
    ASSUME Inv, ScriptStep, daemon.pc = "wait",
           proc' \in Script, proc'.task = proc.task,
           service' \in Service, faults' \in Nat,
           service'.phase = service.phase, faults' = 0 => faults = 0,
           service.reports \subseteq service'.reports,
           NEW now, now = Task,
           proc'.code = 0 => Accounted(now)' \/ proc.code = 0
    PROVE  Inv'
<1>1. UNCHANGED <<files, daemon, expired, lost, restarts>> /\ Task' = Task
  BY DEF ScriptStep, Task
<1>2. \A t : Accounted(t) => Accounted(t)'
  BY <1>1, AccountedStays
<1>3. TypeOK'
  BY <1>1 DEF Inv, TypeOK
<1>4. PlaceInv'
  BY <1>1 DEF Inv, PlaceInv
<1>5. RegisteredInv'
  BY <1>1 DEF Inv, RegisteredInv, Running
<1>6. AccountedFor'
  BY <1>2 DEF Inv, AccountInv, AccountedFor
<1>7. \A t \in Valid(daemon.file) :
          \/ Accounted(t)'
          \/ t.name \in ToSet(daemon.list)
          \/ \E list \in daemon.todo : t.name \in ToSet(list)
  BY <1>2 DEF Inv, AccountInv, Running
<1>8. proc'.code = 0 => Accounted(now)'
  BY <1>2 DEF Inv, AccountInv
<1>9. AccountInv'
  BY <1>1, <1>6, <1>7, <1>8 DEF AccountInv
<1> QED
  BY <1>3, <1>4, <1>5, <1>9 DEF Inv

(* Only while the daemon waits does a script live or a command run.        *)
LEMMA OnlyWhileWaiting ==
    ASSUME Inv, proc.bash = "alive" \/ proc.command # "none"
    PROVE  daemon.pc = "wait" /\ proc \in Script /\ proc.task = Task /\ service \in Service
           /\ faults \in Nat
BY DEF Inv, PlaceInv, TypeOK

LEMMA CheckEndsInv == Inv /\ CheckEnds => Inv'
<1> SUFFICES ASSUME Inv, CheckEnds PROVE Inv'
  OBVIOUS
<1>1. PICK now : now = Task
  OBVIOUS
<1>2. daemon.pc = "wait" /\ proc \in Script /\ service \in Service /\ faults \in Nat
  BY OnlyWhileWaiting DEF CheckEnds
<1>3. proc' \in Script /\ proc'.task = proc.task /\ proc'.code = proc.code
  BY <1>2 DEF CheckEnds, Script
<1> QED
  BY <1>1, <1>2, <1>3, ScriptInv DEF CheckEnds

LEMMA ScriptGoesOnInv == Inv /\ ScriptGoesOn => Inv'
<1> SUFFICES ASSUME Inv, ScriptGoesOn PROVE Inv'
  OBVIOUS
<1>1. PICK now : now = Task
  OBVIOUS
<1>2. daemon.pc = "wait" /\ proc \in Script /\ service \in Service /\ faults \in Nat
      /\ proc.task = Task
  BY OnlyWhileWaiting DEF ScriptGoesOn
<1>3. proc' \in Script /\ proc'.task = proc.task
  BY <1>2 DEF ScriptGoesOn, Script
<1>4. proc'.code = 0 => Accounted(now)' \/ proc.code = 0
  <2>1. CASE proc.task.name \in Silent
    BY <1>1, <1>2, <2>1 DEF Accounted
  <2>2. CASE proc.task.name \notin Silent
    BY <1>2, <2>2, 1 # 0 DEF ScriptGoesOn, Script
  <2> QED
    BY <2>1, <2>2
<1> QED
  BY <1>1, <1>2, <1>3, <1>4, ScriptInv DEF ScriptGoesOn

LEMMA CurlEndsInv ==
    ASSUME Inv, NEW a, CurlEnds(a)
    PROVE  Inv'
<1>1. PICK now : now = Task
  OBVIOUS
<1>2. daemon.pc = "wait" /\ proc \in Script /\ proc.task = now
  BY <1>1, OnlyWhileWaiting DEF CurlEnds
<1>3. now \in Entry
  BY <1>1, <1>2, TaskIsEntry DEF Inv
<1>4. Answered(a) /\ Accept(a, WithReport(now, "script")) /\ ScriptStep
  BY <1>2 DEF CurlEnds
<1>5. /\ WithReport(now, "script") \in Service
      /\ WithReport(now, "script").phase = service.phase
      /\ service.reports \subseteq WithReport(now, "script").reports
      /\ \E r \in WithReport(now, "script").reports : r.task = now
  BY <1>3, ReportIsAccepted DEF Inv
<1>6. /\ faults' \in Nat /\ service' \in Service
      /\ service' \in {service, WithReport(now, "script")}
      /\ faults' = 0 => faults = 0
      /\ a = "ok" => service' = WithReport(now, "script")
  BY <1>4, <1>5, Posting DEF Inv
<1>7. proc' \in Script /\ proc'.task = proc.task
      /\ proc'.code \in {proc.code, send_post(a)}
  BY <1>2 DEF CurlEnds, Script, send_post
<1>8. proc'.code = 0 => Accounted(now)' \/ proc.code = 0
  <2>1. CASE a = "ok"
    BY <1>5, <1>6, <2>1 DEF Accounted
  <2>2. CASE a # "ok"
    BY <1>7, <2>2 DEF send_post
  <2> QED
    BY <2>1, <2>2
<1>9. service'.phase = service.phase /\ service.reports \subseteq service'.reports
  BY <1>5, <1>6
<1> QED
  BY <1>1, <1>2, <1>4, <1>6, <1>7, <1>8, <1>9, ScriptInv

LEMMA RestartInv == Inv /\ Restart => Inv'
<1> SUFFICES ASSUME Inv, Restart PROVE Inv'
  OBVIOUS
<1>1. (\A t : Accounted(t)' <=> Accounted(t)) /\ AccountedFor'
  BY AccountedUnchanged DEF Restart, Inv, AccountInv
<1>2. TypeOK'
  <2>1. restarts' \in Nat
    BY DEF Restart, Inv, TypeOK
  <2>2. /\ files' = Files /\ daemon' = NoDaemon /\ proc' = NoProc /\ expired' = FALSE
        /\ service' = service /\ lost' = lost /\ faults' = faults
    BY DEF Restart
  <2>3. service \in Service /\ lost \subseteq Entry /\ faults \in Nat
    BY DEF Inv, TypeOK
  <2> QED
    BY <2>1, <2>2, <2>3 DEF TypeOK
<1>3. PlaceInv' /\ RegisteredInv'
  BY DEF Restart, PlaceInv, RegisteredInv, Running, NoDaemon, NoProc
<1>4. AccountInv'
  BY <1>1 DEF Restart, AccountInv, Running, NoDaemon
<1> QED
  BY <1>2, <1>3, <1>4 DEF Inv

LEMMA StutterInv == Inv /\ UNCHANGED vars => Inv'
<1> SUFFICES ASSUME Inv, UNCHANGED vars PROVE Inv'
  OBVIOUS
<1>1. (\A t : Accounted(t)' <=> Accounted(t)) /\ AccountedFor' /\ Task' = Task
  BY AccountedUnchanged DEF vars, Inv, AccountInv, Task
<1> QED
  BY <1>1 DEF vars, Inv, TypeOK, PlaceInv, AccountInv, RegisteredInv, Running

LEMMA NextInv == Inv /\ [Next]_vars => Inv'
BY StartDebuggerInv, RegisterInv, NextCategoryInv, SkipTaskInv, RunTaskInv, TimeoutInv,
   TaskEndsInv, ReportFailureInv, TerminateInv, CheckEndsInv, ScriptGoesOnInv, CurlEndsInv,
   RestartInv, StutterInv DEF Next, Daemon, Posts, Curl

LEMMA InductiveInv == Safe => []Inv
<1>1. Init => Inv
  BY InitInv
<1>2. Inv /\ [Next]_vars => Inv'
  BY NextInv
<1> QED
  BY <1>1, <1>2, PTL DEF Safe

-----------------------------------------------------------------------------
(* The theorems.                                                           *)

(* Every variable keeps its type (StartDebugger, runTask).                 *)
THEOREM TypeCorrect == Safe => []TypeOK
<1>1. Inv => TypeOK
  BY DEF Inv
<1> QED
  BY <1>1, InductiveInv, PTL

(* Whatever the files name, whatever scripts, timer and posts do, and      *)
(* however often the container restarts: of a terminated job every task is *)
(* reported, but for silent scripts and reports that went astray           *)
(* (StartDebugger).                                                        *)
THEOREM AccountedForHolds == Safe => []AccountedFor
<1>1. Inv => AccountedFor
  BY DEF Inv, AccountInv
<1> QED
  BY <1>1, InductiveInv, PTL

(* A report arrives while its job is registered, unless a post went wrong  *)
(* (runTask, StartDebugger).                                               *)
THEOREM NoLateReportHolds == Safe => NoLateReport
<1> DEFINE InTime == faults' = 0 => \A r \in service'.reports \ service.reports :
                         service.phase[r.task.file] = "registered"
<1>1. Inv /\ [Next]_vars => [InTime]_service
  <2> SUFFICES ASSUME Inv, [Next]_vars, service' # service, faults' = 0,
                      NEW r \in service'.reports \ service.reports
               PROVE  service.phase[r.task.file] = "registered"
    OBVIOUS
  <2>1. Next
    BY DEF vars
  <2>2. ASSUME NEW a, CurlEnds(a)
        PROVE  service.phase[r.task.file] = "registered"
    <3>1. daemon.pc = "wait" /\ proc.task = Task /\ Running
      BY <2>2, OnlyWhileWaiting DEF CurlEnds, Running
    <3>2. Task \in Entry /\ Task.file = daemon.file
      BY <3>1, TaskIsEntry DEF Inv
    <3>3. /\ service' \in {service, WithReport(Task, "script")}
          /\ faults = 0
      BY <2>2, <3>1 DEF CurlEnds, Accept, Answered, Inv, TypeOK
    <3>4. r.task = Task
      BY <3>2, <3>3, ReportIsAccepted DEF Inv
    <3> QED
      BY <3>1, <3>2, <3>3, <3>4 DEF Inv, RegisteredInv
  <2>3. ASSUME NEW a, ReportFailure(a)
        PROVE  service.phase[r.task.file] = "registered"
    <3>1. daemon.pc = "report" /\ Running
      BY <2>3 DEF ReportFailure, Running
    <3>2. Task \in Entry /\ Task.file = daemon.file
      BY <3>1, TaskIsEntry DEF Inv
    <3>3. /\ service' \in {service, WithReport(Task, "daemon")}
          /\ faults = 0
      BY <2>3 DEF ReportFailure, Accept, Answered, Inv, TypeOK
    <3>4. r.task = Task
      BY <3>2, <3>3, ReportIsAccepted DEF Inv
    <3> QED
      BY <3>1, <3>2, <3>3, <3>4 DEF Inv, RegisteredInv
  <2>4. ASSUME NEW a, Register(a) \/ Terminate(a)
        PROVE  service'.reports = service.reports
    BY <2>4 DEF Register, Terminate, Accept, Inv, TypeOK, Service
  <2> QED
    BY <2>1, <2>2, <2>3, <2>4 DEF Next, Daemon, Posts, Curl, StartDebugger, NextCategory, SkipTask,
       RunTask, TaskEnds, Timeout, CheckEnds, ScriptGoesOn, Restart
<1> QED
  BY <1>1, InductiveInv, PTL DEF Safe, NoLateReport

-----------------------------------------------------------------------------
(* The number that is registered.                                          *)

(* As long as no post went wrong no report went astray, and a job the      *)
(* service knows has the number of its tasks.                              *)
CountInv ==
    faults = 0 =>
        /\ lost = {}
        /\ \A f \in Files : service.phase[f] # "none"
               => service.jobcount[f] = CountValidTasks(f)

LEMMA InitCount == Init => CountInv
BY DEF Init, CountInv

LEMMA NextCount == Inv /\ CountInv /\ [Next]_vars => CountInv'
<1> SUFFICES ASSUME Inv, CountInv, [Next]_vars, faults' = 0 PROVE CountInv'
  BY DEF CountInv
<1>1. ASSUME faults' = faults, lost' = lost, service'.phase = service.phase,
             service'.jobcount = service.jobcount
      PROVE  CountInv'
  BY <1>1 DEF CountInv
<1>2. ASSUME NEW a, Register(a)
      PROVE  CountInv'
  <2> DEFINE s == [service EXCEPT
                      !.jobcount[daemon.file] = CountValidTasks(daemon.file),
                      !.phase[daemon.file] = "registered"]
  <2>1. /\ Answered(a) /\ Accept(a, s) /\ lost' = lost
        /\ daemon.file \in Files /\ service \in Service
    BY <1>2 DEF Register, Inv, PlaceInv, Job, TypeOK
  <2>2. /\ s \in Service
        /\ s.jobcount = [service.jobcount EXCEPT ![daemon.file] =
                             CountValidTasks(daemon.file)]
        /\ s.phase = [service.phase EXCEPT ![daemon.file] = "registered"]
    BY <2>1, ValidTasksCounted DEF Service
  <2> HIDE DEF s
  <2>3. faults = 0 /\ service' = s
    BY <2>1, <2>2, Posting DEF Inv
  <2> QED
    BY <2>1, <2>2, <2>3 DEF CountInv, Service
<1>3. ASSUME NEW a, Terminate(a)
      PROVE  CountInv'
  <2> DEFINE s == [service EXCEPT !.phase[daemon.file] = "terminated"]
  <2>1. /\ Answered(a) /\ Accept(a, s) /\ lost' = lost
        /\ daemon.file \in Files /\ service \in Service /\ Running
    BY <1>3 DEF Terminate, Inv, PlaceInv, Job, TypeOK, Running
  <2>2. /\ s \in Service /\ s.jobcount = service.jobcount
        /\ s.phase = [service.phase EXCEPT ![daemon.file] = "terminated"]
    BY <2>1 DEF Service
  <2> HIDE DEF s
  <2>3. faults = 0 /\ service' = s
    BY <2>1, <2>2, Posting DEF Inv
  <2>4. service.phase[daemon.file] = "registered"
    BY <2>1, <2>3 DEF Inv, RegisteredInv
  <2> QED
    BY <2>1, <2>2, <2>3, <2>4 DEF CountInv, Service
<1>4. ASSUME NEW t \in Entry, NEW who \in {"script", "daemon"}, NEW a,
             Answered(a), Accept(a, WithReport(t, who)),
             lost' = lost \/ a # "ok"
      PROVE  CountInv'
  <2>1. /\ WithReport(t, who) \in Service
        /\ WithReport(t, who).jobcount = service.jobcount
        /\ WithReport(t, who).phase = service.phase
    BY DEF Inv, TypeOK, Service, WithReport
  <2>2. faults = 0 /\ service' = WithReport(t, who) /\ a = "ok"
    BY <1>4, <2>1, Posting DEF Inv
  <2> QED
    BY <1>1, <1>4, <2>1, <2>2
<1>5. ASSUME NEW a, ReportFailure(a)
      PROVE  CountInv'
  <2>1. Task \in Entry
    BY <1>5, TaskIsEntry DEF ReportFailure, Inv
  <2> QED
    BY <1>4, <1>5, <2>1 DEF ReportFailure
<1>6. ASSUME NEW a, CurlEnds(a)
      PROVE  CountInv'
  <2>1. daemon.pc = "wait" /\ proc.task = Task
    BY <1>6, OnlyWhileWaiting DEF CurlEnds
  <2>2. Task \in Entry
    BY <2>1, TaskIsEntry DEF Inv
  <2> QED
    BY <1>4, <1>6, <2>1, <2>2 DEF CurlEnds, ScriptStep
<1>7. CASE UNCHANGED <<service, lost, faults>>
  BY <1>1, <1>7
<1> QED
  BY <1>2, <1>3, <1>5, <1>6, <1>7
     DEF Next, Daemon, Posts, Curl, StartDebugger, NextCategory, SkipTask, RunTask, TaskEnds,
         Timeout, CheckEnds, ScriptGoesOn, ScriptStep, Restart, vars

(* If no post went wrong, the number of tasks a terminated job was         *)
(* registered with is that of the tasks the service heard of, and of those *)
(* whose script is silent: what CountValidTasks counts is what the loop of *)
(* StartDebugger runs.                                                     *)
THEOREM CountMatchesHolds == Safe => []CountMatches
<1>1. ASSUME Inv, CountInv
      PROVE  CountMatches
  <2> SUFFICES ASSUME NEW f \in Files, service.phase[f] = "terminated", faults = 0
               PROVE  /\ service.jobcount[f] >= Cardinality(Reported(f))
                      /\ service.jobcount[f] <=
                             Cardinality(Reported(f) \cup {t \in Valid(f) : t.name \in Silent})
    BY DEF CountMatches
  <2>1. /\ IsFiniteSet(Valid(f)) /\ Cardinality(Valid(f)) \in Nat
        /\ service.jobcount[f] = Cardinality(Valid(f)) /\ lost = {}
    BY <1>1, CountIsNumberOfTasks, FS_CardinalityType DEF CountInv
  <2>2. Reported(f) \subseteq Valid(f)
    BY DEF Reported
  <2>3. Cardinality(Reported(f)) <= Cardinality(Valid(f))
    BY <2>1, <2>2, FS_Subset
  <2>4. Valid(f) = Reported(f) \cup {t \in Valid(f) : t.name \in Silent}
    BY <1>1, <2>1 DEF Inv, AccountInv, AccountedFor, Accounted, Reported
  <2> QED
    BY <2>1, <2>3, <2>4
<1>2. Inv /\ CountInv /\ [Next]_vars => CountInv'
  BY NextCount
<1> QED
  BY <1>1, <1>2, InitCount, InductiveInv, PTL DEF Safe

-----------------------------------------------------------------------------
(* The abstract inspection.                                                *)

Heard == {r.task : r \in service.reports}

LEMMA InitSimulates == Init => Inspected!Init
BY DEF Init, Inspected!Init

(* What is asked of a step: it is one of the inspection, or the inspection *)
(* does not see it.                                                        *)
Simulates == [Inspected!Next]_(Inspected!vars)

LEMMA Unseen == UNCHANGED <<service, lost, faults>> => Simulates
BY DEF Simulates, Inspected!vars

(* A post that the service does not accept goes wrong.                     *)
LEMMA NotAccepted ==
    ASSUME TypeOK, NEW a, Answered(a), a # "ok", UNCHANGED <<service, lost>>
    PROVE  Simulates
<1>1. faults \in Nat /\ faults' = faults + 1
  BY DEF TypeOK, Answered
<1>2. faults' > 0
  BY <1>1
<1> QED
  BY <1>2 DEF Simulates, Inspected!Next, Inspected!GoWrong

LEMMA TroubleLasts ==
    ASSUME TypeOK, NEW a, Answered(a)
    PROVE  /\ faults > 0 => faults' > 0
           /\ a # "ok" => faults' > 0
           /\ ~(faults' > 0) => faults = 0
BY DEF TypeOK, Answered

(* The module that is instantiated has a copy of this operator.            *)
LEMMA SameCardinality == \A S : Inspected!Cardinality(S) = Cardinality(S)
BY DEF Inspected!Cardinality, Cardinality

LEMMA RegisterSimulates ==
    ASSUME Inv, NEW a, Register(a)
    PROVE  Simulates
<1> DEFINE f == daemon.file
           s == [service EXCEPT !.jobcount[f] = CountValidTasks(f),
                                !.phase[f] = "registered"]
<1>1. /\ Answered(a) /\ Accept(a, s) /\ lost' = lost
      /\ f \in Files /\ service \in Service /\ TypeOK
  BY DEF Register, Inv, PlaceInv, Job, TypeOK
<1>2. /\ s.jobcount = [service.jobcount EXCEPT ![f] = CountValidTasks(f)]
      /\ s.phase = [service.phase EXCEPT ![f] = "registered"]
      /\ s.reports = service.reports
  BY <1>1 DEF Service
<1> HIDE DEF s
<1>3. CASE service' = s
  <2>1. CountValidTasks(f) = Inspected!Cardinality([g \in Files |-> Valid(g)][f])
    BY <1>1, CountIsNumberOfTasks, SameCardinality
  <2>2. Inspected!Register(f)
    BY <1>1, <1>2, <1>3, <2>1 DEF Inspected!Register
  <2> QED
    BY <1>1, <2>2, TroubleLasts DEF Simulates, Inspected!Next
<1>4. CASE service' = service /\ a # "ok"
  BY <1>1, <1>4, NotAccepted
<1> QED
  BY <1>1, <1>3, <1>4 DEF Accept

(* A report, of the script or of the daemon, of the task at hand.          *)
LEMMA ReportSimulates ==
    ASSUME Inv, Running, NEW t \in Valid(daemon.file), t \in Entry,
           NEW who \in {"script", "daemon"}, NEW a, Answered(a),
           Accept(a, WithReport(t, who)),
           lost' = lost \/ (a # "ok" /\ lost' = lost \cup {t})
    PROVE  Simulates
<1> DEFINE s == WithReport(t, who)
           f == daemon.file
<1>1. TypeOK /\ service \in Service /\ f \in Files
  BY DEF Inv, TypeOK, PlaceInv, Job, Running
<1>2. /\ s.jobcount = service.jobcount /\ s.phase = service.phase
      /\ s.reports = service.reports \cup {[task |-> t, by |-> who]}
  BY <1>1 DEF Service, WithReport
<1> HIDE DEF s
<1>3. service' \in {service, s} /\ (a = "ok" => service' = s)
  BY DEF Accept, s
<1>4. {r.task : r \in s.reports} = Heard \cup {t}
  <2>1. PICK new : new = [task |-> t, by |-> who]
    OBVIOUS
  <2>2. new.task = t
    BY <2>1
  <2>3. s.reports = service.reports \cup {new}
    BY <1>2, <2>1
  <2> QED
    BY <2>2, <2>3 DEF Heard
<1>5. /\ UNCHANGED <<service.phase, service.jobcount>>
      /\ Heard' \in {Heard, Heard \cup {t}}
      /\ service' = s => Heard' = Heard \cup {t}
  BY <1>2, <1>3, <1>4 DEF Heard
<1>6. t \in [g \in Files |-> Valid(g)][f]
  BY <1>1
<1>7. CASE lost' # lost
  <2>1. Inspected!Miss(t)
    BY <1>1, <1>5, <1>7, TroubleLasts DEF Inspected!Miss, Heard
  <2> QED
    BY <1>1, <1>6, <2>1, TroubleLasts DEF Simulates, Inspected!Next
<1>8. CASE lost' = lost /\ service' = s
  <2>1. faults' > 0 \/ service.phase[f] = "registered"
    BY <1>1, TroubleLasts DEF Inv, RegisteredInv
  <2>2. Inspected!Hear(f, t)
    BY <1>5, <1>8, <2>1 DEF Inspected!Hear, Inspected!InTurn, Heard
  <2> QED
    BY <1>1, <1>6, <2>2, TroubleLasts DEF Simulates, Inspected!Next
<1>9. CASE lost' = lost /\ service' # s
  BY <1>1, <1>3, <1>9, NotAccepted
<1> QED
  BY <1>7, <1>8, <1>9

LEMMA TerminateSimulates ==
    ASSUME Inv, NEW a, Terminate(a)
    PROVE  Simulates
<1> DEFINE f == daemon.file
           s == [service EXCEPT !.phase[f] = "terminated"]
<1>1. /\ Answered(a) /\ Accept(a, s) /\ lost' = lost /\ Running
      /\ f \in Files /\ service \in Service /\ TypeOK
  BY DEF Terminate, Inv, PlaceInv, Job, TypeOK, Running
<1>2. /\ s.jobcount = service.jobcount /\ s.reports = service.reports
      /\ s.phase = [service.phase EXCEPT ![f] = "terminated"]
  BY <1>1 DEF Service
<1> HIDE DEF s
<1>3. CASE service' = s
  <2>1. faults' > 0 \/ service.phase[f] = "registered"
    BY <1>1, TroubleLasts DEF Inv, RegisteredInv
  <2>2. Valid(f) \subseteq Heard \cup lost \cup {t \in Entry : t.name \in Silent}
    BY <1>1, AllAccounted DEF Terminate, Accounted, Heard, Entry
  <2>3. [g \in Files |-> Valid(g)][f] = Valid(f)
    BY <1>1
  <2>4. Inspected!Terminate(f)
    BY <1>1, <1>2, <1>3, <2>1, <2>2, <2>3
       DEF Inspected!Terminate, Inspected!InTurn, Heard
  <2> QED
    BY <1>1, <2>4, TroubleLasts DEF Simulates, Inspected!Next
<1>4. CASE service' = service /\ a # "ok"
  BY <1>1, <1>4, NotAccepted
<1> QED
  BY <1>1, <1>3, <1>4 DEF Accept

LEMMA NextSimulates == Inv /\ [Next]_vars => Simulates
<1> SUFFICES ASSUME Inv, [Next]_vars PROVE Simulates
  OBVIOUS
<1>1. ASSUME NEW a, ReportFailure(a)
      PROVE  Simulates
  <2>1. Task \in Valid(daemon.file) /\ Task \in Entry /\ Running
    BY <1>1, TaskIsEntry DEF ReportFailure, Inv, Running
  <2> QED
    BY <1>1, <2>1, ReportSimulates DEF ReportFailure
<1>2. ASSUME NEW a, CurlEnds(a)
      PROVE  Simulates
  <2>1. daemon.pc = "wait" /\ proc.task = Task
    BY <1>2, OnlyWhileWaiting DEF CurlEnds
  <2>2. Task \in Valid(daemon.file) /\ Task \in Entry /\ Running
    BY <2>1, TaskIsEntry DEF Inv, Running
  <2> QED
    BY <1>2, <2>1, <2>2, ReportSimulates DEF CurlEnds, ScriptStep
<1>3. CASE UNCHANGED <<service, lost, faults>>
  BY <1>3, Unseen
<1> QED
  BY <1>1, <1>2, <1>3, RegisterSimulates, TerminateSimulates
     DEF Next, Daemon, Posts, Curl, StartDebugger, NextCategory, SkipTask, RunTask, TaskEnds,
         Timeout, CheckEnds, ScriptGoesOn, ScriptStep, Restart, vars

(* To the service a container is the abstract inspection, whatever its     *)
(* files, scripts, timers, posts and restarts do (StartDebugger, runTask). *)
THEOREM ImplementsTheInspection == Safe => ImplementsInspection
<1>1. Inv /\ [Next]_vars => [Inspected!Next]_(Inspected!vars)
  BY NextSimulates DEF Simulates
<1> QED
  BY <1>1, InitSimulates, InductiveInv, PTL DEF Safe, ImplementsInspection, Inspected!Spec
=============================================================================
