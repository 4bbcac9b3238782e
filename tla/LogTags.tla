------------------------------- MODULE LogTags -------------------------------
(***************************************************************************)
(* The log-correlation registry of src/cpp/Assistant.cpp: knownTasks maps *)
(* a numeric tag to a Task.  Writing a Task to a log line calls           *)
(* getLoggingTag (Task.cpp operator<<), which, under the write lock,       *)
(* probes from qHash(task) to the first free tag and stores the task; the *)
(* message handler installed by main.cpp then parses the tag out of the   *)
(* line and takes the entry, under the READ lock.  Any thread may log, so *)
(* handlers run concurrently.  QMap::take finds the node and then unlinks  *)
(* it in place, rebalancing the tree; nothing stops two handlers doing so  *)
(* at once under the shared lock.  That data race is modelled by one of    *)
(* its outcomes: a lookup made while another handler is unlinking may miss *)
(* its entry (take then returns null and deletes nothing).  Tree          *)
(* corruption and crashes are further outcomes, not modelled.             *)
(***************************************************************************)
EXTENDS Naturals, FiniteSets

CONSTANTS
    Threads,    \* threads that log
    Tasks,      \* Task objects
    Hash,       \* qHash of each task's address, a function Tasks -> Nat
    MaxLogs,    \* bound: task log lines per thread
    NoTask      \* the null Task pointer

ASSUME NoTask \notin Tasks

VARIABLES
    knownTasks, \* the QMap: a function from some tags to tasks
    pc,         \* each thread: "idle", "tagged", "erasing", "done"
    task,       \* the task each thread's current line is about
    tag,        \* the tag getLoggingTag gave that line
    found,      \* the task a thread's take found, or NoTask
    logs,       \* task log lines each thread has written
    created     \* tasks an Assistant has created

vars == <<knownTasks, pc, task, tag, found, logs, created>>

\* a reader is inside tasksLock, unlinking the node its take found
Readers == {th \in Threads : pc[th] = "erasing"}

\* the first tag from h upwards the map does not hold (getLoggingTag's
\* while loop; the map is finite, so the search ends)
RECURSIVE FreeFrom(_, _)
FreeFrom(m, h) == IF h \in DOMAIN m THEN FreeFrom(m, h + 1) ELSE h

\* getLoggingTag(t): lockForWrite (no reader inside), probe, store, unlock;
\* the line is then handed to the message handler
GetLoggingTag(th, t) ==
    /\ pc[th] = "idle"
    /\ t \in created
    /\ logs[th] < MaxLogs
    /\ Readers = {}
    /\ LET k == FreeFrom(knownTasks, Hash[t])
       IN /\ knownTasks' = [x \in DOMAIN knownTasks \cup {k} |->
                               IF x = k THEN t ELSE knownTasks[x]]
          /\ tag' = [tag EXCEPT ![th] = k]
    /\ task' = [task EXCEPT ![th] = t]
    /\ logs' = [logs EXCEPT ![th] = @ + 1]
    /\ pc' = [pc EXCEPT ![th] = "tagged"]
    /\ UNCHANGED <<found, created>>

\* What knownTasks.take(tag) can find: the entry, or, while another handler
\* is unlinking a node of the same tree, nothing.
Lookups(th) ==
    LET own == IF tag[th] \in DOMAIN knownTasks THEN knownTasks[tag[th]] ELSE NoTask
    IN  IF Readers \ {th} = {} THEN {own} ELSE {own, NoTask}

\* messageHandler: decode the tag, lockForRead, and knownTasks.take finds
\* the node; when there is none, take returns null and the lock is released
TakeFind(th) ==
    /\ pc[th] = "tagged"
    /\ \E t \in Lookups(th) :
          /\ found' = [found EXCEPT ![th] = t]
          /\ pc' = [pc EXCEPT ![th] = IF t = NoTask THEN "done" ELSE "erasing"]
    /\ UNCHANGED <<knownTasks, task, tag, logs, created>>

\* take unlinks the node it found and returns its task; then unlock
TakeErase(th) ==
    /\ pc[th] = "erasing"
    /\ knownTasks' = [x \in DOMAIN knownTasks \ {tag[th]} |-> knownTasks[x]]
    /\ pc' = [pc EXCEPT ![th] = "done"]
    /\ UNCHANGED <<task, tag, found, logs, created>>

\* strip the tag from the line when a task was found, and print it
EmitLine(th) ==
    /\ pc[th] = "done"
    /\ pc' = [pc EXCEPT ![th] = "idle"]
    /\ UNCHANGED <<knownTasks, task, tag, found, logs, created>>

\* Assistant::createTask: a new Task, a child of the assistant, is appended
\* to its task list; only then can a line be written about it
CreateTask(t) ==
    /\ t \notin created
    /\ created' = created \cup {t}
    /\ UNCHANGED <<knownTasks, pc, task, tag, found, logs>>

Init ==
    /\ knownTasks = [x \in {} |-> NoTask]
    /\ pc = [th \in Threads |-> "idle"]
    /\ task = [th \in Threads |-> NoTask]
    /\ tag = [th \in Threads |-> 0]
    /\ found = [th \in Threads |-> NoTask]
    /\ logs = [th \in Threads |-> 0]
    /\ created = {}

Next ==
    \/ \E t \in Tasks : CreateTask(t)
    \/ \E th \in Threads :
        \/ \E t \in Tasks : GetLoggingTag(th, t)
        \/ TakeFind(th)
        \/ TakeErase(th)
        \/ EmitLine(th)

Spec == Init /\ [][Next]_vars

(* ---------------------------------------------------------------------- *)
(* Properties                                                              *)
(* ---------------------------------------------------------------------- *)

TypeOK ==
    /\ \A x \in DOMAIN knownTasks : x \in Nat /\ knownTasks[x] \in Tasks
    /\ pc \in [Threads -> {"idle", "tagged", "erasing", "done"}]
    /\ task \in [Threads -> Tasks \cup {NoTask}]
    /\ found \in [Threads -> Tasks \cup {NoTask}]
    /\ logs \in [Threads -> 0..MaxLogs]
    /\ created \subseteq Tasks

\* A log line's tag leads the handler to the task the line was written
\* about, even when tasks share a hash and other threads log at the same
\* time (getLoggingTag's probe, the handler's take under the read lock).
ResolvesOwnTask ==
    \A th \in Threads : pc[th] \in {"erasing", "done"} => found[th] = task[th]

\* Every entry of knownTasks belongs to a log line still being handled:
\* once a line is printed its entry is gone (messageHandler's take).
EntriesBelongToLines ==
    \A x \in DOMAIN knownTasks :
        \E th \in Threads : pc[th] \in {"tagged", "erasing"} /\ tag[th] = x
=============================================================================
