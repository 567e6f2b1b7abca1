----------------------------- MODULE SharedMessage -----------------------------
(***************************************************************************)
(* ec1 of share_memory/main.cpp: a parent creates a semaphore and a shared *)
(* memory, forks the programs write and read, which use them by name, and  *)
(* relays what they print.  The message is stored in two halves, so that a *)
(* read that overlaps the write shows.  The sleep of one second between    *)
(* the two forks is not a synchronisation and not a step.                  *)
(*                                                                         *)
(* Environment: failing system calls, Ctrl+C, which nobody handles and     *)
(* which kills all three processes, and a further run once they are gone.  *)
(***************************************************************************)
EXTENDS PipeRelay

CONSTANT MaxRuns         \* bound on runs of the program

ASSUME RunsAssumption == MaxRuns \in Nat

VARIABLES
  linked,        \* names that exist: "sem", "shm"
  sem,           \* value of the semaphore
  shm,           \* content of the shared memory
  copied,        \* what the reader copied, "none" before
  mapped,        \* the reader's mmap succeeded
  runs

shared == <<linked, sem, shm>>
reading == <<copied, mapped>>
vars == <<relayVars, shared, reading, runs>>

Init ==
  /\ leaky = TRUE /\ RelayInit("sem_open")
  /\ linked = {} /\ sem = 1 /\ shm = "empty"
  /\ copied = "none" /\ mapped = FALSE
  /\ runs = 1

-------------------------------------------------------------------------------
\* Mutants: a semaphore taken without waiting, a parent that unlinks only one
\* name

WaitUnchecked(p) == Step(p, "wait", "copy") /\ sem' = 0 /\ UNCHANGED <<linked, shm, reading, runs>>
UnlinkSem ==
  /\ ParentGoto("leave", "wait_writer")
  /\ linked' = linked \ {"sem"}
  /\ UNCHANGED <<leaky, pc, out, selected, shown, failures, sem, shm, reading, runs>>

-------------------------------------------------------------------------------
\* The parent

\* An existing semaphore is opened as it is; a failure returns.
OpenSem ==
  /\ \/ /\ ParentGoto("sem_open", "shm_open")
        /\ sem' = IF "sem" \in linked THEN sem ELSE 1
        /\ linked' = linked \cup {"sem"}
        /\ UNCHANGED failures
     \/ ParentGoto("sem_open", "failed") /\ Fails /\ UNCHANGED <<sem, linked>>
  /\ UNCHANGED <<leaky, pc, out, selected, shown, shm, reading, runs>>

\* shm_open, ftruncate and the pipes; a failure leaves the names behind.
OpenShm ==
  /\ linked' \in {linked, linked \cup {"shm"}}
  /\ \/ ParentGoto("shm_open", "fork_writer") /\ "shm" \in linked' /\ UNCHANGED failures
     \/ ParentGoto("shm_open", "failed") /\ Fails
  /\ shm' = IF "shm" \in linked THEN shm ELSE "empty"
  /\ UNCHANGED <<leaky, pc, out, selected, shown, sem, reading, runs>>

Unlink ==
  /\ ParentGoto("leave", "wait_writer")
  /\ linked' = {}
  /\ UNCHANGED <<leaky, pc, out, selected, shown, failures, sem, shm, reading, runs>>

Parent ==
  \/ OpenSem \/ OpenShm \/ Unlink
  \/ /\ \/ Fork("writer", "fork_writer", "fork_reader")
        \/ Fork("reader", "fork_reader", "close")
        \/ RelayLoop
        \/ WaitPid("writer", "wait_writer", "wait_reader")
        \/ WaitPid("reader", "wait_reader", "done")
     /\ UNCHANGED <<shared, reading, runs>>

-------------------------------------------------------------------------------
\* The programs.  A failing exec or sem_open ends either; a failing mmap ends the
\* writer, while the reader goes on to read through MAP_FAILED.

OpensSem(p) ==
  /\ ProgramGoto(p, "start", IF "sem" \in linked THEN "map" ELSE "exit")
  /\ UNCHANGED <<leaky, ppc, out, selected, shown, failures, shared, reading, runs>>

Maps(p) ==
  /\ \/ /\ "shm" \in linked /\ UNCHANGED failures
        /\ ProgramGoto(p, "map", "wait")
        /\ mapped' = (p = "reader" \/ mapped)
     \/ /\ IF "shm" \in linked THEN Fails ELSE UNCHANGED failures
        /\ ProgramGoto(p, "map", IF p = "writer" THEN "exit" ELSE "wait")
        /\ UNCHANGED mapped
  /\ UNCHANGED <<leaky, ppc, out, selected, shown, shared, copied, runs>>

WaitSem(p) ==
  /\ Step(p, "wait", "copy")
  /\ sem > 0 /\ sem' = sem - 1
  /\ UNCHANGED <<linked, shm, reading, runs>>

PostSem(p) ==
  /\ Step(p, "post", "exit")
  /\ sem' = sem + 1
  /\ UNCHANGED <<linked, shm, reading, runs>>

\* write.cpp: strcpy
Stores(from, to, content) ==
  /\ Step("writer", from, to)
  /\ shm' = content
  /\ UNCHANGED <<linked, sem, reading, runs>>

\* read.cpp: strcpy, which without a mapping is a segmentation fault
Copies ==
  /\ Step("reader", "copy", IF mapped THEN "print" ELSE "gone")
  /\ copied' = IF mapped THEN shm ELSE copied
  /\ UNCHANGED <<shared, mapped, runs>>

Program(p) ==
  \/ ExecFails(p, "start") /\ UNCHANGED <<shared, reading, runs>>
  \/ OpensSem(p) \/ Maps(p) \/ WaitSem(p) \/ PostSem(p)
  \/ /\ Say(p, "print", "post", IF p = "writer" THEN "wrote" ELSE "got") \/ Step(p, "exit", "gone")
     /\ UNCHANGED <<shared, reading, runs>>

Writer == Program("writer") \/ Stores("copy", "copy_2", "half") \/ Stores("copy_2", "print", "ready")

Reader == Program("reader") \/ Copies

-------------------------------------------------------------------------------
\* The environment

Over == ppc \in {"done", "failed", "killed"} /\ \A p \in Programs : ~Alive(p)

CtrlC ==
  /\ runs < MaxRuns /\ ppc \notin {"done", "failed", "killed"}
  /\ ppc' = "killed" /\ selected' = {}
  /\ pc' = [p \in Programs |-> IF Alive(p) THEN "gone" ELSE pc[p]]
  /\ UNCHANGED <<leaky, out, shown, failures, shared, reading, runs>>

\* The names and what they stand for outlive the processes.
RunAgain ==
  /\ runs < MaxRuns /\ Over
  /\ ppc' = "sem_open" /\ pc' = [p \in Programs |-> "unborn"]
  /\ out' = [p \in Programs |-> <<>>] /\ selected' = {} /\ shown' = {}
  /\ copied' = "none" /\ mapped' = FALSE
  /\ runs' = runs + 1
  /\ UNCHANGED <<leaky, failures, shared>>

Next == Parent \/ Writer \/ Reader \/ CtrlC \/ RunAgain

SafeSpec == Init /\ [][Next]_vars

\* All three processes run; nothing forces a failure or a Ctrl+C.
Spec == SafeSpec /\ WF_vars(Parent) /\ WF_vars(Writer) /\ WF_vars(Reader)

-------------------------------------------------------------------------------
\* Every variable keeps its type; the semaphore stays binary.
TypeOK ==
  /\ RelayTypeOK
  /\ Looping \/ ppc \in {"sem_open", "shm_open", "leave", "wait_writer", "wait_reader",
                         "done", "failed", "killed"}
  /\ pc \in [Programs -> {"unborn", "start", "map", "wait", "copy", "copy_2", "print",
                          "post", "exit", "gone"}]
  /\ linked \subseteq {"sem", "shm"} /\ sem \in {0, 1}
  /\ shm \in {"empty", "half", "ready"}
  /\ mapped \in BOOLEAN

\* The reader never copies half a message, not even one that a writer killed in
\* the middle of its strcpy left behind in an earlier run.
CopiesWhole == copied # "half"

\* The types hold, and:
\* While a program still has to open the semaphore or the memory, the names are
\* there.  The parent removes them before it waits for the programs: only the
\* pipe ends that each holds of the other keep it in its loop for so long.
NamesAwaitPrograms ==
  /\ TypeOK
  /\ \A p \in Programs : pc[p] \in {"start", "map"} => linked = {"sem", "shm"}

\* Undisturbed, the parent returns, nothing is linked and both programs are gone.
Completes ==
  [](failures = 0 /\ ppc # "killed")
    => <>(ppc = "done" /\ linked = {} /\ \A p \in Programs : pc[p] = "gone")

-------------------------------------------------------------------------------
\* A statement of a comment that the code does not keep

\* main.cpp:27, read prints "Reader got": in a last run that nobody disturbs.
LastRunPrints == (runs = MaxRuns) ~> (copied # "none")
===============================================================================
