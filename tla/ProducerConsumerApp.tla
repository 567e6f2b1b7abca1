-------------------------- MODULE ProducerConsumerApp --------------------------
(***************************************************************************)
(* The whole program semaphore/producer_consumer: main() creates the       *)
(* shared memory, the semaphores and the child processes, waits, and       *)
(* removes the names; SIGINT, handled by handle_sigint in main and in      *)
(* every child, may interrupt any of it.  The children themselves run the  *)
(* loops of module ProducerConsumer.                                       *)
(*                                                                         *)
(* Environment: SIGINT to the terminal's process group, to main or to one  *)
(* child alone, SIGKILL of the whole group, failing system calls, and a    *)
(* further run of the program once every process of the last one is gone.  *)
(***************************************************************************)
EXTENDS ProducerConsumer

CONSTANTS
  Main,            \* the parent process
  CreationOrder,   \* the children in the order in which main forks them
  MaxDisturbances, \* bound on signals and failing system calls
  MaxRuns          \* bound on runs of the program

ASSUME AppAssumption ==
  /\ Main \notin Children
  /\ CreationOrder \in Seq(Children)
  /\ \A j, k \in DOMAIN CreationOrder :
       CreationOrder[j] = CreationOrder[k] => j = k
  /\ {CreationOrder[k] : k \in DOMAIN CreationOrder} = Children
  /\ MaxDisturbances \in Nat /\ MaxRuns \in Nat

VARIABLES
  main_pc,         \* where main() is
  next,            \* index in CreationOrder of the next child to fork
  list,            \* CHILD_PROCESES of main
  it,              \* main's iterator into list, as a position
  copy,            \* CHILD_PROCESES as each child inherited it
  status,          \* of each child: unborn, running, zombie or reaped
  linked,          \* names of shared memory and semaphores that exist
  held,            \* those whose descriptor or pointer main has stored
  sigint, sigterm, \* processes with that signal pending
  abandoned,       \* history: a run ended without reaching its clean-up
  disturbances, runs

signals == <<sigint, sigterm>>
environment == <<abandoned, disturbances, runs>>
creation == <<next, list, copy>>
names == <<linked, held>>
appVars == <<coreVars, main_pc, creation, it, status, names, signals, environment>>

SemNames == {"sem_mutex", "sem_full", "sem_empty"}

Elements(s) == {s[k] : k \in DOMAIN s}

\* exited: return from main; interrupted: exit(0) of the handler.
MainAlive == main_pc \notin {"exited", "interrupted", "crashed"}

Running == {p \in Children : status[p] = "running"}

AppInit ==
  /\ Init
  /\ main_pc = "shm_open"
  /\ next = 1 /\ list = <<>> /\ it = 1
  /\ copy = [p \in Children |-> {}]
  /\ status = [p \in Children |-> "unborn"]
  /\ linked = {} /\ held = {}
  /\ sigint = {} /\ sigterm = {}
  /\ abandoned = FALSE
  /\ disturbances = 0 /\ runs = 1

MainGoto(from, to) == main_pc = from /\ main_pc' = to

Disturbs == disturbances < MaxDisturbances /\ disturbances' = disturbances + 1

Fails == Disturbs /\ UNCHANGED <<abandoned, runs>>

-------------------------------------------------------------------------------
\* Mutants: pop_back for erase; names that the clean-up or the handler forgets; a
\* handler that returns

EraseLast(s, k) == SubSeq(s, 1, Len(s) - 1)
ShmOnly == held \cap {"shm"}
CleanupShmOnly ==
  /\ MainGoto("cleanup", "exited")
  /\ linked' = linked \ {"shm"}
  /\ UNCHANGED <<coreVars, creation, it, status, held, signals, environment>>
HandlerReturns(p) ==
  /\ p \in sigint \cap Running
  /\ linked' = {}
  /\ sigint' = sigint \ {p}
  /\ UNCHANGED <<coreVars, main_pc, creation, it, status, held, sigterm, environment>>

-------------------------------------------------------------------------------
\* main(): set-up.  SIGINT may arrive after a call created a name and before
\* main stored the result, which is what handle_sigint looks at.

Keep(name, from, to) ==
  /\ MainGoto(from, to)
  /\ held' = held \cup {name}
  /\ UNCHANGED <<coreVars, creation, it, status, linked, signals, environment>>

ShmOpen ==
  /\ \/ /\ MainGoto("shm_open", "set_shm")
        /\ linked' = linked \cup {"shm"}
        /\ UNCHANGED environment
     \/ MainGoto("shm_open", "exited") /\ Fails /\ UNCHANGED linked
  /\ UNCHANGED <<coreVars, creation, it, status, held, signals>>

\* ftruncate, mmap and the construction of the ring; a failure leaves the name.
MapRing ==
  /\ \/ /\ MainGoto("mmap", "sem_mutex")
        /\ buffer' = [s \in Slots |-> 0] /\ write_index' = 0 /\ read_index' = 0
        /\ UNCHANGED environment
     \/ MainGoto("mmap", "exited") /\ Fails /\ UNCHANGED ringVars
  /\ UNCHANGED <<semVars, pc, i, value, history, creation, it, status, names, signals>>

\* sem_open(O_CREAT): an existing semaphore keeps the value it has.
Opened(name, sem, initial) == IF name \in linked THEN sem ELSE initial

OpenSem(name, sem, initial, set, otherwise) ==
  /\ \/ /\ MainGoto(name, set)
        /\ sem' = Opened(name, sem, initial)
        /\ linked' = linked \cup {name}
        /\ UNCHANGED environment
     \/ MainGoto(name, otherwise) /\ Fails /\ UNCHANGED <<sem, linked>>
  /\ UNCHANGED <<ringVars, pc, i, value, history, creation, it, status, held, signals>>

OpenSems ==
  \/ /\ OpenSem("sem_mutex", sem_mutex, 1, "set_mutex", "sem_full")
     /\ UNCHANGED <<sem_full, sem_empty>>
  \/ Keep("sem_mutex", "set_mutex", "sem_full")
  \/ /\ OpenSem("sem_full", sem_full, 0, "set_full", "sem_empty")
     /\ UNCHANGED <<sem_mutex, sem_empty>>
  \/ Keep("sem_full", "set_full", "sem_empty")
  \/ /\ OpenSem("sem_empty", sem_empty, BUF_SIZE, "set_empty", "check")
     /\ UNCHANGED <<sem_mutex, sem_full>>
  \/ Keep("sem_empty", "set_empty", "check")

\* What handle_sigint removes: the names whose descriptor or pointer is set.
MainNames == held

\* If a sem_open failed, main itself calls handle_sigint.
CheckSems ==
  /\ MainGoto("check", IF SemNames \subseteq held THEN "create" ELSE "interrupted")
  /\ linked' = IF SemNames \subseteq held THEN linked ELSE linked \ MainNames
  /\ UNCHANGED <<coreVars, creation, it, status, held, signals, environment>>

-------------------------------------------------------------------------------
\* main(): create_producer and create_consumer up to their fork, then the
\* push_back.  A pending signal makes the kernel restart fork, so no child is
\* forked between the arrival of SIGINT and its handler.

Fork ==
  /\ main_pc = "create" /\ next <= Len(CreationOrder) /\ Main \notin sigint
  /\ LET child == CreationOrder[next] IN
     \/ /\ main_pc' = "register"
        /\ status' = [status EXCEPT ![child] = "running"]
        /\ copy' = [copy EXCEPT ![child] = Elements(list)]
        /\ UNCHANGED <<next, environment>>
     \/ /\ Fails                       \* -1, which main does not look at
        /\ next' = next + 1
        /\ UNCHANGED <<main_pc, status, copy>>
  /\ UNCHANGED <<coreVars, list, it, names, signals>>

Register ==
  /\ MainGoto("register", "create")
  /\ list' = Append(list, CreationOrder[next])
  /\ next' = next + 1
  /\ UNCHANGED <<coreVars, copy, it, status, names, signals, environment>>

-------------------------------------------------------------------------------
\* main(): the loop that waits for the children, and the clean-up

StartWaiting ==
  /\ next > Len(CreationOrder)
  /\ MainGoto("create", "wait")
  /\ it' = 1
  /\ UNCHANGED <<coreVars, creation, status, names, signals, environment>>

WaitChild ==
  /\ it <= Len(list)
  /\ MainGoto("wait", "erase")
  /\ status[list[it]] = "zombie"
  /\ status' = [status EXCEPT ![list[it]] = "reaped"]
  /\ UNCHANGED <<coreVars, creation, it, names, signals, environment>>

EraseAt(s, k) == SubSeq(s, 1, k - 1) \o SubSeq(s, k + 1, Len(s))

\* erase(it) leaves it on the next child, and ++it then skips that one.
Erase ==
  /\ MainGoto("erase", "wait")
  /\ list' = EraseAt(list, it)
  /\ it' = it + 1
  /\ UNCHANGED <<coreVars, next, copy, status, names, signals, environment>>

\* With an odd number of children the iterator jumps over end(); what it reads
\* there is undefined, and main ends up killed or looping for ever.
PastEnd ==
  /\ it > Len(list) + 1
  /\ MainGoto("wait", "crashed")
  /\ abandoned' = TRUE
  /\ UNCHANGED <<coreVars, creation, it, status, names, signals, disturbances, runs>>

LeaveLoop ==
  /\ it = Len(list) + 1
  /\ MainGoto("wait", "cleanup")
  /\ UNCHANGED <<coreVars, creation, it, status, names, signals, environment>>

Cleanup ==
  /\ MainGoto("cleanup", "exited")
  /\ linked' = {}
  /\ UNCHANGED <<coreVars, creation, it, status, held, signals, environment>>

MainStep ==
  \/ ShmOpen \/ Keep("shm", "set_shm", "mmap") \/ MapRing \/ OpenSems \/ CheckSems
  \/ Fork \/ Register
  \/ StartWaiting \/ WaitChild \/ Erase \/ LeaveLoop \/ Cleanup

-------------------------------------------------------------------------------
\* The children: the loops, and the end of the process after the last turn.

ChildStep(p) ==
  /\ p \in Running
  /\ \/ p \in Producers /\ Producer(p)
     \/ p \in Consumers /\ Consumer(p)
  /\ status' = [status EXCEPT ![p] = IF pc'[p] = "exited" THEN "zombie" ELSE @]
  /\ UNCHANGED <<main_pc, creation, it, names, signals, environment>>

-------------------------------------------------------------------------------
\* handle_sigint: SIGTERM for every listed child, the names are removed, and the
\* process exits.

Kill(pids) == sigterm' = sigterm \cup (pids \cap Running)

MainHandlesSigint ==
  /\ Main \in sigint /\ MainAlive
  /\ Kill(Elements(list))
  /\ linked' = linked \ MainNames
  /\ main_pc' = "interrupted"
  /\ sigint' = sigint \ {Main}
  /\ UNCHANGED <<coreVars, creation, it, status, held, environment>>

\* A child runs the same handler on the list it inherited.
ChildHandlesSigint(p) ==
  /\ p \in sigint \cap Running
  /\ Kill(copy[p])
  /\ linked' = {}
  /\ status' = [status EXCEPT ![p] = "zombie"]
  /\ sigint' = sigint \ {p}
  /\ UNCHANGED <<coreVars, main_pc, creation, it, held, environment>>

\* SIGTERM has its default action, in the children only.
Terminate(p) ==
  /\ p \in sigterm \cap Running
  /\ status' = [status EXCEPT ![p] = "zombie"]
  /\ sigterm' = sigterm \ {p}
  /\ UNCHANGED <<coreVars, main_pc, creation, it, names, sigint, environment>>

-------------------------------------------------------------------------------
\* The environment

Interrupt ==
  /\ Disturbs /\ MainAlive
  /\ \E pids \in {{Main}, {Main} \cup Running} \cup {{p} : p \in Running} :
       sigint' = sigint \cup pids
  /\ UNCHANGED <<coreVars, main_pc, creation, it, status, names, sigterm, abandoned, runs>>

KillGroup ==
  /\ Disturbs /\ MainAlive
  /\ main_pc' = "crashed" /\ abandoned' = TRUE
  /\ status' = [p \in Children |-> IF p \in Running THEN "zombie" ELSE status[p]]
  /\ UNCHANGED <<coreVars, creation, it, names, signals, runs>>

\* The shared objects that are still linked outlive the processes.
RunAgain ==
  /\ runs < MaxRuns /\ ~MainAlive /\ Running = {}
  /\ main_pc' = "shm_open"
  /\ pc' = [p \in Children |-> "acquire"] /\ i' = [p \in Children |-> 0]
  /\ value' = [c \in Consumers |-> 0] /\ queue' = <<>> /\ dropped' = 0
  /\ next' = 1 /\ list' = <<>> /\ it' = 1
  /\ copy' = [p \in Children |-> {}]
  /\ status' = [p \in Children |-> "unborn"]
  /\ held' = {} /\ sigint' = {} /\ sigterm' = {}
  /\ runs' = runs + 1
  /\ UNCHANGED <<ringVars, semVars, linked, abandoned, disturbances>>

Process(p) == ChildStep(p) \/ ChildHandlesSigint(p) \/ Terminate(p)

AppNext ==
  \/ MainStep \/ PastEnd \/ MainHandlesSigint
  \/ \E p \in Children : Process(p)
  \/ Interrupt \/ KillGroup \/ RunAgain

\* Every process that can take a step, be it a signal's delivery, takes one in
\* the end; nothing forces a system call to fail or a signal to be sent.
AppFairness ==
  /\ WF_appVars(MainStep \/ MainHandlesSigint)
  /\ \A p \in Children : WF_appVars(Process(p))

AppSpec == AppInit /\ [][AppNext]_appVars /\ AppFairness

-------------------------------------------------------------------------------
\* Every variable keeps its type.  The semaphores stay within their ranges unless a
\* run was abandoned: a later one starts from the values that one left.
AppTypeOK ==
  /\ RingTypeOK
  /\ {sem_mutex, sem_full, sem_empty} \subseteq Nat
  /\ ~abandoned => TypeOK
  /\ main_pc \in {"shm_open", "set_shm", "mmap", "sem_mutex", "set_mutex", "sem_full",
                  "set_full", "sem_empty", "set_empty", "check", "create", "register",
                  "wait", "erase", "cleanup", "exited", "interrupted", "crashed"}
  /\ next \in 1 .. Len(CreationOrder) + 1
  /\ list \in Seq(Children) /\ it \in 1 .. Len(CreationOrder) + 1
  /\ copy \in [Children -> SUBSET Children]
  /\ status \in [Children -> {"unborn", "running", "zombie", "reaped"}]
  /\ linked \subseteq SemNames \cup {"shm"} /\ held \subseteq SemNames \cup {"shm"}
  /\ sigint \subseteq Children \cup {Main} /\ sigterm \subseteq Children

\* After SIGINT to main alone, the only child that may live on is one that was
\* forked but not yet in CHILD_PROCESES; every other one has SIGTERM pending.
EscapedOnlyUnregistered ==
  main_pc = "interrupted" =>
    \A p \in Running \ (sigterm \cup sigint) :
      next <= Len(CreationOrder) /\ p = CreationOrder[next]

\* The types hold, and:
\* A run that reaches its clean-up or is ended by the handler, at any point of the
\* set-up too, leaves nothing behind that the next run trips over: unless a run
\* was abandoned, the children of every run, killed ones included, keep the
\* invariants of ProducerConsumer.
CoreHolds ==
  /\ AppTypeOK
  /\ Running # {} /\ ~abandoned => MutualExclusion /\ Accounting /\ FifoUntilFirstDrop

\* Ctrl+C reaches main and all its children: every process ends, also after a
\* child was interrupted alone and took sem_mutex with it, so that its brothers
\* and main wait for ever.
InterruptEndsAll ==
  (MainAlive /\ {Main} \cup Running \subseteq sigint) ~> (~MainAlive /\ Running = {})

\* Undisturbed, the program ends: main returns and every child left its loop,
\* although main does not wait for all of them.
AppCompletes ==
  [](disturbances = 0)
    => <>(main_pc = "exited" /\ linked = {} /\ AllExited)

-------------------------------------------------------------------------------
\* A statement of a comment that the code does not keep

\* main.cpp:127, "wait for the child processes".
AllChildrenAwaited == main_pc = "cleanup" => Running = {}
===============================================================================
