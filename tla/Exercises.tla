------------------------------- MODULE Exercises -------------------------------
(***************************************************************************)
(* The exercises that are sequences of system calls, in the company in     *)
(* which they can be run: a program alone, or several that meet at the     *)
(* name of a queue or of a socket.                                         *)
(***************************************************************************)
EXTENDS PipeExercises, ProcessExercises, Queues, Sockets, TLC

CONSTANTS
  Companies,   \* programs that are run together, by instance
  Inputs       \* of the shell

VARIABLE program   \* what each instance runs

vars == <<program, procVars, content, queues, messages, removed, backlog>>

Programs ==
  {"Ping", "PingPong", "ListGrep", "Pipeline", "Ec1", "Ec2", "Ec3", "Ec4", "Ec5",
   "Posix", "SysV", "HelloSysV", "Server", "Client"}

\* Companies are made of these programs, the names differ, and nobody is somebody.
ASSUME CompanyAssumption ==
  /\ \A company \in Companies : company \in Seq(Programs)
  /\ {MQ_NAME, KEY, SOCKET_PATH} \subseteq Names
  /\ MQ_NAME # KEY /\ SOCKET_PATH \notin {MQ_NAME, KEY}
  /\ {P(k) : k \in 1 .. 3} \subseteq Pipe
  /\ \A p \in Procs : Up(p) \in Pipe /\ Down(p) \in Pipe
  /\ Nobody \notin Procs /\ Nobody \notin Instances /\ Nobody \notin Nat

Script(i, name) ==
  CASE name = "Ping" -> Ping         [] name = "PingPong" -> PingPong
    [] name = "ListGrep" -> ListGrep [] name = "Pipeline" -> Pipeline
    [] name = "Ec1" -> Ec1           [] name = "Ec2" -> Ec2
    [] name = "Ec3" -> Ec3           [] name = "Ec4" -> Ec4
    [] name = "Ec5" -> Ec5
    [] name = "Posix" -> Posix(i)    [] name = "SysV" -> SysV(i)
    [] name = "HelloSysV" -> HelloSysV(i)
    [] name = "Server" -> Server     [] name = "Client" -> Client(<<i, 0>>)

Init ==
  /\ PipeInit /\ QueueInit /\ SocketInit
  /\ \/ \E company \in Companies :
          /\ program = company
          /\ ProcessInit([p \in (DOMAIN company) \X {0} |-> Script(p[1], company[p[1]])])
     \/ \E lines \in Inputs :
          /\ program = IF \E n \in DOMAIN lines : lines[n] = "exit"
                         THEN <<"Shell">> ELSE <<"EndlessShell">>
          /\ ProcessInit([p \in {1} \X {0} |-> run_shell(lines)])

Step(p) ==
  /\ \/ (ProcessStep(p) \/ Getline(p)) /\ UNCHANGED <<content, queues, messages, removed, backlog>>
     \/ PipeStep(p) /\ UNCHANGED <<queues, messages, removed, backlog>>
     \/ QueueStep(p) /\ UNCHANGED <<content, backlog>>
     \/ SocketStep(p) /\ UNCHANGED <<queues, messages, removed>>
  /\ UNCHANGED program

Signal(p) == Kill(p) /\ UNCHANGED <<program, content, queues, messages, removed, backlog>>

Next == \E p \in Procs : Step(p) \/ Signal(p)

\* Every process that can go on does.
Spec == Init /\ [][Next]_vars /\ \A p \in Procs : WF_vars(Step(p))

-------------------------------------------------------------------------------
Undisturbed == failures = 0 /\ kills = 0
Runs(p, name) == p[1] \in DOMAIN program /\ program[p[1]] = name
Returned(p) == state[p] # "running" /\ state[p] # "none" /\ status[p] >= 0

\* Every variable keeps its type.  A queue never holds more than one message of
\* each run.
TypeOK ==
  /\ \A p \in Procs : IF state[p] = "running" THEN todo[p] # <<>> ELSE fds[p] = {}
  /\ state \in [Procs -> {"none", "running", "zombie", "gone", "abandoned"}]
  /\ status \in [Procs -> {SIGKILL, SIGSEGV, SIGPIPE, 0, 1, 2, 3, 42, 127}]
  /\ \A n \in Pipe : Len(content[n]) <= Capacity
  /\ \A q \in 1 .. MaxQueues : Len(messages[q]) <= Len(program)
  /\ queues \in 0 .. MaxQueues /\ removed \subseteq 1 .. queues
  /\ failures \in 0 .. MaxFailures /\ kills \in 0 .. MaxKills

\* What the last program of each pipeline has read when it ends, if nothing failed.
Expected ==
  [Ping |-> 1 :> <<1>>, PingPong |-> 0 :> <<2>> @@ 1 :> <<1>>,
   ListGrep |-> 2 :> [k \in 1 .. Lines |-> k], Pipeline |-> 4 :> [k \in 1 .. Lines |-> k]]

\* All that was written is read, in order.
OutputComplete ==
  \A p \in Procs :
    /\ Undisturbed /\ p[1] \in DOMAIN program /\ program[p[1]] \in DOMAIN Expected
    /\ p[2] \in DOMAIN Expected[program[p[1]]] /\ state[p] \notin {"none", "running"}
    => got[p] = Expected[program[p[1]]][p[2]]

\* SIGPIPE ends nobody, the parent least of all, unless a reader failed or was
\* killed before; a client is another matter (LostOnlyBehindAnother).
SigpipeOnlyAfter ==
  \A p \in Procs : status[p] = SIGPIPE /\ ~Runs(p, "Client") => ~Undisturbed

\* A pipe delivers: nobody stops reading, or is stopped, before the writers are
\* done, and nobody writes after the readers are.
PipesDeliver == OutputComplete /\ SigpipeOnlyAfter

Reporting == {"Ping", "PingPong", "Ec1", "Ec2", "Ec3", "Ec4", "Ec5"}

\* Where no call failed, the parent that returns has printed the exit code of each
\* child that returned one, and none for a child that a signal ended.
ReportsEveryChild ==
  \A p \in Procs :
    /\ p = Main(p) /\ p[1] \in DOMAIN program /\ program[p[1]] \in Reporting
    /\ Returned(p) /\ failures = 0
    => {r \in reports : r[1] \in Children(p)} =
       {<<c, status[c]>> : c \in {d \in Children(p) : state[d] # "none" /\ status[d] >= 0}}

NeverWait == {"Posix", "SysV"}

\* A program that ends of itself leaves no child behind, running or not waited
\* for, except the two that return when a later fork fails, and those that
\* never wait.
AbandonsOnlyIf ==
  \A p \in Procs :
    /\ p = Main(p) /\ state[p] = "gone"
    /\ \E c \in Children(p) : state[c] \notin {"none", "gone"}
    => \/ status[p] < 0
       \/ program[p[1]] \in NeverWait
       \/ program[p[1]] \in {"Ec5", "ListGrep"} /\ failures > 0

\* Children are waited for and reported.
ChildrenAwaited == ReportsEveryChild /\ AbandonsOnlyIf

\* When nothing failed and every program has ended, no queue and no socket is
\* left behind, whoever shared a name with whom.
NothingLeft ==
  Undisturbed /\ (\A p \in Procs : state[p] # "running")
  => \A name \in Names : linked[name] = Nobody

Keyed(p) == Runs(p, "SysV") \/ Runs(p, "HelloSysV")

\* msgrcv of sys_v.cpp fails, and what it prints was never set, only when its
\* queue is removed; another program that uses the key has received before, or
\* tried to, and come to its end.  A POSIX queue cannot be pulled away like that.
MessageOrRemoval ==
  \A p \in Procs : got[p] = <<Nobody>> =>
    \/ Runs(p, "HelloSysV")
    \/ /\ Runs(p, "SysV")
       /\ state[p] = "running" => fds[p] \subseteq removed
       /\ \E q \in Procs : /\ q = Main(q) /\ q # p /\ Keyed(q) /\ got[q] # <<>>
                          /\ todo[q] \in {<<exit(0)>>, <<>>}

\* A process that waits for room in a queue
HeldUp(p) ==
  /\ Calls(p, "send")
  /\ \E q \in 1 .. queues : q \in fds[p] \ removed /\ Len(messages[q]) >= Call(p).room

\* A queue is never full of the messages of other runs for a child that sends,
\* unless more programs meet than it has room for: with mq_maxmsg = 10, eleven.
SendsHaveRoom == \A p \in Procs : HeldUp(p) => Len(program) > Call(p).room

\* Queues serve each run that meets under a name, and end with the last one.
QueuesServe == TypeOK /\ NothingLeft /\ MessageOrRemoval /\ SendsHaveRoom

\* A server that waits for a client can be found under its name, unless another
\* server took the name away, before or after binding it itself.
UnreachableOnlyByAnother ==
  \A p \in Procs : Runs(p, "Server") /\ Calls(p, "accept") =>
    \/ linked[SOCKET_PATH] = p
    \/ \E q \in Procs : q # p /\ q = Main(q) /\ Runs(q, "Server") /\ todo[q] # Server

\* Whoever answers a client is the server that read its request.
AnswersItsReader ==
  \A p \in Procs : Runs(p, "Client") /\ got[p] # <<>> => got[<<got[p][1], 0>>] = <<p[1]>>

\* A client that was connected ends without an answer, or by SIGPIPE, only when
\* the one client its server serves was another.
LostOnlyBehindAnother ==
  \A p \in Procs :
    /\ p = Main(p) /\ Runs(p, "Client") /\ state[p] = "gone" /\ Undisturbed
    /\ status[p] = SIGPIPE \/ (status[p] = 0 /\ got[p] = <<>>)
    => \E q \in Procs : Runs(q, "Server") /\ got[q] # <<>> /\ got[q] # <<p[1]>>

\* A client is answered by the server it reached, unless another came first.
ClientsServed == UnreachableOnlyByAnother /\ AnswersItsReader /\ LostOnlyBehindAnother

\* Nobody is held up for ever: not by an end somebody forgot to close, and not
\* by the calls that fail and the processes that are killed.  What may wait is
\* a server without a client, a shell nobody tells to exit and, after a failing
\* call or a signal, a receiver whose message was never sent or was taken, a
\* child whose queue nobody empties, and the parent that waits for this child.
MayWait(p) ==
  \/ Calls(p, "accept")
  \/ program = <<"EndlessShell">>
  \/ /\ ~Undisturbed
     /\ Calls(p, "fetch") \/ HeldUp(p) \/ \E c \in Children(p) : Calls(p, "waitpid") /\ HeldUp(c)

Completes == <>[](\A p \in Procs : state[p] = "running" => MayWait(p))
===============================================================================
