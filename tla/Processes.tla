------------------------------- MODULE Processes -------------------------------
(***************************************************************************)
(* Processes that make system calls.  A program is the sequence of the     *)
(* calls it makes, and a process keeps those it has still to make: a       *)
(* script is the source it is written for, call by call, and the actions   *)
(* here say what the kernel does for each call.  Programs run in           *)
(* instances; the main process of one forks its others.                    *)
(***************************************************************************)
EXTENDS Integers, Sequences, FiniteSets

CONSTANTS
  Instances,             \* of programs, running at the same time
  MaxChildren,           \* of one program
  Names,                 \* of queues and sockets
  Nobody,                \* what a free name leads to, and a failing receive gives
  MaxFailures, MaxKills  \* bounds on failing calls and on signals from outside

ASSUME ProcessAssumption == MaxFailures \in Nat /\ MaxKills \in Nat /\ MaxChildren \in Nat

VARIABLES
  todo,       \* the calls a process has still to make, the next one first
  state,      \* none yet, running, zombie, gone (waited for) or abandoned
  status,     \* how a process ended: its exit code, or minus the signal
  fds,        \* what it has open
  got,        \* what it has read or received
  linked,     \* what each name leads to
  reports,    \* the exit codes printed, with the children they are for
  failures, kills

procVars == <<todo, state, status, fds, got, linked, reports, failures, kills>>

\* The main process of an instance, and its children by number
Procs == Instances \X (0 .. MaxChildren)
Main(p) == <<p[1], 0>>
Children(p) == IF p = Main(p) THEN {q \in Procs : q # p /\ q[1] = p[1]} ELSE {}

SIGKILL == -9
SIGSEGV == -11
SIGPIPE == -13

-------------------------------------------------------------------------------
\* The calls.  "failed" is what the program does when the call fails; nothing
\* there means that it goes on as if it had not.

fork(child, calls, failed) ==
  [call |-> "fork", child |-> child, calls |-> calls, failed |-> failed]
execvp(code) == [call |-> "exec", failed |-> code]     \* exits with code if it fails
exit(code) == [call |-> "exit", code |-> code]
close(S) == [call |-> "close", set |-> S]
waitpid(child, prints) == [call |-> "waitpid", set |-> {child}, prints |-> prints]
wait(prints) == [call |-> "waitpid", set |-> 1 .. MaxChildren, prints |-> prints]
unlink(name) == [call |-> "unlink", name |-> name]
getline(lines) == [call |-> "getline", lines |-> lines]

Return == <<exit(0)>>

\* The states in which the named processes run the given programs.
ProcessInit(program) ==
  /\ todo = [p \in Procs |-> IF p \in DOMAIN program THEN program[p] ELSE <<>>]
  /\ state = [p \in Procs |-> IF p \in DOMAIN program THEN "running" ELSE "none"]
  /\ status = [p \in Procs |-> 0]
  /\ fds = [p \in Procs |-> {}]
  /\ got = [p \in Procs |-> <<>>]
  /\ linked = [n \in Names |-> Nobody]
  /\ reports = {}
  /\ failures = 0 /\ kills = 0

Calls(p, call) == state[p] = "running" /\ Head(todo[p]).call = call
Call(p) == Head(todo[p])
Continue(p, calls) == todo' = [todo EXCEPT ![p] = calls]
Proceed(p) == Continue(p, Tail(todo[p]))
CallFails == failures < MaxFailures /\ failures' = failures + 1
FailedOr(failed, rest) == IF failed = <<>> THEN rest ELSE failed

\* The process ends.  Its main process can wait for it; if that has ended,
\* and for the zombies it leaves itself, init does.
Ends(p, how) ==
  /\ status' = [status EXCEPT ![p] = how]
  /\ state' = [q \in Procs |->
       IF q = p
         THEN IF p = Main(p) THEN "gone"
              ELSE IF state[Main(p)] = "running" THEN "zombie" ELSE "abandoned"
         ELSE IF q \in Children(p) /\ state[q] = "zombie" THEN "abandoned" ELSE state[q]]
  /\ todo' = [todo EXCEPT ![p] = <<>>]
  /\ fds' = [fds EXCEPT ![p] = {}]

-------------------------------------------------------------------------------
Fork(p) ==
  /\ Calls(p, "fork")
  /\ LET child == <<p[1], Call(p).child>> IN
     \/ /\ todo' = [todo EXCEPT ![p] = Tail(@), ![child] = Call(p).calls]
        /\ state' = [state EXCEPT ![child] = "running"]
        /\ fds' = [fds EXCEPT ![child] = fds[p]]
        /\ UNCHANGED failures
     \/ /\ CallFails
        /\ Continue(p, FailedOr(Call(p).failed, Tail(todo[p])))
        /\ UNCHANGED <<state, fds>>
  /\ UNCHANGED <<status, got, linked, reports, kills>>

\* The calls that follow are those of the program that was asked for.
Exec(p) ==
  /\ Calls(p, "exec")
  /\ \/ Proceed(p) /\ UNCHANGED <<state, status, fds, failures>>
     \/ CallFails /\ Ends(p, Call(p).failed)
  /\ UNCHANGED <<got, linked, reports, kills>>

Exit(p) ==
  /\ Calls(p, "exit")
  /\ Ends(p, Call(p).code)
  /\ UNCHANGED <<got, linked, reports, failures, kills>>

Close(p) ==
  /\ Calls(p, "close")
  /\ Proceed(p)
  /\ fds' = [fds EXCEPT ![p] = @ \ Call(p).set]
  /\ UNCHANGED <<state, status, got, linked, reports, failures, kills>>

Awaited(p) == {q \in Children(p) : q[2] \in Call(p).set}

\* WIFEXITED(status): the exit code is printed of children that returned one.
Report(p, child) ==
  IF Call(p).prints /\ status[child] >= 0 THEN {<<child, status[child]>>} ELSE {}

\* wait and waitpid; without such a child they return at once.
Waitpid(p) ==
  /\ Calls(p, "waitpid")
  /\ Proceed(p)
  /\ \/ \E child \in Awaited(p) :
          /\ state[child] = "zombie"
          /\ state' = [state EXCEPT ![child] = "gone"]
          /\ reports' = reports \cup Report(p, child)
     \/ /\ \A child \in Awaited(p) : state[child] \in {"none", "gone"}
        /\ UNCHANGED <<state, reports>>
  /\ UNCHANGED <<status, fds, got, linked, failures, kills>>

\* Removes the name, whatever it leads to.
Unlink(p) ==
  /\ Calls(p, "unlink")
  /\ Proceed(p)
  /\ linked' = [linked EXCEPT ![Call(p).name] = Nobody]
  /\ UNCHANGED <<state, status, fds, got, reports, failures, kills>>

\* A signal from outside ends one process.
Kill(p) ==
  /\ state[p] = "running"
  /\ kills < MaxKills /\ kills' = kills + 1
  /\ Ends(p, SIGKILL)
  /\ UNCHANGED <<got, linked, reports, failures>>

ProcessStep(p) == Fork(p) \/ Exec(p) \/ Exit(p) \/ Close(p) \/ Waitpid(p) \/ Unlink(p)
===============================================================================
