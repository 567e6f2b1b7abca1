------------------------------- MODULE PipeRelay -------------------------------
(***************************************************************************)
(* The parent that ec4 and ec5 of pipe_fifo/main.cpp and ec1 of            *)
(* share_memory/main.cpp have in common: it forks the programs read and    *)
(* write, whose output goes into one pipe each, and relays what they print *)
(* with select until one of the pipes ends.                                *)
(*                                                                         *)
(* The kernel's part (pipes, select, SIGPIPE) is modelled from how the     *)
(* parent uses it.                                                         *)
(***************************************************************************)
EXTENDS Integers, Sequences

CONSTANT MaxFailures     \* bound on failing system calls

ASSUME RelayAssumption == MaxFailures \in Nat

VARIABLES
  leaky,         \* each child keeps the ends of the other's pipe that it inherited
  ppc,           \* the parent's next step
  pc,            \* each program's next step
  out,           \* what each printed and the parent has not read, in order
  selected,      \* pipes that the running select found readable
  shown,         \* lines the parent printed
  failures

relayVars == <<leaky, ppc, pc, out, selected, shown, failures>>

Programs == {"reader", "writer"}

RelayInit(first) ==
  /\ ppc = first
  /\ pc = [p \in Programs |-> "unborn"]
  /\ out = [p \in Programs |-> <<>>]
  /\ selected = {} /\ shown = {} /\ failures = 0

Alive(p) == pc[p] \notin {"unborn", "gone"}

Other(p) == IF p = "reader" THEN "writer" ELSE "reader"

ParentGoto(from, to) == ppc = from /\ ppc' = to
ProgramGoto(p, from, to) == pc[p] = from /\ pc' = [pc EXCEPT ![p] = to]

Fails == failures < MaxFailures /\ failures' = failures + 1

\* The parent has both write ends until it closes them, and both read ends until
\* it leaves the loop.
Forking == ppc \in {"fork_reader", "fork_writer", "close"}
Looping == Forking \/ ppc \in {"poll_reader", "poll_writer", "read_reader", "read_writer"}

-------------------------------------------------------------------------------
\* Mutants: a parent that keeps its write ends, children that close each other's,
\* a loop left after a line

CanBeWrittenByParent(p) == TRUE
CanBeWrittenByItself(p) == Forking \/ Alive(p)
RelayOneLine(p, from, to) ==
  /\ ParentGoto(from, IF p \in selected THEN "leave" ELSE to)
  /\ shown' = shown \cup (IF p \in selected THEN {out[p][n] : n \in DOMAIN out[p]} ELSE {})
  /\ out' = IF p \in selected THEN [out EXCEPT ![p] = <<>>] ELSE out
  /\ selected' = IF p \in selected THEN {} ELSE selected
  /\ UNCHANGED <<leaky, pc, failures>>

-------------------------------------------------------------------------------
\* Who can still write into and read from the pipe of p.
CanBeWritten(p) ==
  \/ Forking
  \/ Alive(p)
  \/ leaky /\ Alive(Other(p))
CanBeRead(p) ==
  \/ Looping
  \/ leaky /\ Alive(Other(p))

\* A failing fork returns, which closes the parent's ends and leaves the other
\* program alone.
Fork(p, from, to) ==
  /\ \/ ParentGoto(from, to) /\ ProgramGoto(p, "unborn", "start") /\ UNCHANGED failures
     \/ ParentGoto(from, "failed") /\ Fails /\ UNCHANGED pc
  /\ UNCHANGED <<leaky, out, selected, shown>>

CloseWriteEnds ==
  /\ ParentGoto("close", "poll_reader")
  /\ UNCHANGED <<leaky, pc, out, selected, shown, failures>>

\* select looks at the two pipes one after the other, and returns unless neither
\* is readable; a pipe at its end is readable.
Ended(p) == out[p] = <<>> /\ ~CanBeWritten(p)

Poll(p, from, to) ==
  /\ ppc = from
  /\ selected' = IF out[p] # <<>> \/ Ended(p) THEN selected \cup {p} ELSE selected
  /\ ppc' = IF p = "writer" /\ selected' = {} THEN "poll_reader" ELSE to
  /\ UNCHANGED <<leaky, pc, out, shown, failures>>

\* One read of a selected pipe; at its end the loop stops, whatever the other
\* pipe still holds.
Relay(p, from, to) ==
  /\ ppc = from
  /\ \/ p \notin selected /\ ppc' = to /\ UNCHANGED <<out, shown, selected>>
     \/ /\ p \in selected /\ out[p] # <<>>
        /\ ppc' = to
        /\ out' = [out EXCEPT ![p] = <<>>]
        /\ shown' = shown \cup {out[p][n] : n \in DOMAIN out[p]}
        /\ selected' = selected \ {p}
     \/ /\ p \in selected /\ out[p] = <<>>
        /\ ppc' = "leave"
        /\ selected' = {}
        /\ UNCHANGED <<out, shown>>
  /\ UNCHANGED <<leaky, pc, failures>>

RelayLoop ==
  \/ CloseWriteEnds
  \/ Poll("reader", "poll_reader", "poll_writer")
  \/ Poll("writer", "poll_writer", "read_reader")
  \/ Relay("reader", "read_reader", "read_writer")
  \/ Relay("writer", "read_writer", "poll_reader")

WaitPid(p, from, to) ==
  /\ ParentGoto(from, to)
  /\ pc[p] = "gone"
  /\ UNCHANGED <<leaky, pc, out, selected, shown, failures>>

\* A step of a program that the parent does not see.
Step(p, from, to) ==
  ProgramGoto(p, from, to) /\ UNCHANGED <<leaky, ppc, out, selected, shown, failures>>

\* execvp that does not find its program: the child prints to stderr and exits.
ExecFails(p, from) ==
  ProgramGoto(p, from, "gone") /\ Fails /\ UNCHANGED <<leaky, ppc, out, selected, shown>>

\* Printing into a pipe that nobody can read ends a program.
Say(p, from, to, line) ==
  /\ IF CanBeRead(p) THEN /\ ProgramGoto(p, from, to)
                          /\ out' = [out EXCEPT ![p] = Append(@, line)]
                     ELSE ProgramGoto(p, from, "gone") /\ UNCHANGED out
  /\ UNCHANGED <<leaky, ppc, selected, shown, failures>>

-------------------------------------------------------------------------------
\* Each select starts with an empty set; no program prints more than two lines.
RelayTypeOK ==
  /\ selected \subseteq Programs
  /\ ppc \notin {"poll_writer", "read_reader", "read_writer"} => selected = {}
  /\ out \in [Programs -> Seq({"try open", "sending", "received", "wrote", "got"})]
  /\ \A p \in Programs : Len(out[p]) <= 2
===============================================================================
