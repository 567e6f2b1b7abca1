------------------------------- MODULE FifoRelay --------------------------------
(***************************************************************************)
(* ec4 and ec5 of pipe_fifo/main.cpp: the programs read and write meet at  *)
(* a FIFO, and their parent relays what they print.                        *)
(*                                                                         *)
(* The exercises differ in two ways.  In ec4 the children are leaky, in    *)
(* ec5 they close each other's pipes and print a line before the exec.     *)
(* The sleeps (one second in ec4, ten in ec5's writer) are no              *)
(* synchronisation and not a step: either program may come first.  Init    *)
(* chooses the exercise.                                                   *)
(***************************************************************************)
EXTENDS PipeRelay, Fifo

VARIABLES
  met_once,        \* history: the writer's open succeeded
  missed           \* history: the writer's open found no reader

history == <<met_once, missed>>
vars == <<relayVars, fifoVars, history>>

ec4 == leaky
ec5 == ~leaky

Init ==
  /\ leaky \in BOOLEAN /\ RelayInit("setup")
  /\ FifoInit
  /\ met_once = FALSE /\ missed = FALSE

\* mkfifo and the two pipes.  A failing mkfifo returns, and so does a failing pipe of
\* ec4; ec5 only prints and goes on with descriptors that nobody set.  What it does
\* with them is undefined, and the behaviour ends here, in "unset".
Setup ==
  /\ \/ ParentGoto("setup", "fork_reader") /\ UNCHANGED failures
     \/ ParentGoto("setup", "failed") /\ Fails
     \/ ec5 /\ ParentGoto("setup", "unset") /\ Fails
  /\ UNCHANGED <<leaky, pc, out, selected, shown>>

Parent ==
  /\ \/ Setup
     \/ Fork("reader", "fork_reader", "fork_writer")
     \/ Fork("writer", "fork_writer", "close")
     \/ RelayLoop
     \/ WaitPid("reader", "leave", "wait_writer")
     \/ WaitPid("writer", "wait_writer", "done")
  /\ UNCHANGED <<fifoVars, history>>

-------------------------------------------------------------------------------
\* Mutant: a writer that opens without O_NONBLOCK and waits for its reader
WriterOpensBlocking ==
  /\ Step("writer", "open", "print")
  /\ OpenWrite("writer") /\ met_once' = TRUE /\ UNCHANGED missed

-------------------------------------------------------------------------------
\* The end of a program closes its end of the FIFO.
Gone(p, from) == Step(p, from, "gone") /\ Close(p) /\ UNCHANGED history

\* A program that dies in its output has its end of the FIFO closed too.
Speaks(p, from, to, line) ==
  /\ Say(p, from, to, line)
  /\ IF pc'[p] = "gone" THEN Close(p) ELSE UNCHANGED fifoVars
  /\ UNCHANGED history

\* ec5 says "TRY OPEN" on behalf of both before the exec; ec4 says nothing.
TryOpen(p) == ec5 /\ Speaks(p, "start", "exec", "try open")

Exec(p) ==
  /\ LET from == IF ec4 THEN "start" ELSE "exec" IN
     Step(p, from, "open") \/ ExecFails(p, from)
  /\ UNCHANGED <<fifoVars, history>>

\* read.cpp
ReaderOpens ==
  /\ Step("reader", "open", "opening")
  /\ StartOpenRead("reader")
  /\ UNCHANGED history

ReaderOpened ==
  /\ Step("reader", "opening", "read")
  /\ OpenReadReturns
  /\ UNCHANGED <<fifoVars, history>>

ReaderReads ==
  /\ Step("reader", "read", IF content # <<>> THEN "print" ELSE "exit")
  /\ Readable /\ ReadAll
  /\ UNCHANGED history

Reader ==
  \/ TryOpen("reader") \/ Exec("reader") \/ ReaderOpens \/ ReaderOpened \/ ReaderReads
  \/ Speaks("reader", "print", "exit", "received")
  \/ Gone("reader", "exit")

\* write.cpp, which does not look at the result of open
WriterOpens ==
  /\ Step("writer", "open", "print")
  /\ \/ OpenWrite("writer") /\ met_once' = TRUE /\ UNCHANGED missed
     \/ NoReader /\ missed' = TRUE /\ UNCHANGED <<fifoVars, met_once>>

\* No SIGPIPE here: a reader that has met its writer waits for the line.
WriterWrites ==
  /\ Step("writer", "write", "exit")
  /\ \/ "writer" \in writers /\ Write("hello")
     \/ "writer" \notin writers /\ UNCHANGED fifoVars
  /\ UNCHANGED history

Writer ==
  \/ TryOpen("writer") \/ Exec("writer") \/ WriterOpens
  \/ Speaks("writer", "print", "write", "sending")
  \/ WriterWrites
  \/ Gone("writer", "exit")

Next == Parent \/ Reader \/ Writer

\* All three processes run.
Spec == Init /\ [][Next]_vars /\ WF_vars(Parent) /\ WF_vars(Reader) /\ WF_vars(Writer)

-------------------------------------------------------------------------------
\* Every variable keeps its type.
TypeOK ==
  /\ RelayTypeOK
  /\ Looping \/ ppc \in {"setup", "unset", "leave", "wait_writer", "done", "failed"}
  /\ pc \in [Programs -> {"unborn", "start", "exec", "open", "opening", "read", "print",
                          "write", "exit", "gone"}]
  /\ readers \subseteq {"reader"} /\ writers \subseteq {"writer"}

\* The types hold, and:
\* The loop stops only at the end of a pipe: by then its program is gone, and
\* in ec4, where the children kept each other's ends, both are.
StopsAtEof ==
  /\ TypeOK
  /\ ppc \in {"leave", "wait_writer", "done"} =>
       /\ \E p \in Programs : ~Alive(p)
       /\ ec4 => \A p \in Programs : ~Alive(p)

\* Once the writer's open met the reader, the parent returns and both programs
\* are gone, whichever pipe ended first and whatever was lost.
ReturnsIfMet == met_once ~> (ppc = "done" /\ \A p \in Programs : pc[p] = "gone")

\* The reader waits in its open for a writer that is gone: it came before the reader
\* did, or a call failed.  The parent's waitpid for that reader does not return either.
Stranded ==
  /\ pc["reader"] = "opening" /\ ~met
  /\ pc["writer"] = "gone" /\ (missed \/ failures > 0)

\* A stranded reader is the only thing that keeps ec4 and ec5 from returning, in any
\* order of the two programs and with failing forks and execs: whatever ends first,
\* nobody blocks in a pipe, the other open or a waitpid.
EndsUnlessStranded == <>(ppc \in {"done", "failed", "unset"} \/ Stranded)
===============================================================================
