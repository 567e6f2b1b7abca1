------------------------------- MODULE FifoGather -------------------------------
(***************************************************************************)
(* ec6 of pipe_fifo/main.cpp: a parent forks several writers, which open   *)
(* the FIFO without blocking and write one message each; the parent opens  *)
(* it, reads once, prints what it got and waits for its children.          *)
(***************************************************************************)
EXTENDS Fifo, Gathered, FiniteSets

CONSTANTS
  Parent,
  ForkOrder,      \* the writers in the order in which they are forked, 3 in the code
  MaxFailures     \* bound on failing forks

Writers == {ForkOrder[n] : n \in DOMAIN ForkOrder}

ASSUME GatherAssumption ==
  /\ ForkOrder \in Seq(Writers) /\ ForkOrder # <<>>
  /\ Parent \notin Writers /\ MaxFailures \in Nat

VARIABLES
  ppc,            \* the parent's next step
  next,           \* the next child to fork or to wait for
  wpc,            \* each writer's next step
  opened,         \* writers whose open succeeded
  failures

vars == <<fifoVars, ppc, next, wpc, opened, written, printed, failures>>

Init ==
  /\ FifoInit
  /\ ppc = "fork" /\ next = 1
  /\ wpc = [w \in Writers |-> "unborn"]
  /\ opened = {} /\ written = <<>> /\ printed = <<>>
  /\ failures = 0

ParentGoto(from, to) == ppc = from /\ ppc' = to
WriterGoto(w, from, to) == wpc[w] = from /\ wpc' = [wpc EXCEPT ![w] = to]

-------------------------------------------------------------------------------
\* Mutants: a read that keeps only the last message, a writer whose open waits
\* for a reader

GotLast == IF content = <<>> THEN <<>> ELSE <<content[Len(content)]>>
OpenWaits(w) ==
  /\ WriterGoto(w, "open", "write")
  /\ OpenWrite(w) /\ opened' = opened \cup {w}
  /\ UNCHANGED <<ppc, next, written, printed, failures>>

-------------------------------------------------------------------------------
\* A failing fork returns from ec6 and leaves the children alone.
Fork ==
  /\ next <= Len(ForkOrder)
  /\ \/ /\ WriterGoto(ForkOrder[next], "unborn", "open")
        /\ next' = IF next < Len(ForkOrder) THEN next + 1 ELSE 1
        /\ IF next < Len(ForkOrder) THEN ppc = "fork" /\ UNCHANGED ppc
                                    ELSE ParentGoto("fork", "open")
        /\ UNCHANGED failures
     \/ /\ ParentGoto("fork", "failed")
        /\ failures < MaxFailures /\ failures' = failures + 1
        /\ UNCHANGED <<next, wpc>>
  /\ UNCHANGED <<fifoVars, opened, written, printed>>

OpenFifo ==
  /\ ParentGoto("open", "opening")
  /\ StartOpenRead(Parent)
  /\ UNCHANGED <<next, wpc, opened, written, printed, failures>>

FifoOpened ==
  /\ ParentGoto("opening", "read")
  /\ OpenReadReturns
  /\ UNCHANGED <<fifoVars, next, wpc, opened, written, printed, failures>>

Got == content

\* One read, one line of output, close.
ReadOnce ==
  /\ ParentGoto("read", "close")
  /\ Readable
  /\ ReadAll
  /\ printed' = Got
  /\ UNCHANGED <<next, wpc, opened, written, failures>>

CloseFifo ==
  /\ ParentGoto("close", "wait")
  /\ Close(Parent)
  /\ UNCHANGED <<next, wpc, opened, written, printed, failures>>

WaitPid ==
  /\ ppc = "wait"
  /\ wpc[ForkOrder[next]] = "gone"
  /\ IF next < Len(ForkOrder) THEN next' = next + 1 /\ UNCHANGED ppc
                              ELSE next' = next /\ ppc' = "done"
  /\ UNCHANGED <<fifoVars, wpc, opened, written, printed, failures>>

ParentStep == Fork \/ OpenFifo \/ FifoOpened \/ ReadOnce \/ CloseFifo \/ WaitPid

-------------------------------------------------------------------------------
\* A writer; when its open failed it writes to descriptor -1, in vain.

OpenFirst(w) ==
  /\ WriterGoto(w, "open", "write")
  /\ \/ OpenWrite(w) /\ opened' = opened \cup {w}
     \/ NoReader /\ UNCHANGED <<fifoVars, opened>>
  /\ UNCHANGED <<ppc, next, written, printed, failures>>

WriteMessage(w) ==
  /\ WriterGoto(w, "write", "close")
  /\ \/ w \in writers /\ ~NoReader /\ Write(w) /\ written' = Append(written, w)
     \/ w \notin writers /\ UNCHANGED <<fifoVars, written>>
  /\ UNCHANGED <<ppc, next, opened, printed, failures>>

\* SIGPIPE: the parent has read and closed.
Killed(w) ==
  /\ WriterGoto(w, "write", "gone")
  /\ w \in writers /\ NoReader
  /\ Close(w)
  /\ UNCHANGED <<ppc, next, opened, written, printed, failures>>

CloseWriter(w) ==
  /\ WriterGoto(w, "close", "gone")
  /\ Close(w)
  /\ UNCHANGED <<ppc, next, opened, written, printed, failures>>

WriterStep(w) == OpenFirst(w) \/ WriteMessage(w) \/ Killed(w) \/ CloseWriter(w)

Next == ParentStep \/ \E w \in Writers : WriterStep(w)

SafeSpec == Init /\ [][Next]_vars

\* The parent and every writer run.
Spec ==
  /\ SafeSpec
  /\ WF_vars(ParentStep)
  /\ \A w \in Writers : WF_vars(WriterStep(w))

-------------------------------------------------------------------------------
\* Every variable keeps its type.
TypeOK ==
  /\ ppc \in {"fork", "failed", "open", "opening", "read", "close", "wait", "done"}
  /\ next \in DOMAIN ForkOrder
  /\ wpc \in [Writers -> {"unborn", "open", "write", "close", "gone"}]
  /\ readers \subseteq {Parent} /\ writers \subseteq opened /\ opened \subseteq Writers
  /\ content \in Seq(Writers) /\ written \in Seq(Writers)

\* If one writer meets the parent's open, the parent returns, with every child
\* gone: no later writer can hold it up.
ReturnsIfMet ==
  (opened # {}) ~> (ppc = "done" /\ \A w \in Writers : wpc[w] = "gone")
===============================================================================
