------------------------------- MODULE FifoProofs -------------------------------
(***************************************************************************)
(* What the parent of ec4 and ec5 may conclude when its loop stops, for    *)
(* any number of failing calls, and what ec6 prints, for every list of     *)
(* writers.                                                                *)
(***************************************************************************)
EXTENDS FifoRelay, Gathered, TLAPS

\* ec6 uses the same FIFO as ec4 and ec5; its other variables are its own.
CONSTANTS
  Reading,        \* the parent of ec6
  ForkOrder       \* its writers, in the order in which they are forked

VARIABLES gppc, next, wpc, opened

Gather == INSTANCE FifoGather WITH Parent <- Reading, ppc <- gppc

-------------------------------------------------------------------------------
Labels ==
  {"unborn", "start", "exec", "open", "opening", "read", "print", "write", "exit", "gone"}
Places ==
  {"setup", "unset", "fork_reader", "fork_writer", "close", "poll_reader", "poll_writer", "read_reader",
   "read_writer", "leave", "wait_writer", "done", "failed"}
Lines == {"try open", "sending", "received", "wrote", "got"}

Types ==
  /\ ppc \in Places /\ pc \in [Programs -> Labels]
  /\ out \in [Programs -> Seq(Lines)] /\ selected \subseteq Programs
  /\ readers \subseteq {"reader"} /\ writers \subseteq {"writer"}

\* A program prints at most one line before its open and one after.
LinesBy(label) ==
  IF label \in {"unborn", "start"} THEN 0
  ELSE IF label \in {"exec", "open", "opening", "read", "print"} THEN 1 ELSE 2

FewLines == \A p \in Programs : Len(out[p]) <= LinesBy(pc[p])

\* Nobody holds the write end of the pipe of p but the parent.
Silent(p) == ~Alive(p) /\ (leaky => \A q \in Programs : ~Alive(q))

\* A pipe was found readable for a line, or because it has ended.
SelectedForAReason ==
  /\ ppc \notin {"poll_writer", "read_reader", "read_writer"} => selected = {}
  /\ ppc = "poll_writer" => "writer" \notin selected
  /\ ppc = "read_writer" => "reader" \notin selected
  /\ \A p \in selected : out[p] # <<>> \/ Silent(p)

Stopped == ppc \in {"leave", "wait_writer", "done"} => \E p \in Programs : Silent(p)

IInv == Types /\ FewLines /\ SelectedForAReason /\ Stopped

LEMMA InitIInv == Init => IInv
<1> SUFFICES ASSUME Init PROVE IInv OBVIOUS
<1>1. /\ ppc = "setup" /\ pc = [p \in Programs |-> "unborn"]
      /\ out = [p \in Programs |-> <<>>] /\ selected = {}
      /\ readers = {} /\ writers = {}
  BY DEF Init, RelayInit, FifoInit
<1>2. <<>> \in Seq(Lines) /\ Len(<<>>) = 0 OBVIOUS
<1>3. out \in [Programs -> Seq(Lines)] BY <1>1, <1>2
<1>4. Types BY <1>1, <1>3 DEF Types, Places, Labels
<1>5. FewLines BY <1>1, <1>2 DEF FewLines, LinesBy
<1>6. SelectedForAReason /\ Stopped BY <1>1 DEF SelectedForAReason, Stopped
<1> QED BY <1>4, <1>5, <1>6 DEF IInv

-------------------------------------------------------------------------------
\* The parent

LEMMA ForkPreserves ==
  ASSUME IInv, UNCHANGED fifoVars,
         Fork("reader", "fork_reader", "fork_writer") \/ Fork("writer", "fork_writer", "close")
  PROVE  IInv'
<1>1. /\ ppc \in {"fork_reader", "fork_writer"} /\ ppc' \in {"fork_writer", "close", "failed"}
      /\ UNCHANGED <<leaky, out, selected, readers, writers>>
      /\ \/ \E p \in Programs : pc[p] = "unborn" /\ pc' = [pc EXCEPT ![p] = "start"]
         \/ pc' = pc
  BY DEF Fork, ParentGoto, ProgramGoto, Programs, fifoVars
<1>2. selected = {} BY <1>1 DEF IInv, SelectedForAReason
<1>3. Types' BY <1>1 DEF IInv, Types, Labels, Places
<1>4. FewLines' BY <1>1 DEF IInv, Types, FewLines, LinesBy
<1>5. SelectedForAReason' /\ Stopped' BY <1>1, <1>2 DEF SelectedForAReason, Stopped
<1> QED BY <1>3, <1>4, <1>5 DEF IInv

LEMMA PollPreserves ==
  ASSUME IInv, UNCHANGED fifoVars, NEW p \in Programs, NEW from, NEW to, Poll(p, from, to),
         \/ p = "reader" /\ from = "poll_reader" /\ to = "poll_writer"
         \/ p = "writer" /\ from = "poll_writer" /\ to = "read_reader"
  PROVE  IInv'
<1>1. /\ ppc = from /\ UNCHANGED <<leaky, pc, out, readers, writers>>
      /\ selected' = IF out[p] # <<>> \/ Ended(p) THEN selected \cup {p} ELSE selected
      /\ ppc' = IF p = "writer" /\ selected' = {} THEN "poll_reader" ELSE to
  BY DEF Poll, fifoVars
<1>2. Ended(p) => Silent(p)
  BY DEF Ended, CanBeWritten, Silent, Other, Programs
<1>3. \A q \in Programs : Silent(q)' <=> Silent(q) BY <1>1 DEF Silent, Alive
<1>4. selected \subseteq Programs BY DEF IInv, Types
<1>5. Types' BY <1>1, <1>4 DEF IInv, Types, Places
<1>6. FewLines' BY <1>1 DEF IInv, FewLines
<1>7. SelectedForAReason' BY <1>1, <1>2, <1>3, <1>4 DEF IInv, SelectedForAReason
<1>8. Stopped' BY <1>1 DEF Stopped
<1> QED BY <1>5, <1>6, <1>7, <1>8 DEF IInv

LEMMA RelayPreserves ==
  ASSUME IInv, UNCHANGED fifoVars, NEW p \in Programs, NEW from, NEW to, Relay(p, from, to),
         \/ p = "reader" /\ from = "read_reader" /\ to = "read_writer"
         \/ p = "writer" /\ from = "read_writer" /\ to = "poll_reader"
  PROVE  IInv'
<1>1. ppc = from /\ UNCHANGED <<leaky, pc, readers, writers>> BY DEF Relay, fifoVars
<1>2. \A q \in Programs : Silent(q)' <=> Silent(q) BY <1>1 DEF Silent, Alive
<1>3. selected \subseteq Programs BY DEF IInv, Types
<1>4. CASE p \notin selected /\ ppc' = to /\ UNCHANGED <<out, selected>>
  <2>1. SelectedForAReason'
    BY <1>1, <1>2, <1>3, <1>4 DEF IInv, SelectedForAReason, Programs
  <2> QED BY <1>1, <1>4, <2>1 DEF IInv, Types, Places, FewLines, Stopped
<1>5. CASE p \in selected /\ out[p] = <<>> /\ ppc' = "leave" /\ selected' = {} /\ out' = out
  <2>1. Silent(p)' BY <1>2, <1>5 DEF IInv, SelectedForAReason
  <2> QED BY <1>1, <1>5, <2>1 DEF IInv, Types, Places, FewLines, SelectedForAReason, Stopped
<1>6. CASE /\ p \in selected /\ out[p] # <<>> /\ ppc' = to
           /\ out' = [out EXCEPT ![p] = <<>>] /\ selected' = selected \ {p}
  <2>1. <<>> \in Seq(Lines) /\ Len(<<>>) = 0 OBVIOUS
  <2>2. out \in [Programs -> Seq(Lines)] BY DEF IInv, Types
  <2>3. \A q \in Programs : out'[q] = IF q = p THEN <<>> ELSE out[q] BY <1>6, <2>2
  <2>4. Types'
    <3>1. out' \in [Programs -> Seq(Lines)] BY <1>6, <2>1, <2>2
    <3> QED BY <1>1, <1>3, <1>6, <3>1 DEF IInv, Types, Places
  <2>5. FewLines' BY <1>1, <2>1, <2>3 DEF IInv, FewLines, LinesBy
  <2>6. SelectedForAReason'
    BY <1>1, <1>2, <1>3, <1>6, <2>3 DEF IInv, SelectedForAReason, Programs
  <2>7. Stopped' BY <1>6 DEF Stopped
  <2> QED BY <2>4, <2>5, <2>6, <2>7 DEF IInv
<1> QED BY <1>4, <1>5, <1>6 DEF Relay

LEMMA SetupPreserves ==
  ASSUME IInv, UNCHANGED fifoVars, Setup
  PROVE  IInv'
<1>1. /\ ppc = "setup" /\ ppc' \in {"fork_reader", "failed", "unset"}
      /\ UNCHANGED <<leaky, pc, out, selected, readers, writers>>
  BY DEF Setup, ParentGoto, fifoVars
<1>2. Types' /\ FewLines' BY <1>1 DEF IInv, Types, Places, FewLines
<1>3. SelectedForAReason' /\ Stopped' BY <1>1 DEF IInv, SelectedForAReason, Stopped
<1> QED BY <1>2, <1>3 DEF IInv

LEMMA ParentPreserves == IInv /\ Parent => IInv'
<1> SUFFICES ASSUME IInv, Parent PROVE IInv'
  OBVIOUS
<1>1. UNCHANGED fifoVars BY DEF Parent
<1>2. CASE \/ Fork("reader", "fork_reader", "fork_writer") \/ Fork("writer", "fork_writer", "close")
  BY <1>1, <1>2, ForkPreserves
<1>3. CASE CloseWriteEnds
  BY <1>1, <1>3
  DEF CloseWriteEnds, ParentGoto, IInv, Types, Places, FewLines, SelectedForAReason, Silent,
      Alive, Stopped, fifoVars
<1>4. ASSUME NEW p \in Programs, NEW from, NEW to, WaitPid(p, from, to),
             from \in {"leave", "wait_writer"}, to \in {"wait_writer", "done"}
      PROVE  IInv'
  BY <1>1, <1>4
  DEF WaitPid, ParentGoto, IInv, Types, Places, FewLines, SelectedForAReason, Silent, Alive,
      Stopped, fifoVars
<1>5. "reader" \in Programs /\ "writer" \in Programs BY DEF Programs
<1>6. CASE RelayLoop
  BY <1>1, <1>3, <1>5, <1>6, PollPreserves, RelayPreserves DEF RelayLoop
<1> QED BY <1>1, <1>2, <1>4, <1>5, <1>6, SetupPreserves DEF Parent

-------------------------------------------------------------------------------
\* The programs: a step of one leaves the parent where it is, and may add a line.

Moves(p, to) ==
  /\ Alive(p) /\ to \in Labels \ {"unborn"} /\ pc' = [pc EXCEPT ![p] = to]
  /\ UNCHANGED <<leaky, ppc, selected>>
  /\ \/ out' = out /\ LinesBy(pc[p]) <= LinesBy(to)
     \/ /\ \E line \in Lines : out' = [out EXCEPT ![p] = Append(@, line)]
        /\ LinesBy(pc[p]) < LinesBy(to)

Few == readers' \subseteq {"reader"} /\ writers' \subseteq {"writer"}

LEMMA MovesPreserves ==
  ASSUME IInv, NEW p \in Programs, NEW to, Moves(p, to), Few
  PROVE  IInv'
<1>1. /\ pc \in [Programs -> Labels] /\ out \in [Programs -> Seq(Lines)]
      /\ ppc \in Places /\ selected \subseteq Programs
  BY DEF IInv, Types
<1>2. /\ UNCHANGED <<leaky, ppc, selected>> /\ Alive(p) /\ to \in Labels \ {"unborn"}
      /\ \A q \in Programs : pc'[q] = IF q = p THEN to ELSE pc[q]
      /\ pc' \in [Programs -> Labels]
  BY <1>1 DEF Moves
<1>3. \A line \in Lines, s \in Seq(Lines) :
        Append(s, line) \in Seq(Lines) /\ Len(Append(s, line)) = Len(s) + 1
        /\ Append(s, line) # <<>> /\ Len(s) \in Nat
  OBVIOUS
<1> DEFINE Longer(n) ==
             /\ out' \in [Programs -> Seq(Lines)]
             /\ \A q \in Programs : q # p => out'[q] = out[q]
             /\ out[p] # <<>> => out'[p] # <<>>
             /\ Len(out'[p]) = Len(out[p]) + n /\ LinesBy(pc[p]) + n <= LinesBy(to)
<1>a. \A l \in Labels : LinesBy(l) \in Nat BY DEF LinesBy
<1>b. \A q \in Programs : Len(out[q]) \in Nat BY <1>1
<1>4. \E n \in {0, 1} : Longer(n)
  <2>0. LinesBy(pc[p]) \in Nat /\ LinesBy(to) \in Nat BY <1>a, <1>1, <1>2
  <2>1. CASE out' = out /\ LinesBy(pc[p]) <= LinesBy(to)
    <3>1. Longer(0) BY <2>0, <2>1, <1>1, <1>b
    <3> QED BY <3>1
  <2>2. ASSUME NEW line \in Lines, out' = [out EXCEPT ![p] = Append(@, line)],
               LinesBy(pc[p]) < LinesBy(to)
        PROVE  \E n \in {0, 1} : Longer(n)
    <3>1. Longer(1) BY <2>0, <2>2, <1>1, <1>3
    <3> QED BY <3>1
  <2> QED BY <2>1, <2>2 DEF Moves
<1>5. \A q \in Programs : Silent(q) => Silent(q)' BY <1>2 DEF Silent, Alive
<1>6. Types' BY <1>1, <1>2, <1>4 DEF Types, Few
<1>7. FewLines'
  <2>1. \A q \in Programs : Len(out[q]) <= LinesBy(pc[q]) BY DEF IInv, FewLines
  <2>2. LinesBy(pc[p]) \in Nat /\ LinesBy(to) \in Nat BY <1>a, <1>1, <1>2
  <2>3. Len(out'[p]) <= LinesBy(to) BY <2>1, <2>2, <1>b, <1>4
  <2>4. ASSUME NEW q \in Programs, q # p PROVE Len(out'[q]) <= LinesBy(pc'[q])
    <3>1. out'[q] = out[q] /\ pc'[q] = pc[q] BY <2>4, <1>2, <1>4
    <3> QED BY <3>1, <2>1
  <2>5. pc'[p] = to BY <1>2
  <2> QED BY <2>3, <2>4, <2>5 DEF FewLines
<1>8. SelectedForAReason'
  BY <1>1, <1>2, <1>4, <1>5 DEF IInv, SelectedForAReason
<1>9. Stopped' BY <1>2, <1>5 DEF IInv, Stopped
<1> QED BY <1>6, <1>7, <1>8, <1>9 DEF IInv

\* The steps that print nothing, and those that print a line.
Forth(from, to) ==
  from \notin {"unborn", "gone"} /\ to \in Labels \ {"unborn"} /\ LinesBy(from) <= LinesBy(to)
Adds(from, to) ==
  from \in {"start", "print"} /\ to \in {"exec", "write", "exit"} /\ LinesBy(from) < LinesBy(to)

LEMMA Steps ==
  /\ Forth("start", "open") /\ Forth("exec", "open") /\ Forth("start", "gone")
  /\ Forth("exec", "gone") /\ Forth("open", "opening") /\ Forth("opening", "read")
  /\ Forth("read", "print") /\ Forth("read", "exit") /\ Forth("open", "print")
  /\ Forth("write", "exit") /\ Forth("exit", "gone")
  /\ Adds("start", "exec") /\ Adds("print", "write") /\ Adds("print", "exit")
  BY DEF Forth, Adds, LinesBy, Labels

LEMMA StepMoves ==
  ASSUME IInv, NEW p \in Programs, NEW from, NEW to, Step(p, from, to), Forth(from, to)
  PROVE  Moves(p, to)
  BY DEF Step, ProgramGoto, Moves, Alive, Forth

LEMMA SpeaksMoves ==
  ASSUME IInv, NEW p \in Programs, NEW from, NEW to, NEW line \in Lines,
         Speaks(p, from, to, line), Adds(from, to)
  PROVE  Few /\ (Moves(p, to) \/ Moves(p, "gone"))
<1>1. Few BY DEF Speaks, Close, fifoVars, IInv, Types, Few
<1>2. CASE CanBeRead(p)
  BY <1>1, <1>2 DEF Speaks, Say, ProgramGoto, Moves, Alive, Labels, Adds
<1>3. CASE ~CanBeRead(p)
  <2>1. pc[p] = from /\ pc' = [pc EXCEPT ![p] = "gone"] /\ UNCHANGED <<out, leaky, ppc, selected>>
    BY <1>3 DEF Speaks, Say, ProgramGoto
  <2>2. from \in {"start", "print"} /\ LinesBy(from) <= LinesBy("gone") BY DEF LinesBy, Adds
  <2> QED BY <1>1, <2>1, <2>2 DEF Moves, Alive, Labels
<1> QED BY <1>2, <1>3

LEMMA ProgramPreserves ==
  ASSUME IInv, Reader \/ Writer
  PROVE  IInv'
<1>p. "reader" \in Programs /\ "writer" \in Programs BY DEF Programs
<1>l. "try open" \in Lines /\ "sending" \in Lines /\ "received" \in Lines BY DEF Lines
<1>0. ASSUME NEW p \in Programs, Exec(p) PROVE IInv'
  <2>1. Few BY <1>0 DEF Exec, Few, fifoVars, IInv, Types
  <2>2. PICK from \in {"start", "exec"} : Step(p, from, "open") \/ ExecFails(p, from)
    BY <1>0 DEF Exec
  <2>3. CASE Step(p, from, "open")
    <3>1. Moves(p, "open") BY <2>3, StepMoves, Steps
    <3> QED BY <2>1, <3>1, MovesPreserves
  <2>4. CASE ExecFails(p, from)
    <3>1. Moves(p, "gone")
      BY <2>4, Steps DEF ExecFails, ProgramGoto, Moves, Alive, Forth
    <3> QED BY <2>1, <3>1, MovesPreserves
  <2> QED BY <2>2, <2>3, <2>4
<1>1. ASSUME NEW p \in Programs, TryOpen(p) PROVE IInv'
  <2>1. Speaks(p, "start", "exec", "try open") BY <1>1 DEF TryOpen
  <2>2. Few /\ (Moves(p, "exec") \/ Moves(p, "gone")) BY <2>1, <1>l, SpeaksMoves, Steps
  <2> QED BY <2>2, MovesPreserves
<1>2. ASSUME ReaderOpens \/ ReaderOpened \/ ReaderReads PROVE IInv'
  <2>1. Few BY <1>2 DEF ReaderOpens, ReaderOpened, ReaderReads, StartOpenRead, ReadAll,
      fifoVars,
                    Few, IInv, Types
  <2>2. \/ Step("reader", "open", "opening") \/ Step("reader", "opening", "read")
        \/ Step("reader", "read", "print") \/ Step("reader", "read", "exit")
    BY <1>2 DEF ReaderOpens, ReaderOpened, ReaderReads
  <2>3. \/ Moves("reader", "opening") \/ Moves("reader", "read")
        \/ Moves("reader", "print") \/ Moves("reader", "exit")
    BY <2>2, <1>p, StepMoves, Steps
  <2> QED BY <2>1, <2>3, <1>p, MovesPreserves
<1>3. ASSUME WriterOpens \/ WriterWrites PROVE IInv'
  <2>1. Few BY <1>3 DEF WriterOpens, WriterWrites, OpenWrite, Write, fifoVars, Few, IInv, Types
  <2>2. Step("writer", "open", "print") \/ Step("writer", "write", "exit")
    BY <1>3 DEF WriterOpens, WriterWrites
  <2>3. Moves("writer", "print") \/ Moves("writer", "exit") BY <2>2, <1>p, StepMoves, Steps
  <2> QED BY <2>1, <2>3, <1>p, MovesPreserves
<1>4. ASSUME NEW p \in Programs, NEW to, NEW line \in Lines, Speaks(p, "print", to, line),
             Adds("print", to)
      PROVE  IInv'
  <2>1. Few /\ (Moves(p, to) \/ Moves(p, "gone")) BY <1>4, SpeaksMoves
  <2> QED BY <2>1, MovesPreserves
<1>5. ASSUME NEW p \in Programs, Gone(p, "exit") PROVE IInv'
  <2>1. Few /\ Step(p, "exit", "gone") BY <1>5 DEF Gone, Close, Few, IInv, Types
  <2>2. Moves(p, "gone") BY <2>1, StepMoves, Steps
  <2> QED BY <2>1, <2>2, MovesPreserves
<1>6. CASE Reader BY <1>p, <1>l, <1>0, <1>1, <1>2, <1>4, <1>5, <1>6, Steps DEF Reader
<1>7. CASE Writer BY <1>p, <1>l, <1>0, <1>1, <1>3, <1>4, <1>5, <1>7, Steps DEF Writer
<1> QED BY <1>6, <1>7

-------------------------------------------------------------------------------
LEMMA NextIInv == IInv /\ [Next]_vars => IInv'
<1>1. IInv /\ UNCHANGED vars => IInv'
  BY DEF vars, relayVars, fifoVars, IInv, Types, FewLines, SelectedForAReason, Silent,
      Alive, Stopped
<1> QED BY <1>1, ParentPreserves, ProgramPreserves DEF Next

LEMMA IInvStops == IInv => StopsAtEof
<1> SUFFICES ASSUME IInv PROVE StopsAtEof
  OBVIOUS
<1>1. TypeOK
  <2>1. RelayTypeOK
    <3>1. \A p \in Programs : Len(out[p]) <= 2
      BY DEF IInv, Types, FewLines, LinesBy
    <3> QED BY <3>1 DEF RelayTypeOK, IInv, Types, SelectedForAReason, Lines
  <2> QED BY <2>1 DEF TypeOK, IInv, Types, Labels, Places, Looping, Forking
<1> QED BY <1>1 DEF StopsAtEof, IInv, Stopped, Silent, ec4

\* The loop stops only at the end of a pipe, however the programs, the FIFO and the
\* parent interleave: a pipe with nothing to read was selected because nobody can write
\* into it, which without leaks means that its program is gone and with them that both
\* are, and no program comes back.
THEOREM StopsAtEofHolds == Spec => []StopsAtEof
<1>1. Spec => []IInv BY InitIInv, NextIInv, PTL DEF Spec
<1> QED BY <1>1, IInvStops, PTL
-------------------------------------------------------------------------------

\* The parent has the FIFO open, or waits in its open.
ReaderThere == readers = IF gppc \in {"opening", "read", "close"} THEN {Reading} ELSE {}

\* Nobody can open, and so nobody writes, before the parent does.
NothingBefore ==
  gppc \in {"fork", "failed", "open"} => opened = {} /\ written = <<>> /\ content = <<>>

\* Until the parent reads, it keeps the FIFO, and all that was written is in it.
AllThere == gppc \in {"opening", "read"} => content = written

PrintedNothing == gppc \in {"fork", "failed", "open", "opening", "read"} => printed = <<>>

Prefix ==
  /\ printed \in Seq(Gather!Writers)
  /\ Len(printed) <= Len(written)
  /\ \A n \in 1 .. Len(printed) : printed[n] = written[n]

GatherIInv ==
  /\ Gather!GatherAssumption /\ Gather!TypeOK
  /\ ReaderThere /\ NothingBefore /\ AllThere /\ PrintedNothing /\ Prefix

-------------------------------------------------------------------------------
LEMMA GatherInitIInv == Gather!GatherAssumption /\ Gather!Init => GatherIInv
<1> SUFFICES ASSUME Gather!GatherAssumption, Gather!Init PROVE GatherIInv
  OBVIOUS
<1>1. 1 \in DOMAIN ForkOrder
  BY DEF GatherIInv, Gather!GatherAssumption
<1>2. Gather!TypeOK
  BY <1>1 DEF Gather!Init, Gather!FifoInit, Gather!TypeOK
<1> QED
  BY <1>2 DEF Gather!Init, Gather!FifoInit, GatherIInv, ReaderThere, NothingBefore,
      AllThere, PrintedNothing, Prefix

\* What a close by a writer does while the parent has the FIFO open, and after.
LEMMA WriterCloses ==
  ASSUME NEW w \in Gather!Writers, GatherIInv, Gather!Close(w)
  PROVE  /\ readers' = readers /\ writers' \subseteq writers
         /\ content' \in Seq(Gather!Writers)
         /\ readers # {} => content' = content
         /\ content = <<>> => content' = <<>>
<1>1. w # Reading
  BY DEF GatherIInv, Gather!GatherAssumption
<1>2. readers' = readers
  BY <1>1 DEF Gather!Close, GatherIInv, ReaderThere
<1> QED
  BY <1>2 DEF Gather!Close, GatherIInv, Gather!TypeOK

LEMMA GatherParentPreserves == GatherIInv /\ Gather!ParentStep => GatherIInv'
<1> SUFFICES ASSUME GatherIInv, Gather!ParentStep PROVE GatherIInv'
  OBVIOUS
<1> USE DEF GatherIInv, ReaderThere, NothingBefore, AllThere, PrintedNothing, Prefix
<1>0. /\ Len(ForkOrder) \in Nat /\ DOMAIN ForkOrder = 1 .. Len(ForkOrder)
      /\ Len(ForkOrder) >= 1
  BY DEF GatherIInv, Gather!GatherAssumption
<1>1. CASE Gather!Fork
  <2>1. next' \in DOMAIN ForkOrder /\ gppc' \in {"fork", "open", "failed"} /\ gppc = "fork"
    BY <1>0, <1>1 DEF Gather!Fork, Gather!ParentGoto, Gather!TypeOK
  <2>2. wpc' \in [Gather!Writers -> {"unborn", "open", "write", "close", "gone"}]
    BY <1>1 DEF Gather!Fork, Gather!WriterGoto, Gather!TypeOK
  <2> QED
    BY <1>1, <2>1, <2>2 DEF Gather!Fork, Gather!TypeOK, Gather!fifoVars
<1>2. CASE Gather!OpenFifo
  BY <1>2 DEF Gather!OpenFifo, Gather!ParentGoto, Gather!StartOpenRead, Gather!TypeOK
<1>3. CASE Gather!FifoOpened
  BY <1>3 DEF Gather!FifoOpened, Gather!ParentGoto, Gather!fifoVars, Gather!TypeOK
<1>4. CASE Gather!ReadOnce
  BY <1>4 DEF Gather!ReadOnce, Gather!ParentGoto, Gather!ReadAll, Gather!Got, Gather!TypeOK
<1>5. CASE Gather!CloseFifo
  <2>1. readers' = {} /\ writers' \subseteq writers /\ content' \in Seq(Gather!Writers)
    BY <1>5 DEF Gather!CloseFifo, Gather!ParentGoto, Gather!Close, Gather!TypeOK
  <2> QED
    BY <1>5, <2>1 DEF Gather!CloseFifo, Gather!ParentGoto, Gather!TypeOK
<1>6. CASE Gather!WaitPid
  BY <1>0, <1>6 DEF Gather!WaitPid, Gather!fifoVars, Gather!TypeOK
<1> QED
  BY <1>1, <1>2, <1>3, <1>4, <1>5, <1>6 DEF Gather!ParentStep

LEMMA WriterPreserves ==
  ASSUME NEW w \in Gather!Writers, GatherIInv, Gather!WriterStep(w)
  PROVE  GatherIInv'
<1> USE DEF GatherIInv, ReaderThere, NothingBefore, AllThere, PrintedNothing, Prefix
<1>1. CASE Gather!OpenFirst(w)
  <2>1. gppc \in {"opening", "read", "close"} \/ UNCHANGED <<Gather!fifoVars, opened>>
    BY <1>1 DEF Gather!OpenFirst, Gather!OpenWrite
  <2> QED
    BY <1>1, <2>1 DEF Gather!OpenFirst, Gather!WriterGoto, Gather!OpenWrite,
        Gather!fifoVars, Gather!TypeOK
<1>2. CASE Gather!WriteMessage(w)
  <2>1. CASE UNCHANGED <<Gather!fifoVars, written>>
    BY <1>2, <2>1 DEF Gather!WriteMessage, Gather!WriterGoto, Gather!fifoVars, Gather!TypeOK
  <2>2. CASE ~Gather!NoReader /\ Gather!Write(w) /\ written' = Append(written, w)
    <3>1. gppc \in {"opening", "read", "close"}
      BY <2>2 DEF Gather!NoReader
    <3>2. /\ written' \in Seq(Gather!Writers) /\ content' \in Seq(Gather!Writers)
          /\ Len(written') = Len(written) + 1
          /\ \A n \in 1 .. Len(written) : written'[n] = written[n]
      BY <2>2 DEF Gather!Write, Gather!TypeOK
    <3>3. Gather!TypeOK'
      BY <1>2, <2>2, <3>2 DEF Gather!WriteMessage, Gather!WriterGoto, Gather!Write,
          Gather!TypeOK
    <3>4. Prefix'
      BY <1>2, <3>2 DEF Gather!WriteMessage, Gather!TypeOK
    <3> QED
      BY <1>2, <2>2, <3>1, <3>3, <3>4 DEF Gather!WriteMessage, Gather!Write
  <2> QED
    BY <1>2, <2>1, <2>2 DEF Gather!WriteMessage
<1>3. ASSUME Gather!Close(w), Gather!WriterGoto(w, "write", "gone") \/ Gather!WriterGoto(w, "close", "gone"),
             UNCHANGED <<gppc, next, opened, written, printed, failures>>
      PROVE  GatherIInv'
  <2>1. /\ readers' = readers /\ writers' \subseteq writers
        /\ content' \in Seq(Gather!Writers)
        /\ readers # {} => content' = content
        /\ content = <<>> => content' = <<>>
    BY <1>3, WriterCloses
  <2>2. wpc' \in [Gather!Writers -> {"unborn", "open", "write", "close", "gone"}]
    BY <1>3 DEF Gather!WriterGoto, Gather!TypeOK
  <2> QED
    BY <1>3, <2>1, <2>2 DEF Gather!TypeOK
<1>4. CASE Gather!Killed(w)
  BY <1>3, <1>4 DEF Gather!Killed
<1>5. CASE Gather!CloseWriter(w)
  BY <1>3, <1>5 DEF Gather!CloseWriter
<1> QED
  BY <1>1, <1>2, <1>4, <1>5 DEF Gather!WriterStep

LEMMA GatherIInvStep == GatherIInv /\ [Gather!Next]_(Gather!vars) => GatherIInv'
<1> SUFFICES ASSUME GatherIInv, [Gather!Next]_(Gather!vars) PROVE GatherIInv'
  OBVIOUS
<1>1. CASE UNCHANGED Gather!vars
  BY <1>1 DEF Gather!vars, Gather!fifoVars, GatherIInv, Gather!TypeOK, ReaderThere,
      NothingBefore, AllThere,
              PrintedNothing, Prefix
<1> QED
  BY <1>1, GatherParentPreserves, WriterPreserves DEF Gather!Next

\* What ec6 prints is a prefix of what was written (pipe_fifo/main.cpp:430), for
\* any number of writers that open, write, die and leave in any order.
THEOREM PrintsPrefixHolds == Gather!GatherAssumption /\ Gather!SafeSpec => [](Gather!TypeOK /\ PrintsPrefix)
<1>1. GatherIInv => Gather!TypeOK /\ PrintsPrefix
  <2> SUFFICES ASSUME GatherIInv PROVE PrintsPrefix
    BY DEF GatherIInv
  <2>1. Len(printed) \in Nat /\ DOMAIN printed = 1 .. Len(printed)
    BY DEF GatherIInv, Prefix
  <2> QED
    BY <2>1 DEF GatherIInv, Prefix, PrintsPrefix
<1> QED
  BY <1>1, GatherInitIInv, GatherIInvStep, PTL DEF Gather!SafeSpec
================================================================================
