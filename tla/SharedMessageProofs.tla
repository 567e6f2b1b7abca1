--------------------------- MODULE SharedMessageProofs ---------------------------
(***************************************************************************)
(* Safety of SharedMessage for any number of failing calls and of runs.    *)
(***************************************************************************)
EXTENDS SharedMessage, TLAPS

Labels ==
  {"unborn", "start", "map", "wait", "copy", "copy_2", "print", "post", "exit", "gone"}
Places ==
  {"sem_open", "shm_open", "fork_writer", "fork_reader", "close", "poll_reader",
   "poll_writer", "read_reader", "read_writer", "leave", "wait_writer", "wait_reader",
   "done", "failed", "killed"}

\* A program prints one line at most, so what is not read yet is one line.
Types ==
  /\ leaky = TRUE /\ ppc \in Places /\ pc \in [Programs -> Labels]
  /\ out \in [Programs -> {<<>>, <<"wrote">>, <<"got">>}]
  /\ selected \subseteq Programs
  /\ linked \subseteq {"sem", "shm"} /\ sem \in {0, 1}
  /\ shm \in {"empty", "half", "ready"} /\ mapped \in BOOLEAN

NotYetPrinted ==
  \A p \in Programs :
    pc[p] \in {"unborn", "start", "map", "wait", "copy", "copy_2", "print"} => out[p] = <<>>

NobodyAlive == \A p \in Programs : ~Alive(p)

\* A pipe was found readable for a line, or because it has ended, which as the
\* children are leaky it does with both of them.
SelectedForAReason ==
  /\ ppc \notin {"poll_writer", "read_reader", "read_writer"} => selected = {}
  /\ ppc = "poll_writer" => "writer" \notin selected
  /\ ppc = "read_writer" => "reader" \notin selected
  /\ \A p \in selected : out[p] # <<>> \/ NobodyAlive

\* When there is no program: before the first fork, after the loop, after Ctrl+C.
Quiet ==
  ppc \in {"sem_open", "shm_open", "fork_writer", "leave", "wait_writer", "wait_reader",
           "done", "killed"} => NobodyAlive

NamesThere ==
  /\ "shm" \in linked => "sem" \in linked
  /\ ppc = "shm_open" => "sem" \in linked
  /\ Looping \/ ppc = "leave" => linked = {"sem", "shm"}
  /\ \A p \in Programs : pc[p] \in {"start", "map"} => linked = {"sem", "shm"}

\* Who has taken the semaphore.
Holds(p) == pc[p] \in {"copy", "copy_2", "print", "post"}

Exclusive ==
  /\ ~(Holds("reader") /\ Holds("writer"))
  /\ \A p \in Programs : Holds(p) => sem = 0

\* Half a message is the writer's, or behind a semaphore that nobody will post,
\* or in a memory without a name and without a program that has it mapped.
HalfOnlyTaken ==
  shm = "half" =>
    \/ pc["writer"] = "copy_2"
    \/ sem = 0 /\ \A p \in Programs : ~Holds(p)
    \/ "shm" \notin linked /\ NobodyAlive

IInv ==
  /\ Types /\ NotYetPrinted /\ SelectedForAReason /\ Quiet /\ NamesThere
  /\ Exclusive /\ HalfOnlyTaken /\ CopiesWhole

LEMMA OneLine == \A x : Append(<<>>, x) = <<x>> /\ <<x>> # <<>>
  OBVIOUS

LEMMA OneLineIs ==
  ASSUME NEW S
  PROVE  /\ <<>> \in Seq(S) /\ Len(<<>>) <= 2
         /\ \A x \in S : <<x>> \in Seq(S) /\ Len(<<x>>) <= 2
  OBVIOUS

-------------------------------------------------------------------------------
LEMMA InitIInv == Init => IInv
  BY DEF Init, RelayInit, Programs, IInv, Types, Labels, Places, NotYetPrinted, NobodyAlive,
     Alive, SelectedForAReason, Quiet, NamesThere, Looping, Forking, Exclusive, Holds,
     HalfOnlyTaken, CopiesWhole

\* Steps of the parent that leave the programs, their output and what they share.
LEMMA ParentAlone ==
  ASSUME IInv, UNCHANGED <<leaky, pc, out, shared, reading>>,
         ppc' \in Places, selected' \subseteq Programs,
         SelectedForAReason', Quiet',
         Looping' \/ ppc' = "leave" => Looping \/ ppc = "leave", ppc' # "shm_open"
  PROVE  IInv'
<1> USE DEF IInv, shared, reading
<1>1. Types' /\ NotYetPrinted'
  BY DEF Types, NotYetPrinted
<1>2. NamesThere'
  BY DEF NamesThere
<1>3. Exclusive' /\ HalfOnlyTaken' /\ CopiesWhole'
  BY DEF Exclusive, Holds, HalfOnlyTaken, NobodyAlive, Alive, CopiesWhole
<1> QED
  BY <1>1, <1>2, <1>3

LEMMA OpenSemPreserves == IInv /\ OpenSem => IInv'
<1> SUFFICES ASSUME IInv, OpenSem PROVE IInv'
  OBVIOUS
<1> USE DEF IInv, Programs
<1>1. /\ ppc = "sem_open" /\ UNCHANGED <<leaky, pc, out, selected, shm, copied, mapped>>
      /\ \/ /\ ppc' = "shm_open" /\ linked' = linked \cup {"sem"}
            /\ sem' = IF "sem" \in linked THEN sem ELSE 1
         \/ ppc' = "failed" /\ UNCHANGED <<sem, linked>>
  BY DEF OpenSem, ParentGoto, reading
<1>2. NobodyAlive /\ selected = {}
  BY <1>1 DEF Quiet, SelectedForAReason
<1>3. Types'
  BY <1>1 DEF Types, Places
<1>4. NotYetPrinted' /\ SelectedForAReason' /\ Quiet' /\ CopiesWhole'
  BY <1>1, <1>2 DEF NotYetPrinted, SelectedForAReason, Quiet, CopiesWhole, NobodyAlive, Alive
<1>5. NamesThere'
  BY <1>1, <1>2 DEF NamesThere, NobodyAlive, Alive, Looping, Forking, Types
<1>6. Exclusive'
  BY <1>1, <1>2 DEF Exclusive, Holds, NobodyAlive, Alive
<1>7. HalfOnlyTaken'
  BY <1>1, <1>2 DEF HalfOnlyTaken, NamesThere, Holds, NobodyAlive, Alive
<1> QED
  BY <1>3, <1>4, <1>5, <1>6, <1>7

LEMMA OpenShmPreserves == IInv /\ OpenShm => IInv'
<1> SUFFICES ASSUME IInv, OpenShm PROVE IInv'
  OBVIOUS
<1> USE DEF IInv, Programs
<1>1. /\ ppc = "shm_open" /\ UNCHANGED <<leaky, pc, out, selected, sem, copied, mapped>>
      /\ ppc' = "failed" \/ (ppc' = "fork_writer" /\ "shm" \in linked')
      /\ linked' \in {linked, linked \cup {"shm"}}
      /\ shm' = IF "shm" \in linked THEN shm ELSE "empty"
  BY DEF OpenShm, ParentGoto, reading
<1>2. NobodyAlive /\ selected = {}
  BY <1>1 DEF Quiet, SelectedForAReason
<1>3. Types'
  BY <1>1 DEF Types, Places
<1>4. NotYetPrinted' /\ SelectedForAReason' /\ Quiet' /\ CopiesWhole' /\ Exclusive'
  BY <1>1, <1>2 DEF NotYetPrinted, SelectedForAReason, Quiet, CopiesWhole, NobodyAlive, Alive,
                    Exclusive, Holds
<1>5. NamesThere'
  <2>1. "sem" \in linked /\ linked \subseteq {"sem", "shm"}
    BY <1>1 DEF NamesThere, Types
  <2>2. ppc' = "fork_writer" => linked' = {"sem", "shm"}
    BY <1>1, <2>1
  <2>3. "sem" \in linked'
    BY <1>1, <2>1
  <2>4. \A p \in Programs : pc'[p] \notin {"start", "map"}
    BY <1>1, <1>2 DEF NobodyAlive, Alive
  <2> QED
    BY <1>1, <2>2, <2>3, <2>4 DEF NamesThere, Looping, Forking
<1>6. HalfOnlyTaken'
  <2> SUFFICES ASSUME shm' = "half" PROVE sem' = 0 /\ \A p \in Programs : ~Holds(p)'
    BY DEF HalfOnlyTaken
  <2>1. "shm" \in linked /\ shm = "half" /\ pc["writer"] # "copy_2"
    BY <1>1, <1>2 DEF NobodyAlive, Alive
  <2>2. sem = 0
    BY <2>1 DEF HalfOnlyTaken
  <2> QED
    BY <1>1, <1>2, <2>2 DEF Holds, NobodyAlive, Alive
<1> QED
  BY <1>3, <1>4, <1>5, <1>6

LEMMA UnlinkPreserves == IInv /\ Unlink => IInv'
<1> SUFFICES ASSUME IInv, Unlink PROVE IInv'
  OBVIOUS
<1> USE DEF IInv, Programs
<1>1. /\ ppc = "leave" /\ ppc' = "wait_writer" /\ linked' = {}
      /\ UNCHANGED <<leaky, pc, out, selected, sem, shm, copied, mapped>>
  BY DEF Unlink, ParentGoto, reading
<1>2. NobodyAlive /\ selected = {}
  BY <1>1 DEF Quiet, SelectedForAReason
<1>3. Types' /\ NotYetPrinted'
  BY <1>1 DEF Types, Places, NotYetPrinted
<1>4. SelectedForAReason' /\ Quiet' /\ CopiesWhole' /\ Exclusive' /\ HalfOnlyTaken'
  BY <1>1, <1>2 DEF SelectedForAReason, Quiet, CopiesWhole, NobodyAlive, Alive,
                    Exclusive, Holds, HalfOnlyTaken
<1>5. NamesThere'
  BY <1>1, <1>2 DEF NamesThere, Looping, Forking, NobodyAlive, Alive
<1> QED
  BY <1>3, <1>4, <1>5

LEMMA ForkPreserves ==
  ASSUME IInv, UNCHANGED <<shared, reading>>,
         \/ Fork("writer", "fork_writer", "fork_reader")
         \/ Fork("reader", "fork_reader", "close")
  PROVE  IInv'
<1> USE DEF IInv, Programs, shared, reading
<1>1. PICK p \in Programs :
        /\ ppc = IF p = "writer" THEN "fork_writer" ELSE "fork_reader"
        /\ \/ /\ ppc' = (IF p = "writer" THEN "fork_reader" ELSE "close")
              /\ pc[p] = "unborn" /\ pc' = [pc EXCEPT ![p] = "start"]
           \/ ppc' = "failed" /\ pc' = pc
        /\ UNCHANGED <<leaky, out, selected>>
  BY DEF Fork, ParentGoto, ProgramGoto
<1>2. selected = {} /\ linked = {"sem", "shm"}
  BY <1>1 DEF SelectedForAReason, NamesThere, Looping, Forking
<1>3. CASE pc' = pc
  <2>1. SelectedForAReason' /\ Quiet' /\ ppc' \in Places
    BY <1>1, <1>2, <1>3 DEF SelectedForAReason, Quiet, Places
  <2> QED
    BY <1>1, <1>2, <1>3, <2>1, ParentAlone DEF Types, Looping, Forking
<1>4. CASE pc[p] = "unborn" /\ pc' = [pc EXCEPT ![p] = "start"] /\ ppc' \in {"fork_reader", "close"}
  <2>1. Types'
    BY <1>1, <1>4 DEF Types, Labels, Places
  <2>2. NotYetPrinted' /\ SelectedForAReason' /\ Quiet' /\ CopiesWhole'
    BY <1>1, <1>2, <1>4 DEF Types, NotYetPrinted, SelectedForAReason, Quiet, CopiesWhole
  <2>3. NamesThere'
    BY <1>2, <1>4 DEF NamesThere
  <2>4. \A q \in Programs : Holds(q)' <=> Holds(q)
    BY <1>4 DEF Types, Holds
  <2>5. Exclusive'
    BY <2>4 DEF Exclusive
  <2>6. HalfOnlyTaken'
    BY <1>2, <1>4, <2>4 DEF Types, HalfOnlyTaken
  <2> QED
    BY <2>1, <2>2, <2>3, <2>5, <2>6
<1> QED
  BY <1>1, <1>3, <1>4

\* The loop of the parent, and its waiting.
LEMMA LoopPreserves ==
  ASSUME IInv, UNCHANGED <<shared, reading>>,
         \/ RelayLoop
         \/ WaitPid("writer", "wait_writer", "wait_reader")
         \/ WaitPid("reader", "wait_reader", "done")
  PROVE  IInv'
<1> USE DEF IInv, Programs
<1>1. ASSUME CloseWriteEnds PROVE IInv'
  <2>1. /\ ppc = "close" /\ ppc' = "poll_reader" /\ UNCHANGED <<leaky, pc, out, selected>>
    BY <1>1 DEF CloseWriteEnds, ParentGoto
  <2>2. SelectedForAReason' /\ Quiet' /\ ppc' \in Places
    BY <2>1 DEF SelectedForAReason, Quiet, Places
  <2> QED
    BY <2>1, <2>2, ParentAlone DEF Types, Looping, Forking
<1>2. ASSUME NEW p \in Programs, NEW from, NEW to, WaitPid(p, from, to),
             <<from, to>> \in {<<"wait_writer", "wait_reader">>, <<"wait_reader", "done">>}
      PROVE  IInv'
  <2>1. /\ ppc = from /\ ppc' = to /\ UNCHANGED <<leaky, pc, out, selected>>
    BY <1>2 DEF WaitPid, ParentGoto
  <2>2. ppc \in {"wait_writer", "wait_reader"} /\ ppc' \in {"wait_reader", "done"}
    BY <1>2, <2>1
  <2>3. SelectedForAReason' /\ Quiet' /\ ppc' \in Places
    BY <2>1, <2>2 DEF SelectedForAReason, Quiet, Places, NobodyAlive, Alive
  <2> QED
    BY <2>1, <2>2, <2>3, ParentAlone DEF Types, Looping, Forking
<1>3. ASSUME NEW p \in Programs, NEW from, NEW to, Poll(p, from, to),
             \/ p = "reader" /\ from = "poll_reader" /\ to = "poll_writer"
             \/ p = "writer" /\ from = "poll_writer" /\ to = "read_reader"
      PROVE  IInv'
  <2>1. /\ ppc = from /\ UNCHANGED <<leaky, pc, out>>
        /\ selected' = IF out[p] # <<>> \/ Ended(p) THEN selected \cup {p} ELSE selected
        /\ ppc' = IF p = "writer" /\ selected' = {} THEN "poll_reader" ELSE to
    BY <1>3 DEF Poll
  <2>2. leaky /\ selected \subseteq Programs
    BY DEF Types
  <2>3. Ended(p) => NobodyAlive
    BY <1>3, <2>2 DEF Ended, CanBeWritten, Other, NobodyAlive
  <2>4. \A q \in selected' : out'[q] # <<>> \/ NobodyAlive'
    BY <2>1, <2>3 DEF SelectedForAReason, NobodyAlive, Alive
  <2>5. SelectedForAReason' /\ Quiet' /\ ppc' \in Places
    BY <1>3, <2>1, <2>4 DEF SelectedForAReason, Quiet, Places
  <2>6. selected' \subseteq Programs
    BY <2>1, <2>2
  <2>7. Looping /\ ppc' # "shm_open"
    BY <1>3, <2>1 DEF Looping
  <2> QED
    BY <2>1, <2>5, <2>6, <2>7, ParentAlone
<1>4. ASSUME NEW p \in Programs, NEW from, NEW to, Relay(p, from, to),
             \/ p = "reader" /\ from = "read_reader" /\ to = "read_writer"
             \/ p = "writer" /\ from = "read_writer" /\ to = "poll_reader"
      PROVE  IInv'
  <2>1. ppc = from /\ UNCHANGED <<leaky, pc>>
    BY <1>4 DEF Relay
  <2>2. Looping
    BY <1>4, <2>1 DEF Looping
  <2>3. CASE p \notin selected /\ ppc' = to /\ UNCHANGED <<out, selected>>
    <3>1. SelectedForAReason' /\ Quiet' /\ ppc' \in Places
      BY <1>4, <2>1, <2>3 DEF SelectedForAReason, Quiet, Places, Types, NobodyAlive, Alive
    <3> QED
      BY <1>4, <2>1, <2>2, <2>3, <3>1, ParentAlone DEF Types
  <2>4. CASE p \in selected /\ out[p] = <<>> /\ ppc' = "leave" /\ selected' = {} /\ out' = out
    <3>1. NobodyAlive
      BY <2>4 DEF SelectedForAReason
    <3>2. SelectedForAReason' /\ Quiet' /\ ppc' \in Places
      BY <2>1, <2>4, <3>1 DEF SelectedForAReason, Quiet, Places, NobodyAlive, Alive
    <3> QED
      BY <2>1, <2>2, <2>4, <3>2, ParentAlone
  <2>5. CASE /\ p \in selected /\ out[p] # <<>> /\ ppc' = to
             /\ out' = [out EXCEPT ![p] = <<>>] /\ selected' = selected \ {p}
    <3>1. Types'
      BY <1>4, <2>1, <2>5 DEF Types, Places, shared, reading
    <3>2. \A q \in selected' : out'[q] # <<>> \/ NobodyAlive'
      BY <2>1, <2>5 DEF SelectedForAReason, NobodyAlive, Alive, Types
    <3>3. SelectedForAReason'
      BY <1>4, <2>1, <2>5, <3>2 DEF SelectedForAReason, Types
    <3>4. NotYetPrinted' /\ Quiet'
      BY <1>4, <2>1, <2>5 DEF NotYetPrinted, Quiet, Types
    <3>5. NamesThere'
      BY <1>4, <2>1, <2>2, <2>5 DEF NamesThere, shared
    <3>6. Exclusive' /\ HalfOnlyTaken' /\ CopiesWhole'
      BY <2>1 DEF Exclusive, Holds, HalfOnlyTaken, NobodyAlive, Alive, CopiesWhole, shared, reading
    <3> QED
      BY <3>1, <3>3, <3>4, <3>5, <3>6
  <2> QED
    BY <1>4, <2>3, <2>4, <2>5 DEF Relay
<1> QED
  BY <1>1, <1>2, <1>3, <1>4 DEF RelayLoop

-------------------------------------------------------------------------------
\* What every step of a program keeps; what it does to the semaphore and to the
\* memory is left to the lemmas below.
LEMMA ProgramMoves ==
  ASSUME IInv, NEW p \in Programs, Alive(p), NEW to \in Labels \ {"unborn", "start"},
         pc' = [pc EXCEPT ![p] = to], UNCHANGED <<leaky, ppc, selected, linked>>,
         to = "map" => pc[p] = "start",
         \/ /\ out' = out
            /\ to \in {"wait", "copy", "copy_2", "map", "print"}
                 => pc[p] \in {"start", "map", "wait", "copy", "copy_2"}
         \/ /\ \E line \in {"wrote", "got"} : out' = [out EXCEPT ![p] = <<line>>]
            /\ to = "post",
         sem' \in {0, 1}, shm' \in {"empty", "half", "ready"}, mapped' \in BOOLEAN
  PROVE  Types' /\ NotYetPrinted' /\ SelectedForAReason' /\ Quiet' /\ NamesThere'
<1> USE DEF IInv, Programs
<1>1. ~NobodyAlive
  BY DEF NobodyAlive
<1>2. \A q \in Programs : pc'[q] = IF q = p THEN to ELSE pc[q]
  BY DEF Types
<1>3. Types'
  <2>1. out' \in [Programs -> {<<>>, <<"wrote">>, <<"got">>}]
    BY DEF Types
  <2> QED
    BY <2>1 DEF Types
<1>4. \A q \in Programs : out'[q] = out[q] \/ (q = p /\ out'[q] # <<>> /\ to = "post")
  BY OneLine DEF Types
<1>5. NotYetPrinted'
  BY <1>2, <1>4 DEF NotYetPrinted, Alive
<1>6. SelectedForAReason'
  BY <1>1, <1>4 DEF SelectedForAReason, Types
<1>7. Quiet'
  BY <1>1 DEF Quiet
<1>8. NamesThere'
  BY <1>2 DEF NamesThere, Looping, Forking
<1> QED
  BY <1>3, <1>5, <1>6, <1>7, <1>8

\* A step that neither takes nor gives back the semaphore, nor stores or copies.
LEMMA OutsidePreserves ==
  ASSUME IInv, NEW p \in Programs, NEW to, pc' = [pc EXCEPT ![p] = to],
         Alive(p), pc[p] # "copy_2", to # "copy_2",
         to \in {"copy", "print", "post"} => Holds(p),
         UNCHANGED <<linked, sem, shm, copied>>
  PROVE  Exclusive' /\ HalfOnlyTaken' /\ CopiesWhole'
<1> USE DEF IInv, Programs
<1>1. \A q \in Programs : pc'[q] = IF q = p THEN to ELSE pc[q]
  BY DEF Types
<1>2. \A q \in Programs : Holds(q)' => Holds(q)
  BY <1>1 DEF Holds
<1>3. Exclusive'
  BY <1>2 DEF Exclusive
<1>4. HalfOnlyTaken'
  BY <1>1, <1>2 DEF HalfOnlyTaken, NobodyAlive
<1> QED
  BY <1>3, <1>4 DEF CopiesWhole

\* Who holds the semaphore finds a whole message, unless it is the writer at work.
LEMMA WholeForHolder ==
  ASSUME IInv, NEW p \in Programs, Holds(p), pc[p] # "copy_2"
  PROVE  shm # "half"
<1>1. pc["writer"] # "copy_2"
  BY DEF IInv, Exclusive, Holds, Programs
<1> QED
  BY <1>1 DEF IInv, HalfOnlyTaken, Holds, NobodyAlive, Alive

LEMMA ProgramPreserves ==
  ASSUME IInv, NEW p \in Programs, Program(p)
  PROVE  IInv'
<1>1. CASE OpensSem(p) \/ (ExecFails(p, "start") /\ UNCHANGED <<shared, reading>>)
  <2>1. PICK to \in {"map", "exit", "gone"} :
          /\ pc[p] = "start" /\ pc' = [pc EXCEPT ![p] = to]
          /\ UNCHANGED <<leaky, ppc, out, selected, linked, sem, shm, copied, mapped>>
    BY <1>1 DEF OpensSem, ExecFails, ProgramGoto, shared, reading
  <2>2. Types' /\ NotYetPrinted' /\ SelectedForAReason' /\ Quiet' /\ NamesThere'
    BY <2>1, ProgramMoves DEF Alive, Labels, IInv, Types
  <2> QED
    BY <2>1, <2>2, OutsidePreserves DEF Alive, IInv
<1>2. CASE Maps(p)
  <2>1. PICK to \in {"wait", "exit"} :
          /\ pc[p] = "map" /\ pc' = [pc EXCEPT ![p] = to]
          /\ UNCHANGED <<leaky, ppc, out, selected, linked, sem, shm, copied>>
          /\ mapped' = (p = "reader" \/ mapped) \/ mapped' = mapped
    BY <1>2 DEF Maps, ProgramGoto, shared
  <2>2. mapped' \in BOOLEAN
    BY <2>1 DEF IInv, Types
  <2>3. Types' /\ NotYetPrinted' /\ SelectedForAReason' /\ Quiet' /\ NamesThere'
    BY <2>1, <2>2, ProgramMoves DEF Alive, Labels, IInv, Types
  <2> QED
    BY <2>1, <2>3, OutsidePreserves DEF Alive, IInv
<1>3. CASE WaitSem(p)
  <2>1. /\ pc[p] = "wait" /\ pc' = [pc EXCEPT ![p] = "copy"]
        /\ UNCHANGED <<leaky, ppc, out, selected, linked, shm, copied, mapped>>
        /\ sem > 0 /\ sem' = sem - 1
    BY <1>3 DEF WaitSem, Step, ProgramGoto, reading
  <2>2. sem = 1 /\ sem' = 0
    BY <2>1 DEF IInv, Types
  <2>3. Types' /\ NotYetPrinted' /\ SelectedForAReason' /\ Quiet' /\ NamesThere'
    BY <2>1, <2>2, ProgramMoves DEF Alive, Labels, IInv, Types
  <2>4. \A q \in Programs : ~Holds(q)
    BY <2>2 DEF IInv, Exclusive
  <2>5. shm # "half"
    BY <2>1, <2>2, <2>4 DEF IInv, HalfOnlyTaken, Holds, NobodyAlive, Alive, Programs
  <2>6. Exclusive' /\ HalfOnlyTaken'
    BY <2>1, <2>2, <2>4, <2>5 DEF IInv, Types, Exclusive, HalfOnlyTaken, Holds, Programs
  <2> QED
    BY <2>1, <2>3, <2>6 DEF IInv, CopiesWhole
<1>4. CASE PostSem(p)
  <2>1. /\ pc[p] = "post" /\ pc' = [pc EXCEPT ![p] = "exit"]
        /\ UNCHANGED <<leaky, ppc, out, selected, linked, shm, copied, mapped>>
        /\ sem' = sem + 1
    BY <1>4 DEF PostSem, Step, ProgramGoto, reading
  <2>2. sem = 0 /\ sem' = 1
    BY <2>1 DEF IInv, Exclusive, Holds
  <2>3. Types' /\ NotYetPrinted' /\ SelectedForAReason' /\ Quiet' /\ NamesThere'
    BY <2>1, <2>2, ProgramMoves DEF Alive, Labels, IInv, Types
  <2>4. shm # "half"
    BY <2>1, WholeForHolder DEF Holds
  <2>5. Exclusive' /\ HalfOnlyTaken'
    BY <2>1, <2>4 DEF IInv, Types, Exclusive, HalfOnlyTaken, Holds, Programs
  <2> QED
    BY <2>1, <2>3, <2>5 DEF IInv, CopiesWhole
<1>5. CASE /\ Say(p, "print", "post", IF p = "writer" THEN "wrote" ELSE "got")
           /\ UNCHANGED <<shared, reading>>
  <2>1. /\ pc[p] = "print" /\ UNCHANGED <<leaky, ppc, selected, linked, sem, shm, copied, mapped>>
        /\ \/ /\ pc' = [pc EXCEPT ![p] = "post"]
              /\ out' = [out EXCEPT ![p] = Append(@, IF p = "writer" THEN "wrote" ELSE "got")]
           \/ pc' = [pc EXCEPT ![p] = "gone"] /\ out' = out
    BY <1>5 DEF Say, ProgramGoto, shared, reading
  <2>2. out[p] = <<>>
    BY <2>1 DEF IInv, NotYetPrinted
  <2>3. PICK to \in {"post", "gone"} :
          /\ pc' = [pc EXCEPT ![p] = to]
          /\ \/ out' = out /\ to = "gone"
             \/ to = "post" /\ \E line \in {"wrote", "got"} : out' = [out EXCEPT ![p] = <<line>>]
    BY <2>1, <2>2, OneLine DEF IInv, Types
  <2>4. Types' /\ NotYetPrinted' /\ SelectedForAReason' /\ Quiet' /\ NamesThere'
    BY <2>1, <2>3, ProgramMoves DEF Alive, Labels, IInv, Types
  <2> QED
    BY <2>1, <2>3, <2>4, OutsidePreserves DEF Alive, Holds, IInv
<1>6. CASE Step(p, "exit", "gone") /\ UNCHANGED <<shared, reading>>
  <2>1. /\ pc[p] = "exit" /\ pc' = [pc EXCEPT ![p] = "gone"]
        /\ UNCHANGED <<leaky, ppc, out, selected, linked, sem, shm, copied, mapped>>
    BY <1>6 DEF Step, ProgramGoto, shared, reading
  <2>2. Types' /\ NotYetPrinted' /\ SelectedForAReason' /\ Quiet' /\ NamesThere'
    BY <2>1, ProgramMoves DEF Alive, Labels, IInv, Types
  <2> QED
    BY <2>1, <2>2, OutsidePreserves DEF Alive, IInv
<1> QED
  BY <1>1, <1>2, <1>3, <1>4, <1>5, <1>6 DEF Program

LEMMA StoresPreserves ==
  ASSUME IInv, Stores("copy", "copy_2", "half") \/ Stores("copy_2", "print", "ready")
  PROVE  IInv'
<1>1. PICK from \in {"copy", "copy_2"} :
        /\ pc["writer"] = from
        /\ pc' = [pc EXCEPT !["writer"] = IF from = "copy" THEN "copy_2" ELSE "print"]
        /\ shm' = IF from = "copy" THEN "half" ELSE "ready"
        /\ UNCHANGED <<leaky, ppc, out, selected, linked, sem, copied, mapped>>
  BY DEF Stores, Step, ProgramGoto, reading
<1>2. "writer" \in Programs /\ Holds("writer") /\ Alive("writer")
  BY <1>1 DEF Programs, Holds, Alive
<1>3. Types' /\ NotYetPrinted' /\ SelectedForAReason' /\ Quiet' /\ NamesThere'
  BY <1>1, <1>2, ProgramMoves DEF Labels, IInv, Types
<1>4. Exclusive' /\ HalfOnlyTaken'
  BY <1>1, <1>2 DEF IInv, Types, Exclusive, HalfOnlyTaken, Holds, Programs
<1> QED
  BY <1>1, <1>3, <1>4 DEF IInv, CopiesWhole

LEMMA CopiesPreserves == IInv /\ Copies => IInv'
<1> SUFFICES ASSUME IInv, Copies PROVE IInv'
  OBVIOUS
<1>1. PICK to \in {"print", "gone"} :
        /\ pc["reader"] = "copy" /\ pc' = [pc EXCEPT !["reader"] = to]
        /\ copied' = shm \/ copied' = copied
        /\ UNCHANGED <<leaky, ppc, out, selected, linked, sem, shm, mapped>>
  BY DEF Copies, Step, ProgramGoto, shared
<1>2. "reader" \in Programs /\ Holds("reader") /\ Alive("reader")
  BY <1>1 DEF Programs, Holds, Alive
<1>3. Types' /\ NotYetPrinted' /\ SelectedForAReason' /\ Quiet' /\ NamesThere'
  BY <1>1, <1>2, ProgramMoves DEF Labels, IInv, Types
<1>4. shm # "half"
  BY <1>1, <1>2, WholeForHolder
<1>5. Exclusive' /\ HalfOnlyTaken' /\ CopiesWhole'
  BY <1>1, <1>2, <1>4 DEF IInv, Types, Exclusive, HalfOnlyTaken, Holds, Programs, CopiesWhole
<1> QED
  BY <1>3, <1>5 DEF IInv

-------------------------------------------------------------------------------
LEMMA CtrlCPreserves == IInv /\ CtrlC => IInv'
<1> SUFFICES ASSUME IInv, CtrlC PROVE IInv'
  OBVIOUS
<1> USE DEF IInv, Programs
<1>1. /\ ppc' = "killed" /\ selected' = {}
      /\ pc' = [p \in Programs |-> IF Alive(p) THEN "gone" ELSE pc[p]]
      /\ UNCHANGED <<leaky, out, linked, sem, shm, copied, mapped>>
  BY DEF CtrlC, shared, reading
<1>2. \A p \in Programs : pc'[p] \in {"unborn", "gone"} /\ (pc[p] = "unborn" <=> pc'[p] = "unborn")
  BY <1>1 DEF Alive
<1>3. Types'
  BY <1>1 DEF Types, Labels, Places
<1>4. NotYetPrinted' /\ SelectedForAReason' /\ Quiet'
  BY <1>1, <1>2 DEF NotYetPrinted, SelectedForAReason, Quiet, NobodyAlive, Alive
<1>5. NamesThere' /\ Exclusive' /\ CopiesWhole'
  BY <1>1, <1>2 DEF NamesThere, Looping, Forking, Exclusive, Holds, CopiesWhole
<1>6. HalfOnlyTaken'
  <2>1. pc["writer"] = "copy_2" => sem = 0
    BY DEF Exclusive, Holds
  <2> QED
    BY <1>1, <1>2, <2>1 DEF HalfOnlyTaken, Holds, NobodyAlive, Alive
<1> QED
  BY <1>3, <1>4, <1>5, <1>6

LEMMA RunAgainPreserves == IInv /\ RunAgain => IInv'
<1> SUFFICES ASSUME IInv, RunAgain PROVE IInv'
  OBVIOUS
<1> USE DEF IInv, Programs
<1>1. /\ NobodyAlive /\ ppc' = "sem_open" /\ pc' = [p \in Programs |-> "unborn"]
      /\ out' = [p \in Programs |-> <<>>] /\ selected' = {} /\ copied' = "none" /\ mapped' = FALSE
      /\ UNCHANGED <<leaky, linked, sem, shm>>
  BY DEF RunAgain, Over, shared, NobodyAlive
<1>2. Types' /\ NotYetPrinted' /\ SelectedForAReason' /\ Quiet'
  BY <1>1 DEF Types, Labels, Places, NotYetPrinted, SelectedForAReason, Quiet, NobodyAlive, Alive
<1>3. NamesThere' /\ Exclusive' /\ CopiesWhole'
  BY <1>1 DEF NamesThere, Looping, Forking, Exclusive, Holds, CopiesWhole
<1>4. HalfOnlyTaken'
  BY <1>1 DEF HalfOnlyTaken, Holds, NobodyAlive, Alive
<1> QED
  BY <1>2, <1>3, <1>4

THEOREM IInvHolds == SafeSpec => []IInv
<1>1. IInv /\ [Next]_vars => IInv'
  <2> SUFFICES ASSUME IInv, [Next]_vars PROVE IInv'
    OBVIOUS
  <2>1. CASE UNCHANGED vars
    BY <2>1
    DEF vars, relayVars, shared, reading, IInv, Types, NotYetPrinted, SelectedForAReason, Quiet,
        NamesThere, Looping, Forking, Exclusive, Holds, HalfOnlyTaken, NobodyAlive, Alive,
        CopiesWhole
  <2>2. CASE Parent
    BY <2>2, OpenSemPreserves, OpenShmPreserves, UnlinkPreserves, ForkPreserves, LoopPreserves
    DEF Parent
  <2>3. CASE Writer
    BY <2>3, ProgramPreserves, StoresPreserves DEF Writer, Programs
  <2>4. CASE Reader
    BY <2>4, ProgramPreserves, CopiesPreserves DEF Reader, Programs
  <2> QED
    BY <2>1, <2>2, <2>3, <2>4, CtrlCPreserves, RunAgainPreserves DEF Next
<1> QED
  BY <1>1, InitIInv, PTL DEF SafeSpec

\* The reader never copies half a message, for any number of failures, of Ctrl+C
\* and of further runs.
THEOREM CopiesWholeHolds == SafeSpec => []CopiesWhole
<1>1. IInv => CopiesWhole
  BY DEF IInv
<1> QED
  BY <1>1, IInvHolds, PTL

\* The names are there while a program has to open them, and the types hold.
THEOREM NamesAwaitProgramsHolds == SafeSpec => []NamesAwaitPrograms
<1>1. IInv => NamesAwaitPrograms
  <2> SUFFICES ASSUME IInv PROVE TypeOK
    BY DEF IInv, NamesThere, NamesAwaitPrograms
  <2>1. \A x \in {<<>>, <<"wrote">>, <<"got">>} :
          x \in Seq({"try open", "sending", "received", "wrote", "got"}) /\ Len(x) <= 2
    BY OneLineIs, Zenon
  <2>2. RelayTypeOK
    BY <2>1 DEF IInv, Types, SelectedForAReason, RelayTypeOK
  <2> QED
    BY <2>2 DEF IInv, Types, Labels, Places, TypeOK, Looping, Forking
<1> QED
  BY <1>1, IInvHolds, PTL
===============================================================================
