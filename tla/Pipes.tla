--------------------------------- MODULE Pipes ---------------------------------
(***************************************************************************)
(* Pipes between the processes of Processes: bounded byte queues whose     *)
(* ends are inherited at fork.  A message is one write's bytes.            *)
(***************************************************************************)
EXTENDS Processes

CONSTANTS Pipe, Capacity   \* pipes, and the messages one holds before a write blocks

ASSUME CapacityAssumption == Capacity \in Nat \ {0}

VARIABLE content

pipeVars == <<procVars, content>>

R(n) == <<n, "r">>
W(n) == <<n, "w">>
Open(end) == {p \in Procs : end \in fds[p]}

pipe(n, failed) == [call |-> "pipe", pipe |-> n, failed |-> failed]
write(n, message) == [call |-> "write", pipe |-> n, message |-> message]
\* then: what is done only if something was read
read(n, then) == [call |-> "read", pipe |-> n, then |-> then]
\* A program that reads to the end and writes to the pipes of "out": line by
\* line, or all of it once it has read all
filter(n, out, atEnd) == [call |-> "filter", pipe |-> n, out |-> out, atEnd |-> atEnd]

PipeInit == content = [n \in Pipe |-> <<>>]

-------------------------------------------------------------------------------
MakePipe(p) ==
  /\ Calls(p, "pipe")
  /\ \/ /\ Proceed(p)
        /\ fds' = [fds EXCEPT ![p] = @ \cup {R(Call(p).pipe), W(Call(p).pipe)}]
        /\ UNCHANGED failures
     \/ /\ Call(p).failed # <<>>
        /\ CallFails /\ Continue(p, Call(p).failed) /\ UNCHANGED fds
  /\ UNCHANGED <<state, status, got, linked, reports, kills, content>>

\* A write without the descriptor fails, in vain; one that nobody can read any
\* more is answered with SIGPIPE; one into a full pipe blocks.
Write(p) ==
  /\ Calls(p, "write")
  /\ LET n == Call(p).pipe IN
     \/ W(n) \notin fds[p] /\ Proceed(p) /\ UNCHANGED <<state, status, fds, content>>
     \/ /\ W(n) \in fds[p] /\ Open(R(n)) = {}
        /\ Ends(p, SIGPIPE) /\ UNCHANGED content
     \/ /\ W(n) \in fds[p] /\ Open(R(n)) # {} /\ Len(content[n]) < Capacity
        /\ content' = [content EXCEPT ![n] = Append(@, Call(p).message)]
        /\ Proceed(p) /\ UNCHANGED <<state, status, fds>>
  /\ UNCHANGED <<got, linked, reports, failures, kills>>

\* read gives nothing: no descriptor, or the end of the file.
AtEnd(p, n) == R(n) \notin fds[p] \/ (content[n] = <<>> /\ Open(W(n)) = {})

\* One read takes all that is there.
Read(p) ==
  /\ Calls(p, "read")
  /\ LET n == Call(p).pipe IN
     \/ AtEnd(p, n) /\ Proceed(p) /\ UNCHANGED <<got, content>>
     \/ /\ R(n) \in fds[p] /\ content[n] # <<>>
        /\ got' = [got EXCEPT ![p] = @ \o content[n]]
        /\ content' = [content EXCEPT ![n] = <<>>]
        /\ Continue(p, Call(p).then \o Tail(todo[p]))
  /\ UNCHANGED <<state, status, fds, linked, reports, failures, kills>>

Writes(out, lines) ==
  IF out = {} THEN <<>>
  ELSE [k \in DOMAIN lines |-> write(CHOOSE n \in out : TRUE, lines[k])]

Filter(p) ==
  /\ Calls(p, "filter")
  /\ LET f == Call(p)
         n == f.pipe IN
     \/ /\ AtEnd(p, n)
        /\ Continue(p, (IF f.atEnd THEN Writes(f.out, got[p]) ELSE <<>>) \o Tail(todo[p]))
        /\ UNCHANGED <<got, content>>
     \/ /\ R(n) \in fds[p] /\ content[n] # <<>>
        /\ LET line == <<Head(content[n])>> IN
           /\ got' = [got EXCEPT ![p] = @ \o line]
           /\ Continue(p, (IF f.atEnd THEN <<>> ELSE Writes(f.out, line)) \o todo[p])
        /\ content' = [content EXCEPT ![n] = Tail(@)]
  /\ UNCHANGED <<state, status, fds, linked, reports, failures, kills>>

PipeStep(p) == MakePipe(p) \/ Write(p) \/ Read(p) \/ Filter(p)
===============================================================================
