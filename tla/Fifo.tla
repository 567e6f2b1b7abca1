--------------------------------- MODULE Fifo ---------------------------------
(***************************************************************************)
(* A named pipe, as the programs of pipe_fifo use it: readers open it      *)
(* blocking, writers with O_NONBLOCK, and a message is short enough to be  *)
(* written and read whole.  Outside the repository: the kernel's fifo_open,*)
(* pipe_read and pipe_write.                                               *)
(***************************************************************************)
EXTENDS Integers, Sequences

VARIABLES
  readers, writers,   \* processes that have an end open or, as readers, wait in open
  met,                \* some writer opened it since the waiting reader came
  content             \* messages written and not read, in order

fifoVars == <<readers, writers, met, content>>

FifoInit == readers = {} /\ writers = {} /\ met = FALSE /\ content = <<>>

\* open(O_RDONLY) counts its caller as a reader, then waits for a writer: one
\* that is there, or one that comes meanwhile, even if it is gone again.
StartOpenRead(p) ==
  /\ readers' = readers \cup {p}
  /\ met' = (writers # {})
  /\ UNCHANGED <<writers, content>>

OpenReadReturns == met

\* open(O_WRONLY | O_NONBLOCK): ENXIO when there is no reader.
OpenWrite(p) ==
  /\ readers # {}
  /\ writers' = writers \cup {p}
  /\ met' = TRUE
  /\ UNCHANGED <<readers, content>>

NoReader == readers = {}

Write(m) == content' = Append(content, m) /\ UNCHANGED <<readers, writers, met>>

\* read returns what is there, or end of file when nobody can write; else it waits.
Readable == content # <<>> \/ writers = {}

ReadAll == content' = <<>> /\ UNCHANGED <<readers, writers, met>>

Close(p) ==
  /\ readers' = readers \ {p} /\ writers' = writers \ {p}
  /\ content' = IF readers' \cup writers' = {} THEN <<>> ELSE content
  /\ UNCHANGED met
===============================================================================
