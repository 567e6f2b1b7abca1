-------------------------------- MODULE Queues --------------------------------
(***************************************************************************)
(* POSIX and System V message queues that the processes of Processes find  *)
(* by a name.  A POSIX queue outlives its name while somebody has it open; *)
(* removing a System V queue ends it for everybody.                        *)
(***************************************************************************)
EXTENDS Processes

CONSTANTS
  MaxQueues,   \* bound on the queues created
  MaxMsg,      \* mq_maxmsg of the POSIX queues
  MaxKeyed     \* messages for which a System V queue has room

ASSUME QueueAssumption == MaxQueues \in Nat /\ MaxMsg \in Nat \ {0} /\ MaxKeyed \in Nat \ {0}

VARIABLES
  queues,    \* how many were created; a queue is its number
  messages,  \* in each queue
  removed    \* System V queues that are no more

queueVars == <<procVars, queues, messages, removed>>

\* open: mq_open and msgget; fetch: mq_receive and msgrcv
open(name, failed) == [call |-> "open", name |-> name, failed |-> failed]
send(message, room) == [call |-> "send", message |-> message, room |-> room]
fetch(waits) == [call |-> "fetch", waits |-> waits]
closeQueue == [call |-> "close", set |-> 1 .. MaxQueues]
rmid(name) == [call |-> "rmid", name |-> name]

QueueInit ==
  /\ queues = 0
  /\ messages = [q \in 1 .. MaxQueues |-> <<>>]
  /\ removed = {}

Queue(p) == CHOOSE q \in fds[p] : TRUE

-------------------------------------------------------------------------------
\* The programs.  A child's message is the number of its instance.  No program
\* makes the file ftok asks for, so the System V programs get one and the same
\* key; a failing fork of three of the four leaves a parent that goes on.

CONSTANTS MQ_NAME, KEY

\* Mutants: the name left behind, a receive that does not wait
KeepsName(i) ==
  << open(MQ_NAME, <<exit(1)>>),
     fork(1, <<send(i, MaxMsg), closeQueue, exit(0)>>, <<>>),
     fetch(TRUE), closeQueue, exit(0) >>
ReceivesAtOnce(i) ==
  << open(KEY, <<>>),
     fork(1, <<send(i, MaxKeyed), exit(0)>>, <<>>),
     fetch(FALSE), rmid(KEY), exit(0) >>

\* basic_MQ/posix.cpp, and Hello_MQ with POSIX, which only sleeps in addition
Posix(i) ==
  << open(MQ_NAME, <<exit(1)>>),
     fork(1, <<send(i, MaxMsg), closeQueue, exit(0)>>, <<>>),
     fetch(TRUE), closeQueue, unlink(MQ_NAME), exit(0) >>

\* basic_MQ/sys_v.cpp
SysV(i) ==
  << open(KEY, <<>>),
     fork(1, <<send(i, MaxKeyed), exit(0)>>, <<>>),
     fetch(TRUE), rmid(KEY), exit(0) >>

\* Hello_MQ with SYS_V
HelloSysV(i) ==
  << open(KEY, <<>>),
     fork(1, <<send(i, MaxKeyed), exit(1)>>, <<exit(1)>>),
     fetch(FALSE), waitpid(1, FALSE), rmid(KEY), exit(0) >>

-------------------------------------------------------------------------------
\* O_CREAT, IPC_CREAT: the queue of that name, or a new one.
OpenQueue(p) ==
  /\ Calls(p, "open")
  /\ LET name == Call(p).name IN
     \/ /\ linked[name] # Nobody
        /\ Proceed(p)
        /\ fds' = [fds EXCEPT ![p] = {linked[name]}]
        /\ UNCHANGED <<linked, queues, failures>>
     \/ /\ linked[name] = Nobody /\ queues < MaxQueues
        /\ Proceed(p)
        /\ queues' = queues + 1
        /\ linked' = [linked EXCEPT ![name] = queues']
        /\ fds' = [fds EXCEPT ![p] = {queues'}]
        /\ UNCHANGED failures
     \/ /\ Call(p).failed # <<>>
        /\ CallFails /\ Continue(p, Call(p).failed)
        /\ UNCHANGED <<fds, linked, queues>>
  /\ UNCHANGED <<state, status, got, reports, kills, messages, removed>>

\* mq_send and msgsnd wait while the queue is full.  Sending to a removed queue
\* fails, unnoticed, and so does a send that waits when the queue is removed.
Send(p) ==
  /\ Calls(p, "send")
  /\ Proceed(p)
  /\ LET q == Queue(p) IN
     \/ q \in removed /\ UNCHANGED messages
     \/ /\ q \notin removed /\ Len(messages[q]) < Call(p).room
        /\ messages' = [messages EXCEPT ![q] = Append(@, Call(p).message)]
  /\ UNCHANGED <<state, status, fds, got, linked, reports, failures, kills, queues, removed>>

Fetch(p) ==
  /\ Calls(p, "fetch")
  /\ Proceed(p)
  /\ LET q == Queue(p) IN
     \/ /\ q \notin removed /\ messages[q] # <<>>
        /\ got' = [got EXCEPT ![p] = <<Head(messages[q])>>]
        /\ messages' = [messages EXCEPT ![q] = Tail(@)]
     \/ /\ q \in removed \/ (messages[q] = <<>> /\ ~Call(p).waits)
        /\ got' = [got EXCEPT ![p] = <<Nobody>>]
        /\ UNCHANGED messages
  /\ UNCHANGED <<state, status, fds, linked, reports, failures, kills, queues, removed>>

\* msgctl IPC_RMID: who waits at this queue is woken with an error.
Remove(p) ==
  /\ Calls(p, "rmid")
  /\ Proceed(p)
  /\ removed' = removed \cup {Queue(p)}
  /\ linked' = [linked EXCEPT ![Call(p).name] = IF @ = Queue(p) THEN Nobody ELSE @]
  /\ UNCHANGED <<state, status, fds, got, reports, failures, kills, queues, messages>>

QueueStep(p) == OpenQueue(p) \/ Send(p) \/ Fetch(p) \/ Remove(p)
===============================================================================
