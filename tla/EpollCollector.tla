---------------------------- MODULE EpollCollector ----------------------------
(***************************************************************************)
(* ec6 of exercise/ov_ec/main.cpp: a parent makes one pipe and one child   *)
(* at a time, each child writes one message into its pipe, and the parent  *)
(* collects the messages with epoll, level triggered.  Resource_guard owns *)
(* the descriptors and the children; its destructor runs on every return.  *)
(*                                                                         *)
(* Children are numbered in the order of their creation, 0 is the parent;  *)
(* pipe j is the one of child j.  The kernel's part (pipes, the ready list *)
(* of epoll, SIGPIPE) is modelled from how ec6 uses it.                    *)
(***************************************************************************)
EXTENDS Integers, Sequences

CONSTANTS
  N,                        \* children, 2 in the code
  MaxFailures, MaxDeaths    \* bounds: failing calls, children killed from outside

ASSUME CollectorAssumption ==
  N \in Nat \ {0} /\ MaxFailures \in Nat /\ MaxDeaths \in Nat

VARIABLES
  ppc,              \* the parent's next step
  k,                \* the pipe it works on
  pids,             \* pid_list of the parent's guard
  cpc,              \* each child's next step
  rd, wr,           \* processes that hold the read and the write end of a pipe
  data,             \* pipes with an unread message
  registered,       \* pipes added to the epoll instance
  ready,            \* its ready list
  evs,              \* events epoll_wait returned and the loop has not looked at
  handle,
  sent,             \* history: writes in their order, and whether epoll watched all pipes
  printed,          \* history: children in the order of the output
  failures, deaths,
  broken            \* history: a message or its registration is missing for good

vars == <<ppc, k, pids, cpc, rd, wr, data, registered, ready, evs, handle,
          sent, printed, failures, deaths, broken>>

Children == 1 .. N
ends == <<rd, wr>>
epoll == <<registered, ready>>
loop == <<evs, handle, printed>>

Init ==
  /\ ppc = "pipe" /\ k = 1 /\ pids = <<>>
  /\ cpc = [c \in Children |-> "unborn"]
  /\ rd = [j \in Children |-> {}] /\ wr = [j \in Children |-> {}]
  /\ data = {} /\ registered = {} /\ ready = <<>>
  /\ evs = <<>> /\ handle = 0
  /\ sent = <<>> /\ printed = <<>>
  /\ failures = 0 /\ deaths = 0 /\ broken = FALSE

ParentGoto(from, to) == ppc = from /\ ppc' = to
ChildGoto(c, from, to) == cpc[c] = from /\ cpc' = [cpc EXCEPT ![c] = to]

Fails == failures < MaxFailures /\ failures' = failures + 1

Elements(s) == {s[n] : n \in DOMAIN s}

Without(ends_, p) == [j \in Children |-> ends_[j] \ {p}]

-------------------------------------------------------------------------------
\* Mutants: a write end kept open, an event for a closed pipe counted,
\* events taken from the last to the first, a read end kept open

KeepWriteEnd(p) == wr
KeepReadEnd(p) == rd
CountAny(e) == TRUE
EventsLastFirst(live) ==
  [n \in DOMAIN live |-> LET j == live[Len(live) + 1 - n]
                        IN  [pipe |-> j, in |-> j \in data]]

\* The pipe's callback into epoll: a registered pipe joins the ready list once.
Wake(j) ==
  ready' = IF j \in registered /\ j \notin Elements(ready) THEN Append(ready, j) ELSE ready

-------------------------------------------------------------------------------
\* The parent up to the epoll instance.  A failing pipe2 or fork returns, which
\* runs the guard's destructor.

Pipe ==
  /\ \/ /\ ParentGoto("pipe", "fork")
        /\ rd' = [rd EXCEPT ![k] = {0}] /\ wr' = [wr EXCEPT ![k] = {0}]
        /\ UNCHANGED failures
     \/ /\ ParentGoto("pipe", "cleanup")
        /\ Fails /\ UNCHANGED ends
  /\ UNCHANGED <<k, pids, cpc, data, epoll, loop, sent, deaths, broken>>

\* The child inherits every end that the parent holds.
Inherit(ends_) == [j \in Children |-> IF 0 \in ends_[j] THEN ends_[j] \cup {k} ELSE ends_[j]]

Fork ==
  /\ \/ /\ ParentGoto("fork", "parent_side")
        /\ ChildGoto(k, "unborn", "closing")
        /\ rd' = Inherit(rd) /\ wr' = Inherit(wr)
        /\ UNCHANGED failures
     \/ /\ ParentGoto("fork", "cleanup")
        /\ Fails /\ UNCHANGED <<cpc, ends>>
  /\ UNCHANGED <<k, pids, data, epoll, loop, sent, deaths, broken>>

\* remove_fd of the write ends the parent still has.
CloseWriteEnd(p) == Without(wr, p)

ParentSide ==
  /\ ppc = "parent_side"
  /\ wr' = CloseWriteEnd(0)
  /\ pids' = Append(pids, k)
  /\ IF k < N THEN ppc' = "pipe" /\ k' = k + 1 ELSE ppc' = "epoll" /\ k' = 1
  /\ UNCHANGED <<cpc, rd, data, epoll, loop, sent, failures, deaths, broken>>

\* Without an epoll instance every later call fails and the loop never ends.
EpollCreate ==
  /\ \/ /\ ParentGoto("epoll", "add")
        /\ UNCHANGED <<failures, broken>>
     \/ /\ ParentGoto("epoll", "spin")
        /\ Fails /\ broken' = TRUE
  /\ UNCHANGED <<k, pids, cpc, ends, data, epoll, loop, sent, deaths>>

HasIn(j) == j \in data
HasHup(j) == wr[j] = {}

\* EPOLL_CTL_ADD queues the pipe at once if it has something to report; if it
\* fails, the parent only says so.
Add ==
  /\ ppc = "add"
  /\ \/ /\ registered' = registered \cup {k}
        /\ ready' = IF HasIn(k) \/ HasHup(k) THEN Append(ready, k) ELSE ready
        /\ UNCHANGED <<failures, broken>>
     \/ /\ Fails /\ broken' = TRUE
        /\ UNCHANGED epoll
  /\ IF k < N THEN k' = k + 1 /\ UNCHANGED ppc ELSE ppc' = "wait" /\ UNCHANGED k
  /\ UNCHANGED <<pids, cpc, ends, data, loop, sent, deaths>>

-------------------------------------------------------------------------------
\* The loop while (handle < num_handle)

Events(live) == [n \in DOMAIN live |-> [pipe |-> live[n], in |-> HasIn(live[n])]]

\* The places of the ready list whose pipe still has an event, from first to last.
Live ==
  {f \in UNION {[1 .. m -> DOMAIN ready] : m \in 1 .. Len(ready)} :
     /\ Elements(f) = {n \in DOMAIN ready : HasIn(ready[n]) \/ HasHup(ready[n])}
     /\ \A a, b \in DOMAIN f : a < b => f[a] < f[b]}

\* epoll_wait reports the ready pipes that still have an event, in the order of
\* the ready list, and leaves them on it.
EpollWait ==
  /\ handle < N
  /\ ParentGoto("wait", "events")
  /\ \E f \in Live :
       LET live == [a \in DOMAIN f |-> ready[f[a]]] IN
       /\ ready' = live
       /\ evs' = Events(live)
  /\ UNCHANGED <<k, pids, cpc, ends, data, registered, handle, printed, sent,
                 failures, deaths, broken>>

IsIn(e) == e.in

SkipEvent ==
  /\ ppc = "events" /\ evs # <<>> /\ ~IsIn(Head(evs))
  /\ evs' = Tail(evs)
  /\ UNCHANGED <<ppc, k, pids, cpc, ends, data, epoll, handle, printed, sent,
                 failures, deaths, broken>>

\* The inner loop reads until end of file: it blocks while the pipe is empty
\* and somebody still holds its write end.
ReadMessage ==
  /\ ppc = "events" /\ evs # <<>> /\ IsIn(Head(evs))
  /\ LET j == Head(evs).pipe IN
       /\ j \in data
       /\ data' = data \ {j}
       /\ printed' = Append(printed, j)
  /\ UNCHANGED <<ppc, k, pids, cpc, ends, epoll, evs, handle, sent,
                 failures, deaths, broken>>

AtEnd(j) == j \notin data /\ wr[j] = {}

ReadEnd ==
  /\ ppc = "events" /\ evs # <<>> /\ IsIn(Head(evs)) /\ AtEnd(Head(evs).pipe)
  /\ handle' = handle + 1
  /\ evs' = Tail(evs)
  /\ UNCHANGED <<ppc, k, pids, cpc, ends, data, epoll, printed, sent,
                 failures, deaths, broken>>

NextWait ==
  /\ evs = <<>>
  /\ ParentGoto("events", "wait")
  /\ UNCHANGED <<k, pids, cpc, ends, data, epoll, loop, sent, failures, deaths, broken>>

LeaveLoop ==
  /\ handle >= N
  /\ ParentGoto("wait", "cleanup")
  /\ UNCHANGED <<k, pids, cpc, ends, data, epoll, loop, sent, failures, deaths, broken>>

-------------------------------------------------------------------------------
\* ~Resource_guard in the parent: the descriptors first, then the children

CloseReadEnd(p) == Without(rd, p)

CloseAll ==
  /\ ParentGoto("cleanup", "reap")
  /\ rd' = CloseReadEnd(0) /\ wr' = Without(wr, 0)
  /\ UNCHANGED <<k, pids, cpc, data, epoll, loop, sent, failures, deaths, broken>>

WaitPid ==
  /\ ppc = "reap" /\ pids # <<>>
  /\ ChildGoto(Head(pids), "dead", "reaped")
  /\ pids' = Tail(pids)
  /\ UNCHANGED <<ppc, k, ends, data, epoll, loop, sent, failures, deaths, broken>>

Done ==
  /\ pids = <<>>
  /\ ParentGoto("reap", "done")
  /\ UNCHANGED <<k, pids, cpc, ends, data, epoll, loop, sent, failures, deaths, broken>>

Parent ==
  \/ Pipe \/ Fork \/ ParentSide \/ EpollCreate \/ Add \/ EpollWait \/ SkipEvent
  \/ ReadMessage \/ ReadEnd \/ NextWait \/ LeaveLoop \/ CloseAll \/ WaitPid \/ Done

-------------------------------------------------------------------------------
\* The children

\* remove_fd of all read ends the child inherited.
ChildClose(c) ==
  /\ ChildGoto(c, "closing", "write")
  /\ rd' = Without(rd, c)
  /\ UNCHANGED <<ppc, k, pids, wr, data, epoll, loop, sent, failures, deaths, broken>>

\* write: the message arrives, or the call fails and the child goes on.
ChildWrite(c) ==
  /\ ChildGoto(c, "write", "exit")
  /\ rd[c] # {}
  /\ \/ /\ data' = data \cup {c}
        /\ sent' = Append(sent, [child |-> c, watched |-> registered = Children])
        /\ Wake(c)
        /\ UNCHANGED <<failures, broken>>
     \/ /\ Fails /\ broken' = TRUE
        /\ UNCHANGED <<data, sent, ready>>
  /\ UNCHANGED <<ppc, k, pids, ends, registered, loop, deaths>>

\* The end of a process closes what it holds; a pipe that loses its last write
\* end reports it.
Ends(c, from) ==
  /\ ChildGoto(c, from, "dead")
  /\ rd' = Without(rd, c) /\ wr' = Without(wr, c)
  /\ IF wr'[c] = {} THEN Wake(c) ELSE UNCHANGED ready
  /\ UNCHANGED <<ppc, k, pids, data, registered, loop, sent, failures>>

\* The destructor in the child: the write end is closed; waitpid for the pids it
\* inherited fails at once, since they are not its children.
ChildExit(c) == Ends(c, "exit") /\ UNCHANGED <<deaths, broken>>

\* SIGPIPE: the parent returned early and closed the read end.
ChildSigpipe(c) == rd[c] = {} /\ Ends(c, "write") /\ UNCHANGED <<deaths, broken>>

\* Killed from outside before its write.
ChildKilled(c) ==
  /\ deaths < MaxDeaths /\ deaths' = deaths + 1
  /\ broken' = TRUE
  /\ Ends(c, "closing") \/ Ends(c, "write")

Child(c) == ChildClose(c) \/ ChildWrite(c) \/ ChildExit(c) \/ ChildSigpipe(c)

Next == Parent \/ \E c \in Children : Child(c) \/ ChildKilled(c)

\* The parent and every child run; nothing forces a failure or a kill.
Spec ==
  /\ Init /\ [][Next]_vars
  /\ WF_vars(Parent)
  /\ \A c \in Children : WF_vars(Child(c))

-------------------------------------------------------------------------------
\* Every variable keeps its type.
TypeOK ==
  /\ ppc \in {"pipe", "fork", "parent_side", "epoll", "add", "spin", "wait",
              "events", "cleanup", "reap", "done"}
  /\ k \in Children
  /\ pids \in Seq(Children)
  /\ cpc \in [Children -> {"unborn", "closing", "write", "exit", "dead", "reaped"}]
  /\ rd \in [Children -> SUBSET (0 .. N)] /\ wr \in [Children -> SUBSET (0 .. N)]
  /\ data \subseteq Children /\ registered \subseteq Children
  /\ ready \in Seq(Children) /\ Len(ready) <= N
  /\ handle \in 0 .. N
  /\ broken \in BOOLEAN

\* The types hold, and:
\* handle counts pipes whose message was read to its end, each once: it is the
\* number of messages printed, less the one whose end is still awaited.  In
\* particular the loop ends only when every message was printed, once each.
CountsMessages ==
  /\ TypeOK
  /\ \A m, n \in DOMAIN printed : printed[m] = printed[n] => m = n
  /\ LET waiting == ppc = "events" /\ evs # <<>> /\ Head(evs).in
                      /\ Head(evs).pipe \in Elements(printed)
     IN  handle = Len(printed) - (IF waiting THEN 1 ELSE 0)

\* Whatever failed on the way, once the parent returned no process holds an end
\* of a pipe and every child it had is reaped.
Released ==
  ppc = "done" =>
    \A j \in Children : /\ rd[j] = {} /\ wr[j] = {}
                        /\ cpc[j] \in {"unborn", "reaped"}

\* The parent returns, also when pipe2 or fork failed, unless a message or its
\* registration is missing: then it waits for ever.
Returns == <>(ppc = "done" \/ broken)

\* main.cpp:195 asks for the messages in the order in which they were sent.  The
\* code keeps it for those sent once epoll watches all pipes: none of them is
\* printed before one that was sent earlier.
OrderedOnceWatched ==
  \A m, n \in DOMAIN sent :
    m < n /\ sent[m].watched =>
      \A b \in DOMAIN printed : printed[b] = sent[n].child =>
        \E a \in 1 .. b : printed[a] = sent[m].child
===============================================================================
