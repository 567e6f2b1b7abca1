-------------------------- MODULE EpollCollectorProofs --------------------------
(***************************************************************************)
(* What Resource_guard and the epoll loop promise in ec6, for any number   *)
(* of children, of failing calls and of killed children.                   *)
(***************************************************************************)
EXTENDS EpollCollector, FiniteSetTheorems, TLAPS

Steps == {"unborn", "closing", "write", "exit", "dead", "reaped"}

Types ==
  /\ k \in Children /\ pids \in Seq(Children)
  /\ cpc \in [Children -> Steps]
  /\ rd \in [Children -> SUBSET (0 .. N)] /\ wr \in [Children -> SUBSET (0 .. N)]

Holds(p, j) == p \in rd[j] \/ p \in wr[j]

\* Only a running child holds an end of a pipe, whoever made it inherit the end.
OnlyRunningHold ==
  \A c, j \in Children : Holds(c, j) => cpc[c] \in {"closing", "write", "exit"}

\* Once the destructor has closed what the parent had, it makes no further pipe.
ParentClosed == ppc \in {"reap", "done"} => \A j \in Children : ~Holds(0, j)

\* A child that is not reaped is in pid_list, or was forked this moment.
Known ==
  \A c \in Children :
    cpc[c] \notin {"unborn", "reaped"} =>
      c \in Elements(pids) \/ (ppc = "parent_side" /\ c = k)

IInv == Types /\ OnlyRunningHold /\ ParentClosed /\ Known /\ (ppc = "done" => pids = <<>>)

LEMMA NotAChild == 0 \notin Children /\ 1 \in Children
                   /\ Children \subseteq 0 .. N /\ 0 \in 0 .. N
  BY CollectorAssumption DEF Children

LEMMA ElementsAppend ==
  ASSUME NEW S, NEW s \in Seq(S), NEW x \in S
  PROVE  Elements(s) \cup {x} \subseteq Elements(Append(s, x))
<1> DEFINE t == Append(s, x)
<1>1. /\ DOMAIN s = 1 .. Len(s) /\ DOMAIN t = 1 .. Len(s) + 1
      /\ Len(s) \in Nat /\ t[Len(s) + 1] = x
      /\ \A n \in 1 .. Len(s) : t[n] = s[n]
  OBVIOUS
<1> HIDE DEF t
<1>2. Elements(s) \subseteq Elements(t) BY <1>1 DEF Elements
<1>3. x \in Elements(t)
  <2>1. Len(s) + 1 \in DOMAIN t BY <1>1
  <2> QED BY <2>1, <1>1 DEF Elements
<1> QED BY <1>2, <1>3 DEF t

LEMMA ElementsTail ==
  ASSUME NEW S, NEW s \in Seq(S), s # <<>>
  PROVE  Head(s) \in S /\ Tail(s) \in Seq(S) /\ Elements(s) \subseteq {Head(s)} \cup Elements(Tail(s))
<1>1. Head(s) = s[1] /\ Head(s) \in S /\ Tail(s) \in Seq(S) /\ Len(Tail(s)) = Len(s) - 1
  OBVIOUS
<1>2. \A n \in 1 .. Len(s) : n # 1 => n - 1 \in 1 .. Len(Tail(s)) /\ Tail(s)[n - 1] = s[n]
  OBVIOUS
<1>3. DOMAIN s = 1 .. Len(s) /\ DOMAIN Tail(s) = 1 .. Len(Tail(s))
  BY <1>1
<1>4. ASSUME NEW n \in 1 .. Len(s) PROVE s[n] = Head(s) \/ s[n] \in Elements(Tail(s))
  <2>1. CASE n = 1 BY <2>1, <1>1
  <2>2. CASE n # 1 BY <2>2, <1>2, <1>3 DEF Elements
  <2> QED BY <2>1, <2>2
<1> QED BY <1>1, <1>3, <1>4 DEF Elements

-------------------------------------------------------------------------------
LEMMA InitIInv == Init => IInv
  BY NotAChild DEF Init, IInv, Types, Steps, Holds, OnlyRunningHold, ParentClosed, Known

\* The steps that change none of the guard's state but the parent's next step.
LEMMA LoopSteps ==
  ASSUME IInv,
         EpollCreate \/ EpollWait \/ SkipEvent \/ ReadMessage \/ ReadEnd \/ NextWait \/ LeaveLoop
           \/ UNCHANGED vars
  PROVE  IInv'
<1>1. /\ UNCHANGED <<k, pids, cpc, rd, wr>>
      /\ \/ ppc' = ppc
         \/ ppc # "parent_side" /\ ppc' \notin {"reap", "done"}
  BY DEF EpollCreate, EpollWait, SkipEvent, ReadMessage, ReadEnd, NextWait, LeaveLoop,
     ParentGoto, ends, vars
<1> QED BY <1>1 DEF IInv, Types, Holds, OnlyRunningHold, ParentClosed, Known

LEMMA AddStep == ASSUME IInv, Add PROVE IInv'
<1>1. k' \in Children BY CollectorAssumption DEF IInv, Types, Add, Children
<1> QED BY <1>1 DEF IInv, Types, Holds, OnlyRunningHold, ParentClosed, Known, Add, ends

\* The parent's own steps.
LEMMA PipeStep == ASSUME IInv, Pipe PROVE IInv'
<1>1. /\ rd' \in [Children -> SUBSET (0 .. N)] /\ wr' \in [Children -> SUBSET (0 .. N)]
      /\ \A c, j \in Children : Holds(c, j)' => Holds(c, j)
  BY NotAChild DEF IInv, Types, Pipe, Holds, ends
<1>2. Types' BY <1>1 DEF IInv, Types, Pipe
<1>3. OnlyRunningHold' BY <1>1 DEF IInv, OnlyRunningHold, Pipe
<1>4. (ParentClosed /\ Known /\ (ppc = "done" => pids = <<>>))'
  BY DEF IInv, ParentClosed, Known, Pipe, ParentGoto
<1> QED BY <1>2, <1>3, <1>4 DEF IInv

LEMMA ForkStep == ASSUME IInv, Fork PROVE IInv'
<1>1. CASE ppc' = "cleanup"
  BY <1>1 DEF IInv, Types, Holds, OnlyRunningHold, ParentClosed, Known, Fork, ParentGoto, ends
<1>2. CASE ppc' = "parent_side"
  <2>1. /\ ppc = "fork" /\ ppc' = "parent_side" /\ UNCHANGED <<k, pids>>
        /\ cpc' = [cpc EXCEPT ![k] = "closing"]
        /\ rd' = Inherit(rd) /\ wr' = Inherit(wr)
    BY <1>2 DEF Fork, ParentGoto, ChildGoto
  <2>2. Types' BY <2>1, NotAChild DEF IInv, Types, Steps, Inherit
  <2>3. \A c, j \in Children : c # k /\ Holds(c, j)' => Holds(c, j)
    BY <2>1 DEF IInv, Types, Holds, Inherit
  <2>4. OnlyRunningHold' BY <2>1, <2>3 DEF IInv, Types, OnlyRunningHold
  <2>5. Known' BY <2>1 DEF IInv, Types, Known
  <2>6. ParentClosed' /\ (ppc = "done" => pids = <<>>)' BY <2>1 DEF ParentClosed
  <2> QED BY <2>2, <2>4, <2>5, <2>6 DEF IInv
<1> QED BY <1>1, <1>2 DEF Fork, ParentGoto

LEMMA ParentSideStep == ASSUME IInv, ParentSide PROVE IInv'
<1>1. k' \in Children /\ k \in Children /\ pids' = Append(pids, k) /\ ppc' \in {"pipe", "epoll"}
  BY CollectorAssumption DEF IInv, Types, ParentSide, Children
<1>2. Types' BY <1>1 DEF IInv, Types, ParentSide, CloseWriteEnd, Without
<1>3. OnlyRunningHold' BY DEF IInv, OnlyRunningHold, Holds, ParentSide, CloseWriteEnd, Without
<1>4. ParentClosed' /\ (ppc = "done" => pids = <<>>)' BY <1>1 DEF ParentClosed
<1>5. Elements(pids) \cup {k} \subseteq Elements(pids)'
  BY <1>1, ElementsAppend DEF IInv, Types
<1>6. Known' BY <1>5 DEF IInv, Known, ParentSide
<1> QED BY <1>2, <1>3, <1>4, <1>6 DEF IInv

LEMMA CloseAllStep == ASSUME IInv, CloseAll PROVE IInv'
  BY DEF IInv, Types, Holds, OnlyRunningHold, ParentClosed, Known, CloseAll, ParentGoto,
     CloseReadEnd, Without

LEMMA WaitPidStep == ASSUME IInv, WaitPid PROVE IInv'
<1> DEFINE h == Head(pids)
<1>1. /\ h \in Children /\ pids' \in Seq(Children)
      /\ Elements(pids) \subseteq {h} \cup Elements(pids)'
  BY ElementsTail DEF IInv, Types, WaitPid
<1> HIDE DEF h
<1>2. cpc[h] = "dead" /\ cpc' = [cpc EXCEPT ![h] = "reaped"] /\ ppc = "reap"
      /\ UNCHANGED <<ppc, k, rd, wr>>
  BY DEF WaitPid, ChildGoto, h, ends
<1>3. Types' BY <1>1, <1>2 DEF IInv, Types, Steps
<1>4. OnlyRunningHold' BY <1>1, <1>2 DEF IInv, Types, OnlyRunningHold, Holds
<1>5. ParentClosed' BY <1>2 DEF IInv, ParentClosed, Holds
<1>6. Known' BY <1>1, <1>2 DEF IInv, Types, Known
<1> QED BY <1>2, <1>3, <1>4, <1>5, <1>6 DEF IInv

LEMMA DoneStep == ASSUME IInv, Done PROVE IInv'
  BY DEF IInv, Types, Holds, OnlyRunningHold, ParentClosed, Known, Done, ParentGoto, ends

\* A child that goes on or ends gives ends back and takes none.
LEMMA ChildStep ==
  ASSUME IInv, NEW c \in Children, Child(c) \/ ChildKilled(c)
  PROVE  IInv'
<1> DEFINE Ended == rd' = Without(rd, c) /\ wr' = Without(wr, c)
           Goes(s) == cpc[c] \in {"closing", "write", "exit"} /\ cpc' = [cpc EXCEPT ![c] = s]
           Same == UNCHANGED <<ppc, k, pids>>
<1>a. ASSUME NEW from \in {"closing", "write", "exit"}, Ends(c, from)
      PROVE  Same /\ Goes("dead") /\ Ended
  BY <1>a DEF Ends, ChildGoto
<1>b. ASSUME ChildClose(c) PROVE Same /\ Goes("write") /\ rd' = Without(rd, c) /\ wr' = wr
  BY <1>b DEF ChildClose, ChildGoto
<1>c. ASSUME ChildWrite(c) PROVE Same /\ Goes("exit") /\ rd' = rd /\ wr' = wr
  BY <1>c DEF ChildWrite, ChildGoto, ends
<1>d. \/ \E from \in {"closing", "write", "exit"} : Ends(c, from)
      \/ ChildClose(c) \/ ChildWrite(c)
  BY DEF Child, ChildExit, ChildSigpipe, ChildKilled
<1>1. /\ Same /\ \E s \in {"write", "exit", "dead"} : Goes(s) /\ (s = "dead" => Ended)
      /\ rd' \in {rd, Without(rd, c)} /\ wr' \in {wr, Without(wr, c)}
  BY <1>a, <1>b, <1>c, <1>d
<1>2. Types' BY <1>1 DEF IInv, Types, Steps, Without
<1>3. \A p, j : j \in Children /\ Holds(p, j)' => Holds(p, j)
  BY <1>1 DEF Holds, Without
<1>4. OnlyRunningHold'
  BY <1>1, <1>3 DEF IInv, Types, OnlyRunningHold, Holds, Without
<1>5. ParentClosed' BY <1>1, <1>3 DEF IInv, ParentClosed
<1>6. Known' BY <1>1 DEF IInv, Types, Known
<1> QED BY <1>1, <1>2, <1>4, <1>5, <1>6 DEF IInv

-------------------------------------------------------------------------------
LEMMA NextIInv == IInv /\ [Next]_vars => IInv'
<1> SUFFICES ASSUME IInv, [Next]_vars PROVE IInv'
  OBVIOUS
<1>1. CASE Parent
  BY <1>1, LoopSteps, AddStep, PipeStep, ForkStep, ParentSideStep, CloseAllStep, WaitPidStep,
     DoneStep DEF Parent
<1>2. CASE \E c \in Children : Child(c) \/ ChildKilled(c)
  BY <1>2, ChildStep
<1>3. CASE UNCHANGED vars
  BY <1>3, LoopSteps
<1> QED BY <1>1, <1>2, <1>3 DEF Next

\* Nobody holds an end when only children could and none is left.
LEMMA IInvReleased == IInv => Released
<1> SUFFICES ASSUME IInv, ppc = "done", NEW j \in Children
             PROVE  rd[j] = {} /\ wr[j] = {} /\ cpc[j] \in {"unborn", "reaped"}
  BY DEF Released
<1>1. \A c \in Children : cpc[c] \in {"unborn", "reaped"}
  BY DEF IInv, Known, Elements
<1>2. \A p \in 0 .. N : ~Holds(p, j)
  BY <1>1, CollectorAssumption DEF IInv, OnlyRunningHold, ParentClosed, Children
<1> QED BY <1>1, <1>2 DEF IInv, Types, Holds

\* Whatever failed on the way, once ec6 returns no process holds an end of a pipe
\* and no child is left, for any number of children, failing calls and kills: the
\* destructor closes before it waits, and pid_list has every child that was forked.
THEOREM ReleasedHolds == Spec => []Released
<1>1. Spec => []IInv BY InitIInv, NextIInv, PTL DEF Spec
<1> QED BY <1>1, IInvReleased, PTL

-------------------------------------------------------------------------------
(***************************************************************************)
(* The messages: each is printed once and, once epoll watches every pipe,  *)
(* in the order in which they were sent.                                   *)
(***************************************************************************)
Event == [pipe : Children, in : BOOLEAN]
Sending == [child : Children, watched : BOOLEAN]

MessageTypes ==
  /\ data \subseteq Children /\ registered \subseteq Children
  /\ ready \in Seq(Children) /\ printed \in Seq(Children)
  /\ evs \in Seq(Event) /\ sent \in Seq(Sending)
  /\ handle \in Int
  /\ ppc \in {"pipe", "fork", "parent_side", "epoll", "add", "spin", "wait",
              "events", "cleanup", "reap", "done"}

\* The children are made in order, then the pipes registered in order; a child that
\* has not written holds its write end, so its pipe has nothing to report.
Phase ==
  /\ ppc \in {"pipe", "fork"} =>
       registered = {} /\ \A c \in Children : cpc[c] = "unborn" <=> c >= k
  /\ ppc = "parent_side" =>
       registered = {} /\ \A c \in Children : cpc[c] = "unborn" <=> c > k
  /\ ppc = "epoll" => registered = {}
  /\ ppc = "add" => registered \subseteq 1 .. (k - 1)
  /\ ppc \in {"epoll", "add", "wait", "events"} => \A c \in Children : cpc[c] # "unborn"
  /\ ppc = "fork" => 0 \in wr[k]
  /\ \A c \in Children : cpc[c] \in {"closing", "write"} => c \in wr[c]

Spoken(c) == cpc[c] \in {"exit", "dead", "reaped"}
Once(s) == \A a, b \in DOMAIN s : s[a] = s[b] => a = b

\* The ready list has no pipe twice, no pipe of a child yet to write, and every
\* registered pipe with a message.
ReadyOK ==
  /\ Once(ready)
  /\ Elements(ready) \subseteq registered
  /\ \A c \in Elements(ready) : Spoken(c)
  /\ data \cap registered \subseteq Elements(ready)

\* A message sent is in its pipe or printed, and never both.
Senders == {sent[n].child : n \in DOMAIN sent}
SentOK ==
  /\ \A m, n \in DOMAIN sent : sent[m].child = sent[n].child => m = n
  /\ \A c \in Senders : Spoken(c)
  /\ data \cup Elements(printed) = Senders
  /\ data \cap Elements(printed) = {}
  /\ Once(printed)
  /\ \A n \in DOMAIN sent : sent[n].watched => registered = Children

\* An event the loop has not looked at still has its message; only the one it is
\* reading may have been printed.
EventsOK ==
  /\ evs # <<>> => ppc = "events"
  /\ \A a, b \in DOMAIN evs : evs[a].pipe = evs[b].pipe => a = b
  /\ \A a \in DOMAIN evs :
       evs[a].in => evs[a].pipe \in data \/ (a = 1 /\ evs[a].pipe \in Elements(printed))

Waiting == ppc = "events" /\ evs # <<>> /\ Head(evs).in /\ Head(evs).pipe \in Elements(printed)
Counted == handle = Len(printed) - (IF Waiting THEN 1 ELSE 0)

\* While a message sent under watch is unprinted, every later one is unprinted
\* too, and comes after it in the ready list and among the events.
Behind(c, d) ==
  /\ d \notin Elements(printed)
  /\ \A a, b \in DOMAIN ready : ready[a] = c /\ ready[b] = d => a < b
  /\ \A b \in DOMAIN evs : evs[b].in /\ evs[b].pipe = d =>
       \E a \in 1 .. b - 1 : evs[a].in /\ evs[a].pipe = c
Order ==
  \A m, n \in DOMAIN sent :
    m < n /\ sent[m].watched /\ sent[m].child \notin Elements(printed) =>
      Behind(sent[m].child, sent[n].child)

MInv ==
  /\ IInv /\ MessageTypes /\ Phase /\ ReadyOK /\ SentOK /\ EventsOK /\ Counted
  /\ Order /\ OrderedOnceWatched

LEMMA SeqFacts ==
  ASSUME NEW S, NEW s \in Seq(S), NEW x \in S
  PROVE  /\ Append(s, x) \in Seq(S) /\ Len(s) \in Nat
         /\ Len(Append(s, x)) = Len(s) + 1 /\ Append(s, x)[Len(s) + 1] = x
         /\ DOMAIN s = 1 .. Len(s) /\ DOMAIN Append(s, x) = 1 .. (Len(s) + 1)
         /\ \A n \in 1 .. Len(s) : Append(s, x)[n] = s[n]
         /\ Elements(Append(s, x)) = Elements(s) \cup {x}
<1> DEFINE t == Append(s, x)
<1>1. /\ t \in Seq(S) /\ Len(s) \in Nat /\ Len(t) = Len(s) + 1 /\ t[Len(s) + 1] = x
      /\ DOMAIN s = 1 .. Len(s) /\ DOMAIN t = 1 .. (Len(s) + 1)
      /\ \A n \in 1 .. Len(s) : t[n] = s[n]
  OBVIOUS
<1> HIDE DEF t
<1>2. ASSUME NEW n \in DOMAIN t PROVE t[n] \in Elements(s) \cup {x}
  <2>1. n \in 1 .. Len(s) \/ n = Len(s) + 1 BY <1>1
  <2> QED BY <2>1, <1>1 DEF Elements
<1>3. Elements(s) \subseteq Elements(t) BY <1>1 DEF Elements
<1>4. x \in Elements(t)
  <2>1. Len(s) + 1 \in DOMAIN t BY <1>1
  <2> QED BY <2>1, <1>1 DEF Elements
<1>5. Elements(t) = Elements(s) \cup {x} BY <1>2, <1>3, <1>4 DEF Elements
<1> QED BY <1>1, <1>5 DEF t

LEMMA SeqRange ==
  ASSUME NEW S, NEW s \in Seq(S)
  PROVE  /\ DOMAIN s = 1 .. Len(s) /\ Len(s) \in Nat
         /\ \A n \in DOMAIN s : s[n] \in S
         /\ Elements(s) \subseteq S
<1>1. DOMAIN s = 1 .. Len(s) /\ Len(s) \in Nat /\ \A n \in 1 .. Len(s) : s[n] \in S OBVIOUS
<1> QED BY <1>1 DEF Elements

LEMMA TailFacts ==
  ASSUME NEW S, NEW s \in Seq(S), s # <<>>
  PROVE  /\ Head(s) = s[1] /\ 1 \in DOMAIN s /\ Head(s) \in S /\ Tail(s) \in Seq(S)
         /\ DOMAIN s = 1 .. Len(s) /\ DOMAIN Tail(s) = 1 .. (Len(s) - 1) /\ Len(s) \in Nat
         /\ \A n \in 1 .. (Len(s) - 1) : n + 1 \in DOMAIN s /\ Tail(s)[n] = s[n + 1]
<1>1. /\ Head(s) = s[1] /\ Tail(s) \in Seq(S) /\ Len(Tail(s)) = Len(s) - 1
      /\ \A n \in 1 .. Len(s) - 1 : Tail(s)[n] = s[n + 1]
      /\ Len(s) \in Nat /\ Len(s) # 0
  OBVIOUS
<1>2. DOMAIN s = 1 .. Len(s) /\ DOMAIN Tail(s) = 1 .. (Len(s) - 1) BY <1>1
<1>3. 1 \in DOMAIN s /\ Head(s) \in S BY <1>1, <1>2
<1> QED BY <1>1, <1>2, <1>3

LEMMA InitMInv == Init => MInv
<1> SUFFICES ASSUME Init PROVE MInv OBVIOUS
<1>1. IInv BY InitIInv
<1>2. MessageTypes BY DEF Init, MessageTypes
<1>3. Phase BY NotAChild, CollectorAssumption DEF Init, Phase, Children
<1>4. ReadyOK /\ SentOK /\ EventsOK /\ Counted /\ Order /\ OrderedOnceWatched
  BY DEF Init, ReadyOK, SentOK, Senders, EventsOK, Counted, Waiting, Order, OrderedOnceWatched,
     Once, Elements
<1> QED BY <1>1, <1>2, <1>3, <1>4 DEF MInv

LEMMA SendersAreChildren ==
  ASSUME MessageTypes
  PROVE  Elements(ready) \subseteq Children /\ Senders \subseteq Children
<1>1. Elements(ready) \subseteq Children BY SeqRange DEF MessageTypes
<1>2. \A n \in DOMAIN sent : sent[n] \in Sending BY SeqRange DEF MessageTypes
<1>3. Senders \subseteq Children BY <1>2 DEF Senders, Sending
<1> QED BY <1>1, <1>3

\* The steps that move no message: only Phase is at stake.
Quiet ==
  /\ UNCHANGED <<data, registered, ready, evs, handle, printed, sent>>
  /\ evs = <<>> \/ ppc' = ppc
  /\ \A c \in Children : Spoken(c) => Spoken(c)'

LEMMA QuietStep ==
  ASSUME MInv, Quiet
  PROVE  ReadyOK' /\ SentOK' /\ EventsOK' /\ Counted' /\ Order' /\ OrderedOnceWatched'
<1>1. /\ Elements(ready)' = Elements(ready) /\ Elements(printed)' = Elements(printed)
      /\ Senders' = Senders
  BY DEF Quiet, Elements, Senders
<1>2. Elements(ready) \subseteq Children /\ Senders \subseteq Children
  BY SendersAreChildren DEF MInv
<1>3. ReadyOK' BY <1>1, <1>2 DEF MInv, ReadyOK, Quiet, Once
<1>4. SentOK' BY <1>1, <1>2 DEF MInv, SentOK, Quiet, Once
<1>5. EventsOK' BY <1>1 DEF MInv, EventsOK, Quiet
<1>6. Counted' BY <1>1 DEF MInv, Counted, Waiting, Quiet
<1>7. Order' BY <1>1 DEF MInv, Order, Behind, Quiet
<1>8. OrderedOnceWatched' BY DEF MInv, OrderedOnceWatched, Quiet
<1> QED BY <1>3, <1>4, <1>5, <1>6, <1>7, <1>8
LEMMA ParentQuiet ==
  ASSUME MInv,
         Pipe \/ Fork \/ ParentSide \/ EpollCreate \/ NextWait \/ LeaveLoop \/ CloseAll
           \/ WaitPid \/ Done \/ UNCHANGED vars
  PROVE  Quiet /\ MessageTypes'
<1>1. \/ UNCHANGED cpc
      \/ k \in Children /\ cpc[k] = "unborn" /\ cpc' = [cpc EXCEPT ![k] = "closing"]
      \/ cpc[Head(pids)] = "dead" /\ cpc' = [cpc EXCEPT ![Head(pids)] = "reaped"]
  BY DEF Pipe, Fork, ParentSide, EpollCreate, NextWait, LeaveLoop, CloseAll, WaitPid, Done, vars,
     ChildGoto, MInv, IInv, Types
<1>2. cpc \in [Children -> Steps] BY DEF MInv, IInv, Types
<1>3. \A c \in Children : Spoken(c) => Spoken(c)' BY <1>1, <1>2 DEF Spoken
<1>4. UNCHANGED <<data, registered, ready, evs, handle, printed, sent>>
  BY DEF Pipe, Fork, ParentSide, EpollCreate, NextWait, LeaveLoop, CloseAll, WaitPid, Done, vars,
     ends, epoll, loop
<1>5. evs = <<>> \/ ppc' = ppc
  BY DEF Pipe, Fork, ParentSide, EpollCreate, NextWait, LeaveLoop, CloseAll, WaitPid, Done, vars,
     ParentGoto, MInv, EventsOK
<1>6. ppc' = ppc \/ ppc' \in {"pipe", "fork", "parent_side", "epoll", "add", "spin", "wait",
                             "cleanup", "reap", "done"}
  BY DEF Pipe, Fork, ParentSide, EpollCreate, NextWait, LeaveLoop, CloseAll, WaitPid, Done, vars,
     ParentGoto
<1>7. MessageTypes' BY <1>4, <1>6 DEF MInv, MessageTypes
<1> QED BY <1>3, <1>4, <1>5, <1>7 DEF Quiet

LEMMA PipePhase == ASSUME MInv, Pipe PROVE Phase'
<1>1. /\ k \in Children /\ cpc \in [Children -> Steps] /\ wr \in [Children -> SUBSET (0 .. N)]
      /\ ppc = "pipe" /\ UNCHANGED <<k, cpc, registered>>
      /\ \/ ppc' = "fork" /\ wr' = [wr EXCEPT ![k] = {0}]
         \/ ppc' = "cleanup" /\ wr' = wr
  BY DEF MInv, IInv, Types, Pipe, ParentGoto, epoll, ends
<1>2. cpc[k] = "unborn"
  BY <1>1, CollectorAssumption DEF MInv, Phase, Children
<1> QED BY <1>1, <1>2 DEF MInv, Phase

LEMMA ForkPhase == ASSUME MInv, Fork PROVE Phase'
<1>1. /\ k \in Children /\ cpc \in [Children -> Steps] /\ wr \in [Children -> SUBSET (0 .. N)]
      /\ ppc = "fork" /\ UNCHANGED <<k, registered>>
      /\ \/ /\ ppc' = "parent_side" /\ cpc' = [cpc EXCEPT ![k] = "closing"]
            /\ wr' = Inherit(wr)
         \/ ppc' = "cleanup" /\ wr' = wr /\ cpc' = cpc
  BY DEF MInv, IInv, Types, Fork, ParentGoto, ChildGoto, epoll, ends
<1>2. CASE ppc' = "cleanup" BY <1>1, <1>2 DEF MInv, Phase
<1>3. CASE ppc' = "parent_side"
  <2>1. registered = {} /\ 0 \in wr[k] /\ \A c \in Children : cpc[c] = "unborn" <=> c >= k
    BY <1>1 DEF MInv, Phase
  <2>2. \A c \in Children : cpc'[c] = "unborn" <=> c > k
    BY <2>1, <1>1, <1>3, CollectorAssumption DEF Children
  <2>3. \A c \in Children : cpc'[c] \in {"closing", "write"} => c \in wr'[c]
    BY <2>1, <1>1, <1>3 DEF MInv, Phase, Inherit
  <2> QED BY <2>1, <2>2, <2>3, <1>1, <1>3 DEF Phase
<1> QED BY <1>1, <1>2, <1>3

LEMMA ParentSidePhase == ASSUME MInv, ParentSide PROVE Phase'
<1>1. /\ k \in Children /\ cpc \in [Children -> Steps] /\ wr \in [Children -> SUBSET (0 .. N)]
      /\ ppc = "parent_side" /\ UNCHANGED <<cpc, registered>> /\ wr' = Without(wr, 0)
      /\ \/ k < N /\ ppc' = "pipe" /\ k' = k + 1
         \/ ~(k < N) /\ ppc' = "epoll" /\ k' = 1
  BY DEF MInv, IInv, Types, ParentSide, ParentGoto, epoll, CloseWriteEnd
<1>2. registered = {} /\ \A c \in Children : cpc[c] = "unborn" <=> c > k
  BY <1>1 DEF MInv, Phase
<1>3. \A c \in Children : cpc'[c] \in {"closing", "write"} => c \in wr'[c]
  BY <1>1, NotAChild DEF MInv, Phase, Without
<1>4. CASE k < N
  BY <1>1, <1>2, <1>3, <1>4, CollectorAssumption DEF Phase, Children
<1>5. CASE ~(k < N)
  BY <1>1, <1>2, <1>3, <1>5, CollectorAssumption DEF Phase, Children
<1> QED BY <1>4, <1>5

LEMMA OtherPhase ==
  ASSUME MInv,
         EpollCreate \/ NextWait \/ LeaveLoop \/ CloseAll \/ WaitPid \/ Done \/ EpollWait
           \/ SkipEvent \/ ReadMessage \/ ReadEnd \/ UNCHANGED vars
  PROVE  Phase'
<1>1. CASE EpollCreate
  BY <1>1, CollectorAssumption DEF MInv, Phase, EpollCreate, ParentGoto, ends, epoll
<1>2. CASE NextWait \/ LeaveLoop \/ EpollWait \/ SkipEvent \/ ReadMessage \/ ReadEnd \/ Done
             \/ UNCHANGED vars
  BY <1>2 DEF MInv, Phase, NextWait, LeaveLoop, EpollWait, SkipEvent, ReadMessage, ReadEnd, Done,
     vars, ParentGoto, ends, epoll
<1>3. CASE CloseAll
  BY <1>3, NotAChild DEF MInv, Phase, CloseAll, ParentGoto, Without, epoll
<1>4. CASE WaitPid
  <2>1. /\ cpc \in [Children -> Steps] /\ UNCHANGED <<ppc, k, wr, registered>> /\ ppc = "reap"
        /\ cpc' = [cpc EXCEPT ![Head(pids)] = "reaped"]
    BY <1>4 DEF MInv, IInv, Types, WaitPid, ChildGoto, ends, epoll
  <2> QED BY <2>1 DEF MInv, Phase
<1> QED BY <1>1, <1>2, <1>3, <1>4

LEMMA AddPhase == ASSUME MInv, Add PROVE Phase' /\ MessageTypes' /\ k \notin registered
<1>1. /\ k \in Children /\ ppc = "add" /\ UNCHANGED <<cpc, wr>>
      /\ registered' \subseteq registered \cup {k}
      /\ \/ k < N /\ ppc' = "add" /\ k' = k + 1
         \/ ~(k < N) /\ ppc' = "wait" /\ k' = k
  BY DEF MInv, IInv, Types, Add, epoll, ends
<1>2. registered \subseteq 1 .. (k - 1) BY <1>1 DEF MInv, Phase
<1>3. Phase' /\ k \notin registered
  BY <1>1, <1>2, CollectorAssumption DEF MInv, Phase, Children
<1>4. ready' \in Seq(Children)
  <2>1. ready' = ready \/ ready' = Append(ready, k) BY DEF Add, epoll
  <2>2. ready \in Seq(Children) BY DEF MInv, MessageTypes
  <2>3. Append(ready, k) \in Seq(Children) BY <2>2, <1>1, SeqFacts
  <2> QED BY <2>1, <2>2, <2>3
<1>5. UNCHANGED <<data, printed, evs, sent, handle>> BY DEF Add, loop
<1>6. MessageTypes' BY <1>1, <1>4, <1>5 DEF MInv, MessageTypes
<1> QED BY <1>3, <1>6
LEMMA OnceAppend ==
  ASSUME NEW S, NEW s \in Seq(S), NEW x \in S, Once(s), x \notin Elements(s)
  PROVE  Once(Append(s, x))
<1> DEFINE t == Append(s, x)
<1>1. /\ DOMAIN s = 1 .. Len(s) /\ DOMAIN t = 1 .. (Len(s) + 1) /\ Len(s) \in Nat
      /\ \A n \in 1 .. Len(s) : t[n] = s[n]
      /\ t[Len(s) + 1] = x
  BY SeqFacts
<1> HIDE DEF t
<1>2. \A n \in 1 .. Len(s) : t[n] # x BY <1>1 DEF Elements
<1>3. ASSUME NEW a \in DOMAIN t, NEW b \in DOMAIN t, t[a] = t[b] PROVE a = b
  <2>1. /\ a \in 1 .. Len(s) \/ a = Len(s) + 1
        /\ b \in 1 .. Len(s) \/ b = Len(s) + 1
    BY <1>1
  <2> QED BY <2>1, <1>1, <1>2, <1>3 DEF Once
<1> QED BY <1>3 DEF t, Once

LEMMA AddMoves ==
  ASSUME MInv, Add
  PROVE  ReadyOK' /\ SentOK' /\ EventsOK' /\ Counted' /\ Order' /\ OrderedOnceWatched'
<1>1. /\ k \in Children /\ ppc = "add" /\ evs = <<>>
      /\ UNCHANGED <<cpc, wr, data, evs, handle, printed, sent>>
  BY DEF MInv, IInv, Types, EventsOK, Add, ends, loop
<1>2. CASE UNCHANGED epoll
  <2>1. Quiet BY <1>1, <1>2 DEF Quiet, Spoken, epoll
  <2> QED BY <2>1, QuietStep
<1>3. CASE registered' = registered \cup {k}
           /\ ready' = IF HasIn(k) \/ HasHup(k) THEN Append(ready, k) ELSE ready
  <2>1. k \notin registered /\ k \notin Elements(ready)
    BY AddPhase DEF MInv, ReadyOK
  <2>2. \A n \in DOMAIN sent : ~sent[n].watched
    BY <2>1, <1>1 DEF MInv, SentOK
  <2>3. Elements(printed)' = Elements(printed) /\ Senders' = Senders
    BY <1>1 DEF Elements, Senders
  <2>4. Senders \subseteq Children BY SendersAreChildren DEF MInv
  <2>5. SentOK'
    BY <1>1, <2>2, <2>3, <2>4 DEF MInv, SentOK, Once, Spoken
  <2>6. Order' /\ OrderedOnceWatched' BY <2>2, <1>1 DEF Order, OrderedOnceWatched
  <2>7. EventsOK' /\ Counted'
    BY <1>1, <2>3 DEF MInv, EventsOK, Counted, Waiting
  <2>8. CASE HasIn(k) \/ HasHup(k)
    <3>1. Elements(ready)' = Elements(ready) \cup {k} /\ Once(ready)'
      BY <1>1, <1>3, <2>1, <2>8, SeqFacts, OnceAppend DEF MInv, MessageTypes, ReadyOK
    <3>2. Spoken(k)
      <4>1. CASE HasIn(k) BY <4>1, <1>1 DEF MInv, SentOK, HasIn
      <4>2. CASE HasHup(k)
        <5>1. cpc[k] \in Steps /\ cpc[k] # "unborn" /\ cpc[k] \notin {"closing", "write"}
          BY <4>2, <1>1 DEF MInv, IInv, Types, Phase, HasHup
        <5> QED BY <5>1 DEF Steps, Spoken
      <4> QED BY <4>1, <4>2, <2>8
    <3>3. \A c \in Children : Spoken(c)' <=> Spoken(c) BY <1>1 DEF Spoken
    <3>4. Elements(ready) \subseteq Children BY SendersAreChildren DEF MInv
    <3> QED BY <1>1, <1>3, <2>5, <2>6, <2>7, <3>1, <3>2, <3>3, <3>4 DEF MInv, ReadyOK
  <2>9. CASE ~(HasIn(k) \/ HasHup(k))
    <3>1. ready' = ready /\ k \notin data BY <1>3, <2>9 DEF HasIn
    <3>2. ReadyOK' BY <1>1, <1>3, <3>1 DEF MInv, ReadyOK, Elements, Once, Spoken
    <3> QED BY <2>5, <2>6, <2>7, <3>2
  <2> QED BY <2>8, <2>9
<1> QED BY <1>2, <1>3 DEF Add, epoll

LEMMA EventFields ==
  ASSUME NEW p, NEW i, NEW e, e = [pipe |-> p, in |-> i]
  PROVE  e.pipe = p /\ e.in = i
  OBVIOUS

LEMMA SendingFields ==
  ASSUME NEW x, NEW w, NEW e, e = [child |-> x, watched |-> w]
  PROVE  e.child = x /\ e.watched = w
  OBVIOUS

\* epoll_wait takes the ready list's pipes that still have an event, in its order.
LEMMA EpollWaitMoves ==
  ASSUME MInv, EpollWait
  PROVE  /\ ReadyOK' /\ SentOK' /\ EventsOK' /\ Counted' /\ Order' /\ OrderedOnceWatched'
         /\ MessageTypes'
<1>1. /\ ppc = "wait" /\ ppc' = "events"
      /\ UNCHANGED <<k, cpc, wr, data, registered, handle, printed, sent>>
  BY DEF EpollWait, ParentGoto, ends
<1>2. PICK f \in Live : /\ ready' = [a \in DOMAIN f |-> ready[f[a]]]
                        /\ evs' = Events([a \in DOMAIN f |-> ready[f[a]]])
  BY DEF EpollWait
<1>3. PICK m \in 1 .. Len(ready) : f \in [1 .. m -> DOMAIN ready]
  BY <1>2 DEF Live
<1>4. /\ Elements(f) = {n \in DOMAIN ready : HasIn(ready[n]) \/ HasHup(ready[n])}
      /\ \A a, b \in 1 .. m : a < b => f[a] < f[b]
      /\ \A a \in 1 .. m : f[a] \in DOMAIN ready
      /\ DOMAIN f = 1 .. m
  BY <1>2, <1>3 DEF Live
<1>5. /\ DOMAIN ready = 1 .. Len(ready) /\ Len(ready) \in Nat
      /\ \A n \in DOMAIN ready : ready[n] \in Children
      /\ m \in Nat
  BY <1>3, SeqRange DEF MInv, MessageTypes
<1>6. /\ DOMAIN ready' = 1 .. m /\ \A a \in 1 .. m : ready'[a] = ready[f[a]]
      /\ ready' \in Seq(Children)
  BY <1>2, <1>4, <1>5
<1>7. /\ DOMAIN evs' = 1 .. m
      /\ \A a \in 1 .. m : evs'[a] = [pipe |-> ready'[a], in |-> ready'[a] \in data]
  BY <1>2, <1>4, <1>6 DEF Events, HasIn
<1>8. evs' \in Seq(Event)
  <2>1. evs' = [a \in 1 .. m |-> [pipe |-> ready'[a], in |-> ready'[a] \in data]]
    BY <1>2, <1>4, <1>6 DEF Events, HasIn
  <2>2. \A a \in 1 .. m : [pipe |-> ready'[a], in |-> ready'[a] \in data] \in Event
    BY <1>4, <1>5, <1>6 DEF Event
  <2> QED BY <2>1, <2>2, <1>5
<1>9. MessageTypes' BY <1>1, <1>6, <1>8 DEF MInv, MessageTypes
<1>10. Once(ready)'
  <2>1. ASSUME NEW a \in 1 .. m, NEW b \in 1 .. m, ready'[a] = ready'[b] PROVE a = b
    <3>1. f[a] = f[b] BY <2>1, <1>4, <1>6 DEF MInv, ReadyOK, Once
    <3> QED BY <3>1, <1>4, <1>5
  <2> QED BY <2>1, <1>6 DEF Once
<1>11. Elements(ready)' \subseteq Elements(ready) BY <1>4, <1>6 DEF Elements
<1>12. \A n \in DOMAIN ready : ready[n] \in data => \E a \in 1 .. m : f[a] = n
  <2>1. ASSUME NEW n \in DOMAIN ready, ready[n] \in data PROVE \E a \in 1 .. m : f[a] = n
    <3>1. n \in Elements(f) BY <2>1, <1>4 DEF HasIn
    <3> QED BY <3>1, <1>4 DEF Elements
  <2> QED BY <2>1
<1>13. data \cap Elements(ready) \subseteq Elements(ready)'
  <2>1. ASSUME NEW c \in data \cap Elements(ready) PROVE c \in Elements(ready)'
    <3>1. PICK n \in DOMAIN ready : ready[n] = c BY DEF Elements
    <3>2. PICK a \in 1 .. m : f[a] = n BY <3>1, <1>12
    <3> QED BY <3>1, <3>2, <1>6 DEF Elements
  <2> QED BY <2>1
<1>14. ReadyOK'
  BY <1>1, <1>10, <1>11, <1>13 DEF MInv, ReadyOK, Spoken
<1>15. Elements(printed)' = Elements(printed) /\ Senders' = Senders
  BY <1>1 DEF Elements, Senders
<1>16. SentOK' BY <1>1, <1>15 DEF MInv, SentOK, Once, Spoken
<1>17. ASSUME NEW a \in 1 .. m
       PROVE  evs'[a].pipe = ready'[a] /\ (evs'[a].in <=> ready'[a] \in data)
  <2>1. evs'[a] = [pipe |-> ready'[a], in |-> ready'[a] \in data] BY <1>7
  <2>2. evs'[a].pipe = ready'[a] BY <2>1
  <2>3. evs'[a].in = (ready'[a] \in data) BY <2>1, EventFields
  <2> QED BY <2>2, <2>3, Zenon
<1>18. EventsOK'
  BY <1>1, <1>7, <1>17, <1>6, <1>10 DEF EventsOK, Once
<1>19. Counted'
  <2>1. ~Waiting BY <1>1 DEF Waiting
  <2>2. ASSUME Waiting' PROVE FALSE
    <3>1. Head(evs)' = evs'[1] /\ 1 \in DOMAIN evs' BY <2>2, <1>8, TailFacts DEF Waiting
    <3>2. Head(evs)'.pipe \in data BY <3>1, <2>2, <1>7, <1>17 DEF Waiting
    <3> QED BY <2>2, <3>2, <1>15 DEF Waiting, MInv, SentOK
  <2> QED BY <2>1, <2>2, <1>1 DEF MInv, Counted
<1>20. OrderedOnceWatched' BY <1>1 DEF MInv, OrderedOnceWatched
<1>21. ASSUME NEW i \in DOMAIN sent, NEW j \in DOMAIN sent, i < j, sent[i].watched,
              sent[i].child \notin Elements(printed)
       PROVE  Behind(sent[i].child, sent[j].child)'
  <2> DEFINE c == sent[i].child  d == sent[j].child
  <2>1. Behind(c, d) /\ registered = Children BY <1>21 DEF MInv, Order, SentOK
  <2>2. c \in data /\ c \in Elements(ready)
    <3>1. c \in Senders BY DEF Senders
    <3>2. c \in data BY <3>1, <1>21 DEF MInv, SentOK
    <3> QED BY <3>2, <2>1 DEF MInv, ReadyOK, MessageTypes
  <2>3. c # d BY <1>21, SeqRange DEF MInv, SentOK, MessageTypes
  <2> HIDE DEF c, d
  <2>4. PICK x \in DOMAIN ready : ready[x] = c BY <2>2 DEF Elements
  <2>5. PICK y \in 1 .. m : f[y] = x BY <2>4, <2>2, <1>12
  <2>6. ASSUME NEW b \in 1 .. m, ready'[b] = d PROVE y < b
    <3>1. ready[f[b]] = d /\ f[b] \in DOMAIN ready BY <2>6, <1>4, <1>6
    <3>2. x < f[b] BY <3>1, <2>4, <2>1 DEF Behind
    <3>3. ~(b < y) /\ b # y
      BY <3>2, <2>5, <1>4, <1>5
    <3> QED BY <3>3
  <2>7. \A a \in 1 .. m : ready'[a] = c => a = y
    BY <2>4, <2>5, <1>6, <1>10 DEF Once
  <2>8. \A a, b \in DOMAIN ready' : ready'[a] = c /\ ready'[b] = d => a < b
    BY <2>6, <2>7, <1>6
  <2>9. ASSUME NEW b \in DOMAIN evs', evs'[b].in, evs'[b].pipe = d
        PROVE  \E a \in 1 .. b - 1 : evs'[a].in /\ evs'[a].pipe = c
    <3>1. y < b /\ b \in 1 .. m BY <2>9, <2>6, <1>7, <1>17
    <3>2. y \in 1 .. b - 1 BY <3>1
    <3>3. evs'[y].in /\ evs'[y].pipe = c BY <1>17, <1>6, <2>4, <2>5, <2>2
    <3> QED BY <3>2, <3>3
  <2>10. d \notin Elements(printed)' BY <2>1, <1>15 DEF Behind
  <2>11. Behind(c, d)' BY <2>8, <2>9, <2>10, <1>1 DEF Behind, c, d
  <2> QED BY <2>11, <1>1 DEF c, d
<1>22. Order' BY <1>1, <1>15, <1>21 DEF Order
<1> QED BY <1>9, <1>14, <1>16, <1>18, <1>19, <1>20, <1>22
\* The loop is done with the first event: nothing was in it, or its message is printed.
LEMMA NextEventMoves ==
  ASSUME MInv, SkipEvent \/ ReadEnd
  PROVE  /\ ReadyOK' /\ SentOK' /\ EventsOK' /\ Counted' /\ Order' /\ OrderedOnceWatched'
         /\ MessageTypes'
<1> DEFINE h == Head(evs)
<1>1. /\ ppc = "events" /\ evs # <<>> /\ evs' = Tail(evs)
      /\ UNCHANGED <<ppc, k, cpc, wr, data, registered, ready, printed, sent>>
  BY DEF SkipEvent, ReadEnd, ends, epoll
<1>2. /\ evs \in Seq(Event) /\ evs' \in Seq(Event) /\ h = evs[1] /\ 1 \in DOMAIN evs
      /\ DOMAIN evs = 1 .. Len(evs) /\ DOMAIN evs' = 1 .. (Len(evs) - 1) /\ Len(evs) \in Nat
      /\ \A n \in 1 .. (Len(evs) - 1) : n + 1 \in DOMAIN evs /\ evs'[n] = evs[n + 1]
  BY <1>1, TailFacts DEF MInv, MessageTypes
<1>3. /\ h.in => h.pipe \in Elements(printed)
      /\ handle' = IF h.in THEN handle + 1 ELSE handle
  <2>1. CASE SkipEvent BY <2>1 DEF SkipEvent, IsIn
  <2>2. CASE ReadEnd
    BY <2>2, <1>2 DEF ReadEnd, IsIn, AtEnd, MInv, EventsOK
  <2> QED BY <2>1, <2>2
<1> HIDE DEF h
<1>4. /\ Elements(ready)' = Elements(ready) /\ Elements(printed)' = Elements(printed)
      /\ Senders' = Senders
  BY <1>1 DEF Elements, Senders
<1>5. ReadyOK' BY <1>1, <1>4 DEF MInv, ReadyOK, Once, Spoken
<1>6. SentOK' BY <1>1, <1>4 DEF MInv, SentOK, Once, Spoken
<1>7. EventsOK'
  <2>1. \A a, b \in DOMAIN evs' : evs'[a].pipe = evs'[b].pipe => a = b
    <3> SUFFICES ASSUME NEW a \in DOMAIN evs', NEW b \in DOMAIN evs',
                        evs'[a].pipe = evs'[b].pipe
                 PROVE  a = b
      OBVIOUS
    <3>1. a + 1 = b + 1 BY <1>2 DEF MInv, EventsOK
    <3> QED BY <3>1, <1>2
  <2>2. \A a \in DOMAIN evs' : evs'[a].in => evs'[a].pipe \in data
    <3> SUFFICES ASSUME NEW a \in DOMAIN evs', evs'[a].in PROVE evs'[a].pipe \in data
      OBVIOUS
    <3>1. a + 1 \in DOMAIN evs /\ evs[a + 1].in /\ evs[a + 1].pipe = evs'[a].pipe /\ a + 1 # 1
      BY <1>2
    <3> QED BY <3>1 DEF MInv, EventsOK
  <2> QED BY <2>1, <2>2, <1>1 DEF EventsOK
<1>8. ~Waiting'
  <2> SUFFICES ASSUME Waiting' PROVE FALSE OBVIOUS
  <2>1. Head(evs)' = evs'[1] /\ 1 \in DOMAIN evs' BY <1>2, TailFacts DEF Waiting
  <2>2. 1 \in 1 .. (Len(evs) - 1) BY <2>1, <1>2
  <2>3. 2 \in DOMAIN evs /\ evs'[1] = evs[2] BY <2>2, <1>2
  <2>4. evs[2].in /\ evs[2].pipe \in Elements(printed) BY <2>1, <2>3, <1>4 DEF Waiting
  <2>5. evs[2].pipe \in data BY <2>3, <2>4 DEF MInv, EventsOK
  <2> QED BY <2>4, <2>5 DEF MInv, SentOK
<1>9. Waiting <=> h.in BY <1>1, <1>3 DEF Waiting, h
<1>10. handle \in Int /\ Len(printed) \in Nat BY SeqRange DEF MInv, MessageTypes
<1>11. Counted'
  <2>1. CASE h.in
    <3>1. handle = Len(printed) - 1 BY <2>1, <1>9 DEF MInv, Counted
    <3> QED BY <3>1, <2>1, <1>1, <1>3, <1>8, <1>10 DEF Counted
  <2>2. CASE ~h.in
    <3>1. handle = Len(printed) BY <2>2, <1>9, <1>10 DEF MInv, Counted
    <3> QED BY <3>1, <2>2, <1>1, <1>3, <1>8, <1>10 DEF Counted
  <2> QED BY <2>1, <2>2
<1>12. OrderedOnceWatched' BY <1>1 DEF MInv, OrderedOnceWatched
<1>13. ASSUME NEW c, c \notin Elements(printed), NEW d, Behind(c, d) PROVE Behind(c, d)'
  <2> SUFFICES ASSUME NEW b \in DOMAIN evs', evs'[b].in, evs'[b].pipe = d
               PROVE  \E a \in 1 .. b - 1 : evs'[a].in /\ evs'[a].pipe = c
    BY <1>1, <1>4, <1>13 DEF Behind
  <2>1. b \in 1 .. (Len(evs) - 1) /\ b + 1 \in DOMAIN evs /\ evs[b + 1].in /\ evs[b + 1].pipe = d
    BY <1>2
  <2>2. PICK a \in 1 .. (b + 1) - 1 : evs[a].in /\ evs[a].pipe = c
    BY <2>1, <1>13 DEF Behind
  <2>3. a # 1 BY <2>2, <1>2, <1>3, <1>13
  <2>4. a - 1 \in 1 .. b - 1 /\ a - 1 \in 1 .. (Len(evs) - 1) /\ (a - 1) + 1 = a
    BY <2>1, <2>2, <2>3, <1>2
  <2>5. evs'[a - 1] = evs[a] BY <2>4, <1>2
  <2> QED BY <2>2, <2>4, <2>5
<1>14. Order' BY <1>1, <1>4, <1>13 DEF MInv, Order
<1>15. MessageTypes'
  <2>1. handle' \in Int BY <1>3, <1>10
  <2> QED BY <2>1, <1>1, <1>2 DEF MInv, MessageTypes
<1> QED BY <1>5, <1>6, <1>7, <1>11, <1>12, <1>14, <1>15

\* A message is printed: it was the first event's, and no earlier one is unprinted.
LEMMA ReadMessageMoves ==
  ASSUME MInv, ReadMessage
  PROVE  /\ ReadyOK' /\ SentOK' /\ EventsOK' /\ Counted' /\ Order' /\ OrderedOnceWatched'
         /\ MessageTypes'
<1> DEFINE j == Head(evs).pipe
<1>1. /\ ppc = "events" /\ evs # <<>> /\ Head(evs).in /\ j \in data
      /\ data' = data \ {j} /\ printed' = Append(printed, j)
      /\ UNCHANGED <<ppc, k, cpc, wr, registered, ready, evs, handle, sent>>
  BY DEF ReadMessage, IsIn, ends, epoll
<1>2. /\ Head(evs) = evs[1] /\ 1 \in DOMAIN evs /\ DOMAIN evs = 1 .. Len(evs) /\ Len(evs) \in Nat
  BY <1>1, TailFacts DEF MInv, MessageTypes
<1>3. j = evs[1].pipe /\ evs[1].in BY <1>1, <1>2
<1> HIDE DEF j
<1>4. j \in Children BY <1>1 DEF MInv, MessageTypes
<1>5. /\ printed' \in Seq(Children) /\ Len(printed) \in Nat /\ Len(printed') = Len(printed) + 1
      /\ DOMAIN printed = 1 .. Len(printed) /\ DOMAIN printed' = 1 .. (Len(printed) + 1)
      /\ printed'[Len(printed) + 1] = j
      /\ \A n \in 1 .. Len(printed) : printed'[n] = printed[n]
      /\ Elements(printed)' = Elements(printed) \cup {j}
  BY <1>1, <1>4, SeqFacts DEF MInv, MessageTypes
<1>6. j \notin Elements(printed) /\ j \in Senders BY <1>1 DEF MInv, SentOK
<1>7. Elements(ready)' = Elements(ready) /\ Senders' = Senders BY <1>1 DEF Elements, Senders
<1>8. ReadyOK' BY <1>1, <1>7 DEF MInv, ReadyOK, Once, Spoken
<1>9. Once(printed)'
  BY <1>1, <1>4, <1>6, OnceAppend DEF MInv, MessageTypes, SentOK
<1>10. SentOK' BY <1>1, <1>5, <1>6, <1>7, <1>9 DEF MInv, SentOK, Spoken
<1>11. \A a \in DOMAIN evs : evs[a].pipe = j => a = 1
  BY <1>2, <1>3 DEF MInv, EventsOK
<1>12. EventsOK' BY <1>1, <1>5, <1>11 DEF MInv, EventsOK
<1>13. ~Waiting /\ Waiting' BY <1>1, <1>5, <1>6 DEF Waiting, j
<1>14. Counted' BY <1>1, <1>5, <1>13 DEF MInv, Counted
<1>15. ASSUME NEW m \in DOMAIN sent, NEW n \in DOMAIN sent, m < n, sent[m].watched,
              sent[n].child = j
       PROVE  sent[m].child \in Elements(printed)
  <2> SUFFICES ASSUME sent[m].child \notin Elements(printed) PROVE FALSE OBVIOUS
  <2>1. Behind(sent[m].child, j) BY <1>15 DEF MInv, Order
  <2>2. \E a \in 1 .. 1 - 1 : evs[a].in /\ evs[a].pipe = sent[m].child
    BY <2>1, <1>2, <1>3 DEF Behind
  <2> QED BY <2>2
<1>16. OrderedOnceWatched'
  <2> SUFFICES ASSUME NEW m \in DOMAIN sent, NEW n \in DOMAIN sent, m < n, sent[m].watched,
                      NEW b \in DOMAIN printed', printed'[b] = sent[n].child
               PROVE  \E a \in 1 .. b : printed'[a] = sent[m].child
    BY <1>1 DEF OrderedOnceWatched
  <2>1. CASE b \in 1 .. Len(printed)
    <3>1. printed[b] = sent[n].child /\ b \in DOMAIN printed BY <2>1, <1>5
    <3>2. PICK a \in 1 .. b : printed[a] = sent[m].child BY <3>1 DEF MInv, OrderedOnceWatched
    <3>3. a \in 1 .. Len(printed) BY <3>2, <2>1, <1>5
    <3> QED BY <3>2, <3>3, <1>5
  <2>2. CASE b = Len(printed) + 1
    <3>1. sent[n].child = j BY <2>2, <1>5
    <3>2. PICK a \in DOMAIN printed : printed[a] = sent[m].child
      BY <3>1, <1>15 DEF Elements
    <3>3. a \in 1 .. b /\ printed'[a] = sent[m].child BY <3>2, <2>2, <1>5
    <3> QED BY <3>3
  <2> QED BY <2>1, <2>2, <1>5
<1>17. ASSUME NEW m \in DOMAIN sent, NEW n \in DOMAIN sent, m < n, sent[m].watched,
              sent[m].child \notin Elements(printed)'
       PROVE  Behind(sent[m].child, sent[n].child)'
  <2>1. sent[m].child \notin Elements(printed) BY <1>17, <1>5
  <2>2. Behind(sent[m].child, sent[n].child) BY <2>1, <1>17 DEF MInv, Order
  <2>3. sent[n].child # j BY <2>1, <1>15, <1>17
  <2> QED BY <2>2, <2>3, <1>1, <1>5 DEF Behind
<1>18. Order' BY <1>1, <1>17 DEF Order
<1>19. MessageTypes' BY <1>1, <1>5 DEF MInv, MessageTypes
<1> QED BY <1>8, <1>10, <1>12, <1>14, <1>16, <1>18, <1>19
-------------------------------------------------------------------------------
\* The children

LEMMA ChildCloseMoves ==
  ASSUME MInv, NEW c \in Children, ChildClose(c)
  PROVE  Quiet /\ Phase' /\ MessageTypes'
<1>1. /\ cpc[c] = "closing" /\ cpc' = [cpc EXCEPT ![c] = "write"] /\ cpc \in [Children -> Steps]
      /\ UNCHANGED <<ppc, k, wr, data, registered, ready, evs, handle, printed, sent>>
  BY DEF ChildClose, ChildGoto, MInv, IInv, Types, epoll, loop
<1> QED BY <1>1 DEF MInv, MessageTypes, Phase, Quiet, Spoken

\* A pipe that joins the ready list comes last, and does so before no unprinted
\* message that was sent under watch: such a pipe is on the list already.
LEMMA WakeMoves ==
  ASSUME MInv, NEW c \in Children, Wake(c), UNCHANGED registered, Spoken(c)',
         \A x \in Children : Spoken(x) => Spoken(x)',
         data \subseteq data', data' \subseteq data \cup {c}
  PROVE  /\ ReadyOK' /\ ready' \in Seq(Children)
         /\ \A a \in DOMAIN ready : a \in DOMAIN ready' /\ ready'[a] = ready[a]
         /\ \A b \in DOMAIN ready' : b \notin DOMAIN ready =>
              ready'[b] = c /\ c \notin Elements(ready) /\ \A a \in DOMAIN ready : a < b
<1>1. ready \in Seq(Children) /\ registered \subseteq Children BY DEF MInv, MessageTypes
<1>2. Elements(ready) \subseteq Children BY <1>1, SeqRange
<1>3. CASE c \in registered /\ c \notin Elements(ready)
  <2>1. ready' = Append(ready, c) BY <1>3 DEF Wake
  <2>2. /\ ready' \in Seq(Children) /\ Len(ready) \in Nat
        /\ DOMAIN ready = 1 .. Len(ready) /\ DOMAIN ready' = 1 .. (Len(ready) + 1)
        /\ \A n \in 1 .. Len(ready) : ready'[n] = ready[n]
        /\ ready'[Len(ready) + 1] = c
        /\ Elements(ready') = Elements(ready) \cup {c}
    BY <2>1, <1>1, SeqFacts
  <2>3. Once(ready') BY <2>1, <1>1, <1>3, OnceAppend DEF MInv, ReadyOK
  <2>4. ReadyOK' BY <2>2, <2>3, <1>2, <1>3 DEF MInv, ReadyOK
  <2>5. \A b \in DOMAIN ready' : b \notin DOMAIN ready => b = Len(ready) + 1 BY <2>2
  <2> QED BY <2>2, <2>4, <2>5, <1>3
<1>4. CASE ~(c \in registered /\ c \notin Elements(ready))
  <2>1. ready' = ready BY <1>4 DEF Wake
  <2>2. ReadyOK' BY <2>1, <1>2, <1>4 DEF MInv, ReadyOK, Elements, Once
  <2> QED BY <2>1, <2>2, <1>1
<1> QED BY <1>3, <1>4

LEMMA WatchedIsReady ==
  ASSUME MInv, NEW m \in DOMAIN sent, sent[m].watched, sent[m].child \notin Elements(printed)
  PROVE  sent[m].child \in Elements(ready)
<1>1. sent[m].child \in Senders BY DEF Senders
<1>2. sent[m].child \in data /\ registered = Children BY <1>1 DEF MInv, SentOK
<1> QED BY <1>2 DEF MInv, ReadyOK, MessageTypes

LEMMA WakeBehind ==
  ASSUME MInv, NEW c \in Children, Wake(c), UNCHANGED <<registered, evs, printed>>, Spoken(c)',
         \A x \in Children : Spoken(x) => Spoken(x)',
         data \subseteq data', data' \subseteq data \cup {c},
         NEW p, NEW q, p \in Elements(ready), Behind(p, q)
  PROVE  Behind(p, q)'
<1>1. \A a, b \in DOMAIN ready' : ready'[a] = p /\ ready'[b] = q => a < b
  <2> SUFFICES ASSUME NEW a \in DOMAIN ready', NEW b \in DOMAIN ready',
                      ready'[a] = p, ready'[b] = q
               PROVE  a < b
    OBVIOUS
  <2>1. a \in DOMAIN ready /\ ready[a] = p
    <3>1. a \in DOMAIN ready BY WakeMoves
    <3> QED BY <3>1, WakeMoves
  <2>2. CASE b \in DOMAIN ready BY <2>1, <2>2, WakeMoves DEF Behind
  <2>3. CASE b \notin DOMAIN ready BY <2>1, <2>3, WakeMoves
  <2> QED BY <2>2, <2>3
<1>2. Elements(printed)' = Elements(printed) BY DEF Elements
<1> QED BY <1>1, <1>2 DEF Behind

\* The end of a child.
LEMMA EndsMoves ==
  ASSUME MInv, NEW c \in Children, NEW from \in {"closing", "write", "exit"}, Ends(c, from)
  PROVE  /\ ReadyOK' /\ SentOK' /\ EventsOK' /\ Counted' /\ Order' /\ OrderedOnceWatched'
         /\ MessageTypes' /\ Phase'
<1>1. /\ cpc[c] = from /\ cpc' = [cpc EXCEPT ![c] = "dead"] /\ cpc \in [Children -> Steps]
      /\ wr' = Without(wr, c)
      /\ UNCHANGED <<ppc, k, data, registered, evs, handle, printed, sent>>
      /\ Wake(c) \/ ready' = ready
  BY DEF Ends, ChildGoto, MInv, IInv, Types, loop
<1>2. Spoken(c)' /\ \A x \in Children : Spoken(x) => Spoken(x)'
  BY <1>1 DEF Spoken
<1>3. Phase'
  <2>1. \A x \in Children : (cpc'[x] = "unborn" <=> cpc[x] = "unborn")
                            /\ (cpc'[x] \in {"closing", "write"} =>
                                 x # c /\ cpc[x] \in {"closing", "write"})
    BY <1>1
  <2>2. \A x, y \in Children : x # c /\ x \in wr[y] => x \in wr'[y] BY <1>1 DEF Without
  <2>3. ppc = "fork" => k \in Children /\ 0 \in wr'[k]
    BY <1>1, NotAChild DEF MInv, IInv, Types, Phase, Without
  <2> QED BY <2>1, <2>2, <2>3, <1>1 DEF MInv, Phase
<1>4. /\ Elements(printed)' = Elements(printed) /\ Senders' = Senders /\ Senders \subseteq Children
  BY <1>1, SendersAreChildren DEF Elements, Senders, MInv
<1>5. SentOK' BY <1>1, <1>2, <1>4 DEF MInv, SentOK, Once
<1>6. EventsOK' /\ Counted' BY <1>1, <1>4 DEF MInv, EventsOK, Counted, Waiting
<1>7. OrderedOnceWatched' BY <1>1 DEF MInv, OrderedOnceWatched
<1>8. CASE Wake(c)
  <2>1. ReadyOK' /\ ready' \in Seq(Children) BY <1>1, <1>2, <1>8, WakeMoves
  <2>2. ASSUME NEW m \in DOMAIN sent, NEW n \in DOMAIN sent, m < n, sent[m].watched,
               sent[m].child \notin Elements(printed), NEW p, NEW q,
               p = sent[m].child, q = sent[n].child
        PROVE  Behind(p, q)'
    <3>1. p \in Elements(ready) /\ Behind(p, q)
      BY <2>2, WatchedIsReady DEF MInv, Order
    <3> QED BY <3>1, <1>1, <1>2, <1>8, WakeBehind
  <2>3. Order' BY <2>2, <1>1, <1>4 DEF Order
  <2>4. MessageTypes' BY <2>1, <1>1 DEF MInv, MessageTypes
  <2> QED BY <2>1, <2>3, <2>4, <1>3, <1>5, <1>6, <1>7
<1>9. CASE ready' = ready
  <2>1. Quiet BY <1>1, <1>2, <1>9 DEF Quiet
  <2>2. MessageTypes' BY <1>1, <1>9 DEF MInv, MessageTypes
  <2> QED BY <2>1, <2>2, <1>3, QuietStep
<1> QED BY <1>1, <1>8, <1>9

\* A message is sent: it is new to everything, so it comes last everywhere.
LEMMA ChildWriteMoves ==
  ASSUME MInv, NEW c \in Children, ChildWrite(c)
  PROVE  /\ ReadyOK' /\ SentOK' /\ EventsOK' /\ Counted' /\ Order' /\ OrderedOnceWatched'
         /\ MessageTypes' /\ Phase'
<1> DEFINE e == [child |-> c, watched |-> registered = Children]
<1>1. /\ cpc[c] = "write" /\ cpc' = [cpc EXCEPT ![c] = "exit"] /\ cpc \in [Children -> Steps]
      /\ UNCHANGED <<ppc, k, wr, registered, evs, handle, printed>>
      /\ \/ data' = data \cup {c} /\ sent' = Append(sent, e) /\ Wake(c)
         \/ UNCHANGED <<data, sent, ready>>
  BY DEF ChildWrite, ChildGoto, MInv, IInv, Types, loop, ends
<1>2. Spoken(c)' /\ ~Spoken(c) /\ \A x \in Children : Spoken(x) => Spoken(x)'
  BY <1>1 DEF Spoken
<1>3. Phase'
  <2>1. \A x \in Children : (cpc'[x] = "unborn" <=> cpc[x] = "unborn")
                            /\ (cpc'[x] \in {"closing", "write"} => cpc[x] \in {"closing", "write"})
    BY <1>1
  <2> QED BY <2>1, <1>1 DEF MInv, Phase
<1>4. CASE UNCHANGED <<data, sent, ready>>
  <2>1. Quiet BY <1>1, <1>2, <1>4 DEF Quiet
  <2>2. MessageTypes' BY <1>1, <1>4 DEF MInv, MessageTypes
  <2> QED BY <2>1, <2>2, <1>3, QuietStep
<1>5. CASE data' = data \cup {c} /\ sent' = Append(sent, e) /\ Wake(c)
  <2>1. e \in Sending /\ e.child = c /\ (e.watched <=> registered = Children)
    <3>1. e \in Sending /\ e.child = c BY DEF Sending
    <3>2. e.watched = (registered = Children) BY SendingFields
    <3>3. e.watched <=> registered = Children BY <3>2, Zenon
    <3> QED BY <3>1, <3>3
  <2> HIDE DEF e
  <2>2. /\ sent' \in Seq(Sending) /\ Len(sent) \in Nat
        /\ DOMAIN sent = 1 .. Len(sent) /\ DOMAIN sent' = 1 .. (Len(sent) + 1)
        /\ sent'[Len(sent) + 1] = e
        /\ \A n \in 1 .. Len(sent) : sent'[n] = sent[n]
    BY <1>5, <2>1, SeqFacts DEF MInv, MessageTypes
  <2>3. /\ Elements(printed)' = Elements(printed) /\ Senders \subseteq Children
        /\ Elements(printed) \subseteq Senders /\ data \subseteq Senders /\ c \notin Senders
    BY <1>1, <1>2, SendersAreChildren DEF Elements, MInv, SentOK
  <2>4. Senders' = Senders \cup {c}
    <3>1. \A n \in DOMAIN sent' : sent'[n].child \in Senders \cup {c}
      <4> SUFFICES ASSUME NEW n \in DOMAIN sent' PROVE sent'[n].child \in Senders \cup {c}
        OBVIOUS
      <4>1. n \in 1 .. Len(sent) \/ n = Len(sent) + 1 BY <2>2
      <4> QED BY <4>1, <2>1, <2>2 DEF Senders
    <3>2. Senders \subseteq Senders' BY <2>2 DEF Senders
    <3>3. c \in Senders'
      <4>1. Len(sent) + 1 \in DOMAIN sent' BY <2>2
      <4> QED BY <4>1, <2>1, <2>2 DEF Senders
    <3> QED BY <3>1, <3>2, <3>3 DEF Senders
  <2>5. \A n \in DOMAIN sent : sent[n].child # c BY <2>3 DEF Senders
  <2>6. ReadyOK' /\ ready' \in Seq(Children) BY <1>1, <1>2, <1>5, WakeMoves
  <2>7. SentOK'
    <3>1. ASSUME NEW m \in DOMAIN sent', NEW n \in DOMAIN sent', sent'[m].child = sent'[n].child
          PROVE  m = n
      <4>1. /\ m \in DOMAIN sent \/ m = Len(sent) + 1
            /\ n \in DOMAIN sent \/ n = Len(sent) + 1
        BY <2>2
      <4> QED BY <4>1, <3>1, <2>1, <2>2, <2>5 DEF MInv, SentOK
    <3>2. ASSUME NEW n \in DOMAIN sent', sent'[n].watched PROVE registered' = Children
      <4>1. n \in DOMAIN sent \/ n = Len(sent) + 1 BY <2>2
      <4> QED BY <4>1, <3>2, <2>1, <2>2, <1>1 DEF MInv, SentOK
    <3>3. \A x \in Senders' : Spoken(x)' BY <1>2, <2>3, <2>4 DEF MInv, SentOK
    <3>4. /\ data' \cup Elements(printed)' = Senders' /\ data' \cap Elements(printed)' = {}
          /\ Once(printed)'
      BY <1>1, <1>5, <2>3, <2>4 DEF MInv, SentOK, Once
    <3> QED BY <3>1, <3>2, <3>3, <3>4 DEF SentOK
  <2>8. EventsOK' /\ Counted'
    BY <1>1, <1>5, <2>3 DEF MInv, EventsOK, Counted, Waiting
  <2>9. OrderedOnceWatched'
    <3> SUFFICES ASSUME NEW m \in DOMAIN sent', NEW n \in DOMAIN sent', m < n, sent'[m].watched,
                        NEW b \in DOMAIN printed, printed[b] = sent'[n].child
                 PROVE  \E a \in 1 .. b : printed[a] = sent'[m].child
      BY <1>1 DEF OrderedOnceWatched
    <3>1. n # Len(sent) + 1 BY <2>1, <2>2, <2>3 DEF Elements
    <3>2. m \in DOMAIN sent /\ n \in DOMAIN sent BY <3>1, <2>2
    <3>3. sent'[m] = sent[m] /\ sent'[n] = sent[n] BY <3>2, <2>2
    <3> QED BY <3>2, <3>3 DEF MInv, OrderedOnceWatched
  <2>10. ASSUME NEW m \in DOMAIN sent', NEW n \in DOMAIN sent', m < n, sent'[m].watched,
                sent'[m].child \notin Elements(printed), NEW p, NEW q,
                p = sent'[m].child, q = sent'[n].child
         PROVE  Behind(p, q)'
    <3>1. m \in DOMAIN sent /\ sent'[m] = sent[m] BY <2>2, <2>10
    <3>2. p \in Elements(ready) BY <3>1, <2>10, WatchedIsReady
    <3>3. CASE n \in DOMAIN sent
      <4>1. sent'[n] = sent[n] BY <3>3, <2>2
      <4>2. Behind(p, q) BY <3>1, <3>3, <4>1, <2>10 DEF MInv, Order
      <4> QED BY <3>2, <4>2, <1>1, <1>2, <1>5, WakeBehind
    <3>4. CASE n = Len(sent) + 1
      <4>1. q = c BY <3>4, <2>1, <2>2, <2>10
      <4>2. c \notin Elements(printed) BY <2>3
      <4>3. c \notin Elements(ready) BY <1>2 DEF MInv, ReadyOK
      <4>4. \A b \in DOMAIN evs : evs[b].in => evs[b].pipe # c
        BY <2>3 DEF MInv, EventsOK
      <4>5. Behind(p, c) BY <4>2, <4>3, <4>4 DEF Behind, Elements
      <4> QED BY <3>2, <4>1, <4>5, <1>1, <1>2, <1>5, WakeBehind
    <3> QED BY <3>3, <3>4, <2>2
  <2>11. Order' BY <2>10, <2>3 DEF Order
  <2>12. MessageTypes' BY <1>1, <1>5, <2>2, <2>6 DEF MInv, MessageTypes
  <2> QED BY <1>3, <2>6, <2>7, <2>8, <2>9, <2>11, <2>12
<1> QED BY <1>1, <1>4, <1>5
-------------------------------------------------------------------------------
LEMMA NextMInv == MInv /\ [Next]_vars => MInv'
<1> SUFFICES ASSUME MInv, [Next]_vars PROVE MInv'
  OBVIOUS
<1> DEFINE Rest == /\ ReadyOK' /\ SentOK' /\ EventsOK' /\ Counted' /\ Order'
                   /\ OrderedOnceWatched' /\ MessageTypes' /\ Phase'
<1>1. IInv' BY NextIInv DEF MInv
<1>2. Quiet /\ MessageTypes' /\ Phase' => Rest BY QuietStep
<1>3. CASE Parent \/ UNCHANGED vars
  <2>1. CASE Pipe \/ Fork \/ ParentSide
    <3>1. Phase' BY <2>1, PipePhase, ForkPhase, ParentSidePhase
    <3>2. Quiet /\ MessageTypes' BY <2>1, ParentQuiet
    <3> QED BY <1>1, <1>2, <3>1, <3>2 DEF MInv
  <2>2. CASE EpollCreate \/ NextWait \/ LeaveLoop \/ CloseAll \/ WaitPid \/ Done \/ UNCHANGED vars
    <3>1. Phase' BY <2>2, OtherPhase
    <3>2. Quiet /\ MessageTypes' BY <2>2, ParentQuiet
    <3> QED BY <1>1, <1>2, <3>1, <3>2 DEF MInv
  <2>3. CASE EpollWait \/ SkipEvent \/ ReadMessage \/ ReadEnd
    <3>1. Phase' BY <2>3, OtherPhase
    <3> QED BY <1>1, <2>3, <3>1, EpollWaitMoves, NextEventMoves, ReadMessageMoves DEF MInv
  <2>4. CASE Add
    BY <1>1, <2>4, AddPhase, AddMoves DEF MInv
  <2> QED BY <1>3, <2>1, <2>2, <2>3, <2>4 DEF Parent
<1>4. ASSUME NEW c \in Children, Child(c) \/ ChildKilled(c) PROVE MInv'
  <2>1. \/ \E from \in {"closing", "write", "exit"} : Ends(c, from)
        \/ ChildClose(c) \/ ChildWrite(c)
    BY <1>4 DEF Child, ChildExit, ChildSigpipe, ChildKilled
  <2>2. Rest BY <2>1, <1>2, EndsMoves, ChildCloseMoves, ChildWriteMoves
  <2> QED BY <1>1, <2>2 DEF MInv
<1> QED BY <1>3, <1>4 DEF Next

\* A sequence of children without repetition is no longer than there are children.
LEMMA AtMostN ==
  ASSUME NEW s \in Seq(Children), Once(s)
  PROVE  Len(s) <= N
<1>1. /\ DOMAIN s = 1 .. Len(s) /\ Len(s) \in Nat /\ \A n \in DOMAIN s : s[n] \in Children
      /\ s = [n \in 1 .. Len(s) |-> s[n]]
  OBVIOUS
<1>2. IsFiniteSet(Children) /\ Cardinality(Children) = N
  BY CollectorAssumption, FS_Interval DEF Children
<1>3. IsFiniteSet(1 .. Len(s)) /\ Cardinality(1 .. Len(s)) = Len(s)
  BY <1>1, FS_Interval
<1> SUFFICES ASSUME ~(Len(s) <= N) PROVE FALSE OBVIOUS
<1>4. Cardinality(Children) < Cardinality(1 .. Len(s))
  BY <1>1, <1>2, <1>3, CollectorAssumption
<1>5. s \in [1 .. Len(s) -> Children] BY <1>1
<1>6. \E a, b \in 1 .. Len(s) : a # b /\ s[a] = s[b]
  BY <1>2, <1>3, <1>4, <1>5, FS_PigeonHole
<1> QED BY <1>1, <1>6 DEF Once

BrokenType == broken \in BOOLEAN

LEMMA BrokenTyped == Spec => []BrokenType
<1>1. Init => BrokenType BY DEF Init, BrokenType
<1>2. BrokenType /\ [Next]_vars => BrokenType'
  <2> SUFFICES ASSUME broken \in BOOLEAN, [Next]_vars PROVE broken' \in BOOLEAN
    BY DEF BrokenType
  <2>1. broken' = broken \/ broken' = TRUE
    BY DEF Next, vars, Parent, Pipe, Fork, ParentSide, EpollCreate, Add, EpollWait, SkipEvent,
       ReadMessage, ReadEnd, NextWait, LeaveLoop, CloseAll, WaitPid, Done, Child, ChildClose,
       ChildWrite, ChildExit, ChildSigpipe, ChildKilled
  <2>2. CASE broken' = broken BY <2>2, Zenon
  <2>3. CASE broken' = TRUE BY <2>3, Zenon
  <2> QED BY <2>1, <2>2, <2>3, Zenon
<1> QED BY <1>1, <1>2, PTL DEF Spec

LEMMA MInvCounts == MInv /\ BrokenType => CountsMessages
<1> SUFFICES ASSUME MInv, broken \in BOOLEAN PROVE CountsMessages
  BY DEF BrokenType
<1>1. Len(ready) <= N /\ Len(printed) <= N
  BY AtMostN DEF MInv, MessageTypes, ReadyOK, SentOK
<1>2. Len(printed) \in Nat /\ (Waiting => Len(printed) # 0)
  <2>1. DOMAIN printed = 1 .. Len(printed) /\ Len(printed) \in Nat
    BY SeqRange DEF MInv, MessageTypes
  <2> QED BY <2>1 DEF Waiting, Elements
<1>3. handle \in 0 .. N
  BY <1>1, <1>2, CollectorAssumption DEF MInv, Counted
<1>4. TypeOK
  <2>1. MessageTypes /\ Types BY DEF MInv, IInv
  <2>2. broken \in BOOLEAN OBVIOUS
  <2>3. /\ ppc \in {"pipe", "fork", "parent_side", "epoll", "add", "spin", "wait",
                     "events", "cleanup", "reap", "done"}
        /\ ready \in Seq(Children) /\ data \subseteq Children /\ registered \subseteq Children
    BY <2>1 DEF MessageTypes
  <2>4. /\ k \in Children /\ pids \in Seq(Children)
        /\ cpc \in [Children -> {"unborn", "closing", "write", "exit", "dead", "reaped"}]
        /\ rd \in [Children -> SUBSET (0 .. N)] /\ wr \in [Children -> SUBSET (0 .. N)]
    BY <2>1 DEF Types, Steps
  <2> QED BY <1>1, <1>3, <2>2, <2>3, <2>4, Zenon DEF TypeOK
<1> QED BY <1>4 DEF MInv, SentOK, Once, Counted, Waiting, CountsMessages

LEMMA MInvHolds == Spec => []MInv
  BY InitMInv, NextMInv, PTL DEF Spec

\* handle counts the messages read to their end, each once, for any number of children
\* and failures: an event is handled only with its message in the pipe or printed just
\* now, so no event is counted twice and none for a pipe that only hung up.
THEOREM CountsMessagesHolds == Spec => []CountsMessages
  BY MInvHolds, BrokenTyped, MInvCounts, PTL

\* Once epoll watches all pipes, messages are printed in the order they were sent, for
\* any number of children: a pipe joins the ready list when its message arrives, stays
\* on it until it is read, and epoll_wait keeps the list's order.
THEOREM OrderedHolds == Spec => []OrderedOnceWatched
<1>1. MInv => OrderedOnceWatched BY DEF MInv
<1> QED BY <1>1, MInvHolds, PTL
===============================================================================
