-------------------------- MODULE ExercisesInvariants --------------------------
(***************************************************************************)
(* What the three proofs of ExercisesProofs say of a company of exercises: *)
(* IInv of the sockets, KidsInv of the children that are waited for, and   *)
(* QInv of the queues, with the scripts that are left to a process at each *)
(* of its places and what a step of it may change.                         *)
(***************************************************************************)
EXTENDS Exercises

-------------------------------------------------------------------------------
\* The main processes that run a server or a client
MainProcs == {p \in Procs : p = Main(p)}
Serving == {p \in MainProcs : Runs(p, "Server")}
Asking == {p \in MainProcs : Runs(p, "Client")}
SocketPrograms == {"Server", "Client"}
Socketed(p) == \E name \in SocketPrograms : Runs(p, name)

-------------------------------------------------------------------------------
\* What a server has still to do, and a client.
ToBind == << bind(SOCKET_PATH, <<closeAll, exit(1)>>), listen, accept, closeAll,
             unlink(SOCKET_PATH), exit(0) >>
ToListen == <<listen, accept, closeAll, unlink(SOCKET_PATH), exit(0)>>
ToAccept == <<accept, closeAll, unlink(SOCKET_PATH), exit(0)>>
ToHear(c, q) ==
  << read(Up(c), <<>>), write(Down(c), q[1]), close({R(Up(c)), W(Down(c))}),
     closeAll, unlink(SOCKET_PATH), exit(0) >>
ToAnswer(c, q) ==
  << write(Down(c), q[1]), close({R(Up(c)), W(Down(c))}),
     closeAll, unlink(SOCKET_PATH), exit(0) >>
ToHangUp(c) ==
  << close({R(Up(c)), W(Down(c))}), closeAll, unlink(SOCKET_PATH), exit(0) >>
ToCloseAll == <<closeAll, unlink(SOCKET_PATH), exit(0)>>
ToUnlink == <<unlink(SOCKET_PATH), exit(0)>>
ToExit == <<exit(0)>>
ToGiveUp == <<closeAll, exit(1)>>
ToFail == <<exit(1)>>

ToAsk(c) == <<write(Up(c), c[1]), read(Down(c), <<>>), closeAll, exit(0)>>
ToRead(c) == <<read(Down(c), <<>>), closeAll, exit(0)>>
ToClose == <<closeAll, exit(0)>>

-------------------------------------------------------------------------------
\* What a sequence is made of; a script is typed by its own elements.
Elements(s) == {s[n] : n \in DOMAIN s}
IsSeq(s) == s \in Seq(Elements(s))

\* The functions of the state are defined for every process, name and pipe.
Domains ==
  /\ DOMAIN todo = Procs /\ DOMAIN state = Procs /\ DOMAIN status = Procs
  /\ DOMAIN fds = Procs /\ DOMAIN got = Procs /\ DOMAIN backlog = Procs
  /\ DOMAIN linked = Names /\ DOMAIN content = Pipe

\* The part of the type invariant that the proof needs.
Shape ==
  /\ Domains
  /\ failures \in Nat /\ kills \in Nat
  /\ \A n \in Pipe : IsSeq(content[n])
  /\ \A p \in Procs : IsSeq(got[p])

\* Calls that have nothing to do with sockets, and scripts of them
ExercisePipes == {P(k) : k \in 1 .. 3}
Plain(c) ==
  \/ c.call \in {"exit", "exec", "close", "waitpid", "send", "fetch"}
  \/ c.call = "write" /\ c.pipe \in ExercisePipes
  \/ c.call \in {"unlink", "rmid"} /\ c.name # SOCKET_PATH
PlainCalls(s) == IsSeq(s) /\ \A c \in Elements(s) : Plain(c)

\* How a script ends
EndsIn(s, last) == s # <<>> /\ s[Len(s)].call \in last
\* What is left to do when a call has failed
Fallback(s) == PlainCalls(s) /\ (s = <<>> \/ EndsIn(s, {"exit"}))

\* What a child of these exercises may call
ChildCall(c) ==
  \/ Plain(c)
  \/ c.call = "read" /\ c.pipe \in ExercisePipes /\ PlainCalls(c.then)
  \/ c.call = "filter" /\ c.pipe \in ExercisePipes /\ c.out \subseteq ExercisePipes
  \/ c.call = "pipe" /\ Fallback(c.failed) /\ c.pipe \in ExercisePipes
  \/ c.call = "open" /\ c.name # SOCKET_PATH /\ Fallback(c.failed)
ChildScript(s) ==
  IsSeq(s) /\ (\A c \in Elements(s) : ChildCall(c)) /\ EndsIn(s, {"exit"})

\* What any program but the server and the client may call
ForeignCall(c) ==
  \/ ChildCall(c)
  \/ c.call = "fork" /\ ChildScript(c.calls) /\ Fallback(c.failed)
  \/ c.call = "getline"
ForeignScript(s) ==
  /\ IsSeq(s) /\ \A c \in Elements(s) : ForeignCall(c)
  /\ EndsIn(s, {"exit", "getline"})

\* Every other process keeps to such scripts, and neither a server nor a client has a child.
Others ==
  \A p \in Procs \ (Serving \cup Asking) :
    /\ state[p] = "running" => ForeignScript(todo[p])
    /\ Socketed(p) => state[p] = "none" /\ got[p] = <<>>

-------------------------------------------------------------------------------
\* The clients that a server is still to accept; those that count on an answer from it
Backlog(q) == {backlog[q][n] : n \in DOMAIN backlog[q]}
Waits(c, q) == c \in Backlog(q) \/ todo[q] = ToHear(c, q) \/ todo[q] = ToAnswer(c, q)
\* A client that is past its connection, and gone from it
Away(c) == todo[c] # Client(c) /\ fds[c] = {}
\* Where a server has the ends of its clients open
Holding(q) ==
  \/ todo[q] \in {ToAccept, ToCloseAll}
  \/ \E c \in Asking : todo[q] \in {ToHear(c, q), ToAnswer(c, q), ToHangUp(c)}

\* Where a running server is, with what it has read by then
ServerStage(q) ==
  \/ /\ todo[q] \in {Server, ToBind, ToListen, ToGiveUp, ToFail}
     /\ got[q] = <<>> /\ backlog[q] = <<>>
  \/ todo[q] = ToAccept /\ got[q] = <<>>
  \/ \E c \in Asking \ Backlog(q) :
       \/ todo[q] = ToHear(c, q) /\ got[q] = <<>>
       \/ todo[q] = ToAnswer(c, q) /\ (got[q] = <<c[1]>> \/ (got[q] = <<>> /\ Away(c)))
       \/ todo[q] = ToHangUp(c) /\ todo[c] # Client(c)
  \/ todo[q] \in {ToCloseAll, ToUnlink, ToExit}

EndsFor(c) == {R(Up(c)), W(Down(c))}
\* A server serves one client at most, and holds the ends of all that wait for it
\* until it hangs up.
ServerOK(q) ==
  /\ \/ state[q] = "running" /\ ServerStage(q)
     \/ state[q] = "gone" /\ todo[q] = <<>>
  /\ backlog[q] \in Seq(Asking)
  /\ \A m, n \in DOMAIN backlog[q] : backlog[q][m] = backlog[q][n] => m = n
  /\ IF Holding(q) THEN \A c \in Asking : Waits(c, q) => EndsFor(c) \subseteq fds[q]
     ELSE fds[q] = {}
  /\ got[q] = <<>> \/ \E c \in Asking \ Backlog(q) : got[q] = <<c[1]>>

\* Servers that read the request of c, by their instance
AnswersTo(c) == {q[1] : q \in {s \in Serving : got[s] = <<c[1]>>}}

\* A client sends its number once, and what it is sent comes from a server that read it.
ClientOK(c) ==
  /\ \/ /\ state[c] = "running"
        /\ todo[c] \in {Client(c), ToAsk(c), ToRead(c), ToClose, ToExit, ToGiveUp, ToFail}
     \/ state[c] = "gone" /\ todo[c] = <<>>
  /\ fds[c] = IF todo[c] \in {ToAsk(c), ToRead(c), ToClose} THEN {W(Up(c)), R(Down(c))} ELSE {}
  /\ content[Up(c)] \in {<<>>, <<c[1]>>}
  /\ todo[c] \in {Client(c), ToAsk(c)} =>
       content[Up(c)] = <<>> /\ \A q \in Serving : got[q] # <<c[1]>>
  /\ todo[c] = Client(c) => content[Down(c)] = <<>>
  /\ todo[c] \in {Client(c), ToAsk(c), ToRead(c)} => got[c] = <<>>
  /\ got[c] \in Seq(AnswersTo(c))
  /\ ~Away(c) => content[Down(c)] \in Seq(AnswersTo(c))

\* A client is queued at, or served by, one server only, which has not answered it yet.
Connections ==
  \A c \in Asking, q \in Serving : Waits(c, q) =>
    /\ todo[c] # Client(c)
    /\ content[Down(c)] = <<>>
    /\ \A s \in Serving : Waits(c, s) => s = q

\* Some server served another client.
Turned(c) == \E q \in Serving : got[q] # <<>> /\ got[q] # <<c[1]>>

\* While nothing has failed and nobody was killed, a client goes without an answer
\* only if some server turned to another one.
Patience ==
  Undisturbed =>
    /\ \A q \in Serving, c \in Asking :
         /\ Waits(c, q) /\ Holding(q) => todo[c] \in {ToAsk(c), ToRead(c)}
         /\ todo[q] = ToAnswer(c, q) => todo[c] = ToRead(c) /\ got[q] = <<c[1]>>
    /\ \A q \in Serving :
         Holding(q) \/ backlog[q] # <<>> =>
           got[q] # <<>> \/ todo[q] = ToAccept \/ \E c \in Asking : todo[q] = ToHear(c, q)
    /\ \A c \in Asking :
         /\ todo[c] = ToAsk(c) => \E q \in Serving : Waits(c, q)
         /\ todo[c] = ToRead(c) => content[Down(c)] # <<>> \/ \E q \in Serving : Waits(c, q)
         /\ todo[c] \in {ToClose, ToExit} \/ (state[c] = "gone" /\ status[c] = 0) =>
              got[c] # <<>> \/ Turned(c)
         /\ state[c] = "gone" /\ status[c] = SIGPIPE => Turned(c)

\* The name leads to the server that bound it last, if nobody took it away.
Reachable ==
  /\ linked[SOCKET_PATH] \in Serving \cup {Nobody}
  /\ \A q \in Serving : todo[q] \in {ToListen, ToAccept} =>
       \/ linked[SOCKET_PATH] = q
       \/ \E s \in Serving : s # q /\ todo[s] # Server

\* What the proof is by: each part is about every server, every client, or the two together.
IInv ==
  /\ Shape /\ Others /\ Connections /\ Patience /\ Reachable
  /\ \A q \in Serving : ServerOK(q)
  /\ \A c \in Asking : ClientOK(c)

-------------------------------------------------------------------------------
\* A process that neither serves nor asks.
Strangers == Procs \ (Serving \cup Asking)

\* A step leaves a process alone.
SameAt(y) ==
  /\ todo'[y] = todo[y] /\ state'[y] = state[y] /\ status'[y] = status[y]
  /\ fds'[y] = fds[y] /\ got'[y] = got[y]

\* What a step of a stranger leaves of its own program.
Goes(p) ==
  /\ DOMAIN todo' = Procs /\ DOMAIN state' = Procs /\ DOMAIN status' = Procs
  /\ DOMAIN fds' = Procs /\ DOMAIN got' = Procs
  /\ \A y \in Procs : y[1] # p[1] => SameAt(y)
  /\ \A y \in Procs : y[1] = p[1] /\ state'[y] = "running" => ForeignScript(todo'[y])
  /\ \A y \in Procs : IsSeq(got'[y])

\* The rest of the world, as the programs of a socket see it.
Elsewhere ==
  /\ DOMAIN linked' = Names /\ DOMAIN content' = Pipe /\ DOMAIN backlog' = Procs
  /\ failures' \in Nat /\ kills' \in Nat /\ failures' >= failures /\ kills' >= kills
  /\ \A n \in Pipe : IsSeq(content'[n])
  /\ program' = program /\ backlog' = backlog
  /\ linked'[SOCKET_PATH] = linked[SOCKET_PATH]
  /\ \A x \in Procs : content'[Up(x)] = content[Up(x)] /\ content'[Down(x)] = content[Down(x)]

\* A stranger that runs.
Foreign(p) ==
  /\ p \in Procs /\ state[p] = "running" /\ ForeignScript(todo[p]) /\ ~Socketed(p)
  /\ Shape
  /\ \A y \in Procs : y[1] = p[1] /\ state[y] = "running" => ForeignScript(todo[y])

-------------------------------------------------------------------------------
\* Where a server has nobody's ends yet, and where it has closed them
Before == {Server, ToBind, ToListen, ToGiveUp, ToFail}
After == {ToUnlink, ToExit, <<>>}

-------------------------------------------------------------------------------
\* The step is one of p alone, but for descriptors.
Alone(p) ==
  /\ Domains' /\ program' = program
  /\ \A y \in Procs \ {p} :
       todo'[y] = todo[y] /\ state'[y] = state[y] /\ status'[y] = status[y] /\ got'[y] = got[y]

\* The processes that the rest of the proof is about
SocketProcs == Serving \cup Asking

-------------------------------------------------------------------------------
\* Nothing is sent or received, and nobody else's descriptors change.
Silent(p) ==
  /\ Alone(p) /\ UNCHANGED <<got, content, backlog>>
  /\ \A y \in Procs \ {p} : fds'[y] = fds[y]

\* A program that ends.
Gone(p) ==
  /\ Silent(p) /\ state'[p] = "gone" /\ todo'[p] = <<>> /\ fds'[p] = {} /\ UNCHANGED linked

-------------------------------------------------------------------------------
\* The programs whose main process waits for its children whatever fails, and
\* those that do as long as nothing fails
Shells == {"Shell", "EndlessShell"}
Awaiting == {"Ping", "PingPong", "Pipeline", "Ec1", "Ec2", "Ec3", "Ec4", "HelloSysV"} \cup Shells
Hasty == {"Ec5", "ListGrep"}
\* Programs that have one child at a time, and it has the number 1
Single(name) == name \notin {"ListGrep", "Pipeline", "Ec5"}

\* What the main process of these programs calls
MainCall(c) ==
  /\ c.call \in {"pipe", "fork", "close", "write", "read", "waitpid", "open", "fetch", "rmid",
                 "unlink", "exit", "getline"}
  /\ c.call = "read" => c.then = <<>>
MayFail(c) == c.call \in {"pipe", "fork", "open"} /\ c.failed # <<>>

\* A script that ends once, forks its children by other numbers than 0, and
\* each number once where their exit codes are printed; a call that may fail
\* and end the program ends it there.
CarefulScript(name, s) ==
  /\ IsSeq(s)
  /\ \A m \in DOMAIN s :
       /\ MainCall(s[m])
       /\ s[m].call \in {"exit", "getline"} => m = Len(s)
       /\ s[m].call = "getline" => name \in Shells
       /\ s[m].call = "fork" => s[m].child # 0 /\ (Single(name) => s[m].child = 1)
       /\ s[m].call = "waitpid" /\ name \in Reporting => s[m].prints = TRUE
       /\ MayFail(s[m]) => \E code : s[m].failed = <<exit(code)>>
  /\ name \in Reporting =>
       \A m, n \in DOMAIN s : m < n /\ s[m].call = "fork" /\ s[n].call = "fork" =>
         s[m].child # s[n].child

\* A call that waits for this child and no other
Awaits(name, call, k) ==
  call.call = "waitpid" /\ k \in call.set /\ (Single(name) \/ call.set = {k})

\* Whoever is forked is waited for later, and who is left out by a failing call
\* was not forked yet.
WaitsLater(name, s) ==
  /\ \A m \in DOMAIN s : s[m].call = "fork" /\ s[m].child \in 1 .. MaxChildren =>
       \E n \in DOMAIN s : m < n /\ Awaits(name, s[n], s[m].child)
  /\ name \notin Hasty =>
       \A m, n \in DOMAIN s : m < n /\ s[m].call = "fork" => ~MayFail(s[n])

\* The children of A are waited for.
WaitsFor(name, s, A) ==
  /\ Single(name) => A \subseteq {1}
  /\ \A k \in A : \E n \in DOMAIN s : Awaits(name, s[n], k)
  /\ A # {} /\ name \notin Hasty => \A n \in DOMAIN s : ~MayFail(s[n])

\* ec5 waits as often as it has forked.
ToWait == <<wait(TRUE), exit(0)>>
ToWaitTwice == <<wait(TRUE), wait(TRUE), exit(0)>>
ToWaitThrice == <<wait(TRUE), wait(TRUE), wait(TRUE), exit(0)>>
ToForkThird ==
  << fork(3, <<exit(3)>>, <<exit(1)>>), wait(TRUE), wait(TRUE), wait(TRUE), exit(0) >>
ToForkSecond ==
  << fork(2, <<exit(2)>>, <<exit(1)>>), fork(3, <<exit(3)>>, <<exit(1)>>),
     wait(TRUE), wait(TRUE), wait(TRUE), exit(0) >>
Numbers == 0 .. MaxChildren
\* The places of ec5, with how many children may be left to wait for at each
Ec5Waits(s, A) ==
  \/ s = Ec5 /\ A = {}
  \/ s = ToForkSecond /\ \E x \in Numbers : A \subseteq {x}
  \/ s = ToForkThird /\ \E x, y \in Numbers : A \subseteq {x, y}
  \/ s = ToWaitThrice /\ \E x, y, z \in Numbers : A \subseteq {x, y, z}
  \/ s = ToWaitTwice /\ \E x, y \in Numbers : A \subseteq {x, y}
  \/ s = ToWait /\ \E x \in Numbers : A \subseteq {x}
  \/ s = ToExit /\ A = {}

\* A child that is still to be forked is not one of those that were.
Fresh(name, s, F) ==
  name \in Reporting => \A m \in DOMAIN s : s[m].call = "fork" => s[m].child \notin F

\* What is left of the script of a main process whose children A are still to be
\* waited for, and that has forked F
ScriptOK(name, s, F, A) ==
  /\ CarefulScript(name, s) /\ Fresh(name, s, F)
  /\ IF name = "Ec5" THEN Ec5Waits(s, A) ELSE WaitsLater(name, s) /\ WaitsFor(name, s, A)

-------------------------------------------------------------------------------
\* The children that were forked, and those of them not yet waited for
Child(p, k) == <<p[1], k>>
Forked(p) == {k \in 1 .. MaxChildren : state[Child(p, k)] # "none"}
Alive(p) == {k \in Forked(p) : state[Child(p, k)] # "gone"}

\* The main processes that wait for every child: those of two programs only
\* while nothing has failed
Tracked(p) ==
  /\ p \in MainProcs /\ p[1] \in DOMAIN program
  /\ program[p[1]] \in Awaiting \/ (program[p[1]] \in Hasty /\ failures = 0)

\* What is printed is the exit code of a child that was waited for, and of each
\* such child it is.
Printed(p) ==
  /\ \A r \in reports : r[1] \in Children(p) =>
       state[r[1]] = "gone" /\ status[r[1]] >= 0 /\ r = <<r[1], status[r[1]]>>
  /\ \A c \in Children(p) : state[c] = "gone" /\ status[c] >= 0 => <<c, status[c]>> \in reports

\* A status that tells of a signal
Signalled(how) == how \in Int /\ how < 0

\* What is left to do waits for the children that are left, and a main process
\* that has ended of itself has waited for all.
MainOK(p) ==
  /\ state[p] = "running" => ScriptOK(program[p[1]], todo[p], Forked(p), Alive(p))
  /\ state[p] # "running" => Signalled(status[p]) \/ Alive(p) = {}
  /\ program[p[1]] \in Reporting => Printed(p)

\* A main process forks children only, and a child forks nothing.
ForksKids(p, s) ==
  \A c \in Elements(s) : c.call \in {"fork", "getline"} =>
    p = Main(p) /\ (c.call = "fork" => c.child # 0)

\* Who forks is known, and so is who runs, and every main process that is
\* followed keeps to the above.
KidsInv ==
  /\ \A p \in Strangers : state[p] = "running" => ForksKids(p, todo[p])
  /\ \A p \in MainProcs : state[p] # "none" =>
       p[1] \in DOMAIN program /\ program[p[1]] \in Programs \cup Shells
  /\ \A p \in Procs : Tracked(p) => MainOK(p)

-------------------------------------------------------------------------------
\* A script with one fork, of child 1, and a wait for it that comes later
OneFork(name, s, f, w) ==
  /\ IsSeq(s) /\ f \in DOMAIN s /\ w \in DOMAIN s /\ f < w
  /\ s[f].call = "fork" /\ s[f].child = 1
  /\ s[w].call = "waitpid" /\ (1 \in 1 .. MaxChildren => 1 \in s[w].set)
  /\ \A m \in DOMAIN s :
       /\ MainCall(s[m])
       /\ s[m].call = "fork" => m = f
       /\ s[m].call \in {"exit", "getline"} => m = Len(s)
       /\ s[m].call = "getline" => name \in Shells
       /\ s[m].call = "waitpid" /\ name \in Reporting => s[m].prints = TRUE
       /\ MayFail(s[m]) => m <= f /\ \E code : s[m].failed = <<exit(code)>>

-------------------------------------------------------------------------------
\* A script that forks children by their numbers, and waits for each by its number
ByNumber(name, s, n, f, w) ==
  /\ IsSeq(s)
  /\ \A k \in 1 .. n : /\ f[k] \in DOMAIN s /\ w[k] \in DOMAIN s /\ f[k] < w[k]
                      /\ s[w[k]].call = "waitpid" /\ s[w[k]].set = {k}
  /\ \A m \in DOMAIN s :
       /\ MainCall(s[m]) /\ s[m].call # "getline"
       /\ s[m].call = "fork" => \E k \in 1 .. n : m = f[k] /\ s[m].child = k
       /\ s[m].call = "exit" => m = Len(s)
       /\ MayFail(s[m]) => name \in Hasty /\ \E code : s[m].failed = <<exit(code)>>

-------------------------------------------------------------------------------
\* What a step of a stranger does to its script: it goes on, with what is left of
\* the script, what it does when a call fails, or what it reads to do before the rest,
GoesOn(p) ==
  /\ UNCHANGED <<state, status, reports>>
  /\ \/ /\ Continue(p, Tail(todo[p]))
        /\ Call(p).call \notin {"exit", "getline", "waitpid"}
        /\ Call(p).call = "fork" => Call(p).failed = <<>>
     \/ /\ MayFail(Call(p)) /\ failures' = failures + 1
        /\ PlainCalls(Call(p).failed) /\ Continue(p, Call(p).failed)
     \/ /\ Call(p).call = "read" /\ PlainCalls(Call(p).then)
        /\ Continue(p, Call(p).then \o Tail(todo[p]))
     \/ /\ Call(p).call = "filter"
        /\ \E s : PlainCalls(s) /\ (Continue(p, s \o Tail(todo[p])) \/ Continue(p, s \o todo[p]))
     \/ Getline(p)
\* it forks,
Forks(p) ==
  /\ Call(p).call = "fork" /\ UNCHANGED <<status, reports, failures>>
  /\ LET child == <<p[1], Call(p).child>> IN
     /\ todo' = [todo EXCEPT ![p] = Tail(@), ![child] = Call(p).calls]
     /\ state' = [state EXCEPT ![child] = "running"]
\* or it ends.
Stops(p) ==
  \E how : /\ Ends(p, how) /\ UNCHANGED reports
           /\ Signalled(how) \/ Call(p).call \in {"exit", "exec"}

-------------------------------------------------------------------------------
\* Where a main process that minds its children is
Minds(p) ==
  /\ Foreign(p) /\ p \in MainProcs /\ Tracked(p) /\ MainOK(p)
  /\ ForksKids(p, todo[p])

-------------------------------------------------------------------------------
\* The programs that use queues
QueuePrograms == {"Posix", "SysV", "HelloSysV"}
Queued(p) == \E name \in QueuePrograms : Runs(p, name)
QueueMains == {m \in MainProcs : Queued(m)}

\* What the main process of each has still to do, by program and instance, and what
\* its child has
KidScript(name, i) ==
  IF name = "Posix" THEN <<send(i, MaxMsg), closeQueue, exit(0)>>
  ELSE IF name = "SysV" THEN <<send(i, MaxKeyed), exit(0)>> ELSE <<send(i, MaxKeyed), exit(1)>>
ToLeave(name) ==
  IF name = "Posix" THEN <<closeQueue, unlink(MQ_NAME), exit(0)>>
  ELSE IF name = "SysV" THEN <<rmid(KEY), exit(0)>>
  ELSE <<waitpid(1, FALSE), rmid(KEY), exit(0)>>
ToFetch(name) ==
  IF name = "Posix" THEN <<fetch(TRUE), closeQueue, unlink(MQ_NAME), exit(0)>>
  ELSE IF name = "SysV" THEN <<fetch(TRUE), rmid(KEY), exit(0)>>
  ELSE <<fetch(FALSE), waitpid(1, FALSE), rmid(KEY), exit(0)>>
ToFork(name, i) ==
  IF name = "Posix"
    THEN <<fork(1, KidScript(name, i), <<>>), fetch(TRUE), closeQueue, unlink(MQ_NAME), exit(0)>>
  ELSE IF name = "SysV"
    THEN <<fork(1, KidScript(name, i), <<>>), fetch(TRUE), rmid(KEY), exit(0)>>
  ELSE <<fork(1, KidScript(name, i), ToFail), fetch(FALSE), waitpid(1, FALSE), rmid(KEY), exit(0)>>
ToUnlinkQueue == <<unlink(MQ_NAME), exit(0)>>
ToRemove == <<rmid(KEY), exit(0)>>
ToCloseQueue == <<closeQueue, exit(0)>>

\* The places where a program has received what it will
Received(name) == {ToLeave(name)} \cup IF name = "Posix" THEN {ToUnlinkQueue} ELSE {ToRemove}
\* ... and those where its queue is in use, or its name is
Busy(m) ==
  \/ todo[m] \in {ToFork(program[m[1]], m[1]), ToFetch(program[m[1]])}
  \/ todo[m] \in Received(program[m[1]])

OneQueue(m) == \E q \in 1 .. queues : fds[m] = {q}
\* Where the main process of such a program is, with what it has open and received by then
QueueMainOK(m) ==
  LET name == program[m[1]] IN
  \/ state[m] = "gone" /\ todo[m] = <<>>
  \/ /\ state[m] = "running"
     /\ \/ todo[m] = Script(m[1], name) /\ fds[m] = {} /\ got[m] = <<>>
        \/ todo[m] \in {ToFork(name, m[1]), ToFetch(name)} /\ OneQueue(m) /\ got[m] = <<>>
        \/ todo[m] \in Received(name) \ {ToUnlinkQueue} /\ OneQueue(m) /\ got[m] # <<>>
        \/ todo[m] = ToUnlinkQueue /\ name = "Posix" /\ fds[m] = {} /\ got[m] # <<>>
        \/ todo[m] = ToExit /\ got[m] # <<>>
        \/ todo[m] = ToFail /\ got[m] = <<>>

\* Where its child is; only the first one is ever forked.
QueueKidOK(k) ==
  LET name == program[k[1]] IN
  /\ got[k] = <<>>
  /\ todo[Main(k)] \in {Script(k[1], name), ToFork(name, k[1])} => state[k] = "none"
  /\ state[k] = "running" =>
       k[2] = 1 /\ todo[k] \in {KidScript(name, k[1]), ToCloseQueue, ToExit, ToFail}

\* The child of the instance has sent its message.
HasSent(i) ==
  LET k == <<i, 1>> IN
  /\ k \in Procs /\ Queued(k) /\ state[k] # "none" /\ todo[k] # KidScript(program[i], i)

\* A message is of a child that sent it, once.
Distinct(s) == \A m, n \in DOMAIN s : s[m] = s[n] => m = n
MessagesOK ==
  /\ DOMAIN messages = 1 .. MaxQueues
  /\ \A q \in 1 .. MaxQueues :
       /\ IsSeq(messages[q])
       /\ Distinct(messages[q])
       /\ \A i \in Elements(messages[q]) : HasSent(i)

\* The queues that are found by the key, and can be removed, are not those that
\* are found by the POSIX name.
Parted ==
  \E K \in SUBSET (1 .. queues) :
    /\ removed \subseteq K
    /\ \A m \in QueueMains : IF Keyed(m) THEN fds[m] \subseteq K ELSE fds[m] \subseteq (1 .. queues) \ K
    /\ linked[KEY] \in K \cup {Nobody}
    /\ linked[MQ_NAME] \in ((1 .. queues) \ K) \cup {Nobody}

\* Who removed a queue has come to its own end, with what it had received.
HasLeft(w) == Keyed(w) /\ got[w] # <<>> /\ todo[w] \in {ToExit, <<>>}
RemovedAtEnd ==
  removed # {} => \E m \in QueueMains : HasLeft(m)
\* ... which is why others receive nothing.
Pulled(m) ==
  \/ Runs(m, "HelloSysV")
  \/ /\ Runs(m, "SysV")
     /\ state[m] = "running" => fds[m] \subseteq removed
     /\ \E w \in QueueMains : w # m /\ HasLeft(w)
PulledAway == \A m \in QueueMains : got[m] = <<Nobody>> => Pulled(m)

\* While nothing has failed and nobody was killed, whoever will take a name away is
\* still to do so.
QueueNamesHeld ==
  Undisturbed =>
    /\ linked[MQ_NAME] # Nobody => \E m \in QueueMains : Runs(m, "Posix") /\ Busy(m)
    /\ linked[KEY] # Nobody =>
         \E m \in QueueMains : Keyed(m) /\ Busy(m) /\ fds[m] = {linked[KEY]}
SocketNameHeld ==
  Undisturbed /\ linked[SOCKET_PATH] # Nobody =>
    todo[linked[SOCKET_PATH]] \notin {Server, ToBind, ToGiveUp, ToFail, ToExit, <<>>}
OtherNamesFree == \A name \in Names \ {MQ_NAME, KEY, SOCKET_PATH} : linked[name] = Nobody

-------------------------------------------------------------------------------
\* Exit codes and signals; messages
Codes == {SIGKILL, SIGSEGV, SIGPIPE, 0, 1, 2, 3, 42, 127}
Message == Nat \cup Instances

\* Calls that leave queues and names alone, exit with a code of these and write messages
Basic(c) ==
  \/ c.call \in {"close", "waitpid", "filter", "getline"}
  \/ c.call = "exit" /\ c.code \in Codes
  \/ c.call = "exec" /\ c.failed \in Codes
  \/ c.call = "write" /\ c.message \in Message
BasicCalls(s) == \A c \in Elements(s) : Basic(c)
ChildBasic(c) ==
  \/ Basic(c)
  \/ c.call = "read" /\ BasicCalls(c.then)
  \/ c.call = "pipe" /\ BasicCalls(c.failed)
ChildBasicScript(s) == \A c \in Elements(s) : ChildBasic(c)
MainBasic(c) ==
  \/ ChildBasic(c)
  \/ c.call = "fork" /\ BasicCalls(c.failed) /\ ChildBasicScript(c.calls)
BasicScript(s) == \A c \in Elements(s) : MainBasic(c)

\* A process that uses neither queues nor sockets keeps to them.
Apart(p) == ~Queued(p) /\ ~Socketed(p)
ApartOK == \A p \in Procs : Apart(p) /\ state[p] = "running" => BasicScript(todo[p])

States == {"none", "running", "zombie", "gone", "abandoned"}
\* The types that are not yet in IInv
Typed ==
  /\ state \in [Procs -> States] /\ status \in [Procs -> Codes]
  /\ \A p \in Procs : state[p] # "running" => fds[p] = {}
  /\ queues \in 0 .. MaxQueues
  /\ failures \in 0 .. MaxFailures /\ kills \in 0 .. MaxKills
  /\ program \in Seq(Programs \cup Shells)
\* What is in pipes was written by programs, and read from there by all but receivers.
Clean ==
  /\ \A n \in Pipe : Elements(content[n]) \subseteq Message /\ Len(content[n]) <= Capacity
  /\ \A p \in Procs : ~Queued(p) => Elements(got[p]) \subseteq Message

\* What is true of the queues and of the programs that use them
MainsOK == \A m \in QueueMains : QueueMainOK(m)
KidsOK == \A k \in Procs : Queued(k) /\ k # Main(k) => QueueKidOK(k)
QueueWorld ==
  /\ MainsOK /\ KidsOK
  /\ MessagesOK /\ Parted /\ RemovedAtEnd /\ PulledAway

\* What the proof is by, together with IInv
QInv ==
  /\ Typed /\ Clean /\ ApartOK /\ QueueWorld
  /\ QueueNamesHeld /\ SocketNameHeld /\ OtherNamesFree

-------------------------------------------------------------------------------
\* What the steps of the processes are said to do

\* A call exits with a code of these, writes a message, reads a pipe, and receives for a
\* program that uses queues.
WellCalled(p) ==
  /\ Call(p).call = "exit" => Call(p).code \in Codes
  /\ Call(p).call = "exec" => Call(p).failed \in Codes
  /\ Call(p).call = "write" => Call(p).message \in Message
  /\ Call(p).call \in {"read", "filter"} => Call(p).pipe \in Pipe
  /\ Call(p).call = "fetch" => Queued(p)

\* The name a program of a queue opens
QueueName(name) == IF name = "Posix" THEN MQ_NAME ELSE KEY
\* What the programs of a queue call first, and what is left to do then
QueueCalls(name, i) ==
  /\ LET s == Script(i, name) IN
     /\ s # <<>> /\ Head(s).call = "open" /\ Head(s).name = QueueName(name)
     /\ Head(s).failed = IF name = "Posix" THEN ToFail ELSE <<>>
     /\ Tail(s) = ToFork(name, i)
  /\ LET s == ToFork(name, i) IN
     /\ s # <<>> /\ Head(s).call = "fork" /\ Head(s).child = 1
     /\ Head(s).calls = KidScript(name, i)
     /\ Head(s).failed = IF name = "HelloSysV" THEN ToFail ELSE <<>>
     /\ Tail(s) = ToFetch(name)
  /\ LET s == ToFetch(name) IN
     /\ s # <<>> /\ Head(s).call = "fetch" /\ (Head(s).waits <=> name # "HelloSysV")
     /\ Tail(s) = ToLeave(name)
  /\ LET s == KidScript(name, i) IN
     /\ s # <<>> /\ Head(s).call = "send" /\ Head(s).message = i /\ Head(s).room \in Nat
     /\ Tail(s) = IF name = "Posix" THEN ToCloseQueue
                  ELSE IF name = "SysV" THEN ToExit ELSE ToFail

\* A step of p changes nothing of the others, but that zombies are waited for or abandoned.
Moves(p) ==
  /\ program' = program
  /\ \A y \in Procs \ {p} :
       /\ todo'[y] = todo[y] /\ fds'[y] = fds[y] /\ got'[y] = got[y]
       /\ state'[y] = state[y] \/ (state[y] = "zombie" /\ state'[y] \in {"gone", "abandoned"})

\* What a step of a main process changes, call by call
Kid(m) == <<m[1], 1>>
StepOfMain(m) ==
  /\ Domains /\ m \in QueueMains /\ QueueMainOK(m)
  /\ state[m] = "running" /\ program' = program

\* The other main processes stay as they are, and so do the queues there were.
Still(y) ==
  todo'[y] = todo[y] /\ fds'[y] = fds[y] /\ got'[y] = got[y] /\ state'[y] = state[y]
OthersStill(p) ==
  /\ program' = program /\ queues \in Nat /\ queues' \in Nat /\ queues' >= queues
  /\ \A y \in QueueMains \ {p} : Still(y)

\* A main process does not go back, and keeps what it has received.
Onward(m) ==
  LET name == program[m[1]] IN
  /\ todo'[m] \in {Script(m[1], name), ToFork(name, m[1])} => todo[m] \in {Script(m[1], name), ToFork(name, m[1])}
  /\ got[m] # <<>> => got'[m] = got[m]
  /\ todo[m] \in {ToExit, <<>>} /\ got[m] # <<>> => todo'[m] \in {ToExit, <<>>}

\* What stays true while the other main processes stay as they are, and one goes on
Follows(p) == OthersStill(p) /\ (p \in QueueMains => Onward(p) /\ QueueMainOK(p)')

\* The children: what was sent stays sent.
SentStays ==
  \A k \in Procs : Queued(k) /\ k # Main(k) /\ state[k] # "none" /\ todo[k] # KidScript(program[k[1]], k[1]) =>
    state'[k] # "none" /\ todo'[k] # KidScript(program[k[1]], k[1])

\* The child: it sends, may close, and ends.
StepOfKid(k) ==
  /\ Domains /\ k \in Procs /\ Queued(k) /\ k # Main(k) /\ QueueKidOK(k)
  /\ state[k] = "running" /\ program' = program

\* A server does not leave its name behind.
Nameless == {Server, ToBind, ToGiveUp, ToFail, ToExit, <<>>}
===============================================================================
