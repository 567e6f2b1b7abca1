---------------------------- MODULE ExercisesProofs ----------------------------
(***************************************************************************)
(* Three proofs about any company of any number of programs, with any number *)
(* of calls that fail and of processes that are killed.                    *)
(* A client of the socket exercise is answered by the server it reached,   *)
(* unless another came first: a server and a client are followed place by  *)
(* place through their scripts, and of every other process it is only said *)
(* that its calls are none of theirs.                                      *)
(* Children are waited for and reported, each once: what is left of the    *)
(* script of a main process is related to the children it has forked and   *)
(* not yet waited for.                                                     *)
(* Queues serve each run that meets under a name and end with the last     *)
(* one: where a main process and its child are in their scripts is related *)
(* to the queues they have open, the messages in them and the names that   *)
(* lead there, and whoever uses no queue leaves all of that alone.         *)
(* The invariants, and what else is said of steps, are in                  *)
(* ExercisesInvariants.                                                    *)
(***************************************************************************)
EXTENDS ExercisesInvariants, FiniteSetTheorems, SequenceTheorems, TLAPS

------------------------------------------------------------

\* A sequence over any set is one over its elements.
LEMMA SeqOf ==
  ASSUME NEW S, NEW s \in Seq(S)
  PROVE  IsSeq(s) /\ Elements(s) \subseteq S
<1>1. Len(s) \in Nat /\ DOMAIN s = 1 .. Len(s) /\ s \in [1 .. Len(s) -> S]
  BY LenProperties
<1>2. s \in [1 .. Len(s) -> Elements(s)]
  BY <1>1 DEF Elements
<1>3. s \in Seq(Elements(s))
  BY <1>1, <1>2, SeqDef
<1> QED
  BY <1>1, <1>3 DEF IsSeq, Elements

\* The empty script, a script of one call, and what is put together of scripts
LEMMA EmptyIsSeq == IsSeq(<<>>) /\ Elements(<<>>) = {}
<1>1. DOMAIN <<>> = {}
  OBVIOUS
<1> QED
  BY <1>1 DEF IsSeq, Elements

LEMMA SingleIsSeq ==
  ASSUME NEW x
  PROVE  IsSeq(<<x>>) /\ Elements(<<x>>) = {x}
<1>1. <<x>> \in Seq({x}) /\ DOMAIN <<x>> = {1} /\ <<x>>[1] = x
  OBVIOUS
<1> QED
  BY <1>1 DEF IsSeq, Elements

LEMMA ConcatIsSeq ==
  ASSUME NEW s, NEW t, IsSeq(s), IsSeq(t)
  PROVE  /\ IsSeq(s \o t) /\ Elements(s \o t) \subseteq Elements(s) \cup Elements(t)
         /\ Len(s) \in Nat /\ Len(t) \in Nat /\ Len(s \o t) = Len(s) + Len(t)
         /\ t # <<>> => s \o t # <<>> /\ (s \o t)[Len(s \o t)] = t[Len(t)]
<1> DEFINE S == Elements(s) \cup Elements(t)
<1>1. s \in Seq(S) /\ t \in Seq(S)
  BY SeqMonotonic DEF IsSeq
<1> HIDE DEF S
<1>2. /\ s \o t \in Seq(S) /\ Len(s \o t) = Len(s) + Len(t)
      /\ \A n \in 1 .. Len(s) + Len(t) :
           (s \o t)[n] = IF n <= Len(s) THEN s[n] ELSE t[n - Len(s)]
  BY <1>1, ConcatProperties
<1>3. IsSeq(s \o t) /\ Elements(s \o t) \subseteq S
  BY <1>2, SeqOf
<1>4. Len(s) \in Nat /\ Len(t) \in Nat
  BY <1>1, LenProperties
<1>5. ASSUME t # <<>>
      PROVE  s \o t # <<>> /\ (s \o t)[Len(s \o t)] = t[Len(t)]
  <2>1. Len(t) \in Nat \ {0}
    BY <1>1, <1>5, EmptySeq
  <2>2. Len(s \o t) # 0
    BY <2>1, <1>2, <1>4
  <2>3. Len(<<>>) = 0
    OBVIOUS
  <2> QED
    BY <1>2, <1>4, <2>1, <2>2, <2>3
<1> QED
  BY <1>2, <1>3, <1>4, <1>5 DEF S

\* What is left of a script still ends as the script does.
LEMMA TailIsSeq ==
  ASSUME NEW s, IsSeq(s), s # <<>>
  PROVE  /\ IsSeq(Tail(s)) /\ Elements(Tail(s)) \subseteq Elements(s)
         /\ Head(s) \in Elements(s)
         /\ \/ Len(s) = 1 /\ Head(s) = s[Len(s)]
            \/ Tail(s) # <<>> /\ Tail(s)[Len(Tail(s))] = s[Len(s)]
<1>1. s \in Seq(Elements(s))
  BY DEF IsSeq
<1>2. /\ Head(s) \in Elements(s) /\ Tail(s) \in Seq(Elements(s))
      /\ Len(Tail(s)) = Len(s) - 1 /\ \A n \in 1 .. Len(Tail(s)) : Tail(s)[n] = s[n + 1]
  BY <1>1, HeadTailProperties
<1>3. Len(s) \in Nat \ {0}
  BY <1>1, EmptySeq
<1>6. IsSeq(Tail(s)) /\ Elements(Tail(s)) \subseteq Elements(s)
  <2> DEFINE S == Elements(s)
             t == Tail(s)
  <2>1. t \in Seq(S)
    BY <1>2
  <2> HIDE DEF S, t
  <2>2. IsSeq(t) /\ Elements(t) \subseteq S
    BY <2>1, SeqOf
  <2> QED
    BY <2>2 DEF S, t
<1>7. Head(s) = s[1]
  BY <1>1
<1>4. CASE Len(s) = 1
  BY <1>2, <1>4, <1>6, <1>7
<1>5. CASE Len(s) > 1
  <2>3. Len(<<>>) = 0
    OBVIOUS
  <2> DEFINE t == Tail(s)
  <2>4. Len(t) > 0
    BY <1>2, <1>3, <1>5
  <2> HIDE DEF t
  <2>5. t # <<>>
    BY <2>3, <2>4
  <2>1. Tail(s) # <<>>
    BY <2>5 DEF t
  <2>2. Tail(s)[Len(Tail(s))] = s[Len(s)]
    BY <1>2, <1>3, <1>5
  <2> QED
    BY <1>2, <1>6, <2>1, <2>2
<1>8. Len(s) = 1 \/ Len(s) > 1
  <2> DEFINE n == Len(s)
  <2>1. n \in Nat \ {0}
    BY <1>3
  <2> HIDE DEF n
  <2>2. n = 1 \/ n > 1
    BY <2>1
  <2> QED
    BY <2>2 DEF n
<1> QED
  BY ONLY <1>4, <1>5, <1>8, Zenon

\* One more element
LEMMA AppendIsSeq ==
  ASSUME NEW s, NEW x, IsSeq(s)
  PROVE  IsSeq(Append(s, x))
<1> DEFINE S == Elements(s) \cup {x}
<1>1. s \in Seq(S) /\ x \in S
  BY SeqMonotonic DEF IsSeq
<1>2. Append(s, x) \in Seq(S)
  BY <1>1, AppendProperties
<1> QED
  BY <1>2, SeqOf

------------------------------------------------------------
\* What a call leaves to do, unless it is the one that ends a script.
LEMMA RestIsScript ==
  ASSUME NEW s, ForeignScript(s)
  PROVE  /\ ForeignCall(Head(s))
         /\ Head(s).call \notin {"exit", "getline"} => ForeignScript(Tail(s))
<1>1. IsSeq(s) /\ s # <<>> /\ s[Len(s)].call \in {"exit", "getline"}
  BY DEF ForeignScript, EndsIn
<1> QED
  BY <1>1, TailIsSeq DEF ForeignScript, EndsIn

\* What a call that failed, or was read, puts before the rest
LEMMA PutBefore ==
  ASSUME NEW s, NEW t, PlainCalls(s), ForeignScript(t)
  PROVE  ForeignScript(s \o t)
<1>1. IsSeq(s) /\ IsSeq(t) /\ t # <<>>
  BY DEF PlainCalls, ForeignScript, EndsIn
<1> QED
  BY <1>1, ConcatIsSeq DEF PlainCalls, ForeignScript, EndsIn, ForeignCall, ChildCall

\* The script of a child, and a fallback, are foreign scripts.
LEMMA ChildScriptIsForeign ==
  ASSUME NEW s, ChildScript(s)
  PROVE  ForeignScript(s)
  BY DEF ChildScript, ForeignScript, ForeignCall, EndsIn

LEMMA FallbackIsForeign ==
  ASSUME NEW s, Fallback(s), s # <<>>
  PROVE  ForeignScript(s)
  BY DEF Fallback, PlainCalls, ForeignScript, ForeignCall, ChildCall, EndsIn

------------------------------------------------------------
\* Scripts that are written out call by call
LEMMA PlainWritten ==
  ASSUME NEW S, NEW s \in Seq(S), \A c \in S : Plain(c)
  PROVE  PlainCalls(s)
  BY SeqOf DEF PlainCalls

LEMMA FallbackWritten ==
  ASSUME NEW code
  PROVE  Fallback(<<exit(code)>>) /\ Fallback(<<>>)
<1>1. Plain(exit(code))
  BY DEF Plain, exit
<1>2. PlainCalls(<<exit(code)>>) /\ PlainCalls(<<>>)
  BY <1>1, SingleIsSeq, EmptyIsSeq DEF PlainCalls
<1>3. EndsIn(<<exit(code)>>, {"exit"})
  BY DEF EndsIn, exit
<1> QED
  BY <1>2, <1>3 DEF Fallback

LEMMA ChildWritten ==
  ASSUME NEW S, NEW s \in Seq(S), \A c \in S : ChildCall(c),
         NEW code, s # <<>>, s[Len(s)] = exit(code)
  PROVE  ChildScript(s)
<1>1. IsSeq(s) /\ Elements(s) \subseteq S
  BY SeqOf
<1>2. EndsIn(s, {"exit"})
  BY DEF EndsIn, exit
<1> QED
  BY <1>1, <1>2 DEF ChildScript

LEMMA ScriptWritten ==
  ASSUME NEW S, NEW s \in Seq(S), \A c \in S : ForeignCall(c),
         NEW code, s # <<>>, s[Len(s)] = exit(code)
  PROVE  ForeignScript(s)
<1>1. IsSeq(s) /\ Elements(s) \subseteq S
  BY SeqOf
<1>2. EndsIn(s, {"exit", "getline"})
  BY DEF EndsIn, exit
<1> QED
  BY <1>1, <1>2 DEF ForeignScript

\* The calls of the exercises, each in its class
LEMMA PlainOnes ==
  /\ \A code : Plain(exit(code)) /\ Plain(execvp(code))
  /\ \A S : Plain(close(S))
  /\ \A child : Plain(waitpid(child, TRUE)) /\ Plain(waitpid(child, FALSE))
  /\ Plain(wait(TRUE)) /\ Plain(fetch(TRUE)) /\ Plain(fetch(FALSE))
  /\ \A m, r : Plain(send(m, r))
  /\ \A k \in 1 .. 3 : \A m : Plain(write(P(k), m))
  /\ Plain(closeQueue)
  /\ Plain(unlink(MQ_NAME)) /\ Plain(rmid(KEY))
<1>1. SOCKET_PATH # MQ_NAME /\ SOCKET_PATH # KEY
  BY CompanyAssumption
<1>2. \A k \in 1 .. 3 : \A m : Plain(write(P(k), m))
  BY DEF Plain, write, ExercisePipes
<1> QED
  BY <1>1, <1>2 DEF Plain, exit, execvp, close, waitpid, wait, send, fetch, closeQueue, unlink, rmid

LEMMA ChildOnes ==
  /\ \A code : ChildCall(exit(code)) /\ ChildCall(execvp(code))
  /\ \A S : ChildCall(close(S))
  /\ \A child : ChildCall(waitpid(child, TRUE)) /\ ChildCall(waitpid(child, FALSE))
  /\ ChildCall(wait(TRUE)) /\ ChildCall(fetch(TRUE)) /\ ChildCall(fetch(FALSE))
  /\ \A m, r : ChildCall(send(m, r))
  /\ \A k \in 1 .. 3 : \A m : ChildCall(write(P(k), m))
  /\ ChildCall(closeQueue)
  /\ ChildCall(unlink(MQ_NAME)) /\ ChildCall(rmid(KEY))
  BY PlainOnes DEF ChildCall

LEMMA ForeignOnes ==
  /\ \A code : ForeignCall(exit(code)) /\ ForeignCall(execvp(code))
  /\ \A S : ForeignCall(close(S))
  /\ \A child : ForeignCall(waitpid(child, TRUE)) /\ ForeignCall(waitpid(child, FALSE))
  /\ ForeignCall(wait(TRUE)) /\ ForeignCall(fetch(TRUE)) /\ ForeignCall(fetch(FALSE))
  /\ \A m, r : ForeignCall(send(m, r))
  /\ \A k \in 1 .. 3 : \A m : ForeignCall(write(P(k), m))
  /\ ForeignCall(closeQueue)
  /\ ForeignCall(unlink(MQ_NAME)) /\ ForeignCall(rmid(KEY))
  BY ChildOnes DEF ForeignCall

\* The calls on pipes and queues, and what follows them
LEMMA ExerciseOnes ==
  /\ \A k \in 1 .. 3 : \A then : PlainCalls(then) =>
       ChildCall(read(P(k), then)) /\ ForeignCall(read(P(k), then))
  /\ \A k \in 1 .. 3 : \A out : out \subseteq ExercisePipes =>
       ChildCall(filter(P(k), out, TRUE)) /\ ChildCall(filter(P(k), out, FALSE))
  /\ \A k \in 1 .. 3 : ForeignCall(pipe(P(k), Return)) /\ ForeignCall(pipe(P(k), <<>>))
  /\ ForeignCall(open(MQ_NAME, <<exit(1)>>)) /\ ForeignCall(open(KEY, <<>>))
  /\ PlainCalls(<<>>)
<1>1. SOCKET_PATH # MQ_NAME /\ SOCKET_PATH # KEY
  BY CompanyAssumption
<1>2. \A k \in 1 .. 3 : \A then : PlainCalls(then) => ChildCall(read(P(k), then))
  BY DEF ChildCall, read, ExercisePipes
<1>3. \A k \in 1 .. 3 : \A out : out \subseteq ExercisePipes =>
       ChildCall(filter(P(k), out, TRUE)) /\ ChildCall(filter(P(k), out, FALSE))
  BY DEF ChildCall, filter, ExercisePipes
<1>4. \A k \in 1 .. 3 : \A failed : Fallback(failed) => ChildCall(pipe(P(k), failed))
  BY DEF ChildCall, pipe, ExercisePipes
<1>5. \A failed : Fallback(failed) => ChildCall(open(MQ_NAME, failed)) /\ ChildCall(open(KEY, failed))
  BY <1>1 DEF ChildCall, open
<1>6. Fallback(Return) /\ Fallback(<<exit(1)>>) /\ Fallback(<<>>)
  BY FallbackWritten DEF Return
<1> QED
  BY <1>2, <1>3, <1>4, <1>5, <1>6 DEF ForeignCall, Fallback

\* A fork, with each of the fallbacks the programs have
LEMMA ForkOnes ==
  ASSUME NEW child, NEW calls, ChildScript(calls)
  PROVE  /\ ForeignCall(fork(child, calls, Return))
         /\ ForeignCall(fork(child, calls, <<exit(1)>>))
         /\ ForeignCall(fork(child, calls, <<>>))
  BY FallbackWritten DEF ForeignCall, fork, Return

\* The programs of pipe_fifo and of exercise/pipe
LEMMA PingIsForeign == ForeignScript(Ping)
<1> DEFINE child == <<close({W(P(1))}), read(P(1), <<>>), close({R(P(1))}), exit(1)>>
           CHILD == {close({W(P(1))}), read(P(1), <<>>), close({R(P(1))}), exit(1)}
           S == {pipe(P(1), Return), fork(1, child, Return), close({R(P(1))}),
                write(P(1), 1), close({W(P(1))}), wait(TRUE), exit(0)}
<1>1. child \in Seq(CHILD) /\ child # <<>> /\ child[Len(child)] = exit(1)
  OBVIOUS
<1>5. Ping \in Seq(S) /\ Ping # <<>> /\ Ping[Len(Ping)] = exit(0)
  BY DEF Ping
<1>6. 1 \in 1 .. 3 /\ 2 \in 1 .. 3 /\ 3 \in 1 .. 3
  OBVIOUS
<1> HIDE DEF child
<1>11. \A c \in CHILD : ChildCall(c)
  BY <1>6, ChildOnes, ExerciseOnes, Zenon
<1> HIDE DEF CHILD
<1>21. ChildScript(child)
  BY <1>1, <1>11, ChildWritten
<1>7. \A c \in S : ForeignCall(c)
  BY <1>21, <1>6, ForkOnes, ForeignOnes, ExerciseOnes, Zenon
<1> HIDE DEF S
<1> QED
  BY <1>5, <1>7, ScriptWritten

LEMMA PingPongIsForeign == ForeignScript(PingPong)
<1> DEFINE child == << close({R(P(2))}), close({W(P(1))}), read(P(1), <<write(P(2), 2)>>),
                       close({R(P(1))}), close({W(P(2))}), exit(1) >>
           CHILD == {close({R(P(2))}), close({W(P(1))}), read(P(1), <<write(P(2), 2)>>),
                     close({R(P(1))}), close({W(P(2))}), exit(1)}
           S == {pipe(P(1), Return), pipe(P(2), Return), fork(1, child, Return),
                close({R(P(1))}), close({W(P(2))}), write(P(1), 1), read(P(2), <<>>),
                close({R(P(2))}), close({W(P(1))}), wait(TRUE), exit(0)}
<1>1. child \in Seq(CHILD) /\ child # <<>> /\ child[Len(child)] = exit(1)
  OBVIOUS
<1>5. PingPong \in Seq(S) /\ PingPong # <<>> /\ PingPong[Len(PingPong)] = exit(0)
  BY DEF PingPong
<1>6. 1 \in 1 .. 3 /\ 2 \in 1 .. 3 /\ 3 \in 1 .. 3
  OBVIOUS
<1> HIDE DEF child
<1>8. PlainCalls(<<write(P(2), 2)>>)
  BY <1>6, PlainOnes, SingleIsSeq DEF PlainCalls
<1>11. \A c \in CHILD : ChildCall(c)
  BY <1>6, <1>8, ChildOnes, ExerciseOnes, Zenon
<1> HIDE DEF CHILD
<1>21. ChildScript(child)
  BY <1>1, <1>11, ChildWritten
<1>7. \A c \in S : ForeignCall(c)
  BY <1>21, <1>6, ForkOnes, ForeignOnes, ExerciseOnes, Zenon
<1> HIDE DEF S
<1> QED
  BY <1>5, <1>7, ScriptWritten

\* A program that posix_spawn starts between two pipes
LEMMA SpawnIsForeign ==
  ASSUME NEW child, NEW in, NEW out, NEW C, NEW calls \in Seq(C),
         \A c \in C : ChildCall(c)
  PROVE  ForeignCall(spawn(child, in, out, calls))
<1> DEFINE ends == close({R(P(k)) : k \in 1 .. 3} \ {R(n) : n \in in})
           outs == close({W(P(k)) : k \in 1 .. 3} \ {W(n) : n \in out})
           S == C \cup {ends, outs, execvp(127), exit(0)}
           all == <<ends, outs, execvp(127)>> \o calls \o <<exit(0)>>
<1>1. ChildCall(ends) /\ ChildCall(outs) /\ ChildCall(execvp(127)) /\ ChildCall(exit(0))
  BY ChildOnes, Zenon
<1>2. spawn(child, in, out, calls) = fork(child, all, <<>>)
  BY DEF spawn
<1> HIDE DEF ends, outs
<1>3. all \in Seq(S) /\ all # <<>> /\ all[Len(all)] = exit(0)
  OBVIOUS
<1>4. \A c \in S : ChildCall(c)
  BY <1>1
<1> HIDE DEF S, all
<1>5. ChildScript(all)
  BY <1>3, <1>4, ChildWritten
<1> QED
  BY <1>2, <1>5, ForkOnes

LEMMA ListGrepIsForeign == ForeignScript(ListGrep)
<1> DEFINE ls == <<close({R(P(1))}), execvp(1)>> \o List(P(1)) \o <<exit(0)>>
           LS == {close({R(P(1))}), execvp(1), exit(0)} \cup {write(P(1), k) : k \in 1 .. Lines}
           grep == <<close({W(P(1))}), execvp(1), filter(P(1), {}, FALSE), exit(0)>>
           GREP == {close({W(P(1))}), execvp(1), filter(P(1), {}, FALSE), exit(0)}
           S == {pipe(P(1), Return), fork(1, ls, Return), fork(2, grep, Return),
                close({R(P(1))}), close({W(P(1))}), waitpid(1, FALSE), waitpid(2, FALSE),
                exit(0)}
<1>1. ls \in Seq(LS) /\ ls # <<>> /\ ls[Len(ls)] = exit(0)
  BY LinesAssumption DEF List
<1>2. grep \in Seq(GREP) /\ grep # <<>> /\ grep[Len(grep)] = exit(0)
  OBVIOUS
<1>5. ListGrep \in Seq(S) /\ ListGrep # <<>> /\ ListGrep[Len(ListGrep)] = exit(0)
  BY DEF ListGrep
<1>6. 1 \in 1 .. 3 /\ 2 \in 1 .. 3 /\ 3 \in 1 .. 3
  OBVIOUS
<1> HIDE DEF ls, grep
<1>11. \A c \in LS : ChildCall(c)
  BY <1>6, ChildOnes, ExerciseOnes, Zenon
<1>12. \A c \in GREP : ChildCall(c)
  BY <1>6, ChildOnes, ExerciseOnes, Zenon
<1> HIDE DEF LS, GREP
<1>21. ChildScript(ls)
  BY <1>1, <1>11, ChildWritten
<1>22. ChildScript(grep)
  BY <1>2, <1>12, ChildWritten
<1>7. \A c \in S : ForeignCall(c)
  BY <1>21, <1>22, <1>6, ForkOnes, ForeignOnes, ExerciseOnes, Zenon
<1> HIDE DEF S
<1> QED
  BY <1>5, <1>7, ScriptWritten

\* The programs of process and of message_queue
LEMMA Ec5IsForeign == ForeignScript(Ec5)
<1> DEFINE c1 == <<exit(1)>>
           C1 == {exit(1)}
           c2 == <<exit(2)>>
           C2 == {exit(2)}
           c3 == <<exit(3)>>
           C3 == {exit(3)}
           S == {fork(1, c1, <<exit(1)>>), fork(2, c2, <<exit(1)>>),
                fork(3, c3, <<exit(1)>>), wait(TRUE), exit(0)}
<1>1. c1 \in Seq(C1) /\ c1 # <<>> /\ c1[Len(c1)] = exit(1)
  OBVIOUS
<1>2. c2 \in Seq(C2) /\ c2 # <<>> /\ c2[Len(c2)] = exit(2)
  OBVIOUS
<1>3. c3 \in Seq(C3) /\ c3 # <<>> /\ c3[Len(c3)] = exit(3)
  OBVIOUS
<1>5. Ec5 \in Seq(S) /\ Ec5 # <<>> /\ Ec5[Len(Ec5)] = exit(0)
  BY DEF Ec5
<1>6. 1 \in 1 .. 3 /\ 2 \in 1 .. 3 /\ 3 \in 1 .. 3
  OBVIOUS
<1> HIDE DEF c1, c2, c3
<1>11. \A c \in C1 : ChildCall(c)
  BY <1>6, ChildOnes, ExerciseOnes, Zenon
<1>12. \A c \in C2 : ChildCall(c)
  BY <1>6, ChildOnes, ExerciseOnes, Zenon
<1>13. \A c \in C3 : ChildCall(c)
  BY <1>6, ChildOnes, ExerciseOnes, Zenon
<1> HIDE DEF C1, C2, C3
<1>21. ChildScript(c1)
  BY <1>1, <1>11, ChildWritten
<1>22. ChildScript(c2)
  BY <1>2, <1>12, ChildWritten
<1>23. ChildScript(c3)
  BY <1>3, <1>13, ChildWritten
<1>7. \A c \in S : ForeignCall(c)
  BY <1>21, <1>22, <1>23, <1>6, ForkOnes, ForeignOnes, ExerciseOnes, Zenon
<1> HIDE DEF S
<1> QED
  BY <1>5, <1>7, ScriptWritten

LEMMA PosixIsForeign ==
  ASSUME NEW i
  PROVE  ForeignScript(Posix(i))
<1> DEFINE child == <<send(i, MaxMsg), closeQueue, exit(0)>>
           CHILD == {send(i, MaxMsg), closeQueue, exit(0)}
           S == {open(MQ_NAME, <<exit(1)>>), fork(1, child, <<>>), fetch(TRUE), closeQueue,
                unlink(MQ_NAME), exit(0)}
<1>1. child \in Seq(CHILD) /\ child # <<>> /\ child[Len(child)] = exit(0)
  OBVIOUS
<1>5. Posix(i) \in Seq(S) /\ Posix(i) # <<>> /\ Posix(i)[Len(Posix(i))] = exit(0)
  BY DEF Posix
<1>6. 1 \in 1 .. 3 /\ 2 \in 1 .. 3 /\ 3 \in 1 .. 3
  OBVIOUS
<1> HIDE DEF child
<1>11. \A c \in CHILD : ChildCall(c)
  BY <1>6, ChildOnes, ExerciseOnes, Zenon
<1> HIDE DEF CHILD
<1>21. ChildScript(child)
  BY <1>1, <1>11, ChildWritten
<1>7. \A c \in S : ForeignCall(c)
  BY <1>21, <1>6, ForkOnes, ForeignOnes, ExerciseOnes, Zenon
<1> HIDE DEF S
<1> QED
  BY <1>5, <1>7, ScriptWritten

LEMMA SysVIsForeign ==
  ASSUME NEW i
  PROVE  ForeignScript(SysV(i))
<1> DEFINE child == <<send(i, MaxKeyed), exit(0)>>
           CHILD == {send(i, MaxKeyed), exit(0)}
           S == {open(KEY, <<>>), fork(1, child, <<>>), fetch(TRUE), rmid(KEY), exit(0)}
<1>1. child \in Seq(CHILD) /\ child # <<>> /\ child[Len(child)] = exit(0)
  OBVIOUS
<1>5. SysV(i) \in Seq(S) /\ SysV(i) # <<>> /\ SysV(i)[Len(SysV(i))] = exit(0)
  BY DEF SysV
<1>6. 1 \in 1 .. 3 /\ 2 \in 1 .. 3 /\ 3 \in 1 .. 3
  OBVIOUS
<1> HIDE DEF child
<1>11. \A c \in CHILD : ChildCall(c)
  BY <1>6, ChildOnes, ExerciseOnes, Zenon
<1> HIDE DEF CHILD
<1>21. ChildScript(child)
  BY <1>1, <1>11, ChildWritten
<1>7. \A c \in S : ForeignCall(c)
  BY <1>21, <1>6, ForkOnes, ForeignOnes, ExerciseOnes, Zenon
<1> HIDE DEF S
<1> QED
  BY <1>5, <1>7, ScriptWritten

LEMMA HelloSysVIsForeign ==
  ASSUME NEW i
  PROVE  ForeignScript(HelloSysV(i))
<1> DEFINE child == <<send(i, MaxKeyed), exit(1)>>
           CHILD == {send(i, MaxKeyed), exit(1)}
           S == {open(KEY, <<>>), fork(1, child, <<exit(1)>>), fetch(FALSE),
                waitpid(1, FALSE), rmid(KEY), exit(0)}
<1>1. child \in Seq(CHILD) /\ child # <<>> /\ child[Len(child)] = exit(1)
  OBVIOUS
<1>5. HelloSysV(i) \in Seq(S) /\ HelloSysV(i) # <<>> /\ HelloSysV(i)[Len(HelloSysV(i))] = exit(0)
  BY DEF HelloSysV
<1>6. 1 \in 1 .. 3 /\ 2 \in 1 .. 3 /\ 3 \in 1 .. 3
  OBVIOUS
<1> HIDE DEF child
<1>11. \A c \in CHILD : ChildCall(c)
  BY <1>6, ChildOnes, ExerciseOnes, Zenon
<1> HIDE DEF CHILD
<1>21. ChildScript(child)
  BY <1>1, <1>11, ChildWritten
<1>7. \A c \in S : ForeignCall(c)
  BY <1>21, <1>6, ForkOnes, ForeignOnes, ExerciseOnes, Zenon
<1> HIDE DEF S
<1> QED
  BY <1>5, <1>7, ScriptWritten

\* Ec1 to Ec4 fork one child and wait for it.
LEMMA OneChildIsForeign ==
  ASSUME NEW calls, ChildScript(calls), NEW awaits, Plain(awaits)
  PROVE  ForeignScript(OneChild(calls, awaits))
<1> DEFINE S == {fork(1, calls, Return), awaits, exit(0)}
           all == OneChild(calls, awaits)
<1>1. all \in Seq(S) /\ all # <<>> /\ all[Len(all)] = exit(0)
  BY DEF OneChild
<1>2. \A c \in S : ForeignCall(c)
  BY ForkOnes, ForeignOnes DEF ForeignCall, ChildCall
<1> HIDE DEF S, all
<1>3. ForeignScript(all)
  BY <1>1, <1>2, ScriptWritten
<1> QED
  BY <1>3 DEF all

LEMMA EcsAreForeign ==
  ForeignScript(Ec1) /\ ForeignScript(Ec2) /\ ForeignScript(Ec3) /\ ForeignScript(Ec4)
<1>1. ASSUME NEW code PROVE ChildScript(<<exit(code)>>)
  <2> DEFINE all == <<exit(code)>>
             S == {exit(code)}
  <2>1. all \in Seq(S) /\ all # <<>> /\ all[Len(all)] = exit(code)
    OBVIOUS
  <2>2. \A c \in S : ChildCall(c)
    BY ChildOnes
  <2> HIDE DEF S, all
  <2>3. ChildScript(all)
    BY <2>1, <2>2, ChildWritten
  <2> QED
    BY <2>3 DEF all
<1>2. ChildScript(<<execvp(1), exit(0)>>)
  <2> DEFINE all == <<execvp(1), exit(0)>>
             S == {execvp(1), exit(0)}
  <2>1. all \in Seq(S) /\ all # <<>> /\ all[Len(all)] = exit(0)
    OBVIOUS
  <2>2. \A c \in S : ChildCall(c)
    BY ChildOnes
  <2> HIDE DEF S, all
  <2>3. ChildScript(all)
    BY <2>1, <2>2, ChildWritten
  <2> QED
    BY <2>3 DEF all
<1> QED
  BY <1>1, <1>2, PlainOnes, OneChildIsForeign DEF Ec1, Ec2, Ec3, Ec4

\* The pipeline of filters
LEMMA PipelineIsForeign == ForeignScript(Pipeline)
<1> DEFINE ps == spawn(1, {}, {P(1)}, List(P(1)))
           sort == spawn(2, {P(1)}, {P(2)}, <<filter(P(1), {P(2)}, TRUE)>>)
           uniq == spawn(3, {P(2)}, {P(3)}, <<filter(P(2), {P(3)}, FALSE)>>)
           last == spawn(4, {P(3)}, {}, <<filter(P(3), {}, TRUE)>>)
           S == {pipe(P(1), <<>>), pipe(P(2), <<>>), pipe(P(3), <<>>), ps, sort, uniq, last,
                 close({W(P(1))}), close({R(P(1))}), close({W(P(2))}), close({R(P(2))}),
                 close({W(P(3))}), close({R(P(3))}), waitpid(1, FALSE), waitpid(2, FALSE),
                 waitpid(3, FALSE), waitpid(4, FALSE), exit(0)}
<1>1. 1 \in 1 .. 3 /\ 2 \in 1 .. 3 /\ 3 \in 1 .. 3
  OBVIOUS
<1>2. ForeignCall(ps)
  <2> DEFINE C == {write(P(1), k) : k \in 1 .. Lines}
  <2>1. List(P(1)) \in Seq(C)
    BY LinesAssumption DEF List
  <2>2. \A c \in C : ChildCall(c)
    BY <1>1, ChildOnes, Zenon
  <2> QED
    BY <2>1, <2>2, SpawnIsForeign
<1>3. ASSUME NEW k \in 1 .. 3, NEW out, out \subseteq ExercisePipes, NEW atEnd \in BOOLEAN,
             NEW child, NEW from, NEW to
      PROVE  ForeignCall(spawn(child, from, to, <<filter(P(k), out, atEnd)>>))
  <2> DEFINE f == filter(P(k), out, atEnd)
  <2>1. ChildCall(f)
    BY ExerciseOnes, <1>3, Zenon
  <2> HIDE DEF f
  <2> DEFINE calls == <<f>>
             C == {f}
  <2>2. calls \in Seq(C) /\ \A c \in C : ChildCall(c)
    BY <2>1
  <2> HIDE DEF calls, C
  <2>3. ForeignCall(spawn(child, from, to, calls))
    BY <2>2, SpawnIsForeign
  <2> QED
    BY <2>3 DEF calls, f
<1>4. {P(2)} \subseteq ExercisePipes /\ {P(3)} \subseteq ExercisePipes /\ {} \subseteq ExercisePipes
  BY DEF ExercisePipes
<1>5. ForeignCall(sort) /\ ForeignCall(uniq) /\ ForeignCall(last)
  BY <1>1, <1>3, <1>4, Zenon
<1>6. Pipeline \in Seq(S) /\ Pipeline # <<>> /\ Pipeline[Len(Pipeline)] = exit(0)
  BY DEF Pipeline
<1> HIDE DEF ps, sort, uniq, last
<1>7. \A c \in S : ForeignCall(c)
  BY <1>1, <1>2, <1>5, ForeignOnes, ExerciseOnes, Zenon
<1> HIDE DEF S
<1> QED
  BY <1>6, <1>7, ScriptWritten

\* The shell, before a line and within a command
LEMMA GetlineIsForeign ==
  ASSUME NEW lines PROVE ForeignScript(<<getline(lines)>>)
  BY SingleIsSeq DEF ForeignScript, EndsIn, ForeignCall, getline

\* A command of the shell, and the shell after it.
LEMMA CommandIsForeign ==
  ASSUME NEW line, NEW rest, ForeignScript(rest)
  PROVE  ForeignScript(Command(line) \o rest)
<1> DEFINE calls == IF line = "blank" THEN <<exit(SIGSEGV)>> ELSE <<execvp(1), exit(0)>>
           C == {exit(SIGSEGV), execvp(1), exit(0)}
           S == {fork(1, calls, <<>>), waitpid(1, FALSE)}
           first == Command(line)
<1>1. calls \in Seq(C) /\ calls # <<>>
      /\ (calls[Len(calls)] = exit(SIGSEGV) \/ calls[Len(calls)] = exit(0))
  <2>1. CASE line = "blank"
    BY <2>1
  <2>2. CASE line # "blank"
    BY <2>2
  <2> QED
    BY <2>1, <2>2
<1>2. \A c \in C : ChildCall(c)
  BY ChildOnes, Zenon
<1>3. first \in Seq(S)
  BY DEF Command
<1> HIDE DEF calls, C
<1>4. ChildScript(calls)
  BY <1>1, <1>2, ChildWritten
<1>5. \A c \in S : ForeignCall(c)
  BY <1>4, ForkOnes, ForeignOnes, Zenon
<1> HIDE DEF S, first
<1>6. IsSeq(first) /\ \A c \in Elements(first) : ForeignCall(c)
  BY <1>3, <1>5, SeqOf
<1>7. IsSeq(rest) /\ rest # <<>>
  BY DEF ForeignScript, EndsIn
<1>8. ForeignScript(first \o rest)
  BY <1>6, <1>7, ConcatIsSeq DEF ForeignScript, EndsIn
<1> QED
  BY <1>8 DEF first

\* Every program but the server and the client is foreign to sockets.
LEMMA ProgramsAreForeign ==
  ASSUME NEW i, NEW name \in Programs, name \notin SocketPrograms
  PROVE  ForeignScript(Script(i, name))
<1> USE PingIsForeign, PingPongIsForeign, ListGrepIsForeign, PipelineIsForeign, EcsAreForeign,
        Ec5IsForeign, PosixIsForeign, SysVIsForeign, HelloSysVIsForeign DEF Script
<1>1. CASE name = "Ping" BY <1>1
<1>2. CASE name = "PingPong" BY <1>2
<1>3. CASE name = "ListGrep" BY <1>3
<1>4. CASE name = "Pipeline" BY <1>4
<1>5. CASE name = "Ec1" BY <1>5
<1>6. CASE name = "Ec2" BY <1>6
<1>7. CASE name = "Ec3" BY <1>7
<1>8. CASE name = "Ec4" BY <1>8
<1>9. CASE name = "Ec5" BY <1>9
<1>10. CASE name = "Posix" BY <1>10
<1>11. CASE name = "SysV" BY <1>11
<1>12. CASE name = "HelloSysV" BY <1>12
<1> QED
  BY <1>1, <1>2, <1>3, <1>4, <1>5, <1>6, <1>7, <1>8, <1>9, <1>10, <1>11, <1>12
     DEF Programs, SocketPrograms

------------------------------------------------------------
\* A stranger that runs is foreign.
LEMMA StrangerIsForeign ==
  ASSUME Shape, Others, NEW p \in Strangers, state[p] = "running"
  PROVE  Foreign(p)
<1>1. ~Socketed(p) /\ ForeignScript(todo[p])
  BY DEF Others, Strangers
<1>2. ASSUME NEW y \in Procs, y[1] = p[1], state[y] = "running"
      PROVE  ForeignScript(todo[y])
  <2>1. y \in Strangers
    BY <1>1, <1>2 DEF Strangers, Serving, Asking, MainProcs, Socketed, SocketPrograms, Runs
  <2> QED
    BY <1>2, <2>1 DEF Others, Strangers
<1> QED
  BY <1>1, <1>2 DEF Foreign, Strangers

\* A step that goes on with a foreign script, and one that ends the process
LEMMA ContinueGoes ==
  ASSUME NEW p, Foreign(p), NEW s, ForeignScript(s), Continue(p, s),
         UNCHANGED <<state, status>>, DOMAIN fds' = Procs, DOMAIN got' = Procs,
         \A y \in Procs \ {p} : fds'[y] = fds[y] /\ got'[y] = got[y],
         IsSeq(got'[p])
  PROVE  Goes(p)
  BY DEF Goes, Foreign, Continue, SameAt, Shape, Domains

LEMMA EndsGoes ==
  ASSUME NEW p, Foreign(p), NEW how, Ends(p, how), UNCHANGED got
  PROVE  Goes(p)
<1>1. \A y \in Procs : y[1] # p[1] => y # p /\ y \notin Children(p)
  BY DEF Children
<1>2. \A y \in Procs : state'[y] = "running" => y # p /\ state[y] = "running"
  BY DEF Ends
<1>3. DOMAIN state' = Procs
  BY DEF Ends
<1>4. \A y \in Procs : y # p => todo'[y] = todo[y] /\ status'[y] = status[y] /\ fds'[y] = fds[y]
  BY DEF Ends, Foreign, Shape, Domains
<1>5. \A y \in Procs : y # p /\ y \notin Children(p) => state'[y] = state[y]
  BY DEF Ends
<1>6. DOMAIN todo' = Procs /\ DOMAIN status' = Procs /\ DOMAIN fds' = Procs
  BY DEF Ends, Foreign, Shape, Domains
<1> QED
  BY <1>1, <1>2, <1>3, <1>4, <1>5, <1>6 DEF Goes, Foreign, SameAt, Shape, Domains

\* Nothing is said elsewhere.
LEMMA ElsewhereSame ==
  ASSUME Shape, UNCHANGED <<program, backlog, linked, content>>,
         failures' \in Nat, failures' >= failures, kills' \in Nat, kills' >= kills
  PROVE  Elsewhere
  BY DEF Elsewhere, Shape, Domains

\* A fork of a stranger makes a stranger.
LEMMA ForkGoes ==
  ASSUME NEW p, Foreign(p), Fork(p) PROVE Goes(p)
<1> DEFINE child == <<p[1], Call(p).child>>
<1>1. ForeignCall(Head(todo[p])) /\ Call(p).call = "fork"
  BY RestIsScript DEF Foreign, Fork, Calls, Call
<1>2. ChildScript(Call(p).calls) /\ Fallback(Call(p).failed)
  BY <1>1 DEF ForeignCall, ChildCall, Plain, Call
<1>3. ForeignScript(Tail(todo[p])) /\ ForeignScript(Call(p).calls)
  BY <1>1, <1>2, RestIsScript, ChildScriptIsForeign DEF Foreign, Call
<1>4. CASE /\ todo' = [todo EXCEPT ![p] = Tail(@), ![child] = Call(p).calls]
           /\ state' = [state EXCEPT ![child] = "running"]
           /\ fds' = [fds EXCEPT ![child] = fds[p]]
  <2>1. child[1] = p[1]
    OBVIOUS
  <2>2. UNCHANGED <<status, got>>
    BY DEF Fork
  <2> HIDE DEF child
  <2>3. DOMAIN todo' = Procs /\ DOMAIN state' = Procs /\ DOMAIN fds' = Procs
    BY <1>4 DEF Foreign, Shape, Domains
  <2>4. \A y \in Procs : y # p /\ y # child =>
          todo'[y] = todo[y] /\ state'[y] = state[y] /\ fds'[y] = fds[y]
    BY <1>4 DEF Foreign, Shape, Domains
  <2>5. child \in Procs => todo'[child] = Call(p).calls
    BY <1>4 DEF Foreign, Shape, Domains
  <2>6. child # p => todo'[p] = Tail(todo[p])
    BY <1>4 DEF Foreign, Shape, Domains
  <2> QED
    BY <1>3, <2>1, <2>2, <2>3, <2>4, <2>5, <2>6 DEF Goes, Foreign, SameAt, Shape, Domains
<1>5. CASE Continue(p, FailedOr(Call(p).failed, Tail(todo[p]))) /\ UNCHANGED <<state, fds>>
  <2>1. ForeignScript(FailedOr(Call(p).failed, Tail(todo[p])))
    BY <1>2, <1>3, FallbackIsForeign DEF FailedOr
  <2> QED
    BY <1>5, <2>1, ContinueGoes DEF Fork, Foreign, Shape, Domains
<1> QED
  BY <1>4, <1>5 DEF Fork

------------------------------------------------------------
\* A stranger's next call, and what it leaves
LEMMA NextCall ==
  ASSUME NEW p, Foreign(p), NEW call, Calls(p, call)
  PROVE  /\ Call(p).call = call /\ ForeignCall(Call(p))
         /\ call \notin {"exit", "getline"} => ForeignScript(Tail(todo[p]))
  BY RestIsScript DEF Foreign, Calls, Call

\* A step that goes on with the next call
LEMMA ProceedGoes ==
  ASSUME NEW p, Foreign(p), NEW call, Calls(p, call), call \notin {"exit", "getline"}, Proceed(p),
         UNCHANGED <<state, status>>, DOMAIN fds' = Procs, DOMAIN got' = Procs,
         \A y \in Procs \ {p} : fds'[y] = fds[y] /\ got'[y] = got[y],
         IsSeq(got'[p])
  PROVE  Goes(p)
<1>1. ForeignScript(Tail(todo[p]))
  BY NextCall
<1> QED
  BY <1>1, ContinueGoes DEF Proceed

\* The pipes of the exercises are not those of a connection.
LEMMA OtherPipes ==
  ASSUME NEW n \in ExercisePipes
  PROVE  n \in Pipe /\ \A x : Up(x) # n /\ Down(x) # n
<1>1. PICK k \in 1 .. 3 : n = <<"pipe", k>>
  BY DEF ExercisePipes, P
<1>2. \A x : Up(x)[1] = "up" /\ Down(x)[1] = "down" /\ n[1] = "pipe"
  BY <1>1 DEF Up, Down
<1> QED
  BY <1>2, CompanyAssumption DEF ExercisePipes

\* A pipe of an exercise changes.
LEMMA ElsewherePiped ==
  ASSUME Shape, UNCHANGED <<program, backlog, linked, failures, kills>>,
         NEW n \in ExercisePipes, NEW s, IsSeq(s), content' = [content EXCEPT ![n] = s]
  PROVE  Elsewhere
<1>1. n \in Pipe /\ \A x : Up(x) # n /\ Down(x) # n
  BY OtherPipes
<1>2. \A x \in Procs : Up(x) \in Pipe /\ Down(x) \in Pipe
  BY CompanyAssumption
<1>3. DOMAIN content' = Pipe /\ content'[n] = s /\ \A m \in Pipe \ {n} : content'[m] = content[m]
  BY <1>1 DEF Shape, Domains
<1> QED
  BY <1>1, <1>2, <1>3 DEF Elsewhere, Shape, Domains

LEMMA ElsewhereNamed ==
  ASSUME Shape, UNCHANGED <<program, backlog, content, kills>>,
         failures' \in Nat, failures' >= failures,
         NEW name, name # SOCKET_PATH, NEW to, linked' = [linked EXCEPT ![name] = to]
  PROVE  Elsewhere
  BY CompanyAssumption DEF Elsewhere, Shape, Domains

\* What a filter writes of the lines it has read
LEMMA WritesPlain ==
  ASSUME NEW out, out \subseteq ExercisePipes, NEW lines, IsSeq(lines)
  PROVE  PlainCalls(Writes(out, lines))
<1>1. CASE out = {}
  BY <1>1, EmptyIsSeq DEF Writes, PlainCalls
<1>2. CASE out # {}
  <2> DEFINE n == CHOOSE m \in out : TRUE
             S == {write(n, m) : m \in Elements(lines)}
  <2>1. n \in ExercisePipes
    BY <1>2
  <2>2. Len(lines) \in Nat /\ DOMAIN lines = 1 .. Len(lines)
    BY LenProperties DEF IsSeq
  <2>3. Writes(out, lines) = [k \in 1 .. Len(lines) |-> write(n, lines[k])]
    BY <1>2, <2>2 DEF Writes
  <2> HIDE DEF n
  <2>4. Writes(out, lines) \in [1 .. Len(lines) -> S]
    BY <2>2, <2>3 DEF Elements
  <2>5. Writes(out, lines) \in Seq(S)
    BY <2>2, <2>4, SeqDef
  <2>6. \A c \in S : Plain(c)
    BY <2>1 DEF Plain, write
  <2> HIDE DEF S
  <2> QED
    BY <2>5, <2>6, PlainWritten
<1> QED
  BY <1>1, <1>2

------------------------------------------------------------
\* Each kind of step of a stranger
LEMMA ProcessStepForeign ==
  ASSUME NEW p, Foreign(p), ProcessStep(p) \/ Getline(p) \/ Kill(p),
         UNCHANGED <<program, content, backlog>>
  PROVE  Goes(p) /\ Elsewhere
<1>0. Shape /\ p \in Procs /\ failures \in Nat /\ kills \in Nat
      /\ IsSeq(got[p]) /\ DOMAIN fds = Procs /\ DOMAIN got = Procs
  BY DEF Foreign, Shape, Domains
<1>1. CASE Fork(p)
  BY <1>0, <1>1, ForkGoes, ElsewhereSame DEF Fork, CallFails
<1>2. CASE Exec(p)
  <2>1. UNCHANGED <<got, linked, kills>>
    BY <1>2 DEF Exec
  <2>2. CASE Proceed(p) /\ UNCHANGED <<state, status, fds, failures>>
    BY <1>0, <1>2, <2>1, <2>2, ProceedGoes, ElsewhereSame DEF Exec
  <2>3. CASE CallFails /\ Ends(p, Call(p).failed)
    BY <1>0, <2>1, <2>3, EndsGoes, ElsewhereSame DEF CallFails
  <2> QED
    BY <1>2, <2>2, <2>3 DEF Exec
<1>3. CASE Exit(p)
  BY <1>0, <1>3, EndsGoes, ElsewhereSame DEF Exit
<1>4. CASE Close(p)
  <2>1. DOMAIN fds' = Procs /\ \A y \in Procs \ {p} : fds'[y] = fds[y]
    BY <1>0, <1>4 DEF Close
  <2> QED
    BY <1>0, <1>4, <2>1, ProceedGoes, ElsewhereSame DEF Close
<1>5. CASE Waitpid(p)
  <2>1. ForeignScript(Tail(todo[p]))
    BY <1>5, NextCall DEF Waitpid
  <2>2. DOMAIN todo' = Procs /\ todo'[p] = Tail(todo[p]) /\ \A y \in Procs \ {p} : todo'[y] = todo[y]
    BY <1>0, <1>5 DEF Waitpid, Proceed, Continue, Shape, Domains
  <2>3. /\ DOMAIN state' = Procs
        /\ \A y \in Procs : y[1] # p[1] => state'[y] = state[y]
        /\ \A y \in Procs : state'[y] = "running" => state[y] = "running"
    <3>1. CASE UNCHANGED state
      BY <1>0, <3>1 DEF Shape, Domains
    <3>2. CASE \E child \in Awaited(p) : state' = [state EXCEPT ![child] = "gone"]
      <4>1. PICK child \in Awaited(p) : state' = [state EXCEPT ![child] = "gone"]
        BY <3>2
      <4>2. child[1] = p[1]
        BY DEF Awaited, Children
      <4> QED
        BY <1>0, <4>1, <4>2 DEF Shape, Domains
    <3> QED
      BY <1>5, <3>1, <3>2 DEF Waitpid
  <2>4. UNCHANGED <<status, fds, got, linked, failures, kills>>
    BY <1>5 DEF Waitpid
  <2>5. Goes(p)
    BY <1>0, <2>1, <2>2, <2>3, <2>4 DEF Goes, Foreign, SameAt, Shape, Domains
  <2> QED
    BY <1>0, <2>4, <2>5, ElsewhereSame
<1>6. CASE Unlink(p)
  <2>1. Call(p).name # SOCKET_PATH
    BY <1>6, NextCall DEF Unlink, ForeignCall, ChildCall, Plain
  <2>2. Goes(p)
    BY <1>0, <1>6, ProceedGoes DEF Unlink
  <2>3. linked' = [linked EXCEPT ![Call(p).name] = Nobody] /\ UNCHANGED <<failures, kills>>
    BY <1>6 DEF Unlink
  <2>4. failures' \in Nat /\ failures' >= failures
    BY <1>0, <2>3
  <2>5. Elsewhere
    BY <1>0, <2>1, <2>3, <2>4, ElsewhereNamed
  <2> QED
    BY <2>2, <2>5
<1>7. CASE Getline(p)
  <2> DEFINE lines == Call(p).lines
             rest == <<getline(IF lines = AtEof THEN AtEof ELSE Tail(lines))>>
  <2>1. UNCHANGED <<state, status, fds, got, linked, reports, failures, kills>>
    BY <1>7 DEF Getline
  <2>2. ForeignScript(rest) /\ ForeignScript(Return) /\ ForeignScript(Command(Head(lines)) \o rest)
    <3>1. ForeignScript(rest)
      BY GetlineIsForeign
    <3> HIDE DEF rest
    <3>2. ForeignScript(Return)
      BY FallbackWritten, FallbackIsForeign DEF Return
    <3> QED
      BY <3>1, <3>2, CommandIsForeign
  <2>3. \/ UNCHANGED todo \/ Continue(p, rest) \/ Continue(p, Return)
        \/ Continue(p, Command(Head(lines)) \o rest)
    BY <1>7 DEF Getline
  <2> HIDE DEF rest, lines
  <2>4. Goes(p)
    <3>1. CASE UNCHANGED todo
      BY <1>0, <2>1, <3>1 DEF Goes, Foreign, SameAt, Shape, Domains
    <3> QED
      BY <1>0, <2>1, <2>2, <2>3, <3>1, ContinueGoes
  <2> QED
    BY <1>0, <2>1, <2>4, ElsewhereSame
<1>8. CASE Kill(p)
  <2>1. Goes(p)
    BY <1>8, EndsGoes DEF Kill
  <2> QED
    BY <1>0, <1>8, <2>1, ElsewhereSame DEF Kill
<1> QED
  BY <1>1, <1>2, <1>3, <1>4, <1>5, <1>6, <1>7, <1>8 DEF ProcessStep

LEMMA PipeStepForeign ==
  ASSUME NEW p, Foreign(p), PipeStep(p), UNCHANGED <<program, backlog>>
  PROVE  Goes(p) /\ Elsewhere
<1>0. Shape /\ p \in Procs /\ failures \in Nat /\ kills \in Nat
      /\ IsSeq(got[p]) /\ DOMAIN fds = Procs /\ DOMAIN got = Procs
      /\ \A n \in Pipe : IsSeq(content[n])
  BY DEF Foreign, Shape, Domains
<1>1. CASE MakePipe(p)
  <2>1. UNCHANGED <<state, status, got, linked, kills, content>>
    BY <1>1 DEF MakePipe
  <2>2. CASE Proceed(p) /\ UNCHANGED failures
             /\ fds' = [fds EXCEPT ![p] = @ \cup {R(Call(p).pipe), W(Call(p).pipe)}]
    <3>1. DOMAIN fds' = Procs /\ \A y \in Procs \ {p} : fds'[y] = fds[y]
      BY <1>0, <2>2
    <3>2. Goes(p)
      BY <1>0, <1>1, <2>1, <2>2, <3>1, ProceedGoes DEF MakePipe
    <3> QED
      BY <1>0, <2>1, <2>2, <3>2, ElsewhereSame
  <2>3. CASE Call(p).failed # <<>> /\ CallFails /\ Continue(p, Call(p).failed) /\ UNCHANGED fds
    <3>1. Fallback(Call(p).failed)
      BY <1>1, NextCall DEF MakePipe, ForeignCall, ChildCall, Plain
    <3>2. Goes(p)
      BY <1>0, <2>1, <2>3, <3>1, FallbackIsForeign, ContinueGoes
    <3> QED
      BY <1>0, <2>1, <2>3, <3>2, ElsewhereSame DEF CallFails
  <2> QED
    BY <1>1, <2>2, <2>3 DEF MakePipe
<1>2. CASE Write(p)
  <2> DEFINE n == Call(p).pipe
  <2>1. UNCHANGED <<got, linked, failures, kills>>
    BY <1>2 DEF Write
  <2>2. n \in ExercisePipes
    BY <1>2, NextCall DEF Write, ForeignCall, ChildCall, Plain
  <2>3. Call(p).call = "write" /\ Calls(p, "write")
    BY <1>2, NextCall DEF Write
  <2>4. CASE Proceed(p) /\ UNCHANGED <<state, status, fds, content>>
    BY <1>0, <2>1, <2>3, <2>4, ProceedGoes, ElsewhereSame
  <2>5. CASE Ends(p, SIGPIPE) /\ UNCHANGED content
    BY <1>0, <2>1, <2>5, EndsGoes, ElsewhereSame
  <2>6. CASE /\ content' = [content EXCEPT ![n] = Append(@, Call(p).message)]
             /\ Proceed(p) /\ UNCHANGED <<state, status, fds>>
    <3>1. Goes(p)
      BY <1>0, <2>1, <2>3, <2>6, ProceedGoes
    <3>2. IsSeq(Append(content[n], Call(p).message))
      BY <1>0, <2>2, OtherPipes, AppendIsSeq
    <3>3. content' = [content EXCEPT ![n] = Append(content[n], Call(p).message)]
      BY <2>6
    <3> HIDE DEF n
    <3>4. Elsewhere
      BY <1>0, <2>1, <2>2, <3>2, <3>3, ElsewherePiped
    <3> QED
      BY <3>1, <3>4
  <2> QED
    BY <1>2, <2>4, <2>5, <2>6 DEF Write
<1>3. CASE Read(p)
  <2> DEFINE n == Call(p).pipe
  <2>1. UNCHANGED <<state, status, fds, linked, reports, failures, kills>>
    BY <1>3 DEF Read
  <2>2. n \in ExercisePipes /\ PlainCalls(Call(p).then) /\ Calls(p, "read")
    BY <1>3, NextCall DEF Read, ForeignCall, ChildCall, Plain
  <2>3. CASE Proceed(p) /\ UNCHANGED <<got, content>>
    BY <1>0, <2>1, <2>2, <2>3, ProceedGoes, ElsewhereSame
  <2>4. CASE /\ got' = [got EXCEPT ![p] = @ \o content[n]]
             /\ content' = [content EXCEPT ![n] = <<>>]
             /\ Continue(p, Call(p).then \o Tail(todo[p]))
    <3>1. ForeignScript(Call(p).then \o Tail(todo[p]))
      BY <2>2, NextCall, PutBefore
    <3>2. IsSeq(got[p] \o content[n])
      BY <1>0, <2>2, OtherPipes, ConcatIsSeq
    <3>3. DOMAIN got' = Procs /\ got'[p] = got[p] \o content[n]
          /\ \A y \in Procs \ {p} : got'[y] = got[y]
      BY <1>0, <2>4
    <3>4. content' = [content EXCEPT ![n] = <<>>]
      BY <2>4
    <3>5. Continue(p, Call(p).then \o Tail(todo[p]))
      BY <2>4
    <3> HIDE DEF n
    <3>6. Elsewhere
      BY <1>0, <2>1, <2>2, <3>4, EmptyIsSeq, ElsewherePiped
    <3>7. Goes(p)
      BY <1>0, <2>1, <3>1, <3>2, <3>3, <3>5, ContinueGoes
    <3> QED
      BY <3>6, <3>7
  <2> QED
    BY <1>3, <2>3, <2>4 DEF Read
<1>4. CASE Filter(p)
  <2> DEFINE f == Call(p)
             n == f.pipe
             line == <<Head(content[n])>>
  <2>1. UNCHANGED <<state, status, fds, linked, reports, failures, kills>>
    BY <1>4 DEF Filter
  <2>2. n \in ExercisePipes /\ f.out \subseteq ExercisePipes /\ Calls(p, "filter")
    BY <1>4, NextCall DEF Filter, ForeignCall, ChildCall, Plain
  <2>3. \A lines : IsSeq(lines) => PlainCalls(Writes(f.out, lines))
    BY <2>2, WritesPlain
  <2>4. ForeignScript(Tail(todo[p])) /\ ForeignScript(todo[p])
    BY <2>2, NextCall DEF Foreign
  <2>5. CASE /\ Continue(p, (IF f.atEnd THEN Writes(f.out, got[p]) ELSE <<>>) \o Tail(todo[p]))
             /\ UNCHANGED <<got, content>>
    <3> DEFINE s == IF f.atEnd THEN Writes(f.out, got[p]) ELSE <<>>
    <3>1. PlainCalls(s)
      BY <1>0, <2>3, ExerciseOnes
    <3>2. Continue(p, s \o Tail(todo[p]))
      BY <2>5
    <3> HIDE DEF s
    <3>3. Goes(p)
      BY <1>0, <2>1, <2>4, <2>5, <3>1, <3>2, PutBefore, ContinueGoes
    <3> QED
      BY <1>0, <2>1, <2>5, <3>3, ElsewhereSame
  <2>6. CASE /\ content[n] # <<>>
             /\ got' = [got EXCEPT ![p] = @ \o line]
             /\ Continue(p, (IF f.atEnd THEN <<>> ELSE Writes(f.out, line)) \o todo[p])
             /\ content' = [content EXCEPT ![n] = Tail(@)]
    <3> DEFINE s == IF f.atEnd THEN <<>> ELSE Writes(f.out, line)
    <3>1. IsSeq(line) /\ IsSeq(content[n]) /\ content[n] # <<>>
      BY <1>0, <2>2, <2>6, SingleIsSeq, OtherPipes
    <3> HIDE DEF line
    <3>2. PlainCalls(s)
      BY <2>3, <3>1, ExerciseOnes
    <3>3. Continue(p, s \o todo[p]) /\ content' = [content EXCEPT ![n] = Tail(content[n])]
      BY <2>6
    <3>4. DOMAIN got' = Procs /\ got'[p] = got[p] \o line
          /\ \A y \in Procs \ {p} : got'[y] = got[y]
      BY <1>0, <2>6
    <3>5. IsSeq(got[p] \o line) /\ IsSeq(Tail(content[n]))
      BY <1>0, <3>1, ConcatIsSeq, TailIsSeq
    <3> HIDE DEF s, n
    <3>6. Goes(p)
      BY <1>0, <2>1, <2>4, <3>2, <3>3, <3>4, <3>5, PutBefore, ContinueGoes
    <3>7. Elsewhere
      BY <1>0, <2>1, <2>2, <3>3, <3>5, ElsewherePiped
    <3> QED
      BY <3>6, <3>7
  <2> QED
    BY <1>4, <2>5, <2>6 DEF Filter
<1> QED
  BY <1>1, <1>2, <1>3, <1>4 DEF PipeStep

\* ... also of queues
LEMMA QueueStepForeign ==
  ASSUME NEW p, Foreign(p), QueueStep(p), UNCHANGED <<program, backlog, content>>
  PROVE  Goes(p) /\ Elsewhere
<1>0. Shape /\ p \in Procs /\ failures \in Nat /\ kills \in Nat
      /\ IsSeq(got[p]) /\ DOMAIN fds = Procs /\ DOMAIN got = Procs
  BY DEF Foreign, Shape, Domains
<1>1. CASE OpenQueue(p)
  <2> DEFINE name == Call(p).name
  <2>1. UNCHANGED <<state, status, got, kills>> /\ Calls(p, "open")
    BY <1>1 DEF OpenQueue
  <2>2. name # SOCKET_PATH /\ Fallback(Call(p).failed)
    BY <2>1, NextCall DEF ForeignCall, ChildCall, Plain
  <2>3. CASE Proceed(p) /\ fds' = [fds EXCEPT ![p] = {linked[name]}] /\ UNCHANGED <<linked, failures>>
    <3>1. DOMAIN fds' = Procs /\ \A y \in Procs \ {p} : fds'[y] = fds[y]
      BY <1>0, <2>3
    <3>2. Goes(p)
      BY <1>0, <2>1, <2>3, <3>1, ProceedGoes
    <3> QED
      BY <1>0, <2>1, <2>3, <3>2, ElsewhereSame
  <2>4. CASE /\ Proceed(p)
             /\ linked' = [linked EXCEPT ![name] = queues']
             /\ fds' = [fds EXCEPT ![p] = {queues'}]
             /\ UNCHANGED failures
    <3>1. DOMAIN fds' = Procs /\ \A y \in Procs \ {p} : fds'[y] = fds[y]
      BY <1>0, <2>4
    <3>2. Goes(p)
      BY <1>0, <2>1, <2>4, <3>1, ProceedGoes
    <3>3. linked' = [linked EXCEPT ![name] = queues'] /\ failures' \in Nat /\ failures' >= failures
      BY <1>0, <2>4
    <3> HIDE DEF name
    <3>4. Elsewhere
      BY <1>0, <2>1, <2>2, <3>3, ElsewhereNamed
    <3> QED
      BY <3>2, <3>4
  <2>5. CASE /\ Call(p).failed # <<>>
             /\ CallFails /\ Continue(p, Call(p).failed)
             /\ UNCHANGED <<fds, linked, queues>>
    <3>1. Goes(p)
      BY <1>0, <2>1, <2>2, <2>5, FallbackIsForeign, ContinueGoes
    <3> QED
      BY <1>0, <2>1, <2>5, <3>1, ElsewhereSame DEF CallFails
  <2> QED
    BY <1>1, <2>3, <2>4, <2>5 DEF OpenQueue
<1>2. CASE Send(p)
  BY <1>0, <1>2, ProceedGoes, ElsewhereSame DEF Send
<1>3. CASE Fetch(p)
  <2>1. UNCHANGED <<state, status, fds, linked, failures, kills>> /\ Proceed(p) /\ Calls(p, "fetch")
    BY <1>3 DEF Fetch
  <2>2. PICK m : got' = [got EXCEPT ![p] = <<m>>]
    BY <1>3 DEF Fetch
  <2>3. DOMAIN got' = Procs /\ got'[p] = <<m>> /\ \A y \in Procs \ {p} : got'[y] = got[y]
    BY <1>0, <2>2
  <2>4. Goes(p)
    BY <1>0, <2>1, <2>3, SingleIsSeq, ProceedGoes
  <2> QED
    BY <1>0, <2>1, <2>4, ElsewhereSame
<1>4. CASE Remove(p)
  <2> DEFINE name == Call(p).name
  <2>1. UNCHANGED <<state, status, fds, got, failures, kills>> /\ Calls(p, "rmid") /\ Proceed(p)
    BY <1>4 DEF Remove
  <2>2. name # SOCKET_PATH
    BY <2>1, NextCall DEF ForeignCall, ChildCall, Plain
  <2>3. PICK to : linked' = [linked EXCEPT ![name] = to]
    BY <1>4 DEF Remove
  <2> HIDE DEF name
  <2>4. failures' \in Nat /\ failures' >= failures
    BY <1>0, <2>1
  <2>5. Elsewhere
    BY <1>0, <2>1, <2>2, <2>3, <2>4, ElsewhereNamed
  <2> QED
    BY <1>0, <2>1, <2>5, ProceedGoes
<1> QED
  BY <1>1, <1>2, <1>3, <1>4 DEF QueueStep

\* No stranger makes a call of the sockets.
LEMMA NoSocketStep ==
  ASSUME NEW p, Foreign(p) PROVE ~SocketStep(p)
<1>1. ASSUME NEW call \in {"bind", "listen", "connect", "accept", "closeAll"}, Calls(p, call)
      PROVE  FALSE
  <2>1. Call(p).call = call /\ ForeignCall(Call(p))
    BY <1>1, NextCall
  <2> QED
    BY <2>1 DEF ForeignCall, ChildCall, Plain
<1> QED
  BY <1>1 DEF SocketStep, Bind, Listen, Connect, Accept, CloseAll

\* Only what runs takes a step.
LEMMA StrangerRuns ==
  ASSUME NEW p \in Procs, Step(p) \/ Signal(p)
  PROVE  state[p] = "running"
  BY DEF Step, Signal, ProcessStep, Getline, PipeStep, QueueStep, SocketStep, Fork, Exec, Exit,
         Close, Waitpid, Unlink, Kill, MakePipe, Write, Read, Filter, OpenQueue, Send, Fetch,
         Remove, Bind, Listen, Connect, Accept, CloseAll, Calls

\* A step of a stranger, whatever it calls
LEMMA StrangerStep ==
  ASSUME Shape, Others, NEW p \in Strangers, Step(p) \/ Signal(p)
  PROVE  Goes(p) /\ Elsewhere /\ ~Socketed(p)
<1>1. Foreign(p)
  BY StrangerRuns, StrangerIsForeign DEF Strangers
<1>2. ~Socketed(p)
  BY <1>1 DEF Foreign
<1>3. CASE Signal(p)
  BY <1>1, <1>2, <1>3, ProcessStepForeign DEF Signal
<1>4. CASE Step(p)
  <2>1. CASE (ProcessStep(p) \/ Getline(p)) /\ UNCHANGED <<content, queues, messages, removed, backlog>>
    BY <1>1, <1>2, <1>4, <2>1, ProcessStepForeign DEF Step
  <2>2. CASE PipeStep(p) /\ UNCHANGED <<queues, messages, removed, backlog>>
    BY <1>1, <1>2, <1>4, <2>2, PipeStepForeign DEF Step
  <2>3. CASE QueueStep(p) /\ UNCHANGED <<content, backlog>>
    BY <1>1, <1>2, <1>4, <2>3, QueueStepForeign DEF Step
  <2>4. ~SocketStep(p)
    BY <1>1, NoSocketStep
  <2> QED
    BY <1>4, <2>1, <2>2, <2>3, <2>4 DEF Step
<1> QED
  BY <1>3, <1>4

\* What the step of a stranger leaves as it is.
LEMMA StrangerKeeps ==
  ASSUME Shape, Others, NEW p \in Strangers, Step(p) \/ Signal(p)
  PROVE  /\ Shape' /\ Others'
         /\ UNCHANGED <<program, backlog>> /\ linked'[SOCKET_PATH] = linked[SOCKET_PATH]
         /\ Undisturbed' => Undisturbed
         /\ \A y \in Serving \cup Asking :
              SameAt(y) /\ content'[Up(y)] = content[Up(y)] /\ content'[Down(y)] = content[Down(y)]
<1>1. Goes(p) /\ Elsewhere /\ ~Socketed(p)
  BY StrangerStep
<1>2. Serving' = Serving /\ Asking' = Asking /\ \A y : Socketed(y)' <=> Socketed(y)
  BY <1>1 DEF Serving, Asking, Socketed, Runs, Elsewhere, MainProcs, Main, Procs
<1>3. \A y \in Procs : Socketed(y) => y[1] # p[1]
  BY <1>1 DEF Socketed, Runs
<1>4. \A y \in Serving \cup Asking : y \in Procs /\ Socketed(y)
  BY DEF Serving, Asking, MainProcs, Socketed, SocketPrograms
<1>5. Shape'
  BY <1>1 DEF Goes, Elsewhere, Shape, Domains
<1>6. Undisturbed' => Undisturbed
  BY <1>1 DEF Elsewhere, Undisturbed, Shape
<1>7. Others'
  <2>1. ASSUME NEW y \in Procs \ (Serving \cup Asking)
        PROVE  /\ state'[y] = "running" => ForeignScript(todo'[y])
               /\ Socketed(y) => state'[y] = "none" /\ got'[y] = <<>>
    BY <1>1, <1>3, <2>1 DEF Goes, SameAt, Others
  <2> QED
    BY <1>2, <2>1 DEF Others, Procs
<1> QED
  BY <1>1, <1>3, <1>4, <1>5, <1>6, <1>7 DEF Goes, Elsewhere

------------------------------------------------------------
\* A step of a stranger preserves the invariant.
LEMMA StrangerPreserves ==
  ASSUME IInv, NEW p \in Strangers, Step(p) \/ Signal(p)
  PROVE  IInv'
<1>1. /\ Shape' /\ Others'
      /\ UNCHANGED <<program, backlog>> /\ linked'[SOCKET_PATH] = linked[SOCKET_PATH]
      /\ Undisturbed' => Undisturbed
      /\ \A y \in Serving \cup Asking :
           SameAt(y) /\ content'[Up(y)] = content[Up(y)] /\ content'[Down(y)] = content[Down(y)]
  BY StrangerKeeps DEF IInv
<1>2. Serving' = Serving /\ Asking' = Asking
  BY <1>1 DEF Serving, Asking, Runs, MainProcs, Main, Procs
<1>3. \A q \in Serving : (Holding(q)' <=> Holding(q)) /\ Backlog(q)' = Backlog(q)
      /\ \A c : Waits(c, q)' <=> Waits(c, q)
  BY <1>1, <1>2 DEF Holding, Backlog, Waits, SameAt
<1>4. \A c \in Asking : (Away(c)' <=> Away(c)) /\ AnswersTo(c)' = AnswersTo(c) /\ (Turned(c)' <=> Turned(c))
  BY <1>1, <1>2 DEF Away, AnswersTo, Turned, SameAt
<1>5. ASSUME NEW q \in Serving PROVE ServerOK(q)'
  <2>1. ServerOK(q)
    BY DEF IInv
  <2>2. ServerStage(q)' <=> ServerStage(q)
    BY <1>1, <1>2, <1>3, <1>4 DEF ServerStage, SameAt
  <2> QED
    BY <1>1, <1>2, <1>3, <2>1, <2>2 DEF ServerOK, SameAt, EndsFor
<1>6. ASSUME NEW c \in Asking PROVE ClientOK(c)'
  <2>1. ClientOK(c)
    BY DEF IInv
  <2>2. \A q \in Serving : got'[q] = got[q]
    BY <1>1 DEF SameAt
  <2> QED
    BY <1>1, <1>2, <1>4, <2>1, <2>2 DEF ClientOK, SameAt
<1>7. Connections'
  BY <1>1, <1>2, <1>3 DEF IInv, Connections, SameAt
<1>8. Patience'
  BY <1>1, <1>2, <1>3, <1>4 DEF IInv, Patience, SameAt
<1>9. Reachable'
  BY <1>1, <1>2 DEF IInv, Reachable, SameAt
<1> QED
  BY <1>1, <1>2, <1>5, <1>6, <1>7, <1>8, <1>9 DEF IInv

------------------------------------------------------------
\* The calls of a request, put before the rest of the server
LEMMA ThreeAndThree ==
  ASSUME NEW a, NEW b, NEW c, NEW x, NEW y, NEW z
  PROVE  <<a, b, c>> \o <<x, y, z>> = <<a, b, c, x, y, z>>
<1> DEFINE S == {a, b, c, x, y, z}
           s == <<a, b, c>>
           t == <<x, y, z>>
           u == <<a, b, c, x, y, z>>
<1>1. s \in Seq(S) /\ t \in Seq(S) /\ u \in Seq(S) /\ Len(s) = 3 /\ Len(t) = 3 /\ Len(u) = 6
  OBVIOUS
<1>2. s[1] = u[1] /\ s[2] = u[2] /\ s[3] = u[3] /\ t[1] = u[4] /\ t[2] = u[5] /\ t[3] = u[6]
  OBVIOUS
<1> HIDE DEF S, s, t, u
<1>3. /\ s \o t \in Seq(S) /\ Len(s \o t) = 6
      /\ \A i \in 1 .. 6 : (s \o t)[i] = IF i <= 3 THEN s[i] ELSE t[i - 3]
  <2>1. /\ s \o t \in Seq(S) /\ Len(s \o t) = Len(s) + Len(t)
        /\ \A i \in 1 .. Len(s) + Len(t) :
             (s \o t)[i] = IF i <= Len(s) THEN s[i] ELSE t[i - Len(s)]
    BY <1>1, ConcatProperties
  <2> QED
    BY <1>1, <2>1
<1>4. ASSUME NEW i \in 1 .. 6 PROVE (s \o t)[i] = u[i]
  <2>1. i = 1 \/ i = 2 \/ i = 3 \/ i = 4 \/ i = 5 \/ i = 6
    OBVIOUS
  <2> QED
    BY <1>2, <1>3, <2>1
<1>5. s \o t = u
  BY <1>1, <1>3, <1>4, SeqEqual
<1> QED
  BY <1>5 DEF s, t, u

\* What each place in the two scripts is followed by.
LEMMA ServerScript ==
  /\ Head(Server) = unlink(SOCKET_PATH) /\ Tail(Server) = ToBind
  /\ Head(ToBind) = bind(SOCKET_PATH, ToGiveUp) /\ Tail(ToBind) = ToListen
  /\ Head(ToListen) = listen /\ Tail(ToListen) = ToAccept
  /\ Head(ToAccept) = accept /\ Tail(ToAccept) = ToCloseAll
  /\ Head(ToCloseAll) = closeAll /\ Tail(ToCloseAll) = ToUnlink
  /\ Head(ToUnlink) = unlink(SOCKET_PATH) /\ Tail(ToUnlink) = ToExit
  /\ Head(ToExit) = exit(0)
  /\ Head(ToGiveUp) = closeAll /\ Tail(ToGiveUp) = ToFail
  /\ Head(ToFail) = exit(1)
  BY DEF Server, ToBind, ToListen, ToAccept, ToCloseAll, ToUnlink, ToExit, ToGiveUp, ToFail

\* The places while a client is served, and those of the client's script
LEMMA ServeScript ==
  ASSUME NEW c, NEW q
  PROVE  /\ Serve(c, q) \o ToCloseAll = ToHear(c, q)
         /\ Head(ToHear(c, q)) = read(Up(c), <<>>)
         /\ <<>> \o Tail(ToHear(c, q)) = ToAnswer(c, q) /\ Tail(ToHear(c, q)) = ToAnswer(c, q)
         /\ Head(ToAnswer(c, q)) = write(Down(c), q[1]) /\ Tail(ToAnswer(c, q)) = ToHangUp(c)
         /\ Head(ToHangUp(c)) = close(EndsFor(c)) /\ Tail(ToHangUp(c)) = ToCloseAll
<1>1. Serve(c, q) \o ToCloseAll = ToHear(c, q)
  <2> DEFINE a == read(Up(c), <<>>)
             b == write(Down(c), q[1])
             d == close({R(Up(c)), W(Down(c))})
             x == closeAll
             y == unlink(SOCKET_PATH)
             z == exit(0)
  <2>1. Serve(c, q) = <<a, b, d>> /\ ToCloseAll = <<x, y, z>> /\ ToHear(c, q) = <<a, b, d, x, y, z>>
    BY DEF Serve, ToHear, ToCloseAll
  <2> HIDE DEF a, b, d, x, y, z
  <2>2. <<a, b, d>> \o <<x, y, z>> = <<a, b, d, x, y, z>>
    BY ThreeAndThree
  <2> QED
    BY <2>1, <2>2
<1>2. Head(ToHear(c, q)) = read(Up(c), <<>>) /\ Tail(ToHear(c, q)) = ToAnswer(c, q)
  BY DEF ToHear, ToAnswer
<1>3. Head(ToAnswer(c, q)) = write(Down(c), q[1]) /\ Tail(ToAnswer(c, q)) = ToHangUp(c)
  BY DEF ToAnswer, ToHangUp
<1>4. Head(ToHangUp(c)) = close(EndsFor(c)) /\ Tail(ToHangUp(c)) = ToCloseAll
  BY DEF ToHangUp, ToCloseAll, EndsFor
<1>5. <<>> \o ToAnswer(c, q) = ToAnswer(c, q)
  BY DEF ToAnswer
<1> QED
  BY <1>1, <1>2, <1>3, <1>4, <1>5

LEMMA ClientScript ==
  ASSUME NEW c
  PROVE  /\ Head(Client(c)) = connect(SOCKET_PATH, ToGiveUp) /\ Tail(Client(c)) = ToAsk(c)
         /\ Head(ToAsk(c)) = write(Up(c), c[1]) /\ Tail(ToAsk(c)) = ToRead(c)
         /\ Head(ToRead(c)) = read(Down(c), <<>>) /\ Tail(ToRead(c)) = ToClose
         /\ <<>> \o Tail(ToRead(c)) = ToClose
         /\ Head(ToClose) = closeAll /\ Tail(ToClose) = ToExit
  BY DEF Client, ToAsk, ToRead, ToClose, ToExit, ToGiveUp

\* How long the scripts are, which tells most of the places apart
LEMMA ServerLengths ==
  /\ Len(Server) = 7 /\ Len(ToBind) = 6 /\ Len(ToListen) = 5 /\ Len(ToAccept) = 4
  /\ Len(ToCloseAll) = 3 /\ Len(ToUnlink) = 2 /\ Len(ToExit) = 1
  /\ Len(ToGiveUp) = 2 /\ Len(ToFail) = 1
  /\ \A c, q : Len(ToHear(c, q)) = 6 /\ Len(ToAnswer(c, q)) = 5
  /\ \A c : Len(ToHangUp(c)) = 4
  /\ \A c : Len(Client(c)) = 5 /\ Len(ToAsk(c)) = 4 /\ Len(ToRead(c)) = 3
  /\ Len(ToClose) = 2
  BY DEF Server, ToBind, ToListen, ToAccept, ToCloseAll, ToUnlink, ToExit, ToGiveUp, ToFail,
         ToHear, ToAnswer, ToHangUp, Client, ToAsk, ToRead, ToClose

\* What is called at each place
LEMMA Calling ==
  /\ Head(Server).call = "unlink" /\ Head(ToBind).call = "bind" /\ Head(ToListen).call = "listen"
  /\ Head(ToAccept).call = "accept" /\ Head(ToCloseAll).call = "closeAll"
  /\ Head(ToUnlink).call = "unlink" /\ Head(ToExit).call = "exit"
  /\ Head(ToGiveUp).call = "closeAll" /\ Head(ToFail).call = "exit"
  /\ Head(ToExit).code = 0 /\ Head(ToFail).code = 1
  /\ \A c, q : Head(ToHear(c, q)).call = "read" /\ Head(ToAnswer(c, q)).call = "write"
  /\ \A c : Head(ToHangUp(c)).call = "close"
  /\ \A c : Head(Client(c)).call = "connect" /\ Head(ToAsk(c)).call = "write"
            /\ Head(ToRead(c)).call = "read"
  /\ Head(ToClose).call = "closeAll"
<1>1. \A c, q : Head(ToHear(c, q)).call = "read" /\ Head(ToAnswer(c, q)).call = "write"
  BY ServeScript DEF read, write
<1>2. \A c : Head(ToHangUp(c)).call = "close"
  BY DEF ToHangUp, close
<1>3. \A c : Head(Client(c)).call = "connect" /\ Head(ToAsk(c)).call = "write"
            /\ Head(ToRead(c)).call = "read"
  BY ClientScript DEF read, write, connect
<1>4. Head(ToClose).call = "closeAll"
  BY ClientScript DEF closeAll
<1> QED
  BY <1>1, <1>2, <1>3, <1>4, ServerScript DEF unlink, bind, listen, accept, closeAll, exit

\* The places are different.
LEMMA Places ==
  /\ Server \notin {ToBind, ToListen, ToAccept, ToCloseAll, ToUnlink, ToExit, ToGiveUp, ToFail, <<>>}
  /\ ToAccept \notin Before \cup After \cup {ToCloseAll}
  /\ ToCloseAll \notin Before \cup After
  /\ ToListen \notin After \cup {Server, ToBind, ToGiveUp, ToFail}
  /\ \A c, q : /\ ToHear(c, q) \notin Before \cup After \cup {ToAccept, ToCloseAll}
               /\ ToAnswer(c, q) \notin Before \cup After \cup {ToAccept, ToCloseAll}
  /\ \A c : ToHangUp(c) \notin Before \cup After \cup {ToAccept, ToCloseAll}
  /\ \A c, d, q : /\ ToHear(c, q) # ToAnswer(d, q) /\ ToHear(c, q) # ToHangUp(d)
                  /\ ToAnswer(c, q) # ToHangUp(d)
<1>0. /\ Server # <<>> /\ ToAccept # <<>> /\ ToCloseAll # <<>> /\ ToListen # <<>>
      /\ \A c, q : ToHear(c, q) # <<>> /\ ToAnswer(c, q) # <<>>
      /\ \A c : ToHangUp(c) # <<>>
  BY DEF Server, ToAccept, ToCloseAll, ToListen, ToHear, ToAnswer, ToHangUp
<1>1. Server \notin {ToBind, ToListen, ToAccept, ToCloseAll, ToUnlink, ToExit, ToGiveUp, ToFail}
  BY ServerLengths
<1>2. ToAccept \notin Before \cup {ToUnlink, ToExit, ToCloseAll}
  BY ServerLengths DEF Before
<1>3. ToCloseAll \notin Before \cup {ToUnlink, ToExit}
  BY ServerLengths DEF Before
<1>4. ToListen \notin {ToUnlink, ToExit, Server, ToBind, ToGiveUp, ToFail}
  BY ServerLengths
<1>5. \A c, q : ToHear(c, q) \notin Before \cup {ToUnlink, ToExit, ToAccept, ToCloseAll}
  BY ServerLengths, Calling DEF Before
<1>6. \A c, q : ToAnswer(c, q) \notin Before \cup {ToUnlink, ToExit, ToAccept, ToCloseAll}
  BY ServerLengths, Calling DEF Before
<1>7. \A c : ToHangUp(c) \notin Before \cup {ToUnlink, ToExit, ToAccept, ToCloseAll}
  BY ServerLengths, Calling DEF Before
<1>8. \A c, d, q : /\ ToHear(c, q) # ToAnswer(d, q) /\ ToHear(c, q) # ToHangUp(d)
                   /\ ToAnswer(c, q) # ToHangUp(d)
  BY ServerLengths
<1> QED
  BY <1>0, <1>1, <1>2, <1>3, <1>4, <1>5, <1>6, <1>7, <1>8 DEF After

LEMMA ClientPlaces ==
  ASSUME NEW c
  PROVE  /\ Client(c) \notin {ToAsk(c), ToRead(c), ToClose, ToExit, ToGiveUp, ToFail, <<>>}
         /\ ToAsk(c) \notin {ToRead(c), ToClose, ToExit, ToGiveUp, ToFail, <<>>}
         /\ ToRead(c) \notin {ToClose, ToExit, ToGiveUp, ToFail, <<>>}
         /\ ToClose \notin {ToExit, ToGiveUp, ToFail, <<>>}
         /\ ToExit \notin {ToGiveUp, ToFail, <<>>}
         /\ <<>> \notin {ToGiveUp, ToFail}
<1>1. ToExit # ToFail
  BY Calling
<1>2. ToClose # ToGiveUp
  BY <1>1, ServerScript, ClientScript
<1>3. /\ Client(c) # <<>> /\ ToAsk(c) # <<>> /\ ToRead(c) # <<>> /\ ToClose # <<>>
      /\ ToExit # <<>> /\ ToGiveUp # <<>> /\ ToFail # <<>>
  BY DEF Client, ToAsk, ToRead, ToClose, ToExit, ToGiveUp, ToFail
<1>4. /\ Client(c) \notin {ToAsk(c), ToRead(c), ToClose, ToExit, ToGiveUp, ToFail}
      /\ ToAsk(c) \notin {ToRead(c), ToClose, ToExit, ToGiveUp, ToFail}
      /\ ToRead(c) \notin {ToClose, ToExit, ToGiveUp, ToFail}
      /\ ToClose \notin {ToExit, ToFail} /\ ToExit # ToGiveUp
  BY ServerLengths
<1> QED
  BY <1>1, <1>2, <1>3, <1>4

------------------------------------------------------------
\* The action that a next call stands for.
LEMMA StepIs ==
  ASSUME NEW p, Step(p)
  PROVE  /\ UNCHANGED program /\ state[p] = "running"
         /\ Call(p).call = "unlink" => Unlink(p) /\ UNCHANGED <<content, backlog>>
         /\ Call(p).call = "exit" => Exit(p) /\ UNCHANGED <<content, backlog>>
         /\ Call(p).call = "close" => Close(p) /\ UNCHANGED <<content, backlog>>
         /\ Call(p).call = "read" => Read(p) /\ UNCHANGED backlog
         /\ Call(p).call = "write" => Write(p) /\ UNCHANGED backlog
         /\ Call(p).call = "bind" => Bind(p)
         /\ Call(p).call = "listen" => Listen(p)
         /\ Call(p).call = "accept" => Accept(p)
         /\ Call(p).call = "connect" => Connect(p)
         /\ Call(p).call = "closeAll" => CloseAll(p)
<1> USE DEF Calls, Call
<1>1. CASE (ProcessStep(p) \/ Getline(p)) /\ UNCHANGED <<content, backlog>>
  BY <1>1 DEF Step, ProcessStep, Getline, Fork, Exec, Exit, Close, Waitpid, Unlink
<1>2. CASE PipeStep(p) /\ UNCHANGED backlog
  BY <1>2 DEF Step, PipeStep, MakePipe, Write, Read, Filter
<1>3. CASE QueueStep(p)
  BY <1>3, SMTT(30) DEF Step, QueueStep, OpenQueue, Send, Fetch, Remove
<1>4. CASE SocketStep(p)
  BY <1>4 DEF Step, SocketStep, Bind, Listen, Connect, Accept, CloseAll
<1> QED
  BY <1>1, <1>2, <1>3, <1>4 DEF Step

\* What they are: main processes, told apart by their instance
LEMMA SocketProc ==
  ASSUME NEW p \in SocketProcs
  PROVE  /\ p \in Procs /\ p = Main(p) /\ p = <<p[1], 0>> /\ Socketed(p)
         /\ Up(p) \in Pipe /\ Down(p) \in Pipe
  BY CompanyAssumption DEF SocketProcs, Serving, Asking, MainProcs, Socketed, SocketPrograms, Main

LEMMA SameProc ==
  ASSUME NEW p \in SocketProcs, NEW q \in SocketProcs, p[1] = q[1]
  PROVE  p = q
  BY SocketProc

\* Nobody runs both programs.
LEMMA NotBoth == Serving \cap Asking = {}
  BY DEF Serving, Asking, Runs

\* The pipes of two connections are different.
LEMMA TwoConnections ==
  ASSUME NEW p \in SocketProcs, NEW q \in SocketProcs
  PROVE  /\ Up(p) # Down(q) /\ Down(p) # Up(q)
         /\ R(Up(p)) # W(Down(q)) /\ W(Down(p)) # R(Up(q))
         /\ R(Up(p)) # Listener(q) /\ W(Down(p)) # Listener(q)
         /\ p # q => /\ Up(p) # Up(q) /\ Down(p) # Down(q)
                     /\ R(Up(p)) # R(Up(q)) /\ W(Down(p)) # W(Down(q))
<1>1. Up(p)[1] = "up" /\ Down(p)[1] = "down" /\ Up(p)[2] = p[1] /\ Down(p)[2] = p[1]
      /\ Up(q)[1] = "up" /\ Down(q)[1] = "down" /\ Up(q)[2] = q[1] /\ Down(q)[2] = q[1]
      /\ <<"listener", q[1]>>[1] = "listener"
  BY DEF Up, Down
<1>2. \A n : R(n)[1] = n /\ W(n)[1] = n
  BY DEF R, W
<1>3. p # q => p[1] # q[1]
  BY SameProc
<1>4. Up(p) # Down(q) /\ Down(p) # Up(q) /\ Up(p) # <<"listener", q[1]>> /\ Down(p) # <<"listener", q[1]>>
  BY <1>1
<1> QED
  BY <1>1, <1>2, <1>3, <1>4 DEF Listener

\* Nobody is waited for by a socket program: it has no children.
LEMMA NoChildren ==
  ASSUME Others, NEW p \in SocketProcs, NEW y \in Children(p)
  PROVE  state[y] = "none"
<1>1. y \in Procs /\ y # p /\ y[1] = p[1]
  BY DEF Children
<1>2. y \notin SocketProcs
  BY <1>1, SameProc
<1>3. Socketed(y)
  BY <1>1, SocketProc DEF Socketed, Runs
<1> QED
  BY <1>1, <1>2, <1>3 DEF Others, SocketProcs

\* A step of theirs that ends the process, or goes on, changes nobody else.
LEMMA EndsAlone ==
  ASSUME Domains, Others, NEW p \in SocketProcs, NEW how, Ends(p, how),
         UNCHANGED <<got, program>>, Domains'
  PROVE  /\ Alone(p) /\ todo'[p] = <<>> /\ state'[p] = "gone" /\ status'[p] = how
         /\ fds'[p] = {} /\ \A y \in Procs \ {p} : fds'[y] = fds[y]
<1>1. p \in Procs /\ p = Main(p)
  BY SocketProc
<1>2. \A y \in Procs \ {p} : state'[y] = state[y]
  BY NoChildren DEF Ends
<1>3. state'[p] = "gone"
  BY <1>1 DEF Ends
<1> QED
  BY <1>1, <1>2, <1>3 DEF Ends, Alone, Domains

LEMMA ContinueAlone ==
  ASSUME Domains, NEW p \in Procs, NEW s, Continue(p, s),
         UNCHANGED <<state, status, program>>, Domains',
         \A y \in Procs \ {p} : got'[y] = got[y]
  PROVE  Alone(p) /\ todo'[p] = s
  BY DEF Continue, Alone, Domains

\* Such a step keeps what is said of the strangers.
LEMMA AloneKeeps ==
  ASSUME Shape, Others, NEW p \in SocketProcs, Alone(p)
  PROVE  Others' /\ Serving' = Serving /\ Asking' = Asking
<1>1. Serving' = Serving /\ Asking' = Asking /\ \A y : Socketed(y)' <=> Socketed(y)
  BY DEF Alone, Serving, Asking, Socketed, Runs, MainProcs, Main, Procs
<1>2. \A y \in Procs \ (Serving \cup Asking) : y # p
  BY DEF SocketProcs
<1> QED
  BY <1>1, <1>2 DEF Alone, Others, Procs

------------------------------------------------------------
\* What each call of the server does
LEMMA Unlinks ==
  ASSUME Shape, NEW p \in SocketProcs, Step(p), Head(todo[p]) = unlink(SOCKET_PATH)
  PROVE  /\ Silent(p) /\ todo'[p] = Tail(todo[p]) /\ state'[p] = state[p] /\ fds'[p] = fds[p]
         /\ linked'[SOCKET_PATH] = Nobody /\ UNCHANGED <<failures, kills>>
<1>1. Call(p).call = "unlink" /\ Call(p).name = SOCKET_PATH
  BY DEF Call, unlink
<1>2. Unlink(p) /\ UNCHANGED <<content, backlog, program>>
  BY <1>1, StepIs
<1>3. linked' = [linked EXCEPT ![SOCKET_PATH] = Nobody]
  BY <1>1, <1>2 DEF Unlink
<1>4. Proceed(p) /\ UNCHANGED <<state, status, fds, got, failures, kills>>
  BY <1>2 DEF Unlink
<1>5. Domains'
  BY <1>2, <1>3, <1>4 DEF Shape, Domains, Proceed, Continue
<1>6. Alone(p) /\ todo'[p] = Tail(todo[p])
  BY <1>2, <1>4, <1>5, SocketProc, ContinueAlone DEF Shape, Proceed
<1> QED
  BY <1>2, <1>3, <1>4, <1>6, CompanyAssumption DEF Silent, Shape, Domains

LEMMA Binds ==
  ASSUME Shape, NEW p \in SocketProcs, Step(p), todo[p] = ToBind
  PROVE  /\ Silent(p) /\ state'[p] = state[p] /\ fds'[p] = fds[p] /\ UNCHANGED <<failures, kills>>
         /\ \/ todo'[p] = ToListen /\ linked[SOCKET_PATH] = Nobody /\ linked'[SOCKET_PATH] = p
            \/ todo'[p] = ToGiveUp /\ UNCHANGED linked
<1>1. Call(p).call = "bind" /\ Call(p).name = SOCKET_PATH /\ Call(p).failed = ToGiveUp
  BY ServerScript DEF Call, bind
<1>2. Bind(p) /\ UNCHANGED program
  BY <1>1, StepIs
<1>3. UNCHANGED <<state, status, fds, got, failures, kills, content, backlog>>
  BY <1>2 DEF Bind
<1>4. \/ Proceed(p) /\ linked[SOCKET_PATH] = Nobody /\ linked' = [linked EXCEPT ![SOCKET_PATH] = p]
      \/ Continue(p, ToGiveUp) /\ UNCHANGED linked
  BY <1>1, <1>2 DEF Bind
<1>5. Domains'
  BY <1>3, <1>4 DEF Shape, Domains, Proceed, Continue
<1>6. Alone(p) /\ todo'[p] = IF UNCHANGED linked /\ Continue(p, ToGiveUp) THEN ToGiveUp ELSE Tail(todo[p])
  BY <1>2, <1>3, <1>4, <1>5, SocketProc, ContinueAlone DEF Shape, Proceed
<1>7. linked' = [linked EXCEPT ![SOCKET_PATH] = p] => linked'[SOCKET_PATH] = p
  BY CompanyAssumption DEF Shape, Domains
<1> QED
  BY <1>3, <1>4, <1>6, <1>7, SocketProc, ServerScript DEF Silent, Shape, Domains, Proceed, Continue

LEMMA Listens ==
  ASSUME Shape, NEW p \in SocketProcs, Step(p), todo[p] = ToListen
  PROVE  /\ Silent(p) /\ state'[p] = state[p] /\ UNCHANGED <<linked, failures, kills>>
         /\ todo'[p] = ToAccept
<1>1. Call(p).call = "listen"
  BY ServerScript DEF Call, listen
<1>2. Listen(p) /\ UNCHANGED program
  BY <1>1, StepIs
<1>3. UNCHANGED <<state, status, got, linked, failures, kills, content, backlog>> /\ Proceed(p)
      /\ fds' = [fds EXCEPT ![p] = @ \cup {Listener(p)}]
  BY <1>2 DEF Listen
<1>5. Domains'
  BY <1>3 DEF Shape, Domains, Proceed, Continue
<1>6. Alone(p) /\ todo'[p] = Tail(todo[p])
  BY <1>2, <1>3, <1>5, SocketProc, ContinueAlone DEF Shape, Proceed
<1> QED
  BY <1>3, <1>6, ServerScript DEF Silent, Shape, Domains

LEMMA ClosesAll ==
  ASSUME Shape, NEW p \in SocketProcs, Step(p), Head(todo[p]) = closeAll
  PROVE  /\ Silent(p) /\ state'[p] = state[p] /\ UNCHANGED <<linked, failures, kills>>
         /\ todo'[p] = Tail(todo[p]) /\ fds'[p] = {}
<1>1. Call(p).call = "closeAll"
  BY DEF Call, closeAll
<1>2. CloseAll(p) /\ UNCHANGED program
  BY <1>1, StepIs
<1>3. UNCHANGED <<state, status, got, linked, failures, kills, content, backlog>> /\ Proceed(p)
      /\ fds' = [fds EXCEPT ![p] = {}]
  BY <1>2 DEF CloseAll
<1>5. Domains'
  BY <1>3 DEF Shape, Domains, Proceed, Continue
<1>6. Alone(p) /\ todo'[p] = Tail(todo[p])
  BY <1>2, <1>3, <1>5, SocketProc, ContinueAlone DEF Shape, Proceed
<1> QED
  BY <1>3, <1>6, SocketProc DEF Silent, Shape, Domains

LEMMA HangsUp ==
  ASSUME Shape, NEW p \in SocketProcs, Step(p), NEW c, todo[p] = ToHangUp(c)
  PROVE  /\ Silent(p) /\ state'[p] = state[p] /\ UNCHANGED <<linked, failures, kills>>
         /\ todo'[p] = ToCloseAll /\ fds'[p] = fds[p] \ EndsFor(c)
<1>0. Call(p) = close(EndsFor(c))
  BY ServeScript DEF Call
<1>1. Call(p).call = "close" /\ Call(p).set = EndsFor(c)
  <2>1. ASSUME NEW S PROVE close(S).call = "close" /\ close(S).set = S
    BY DEF close
  <2> QED
    BY <1>0, <2>1
<1>2. Close(p) /\ UNCHANGED <<content, backlog, program>>
  BY <1>1, StepIs
<1>3. UNCHANGED <<state, status, got, linked, failures, kills>> /\ Proceed(p)
      /\ fds' = [fds EXCEPT ![p] = @ \ EndsFor(c)]
  BY <1>1, <1>2 DEF Close
<1>5. Domains'
  BY <1>2, <1>3 DEF Shape, Domains, Proceed, Continue
<1>6. Alone(p) /\ todo'[p] = Tail(todo[p])
  BY <1>2, <1>3, <1>5, SocketProc, ContinueAlone DEF Shape, Proceed
<1> QED
  BY <1>2, <1>3, <1>6, SocketProc, ServeScript DEF Silent, Shape, Domains

\* How a server or a client ends
LEMMA EndsSilent ==
  ASSUME Shape, Others, NEW p \in SocketProcs, NEW how, Ends(p, how),
         UNCHANGED <<got, program, content, backlog, linked>>
  PROVE  Gone(p) /\ status'[p] = how
<1>1. Domains'
  BY DEF Ends, Shape, Domains
<1> QED
  BY <1>1, EndsAlone DEF Gone, Silent, Shape

LEMMA Exits ==
  ASSUME Shape, Others, NEW p \in SocketProcs, Step(p), NEW code, Head(todo[p]) = exit(code)
  PROVE  Gone(p) /\ status'[p] = code /\ UNCHANGED <<failures, kills>>
<1>1. Call(p).call = "exit" /\ Call(p).code = code
  BY DEF Call, exit
<1>2. Exit(p) /\ UNCHANGED <<content, backlog, program>>
  BY <1>1, StepIs
<1> QED
  BY <1>1, <1>2, EndsSilent DEF Exit

LEMMA Killed ==
  ASSUME Shape, Others, NEW p \in SocketProcs, Signal(p)
  PROVE  Gone(p) /\ state[p] = "running" /\ failures' = failures /\ kills' = kills + 1
<1>1. Ends(p, SIGKILL) /\ UNCHANGED <<got, program, content, backlog, linked>>
  BY DEF Signal, Kill
<1> QED
  BY <1>1, EndsSilent DEF Signal, Kill

\* accept() takes the first of the backlog.
LEMMA Accepts ==
  ASSUME Shape, NEW p \in SocketProcs, Step(p), todo[p] = ToAccept
  PROVE  /\ Alone(p) /\ UNCHANGED <<state, fds, got, content, linked, failures, kills>>
         /\ backlog[p] # <<>> /\ backlog'[p] = Tail(backlog[p])
         /\ \A y \in Procs \ {p} : backlog'[y] = backlog[y]
         /\ todo'[p] = ToHear(Head(backlog[p]), p)
<1>1. Call(p).call = "accept"
  BY ServerScript DEF Call, accept
<1>2. Accept(p) /\ UNCHANGED program
  BY <1>1, StepIs
<1> DEFINE next == Serve(Head(backlog[p]), p) \o Tail(todo[p])
<1>3. UNCHANGED <<state, status, fds, got, linked, failures, kills, content>> /\ backlog[p] # <<>>
      /\ backlog' = [backlog EXCEPT ![p] = Tail(@)] /\ Continue(p, next)
  BY <1>2 DEF Accept
<1>4. next = ToHear(Head(backlog[p]), p)
  BY ServerScript, ServeScript
<1> HIDE DEF next
<1>5. Domains'
  BY <1>3 DEF Shape, Domains, Continue
<1>6. Alone(p) /\ todo'[p] = next
  BY <1>2, <1>3, <1>5, SocketProc, ContinueAlone DEF Shape
<1> QED
  BY <1>3, <1>4, <1>6, SocketProc DEF Shape, Domains

\* connect() joins the backlog of the server that has the name, or fails.
LEMMA Connects ==
  ASSUME Shape, NEW p \in SocketProcs, Step(p), todo[p] = Client(p)
  PROVE  /\ Alone(p) /\ UNCHANGED <<state, got, content, linked, failures, kills>>
         /\ LET server == linked[SOCKET_PATH] IN
            \/ todo'[p] = ToGiveUp /\ UNCHANGED <<fds, backlog>>
            \/ /\ Listening(server) /\ todo'[p] = ToAsk(p)
               /\ backlog' = [backlog EXCEPT ![server] = Append(@, p)]
               /\ fds' = [fds EXCEPT ![p] = {W(Up(p)), R(Down(p))},
                                     ![server] = @ \cup {R(Up(p)), W(Down(p))}]
<1>1. Call(p).call = "connect" /\ Call(p).name = SOCKET_PATH /\ Call(p).failed = ToGiveUp
  BY ClientScript DEF Call, connect
<1>2. Connect(p) /\ UNCHANGED program
  BY <1>1, StepIs
<1> DEFINE server == linked[SOCKET_PATH]
<1>3. UNCHANGED <<state, status, got, linked, failures, kills, content>>
  BY <1>2 DEF Connect
<1>4. \/ Continue(p, ToGiveUp) /\ UNCHANGED <<fds, backlog>>
      \/ /\ Listening(server) /\ Proceed(p)
         /\ backlog' = [backlog EXCEPT ![server] = Append(@, p)]
         /\ fds' = [fds EXCEPT ![p] = {W(Up(p)), R(Down(p))},
                               ![server] = @ \cup {R(Up(p)), W(Down(p))}]
  BY <1>1, <1>2 DEF Connect
<1>5. Domains'
  BY <1>3, <1>4 DEF Shape, Domains, Continue, Proceed
<1>6. CASE Continue(p, ToGiveUp) /\ UNCHANGED <<fds, backlog>>
  BY <1>2, <1>3, <1>5, <1>6, SocketProc, ContinueAlone DEF Shape
<1>7. CASE /\ Listening(server) /\ Proceed(p)
           /\ backlog' = [backlog EXCEPT ![server] = Append(@, p)]
           /\ fds' = [fds EXCEPT ![p] = {W(Up(p)), R(Down(p))},
                               ![server] = @ \cup {R(Up(p)), W(Down(p))}]
  <2>1. Alone(p) /\ todo'[p] = ToAsk(p)
    BY <1>2, <1>3, <1>5, <1>7, SocketProc, ContinueAlone, ClientScript DEF Shape, Proceed
  <2> QED
    BY <1>3, <1>7, <2>1
<1> QED
  BY <1>4, <1>6, <1>7

\* read() takes all that was sent, or finds the end.
LEMMA Reads ==
  ASSUME Shape, NEW p \in SocketProcs, Step(p), NEW n \in Pipe, Head(todo[p]) = read(n, <<>>),
         <<>> \o Tail(todo[p]) = Tail(todo[p])
  PROVE  /\ Alone(p) /\ UNCHANGED <<state, fds, backlog, linked, failures, kills>>
         /\ todo'[p] = Tail(todo[p])
         /\ \/ AtEnd(p, n) /\ UNCHANGED <<got, content>>
            \/ /\ content[n] # <<>>
               /\ got'[p] = got[p] \o content[n]
               /\ content'[n] = <<>> /\ \A m \in Pipe \ {n} : content'[m] = content[m]
<1>1. Call(p).call = "read" /\ Call(p).pipe = n /\ Call(p).then = <<>>
  BY DEF Call, read
<1>2. Read(p) /\ UNCHANGED <<program, backlog>>
  BY <1>1, StepIs
<1>3. UNCHANGED <<state, status, fds, linked, failures, kills>>
  BY <1>2 DEF Read
<1>4. \/ AtEnd(p, n) /\ Continue(p, Tail(todo[p])) /\ UNCHANGED <<got, content>>
      \/ /\ content[n] # <<>> /\ Continue(p, Tail(todo[p]))
         /\ got' = [got EXCEPT ![p] = @ \o content[n]]
         /\ content' = [content EXCEPT ![n] = <<>>]
  BY <1>1, <1>2 DEF Read, Proceed
<1>5. Domains'
  BY <1>2, <1>3, <1>4 DEF Shape, Domains, Continue
<1>6. \A y \in Procs \ {p} : got'[y] = got[y]
  BY <1>4 DEF Shape, Domains
<1>7. Alone(p) /\ todo'[p] = Tail(todo[p])
  BY <1>2, <1>3, <1>4, <1>5, <1>6, SocketProc, ContinueAlone DEF Shape
<1> QED
  BY <1>2, <1>3, <1>4, <1>7, SocketProc DEF Shape, Domains

\* send() delivers, or ends the sender when nobody is left to read.
LEMMA Sends ==
  ASSUME Shape, Others, NEW p \in SocketProcs, Step(p), NEW n \in Pipe, NEW m,
         Head(todo[p]) = write(n, m), W(n) \in fds[p]
  PROVE  \/ /\ Gone(p) /\ status'[p] = SIGPIPE /\ Open(R(n)) = {} /\ UNCHANGED <<failures, kills>>
         \/ /\ Alone(p) /\ UNCHANGED <<state, fds, got, backlog, linked, failures, kills>>
            /\ todo'[p] = Tail(todo[p])
            /\ content'[n] = Append(content[n], m)
            /\ \A k \in Pipe \ {n} : content'[k] = content[k]
<1>1. Call(p).call = "write" /\ Call(p).pipe = n /\ Call(p).message = m
  BY DEF Call, write
<1>2. Write(p) /\ UNCHANGED <<program, backlog>>
  BY <1>1, StepIs
<1>3. UNCHANGED <<got, linked, failures, kills>>
  BY <1>2 DEF Write
<1>4. \/ Open(R(n)) = {} /\ Ends(p, SIGPIPE) /\ UNCHANGED content
      \/ /\ content' = [content EXCEPT ![n] = Append(@, m)]
         /\ Proceed(p) /\ UNCHANGED <<state, status, fds>>
  BY <1>1, <1>2 DEF Write
<1>5. CASE Open(R(n)) = {} /\ Ends(p, SIGPIPE) /\ UNCHANGED content
  BY <1>2, <1>3, <1>5, EndsSilent
<1>6. CASE /\ content' = [content EXCEPT ![n] = Append(@, m)]
           /\ Proceed(p) /\ UNCHANGED <<state, status, fds>>
  <2>1. Domains'
    BY <1>2, <1>3, <1>6 DEF Shape, Domains, Continue, Proceed
  <2>2. Alone(p) /\ todo'[p] = Tail(todo[p])
    BY <1>2, <1>3, <1>6, <2>1, SocketProc, ContinueAlone DEF Shape, Proceed
  <2> QED
    BY <1>2, <1>3, <1>6, <2>2 DEF Shape, Domains
<1> QED
  BY <1>4, <1>5, <1>6

------------------------------------------------------------
\* A server changes only its own place, its descriptors and the name.
LEMMA ServerChanges ==
  ASSUME IInv, NEW q \in Serving, Silent(q), Reachable', ServerOK(q)',
         failures' \in Nat, kills' \in Nat,
         \A c \in Asking : todo'[q] # ToHear(c, q) /\ todo'[q] # ToAnswer(c, q),
         Undisturbed' =>
           /\ Undisturbed
           /\ \A c \in Asking : todo[q] # ToHear(c, q) /\ todo[q] # ToAnswer(c, q)
           /\ Holding(q)' => Holding(q) \/ backlog[q] = <<>>
           /\ todo'[q] # ToAccept /\ (Holding(q)' \/ backlog[q] # <<>>) => got[q] # <<>>
  PROVE  IInv'
<1> USE DEF SocketProcs
<1>1. Others' /\ Serving' = Serving /\ Asking' = Asking
  BY AloneKeeps DEF Silent, IInv
<1>2. Shape'
  BY DEF IInv, Shape, Silent, Alone
<1>3. /\ q \in Procs
      /\ \A y \in (Serving \cup Asking) \ {q} :
           y \in Procs /\ todo'[y] = todo[y] /\ state'[y] = state[y] /\ status'[y] = status[y]
           /\ fds'[y] = fds[y]
      /\ UNCHANGED <<got, content, backlog>>
  BY SocketProc DEF Silent, Alone
<1>4. \A c \in Asking : c # q
  BY NotBoth
<1>5. \A s \in Serving : Backlog(s)' = Backlog(s)
  BY <1>3 DEF Backlog
<1>6. \A c \in Asking, s \in Serving : Waits(c, s)' => Waits(c, s)
  BY <1>3, <1>5 DEF Waits
<1>7. \A c \in Asking : (Away(c)' <=> Away(c)) /\ AnswersTo(c)' = AnswersTo(c) /\ (Turned(c)' <=> Turned(c))
  BY <1>1, <1>3, <1>4 DEF Away, AnswersTo, Turned
<1>8. ASSUME NEW s \in Serving, s # q PROVE ServerOK(s)'
  <2>1. Holding(s)' <=> Holding(s)
    BY <1>1, <1>3, <1>8 DEF Holding
  <2>2. ServerStage(s)' <=> ServerStage(s)
    BY <1>1, <1>3, <1>4, <1>5, <1>7, <1>8 DEF ServerStage
  <2>3. ServerOK(s)
    BY DEF IInv
  <2> QED
    BY <1>1, <1>3, <1>5, <1>6, <1>8, <2>1, <2>2, <2>3 DEF ServerOK, EndsFor
<1>9. ASSUME NEW c \in Asking PROVE ClientOK(c)'
  <2>1. ClientOK(c)
    BY DEF IInv
  <2>2. todo'[c] = todo[c] /\ state'[c] = state[c] /\ fds'[c] = fds[c]
    BY <1>3, <1>4
  <2> QED
    BY <1>1, <1>3, <1>7, <2>1, <2>2 DEF ClientOK
<1>10. Connections'
  <2>1. ASSUME NEW c \in Asking, NEW s \in Serving, Waits(c, s)'
        PROVE  todo'[c] # Client(c) /\ content'[Down(c)] = <<>>
               /\ \A t \in Serving : Waits(c, t)' => t = s
    BY <1>3, <1>4, <1>6, <2>1 DEF IInv, Connections
  <2> QED
    BY <1>1, <2>1 DEF Connections
<1>11. Patience'
  <2> SUFFICES ASSUME Undisturbed' PROVE Patience'
    BY DEF Patience
  <2>1. Undisturbed /\ Patience
    BY DEF IInv
  <2>2. \A c \in Asking, s \in Serving : Waits(c, s)' <=> Waits(c, s)
    BY <1>3, <1>5 DEF Waits
  <2>6. \A s \in Serving \ {q} : Holding(s)' <=> Holding(s)
    BY <1>1, <1>3 DEF Holding
  <2>7. backlog[q] = <<>> => Backlog(q) = {}
    BY DEF Backlog
  <2>3. ASSUME NEW s \in Serving, NEW c \in Asking
        PROVE  /\ Waits(c, s)' /\ Holding(s)' => todo'[c] \in {ToAsk(c), ToRead(c)}
               /\ todo'[s] = ToAnswer(c, s) => todo'[c] = ToRead(c) /\ got'[s] = <<c[1]>>
    <3>1. todo'[c] = todo[c]
      BY <1>3, <1>4
    <3>2. Waits(c, s)' /\ Holding(s)' => Waits(c, s) /\ Holding(s)
      BY <1>3, <2>2, <2>6, <2>7 DEF Waits
    <3> QED
      BY <1>3, <2>1, <3>1, <3>2 DEF Patience
  <2>4. ASSUME NEW s \in Serving
        PROVE  Holding(s)' \/ backlog'[s] # <<>> =>
                 got'[s] # <<>> \/ todo'[s] = ToAccept \/ \E c \in Asking : todo'[s] = ToHear(c, s)
    BY <1>3, <2>1, <2>6 DEF Patience
  <2>5. ASSUME NEW c \in Asking
        PROVE
         /\ todo'[c] = ToAsk(c) => \E s \in Serving : Waits(c, s)'
         /\ todo'[c] = ToRead(c) => content'[Down(c)] # <<>> \/ \E s \in Serving : Waits(c, s)'
         /\ todo'[c] \in {ToClose, ToExit} \/ (state'[c] = "gone" /\ status'[c] = 0) =>
              got'[c] # <<>> \/ Turned(c)'
         /\ state'[c] = "gone" /\ status'[c] = SIGPIPE => Turned(c)'
    <3>1. todo'[c] = todo[c] /\ state'[c] = state[c] /\ status'[c] = status[c]
      BY <1>3, <1>4
    <3> QED
      BY <1>3, <1>7, <2>1, <2>2, <3>1 DEF Patience
  <2> QED
    BY <1>1, <2>3, <2>4, <2>5 DEF Patience
<1> QED
  BY <1>1, <1>2, <1>8, <1>9, <1>10, <1>11 DEF IInv

------------------------------------------------------------
\* Before it listens, and after it closed all, a server holds no connection.
LEMMA NotHeld ==
  ASSUME NEW x \in Before \cup After, NEW q
  PROVE  /\ x \notin {ToAccept, ToCloseAll}
         /\ \A c : x \notin {ToHear(c, q), ToAnswer(c, q), ToHangUp(c)}
  BY Places

\* Different clients are served in different places.
LEMMA OneClient ==
  ASSUME NEW c \in SocketProcs, NEW d \in SocketProcs, NEW q
  PROVE  /\ ToHear(c, q) = ToHear(d, q) => c = d
         /\ ToAnswer(c, q) = ToAnswer(d, q) => c = d
<1>1. \A n, m : read(n, <<>>).pipe = n /\ write(n, m).pipe = n
  BY DEF read, write
<1>2. ToHear(c, q) = ToHear(d, q) => Up(c) = Up(d)
  BY <1>1, ServeScript
<1>3. ToAnswer(c, q) = ToAnswer(d, q) => Down(c) = Down(d)
  BY <1>1, ServeScript
<1> QED
  BY <1>2, <1>3, TwoConnections

\* A step that leaves the name alone.
LEMMA NameKept ==
  ASSUME IInv, NEW p \in SocketProcs, Alone(p), linked'[SOCKET_PATH] = linked[SOCKET_PATH],
         p \in Serving => todo'[p] # Server,
         p \in Serving /\ todo'[p] \in {ToListen, ToAccept} => todo[p] \in {ToListen, ToAccept}
  PROVE  Reachable'
<1>1. Serving' = Serving
  BY AloneKeeps DEF IInv
<1>2. \A s \in Serving : s \in Procs /\ (s # p => todo'[s] = todo[s])
  BY SocketProc DEF SocketProcs, Alone
<1> QED
  BY <1>1, <1>2 DEF IInv, Reachable

\* A step that takes the name, or takes it away.
LEMMA NameTaken ==
  ASSUME IInv, NEW q \in Serving, Alone(q), todo'[q] # Server,
         linked'[SOCKET_PATH] \in {q, Nobody},
         todo'[q] \in {ToListen, ToAccept} => linked'[SOCKET_PATH] = q
  PROVE  Reachable'
<1>1. Serving' = Serving
  BY AloneKeeps DEF IInv, SocketProcs
<1> QED
  BY <1>1 DEF IInv, Reachable

\* A server that holds nothing, before and after this step or since it.
LEMMA QuietServer ==
  ASSUME IInv, NEW q \in Serving, Silent(q), fds'[q] = {}, Reachable',
         \/ state'[q] = "running" /\ todo'[q] \in Before /\ got[q] = <<>> /\ backlog[q] = <<>>
         \/ state'[q] = "running" /\ todo'[q] \in {ToUnlink, ToExit}
         \/ state'[q] = "gone" /\ todo'[q] = <<>>,
         failures' \in Nat, kills' \in Nat,
         Undisturbed' =>
           /\ Undisturbed
           /\ \A c \in Asking : todo[q] # ToHear(c, q) /\ todo[q] # ToAnswer(c, q)
           /\ backlog[q] # <<>> => got[q] # <<>>
  PROVE  IInv'
<1>1. todo'[q] \in Before \cup After
  BY DEF After
<1>2. /\ todo'[q] \notin {ToAccept, ToCloseAll}
      /\ \A c : todo'[q] \notin {ToHear(c, q), ToAnswer(c, q), ToHangUp(c)}
  BY <1>1, NotHeld
<1>3. ~Holding(q)'
  BY <1>2 DEF Holding
<1>4. Serving' = Serving /\ Asking' = Asking
  BY AloneKeeps DEF IInv, SocketProcs, Silent
<1>5. UNCHANGED <<got, backlog>> /\ Backlog(q)' = Backlog(q)
  BY DEF Silent, Backlog
<1>6. ServerOK(q)
  BY DEF IInv
<1>7. state'[q] = "running" => ServerStage(q)'
  BY <1>5 DEF ServerStage, Before
<1>8. ServerOK(q)'
  <2>1. /\ \/ state'[q] = "running" /\ ServerStage(q)'
           \/ state'[q] = "gone" /\ todo'[q] = <<>>
        /\ backlog'[q] \in Seq(Asking')
        /\ \A m, n \in DOMAIN backlog'[q] : backlog'[q][m] = backlog'[q][n] => m = n
        /\ got'[q] = <<>> \/ \E c \in Asking' \ Backlog(q)' : got'[q] = <<c[1]>>
    BY <1>4, <1>5, <1>6, <1>7 DEF ServerOK
  <2> QED
    BY <1>3, <2>1 DEF ServerOK
<1> QED
  BY <1>2, <1>3, <1>8, ServerChanges

------------------------------------------------------------
\* The server before it accepts: unlink, bind, listen, or giving up
LEMMA ServerBefore ==
  ASSUME IInv, NEW q \in Serving, Step(q), todo[q] \in Before
  PROVE  IInv'
<1> USE DEF SocketProcs
<1>1. Shape /\ Others /\ failures \in Nat /\ kills \in Nat /\ state[q] = "running"
  BY StepIs DEF IInv, Shape
<1>2. /\ \A c : todo[q] \notin {ToHear(c, q), ToAnswer(c, q), ToHangUp(c)}
      /\ todo[q] \notin {ToAccept, ToCloseAll}
  BY NotHeld
<1>3. todo[q] \notin {ToUnlink, ToExit}
  BY Places, ServerLengths, Calling DEF Before
<1>4. got[q] = <<>> /\ backlog[q] = <<>> /\ fds[q] = {}
  <2>1. ServerOK(q) /\ ~Holding(q)
    BY <1>2 DEF IInv, Holding
  <2> QED
    BY <1>1, <1>2, <1>3, <2>1 DEF ServerOK, ServerStage
<1>5. CASE todo[q] = Server
  <2>1. /\ Silent(q) /\ todo'[q] = ToBind /\ state'[q] = state[q] /\ fds'[q] = fds[q]
        /\ linked'[SOCKET_PATH] = Nobody /\ UNCHANGED <<failures, kills>>
    BY <1>1, <1>5, Unlinks, ServerScript
  <2>2. Reachable'
    BY <2>1, NameTaken, Places DEF Silent, Before
  <2> QED
    BY <1>1, <1>2, <1>4, <2>1, <2>2, QuietServer DEF Undisturbed, Before
<1>6. CASE todo[q] = ToBind
  <2>1. /\ Silent(q) /\ state'[q] = state[q] /\ fds'[q] = fds[q] /\ UNCHANGED <<failures, kills>>
        /\ \/ todo'[q] = ToListen /\ linked'[SOCKET_PATH] = q
           \/ todo'[q] = ToGiveUp /\ UNCHANGED linked
    BY <1>1, <1>6, Binds
  <2>2. Reachable'
    <3>1. CASE todo'[q] = ToListen /\ linked'[SOCKET_PATH] = q
      BY <2>1, <3>1, NameTaken, Places DEF Silent
    <3>2. CASE todo'[q] = ToGiveUp /\ UNCHANGED linked
      BY <2>1, <3>2, NameKept, Places DEF Silent, Before
    <3> QED
      BY <2>1, <3>1, <3>2
  <2> QED
    BY <1>1, <1>2, <1>4, <2>1, <2>2, QuietServer DEF Undisturbed, Before
<1>7. CASE todo[q] = ToListen
  <2>1. /\ Silent(q) /\ state'[q] = state[q] /\ UNCHANGED <<linked, failures, kills>>
        /\ todo'[q] = ToAccept
    BY <1>1, <1>7, Listens
  <2>2. Reachable'
    BY <1>7, <2>1, NameKept, Places DEF Silent
  <2>3. UNCHANGED <<got, backlog>> /\ Backlog(q)' = {}
    BY <1>4, <2>1 DEF Silent, Backlog
  <2>4. \A c : todo'[q] # ToHear(c, q) /\ todo'[q] # ToAnswer(c, q)
    BY <2>1, Places
  <2>5. ServerOK(q)'
    <3>1. \A c : ~Waits(c, q)'
      BY <2>3, <2>4 DEF Waits
    <3>2. state'[q] = "running" /\ ServerStage(q)' /\ Holding(q)'
      BY <1>1, <1>4, <2>1, <2>3 DEF ServerStage, Holding
    <3>3. backlog'[q] = <<>> /\ got'[q] = <<>>
      BY <1>4, <2>3
    <3> QED
      BY <3>1, <3>2, <3>3 DEF ServerOK
  <2> QED
    BY <1>1, <1>2, <1>4, <2>1, <2>2, <2>4, <2>5, ServerChanges DEF Undisturbed
<1>8. CASE todo[q] = ToGiveUp
  <2>1. /\ Silent(q) /\ state'[q] = state[q] /\ UNCHANGED <<linked, failures, kills>>
        /\ todo'[q] = ToFail /\ fds'[q] = {}
    BY <1>1, <1>8, ClosesAll, ServerScript
  <2>2. Reachable'
    BY <2>1, NameKept, Places DEF Silent, Before
  <2> QED
    BY <1>1, <1>2, <1>4, <2>1, <2>2, QuietServer DEF Undisturbed, Before
<1>9. CASE todo[q] = ToFail
  <2>1. Gone(q) /\ UNCHANGED <<failures, kills>>
    BY <1>1, <1>9, Exits, ServerScript
  <2>2. Reachable'
    BY <2>1, NameKept, Places DEF Gone, Silent, After
  <2> QED
    BY <1>1, <1>2, <1>4, <2>1, <2>2, QuietServer DEF Undisturbed, Gone
<1> QED
  BY <1>5, <1>6, <1>7, <1>8, <1>9 DEF Before

------------------------------------------------------------
\* The server hangs up on the client it served.
LEMMA ServerHangsUp ==
  ASSUME IInv, NEW q \in Serving, Step(q), NEW c \in Asking, c \notin Backlog(q),
         todo[q] = ToHangUp(c)
  PROVE  IInv'
<1> USE DEF SocketProcs
<1>1. Shape /\ Others /\ failures \in Nat /\ kills \in Nat /\ state[q] = "running" /\ ServerOK(q)
  BY StepIs DEF IInv, Shape
<1>2. /\ Silent(q) /\ state'[q] = state[q] /\ UNCHANGED <<linked, failures, kills>>
      /\ todo'[q] = ToCloseAll /\ fds'[q] = fds[q] \ EndsFor(c)
  BY <1>1, HangsUp
<1>3. Reachable'
  BY <1>2, NameKept, Places DEF Silent, Before
<1>4. UNCHANGED <<got, backlog>> /\ Backlog(q)' = Backlog(q) /\ Serving' = Serving /\ Asking' = Asking
  BY <1>1, <1>2, AloneKeeps DEF Silent, Backlog
<1>5. \A d : /\ todo[q] # ToHear(d, q) /\ todo[q] # ToAnswer(d, q)
             /\ todo'[q] # ToHear(d, q) /\ todo'[q] # ToAnswer(d, q)
  BY <1>2, Places
<1>6. Holding(q) /\ Holding(q)'
  BY <1>2 DEF Holding
<1>7. ServerOK(q)'
  <2>1. ASSUME NEW d \in Asking, Waits(d, q)' PROVE EndsFor(d) \subseteq fds'[q]
    <3>1. d \in Backlog(q)
      BY <1>4, <1>5, <2>1 DEF Waits
    <3>2. EndsFor(d) \subseteq fds[q]
      BY <1>1, <1>6, <3>1 DEF ServerOK, Waits
    <3>3. d # c
      BY <3>1
    <3>4. EndsFor(d) \cap EndsFor(c) = {}
      BY <3>3, TwoConnections DEF EndsFor
    <3> QED
      BY <1>2, <3>2, <3>4
  <2>2. state'[q] = "running" /\ ServerStage(q)'
    BY <1>1, <1>2 DEF ServerStage
  <2>3. /\ backlog'[q] \in Seq(Asking')
        /\ \A m, n \in DOMAIN backlog'[q] : backlog'[q][m] = backlog'[q][n] => m = n
        /\ got'[q] = <<>> \/ \E d \in Asking' \ Backlog(q)' : got'[q] = <<d[1]>>
    BY <1>1, <1>4 DEF ServerOK
  <2> QED
    BY <1>4, <1>6, <2>1, <2>2, <2>3 DEF ServerOK
<1>8. Undisturbed => got[q] # <<>>
  BY <1>5, <1>6, Places DEF IInv, Patience
<1> QED
  BY <1>1, <1>2, <1>3, <1>5, <1>6, <1>7, <1>8, ServerChanges DEF Undisturbed

\* From ToCloseAll to the end of the program.
LEMMA ServerLeaves ==
  ASSUME IInv, NEW q \in Serving, Step(q), todo[q] \in {ToCloseAll, ToUnlink, ToExit}
  PROVE  IInv'
<1> USE DEF SocketProcs
<1>1. Shape /\ Others /\ failures \in Nat /\ kills \in Nat /\ state[q] = "running" /\ ServerOK(q)
  BY StepIs DEF IInv, Shape
<1>2. \A d : todo[q] # ToHear(d, q) /\ todo[q] # ToAnswer(d, q) /\ todo[q] # ToAccept
  BY Places DEF After
<1>3. Undisturbed => (backlog[q] # <<>> => got[q] # <<>>)
  BY <1>2 DEF IInv, Patience
<1>4. CASE todo[q] = ToCloseAll
  <2>1. /\ Silent(q) /\ state'[q] = state[q] /\ UNCHANGED <<linked, failures, kills>>
        /\ todo'[q] = ToUnlink /\ fds'[q] = {}
    BY <1>1, <1>4, ClosesAll, ServerScript
  <2>2. Reachable'
    BY <2>1, NameKept, Places DEF Silent, Before, After
  <2> QED
    BY <1>1, <1>2, <1>3, <2>1, <2>2, QuietServer DEF Undisturbed
<1>5. CASE todo[q] = ToUnlink
  <2>1. /\ Silent(q) /\ todo'[q] = ToExit /\ state'[q] = state[q] /\ fds'[q] = fds[q]
        /\ linked'[SOCKET_PATH] = Nobody /\ UNCHANGED <<failures, kills>>
    BY <1>1, <1>5, Unlinks, ServerScript
  <2>2. Reachable'
    BY <2>1, NameTaken, Places DEF Silent, After
  <2>3. ~Holding(q)
    BY <1>5, NotHeld DEF Holding, After
  <2> QED
    BY <1>1, <1>2, <1>3, <2>1, <2>2, <2>3, QuietServer DEF Undisturbed, ServerOK
<1>6. CASE todo[q] = ToExit
  <2>1. Gone(q) /\ UNCHANGED <<failures, kills>>
    BY <1>1, <1>6, Exits, ServerScript
  <2>2. Reachable'
    BY <2>1, NameKept, Places DEF Gone, Silent, After
  <2> QED
    BY <1>1, <1>2, <1>3, <2>1, <2>2, QuietServer DEF Undisturbed, Gone
<1> QED
  BY <1>4, <1>5, <1>6

\* A server is killed.
LEMMA ServerKilled ==
  ASSUME IInv, NEW q \in Serving, Signal(q)
  PROVE  IInv'
<1> USE DEF SocketProcs
<1>1. Shape /\ Others /\ failures \in Nat /\ kills \in Nat
  BY DEF IInv, Shape
<1>2. Gone(q) /\ failures' = failures /\ kills' = kills + 1
  BY <1>1, Killed
<1>3. Reachable'
  BY <1>2, NameKept, Places DEF Gone, Silent, After
<1>4. ~Undisturbed'
  BY <1>1, <1>2 DEF Undisturbed
<1> QED
  BY <1>1, <1>2, <1>3, <1>4, QuietServer DEF Gone

\* A server does not die of the answer unless the program was disturbed.
LEMMA ServerDies ==
  ASSUME IInv, NEW q \in Serving, NEW c \in Asking, todo[q] = ToAnswer(c, q),
         Gone(q), UNCHANGED <<failures, kills>>, Open(R(Down(c))) = {}
  PROVE  IInv'
<1> USE DEF SocketProcs
<1>1. Shape /\ Others /\ failures \in Nat /\ kills \in Nat
  BY DEF IInv, Shape
<1>2. Reachable'
  BY NameKept, Places DEF Gone, Silent, After
<1>3. ~Undisturbed
  <2> SUFFICES ASSUME Undisturbed PROVE FALSE
    OBVIOUS
  <2>1. todo[c] = ToRead(c) /\ ClientOK(c)
    BY DEF IInv, Patience
  <2>2. R(Down(c)) \in fds[c]
    BY <2>1, ClientPlaces DEF ClientOK
  <2> QED
    BY <2>2, SocketProc DEF Open
<1> QED
  BY <1>1, <1>2, <1>3, QuietServer DEF Gone, Undisturbed

------------------------------------------------------------
\* What stays of the socket programs when only server q, or client q, moves.
LEMMA OthersStay ==
  ASSUME IInv, NEW p \in SocketProcs, Alone(p)
  PROVE  /\ Others' /\ Serving' = Serving /\ Asking' = Asking
         /\ \A y \in SocketProcs : y \in Procs
         /\ \A y \in SocketProcs \ {p} :
              todo'[y] = todo[y] /\ state'[y] = state[y] /\ status'[y] = status[y]
              /\ got'[y] = got[y]
  BY AloneKeeps, SocketProc DEF IInv, Alone

\* The server takes the first client of its backlog.
LEMMA ServerAccepts ==
  ASSUME IInv, NEW q \in Serving, Step(q), todo[q] = ToAccept
  PROVE  IInv'
<1> USE DEF SocketProcs
<1> DEFINE c == Head(backlog[q])
<1>1. Shape /\ Others /\ failures \in Nat /\ kills \in Nat /\ state[q] = "running" /\ ServerOK(q)
  BY StepIs DEF IInv, Shape
<1>2. /\ Alone(q) /\ UNCHANGED <<state, fds, got, content, linked, failures, kills>>
      /\ backlog[q] # <<>> /\ backlog'[q] = Tail(backlog[q])
      /\ \A y \in Procs \ {q} : backlog'[y] = backlog[y]
      /\ todo'[q] = ToHear(c, q)
  BY <1>1, Accepts
<1>3. /\ Others' /\ Serving' = Serving /\ Asking' = Asking
      /\ \A y \in Serving \cup Asking : y \in Procs
      /\ \A y \in (Serving \cup Asking) \ {q} :
           todo'[y] = todo[y] /\ status'[y] = status[y]
  BY <1>2, OthersStay
<1>4. \A d \in Asking : d # q
  BY NotBoth
<1>5. /\ c \in Asking /\ backlog'[q] \in Seq(Asking)
      /\ \A m, n \in DOMAIN backlog'[q] : backlog'[q][m] = backlog'[q][n] => m = n
      /\ c \notin Backlog(q)' /\ \A d : d \in Backlog(q) <=> d \in Backlog(q)' \/ d = c
  <2> DEFINE b == backlog[q]
  <2>1. b \in Seq(Asking) /\ b # <<>> /\ \A m, n \in DOMAIN b : b[m] = b[n] => m = n
    BY <1>1, <1>2 DEF ServerOK
  <2>2. Backlog(q) = {b[n] : n \in DOMAIN b} /\ Backlog(q)' = {Tail(b)[n] : n \in DOMAIN Tail(b)}
    BY <1>2 DEF Backlog
  <2>3. c = Head(b) /\ backlog'[q] = Tail(b)
    BY <1>2
  <2> HIDE DEF b, c
  <2>4. /\ Head(b) \in Asking /\ Tail(b) \in Seq(Asking) /\ Len(b) \in Nat \ {0}
        /\ DOMAIN b = 1 .. Len(b) /\ DOMAIN Tail(b) = 1 .. Len(b) - 1
        /\ Head(b) = b[1] /\ \A n \in 1 .. Len(b) - 1 : Tail(b)[n] = b[n + 1]
    BY <2>1, HeadTailProperties, EmptySeq, LenProperties
  <2>5. \A m, n \in DOMAIN Tail(b) : Tail(b)[m] = Tail(b)[n] => m = n
    BY <2>1, <2>4
  <2>6. \A n \in DOMAIN Tail(b) : Tail(b)[n] # b[1]
    BY <2>1, <2>4
  <2>7. ASSUME NEW n \in DOMAIN b PROVE b[n] = b[1] \/ \E m \in DOMAIN Tail(b) : b[n] = Tail(b)[m]
    <3>1. CASE n = 1
      BY <3>1
    <3>2. CASE n # 1
      <4>1. n - 1 \in 1 .. Len(b) - 1 /\ n = (n - 1) + 1
        BY <2>4, <3>2
      <4> QED
        BY <2>4, <4>1
    <3> QED
      BY <3>1, <3>2
  <2>8. \A m \in DOMAIN Tail(b) : \E n \in DOMAIN b : Tail(b)[m] = b[n]
    BY <2>4
  <2>9. 1 \in DOMAIN b
    BY <2>4
  <2> DEFINE t == Tail(b)
  <2>10. Backlog(q)' = {t[n] : n \in DOMAIN t}
    BY <2>2
  <2>11. /\ backlog'[q] = t /\ t \in Seq(Asking) /\ c = b[1] /\ b[1] \in Asking
         /\ \A m, n \in DOMAIN t : t[m] = t[n] => m = n
         /\ \A n \in DOMAIN t : t[n] # b[1]
    BY <2>3, <2>4, <2>5, <2>6
  <2>12. /\ \A n \in DOMAIN b : b[n] = b[1] \/ \E m \in DOMAIN t : b[n] = t[m]
         /\ \A m \in DOMAIN t : \E n \in DOMAIN b : t[m] = b[n]
    BY <2>7, <2>8
  <2> HIDE DEF t
  <2>13. c \notin Backlog(q)'
    BY <2>10, <2>11
  <2>14. ASSUME NEW d PROVE d \in Backlog(q) <=> d \in Backlog(q)' \/ d = c
    <3>1. ASSUME d \in Backlog(q) PROVE d \in Backlog(q)' \/ d = c
      <4>1. PICK n \in DOMAIN b : d = b[n]
        BY <2>2, <3>1
      <4>2. b[n] = b[1] \/ \E m \in DOMAIN t : b[n] = t[m]
        BY <2>12
      <4> QED
        BY <2>10, <2>11, <4>1, <4>2
    <3>2. ASSUME d \in Backlog(q)' PROVE d \in Backlog(q)
      <4>1. PICK m \in DOMAIN t : d = t[m]
        BY <2>10, <3>2
      <4> QED
        BY <2>2, <2>12, <4>1
    <3>3. c \in Backlog(q)
      BY <2>2, <2>9, <2>11
    <3> QED
      BY <3>1, <3>2, <3>3
  <2> QED
    BY <2>11, <2>13, <2>14
<1> HIDE DEF c
<1>6. \A s \in Serving \ {q} : Backlog(s)' = Backlog(s)
  BY <1>2, <1>3 DEF Backlog
<1>7. ASSUME NEW d \in Asking, NEW s \in Serving PROVE Waits(d, s)' <=> Waits(d, s)
  <2>1. CASE s = q
    <3>1. Waits(d, q) <=> d \in Backlog(q)
      BY Places DEF Waits
    <3>2. Waits(d, q)' <=> d \in Backlog(q)' \/ d = c
      BY <1>2, <1>5, OneClient, Places DEF Waits
    <3> QED
      BY <1>5, <2>1, <3>1, <3>2
  <2>2. CASE s # q
    BY <1>3, <1>6, <2>2 DEF Waits
  <2> QED
    BY <2>1, <2>2
<1>8. \A s \in Serving : Holding(s)' <=> Holding(s)
  <2>1. Holding(q) /\ Holding(q)'
    BY <1>2, <1>3, <1>5 DEF Holding
  <2>2. \A s \in Serving \ {q} : Holding(s)' <=> Holding(s)
    BY <1>3 DEF Holding
  <2> QED
    BY <2>1, <2>2
<1>9. \A d \in Asking : (Away(d)' <=> Away(d)) /\ AnswersTo(d)' = AnswersTo(d) /\ (Turned(d)' <=> Turned(d))
  BY <1>2, <1>3, <1>4 DEF Away, AnswersTo, Turned
<1>10. ASSUME NEW s \in Serving PROVE ServerOK(s)'
  <2>1. ServerOK(s)
    BY DEF IInv
  <2>2. CASE s = q
    <3>1. got[q] = <<>>
      BY <1>1, Places DEF ServerOK, ServerStage, Before, After
    <3>2. state'[q] = "running" /\ ServerStage(q)'
      BY <1>1, <1>2, <1>3, <1>5, <3>1 DEF ServerStage
    <3>3. Holding(q)' /\ \A d \in Asking' : Waits(d, q)' => EndsFor(d) \subseteq fds'[q]
      BY <1>1, <1>2, <1>3, <1>7, <1>8 DEF ServerOK, Holding
    <3> QED
      BY <1>2, <1>3, <1>5, <2>2, <3>1, <3>2, <3>3 DEF ServerOK
  <2>3. CASE s # q
    <3>1. ServerStage(s)' <=> ServerStage(s)
      BY <1>2, <1>3, <1>4, <1>6, <1>9, <2>3 DEF ServerStage
    <3> QED
      BY <1>2, <1>3, <1>6, <1>7, <1>8, <2>1, <2>3, <3>1 DEF ServerOK, EndsFor
  <2> QED
    BY <2>2, <2>3
<1>11. ASSUME NEW d \in Asking PROVE ClientOK(d)'
  <2>1. ClientOK(d) /\ todo'[d] = todo[d]
    BY <1>3, <1>4 DEF IInv
  <2> QED
    BY <1>2, <1>3, <1>9, <2>1 DEF ClientOK
<1>12. Connections'
  BY <1>2, <1>3, <1>4, <1>7 DEF IInv, Connections
<1>13. Reachable'
  <2>1. todo'[q] \notin {Server, ToListen}
    BY <1>2, Places DEF Before
  <2>2. todo'[q] # ToAccept
    BY <1>2, Places
  <2> QED
    BY <1>2, <2>1, <2>2, NameKept
<1>14. Shape'
  BY <1>1, <1>2 DEF Shape, Alone
<1>15. Patience'
  <2> SUFFICES ASSUME Undisturbed' PROVE Patience'
    BY DEF Patience
  <2>1. Undisturbed /\ Patience
    BY <1>2 DEF IInv, Undisturbed
  <2>2. ASSUME NEW s \in Serving, NEW d \in Asking
        PROVE  /\ Waits(d, s)' /\ Holding(s)' => todo'[d] \in {ToAsk(d), ToRead(d)}
               /\ todo'[s] = ToAnswer(d, s) => todo'[d] = ToRead(d) /\ got'[s] = <<d[1]>>
    <3>1. todo'[d] = todo[d] /\ got'[s] = got[s]
      BY <1>2, <1>3, <1>4
    <3>2. todo'[s] = ToAnswer(d, s) => todo[s] = ToAnswer(d, s)
      BY <1>2, <1>3, Places
    <3> QED
      BY <1>7, <1>8, <2>1, <3>1, <3>2 DEF Patience
  <2>3. ASSUME NEW s \in Serving
        PROVE  Holding(s)' \/ backlog'[s] # <<>> =>
                 got'[s] # <<>> \/ todo'[s] = ToAccept \/ \E d \in Asking : todo'[s] = ToHear(d, s)
    <3>1. CASE s = q
      BY <1>2, <1>5, <3>1
    <3>2. CASE s # q
      BY <1>2, <1>3, <1>8, <2>1, <3>2 DEF Patience
    <3> QED
      BY <3>1, <3>2
  <2>4. ASSUME NEW d \in Asking
        PROVE
         /\ todo'[d] = ToAsk(d) => \E s \in Serving : Waits(d, s)'
         /\ todo'[d] = ToRead(d) => content'[Down(d)] # <<>> \/ \E s \in Serving : Waits(d, s)'
         /\ todo'[d] \in {ToClose, ToExit} \/ (state'[d] = "gone" /\ status'[d] = 0) =>
              got'[d] # <<>> \/ Turned(d)'
         /\ state'[d] = "gone" /\ status'[d] = SIGPIPE => Turned(d)'
    <3>1. todo'[d] = todo[d] /\ state'[d] = state[d] /\ status'[d] = status[d]
      BY <1>2, <1>3, <1>4
    <3> QED
      BY <1>2, <1>7, <1>9, <2>1, <3>1 DEF Patience
  <2> QED
    BY <1>3, <2>2, <2>3, <2>4 DEF Patience
<1> QED
  BY <1>3, <1>10, <1>11, <1>12, <1>13, <1>14, <1>15 DEF IInv

------------------------------------------------------------
\* A client that a server hears, when it has written, and when it is gone.
LEMMA HeardClient ==
  ASSUME IInv, NEW q \in Serving, NEW c \in Asking, todo[q] = ToHear(c, q)
  PROVE  /\ R(Up(c)) \in fds[q] /\ todo[c] # Client(c)
         /\ content[Up(c)] # <<>> => content[Up(c)] = <<c[1]>> /\ todo[c] # ToAsk(c)
         /\ W(Up(c)) \notin fds[c] => Away(c) /\ ~Undisturbed
<1>1. Waits(c, q) /\ Holding(q)
  BY DEF Waits, Holding
<1>2. ClientOK(c) /\ ServerOK(q) /\ todo[c] # Client(c)
  BY <1>1 DEF IInv, Connections
<1>3. Undisturbed => todo[c] \in {ToAsk(c), ToRead(c)}
  BY <1>1 DEF IInv, Patience
<1> QED
  BY <1>1, <1>2, <1>3 DEF ClientOK, ServerOK, EndsFor, Away

\* The server reads the request of its client, or the client's end.
LEMMA ServerHears ==
  ASSUME IInv, NEW q \in Serving, Step(q), NEW c \in Asking, c \notin Backlog(q), got[q] = <<>>,
         todo[q] = ToHear(c, q)
  PROVE  IInv'
<1> USE DEF SocketProcs
<1>1. Shape /\ Others /\ failures \in Nat /\ kills \in Nat /\ state[q] = "running" /\ ServerOK(q)
      /\ ClientOK(c) /\ c # q
  BY StepIs, NotBoth DEF IInv, Shape
<1>2. /\ Alone(q) /\ UNCHANGED <<state, fds, backlog, linked, failures, kills>>
      /\ todo'[q] = ToAnswer(c, q)
      /\ \/ AtEnd(q, Up(c)) /\ UNCHANGED <<got, content>>
         \/ /\ content[Up(c)] # <<>>
            /\ got'[q] = got[q] \o content[Up(c)]
            /\ content'[Up(c)] = <<>> /\ \A m \in Pipe \ {Up(c)} : content'[m] = content[m]
  <2> DEFINE n == Up(c)
  <2>1. n \in Pipe /\ Head(todo[q]) = read(n, <<>>) /\ <<>> \o Tail(todo[q]) = Tail(todo[q])
        /\ Tail(todo[q]) = ToAnswer(c, q)
    BY ServeScript, SocketProc
  <2> HIDE DEF n
  <2>2. /\ Alone(q) /\ UNCHANGED <<state, fds, backlog, linked, failures, kills>>
        /\ todo'[q] = Tail(todo[q])
        /\ \/ AtEnd(q, n) /\ UNCHANGED <<got, content>>
           \/ /\ content[n] # <<>>
              /\ got'[q] = got[q] \o content[n]
              /\ content'[n] = <<>> /\ \A m \in Pipe \ {n} : content'[m] = content[m]
    BY <1>1, <2>1, Reads
  <2> QED
    BY <2>1, <2>2 DEF n
<1>3. /\ Others' /\ Serving' = Serving /\ Asking' = Asking
      /\ \A y \in Serving \cup Asking : y \in Procs /\ Up(y) \in Pipe /\ Down(y) \in Pipe
      /\ \A y \in (Serving \cup Asking) \ {q} :
           todo'[y] = todo[y] /\ status'[y] = status[y] /\ got'[y] = got[y]
  BY <1>2, OthersStay, SocketProc
<1>4. \A d \in Asking : d # q
  BY NotBoth
<1>5. \/ /\ UNCHANGED <<got, content>> /\ got'[q] = <<>> /\ Away(c) /\ ~Undisturbed
      \/ /\ got'[q] = <<c[1]>> /\ content'[Up(c)] = <<>> /\ todo[c] \notin {Client(c), ToAsk(c)}
         /\ \A m \in Pipe \ {Up(c)} : content'[m] = content[m]
  <2>1. CASE AtEnd(q, Up(c)) /\ UNCHANGED <<got, content>> /\ content[Up(c)] = <<>>
    <3>1. W(Up(c)) \notin fds[c]
      BY <2>1, HeardClient, SocketProc DEF AtEnd, Open
    <3> QED
      BY <2>1, <3>1, HeardClient
  <2>2. CASE content[Up(c)] # <<>>
    <3>1. content[Up(c)] = <<c[1]>> /\ ~AtEnd(q, Up(c)) /\ todo[c] \notin {Client(c), ToAsk(c)}
      BY <2>2, HeardClient DEF AtEnd
    <3> DEFINE x == c[1]
    <3>2. <<>> \o <<x>> = <<x>>
      OBVIOUS
    <3> QED
      BY <1>2, <3>1, <3>2
  <2> QED
    BY <1>2, <2>1, <2>2
<1>6. /\ \A d \in Asking : content'[Down(d)] = content[Down(d)]
      /\ \A d \in Asking \ {c} : content'[Up(d)] = content[Up(d)]
      /\ content'[Up(c)] \in {<<>>, <<c[1]>>}
      /\ todo[c] \in {Client(c), ToAsk(c)} => content'[Up(c)] = <<>> /\ got'[q] = <<>>
  <2>1. \A d \in Asking : Down(d) # Up(c) /\ (d # c => Up(d) # Up(c))
    BY TwoConnections
  <2> QED
    BY <1>1, <1>3, <1>5, <2>1 DEF ClientOK
<1>7. ASSUME NEW d \in Asking, NEW s \in Serving PROVE Waits(d, s)' <=> Waits(d, s)
  <2>1. CASE s = q
    BY <1>2, <2>1, OneClient, Places DEF Waits, Backlog
  <2>2. CASE s # q
    BY <1>2, <1>3, <2>2 DEF Waits, Backlog
  <2> QED
    BY <2>1, <2>2
<1>8. /\ Holding(q) /\ \A s \in Serving : Holding(s)' <=> Holding(s)
  <2>1. Holding(q) /\ Holding(q)'
    BY <1>2, <1>3 DEF Holding
  <2>2. \A s \in Serving \ {q} : Holding(s)' <=> Holding(s)
    BY <1>3 DEF Holding
  <2> QED
    BY <2>1, <2>2
<1>9. ASSUME NEW d \in Asking
      PROVE  /\ Away(d)' <=> Away(d)
             /\ AnswersTo(d) \subseteq AnswersTo(d)' /\ Seq(AnswersTo(d)) \subseteq Seq(AnswersTo(d)')
             /\ Turned(d) => Turned(d)'
  <2>1. Away(d)' <=> Away(d)
    BY <1>2, <1>3, <1>4 DEF Away
  <2>2. \A s \in Serving : got[s] # <<>> => got'[s] = got[s]
    BY <1>3
  <2>3. <<d[1]>> # <<>>
    OBVIOUS
  <2>4. AnswersTo(d) \subseteq AnswersTo(d)'
    BY <1>3, <2>2, <2>3 DEF AnswersTo
  <2>5. Turned(d) => Turned(d)'
    BY <1>3, <2>2 DEF Turned
  <2> QED
    BY <2>1, <2>4, <2>5, SeqMonotonic
<1>10. ASSUME NEW s \in Serving PROVE ServerOK(s)'
  <2>1. ServerOK(s)
    BY DEF IInv
  <2>2. CASE s = q
    <3>1. c \in Asking' \ Backlog(q)' /\ (got'[q] = <<c[1]>> \/ (got'[q] = <<>> /\ Away(c)'))
      BY <1>2, <1>3, <1>5, <1>9 DEF Backlog
    <3>2. state'[q] = "running" /\ ServerStage(q)'
      BY <1>1, <1>2, <3>1 DEF ServerStage
    <3>3. Holding(q)' /\ \A d \in Asking' : Waits(d, q)' => EndsFor(d) \subseteq fds'[q]
      BY <1>1, <1>2, <1>3, <1>7, <1>8 DEF ServerOK
    <3>4. got'[q] = <<>> \/ \E d \in Asking' \ Backlog(q)' : got'[q] = <<d[1]>>
      BY <3>1
    <3> QED
      BY <1>1, <1>2, <1>3, <2>2, <3>2, <3>3, <3>4 DEF ServerOK
  <2>3. CASE s # q
    <3>1. Backlog(s)' = Backlog(s)
      BY <1>2 DEF Backlog
    <3>2. ServerStage(s)' <=> ServerStage(s)
      BY <1>2, <1>3, <1>4, <1>9, <2>3, <3>1 DEF ServerStage
    <3> QED
      BY <1>2, <1>3, <1>7, <1>8, <2>1, <2>3, <3>1, <3>2 DEF ServerOK, EndsFor
  <2> QED
    BY <2>2, <2>3
<1>11. ASSUME NEW d \in Asking PROVE ClientOK(d)'
  <2>1. ClientOK(d) /\ todo'[d] = todo[d] /\ got'[d] = got[d]
    BY <1>3, <1>4 DEF IInv
  <2>2. content'[Up(d)] \in {<<>>, <<d[1]>>}
    BY <1>6, <2>1 DEF ClientOK
  <2>3. todo'[d] \in {Client(d), ToAsk(d)} =>
          content'[Up(d)] = <<>> /\ \A s \in Serving : got'[s] # <<d[1]>>
    <3>1. d # c => <<d[1]>> # <<c[1]>>
      BY SameProc
    <3>2. <<d[1]>> # <<>>
      OBVIOUS
    <3>3. todo'[d] \in {Client(d), ToAsk(d)} => got'[q] # <<d[1]>>
      BY <1>5, <1>6, <2>1, <3>1, <3>2
    <3> QED
      BY <1>3, <1>6, <2>1, <3>3 DEF ClientOK
  <2>4. content'[Down(d)] = content[Down(d)]
    BY <1>6
  <2>5. Seq(AnswersTo(d)) \subseteq Seq(AnswersTo(d)') /\ (Away(d)' <=> Away(d))
    BY <1>9
  <2> QED
    BY <1>2, <1>3, <2>1, <2>2, <2>3, <2>4, <2>5 DEF ClientOK
<1>12. Connections'
  BY <1>3, <1>4, <1>6, <1>7 DEF IInv, Connections
<1>13. Reachable'
  <2>1. todo'[q] \notin {Server, ToListen}
    BY <1>2, Places DEF Before
  <2>2. todo'[q] # ToAccept
    BY <1>2, Places
  <2> QED
    BY <1>2, <2>1, <2>2, NameKept
<1>14. Shape'
  <2>1. IsSeq(got'[q]) /\ \A n \in Pipe : IsSeq(content'[n])
    BY <1>1, <1>3, <1>5, EmptyIsSeq, SingleIsSeq DEF Shape
  <2> QED
    BY <1>1, <1>2, <2>1 DEF Shape, Alone
<1>15. Patience'
  <2> SUFFICES ASSUME Undisturbed' PROVE Patience'
    BY DEF Patience
  <2>1. Undisturbed /\ Patience
    BY <1>2 DEF IInv, Undisturbed
  <2>2. got'[q] = <<c[1]>> /\ todo[c] # ToAsk(c)
    BY <1>5, <2>1
  <2>3. ASSUME NEW s \in Serving, NEW d \in Asking
        PROVE  /\ Waits(d, s)' /\ Holding(s)' => todo'[d] \in {ToAsk(d), ToRead(d)}
               /\ todo'[s] = ToAnswer(d, s) => todo'[d] = ToRead(d) /\ got'[s] = <<d[1]>>
    <3>1. todo'[d] = todo[d]
      BY <1>3, <1>4
    <3>2. CASE s = q
      <4>1. todo'[s] = ToAnswer(d, s) => d = c
        <5>1. ToAnswer(c, q) = ToAnswer(d, q) => c = d
          BY OneClient
        <5> QED
          BY <1>2, <3>2, <5>1
      <4>2. Waits(c, q) /\ todo[c] \in {ToAsk(c), ToRead(c)}
        BY <1>8, <2>1 DEF Waits, Patience
      <4> QED
        BY <1>7, <1>8, <2>1, <2>2, <3>1, <3>2, <4>1, <4>2 DEF Patience
    <3>3. CASE s # q
      BY <1>3, <1>7, <1>8, <2>1, <3>1, <3>3 DEF Patience
    <3> QED
      BY <3>2, <3>3
  <2>4. ASSUME NEW s \in Serving
        PROVE  Holding(s)' \/ backlog'[s] # <<>> =>
                 got'[s] # <<>> \/ todo'[s] = ToAccept \/ \E d \in Asking : todo'[s] = ToHear(d, s)
    <3>1. CASE s = q
      <4>1. <<c[1]>> # <<>>
        OBVIOUS
      <4> QED
        BY <2>2, <3>1, <4>1
    <3>2. CASE s # q
      BY <1>2, <1>3, <1>8, <2>1, <3>2 DEF Patience
    <3> QED
      BY <3>1, <3>2
  <2>5. ASSUME NEW d \in Asking
        PROVE
         /\ todo'[d] = ToAsk(d) => \E s \in Serving : Waits(d, s)'
         /\ todo'[d] = ToRead(d) => content'[Down(d)] # <<>> \/ \E s \in Serving : Waits(d, s)'
         /\ todo'[d] \in {ToClose, ToExit} \/ (state'[d] = "gone" /\ status'[d] = 0) =>
              got'[d] # <<>> \/ Turned(d)'
         /\ state'[d] = "gone" /\ status'[d] = SIGPIPE => Turned(d)'
    <3>1. /\ todo'[d] = todo[d] /\ state'[d] = state[d] /\ status'[d] = status[d]
          /\ got'[d] = got[d] /\ content'[Down(d)] = content[Down(d)]
      BY <1>2, <1>3, <1>4, <1>6
    <3> QED
      BY <1>7, <1>9, <2>1, <3>1 DEF Patience
  <2> QED
    BY <1>3, <2>3, <2>4, <2>5 DEF Patience
<1> QED
  BY <1>3, <1>10, <1>11, <1>12, <1>13, <1>14, <1>15 DEF IInv

------------------------------------------------------------
\* The server answers with its own number, or dies of a client that went away.
LEMMA ServerAnswers ==
  ASSUME IInv, NEW q \in Serving, Step(q), NEW c \in Asking, c \notin Backlog(q),
         got[q] = <<c[1]>> \/ (got[q] = <<>> /\ Away(c)),
         todo[q] = ToAnswer(c, q)
  PROVE  IInv'
<1> USE DEF SocketProcs
<1>1. Shape /\ Others /\ failures \in Nat /\ kills \in Nat /\ state[q] = "running" /\ ServerOK(q)
      /\ ClientOK(c) /\ c # q
  BY StepIs, NotBoth DEF IInv, Shape
<1>2. /\ Waits(c, q) /\ Holding(q) /\ W(Down(c)) \in fds[q] /\ todo[c] # Client(c)
      /\ content[Down(c)] = <<>> /\ \A s \in Serving : Waits(c, s) => s = q
  <2>1. Waits(c, q) /\ Holding(q)
    BY DEF Waits, Holding
  <2> QED
    BY <1>1, <2>1 DEF IInv, Connections, ServerOK, EndsFor
<1> DEFINE n == Down(c)
           m == q[1]
<1>3. n \in Pipe /\ Head(todo[q]) = write(n, m) /\ Tail(todo[q]) = ToHangUp(c) /\ W(n) \in fds[q]
  BY <1>2, ServeScript, SocketProc
<1> HIDE DEF n, m
<1>4. \/ /\ Gone(q) /\ status'[q] = SIGPIPE /\ Open(R(n)) = {} /\ UNCHANGED <<failures, kills>>
      \/ /\ Alone(q) /\ UNCHANGED <<state, fds, got, backlog, linked, failures, kills>>
         /\ todo'[q] = Tail(todo[q])
         /\ content'[n] = Append(content[n], m)
         /\ \A k \in Pipe \ {n} : content'[k] = content[k]
  BY <1>1, <1>3, Sends
<1>5. CASE Gone(q) /\ Open(R(n)) = {} /\ UNCHANGED <<failures, kills>>
  BY <1>5, ServerDies DEF n
<1>6. CASE /\ Alone(q) /\ UNCHANGED <<state, fds, got, backlog, linked, failures, kills>>
           /\ todo'[q] = Tail(todo[q])
           /\ content'[n] = Append(content[n], m)
           /\ \A k \in Pipe \ {n} : content'[k] = content[k]
  <2>1. /\ Alone(q) /\ UNCHANGED <<state, fds, got, backlog, linked, failures, kills>>
        /\ todo'[q] = ToHangUp(c) /\ content'[Down(c)] = <<q[1]>>
        /\ \A k \in Pipe \ {Down(c)} : content'[k] = content[k]
    <3>1. Append(<<>>, m) = <<m>>
      OBVIOUS
    <3> QED
      BY <1>2, <1>3, <1>6, <3>1 DEF n, m
  <2>2. /\ Others' /\ Serving' = Serving /\ Asking' = Asking
        /\ \A y \in Serving \cup Asking : y \in Procs /\ Up(y) \in Pipe /\ Down(y) \in Pipe
        /\ \A y \in (Serving \cup Asking) \ {q} :
             todo'[y] = todo[y] /\ status'[y] = status[y]
    BY <2>1, OthersStay, SocketProc
  <2>3. \A d \in Asking : d # q
    BY NotBoth
  <2>4. /\ \A d \in Asking : content'[Up(d)] = content[Up(d)]
        /\ \A d \in Asking \ {c} : content'[Down(d)] = content[Down(d)]
    <3>1. \A d \in Asking : Up(d) # Down(c) /\ (d # c => Down(d) # Down(c))
      BY TwoConnections
    <3> QED
      BY <2>1, <2>2, <3>1
  <2>5. \A s \in Serving : Backlog(s)' = Backlog(s)
    BY <2>1 DEF Backlog
  <2>6. ASSUME NEW d \in Asking, NEW s \in Serving PROVE Waits(d, s)' <=> Waits(d, s) /\ d # c
    <3>1. CASE s = q
      <4>1. \A e : todo'[q] # ToHear(e, q) /\ todo'[q] # ToAnswer(e, q)
        BY <2>1, Places
      <4>2. \A e : todo[q] # ToHear(e, q)
        BY Places
      <4>3. ToAnswer(c, q) = ToAnswer(d, q) => c = d
        BY OneClient
      <4> QED
        BY <2>5, <3>1, <4>1, <4>2, <4>3 DEF Waits
    <3>2. CASE s # q
      BY <1>2, <2>2, <2>5, <3>2 DEF Waits
    <3> QED
      BY <3>1, <3>2
  <2>7. \A s \in Serving : Holding(s)' <=> Holding(s)
    <3>1. Holding(q)'
      BY <2>1, <2>2 DEF Holding
    <3>2. \A s \in Serving \ {q} : Holding(s)' <=> Holding(s)
      BY <2>2 DEF Holding
    <3> QED
      BY <1>2, <3>1, <3>2
  <2>8. \A d \in Asking : (Away(d)' <=> Away(d)) /\ AnswersTo(d)' = AnswersTo(d) /\ (Turned(d)' <=> Turned(d))
    BY <2>1, <2>2, <2>3 DEF Away, AnswersTo, Turned
  <2>9. ASSUME NEW s \in Serving PROVE ServerOK(s)'
    <3>1. ServerOK(s)
      BY DEF IInv
    <3>2. \A d \in Asking : Waits(d, s)' => EndsFor(d) \subseteq fds[s] \/ ~Holding(s)
      BY <2>6, <3>1 DEF ServerOK
    <3>3. CASE s = q
      <4>1. state'[q] = "running" /\ ServerStage(q)'
        BY <1>1, <1>2, <2>1, <2>2, <2>3, <2>5 DEF ServerStage
      <4> QED
        BY <1>2, <2>1, <2>2, <2>5, <2>7, <3>1, <3>2, <3>3, <4>1 DEF ServerOK, EndsFor
    <3>4. CASE s # q
      <4>1. ServerStage(s)' <=> ServerStage(s)
        BY <2>1, <2>2, <2>3, <2>5, <2>8, <3>4 DEF ServerStage
      <4> QED
        BY <2>1, <2>2, <2>5, <2>7, <3>1, <3>2, <3>4, <4>1 DEF ServerOK, EndsFor
    <3> QED
      BY <3>3, <3>4
  <2>10. ASSUME NEW d \in Asking PROVE ClientOK(d)'
    <3>1. ClientOK(d) /\ todo'[d] = todo[d]
      BY <2>2, <2>3 DEF IInv
    <3>2. todo'[d] = Client(d) => content'[Down(d)] = <<>>
      BY <1>2, <2>4, <3>1 DEF ClientOK
    <3>3. ~Away(d)' => content'[Down(d)] \in Seq(AnswersTo(d))
      <4>1. CASE d = c
        <5>1. ASSUME ~Away(c) PROVE q[1] \in AnswersTo(c)
          BY <5>1 DEF AnswersTo
        <5>2. ASSUME NEW S, NEW x \in S PROVE <<x>> \in Seq(S)
          OBVIOUS
        <5> DEFINE A == AnswersTo(c)
        <5>3. ~Away(c) => q[1] \in A
          BY <5>1
        <5> HIDE DEF A
        <5>4. ~Away(c) => <<q[1]>> \in Seq(A)
          BY <5>2, <5>3
        <5> QED
          BY <2>1, <2>8, <4>1, <5>4 DEF A
      <4>2. CASE d # c
        BY <2>4, <2>8, <3>1, <4>2 DEF ClientOK
      <4> QED
        BY <4>1, <4>2
    <3> QED
      BY <2>1, <2>2, <2>4, <2>8, <3>1, <3>2, <3>3 DEF ClientOK
  <2>11. Connections'
    BY <2>2, <2>3, <2>4, <2>6 DEF IInv, Connections
  <2>12. Reachable'
    BY <2>1, NameKept, Places DEF Before
  <2>13. Shape'
    <3>1. IsSeq(content'[Down(c)])
      BY <2>1, SingleIsSeq
    <3> QED
      BY <1>1, <2>1, <3>1 DEF Shape, Alone
  <2>14. Patience'
    <3> SUFFICES ASSUME Undisturbed' PROVE Patience'
      BY DEF Patience
    <3>1. Undisturbed /\ Patience
      BY <2>1 DEF IInv, Undisturbed
    <3>2. todo[c] = ToRead(c) /\ got[q] = <<c[1]>>
      BY <3>1 DEF Patience
    <3>3. ASSUME NEW s \in Serving, NEW d \in Asking
          PROVE  /\ Waits(d, s)' /\ Holding(s)' => todo'[d] \in {ToAsk(d), ToRead(d)}
                 /\ todo'[s] = ToAnswer(d, s) => todo'[d] = ToRead(d) /\ got'[s] = <<d[1]>>
      <4>1. todo'[d] = todo[d]
        BY <2>2, <2>3
      <4>2. todo'[s] = ToAnswer(d, s) => todo[s] = ToAnswer(d, s)
        BY <2>1, <2>2, Places
      <4> QED
        BY <2>1, <2>6, <2>7, <3>1, <4>1, <4>2 DEF Patience
    <3>4. ASSUME NEW s \in Serving
          PROVE  Holding(s)' \/ backlog'[s] # <<>> =>
                   got'[s] # <<>> \/ todo'[s] = ToAccept \/ \E d \in Asking : todo'[s] = ToHear(d, s)
      <4>1. CASE s = q
        <5>1. <<c[1]>> # <<>>
          OBVIOUS
        <5> QED
          BY <2>1, <3>2, <4>1, <5>1
      <4>2. CASE s # q
        BY <2>1, <2>2, <2>7, <3>1, <4>2 DEF Patience
      <4> QED
        BY <4>1, <4>2
    <3>5. ASSUME NEW d \in Asking
          PROVE
           /\ todo'[d] = ToAsk(d) => \E s \in Serving : Waits(d, s)'
           /\ todo'[d] = ToRead(d) => content'[Down(d)] # <<>> \/ \E s \in Serving : Waits(d, s)'
           /\ todo'[d] \in {ToClose, ToExit} \/ (state'[d] = "gone" /\ status'[d] = 0) =>
                got'[d] # <<>> \/ Turned(d)'
           /\ state'[d] = "gone" /\ status'[d] = SIGPIPE => Turned(d)'
      <4>1. todo'[d] = todo[d] /\ state'[d] = state[d] /\ status'[d] = status[d] /\ got'[d] = got[d]
        BY <2>1, <2>2, <2>3
      <4>2. CASE d = c
        <5>1. todo[c] # ToAsk(c)
          BY <3>2, ClientPlaces
        <5>2. <<q[1]>> # <<>>
          OBVIOUS
        <5> QED
          BY <2>1, <2>8, <3>1, <4>1, <4>2, <5>1, <5>2 DEF Patience
      <4>3. CASE d # c
        BY <2>4, <2>6, <2>8, <3>1, <4>1, <4>3 DEF Patience
      <4> QED
        BY <4>2, <4>3
    <3> QED
      BY <2>2, <3>3, <3>4, <3>5 DEF Patience
  <2> QED
    BY <2>2, <2>9, <2>10, <2>11, <2>12, <2>13, <2>14 DEF IInv
<1> QED
  BY <1>4, <1>5, <1>6

\* Every step of a server preserves the invariant.
LEMMA ServerPreserves ==
  ASSUME IInv, NEW q \in Serving, Step(q) \/ Signal(q)
  PROVE  IInv'
<1>1. CASE Signal(q)
  BY <1>1, ServerKilled
<1>2. CASE Step(q)
  <2>1. ServerStage(q)
    BY <1>2, StepIs DEF IInv, ServerOK
  <2>2. CASE todo[q] \in Before
    BY <1>2, <2>2, ServerBefore
  <2>3. CASE todo[q] = ToAccept
    BY <1>2, <2>3, ServerAccepts
  <2>4. ASSUME NEW c \in Asking \ Backlog(q), todo[q] = ToHear(c, q), got[q] = <<>> PROVE IInv'
    BY <1>2, <2>4, ServerHears
  <2>5. ASSUME NEW c \in Asking \ Backlog(q), todo[q] = ToAnswer(c, q),
               got[q] = <<c[1]>> \/ (got[q] = <<>> /\ Away(c))
        PROVE  IInv'
    BY <1>2, <2>5, ServerAnswers
  <2>6. ASSUME NEW c \in Asking \ Backlog(q), todo[q] = ToHangUp(c) PROVE IInv'
    BY <1>2, <2>6, ServerHangsUp
  <2>7. CASE todo[q] \in {ToCloseAll, ToUnlink, ToExit}
    BY <1>2, <2>7, ServerLeaves
  <2> QED
    BY <2>1, <2>2, <2>3, <2>4, <2>5, <2>6, <2>7 DEF ServerStage, Before
<1> QED
  BY <1>1, <1>2

------------------------------------------------------------
\* A client that waits for a server which holds its connection no more was
\* behind another one.
LEMMA Abandoned ==
  ASSUME IInv, Undisturbed, NEW c \in Asking, NEW q \in Serving, Waits(c, q), ~Holding(q)
  PROVE  Turned(c)
<1>1. c \in Backlog(q)
  BY DEF Waits, Holding
<1>2. backlog[q] # <<>>
  BY <1>1 DEF Backlog
<1>3. got[q] # <<>>
  BY <1>2 DEF Holding, IInv, Patience
<1>4. PICK x \in Asking \ Backlog(q) : got[q] = <<x[1]>>
  BY <1>3 DEF IInv, ServerOK
<1>5. x[1] # c[1]
  BY <1>1, SameProc DEF SocketProcs
<1> QED
  BY <1>3, <1>4, <1>5 DEF Turned

\* A client changes only its own place and gives descriptors up.
LEMMA ClientChanges ==
  ASSUME IInv, NEW c \in Asking, Silent(c), linked'[SOCKET_PATH] = linked[SOCKET_PATH],
         ClientOK(c)', fds'[c] \subseteq fds[c], failures' \in Nat, kills' \in Nat,
         todo'[c] \notin {Client(c), ToAsk(c), ToRead(c)},
         Undisturbed' =>
           /\ Undisturbed
           /\ \A q \in Serving : Waits(c, q) => ~Holding(q)
           /\ todo'[c] \in {ToClose, ToExit} \/ (state'[c] = "gone" /\ status'[c] = 0) =>
                got[c] # <<>> \/ Turned(c)
           /\ state'[c] = "gone" /\ status'[c] = SIGPIPE => Turned(c)
  PROVE  IInv'
<1> USE DEF SocketProcs
<1>1. /\ Alone(c) /\ UNCHANGED <<got, content, backlog>>
      /\ \A y \in Procs \ {c} : fds'[y] = fds[y]
  BY DEF Silent
<1>2. /\ Others' /\ Serving' = Serving /\ Asking' = Asking
      /\ \A y \in Serving \cup Asking : y \in Procs
      /\ \A y \in (Serving \cup Asking) \ {c} :
           todo'[y] = todo[y] /\ state'[y] = state[y] /\ status'[y] = status[y]
  BY <1>1, OthersStay
<1>3. \A s \in Serving : s # c
  BY NotBoth
<1>4. Shape'
  BY <1>1 DEF IInv, Shape, Alone
<1>5. Reachable'
  BY <1>1, <1>3, NameKept
<1>6. \A s \in Serving : Backlog(s)' = Backlog(s) /\ (Holding(s)' <=> Holding(s))
  BY <1>1, <1>2, <1>3 DEF Backlog, Holding
<1>7. \A d \in Asking, s \in Serving : Waits(d, s)' <=> Waits(d, s)
  BY <1>2, <1>3, <1>6 DEF Waits
<1>8. \A d \in Asking : (Away(d) => Away(d)') /\ AnswersTo(d)' = AnswersTo(d) /\ (Turned(d)' <=> Turned(d))
  BY <1>1, <1>2, <1>3 DEF Away, AnswersTo, Turned
<1>9. \A d \in Asking : todo[d] # Client(d) => todo'[d] # Client(d)
  BY <1>2
<1>10. ASSUME NEW s \in Serving PROVE ServerOK(s)'
  <2>1. ServerOK(s)
    BY DEF IInv
  <2>2. ServerStage(s) => ServerStage(s)'
    BY <1>1, <1>2, <1>3, <1>6, <1>8, <1>9 DEF ServerStage
  <2>3. todo'[s] = todo[s] /\ state'[s] = state[s] /\ fds'[s] = fds[s]
    BY <1>1, <1>2, <1>3
  <2> QED
    BY <1>1, <1>2, <1>6, <1>7, <2>1, <2>2, <2>3 DEF ServerOK, EndsFor
<1>11. ASSUME NEW d \in Asking PROVE ClientOK(d)'
  <2>1. CASE d = c
    BY <2>1
  <2>2. CASE d # c
    <3>1. ClientOK(d) /\ todo'[d] = todo[d] /\ state'[d] = state[d] /\ fds'[d] = fds[d]
      BY <1>1, <1>2, <2>2 DEF IInv
    <3>2. Away(d)' <=> Away(d)
      BY <3>1 DEF Away
    <3> QED
      BY <1>1, <1>2, <1>8, <3>1, <3>2 DEF ClientOK
  <2> QED
    BY <2>1, <2>2
<1>12. Connections'
  <2>1. ASSUME NEW d \in Asking, NEW s \in Serving, Waits(d, s)'
        PROVE  todo'[d] # Client(d) /\ content'[Down(d)] = <<>>
               /\ \A t \in Serving : Waits(d, t)' => t = s
    BY <1>1, <1>7, <1>9, <2>1 DEF IInv, Connections
  <2> QED
    BY <1>2, <2>1 DEF Connections
<1>13. Patience'
  <2> SUFFICES ASSUME Undisturbed' PROVE Patience'
    BY DEF Patience
  <2>1. Undisturbed /\ Patience
    BY DEF IInv
  <2>2. ASSUME NEW s \in Serving, NEW d \in Asking
        PROVE  /\ Waits(d, s)' /\ Holding(s)' => todo'[d] \in {ToAsk(d), ToRead(d)}
               /\ todo'[s] = ToAnswer(d, s) => todo'[d] = ToRead(d) /\ got'[s] = <<d[1]>>
    <3>1. CASE d = c
      <4>1. ~(Waits(d, s) /\ Holding(s))
        BY <3>1
      <4>2. todo'[s] # ToAnswer(d, s)
        BY <1>2, <1>3, <4>1 DEF Waits, Holding
      <4> QED
        BY <1>6, <1>7, <4>1, <4>2
    <3>2. CASE d # c
      <4>1. todo'[d] = todo[d] /\ todo'[s] = todo[s] /\ got'[s] = got[s]
        BY <1>1, <1>2, <1>3, <3>2
      <4> QED
        BY <1>6, <1>7, <2>1, <4>1 DEF Patience
    <3> QED
      BY <3>1, <3>2
  <2>3. ASSUME NEW s \in Serving
        PROVE  Holding(s)' \/ backlog'[s] # <<>> =>
                 got'[s] # <<>> \/ todo'[s] = ToAccept \/ \E d \in Asking : todo'[s] = ToHear(d, s)
    BY <1>1, <1>2, <1>3, <1>6, <2>1 DEF Patience
  <2>4. ASSUME NEW d \in Asking
        PROVE
         /\ todo'[d] = ToAsk(d) => \E s \in Serving : Waits(d, s)'
         /\ todo'[d] = ToRead(d) => content'[Down(d)] # <<>> \/ \E s \in Serving : Waits(d, s)'
         /\ todo'[d] \in {ToClose, ToExit} \/ (state'[d] = "gone" /\ status'[d] = 0) =>
              got'[d] # <<>> \/ Turned(d)'
         /\ state'[d] = "gone" /\ status'[d] = SIGPIPE => Turned(d)'
    <3>1. CASE d = c
      BY <1>1, <1>8, <3>1
    <3>2. CASE d # c
      <4>1. todo'[d] = todo[d] /\ state'[d] = state[d] /\ status'[d] = status[d]
        BY <1>2, <3>2
      <4> QED
        BY <1>1, <1>7, <1>8, <2>1, <4>1 DEF Patience
    <3> QED
      BY <3>1, <3>2
  <2> QED
    BY <1>2, <2>2, <2>3, <2>4 DEF Patience
<1> QED
  BY <1>2, <1>4, <1>5, <1>10, <1>11, <1>12, <1>13 DEF IInv

\* What the kernel leaves of a client after such a step.
LEMMA QuietClient ==
  ASSUME IInv, NEW c \in Asking, Silent(c), fds'[c] \subseteq fds[c],
         linked'[SOCKET_PATH] = linked[SOCKET_PATH],
         \/ /\ state'[c] = "running" /\ todo'[c] \in {ToExit, ToGiveUp, ToFail}
            /\ fds'[c] = {}
         \/ state'[c] = "running" /\ todo'[c] = ToClose /\ fds'[c] = {W(Up(c)), R(Down(c))}
         \/ state'[c] = "gone" /\ todo'[c] = <<>> /\ fds'[c] = {},
         failures' \in Nat, kills' \in Nat,
         Undisturbed' =>
           /\ Undisturbed
           /\ \A q \in Serving : Waits(c, q) => ~Holding(q)
           /\ todo'[c] \in {ToClose, ToExit} \/ (state'[c] = "gone" /\ status'[c] = 0) =>
                got[c] # <<>> \/ Turned(c)
           /\ state'[c] = "gone" /\ status'[c] = SIGPIPE => Turned(c),
         todo'[c] = ToClose => ~Away(c)
  PROVE  IInv'
<1> USE DEF SocketProcs
<1>1. Alone(c) /\ UNCHANGED <<got, content, backlog>>
  BY DEF Silent
<1>2. Serving' = Serving /\ Asking' = Asking
  BY <1>1, OthersStay
<1>3. todo'[c] \notin {Client(c), ToAsk(c), ToRead(c)}
  BY ClientPlaces
<1>4. ClientOK(c)
  BY DEF IInv
<1>5. ClientOK(c)'
  <2>1. AnswersTo(c)' = AnswersTo(c)
    BY <1>1, <1>2 DEF AnswersTo
  <2>2. ~Away(c)' => todo'[c] = ToClose /\ ~Away(c)
    BY <1>3 DEF Away
  <2>3. fds'[c] = IF todo'[c] \in {ToAsk(c), ToRead(c), ToClose} THEN {W(Up(c)), R(Down(c))} ELSE {}
    BY <1>3, ClientPlaces
  <2>4. /\ \/ /\ state'[c] = "running"
              /\ todo'[c] \in {Client(c), ToAsk(c), ToRead(c), ToClose, ToExit, ToGiveUp, ToFail}
           \/ state'[c] = "gone" /\ todo'[c] = <<>>
        /\ content'[Up(c)] \in {<<>>, <<c[1]>>}
        /\ got'[c] \in Seq(AnswersTo(c)')
        /\ ~Away(c)' => content'[Down(c)] \in Seq(AnswersTo(c)')
    BY <1>1, <1>4, <2>1, <2>2 DEF ClientOK
  <2> QED
    BY <1>3, <2>3, <2>4 DEF ClientOK
<1> QED
  BY <1>3, <1>5, ClientChanges

------------------------------------------------------------
\* The end of a client that asks or reads, and nobody else is there any more.
LEMMA LeftAlone ==
  ASSUME IInv, NEW c \in Asking, todo[c] \in {ToAsk(c), ToRead(c)}, content[Down(c)] = <<>>,
         Open(R(Up(c))) = {} \/ Open(W(Down(c))) = {}
  PROVE  Undisturbed => /\ \A q \in Serving : Waits(c, q) => ~Holding(q)
                        /\ Turned(c)
<1>1. ASSUME NEW q \in Serving, Waits(c, q) PROVE ~Holding(q)
  <2>1. q \in Procs
    BY SocketProc DEF SocketProcs
  <2>2. ~(EndsFor(c) \subseteq fds[q])
    BY <2>1 DEF EndsFor, Open
  <2> QED
    BY <1>1, <2>2 DEF IInv, ServerOK
<1>2. Undisturbed => \E q \in Serving : Waits(c, q)
  BY DEF IInv, Patience
<1> QED
  BY <1>1, <1>2, Abandoned

\* The client closes and exits, after an answer or after a failed connect.
LEMMA ClientCloses ==
  ASSUME IInv, NEW c \in Asking, Step(c), todo[c] \in {ToClose, ToExit, ToGiveUp, ToFail}
  PROVE  IInv'
<1> USE DEF SocketProcs
<1>1. Shape /\ Others /\ failures \in Nat /\ kills \in Nat /\ state[c] = "running" /\ ClientOK(c)
  BY StepIs DEF IInv, Shape
<1>2. Undisturbed => /\ \A q \in Serving : Waits(c, q) => ~Holding(q)
                     /\ todo[c] \in {ToClose, ToExit} => got[c] # <<>> \/ Turned(c)
  <2>1. todo[c] \notin {ToAsk(c), ToRead(c)}
    BY ClientPlaces
  <2> QED
    BY <2>1 DEF IInv, Patience
<1>3. CASE todo[c] = ToClose
  <2>1. /\ Silent(c) /\ state'[c] = state[c] /\ UNCHANGED <<linked, failures, kills>>
        /\ todo'[c] = ToExit /\ fds'[c] = {}
    BY <1>1, <1>3, ClosesAll, ClientScript
  <2>2. ToExit # ToClose
    BY ServerLengths
  <2> QED
    BY <1>1, <1>2, <1>3, <2>1, <2>2, QuietClient DEF Undisturbed
<1>4. CASE todo[c] = ToGiveUp
  <2>1. /\ Silent(c) /\ state'[c] = state[c] /\ UNCHANGED <<linked, failures, kills>>
        /\ todo'[c] = ToFail /\ fds'[c] = {}
    BY <1>1, <1>4, ClosesAll, ServerScript
  <2>2. ToFail \notin {ToClose, ToExit}
    BY ServerLengths, Calling
  <2> QED
    BY <1>1, <1>2, <2>1, <2>2, QuietClient DEF Undisturbed
<1>5. CASE todo[c] = ToExit
  <2>1. Gone(c) /\ status'[c] = 0 /\ UNCHANGED <<failures, kills>>
    BY <1>1, <1>5, Exits, ServerScript
  <2>2. <<>> \notin {ToClose, ToExit} /\ 0 # SIGPIPE
    BY ClientPlaces DEF SIGPIPE
  <2> QED
    BY <1>1, <1>2, <1>5, <2>1, <2>2, QuietClient DEF Undisturbed, Gone
<1>6. CASE todo[c] = ToFail
  <2>1. Gone(c) /\ status'[c] = 1 /\ UNCHANGED <<failures, kills>>
    BY <1>1, <1>6, Exits, ServerScript
  <2>2. <<>> \notin {ToClose, ToExit} /\ 1 # 0 /\ 1 # SIGPIPE
    BY ClientPlaces DEF SIGPIPE
  <2> QED
    BY <1>1, <1>2, <2>1, <2>2, QuietClient DEF Undisturbed, Gone
<1> QED
  BY <1>3, <1>4, <1>5, <1>6

\* A client is killed.
LEMMA ClientKilled ==
  ASSUME IInv, NEW c \in Asking, Signal(c)
  PROVE  IInv'
<1> USE DEF SocketProcs
<1>1. Shape /\ Others /\ failures \in Nat /\ kills \in Nat
  BY DEF IInv, Shape
<1>2. Gone(c) /\ failures' = failures /\ kills' = kills + 1
  BY <1>1, Killed
<1>3. ~Undisturbed' /\ <<>> # ToClose
  BY <1>1, <1>2, ClientPlaces DEF Undisturbed
<1> QED
  BY <1>1, <1>2, <1>3, QuietClient DEF Gone

\* The request, which finds its server or ends the client.
LEMMA ClientAsks ==
  ASSUME IInv, NEW c \in Asking, Step(c), todo[c] = ToAsk(c)
  PROVE  IInv'
<1> USE DEF SocketProcs
<1>1. Shape /\ Others /\ failures \in Nat /\ kills \in Nat /\ state[c] = "running" /\ ClientOK(c)
  BY StepIs DEF IInv, Shape
<1>2. /\ fds[c] = {W(Up(c)), R(Down(c))} /\ content[Up(c)] = <<>> /\ got[c] = <<>>
      /\ todo[c] # Client(c) /\ ~Away(c)
  BY <1>1, ClientPlaces DEF ClientOK, Away
<1> DEFINE n == Up(c)
           m == c[1]
<1>3. n \in Pipe /\ Head(todo[c]) = write(n, m) /\ Tail(todo[c]) = ToRead(c) /\ W(n) \in fds[c]
  BY <1>2, ClientScript, SocketProc
<1> HIDE DEF n, m
<1>4. \/ /\ Gone(c) /\ status'[c] = SIGPIPE /\ Open(R(n)) = {} /\ UNCHANGED <<failures, kills>>
      \/ /\ Alone(c) /\ UNCHANGED <<state, fds, got, backlog, linked, failures, kills>>
         /\ todo'[c] = Tail(todo[c])
         /\ content'[n] = Append(content[n], m)
         /\ \A k \in Pipe \ {n} : content'[k] = content[k]
  BY <1>1, <1>3, Sends
<1>5. CASE /\ Gone(c) /\ status'[c] = SIGPIPE /\ Open(R(n)) = {} /\ UNCHANGED <<failures, kills>>
  <2>1. Undisturbed => \E q \in Serving : Waits(c, q)
    BY DEF IInv, Patience
  <2>2. ASSUME NEW q \in Serving, Waits(c, q) PROVE ~Holding(q) /\ content[Down(c)] = <<>>
    <3>1. q \in Procs /\ R(Up(c)) \notin fds[q]
      BY <1>5, SocketProc DEF Open, n
    <3> QED
      BY <2>2, <3>1 DEF IInv, ServerOK, EndsFor, Connections
  <2>3. Undisturbed => Turned(c)
    BY <2>1, <2>2, Abandoned
  <2>4. <<>> \notin {ToClose, ToExit} /\ SIGPIPE # 0
    BY ClientPlaces DEF SIGPIPE
  <2> QED
    BY <1>1, <1>5, <2>2, <2>3, <2>4, QuietClient DEF Undisturbed, Gone
<1>6. CASE /\ Alone(c) /\ UNCHANGED <<state, fds, got, backlog, linked, failures, kills>>
           /\ todo'[c] = Tail(todo[c])
           /\ content'[n] = Append(content[n], m)
           /\ \A k \in Pipe \ {n} : content'[k] = content[k]
  <2>1. /\ Alone(c) /\ UNCHANGED <<state, fds, got, backlog, linked, failures, kills>>
        /\ todo'[c] = ToRead(c) /\ content'[Up(c)] = <<c[1]>>
        /\ \A k \in Pipe \ {Up(c)} : content'[k] = content[k]
    <3>1. Append(<<>>, m) = <<m>>
      OBVIOUS
    <3> QED
      BY <1>2, <1>3, <1>6, <3>1 DEF n, m
  <2>2. /\ Others' /\ Serving' = Serving /\ Asking' = Asking
        /\ \A y \in Serving \cup Asking : y \in Procs /\ Up(y) \in Pipe /\ Down(y) \in Pipe
        /\ \A y \in (Serving \cup Asking) \ {c} :
             todo'[y] = todo[y] /\ status'[y] = status[y]
    BY <2>1, OthersStay, SocketProc
  <2>3. \A s \in Serving : s # c /\ todo'[s] = todo[s]
    BY <2>2, NotBoth
  <2>4. /\ \A d \in Asking : content'[Down(d)] = content[Down(d)]
        /\ \A d \in Asking \ {c} : content'[Up(d)] = content[Up(d)]
    <3>1. \A d \in Asking : Down(d) # Up(c) /\ (d # c => Up(d) # Up(c))
      BY TwoConnections
    <3> QED
      BY <2>1, <2>2, <3>1
  <2>5. \A s \in Serving : Backlog(s)' = Backlog(s) /\ (Holding(s)' <=> Holding(s))
    BY <2>1, <2>2, <2>3 DEF Backlog, Holding
  <2>6. \A d \in Asking, s \in Serving : Waits(d, s)' <=> Waits(d, s)
    BY <2>3, <2>5 DEF Waits
  <2>7. todo'[c] \notin {Client(c), ToAsk(c)} /\ todo'[c] \notin {ToClose, ToExit}
    BY <2>1, ClientPlaces
  <2>8. \A d \in Asking : (Away(d)' <=> Away(d)) /\ AnswersTo(d)' = AnswersTo(d) /\ (Turned(d)' <=> Turned(d))
    <3>1. Away(c)' <=> Away(c)
      BY <1>2, <2>1, <2>7 DEF Away
    <3>2. \A d \in Asking \ {c} : Away(d)' <=> Away(d)
      BY <2>1, <2>2 DEF Away
    <3>3. \A d \in Asking : AnswersTo(d)' = AnswersTo(d) /\ (Turned(d)' <=> Turned(d))
      BY <2>1, <2>2 DEF AnswersTo, Turned
    <3> QED
      BY <3>1, <3>2, <3>3
  <2>9. \A d \in Asking : todo'[d] # Client(d) <=> todo[d] # Client(d)
    BY <1>2, <2>2, <2>7
  <2>10. ASSUME NEW s \in Serving PROVE ServerOK(s)'
    <3>1. ServerOK(s)
      BY DEF IInv
    <3>2. ServerStage(s)' <=> ServerStage(s)
      BY <2>1, <2>2, <2>3, <2>5, <2>8, <2>9 DEF ServerStage
    <3> QED
      BY <2>1, <2>2, <2>3, <2>5, <2>6, <3>1, <3>2 DEF ServerOK, EndsFor
  <2>11. ASSUME NEW d \in Asking PROVE ClientOK(d)'
    <3>1. CASE d = c
      <4>1. content'[Down(c)] = content[Down(c)]
        BY <2>4
      <4>2. /\ state'[c] = "running" /\ todo'[c] = ToRead(c) /\ fds'[c] = {W(Up(c)), R(Down(c))}
            /\ got'[c] = <<>> /\ got'[c] \in Seq(AnswersTo(c)')
            /\ content'[Up(c)] \in {<<>>, <<c[1]>>}
            /\ content'[Down(c)] \in Seq(AnswersTo(c)')
        BY <1>1, <1>2, <2>1, <2>8, <4>1 DEF ClientOK
      <4> QED
        BY <2>7, <3>1, <4>2 DEF ClientOK
    <3>2. CASE d # c
      <4>1. /\ todo'[d] = todo[d] /\ content'[Up(d)] = content[Up(d)]
            /\ content'[Down(d)] = content[Down(d)] /\ ClientOK(d)
        BY <2>2, <2>4, <3>2 DEF IInv
      <4> QED
        BY <2>1, <2>2, <2>8, <4>1 DEF ClientOK
    <3> QED
      BY <3>1, <3>2
  <2>12. Connections'
    <3>1. ASSUME NEW d \in Asking, NEW s \in Serving, Waits(d, s)'
          PROVE  todo'[d] # Client(d) /\ content'[Down(d)] = <<>>
                 /\ \A t \in Serving : Waits(d, t)' => t = s
      BY <2>4, <2>6, <2>9, <3>1 DEF IInv, Connections
    <3> QED
      BY <2>2, <3>1 DEF Connections
  <2>13. Reachable'
    BY <2>1, <2>3, NameKept
  <2>14. Shape'
    <3>1. IsSeq(content'[Up(c)])
      BY <2>1, SingleIsSeq
    <3> QED
      BY <1>1, <2>1, <3>1 DEF Shape, Alone
  <2>15. Patience'
    <3> SUFFICES ASSUME Undisturbed' PROVE Patience'
      BY DEF Patience
    <3>1. Undisturbed /\ Patience
      BY <2>1 DEF IInv, Undisturbed
    <3>2. ASSUME NEW s \in Serving, NEW d \in Asking
          PROVE  /\ Waits(d, s)' /\ Holding(s)' => todo'[d] \in {ToAsk(d), ToRead(d)}
                 /\ todo'[s] = ToAnswer(d, s) => todo'[d] = ToRead(d) /\ got'[s] = <<d[1]>>
      <4>1. CASE d = c
        <5>1. todo[s] # ToAnswer(c, s)
          BY <3>1, ClientPlaces DEF Patience
        <5> QED
          BY <2>1, <2>3, <4>1, <5>1
      <4>2. CASE d # c
        BY <2>1, <2>2, <2>3, <2>5, <2>6, <3>1, <4>2 DEF Patience
      <4> QED
        BY <4>1, <4>2
    <3>3. ASSUME NEW s \in Serving
          PROVE  Holding(s)' \/ backlog'[s] # <<>> =>
                   got'[s] # <<>> \/ todo'[s] = ToAccept \/ \E d \in Asking : todo'[s] = ToHear(d, s)
      BY <2>1, <2>3, <2>5, <3>1 DEF Patience
    <3>4. ASSUME NEW d \in Asking
          PROVE
           /\ todo'[d] = ToAsk(d) => \E s \in Serving : Waits(d, s)'
           /\ todo'[d] = ToRead(d) => content'[Down(d)] # <<>> \/ \E s \in Serving : Waits(d, s)'
           /\ todo'[d] \in {ToClose, ToExit} \/ (state'[d] = "gone" /\ status'[d] = 0) =>
                got'[d] # <<>> \/ Turned(d)'
           /\ state'[d] = "gone" /\ status'[d] = SIGPIPE => Turned(d)'
      <4>1. CASE d = c
        <5>1. \E s \in Serving : Waits(c, s)
          BY <3>1 DEF Patience
        <5>2. state'[c] = "running"
          BY <1>1, <2>1
        <5> QED
          BY <2>6, <2>7, <4>1, <5>1, <5>2
      <4>2. CASE d # c
        <5>1. todo'[d] = todo[d] /\ state'[d] = state[d] /\ status'[d] = status[d] /\ got'[d] = got[d]
          BY <2>1, <2>2, <4>2
        <5> QED
          BY <2>4, <2>6, <2>8, <3>1, <5>1 DEF Patience
      <4> QED
        BY <4>1, <4>2
    <3> QED
      BY <2>2, <3>2, <3>3, <3>4 DEF Patience
  <2> QED
    BY <2>2, <2>10, <2>11, <2>12, <2>13, <2>14, <2>15 DEF IInv
<1> QED
  BY <1>4, <1>5, <1>6

------------------------------------------------------------
\* The client reads the answer, or finds that the server hung up.
LEMMA ClientReads ==
  ASSUME IInv, NEW c \in Asking, Step(c), todo[c] = ToRead(c)
  PROVE  IInv'
<1> USE DEF SocketProcs
<1>1. Shape /\ Others /\ failures \in Nat /\ kills \in Nat /\ state[c] = "running" /\ ClientOK(c)
  BY StepIs DEF IInv, Shape
<1>2. /\ fds[c] = {W(Up(c)), R(Down(c))} /\ got[c] = <<>>
      /\ todo[c] # Client(c) /\ ~Away(c) /\ content[Down(c)] \in Seq(AnswersTo(c))
  BY <1>1, ClientPlaces DEF ClientOK, Away
<1> DEFINE n == Down(c)
<1>3. n \in Pipe /\ Head(todo[c]) = read(n, <<>>) /\ <<>> \o Tail(todo[c]) = Tail(todo[c])
      /\ Tail(todo[c]) = ToClose
  BY ClientScript, SocketProc
<1> HIDE DEF n
<1>4. /\ Alone(c) /\ UNCHANGED <<state, fds, backlog, linked, failures, kills>>
      /\ todo'[c] = Tail(todo[c])
      /\ \/ AtEnd(c, n) /\ UNCHANGED <<got, content>>
         \/ /\ content[n] # <<>>
            /\ got'[c] = got[c] \o content[n]
            /\ content'[n] = <<>> /\ \A m \in Pipe \ {n} : content'[m] = content[m]
  BY <1>1, <1>3, Reads
<1>5. CASE AtEnd(c, n) /\ UNCHANGED <<got, content>>
  <2>1. Open(W(Down(c))) = {} /\ content[Down(c)] = <<>>
    BY <1>2, <1>5 DEF AtEnd, n
  <2>2. Undisturbed => (\A q \in Serving : Waits(c, q) => ~Holding(q)) /\ Turned(c)
    BY <2>1, LeftAlone
  <2>3. Silent(c)
    BY <1>4, <1>5 DEF Silent
  <2> QED
    BY <1>1, <1>2, <1>3, <1>4, <2>2, <2>3, QuietClient DEF Undisturbed
<1>6. CASE /\ content[n] # <<>>
           /\ got'[c] = got[c] \o content[n]
           /\ content'[n] = <<>> /\ \A m \in Pipe \ {n} : content'[m] = content[m]
  <2>1. /\ Alone(c) /\ UNCHANGED <<state, fds, backlog, linked, failures, kills>>
        /\ todo'[c] = ToClose /\ content[Down(c)] # <<>> /\ content'[Down(c)] = <<>>
        /\ \A k \in Pipe \ {Down(c)} : content'[k] = content[k]
    BY <1>3, <1>4, <1>6 DEF n
  <2>2. got'[c] = content[Down(c)]
    <3> DEFINE t == content[Down(c)]
               S == AnswersTo(c)
    <3>1. t \in Seq(S) /\ got'[c] = <<>> \o t
      BY <1>2, <1>6 DEF n
    <3> HIDE DEF t, S
    <3>2. <<>> \o t = t
      BY <3>1
    <3> QED
      BY <3>1, <3>2 DEF t
  <2>3. /\ Others' /\ Serving' = Serving /\ Asking' = Asking
        /\ \A y \in Serving \cup Asking : y \in Procs /\ Up(y) \in Pipe /\ Down(y) \in Pipe
        /\ \A y \in (Serving \cup Asking) \ {c} :
             todo'[y] = todo[y] /\ status'[y] = status[y] /\ got'[y] = got[y]
    BY <2>1, OthersStay, SocketProc
  <2>4. \A s \in Serving : s # c /\ todo'[s] = todo[s] /\ got'[s] = got[s]
    BY <2>3, NotBoth
  <2>5. /\ \A d \in Asking : content'[Up(d)] = content[Up(d)]
        /\ \A d \in Asking \ {c} : content'[Down(d)] = content[Down(d)]
    <3>1. \A d \in Asking : Up(d) # Down(c) /\ (d # c => Down(d) # Down(c))
      BY TwoConnections
    <3> QED
      BY <2>1, <2>3, <3>1
  <2>6. \A s \in Serving : Backlog(s)' = Backlog(s) /\ (Holding(s)' <=> Holding(s))
    BY <2>1, <2>3, <2>4 DEF Backlog, Holding
  <2>7. \A d \in Asking, s \in Serving : Waits(d, s)' <=> Waits(d, s)
    BY <2>4, <2>6 DEF Waits
  <2>8. \A s \in Serving : ~Waits(c, s)
    BY <2>1 DEF IInv, Connections
  <2>9. todo'[c] \notin {Client(c), ToAsk(c), ToRead(c)}
    BY <2>1, ClientPlaces
  <2>10. \A d \in Asking : (Away(d)' <=> Away(d)) /\ AnswersTo(d)' = AnswersTo(d) /\ (Turned(d)' <=> Turned(d))
    <3>1. Away(c)' <=> Away(c)
      BY <1>2, <2>1, <2>9 DEF Away
    <3>2. \A d \in Asking \ {c} : Away(d)' <=> Away(d)
      BY <2>1, <2>3 DEF Away
    <3>3. \A d \in Asking : AnswersTo(d)' = AnswersTo(d) /\ (Turned(d)' <=> Turned(d))
      BY <2>3, <2>4 DEF AnswersTo, Turned
    <3> QED
      BY <3>1, <3>2, <3>3
  <2>11. \A d \in Asking : todo'[d] # Client(d) <=> todo[d] # Client(d)
    BY <1>2, <2>3, <2>9
  <2>12. ASSUME NEW s \in Serving PROVE ServerOK(s)'
    <3>1. ServerOK(s)
      BY DEF IInv
    <3>2. ServerStage(s)' <=> ServerStage(s)
      BY <2>1, <2>3, <2>4, <2>6, <2>10, <2>11 DEF ServerStage
    <3> QED
      BY <2>1, <2>3, <2>4, <2>6, <2>7, <3>1, <3>2 DEF ServerOK, EndsFor
  <2>13. ASSUME NEW d \in Asking PROVE ClientOK(d)'
    <3>1. CASE d = c
      <4>1. <<>> \in Seq(AnswersTo(c))
        OBVIOUS
      <4>2. /\ state'[c] = "running" /\ todo'[c] = ToClose /\ fds'[c] = {W(Up(c)), R(Down(c))}
            /\ got'[c] \in Seq(AnswersTo(c)')
            /\ content'[Up(c)] \in {<<>>, <<c[1]>>}
            /\ content'[Down(c)] \in Seq(AnswersTo(c)')
        BY <1>1, <1>2, <2>1, <2>2, <2>5, <2>10, <4>1 DEF ClientOK
      <4> QED
        BY <2>9, <3>1, <4>2 DEF ClientOK
    <3>2. CASE d # c
      <4>1. /\ todo'[d] = todo[d] /\ content'[Up(d)] = content[Up(d)] /\ got'[d] = got[d]
            /\ content'[Down(d)] = content[Down(d)] /\ ClientOK(d)
        BY <2>3, <2>5, <3>2 DEF IInv
      <4> QED
        BY <2>1, <2>3, <2>4, <2>10, <4>1 DEF ClientOK
    <3> QED
      BY <3>1, <3>2
  <2>14. Connections'
    <3>1. ASSUME NEW d \in Asking, NEW s \in Serving, Waits(d, s)'
          PROVE  todo'[d] # Client(d) /\ content'[Down(d)] = <<>>
                 /\ \A t \in Serving : Waits(d, t)' => t = s
      BY <2>5, <2>7, <2>8, <2>11, <3>1 DEF IInv, Connections
    <3> QED
      BY <2>3, <3>1 DEF Connections
  <2>15. Reachable'
    BY <2>1, <2>4, NameKept
  <2>16. Shape'
    <3>1. IsSeq(content'[Down(c)]) /\ IsSeq(got'[c])
      BY <1>1, <2>1, <2>2, <2>3, EmptyIsSeq DEF Shape
    <3> QED
      BY <1>1, <2>1, <3>1 DEF Shape, Alone
  <2>17. Patience'
    <3> SUFFICES ASSUME Undisturbed' PROVE Patience'
      BY DEF Patience
    <3>1. Undisturbed /\ Patience
      BY <2>1 DEF IInv, Undisturbed
    <3>2. ASSUME NEW s \in Serving, NEW d \in Asking
          PROVE  /\ Waits(d, s)' /\ Holding(s)' => todo'[d] \in {ToAsk(d), ToRead(d)}
                 /\ todo'[s] = ToAnswer(d, s) => todo'[d] = ToRead(d) /\ got'[s] = <<d[1]>>
      <4>1. CASE d = c
        BY <2>4, <2>7, <2>8, <4>1 DEF Waits
      <4>2. CASE d # c
        BY <2>3, <2>4, <2>6, <2>7, <3>1, <4>2 DEF Patience
      <4> QED
        BY <4>1, <4>2
    <3>3. ASSUME NEW s \in Serving
          PROVE  Holding(s)' \/ backlog'[s] # <<>> =>
                   got'[s] # <<>> \/ todo'[s] = ToAccept \/ \E d \in Asking : todo'[s] = ToHear(d, s)
      BY <2>1, <2>4, <2>6, <3>1 DEF Patience
    <3>4. ASSUME NEW d \in Asking
          PROVE
           /\ todo'[d] = ToAsk(d) => \E s \in Serving : Waits(d, s)'
           /\ todo'[d] = ToRead(d) => content'[Down(d)] # <<>> \/ \E s \in Serving : Waits(d, s)'
           /\ todo'[d] \in {ToClose, ToExit} \/ (state'[d] = "gone" /\ status'[d] = 0) =>
                got'[d] # <<>> \/ Turned(d)'
           /\ state'[d] = "gone" /\ status'[d] = SIGPIPE => Turned(d)'
      <4>1. CASE d = c
        <5>1. state'[c] = "running"
          BY <1>1, <2>1
        <5> QED
          BY <2>1, <2>2, <2>9, <4>1, <5>1
      <4>2. CASE d # c
        <5>1. todo'[d] = todo[d] /\ state'[d] = state[d] /\ status'[d] = status[d] /\ got'[d] = got[d]
          BY <2>1, <2>3, <4>2
        <5>2. content'[Down(d)] = content[Down(d)]
          BY <2>5, <4>2
        <5> QED
          BY <2>7, <2>10, <3>1, <5>1, <5>2 DEF Patience
      <4> QED
        BY <4>1, <4>2
    <3> QED
      BY <2>3, <3>2, <3>3, <3>4 DEF Patience
  <2> QED
    BY <2>3, <2>12, <2>13, <2>14, <2>15, <2>16, <2>17 DEF IInv
<1> QED
  BY <1>4, <1>5, <1>6

------------------------------------------------------------
\* The client connects, or finds no server.
LEMMA ClientConnects ==
  ASSUME IInv, NEW c \in Asking, Step(c), todo[c] = Client(c)
  PROVE  IInv'
<1> USE DEF SocketProcs
<1>1. Shape /\ Others /\ failures \in Nat /\ kills \in Nat /\ state[c] = "running" /\ ClientOK(c)
  BY StepIs DEF IInv, Shape
<1>2. /\ fds[c] = {} /\ content[Up(c)] = <<>> /\ content[Down(c)] = <<>> /\ got[c] = <<>>
      /\ \A s \in Serving : got[s] # <<c[1]>>
  BY <1>1, ClientPlaces DEF ClientOK
<1>3. \A s \in Serving : ~Waits(c, s)
  BY DEF IInv, Connections
<1> DEFINE q == linked[SOCKET_PATH]
<1>4. /\ Alone(c) /\ UNCHANGED <<state, got, content, linked, failures, kills>>
      /\ \/ todo'[c] = ToGiveUp /\ UNCHANGED <<fds, backlog>>
         \/ /\ Listening(q) /\ todo'[c] = ToAsk(c)
            /\ backlog' = [backlog EXCEPT ![q] = Append(@, c)]
            /\ fds' = [fds EXCEPT ![c] = {W(Up(c)), R(Down(c))},
                                  ![q] = @ \cup {R(Up(c)), W(Down(c))}]
  BY <1>1, Connects
<1>5. CASE todo'[c] = ToGiveUp /\ UNCHANGED <<fds, backlog>>
  <2>1. Silent(c)
    BY <1>4, <1>5 DEF Silent
  <2>2. ToGiveUp \notin {ToClose, ToExit}
    BY ClientPlaces
  <2> QED
    BY <1>1, <1>2, <1>3, <1>4, <1>5, <2>1, <2>2, QuietClient DEF Undisturbed
<1>6. CASE /\ Listening(q) /\ todo'[c] = ToAsk(c)
           /\ backlog' = [backlog EXCEPT ![q] = Append(@, c)]
           /\ fds' = [fds EXCEPT ![c] = {W(Up(c)), R(Down(c))},
                                 ![q] = @ \cup {R(Up(c)), W(Down(c))}]
  <2>1. q \in Serving /\ Holding(q)
    <3>1. q \in Serving
      BY <1>6 DEF Listening, IInv, Reachable
    <3> QED
      BY <1>6, <3>1 DEF Listening, IInv, ServerOK
  <2>2. /\ Others' /\ Serving' = Serving /\ Asking' = Asking
        /\ \A y \in Serving \cup Asking : y \in Procs
        /\ \A y \in (Serving \cup Asking) \ {c} :
             todo'[y] = todo[y] /\ status'[y] = status[y]
    BY <1>4, OthersStay
  <2>3. \A s \in Serving : s # c /\ todo'[s] = todo[s]
    BY <2>2, NotBoth
  <2>20. PICK server \in Serving : server = q
    BY <2>1
  <2>4. /\ DOMAIN backlog' = Procs /\ DOMAIN fds' = Procs
        /\ backlog'[server] = Append(backlog[server], c)
        /\ \A y \in Procs \ {server} : backlog'[y] = backlog[y]
        /\ fds'[c] = {W(Up(c)), R(Down(c))} /\ fds'[server] = fds[server] \cup EndsFor(c)
        /\ \A y \in Procs \ {c, server} : fds'[y] = fds[y]
    BY <1>1, <1>6, <2>2, <2>3, <2>20 DEF Shape, Domains, EndsFor
  <2> HIDE DEF q
  <2>5. server = q /\ server \in Serving /\ Holding(server) /\ server # c /\ ServerOK(server)
    BY <2>1, <2>3, <2>20 DEF IInv
  <2>6. /\ backlog'[server] \in Seq(Asking)
        /\ \A m, n \in DOMAIN backlog'[server] : backlog'[server][m] = backlog'[server][n] => m = n
        /\ \A d : d \in Backlog(server)' <=> d \in Backlog(server) \/ d = c
    <3> DEFINE b == backlog[server]
               t == Append(b, c)
    <3>1. b \in Seq(Asking) /\ \A m, n \in DOMAIN b : b[m] = b[n] => m = n
      BY <2>5 DEF ServerOK
    <3>2. c \notin Backlog(server)
      BY <1>3, <2>5 DEF Waits
    <3>3. Backlog(server) = {b[n] : n \in DOMAIN b} /\ Backlog(server)' = {t[n] : n \in DOMAIN t}
      BY <2>4 DEF Backlog
    <3>4. backlog'[server] = t
      BY <2>4
    <3> HIDE DEF b
    <3>5. /\ t \in Seq(Asking) /\ Len(b) \in Nat /\ DOMAIN b = 1 .. Len(b)
          /\ DOMAIN t = 1 .. Len(b) + 1 /\ t[Len(b) + 1] = c
          /\ \A n \in 1 .. Len(b) : t[n] = b[n]
      BY <3>1, AppendProperties, LenProperties
    <3>6. \A n \in DOMAIN b : b[n] # c
      BY <3>2, <3>3
    <3> HIDE DEF t
    <3>7. \A m, n \in DOMAIN t : t[m] = t[n] => m = n
      BY <3>1, <3>5, <3>6
    <3>8. ASSUME NEW d PROVE d \in {t[n] : n \in DOMAIN t} <=> d \in {b[n] : n \in DOMAIN b} \/ d = c
      BY <3>5
    <3> QED
      BY <3>3, <3>4, <3>5, <3>7, <3>8
  <2>7. \A s \in Serving \ {server} : Backlog(s)' = Backlog(s)
    BY <2>2, <2>4 DEF Backlog
  <2>8. \A s \in Serving : Holding(s)' <=> Holding(s)
    BY <2>2, <2>3 DEF Holding
  <2>9. ASSUME NEW d \in Asking, NEW s \in Serving
        PROVE  Waits(d, s)' <=> Waits(d, s) \/ (d = c /\ s = server)
    <3>1. CASE s = server
      BY <2>3, <2>6, <3>1 DEF Waits
    <3>2. CASE s # server
      BY <2>3, <2>7, <3>2 DEF Waits
    <3> QED
      BY <3>1, <3>2
  <2>10. /\ ~Away(c) /\ ~Away(c)' /\ todo'[c] \notin {Client(c), ToRead(c), ToClose, ToExit}
         /\ fds'[c] # {}
    BY <1>6, <2>4, ClientPlaces DEF Away
  <2>11. \A d \in Asking \ {c} : fds'[d] = fds[d] /\ d # server
    BY <2>2, <2>4, <2>5, NotBoth
  <2>12. ASSUME NEW d \in Asking
         PROVE  (Away(d)' <=> Away(d)) /\ AnswersTo(d)' = AnswersTo(d) /\ (Turned(d)' <=> Turned(d))
    <3>1. CASE d = c
      BY <1>4, <2>2, <2>10, <3>1 DEF AnswersTo, Turned
    <3>2. CASE d # c
      BY <1>4, <2>2, <2>11, <3>2 DEF Away, AnswersTo, Turned
    <3> QED
      BY <3>1, <3>2
  <2>13. \A d \in Asking : todo[d] # Client(d) => d # c /\ todo'[d] # Client(d)
    BY <2>2
  <2>14. ASSUME NEW s \in Serving PROVE ServerOK(s)'
    <3>1. ServerOK(s) /\ got'[s] = got[s] /\ state'[s] = state[s]
      BY <1>4 DEF IInv
    <3>2. \A d \in Asking : todo[s] \in {ToHear(d, s), ToAnswer(d, s)} => d # c
      BY <1>3 DEF Waits
    <3>3. CASE s = server
      <4>1. todo[s] \notin Before \cup After
        BY <2>5, <3>3, NotHeld DEF Holding
      <4>2. state[s] = "running" /\ ServerStage(s)
        BY <3>1, <4>1 DEF ServerOK, After
      <4>3. ASSUME todo[s] = ToAccept, got[s] = <<>> PROVE ServerStage(s)'
        BY <2>3, <3>1, <4>3 DEF ServerStage
      <4>4. ASSUME NEW d \in Asking \ Backlog(s),
                   \/ todo[s] = ToHear(d, s) /\ got[s] = <<>>
                   \/ todo[s] = ToAnswer(d, s) /\ (got[s] = <<d[1]>> \/ (got[s] = <<>> /\ Away(d)))
                   \/ todo[s] = ToHangUp(d) /\ todo[d] # Client(d)
            PROVE  ServerStage(s)'
        <5>1. d # c /\ d \in Asking' \ Backlog(s)'
          BY <2>2, <2>6, <2>13, <3>2, <3>3, <4>4
        <5> QED
          BY <2>3, <2>12, <2>13, <3>1, <4>4, <5>1 DEF ServerStage
      <4>5. ASSUME todo[s] \in {ToCloseAll, ToUnlink, ToExit} PROVE ServerStage(s)'
        BY <2>3, <4>5 DEF ServerStage
      <4>6. ServerStage(s)'
        BY <4>1, <4>2, <4>3, <4>4, <4>5 DEF ServerStage, Before
      <4>7. \A d \in Asking : Waits(d, s)' => EndsFor(d) \subseteq fds'[s]
        BY <2>4, <2>5, <2>9, <3>1, <3>3 DEF ServerOK
      <4>8. got'[s] = <<>> \/ \E d \in Asking' \ Backlog(s)' : got'[s] = <<d[1]>>
        BY <1>2, <2>2, <2>6, <3>1, <3>3 DEF ServerOK
      <4> QED
        BY <2>2, <2>5, <2>6, <2>8, <3>1, <3>3, <4>2, <4>6, <4>7, <4>8 DEF ServerOK, EndsFor
    <3>4. CASE s # server
      <4>1. fds'[s] = fds[s] /\ backlog'[s] = backlog[s]
        BY <2>2, <2>3, <2>4, <3>4
      <4>2. ServerStage(s) => ServerStage(s)'
        BY <2>2, <2>3, <2>7, <2>12, <2>13, <3>1, <3>4, <4>1 DEF ServerStage
      <4> QED
        BY <2>2, <2>3, <2>7, <2>8, <2>9, <3>1, <3>4, <4>1, <4>2 DEF ServerOK, EndsFor
    <3> QED
      BY <3>3, <3>4
  <2>15. ASSUME NEW d \in Asking PROVE ClientOK(d)'
    <3>1. CASE d = c
      <4>1. <<>> \in Seq(AnswersTo(c)')
        OBVIOUS
      <4>2. todo'[c] = ToAsk(c) /\ todo'[c] # Client(c)
        BY <1>6, <2>10
      <4> QED
        BY <1>1, <1>2, <1>4, <2>2, <2>4, <3>1, <4>1, <4>2 DEF ClientOK
    <3>2. CASE d # c
      <4>1. todo'[d] = todo[d] /\ fds'[d] = fds[d] /\ ClientOK(d)
        BY <2>2, <2>11, <3>2 DEF IInv
      <4> QED
        BY <1>4, <2>2, <2>12, <4>1 DEF ClientOK
    <3> QED
      BY <3>1, <3>2
  <2>16. Connections'
    <3>1. ASSUME NEW d \in Asking, NEW s \in Serving, Waits(d, s)'
          PROVE  todo'[d] # Client(d) /\ content'[Down(d)] = <<>>
                 /\ \A t \in Serving : Waits(d, t)' => t = s
      <4>1. CASE d = c
        BY <1>2, <1>3, <1>4, <2>9, <2>10, <3>1, <4>1
      <4>2. CASE d # c
        BY <1>4, <2>9, <2>13, <3>1, <4>2 DEF IInv, Connections
      <4> QED
        BY <4>1, <4>2
    <3> QED
      BY <2>2, <3>1 DEF Connections
  <2>17. Reachable'
    BY <1>4, <2>3, NameKept
  <2>18. Shape'
    BY <1>1, <1>4, <2>4 DEF Shape, Alone
  <2>19. Patience'
    <3> SUFFICES ASSUME Undisturbed' PROVE Patience'
      BY DEF Patience
    <3>1. Undisturbed /\ Patience
      BY <1>4 DEF IInv, Undisturbed
    <3>2. ASSUME NEW s \in Serving, NEW d \in Asking
          PROVE  /\ Waits(d, s)' /\ Holding(s)' => todo'[d] \in {ToAsk(d), ToRead(d)}
                 /\ todo'[s] = ToAnswer(d, s) => todo'[d] = ToRead(d) /\ got'[s] = <<d[1]>>
      <4>1. CASE d = c
        BY <1>3, <1>6, <2>3, <4>1 DEF Waits
      <4>2. CASE d # c
        BY <1>4, <2>2, <2>3, <2>8, <2>9, <3>1, <4>2 DEF Patience
      <4> QED
        BY <4>1, <4>2
    <3>3. ASSUME NEW s \in Serving
          PROVE  Holding(s)' \/ backlog'[s] # <<>> =>
                   got'[s] # <<>> \/ todo'[s] = ToAccept \/ \E d \in Asking : todo'[s] = ToHear(d, s)
      <4>1. Holding(s) \/ backlog'[s] = backlog[s]
        BY <2>2, <2>4, <2>5
      <4> QED
        BY <1>4, <2>3, <2>8, <3>1, <4>1 DEF Patience
    <3>4. ASSUME NEW d \in Asking
          PROVE
           /\ todo'[d] = ToAsk(d) => \E s \in Serving : Waits(d, s)'
           /\ todo'[d] = ToRead(d) => content'[Down(d)] # <<>> \/ \E s \in Serving : Waits(d, s)'
           /\ todo'[d] \in {ToClose, ToExit} \/ (state'[d] = "gone" /\ status'[d] = 0) =>
                got'[d] # <<>> \/ Turned(d)'
           /\ state'[d] = "gone" /\ status'[d] = SIGPIPE => Turned(d)'
      <4>1. CASE d = c
        BY <1>1, <1>4, <2>5, <2>9, <2>10, <4>1
      <4>2. CASE d # c
        <5>1. todo'[d] = todo[d] /\ state'[d] = state[d] /\ status'[d] = status[d] /\ got'[d] = got[d]
          BY <1>4, <2>2, <4>2
        <5> QED
          BY <1>4, <2>9, <2>12, <3>1, <5>1 DEF Patience
      <4> QED
        BY <4>1, <4>2
    <3> QED
      BY <2>2, <3>2, <3>3, <3>4 DEF Patience
  <2> QED
    BY <2>2, <2>14, <2>15, <2>16, <2>17, <2>18, <2>19 DEF IInv
<1> QED
  BY <1>4, <1>5, <1>6

\* Every step of a client preserves the invariant.
LEMMA ClientPreserves ==
  ASSUME IInv, NEW c \in Asking, Step(c) \/ Signal(c)
  PROVE  IInv'
<1>1. CASE Signal(c)
  BY <1>1, ClientKilled
<1>2. CASE Step(c)
  <2>1. todo[c] \in {Client(c), ToAsk(c), ToRead(c), ToClose, ToExit, ToGiveUp, ToFail}
    BY <1>2, StepIs DEF IInv, ClientOK
  <2> QED
    BY <1>2, <2>1, ClientConnects, ClientAsks, ClientReads, ClientCloses
<1> QED
  BY <1>1, <1>2

\* The invariant is inductive.
LEMMA IInvStep == IInv /\ [Next]_vars => IInv'
<1> SUFFICES ASSUME IInv, [Next]_vars PROVE IInv'
  OBVIOUS
<1>1. CASE UNCHANGED vars
  <2> USE <1>1 DEF vars, procVars
  <2>1. Shape' /\ Others' /\ Connections' /\ Patience' /\ Reachable'
    BY DEF IInv, Shape, Domains, Others, Serving, Asking, MainProcs, Socketed, Runs, Connections,
           Patience, Reachable, Waits, Backlog, Holding, Turned, Undisturbed
  <2>2. Serving' = Serving /\ Asking' = Asking
    BY DEF Serving, Asking, Runs
  <2>3. ASSUME NEW q \in Serving PROVE ServerOK(q)'
    BY <2>2 DEF IInv, ServerOK, ServerStage, Backlog, Holding, Waits, Away
  <2>4. ASSUME NEW c \in Asking PROVE ClientOK(c)'
    BY <2>2 DEF IInv, ClientOK, AnswersTo, Away
  <2> QED
    BY <2>1, <2>2, <2>3, <2>4 DEF IInv
<1>2. CASE Next
  <2>1. PICK p \in Procs : Step(p) \/ Signal(p)
    BY <1>2 DEF Next
  <2> QED
    BY <2>1, StrangerPreserves, ServerPreserves, ClientPreserves DEF Strangers
<1> QED
  BY <1>1, <1>2

------------------------------------------------------------
\* Servers and clients begin with their scripts, strangers with foreign ones.
LEMMA BeginsRight ==
  ASSUME NEW f, PipeInit, SocketInit, ProcessInit(f),
         \A q \in Serving : q \in DOMAIN f /\ f[q] = Server,
         \A c \in Asking : c \in DOMAIN f /\ f[c] = Client(c),
         \A p \in Procs \ SocketProcs : p \in DOMAIN f => ForeignScript(f[p]) /\ ~Socketed(p)
  PROVE  IInv
<1>1. /\ Domains /\ failures = 0 /\ kills = 0 /\ linked[SOCKET_PATH] = Nobody
      /\ \A n \in Pipe : content[n] = <<>>
      /\ \A p \in Procs : /\ got[p] = <<>> /\ fds[p] = {} /\ backlog[p] = <<>> /\ status[p] = 0
                          /\ todo[p] = IF p \in DOMAIN f THEN f[p] ELSE <<>>
                          /\ state[p] = IF p \in DOMAIN f THEN "running" ELSE "none"
  BY CompanyAssumption DEF PipeInit, SocketInit, ProcessInit, Domains
<1>2. \A p \in SocketProcs : p \in Procs /\ Up(p) \in Pipe /\ Down(p) \in Pipe
  BY SocketProc
<1>3. /\ \A q \in Serving : todo[q] = Server /\ state[q] = "running"
      /\ \A c \in Asking : todo[c] = Client(c) /\ state[c] = "running"
  BY <1>1, <1>2 DEF SocketProcs
<1>4. \A q \in Serving : \A x : todo[q] # ToHear(x, q) /\ todo[q] # ToAnswer(x, q) /\ todo[q] # ToHangUp(x)
  BY <1>3, Places DEF Before
<1>5. \A q \in Serving : Backlog(q) = {} /\ ~Holding(q)
  <2>1. \A q \in Serving : todo[q] \notin {ToAccept, ToCloseAll}
    BY <1>3, Places
  <2>2. DOMAIN <<>> = {}
    OBVIOUS
  <2> QED
    BY <1>1, <1>2, <1>4, <2>1, <2>2 DEF Backlog, Holding, SocketProcs
<1>6. \A q \in Serving : \A c : ~Waits(c, q)
  BY <1>4, <1>5 DEF Waits
<1>7. Shape
  BY <1>1, EmptyIsSeq DEF Shape
<1>8. Others
  BY <1>1 DEF Others, SocketProcs
<1>9. ASSUME NEW q \in Serving PROVE ServerOK(q)
  <2>1. q \in Procs
    BY <1>2 DEF SocketProcs
  <2> QED
    <3>1. <<>> \in Seq(Asking) /\ DOMAIN <<>> = {}
      OBVIOUS
    <3>2. state[q] = "running" /\ ServerStage(q)
      BY <1>1, <1>3, <2>1 DEF ServerStage
    <3>3. backlog[q] = <<>> /\ got[q] = <<>> /\ fds[q] = {} /\ ~Holding(q)
      BY <1>1, <1>5, <2>1
    <3> QED
      BY <3>1, <3>2, <3>3 DEF ServerOK
<1>10. ASSUME NEW c \in Asking PROVE ClientOK(c)
  <2>1. c \in Procs /\ Up(c) \in Pipe /\ Down(c) \in Pipe
    BY <1>2 DEF SocketProcs
  <2>2. <<>> # <<c[1]>> /\ <<>> \in Seq(AnswersTo(c))
    OBVIOUS
  <2>3. \A q \in Serving : got[q] = <<>>
    BY <1>1, <1>2 DEF SocketProcs
  <2> QED
    <3>1. todo[c] \notin {ToAsk(c), ToRead(c), ToClose}
      BY <1>3, ClientPlaces
    <3>2. /\ state[c] = "running" /\ todo[c] = Client(c) /\ fds[c] = {} /\ got[c] = <<>>
          /\ content[Up(c)] = <<>> /\ content[Down(c)] = <<>>
      BY <1>1, <1>3, <2>1
    <3>3. \A q \in Serving : got[q] # <<c[1]>>
      BY <2>2, <2>3
    <3> QED
      BY <2>2, <3>1, <3>2, <3>3 DEF ClientOK
<1>11. Connections
  BY <1>6 DEF Connections
<1>12. Reachable
  <2>1. \A q \in Serving : todo[q] \notin {ToListen, ToAccept}
    BY <1>3, Places
  <2> QED
    BY <1>1, <2>1 DEF Reachable
<1>13. Patience
  <2>1. \A q \in Serving : backlog[q] = <<>>
    BY <1>1, <1>2 DEF SocketProcs
  <2>2. \A c \in Asking : todo[c] \notin {ToAsk(c), ToRead(c), ToClose, ToExit} /\ state[c] # "gone"
    BY <1>3, ClientPlaces
  <2> QED
    BY <1>4, <1>5, <1>6, <2>1, <2>2 DEF Patience
<1> QED
  BY <1>7, <1>8, <1>9, <1>10, <1>11, <1>12, <1>13 DEF IInv

\* It holds at the start, in whatever company.
LEMMA InitIInv == Init => IInv
<1> SUFFICES ASSUME Init PROVE IInv
  OBVIOUS
<1>1. PipeInit /\ SocketInit
  BY DEF Init
<1>2. \A p \in Procs : p = Main(p) <=> p[2] = 0
  BY DEF Procs, Main
<1>3. ASSUME NEW company \in Companies, program = company,
             ProcessInit([p \in (DOMAIN company) \X {0} |-> Script(p[1], company[p[1]])])
      PROVE  IInv
  <2> DEFINE f == [p \in (DOMAIN company) \X {0} |-> Script(p[1], company[p[1]])]
  <2>1. \A p \in Procs : p \in DOMAIN f <=> p = Main(p) /\ p[1] \in DOMAIN program
    BY <1>2, <1>3 DEF Procs
  <2>2. \A p \in DOMAIN f : f[p] = Script(p[1], program[p[1]])
    BY <1>3
  <2>3. ProcessInit(f)
    BY <1>3
  <2> HIDE DEF f
  <2>4. ASSUME NEW q \in Serving PROVE q \in DOMAIN f /\ f[q] = Server
    BY <2>1, <2>2 DEF Serving, MainProcs, Runs, Script
  <2>5. ASSUME NEW c \in Asking PROVE c \in DOMAIN f /\ f[c] = Client(c)
    BY <2>1, <2>2 DEF Asking, MainProcs, Runs, Script, Client, Up, Down
  <2>6. ASSUME NEW p \in Procs \ SocketProcs, p \in DOMAIN f
        PROVE  ForeignScript(f[p]) /\ ~Socketed(p)
    <3>1. p = Main(p) /\ p[1] \in DOMAIN program
      BY <2>1, <2>6
    <3>2. ~Socketed(p)
      BY <3>1 DEF Socketed, SocketPrograms, SocketProcs, Serving, Asking, MainProcs
    <3>3. program[p[1]] \in Programs \ SocketPrograms
      BY <1>3, <3>1, <3>2, CompanyAssumption DEF Socketed, Runs
    <3> QED
      BY <2>2, <2>6, <3>2, <3>3, ProgramsAreForeign
  <2> QED
    BY <1>1, <2>3, <2>4, <2>5, <2>6, BeginsRight
<1>4. ASSUME NEW lines \in Inputs, program \in {<<"Shell">>, <<"EndlessShell">>},
             ProcessInit([p \in {1} \X {0} |-> run_shell(lines)])
      PROVE  IInv
  <2> DEFINE f == [p \in {1} \X {0} |-> run_shell(lines)]
  <2>1. \A p : ~Runs(p, "Server") /\ ~Runs(p, "Client")
    BY <1>4 DEF Runs
  <2>2. Serving = {} /\ Asking = {} /\ \A p : ~Socketed(p)
    BY <2>1 DEF Serving, Asking, Socketed, SocketPrograms
  <2>3. \A p \in DOMAIN f : ForeignScript(f[p])
    BY GetlineIsForeign DEF run_shell
  <2>4. ProcessInit(f)
    BY <1>4
  <2> HIDE DEF f
  <2> QED
    BY <1>1, <2>2, <2>3, <2>4, BeginsRight
<1> QED
  BY <1>3, <1>4 DEF Init

------------------------------------------------------------
\* A server that waits for a client has its name, or another took it; whoever
\* answers a client has read its request; and a connected client goes without
\* an answer only because its server, which serves one, served another
\* (socket/server.cpp:32-41, socket/client.cpp:19-26): for any programs in any
\* company, whatever fails and whoever is killed.
THEOREM ClientsServedHolds == Spec => []ClientsServed
<1>1. IInv => ClientsServed
  <2> SUFFICES ASSUME IInv PROVE ClientsServed
    OBVIOUS
  <2>0. ASSUME NEW p \in Procs, Socketed(p), state[p] # "none" \/ got[p] # <<>>
        PROVE  (Runs(p, "Server") => p \in Serving) /\ (Runs(p, "Client") => p \in Asking)
    <3>1. p \in Serving \cup Asking
      BY <2>0 DEF IInv, Others
    <3> QED
      BY <3>1 DEF Serving, Asking, Runs
  <2>1. UnreachableOnlyByAnother
    <3> SUFFICES ASSUME NEW p \in Procs, Runs(p, "Server"), Calls(p, "accept")
                 PROVE  \/ linked[SOCKET_PATH] = p
                        \/ \E q \in Procs : q # p /\ q = Main(q) /\ Runs(q, "Server") /\ todo[q] # Server
      BY DEF UnreachableOnlyByAnother
    <3>1. p \in Serving
      BY <2>0 DEF Calls, Socketed, SocketPrograms
    <3>2. ServerStage(p)
      BY <3>1 DEF Calls, IInv, ServerOK
    <3>3. todo[p] = ToAccept
      BY <3>2, Calling DEF Calls, ServerStage
    <3> QED
      BY <3>1, <3>3 DEF IInv, Reachable, Serving, MainProcs
  <2>2. AnswersItsReader
    <3> SUFFICES ASSUME NEW p \in Procs, Runs(p, "Client"), got[p] # <<>>
                 PROVE  got[<<got[p][1], 0>>] = <<p[1]>>
      BY DEF AnswersItsReader
    <3>1. p \in Asking
      BY <2>0 DEF Socketed, SocketPrograms
    <3>2. got[p] \in Seq(AnswersTo(p))
      BY <3>1 DEF IInv, ClientOK
    <3>3. got[p][1] \in AnswersTo(p)
      BY <3>2, EmptySeq
    <3>4. PICK q \in Serving : got[q] = <<p[1]>> /\ q[1] = got[p][1]
      BY <3>3 DEF AnswersTo
    <3>5. q = <<q[1], 0>>
      BY SocketProc DEF SocketProcs
    <3> QED
      BY <3>4, <3>5
  <2>3. LostOnlyBehindAnother
    <3> SUFFICES ASSUME NEW p \in Procs, p = Main(p), Runs(p, "Client"), state[p] = "gone",
                        Undisturbed, status[p] = SIGPIPE \/ (status[p] = 0 /\ got[p] = <<>>)
                 PROVE  \E q \in Procs : Runs(q, "Server") /\ got[q] # <<>> /\ got[q] # <<p[1]>>
      BY DEF LostOnlyBehindAnother
    <3>1. p \in Asking
      BY DEF Asking, MainProcs
    <3>2. Turned(p)
      BY <3>1 DEF IInv, Patience
    <3> QED
      BY <3>2 DEF Turned, Serving, MainProcs
  <2> QED
    BY <2>1, <2>2, <2>3 DEF ClientsServed
<1> QED
  BY <1>1, InitIInv, IInvStep, PTL DEF Spec

------------------------------------------------------------
\* A script call by call
LEMMA TailIndex ==
  ASSUME NEW s, IsSeq(s), s # <<>>
  PROVE  /\ Len(s) \in Nat \ {0} /\ DOMAIN s = 1 .. Len(s) /\ Head(s) = s[1]
         /\ Len(Tail(s)) = Len(s) - 1 /\ DOMAIN Tail(s) = 1 .. Len(s) - 1
         /\ \A n \in DOMAIN Tail(s) : Tail(s)[n] = s[n + 1] /\ n + 1 \in DOMAIN s
         /\ \A n \in DOMAIN s : n # 1 => n - 1 \in DOMAIN Tail(s) /\ Tail(s)[n - 1] = s[n]
<1>1. s \in Seq(Elements(s))
  BY DEF IsSeq
<1>2. /\ Head(s) = s[1] /\ Tail(s) \in Seq(Elements(s))
      /\ Len(Tail(s)) = Len(s) - 1 /\ \A n \in 1 .. Len(Tail(s)) : Tail(s)[n] = s[n + 1]
  BY <1>1, HeadTailProperties
<1>3. Len(s) \in Nat \ {0} /\ DOMAIN s = 1 .. Len(s)
  BY <1>1, EmptySeq, LenProperties
<1>4. DOMAIN Tail(s) = 1 .. Len(s) - 1
  BY <1>2, LenProperties
<1> QED
  BY <1>2, <1>3, <1>4

\* What is careful stays so, call by call.
LEMMA CarefulTail ==
  ASSUME NEW name, NEW s, CarefulScript(name, s), s # <<>>
  PROVE  CarefulScript(name, Tail(s))
<1>1. IsSeq(s) /\ IsSeq(Tail(s))
  BY TailIsSeq DEF CarefulScript
<1> DEFINE t == Tail(s)
<1>2. /\ Len(t) = Len(s) - 1 /\ Len(s) \in Nat /\ DOMAIN t = 1 .. Len(s) - 1
      /\ \A n \in DOMAIN t : t[n] = s[n + 1] /\ n + 1 \in DOMAIN s
  BY <1>1, TailIndex
<1>3. IsSeq(t)
  BY <1>1
<1> HIDE DEF t
<1> SUFFICES CarefulScript(name, t)
  BY DEF t
<1> QED
  BY <1>2, <1>3 DEF CarefulScript

\* ... and whoever is still to be forked, and waited for, later
LEMMA FreshTail ==
  ASSUME NEW name, NEW s, NEW F, IsSeq(s), Fresh(name, s, F), s # <<>>
  PROVE  Fresh(name, Tail(s), F)
  BY TailIndex DEF Fresh

LEMMA WaitsLaterTail ==
  ASSUME NEW name, NEW s, IsSeq(s), WaitsLater(name, s), s # <<>>
  PROVE  WaitsLater(name, Tail(s))
<1> DEFINE t == Tail(s)
<1>1. /\ DOMAIN t = 1 .. Len(s) - 1 /\ Len(s) \in Nat /\ DOMAIN s = 1 .. Len(s)
      /\ \A n \in DOMAIN t : t[n] = s[n + 1] /\ n + 1 \in DOMAIN s
      /\ \A n \in DOMAIN s : n # 1 => n - 1 \in DOMAIN t /\ t[n - 1] = s[n]
  BY TailIndex
<1> HIDE DEF t
<1>2. ASSUME NEW m \in DOMAIN t, t[m].call = "fork", t[m].child \in 1 .. MaxChildren
      PROVE  \E n \in DOMAIN t : m < n /\ Awaits(name, t[n], t[m].child)
  <2>1. t[m] = s[m + 1] /\ m + 1 \in DOMAIN s
    BY <1>1
  <2>2. PICK n \in DOMAIN s : m + 1 < n /\ Awaits(name, s[n], s[m + 1].child)
    BY <1>2, <2>1 DEF WaitsLater
  <2>3. n - 1 \in DOMAIN t /\ t[n - 1] = s[n] /\ m < n - 1
    BY <1>1, <1>2, <2>2
  <2> QED
    BY <2>1, <2>2, <2>3
<1>3. ASSUME NEW m \in DOMAIN t, NEW n \in DOMAIN t, name \notin Hasty, m < n, t[m].call = "fork"
      PROVE  ~MayFail(t[n])
  <2>1. m + 1 < n + 1
    BY <1>1, <1>3
  <2> QED
    BY <1>1, <1>3, <2>1 DEF WaitsLater
<1> QED
  BY <1>2, <1>3 DEF WaitsLater, t

\* A call other than a wait leaves the waits to come.
LEMMA WaitsForTail ==
  ASSUME NEW name, NEW s, NEW A, NEW B, IsSeq(s), WaitsFor(name, s, A), s # <<>>, B \subseteq A,
         \A k \in B : ~Awaits(name, Head(s), k)
  PROVE  WaitsFor(name, Tail(s), B)
<1> DEFINE t == Tail(s)
<1>1. /\ \A n \in DOMAIN t : t[n] = s[n + 1] /\ n + 1 \in DOMAIN s
      /\ \A n \in DOMAIN s : n # 1 => n - 1 \in DOMAIN t /\ t[n - 1] = s[n]
      /\ Head(s) = s[1]
  BY TailIndex
<1> HIDE DEF t
<1> QED
  BY <1>1 DEF WaitsFor, t

------------------------------------------------------------
\* ec5, call by call
LEMMA Ec5Script ==
  /\ Head(Ec5) = fork(1, <<exit(1)>>, ToFail) /\ Tail(Ec5) = ToForkSecond
  /\ Head(ToForkSecond) = fork(2, <<exit(2)>>, ToFail) /\ Tail(ToForkSecond) = ToForkThird
  /\ Head(ToForkThird) = fork(3, <<exit(3)>>, ToFail) /\ Tail(ToForkThird) = ToWaitThrice
  /\ Head(ToWaitThrice) = wait(TRUE) /\ Tail(ToWaitThrice) = ToWaitTwice
  /\ Head(ToWaitTwice) = wait(TRUE) /\ Tail(ToWaitTwice) = ToWait
  /\ Head(ToWait) = wait(TRUE) /\ Tail(ToWait) = ToExit
  /\ Head(ToExit) = exit(0)
<1> DEFINE a == fork(1, <<exit(1)>>, ToFail)
           b == fork(2, <<exit(2)>>, ToFail)
           c == fork(3, <<exit(3)>>, ToFail)
           w == wait(TRUE)
           e == exit(0)
<1>1. /\ Ec5 = <<a, b, c, w, w, w, e>> /\ ToWaitThrice = <<w, w, w, e>> /\ ToWaitTwice = <<w, w, e>>
      /\ ToForkSecond = <<b, c, w, w, w, e>> /\ ToForkThird = <<c, w, w, w, e>>
      /\ ToWait = <<w, e>> /\ ToExit = <<e>>
  BY DEF Ec5, ToForkSecond, ToForkThird, ToWaitThrice, ToWaitTwice, ToWait, ToExit, ToFail
<1> HIDE DEF a, b, c, w, e
<1>2. /\ Head(<<a, b, c, w, w, w, e>>) = a /\ Tail(<<a, b, c, w, w, w, e>>) = <<b, c, w, w, w, e>>
      /\ Head(<<b, c, w, w, w, e>>) = b /\ Tail(<<b, c, w, w, w, e>>) = <<c, w, w, w, e>>
      /\ Head(<<c, w, w, w, e>>) = c /\ Tail(<<c, w, w, w, e>>) = <<w, w, w, e>>
      /\ Head(<<w, w, w, e>>) = w /\ Tail(<<w, w, w, e>>) = <<w, w, e>>
      /\ Head(<<w, w, e>>) = w /\ Tail(<<w, w, e>>) = <<w, e>>
      /\ Head(<<w, e>>) = w /\ Tail(<<w, e>>) = <<e>>
      /\ Head(<<e>>) = e
  OBVIOUS
<1> QED
  BY <1>1, <1>2 DEF a, b, c, w, e

\* The fields of a call
LEMMA Fields ==
  /\ \A k, calls, failed : /\ fork(k, calls, failed).call = "fork" /\ fork(k, calls, failed).child = k
                          /\ fork(k, calls, failed).calls = calls
                          /\ fork(k, calls, failed).failed = failed
  /\ \A code : exit(code).call = "exit" /\ exit(code).code = code
  /\ wait(TRUE).call = "waitpid" /\ wait(TRUE).set = 1 .. MaxChildren /\ wait(TRUE).prints = TRUE
  /\ \A k : /\ waitpid(k, TRUE).call = "waitpid" /\ waitpid(k, TRUE).set = {k}
            /\ waitpid(k, FALSE).call = "waitpid" /\ waitpid(k, FALSE).set = {k}
            /\ waitpid(k, TRUE).prints = TRUE
  BY DEF fork, exit, wait, waitpid

\* ... and what each of ec5's calls is
LEMMA Ec5Heads ==
  /\ Head(Ec5).call = "fork" /\ Head(Ec5).child = 1 /\ Head(Ec5).failed # <<>>
  /\ Head(ToForkSecond).call = "fork" /\ Head(ToForkSecond).child = 2 /\ Head(ToForkSecond).failed # <<>>
  /\ Head(ToForkThird).call = "fork" /\ Head(ToForkThird).child = 3
  /\ Head(ToForkThird).failed # <<>>
  /\ Head(ToWaitThrice).call = "waitpid" /\ Head(ToWaitThrice).set = 1 .. MaxChildren
  /\ Head(ToWaitTwice).call = "waitpid" /\ Head(ToWaitTwice).set = 1 .. MaxChildren
  /\ Head(ToWait).call = "waitpid" /\ Head(ToWait).set = 1 .. MaxChildren
  /\ Head(ToExit).call = "exit"
<1>1. ToFail # <<>>
  BY DEF ToFail
<1>2. ASSUME NEW x, NEW k, NEW calls, x = fork(k, calls, ToFail)
      PROVE  x.call = "fork" /\ x.child = k /\ x.failed # <<>>
  BY <1>1, <1>2 DEF fork
<1>3. ASSUME NEW x, x = wait(TRUE)
      PROVE  x.call = "waitpid" /\ x.set = 1 .. MaxChildren
  BY <1>3 DEF wait
<1>4. Head(ToExit).call = "exit"
  BY Ec5Script, Fields
<1>5. Head(Ec5).call = "fork" /\ Head(Ec5).child = 1 /\ Head(Ec5).failed # <<>>
  BY Ec5Script, <1>2
<1>6. Head(ToForkSecond).call = "fork" /\ Head(ToForkSecond).child = 2 /\ Head(ToForkSecond).failed # <<>>
  BY Ec5Script, <1>2
<1>7. Head(ToForkThird).call = "fork" /\ Head(ToForkThird).child = 3
      /\ Head(ToForkThird).failed # <<>>
  BY Ec5Script, <1>2
<1> QED
  BY Ec5Script, <1>3, <1>4, <1>5, <1>6, <1>7

\* The places of ec5 differ.
LEMMA Ec5Places ==
  /\ Ec5 # ToForkSecond /\ Ec5 # ToForkThird /\ ToForkSecond # ToForkThird
  /\ \A x \in {ToWait, ToWaitTwice, ToWaitThrice, ToExit} :
       x # Ec5 /\ x # ToForkSecond /\ x # ToForkThird
  /\ ToWait # ToWaitTwice /\ ToWait # ToWaitThrice /\ ToWaitTwice # ToWaitThrice
  /\ ToExit \notin {ToWait, ToWaitTwice, ToWaitThrice}
<1>1. Ec5 # ToForkSecond /\ Ec5 # ToForkThird /\ ToForkSecond # ToForkThird
  <2>1. Head(Ec5).child = 1 /\ Head(ToForkSecond).child = 2 /\ Head(ToForkThird).child = 3
    BY Ec5Heads
  <2>2. ASSUME Ec5 = ToForkSecond PROVE FALSE
    BY ONLY <2>1, <2>2
  <2>3. ASSUME Ec5 = ToForkThird PROVE FALSE
    BY ONLY <2>1, <2>3
  <2>4. ASSUME ToForkSecond = ToForkThird PROVE FALSE
    BY ONLY <2>1, <2>4
  <2> QED
    BY <2>2, <2>3, <2>4
<1>2. ASSUME NEW x \in {ToWait, ToWaitTwice, ToWaitThrice, ToExit}
      PROVE  x # Ec5 /\ x # ToForkSecond /\ x # ToForkThird
  <2>1. Head(x).call # "fork"
    BY Ec5Heads
  <2> QED
    BY <2>1, Ec5Heads
<1>3. /\ ToWait # ToWaitTwice /\ ToWait # ToWaitThrice /\ ToWaitTwice # ToWaitThrice
      /\ ToExit \notin {ToWait, ToWaitTwice, ToWaitThrice}
  <2>1. Len(ToWait) = 2 /\ Len(ToWaitTwice) = 3 /\ Len(ToWaitThrice) = 4 /\ Len(ToExit) = 1
    BY DEF ToExit, ToWait, ToWaitTwice, ToWaitThrice
  <2> QED
    BY <2>1
<1> QED
  BY <1>1, <1>2, <1>3

LEMMA Ec5Calls ==
  ASSUME NEW s, NEW A, Ec5Waits(s, A)
  PROVE  \/ /\ Head(s).call = "fork" /\ Head(s).failed # <<>>
            /\ \/ s = Ec5 \/ s = ToForkSecond \/ s = ToForkThird
         \/ /\ Head(s).call = "waitpid" /\ Head(s).set = 1 .. MaxChildren
            /\ s \in {ToWait, ToWaitTwice, ToWaitThrice}
         \/ Head(s).call = "exit" /\ A = {} /\ s = ToExit
  BY Ec5Heads DEF Ec5Waits

\* A call that neither forks, nor waits, nor ends the script
LEMMA AdvanceOK ==
  ASSUME NEW name, NEW s, NEW F, NEW A, ScriptOK(name, s, F, A), s # <<>>,
         Head(s).call \notin {"exit", "getline", "waitpid"},
         Head(s).call = "fork" => Head(s).failed = <<>>
  PROVE  ScriptOK(name, Tail(s), F, A)
<1>1. IsSeq(s) /\ CarefulScript(name, Tail(s)) /\ Fresh(name, Tail(s), F)
  <2>1. IsSeq(s) /\ CarefulScript(name, s) /\ Fresh(name, s, F)
    BY DEF ScriptOK, CarefulScript
  <2> QED
    BY <2>1, CarefulTail, FreshTail
<1>2. CASE name = "Ec5"
  BY <1>2, Ec5Calls DEF ScriptOK
<1>3. CASE name # "Ec5"
  BY <1>1, <1>3, WaitsLaterTail, WaitsForTail DEF ScriptOK, Awaits
<1> QED
  BY <1>2, <1>3

\* A script of one call that ends it
LEMMA ExitOK ==
  ASSUME NEW name, NEW code, NEW F
  PROVE  name # "Ec5" => ScriptOK(name, <<exit(code)>>, F, {})
<1> DEFINE s == <<exit(code)>>
<1>1. IsSeq(s) /\ DOMAIN s = {1} /\ s[1] = exit(code) /\ Len(s) = 1
  BY SingleIsSeq
<1> HIDE DEF s
<1>2. exit(code).call = "exit"
  BY DEF exit
<1>3. CarefulScript(name, s) /\ Fresh(name, s, F) /\ WaitsLater(name, s) /\ WaitsFor(name, s, {})
  BY <1>1, <1>2 DEF CarefulScript, Fresh, WaitsLater, WaitsFor, MainCall, MayFail
<1> QED
  BY <1>3 DEF ScriptOK, s

\* A call that fails and ends the program, unless it has left out some child
LEMMA GiveUpOK ==
  ASSUME NEW name, NEW s, NEW F, NEW A, ScriptOK(name, s, F, A), s # <<>>,
         MayFail(Head(s)), name \notin Hasty
  PROVE  A = {} /\ ScriptOK(name, Head(s).failed, F, A)
<1>1. 1 \in DOMAIN s /\ Head(s) = s[1]
  BY TailIndex DEF ScriptOK, CarefulScript
<1>2. name # "Ec5"
  BY DEF Hasty
<1>3. PICK code : Head(s).failed = <<exit(code)>>
  BY <1>1 DEF ScriptOK, CarefulScript
<1>4. A = {}
  BY <1>1, <1>2 DEF ScriptOK, WaitsFor
<1> QED
  BY <1>2, <1>3, <1>4, ExitOK

\* The script ends: nobody is left to wait for.
LEMMA LastOK ==
  ASSUME NEW name, NEW s, NEW F, NEW A, ScriptOK(name, s, F, A), s # <<>>,
         Head(s).call \in {"exit", "getline"}
  PROVE  A = {} /\ (Head(s).call = "getline" => name \in Shells)
<1>1. Len(s) \in Nat \ {0} /\ DOMAIN s = 1 .. Len(s) /\ Head(s) = s[1]
  BY TailIndex DEF ScriptOK, CarefulScript
<1>2. DOMAIN s = {1}
  BY <1>1 DEF ScriptOK, CarefulScript
<1>3. CASE name = "Ec5"
  BY <1>1, <1>2, <1>3, Ec5Calls DEF ScriptOK, CarefulScript
<1>4. CASE name # "Ec5"
  BY <1>1, <1>2, <1>4 DEF ScriptOK, CarefulScript, WaitsFor, Awaits
<1> QED
  BY <1>3, <1>4

\* A fork that succeeds
LEMMA ForkOK ==
  ASSUME NEW name, NEW s, NEW F \in SUBSET (1 .. MaxChildren), NEW A \in SUBSET F,
         ScriptOK(name, s, F, A), s # <<>>, Head(s).call = "fork"
  PROVE  /\ Head(s).child \notin 1 .. MaxChildren => ScriptOK(name, Tail(s), F, A)
         /\ Head(s).child \in 1 .. MaxChildren =>
              ScriptOK(name, Tail(s), F \cup {Head(s).child}, A \cup {Head(s).child})
<1> DEFINE k == Head(s).child
           t == Tail(s)
<1>1. IsSeq(s) /\ CarefulScript(name, t) /\ Fresh(name, t, F)
  <2>1. IsSeq(s) /\ CarefulScript(name, s) /\ Fresh(name, s, F)
    BY DEF ScriptOK, CarefulScript
  <2> QED
    BY <2>1, CarefulTail, FreshTail
<1>2. /\ 1 \in DOMAIN s /\ Head(s) = s[1] /\ DOMAIN s = 1 .. Len(s) /\ Len(s) \in Nat
      /\ DOMAIN t = 1 .. Len(s) - 1
      /\ \A n \in DOMAIN t : t[n] = s[n + 1] /\ n + 1 \in DOMAIN s
      /\ \A n \in DOMAIN s : n # 1 => n - 1 \in DOMAIN t /\ t[n - 1] = s[n]
  BY <1>1, TailIndex
<1> HIDE DEF t
<1>3. Fresh(name, t, F \cup {k})
  <2> SUFFICES ASSUME name \in Reporting, NEW n \in DOMAIN t, t[n].call = "fork"
               PROVE  t[n].child # k
    BY <1>1 DEF Fresh
  <2>1. n + 1 \in DOMAIN s /\ t[n] = s[n + 1] /\ 1 < n + 1
    BY <1>2
  <2> QED
    BY <1>2, <2>1 DEF ScriptOK, CarefulScript
<1>4. CASE name = "Ec5"
  <2>1. s = Ec5 \/ s = ToForkSecond \/ s = ToForkThird
    BY <1>4, Ec5Calls DEF ScriptOK
  <2>2. Ec5Waits(s, A)
    BY <1>4 DEF ScriptOK
  <2>3. MaxChildren \in Nat /\ 0 \in Numbers
    BY ProcessAssumption DEF Numbers
  <2>4. ASSUME NEW B \in SUBSET (1 .. MaxChildren), NEW j \in Numbers, B \subseteq A \cup {j}
        PROVE  Ec5Waits(t, B)
    <3>1. /\ Ec5 # ToForkSecond /\ Ec5 # ToForkThird /\ ToForkSecond # ToForkThird
          /\ \A x \in {ToWait, ToWaitTwice, ToWaitThrice, ToExit} :
               x # Ec5 /\ x # ToForkSecond /\ x # ToForkThird
      BY Ec5Places
    <3>2. CASE s = Ec5
      <4>1. A = {}
        BY <2>2, <3>1, <3>2 DEF Ec5Waits
      <4> QED
        BY <2>4, <3>2, <4>1, Ec5Script DEF Ec5Waits, t
    <3>3. CASE s = ToForkSecond
      <4>1. PICK x \in Numbers : A \subseteq {x}
        BY <2>2, <3>1, <3>3 DEF Ec5Waits
      <4>2. B \subseteq {x, j}
        BY <2>4, <4>1
      <4> QED
        BY <3>3, <4>2, Ec5Script DEF Ec5Waits, t
    <3>4. CASE s = ToForkThird
      <4>1. PICK x, y \in Numbers : A \subseteq {x, y}
        BY <2>2, <3>1, <3>4 DEF Ec5Waits
      <4>2. B \subseteq {x, y, j}
        BY <2>4, <4>1
      <4>3. t = ToWaitThrice
        BY <3>4, Ec5Script DEF t
      <4> QED
        BY <4>2, <4>3 DEF Ec5Waits
    <3> QED
      BY <2>1, <3>2, <3>3, <3>4
  <2>5. Ec5Waits(t, A)
    BY <2>3, <2>4
  <2>6. k \in 1 .. MaxChildren => Ec5Waits(t, A \cup {k})
    <3> SUFFICES ASSUME k \in 1 .. MaxChildren PROVE Ec5Waits(t, A \cup {k})
      OBVIOUS
    <3> HIDE DEF k
    <3>1. A \cup {k} \in SUBSET (1 .. MaxChildren) /\ k \in Numbers
      BY <2>3 DEF Numbers
    <3> QED
      BY <2>4, <3>1
  <2> QED
    BY <1>1, <1>3, <1>4, <2>5, <2>6 DEF ScriptOK, t
<1>5. CASE name # "Ec5"
  <2>1. WaitsLater(name, s) /\ WaitsFor(name, s, A)
    BY <1>5 DEF ScriptOK
  <2>2. WaitsLater(name, t)
    BY <1>1, <2>1, WaitsLaterTail DEF t
  <2>3. WaitsFor(name, t, A)
    BY <1>1, <2>1, WaitsForTail DEF t, Awaits
  <2>4. ASSUME k \in 1 .. MaxChildren PROVE WaitsFor(name, t, A \cup {k})
    <3>1. Single(name) => k = 1
      BY <1>2 DEF ScriptOK, CarefulScript
    <3>2. PICK n \in DOMAIN s : 1 < n /\ Awaits(name, s[n], k)
      BY <1>2, <2>1, <2>4 DEF WaitsLater
    <3>3. n - 1 \in DOMAIN t /\ t[n - 1] = s[n]
      BY <1>2, <3>2
    <3>4. name \notin Hasty => \A m \in DOMAIN t : ~MayFail(t[m])
      <4> SUFFICES ASSUME name \notin Hasty, NEW m \in DOMAIN t PROVE ~MayFail(t[m])
        OBVIOUS
      <4>1. m + 1 \in DOMAIN s /\ 1 < m + 1 /\ t[m] = s[m + 1]
        BY <1>2
      <4> QED
        BY <1>2, <2>1, <4>1 DEF WaitsLater
    <3> QED
      BY <2>3, <3>1, <3>2, <3>3, <3>4 DEF WaitsFor
  <2> QED
    BY <1>1, <1>3, <1>5, <2>2, <2>3, <2>4 DEF ScriptOK, t
<1> QED
  BY <1>4, <1>5

------------------------------------------------------------
\* A wait that takes one child, or finds none of those it asks for
LEMMA WaitOK ==
  ASSUME NEW name, NEW s, NEW F, NEW A \in SUBSET (1 .. MaxChildren),
         ScriptOK(name, s, F, A), s # <<>>, Head(s).call = "waitpid",
         NEW B, \/ B = A /\ Head(s).set \cap A = {}
                \/ \E k \in Head(s).set \cap A : B = A \ {k}
  PROVE  ScriptOK(name, Tail(s), F, B)
<1>1. IsSeq(s) /\ CarefulScript(name, Tail(s)) /\ Fresh(name, Tail(s), F)
  <2>1. IsSeq(s) /\ CarefulScript(name, s) /\ Fresh(name, s, F)
    BY DEF ScriptOK, CarefulScript
  <2> QED
    BY <2>1, CarefulTail, FreshTail
<1>2. CASE name = "Ec5"
  <2>1. Ec5Waits(s, A) /\ s \in {ToWait, ToWaitTwice, ToWaitThrice} /\ Head(s).set = 1 .. MaxChildren
    BY <1>2, Ec5Calls DEF ScriptOK
  <2>2. B = {} \/ \E k \in A : B = A \ {k}
    BY <2>1
  <2>3. 0 \in Numbers
    BY ProcessAssumption DEF Numbers
  <2>7. Ec5Waits(Tail(s), B)
    <3>4. CASE s = ToWait
      <4>1. PICK x \in Numbers : A \subseteq {x}
        BY <2>1, <3>4, Ec5Places, Ec5Heads DEF Ec5Waits
      <4>2. B = {}
        BY <2>2, <4>1
      <4> QED
        BY <3>4, <4>2, Ec5Script DEF Ec5Waits
    <3>5. CASE s = ToWaitTwice
      <4>1. PICK x, y \in Numbers : A \subseteq {x, y}
        BY <2>1, <3>5, Ec5Places, Ec5Heads DEF Ec5Waits
      <4>2. B \subseteq {x} \/ B \subseteq {y}
        BY <2>2, <4>1
      <4> QED
        BY <3>5, <4>2, Ec5Script DEF Ec5Waits
    <3>6. CASE s = ToWaitThrice
      <4>1. PICK x, y, z \in Numbers : A \subseteq {x, y, z}
        BY <2>1, <3>6, Ec5Places, Ec5Heads DEF Ec5Waits
      <4>2. B \subseteq {x, y} \/ B \subseteq {y, z} \/ B \subseteq {x, z}
        BY <2>2, <4>1
      <4> QED
        BY <3>6, <4>2, Ec5Script DEF Ec5Waits
    <3> QED
      BY <2>1, <3>4, <3>5, <3>6
  <2> QED
    BY <1>1, <1>2, <2>7 DEF ScriptOK
<1>3. CASE name # "Ec5"
  <2>1. WaitsLater(name, s) /\ WaitsFor(name, s, A)
    BY <1>3 DEF ScriptOK
  <2>2. B \subseteq A
    OBVIOUS
  <2>3. ASSUME NEW k \in B PROVE ~Awaits(name, Head(s), k)
    <3> SUFFICES ASSUME Awaits(name, Head(s), k) PROVE FALSE
      OBVIOUS
    <3>1. k \in Head(s).set /\ (Single(name) \/ Head(s).set = {k})
      BY DEF Awaits
    <3>2. PICK j \in Head(s).set \cap A : B = A \ {j}
      BY <2>2, <2>3, <3>1
    <3>3. Single(name) => j = 1 /\ k = 1
      BY <2>1, <2>2, <2>3, <3>2 DEF WaitsFor
    <3> QED
      BY <2>3, <3>1, <3>2, <3>3
  <2>4. WaitsLater(name, Tail(s)) /\ WaitsFor(name, Tail(s), B)
    BY <1>1, <2>1, <2>2, <2>3, WaitsLaterTail, WaitsForTail
  <2> QED
    BY <1>1, <1>3, <2>4 DEF ScriptOK
<1> QED
  BY <1>2, <1>3

------------------------------------------------------------
\* A script that forks one child is as it should be.
LEMMA OneForkOK ==
  ASSUME NEW name, Single(name), name \notin Hasty, NEW s, NEW f, NEW w, OneFork(name, s, f, w)
  PROVE  ScriptOK(name, s, {}, {})
<1>1. DOMAIN s \subseteq Int
  <2>1. s \in Seq(Elements(s))
    BY DEF OneFork, IsSeq
  <2> QED
    BY <2>1
<1>2. CarefulScript(name, s)
  <2>1. \A m, n \in DOMAIN s : ~(m < n /\ s[m].call = "fork" /\ s[n].call = "fork")
    BY <1>1 DEF OneFork
  <2> QED
    BY <2>1 DEF OneFork, CarefulScript
<1>3. WaitsLater(name, s)
  BY <1>1 DEF OneFork, WaitsLater, Awaits
<1>4. Fresh(name, s, {}) /\ WaitsFor(name, s, {})
  BY DEF Fresh, WaitsFor
<1>5. name # "Ec5"
  BY DEF Hasty
<1> QED
  BY <1>2, <1>3, <1>4, <1>5 DEF ScriptOK

\* The calls of a main process
LEMMA MainOnes ==
  /\ \A x, S : x = close(S) => MainCall(x) /\ x.call = "close"
  /\ \A x, n, m : x = write(n, m) => MainCall(x) /\ x.call = "write"
  /\ \A x, n : x = read(n, <<>>) => MainCall(x) /\ x.call = "read"
  /\ \A x, name : x = unlink(name) => MainCall(x) /\ x.call = "unlink"
  /\ \A x, name : x = rmid(name) => MainCall(x) /\ x.call = "rmid"
  /\ \A x, waits : x = fetch(waits) => MainCall(x) /\ x.call = "fetch"
  /\ \A x, name : x = open(name, <<>>) => MainCall(x) /\ x.call = "open" /\ x.failed = <<>>
  /\ \A x, code : x = exit(code) => MainCall(x) /\ x.call = "exit"
  /\ \A x, lines : x = getline(lines) => MainCall(x) /\ x.call = "getline"
  /\ \A x, n, failed : x = pipe(n, failed) => MainCall(x) /\ x.call = "pipe" /\ x.failed = failed
  /\ \A x, k, calls, failed : x = fork(k, calls, failed) =>
       MainCall(x) /\ x.call = "fork" /\ x.child = k /\ x.failed = failed
  /\ \A x, k : x = waitpid(k, TRUE) \/ x = waitpid(k, FALSE) =>
       MainCall(x) /\ x.call = "waitpid" /\ x.set = {k} /\ (x = waitpid(k, TRUE) => x.prints = TRUE)
  /\ \A x : x = wait(TRUE) =>
       MainCall(x) /\ x.call = "waitpid" /\ x.set = 1 .. MaxChildren /\ x.prints = TRUE
  BY DEF MainCall, close, write, read, unlink, rmid, fetch, open, exit, getline, pipe, fork, waitpid, wait

\* ec1 to ec4 of process/main.cpp
LEMMA EcOK ==
  ASSUME NEW name \in {"Ec1", "Ec2", "Ec3", "Ec4"}, NEW calls,
         NEW w \in {waitpid(1, TRUE), wait(TRUE)}
  PROVE  ScriptOK(name, OneChild(calls, w), {}, {})
<1> DEFINE a == fork(1, calls, Return)
           e == exit(0)
           s == <<a, w, e>>
<1>1. MainCall(a) /\ a.call = "fork" /\ a.child = 1 /\ a.failed = <<exit(0)>>
  BY MainOnes DEF Return
<1>2. MainCall(w) /\ w.call = "waitpid" /\ w.prints = TRUE /\ (1 \in 1 .. MaxChildren => 1 \in w.set)
  <2>1. CASE w = wait(TRUE)
    BY <2>1 DEF MainCall, wait
  <2>2. CASE w = waitpid(1, TRUE)
    BY <2>2 DEF MainCall, waitpid
  <2> QED
    BY <2>1, <2>2
<1>3. MainCall(e) /\ e.call = "exit"
  BY MainOnes
<1> HIDE DEF a, e
<1>4. s \in Seq({a, w, e}) /\ DOMAIN s = 1 .. 3 /\ s[1] = a /\ s[2] = w /\ s[3] = e /\ Len(s) = 3
  OBVIOUS
<1>5. IsSeq(s)
  BY <1>4, SeqOf
<1> HIDE DEF s
<1>6. Single(name) /\ name \notin Hasty
  BY DEF Single, Hasty
<1>7. ~MayFail(w) /\ ~MayFail(e)
  BY <1>2, <1>3 DEF MayFail
<1>8. \A m \in DOMAIN s : m = 1 \/ m = 2 \/ m = 3
  BY <1>4
<1>9. \A m \in DOMAIN s :
         /\ MainCall(s[m])
         /\ s[m].call = "fork" => m = 1
         /\ s[m].call \in {"exit", "getline"} => m = Len(s)
         /\ s[m].call # "getline"
         /\ s[m].call = "waitpid" => s[m].prints = TRUE
         /\ MayFail(s[m]) => m <= 1 /\ \E code : s[m].failed = <<exit(code)>>
  BY <1>1, <1>2, <1>3, <1>4, <1>7, <1>8
<1>10. OneFork(name, s, 1, 2)
  BY <1>1, <1>2, <1>4, <1>5, <1>9 DEF OneFork
<1>11. ScriptOK(name, s, {}, {})
  BY <1>6, <1>10, OneForkOK
<1> QED
  BY <1>11 DEF OneChild, s, a, e

LEMMA TwoAndOne ==
  ASSUME NEW a, NEW b, NEW c
  PROVE  <<a, b>> \o <<c>> = <<a, b, c>>
<1> DEFINE S == {a, b, c}
           s == <<a, b>>
           t == <<c>>
           u == <<a, b, c>>
<1>1. s \in Seq(S) /\ t \in Seq(S) /\ u \in Seq(S) /\ Len(s) = 2 /\ Len(t) = 1 /\ Len(u) = 3
  OBVIOUS
<1>2. s[1] = u[1] /\ s[2] = u[2] /\ t[1] = u[3]
  OBVIOUS
<1> HIDE DEF S, s, t, u
<1>3. /\ s \o t \in Seq(S) /\ Len(s \o t) = 3
      /\ \A i \in 1 .. 3 : (s \o t)[i] = IF i <= 2 THEN s[i] ELSE t[i - 2]
  <2>1. /\ s \o t \in Seq(S) /\ Len(s \o t) = Len(s) + Len(t)
        /\ \A i \in 1 .. Len(s) + Len(t) :
             (s \o t)[i] = IF i <= Len(s) THEN s[i] ELSE t[i - Len(s)]
    BY <1>1, ConcatProperties
  <2> QED
    BY <1>1, <2>1
<1>4. ASSUME NEW i \in 1 .. 3 PROVE (s \o t)[i] = u[i]
  <2>1. i = 1 \/ i = 2 \/ i = 3
    OBVIOUS
  <2> QED
    BY <1>2, <1>3, <2>1
<1>5. s \o t = u
  BY <1>1, <1>3, <1>4, SeqEqual
<1> QED
  BY <1>5 DEF s, t, u

\* A command of the shell is waited for before the next line is read.
LEMMA CommandOK ==
  ASSUME NEW name \in Shells, NEW line, NEW lines
  PROVE  ScriptOK(name, Command(line) \o <<getline(lines)>>, {}, {})
<1>1. PICK calls : Command(line) = <<fork(1, calls, <<>>), waitpid(1, FALSE)>>
  BY DEF Command
<1> DEFINE a == fork(1, calls, <<>>)
           w == waitpid(1, FALSE)
           e == getline(lines)
           s == <<a, w, e>>
<1>2. MainCall(a) /\ a.call = "fork" /\ a.child = 1 /\ a.failed = <<>>
  BY MainOnes
<1>3. MainCall(w) /\ w.call = "waitpid" /\ 1 \in w.set
  BY DEF MainCall, waitpid
<1>4. MainCall(e) /\ e.call = "getline"
  BY MainOnes
<1> HIDE DEF a, w, e
<1>5. Command(line) \o <<getline(lines)>> = s
  <2>1. <<a, w>> \o <<e>> = <<a, w, e>>
    BY TwoAndOne
  <2> QED
    BY <1>1, <2>1 DEF a, w, e
<1>6. s \in Seq({a, w, e}) /\ DOMAIN s = 1 .. 3 /\ s[1] = a /\ s[2] = w /\ s[3] = e /\ Len(s) = 3
  OBVIOUS
<1>7. IsSeq(s)
  BY <1>6, SeqOf
<1> HIDE DEF s
<1>8. Single(name) /\ name \notin Hasty /\ name \notin Reporting
  BY DEF Single, Hasty, Shells, Reporting
<1>9. ~MayFail(a) /\ ~MayFail(w) /\ ~MayFail(e)
  BY <1>2, <1>3, <1>4 DEF MayFail
<1>10. \A m \in DOMAIN s : m = 1 \/ m = 2 \/ m = 3
  BY <1>6
<1>11. \A m \in DOMAIN s :
         /\ MainCall(s[m])
         /\ s[m].call = "fork" => m = 1
         /\ s[m].call \in {"exit", "getline"} => m = Len(s)
         /\ ~MayFail(s[m])
  BY <1>2, <1>3, <1>4, <1>6, <1>9, <1>10
<1>12. OneFork(name, s, 1, 2)
  BY <1>2, <1>3, <1>6, <1>7, <1>8, <1>11 DEF OneFork
<1>13. ScriptOK(name, s, {}, {})
  BY <1>8, <1>12, OneForkOK
<1> QED
  BY <1>5, <1>13

\* A shell that reads a line has no child.
LEMMA GetlineOK ==
  ASSUME NEW name \in Shells, NEW lines, NEW F
  PROVE  ScriptOK(name, <<getline(lines)>>, F, {})
<1> DEFINE s == <<getline(lines)>>
<1>1. IsSeq(s) /\ DOMAIN s = {1} /\ s[1] = getline(lines) /\ Len(s) = 1
  BY SingleIsSeq
<1>2. getline(lines).call = "getline" /\ MainCall(getline(lines))
  BY MainOnes
<1>3. name \notin Reporting /\ name # "Ec5"
  BY DEF Shells, Reporting
<1> HIDE DEF s
<1>4. CarefulScript(name, s) /\ Fresh(name, s, F) /\ WaitsLater(name, s) /\ WaitsFor(name, s, {})
  BY <1>1, <1>2, <1>3 DEF CarefulScript, Fresh, WaitsLater, WaitsFor, MayFail
<1> QED
  BY <1>3, <1>4 DEF ScriptOK, s

\* Outside of the programs that report their children, it does not matter who was forked.
LEMMA AnyForked ==
  ASSUME NEW name, name \notin Reporting, NEW s, NEW F, NEW G, NEW A, ScriptOK(name, s, F, A)
  PROVE  ScriptOK(name, s, G, A)
  BY DEF ScriptOK, Fresh

------------------------------------------------------------
\* One that forks several by number is, too.
LEMMA ByNumberOK ==
  ASSUME NEW name, ~Single(name), name # "Ec5", name \notin Reporting,
         NEW s, NEW n \in Nat, NEW f, NEW w, ByNumber(name, s, n, f, w)
  PROVE  ScriptOK(name, s, {}, {})
<1>1. CarefulScript(name, s)
  BY DEF ByNumber, CarefulScript
<1>2. ASSUME NEW m \in DOMAIN s, s[m].call = "fork"
      PROVE  \E j \in DOMAIN s : m < j /\ Awaits(name, s[j], s[m].child)
  <2>1. PICK k \in 1 .. n : m = f[k] /\ s[m].child = k
    BY <1>2 DEF ByNumber
  <2>2. /\ w[k] \in DOMAIN s /\ f[k] < w[k]
        /\ s[w[k]].call = "waitpid" /\ s[w[k]].set = {k}
    BY DEF ByNumber
  <2> QED
    BY <2>1, <2>2 DEF Awaits
<1>3. WaitsLater(name, s)
  BY <1>2 DEF WaitsLater, ByNumber
<1>4. Fresh(name, s, {}) /\ WaitsFor(name, s, {})
  BY DEF Fresh, WaitsFor
<1> QED
  BY <1>1, <1>3, <1>4 DEF ScriptOK

\* The other programs, call by call
LEMMA PingOK == ScriptOK("Ping", Ping, {}, {})
<1> DEFINE c1 == pipe(P(1), Return)
           c2 == fork(1, <<close({W(P(1))}), read(P(1), <<>>), close({R(P(1))}), exit(1)>>, Return)
           c3 == close({R(P(1))})
           c4 == write(P(1), 1)
           c5 == close({W(P(1))})
           c6 == wait(TRUE)
           c7 == exit(0)
           s == <<c1, c2, c3, c4, c5, c6, c7>>
<1>1. MainCall(c1) /\ c1.call = "pipe" /\ c1.failed = <<exit(0)>>
  BY MainOnes DEF Return
<1>2. MainCall(c2) /\ c2.call = "fork" /\ c2.child = 1 /\ c2.failed = <<exit(0)>>
  BY MainOnes DEF Return
<1>3. MainCall(c3) /\ c3.call = "close"
  BY MainOnes
<1>4. MainCall(c4) /\ c4.call = "write"
  BY MainOnes
<1>5. MainCall(c5) /\ c5.call = "close"
  BY MainOnes
<1>6. MainCall(c6) /\ c6.call = "waitpid" /\ c6.prints = TRUE /\ (1 \in 1 .. MaxChildren => 1 \in c6.set)
  BY DEF MainCall, wait
<1>7. MainCall(c7) /\ c7.call = "exit"
  BY MainOnes
<1> HIDE DEF c1, c2, c3, c4, c5, c6, c7
<1>8. /\ s \in Seq({c1, c2, c3, c4, c5, c6, c7}) /\ DOMAIN s = 1 .. 7 /\ Len(s) = 7
      /\ s[1] = c1 /\ s[2] = c2 /\ s[3] = c3 /\ s[4] = c4 /\ s[5] = c5 /\ s[6] = c6 /\ s[7] = c7
  OBVIOUS
<1>9. IsSeq(s)
  BY <1>8, SeqOf
<1> HIDE DEF s
<1>10. \A m \in DOMAIN s : m = 1 \/ m = 2 \/ m = 3 \/ m = 4 \/ m = 5 \/ m = 6 \/ m = 7
  BY <1>8
<1>11. ~MayFail(c3) /\ ~MayFail(c4) /\ ~MayFail(c5) /\ ~MayFail(c6) /\ ~MayFail(c7)
  BY <1>1, <1>2, <1>3, <1>4, <1>5, <1>6, <1>7 DEF MayFail
<1>12. OneFork("Ping", s, 2, 6)
  <2>1. \A m \in DOMAIN s :
         /\ MainCall(s[m])
         /\ s[m].call = "fork" => m = 2
         /\ s[m].call = "exit" => m = Len(s)
         /\ s[m].call # "getline"
         /\ s[m].call = "waitpid" => s[m].prints = TRUE
         /\ MayFail(s[m]) => m <= 2 /\ \E code : s[m].failed = <<exit(code)>>
    BY <1>1, <1>2, <1>3, <1>4, <1>5, <1>6, <1>7, <1>8, <1>10, <1>11
  <2> QED
    BY <1>2, <1>6, <1>8, <1>9, <2>1 DEF OneFork
<1>13. Single("Ping") /\ "Ping" \notin Hasty
  BY DEF Single, Hasty
<1>14. ScriptOK("Ping", s, {}, {})
  BY <1>12, <1>13, OneForkOK
<1> QED
  BY <1>14 DEF Ping, s, c1, c2, c3, c4, c5, c6, c7

LEMMA PingPongOK == ScriptOK("PingPong", PingPong, {}, {})
<1> DEFINE c1 == pipe(P(1), Return)
           c2 == pipe(P(2), Return)
           c3 == fork(1,
       << close({R(P(2))}), close({W(P(1))}), read(P(1), <<write(P(2), 2)>>),
          close({R(P(1))}), close({W(P(2))}), exit(1) >>, Return)
           c4 == close({R(P(1))})
           c5 == close({W(P(2))})
           c6 == write(P(1), 1)
           c7 == read(P(2), <<>>)
           c8 == close({R(P(2))})
           c9 == close({W(P(1))})
           c10 == wait(TRUE)
           c11 == exit(0)
           s == <<c1, c2, c3, c4, c5, c6, c7, c8, c9, c10, c11>>
<1>1. MainCall(c1) /\ c1.call = "pipe" /\ c1.failed = <<exit(0)>>
  BY MainOnes DEF Return
<1>2. MainCall(c2) /\ c2.call = "pipe" /\ c2.failed = <<exit(0)>>
  BY MainOnes DEF Return
<1>3. MainCall(c3) /\ c3.call = "fork" /\ c3.child = 1 /\ c3.failed = <<exit(0)>>
  BY MainOnes DEF Return
<1>4. MainCall(c4) /\ c4.call = "close"
  BY MainOnes
<1>5. MainCall(c5) /\ c5.call = "close"
  BY MainOnes
<1>6. MainCall(c6) /\ c6.call = "write"
  BY MainOnes
<1>7. MainCall(c7) /\ c7.call = "read"
  BY MainOnes
<1>8. MainCall(c8) /\ c8.call = "close"
  BY MainOnes
<1>9. MainCall(c9) /\ c9.call = "close"
  BY MainOnes
<1>10. MainCall(c10) /\ c10.call = "waitpid" /\ c10.prints = TRUE /\ (1 \in 1 .. MaxChildren => 1 \in c10.set)
  BY DEF MainCall, wait
<1>11. MainCall(c11) /\ c11.call = "exit"
  BY MainOnes
<1> HIDE DEF c1, c2, c3, c4, c5, c6, c7, c8, c9, c10, c11
<1>12. /\ s \in Seq({c1, c2, c3, c4, c5, c6, c7, c8, c9, c10, c11}) /\ DOMAIN s = 1 .. 11 /\ Len(s) = 11
      /\ s[1] = c1 /\ s[2] = c2 /\ s[3] = c3 /\ s[4] = c4 /\ s[5] = c5 /\ s[6] = c6 /\ s[7] = c7 /\ s[8] = c8 /\ s[9] = c9 /\ s[10] = c10 /\ s[11] = c11
  OBVIOUS
<1>13. IsSeq(s)
  BY <1>12, SeqOf
<1> HIDE DEF s
<1>14. \A m \in DOMAIN s : m = 1 \/ m = 2 \/ m = 3 \/ m = 4 \/ m = 5 \/ m = 6 \/ m = 7 \/ m = 8 \/ m = 9 \/ m = 10 \/ m = 11
  BY <1>12
<1>15. ~MayFail(c4) /\ ~MayFail(c5) /\ ~MayFail(c6) /\ ~MayFail(c7) /\ ~MayFail(c8) /\ ~MayFail(c9) /\ ~MayFail(c10) /\ ~MayFail(c11)
  BY <1>1, <1>2, <1>3, <1>4, <1>5, <1>6, <1>7, <1>8, <1>9, <1>10, <1>11 DEF MayFail
<1>16. OneFork("PingPong", s, 3, 10)
  <2>1. \A m \in DOMAIN s :
         /\ MainCall(s[m])
         /\ s[m].call = "fork" => m = 3
         /\ s[m].call = "exit" => m = Len(s)
         /\ s[m].call # "getline"
         /\ s[m].call = "waitpid" => s[m].prints = TRUE
         /\ MayFail(s[m]) => m <= 3 /\ \E code : s[m].failed = <<exit(code)>>
    BY <1>1, <1>2, <1>3, <1>4, <1>5, <1>6, <1>7, <1>8, <1>9, <1>10, <1>11, <1>12, <1>14, <1>15
  <2> QED
    BY <1>3, <1>10, <1>12, <1>13, <2>1 DEF OneFork
<1>17. Single("PingPong") /\ "PingPong" \notin Hasty
  BY DEF Single, Hasty
<1>18. ScriptOK("PingPong", s, {}, {})
  BY <1>16, <1>17, OneForkOK
<1> QED
  BY <1>18 DEF PingPong, s, c1, c2, c3, c4, c5, c6, c7, c8, c9, c10, c11

LEMMA HelloSysVOK ==
  ASSUME NEW i
  PROVE  ScriptOK("HelloSysV", HelloSysV(i), {}, {})
<1> DEFINE c1 == open(KEY, <<>>)
           c2 == fork(1, <<send(i, MaxKeyed), exit(1)>>, <<exit(1)>>)
           c3 == fetch(FALSE)
           c4 == waitpid(1, FALSE)
           c5 == rmid(KEY)
           c6 == exit(0)
           s == <<c1, c2, c3, c4, c5, c6>>
<1>1. MainCall(c1) /\ c1.call = "open" /\ c1.failed = <<>>
  BY MainOnes
<1>2. MainCall(c2) /\ c2.call = "fork" /\ c2.child = 1 /\ c2.failed = <<exit(1)>>
  BY MainOnes
<1>3. MainCall(c3) /\ c3.call = "fetch"
  BY MainOnes
<1>4. MainCall(c4) /\ c4.call = "waitpid" /\ c4.set = {1}
  BY DEF MainCall, waitpid
<1>5. MainCall(c5) /\ c5.call = "rmid"
  BY MainOnes
<1>6. MainCall(c6) /\ c6.call = "exit"
  BY MainOnes
<1> HIDE DEF c1, c2, c3, c4, c5, c6
<1>7. /\ s \in Seq({c1, c2, c3, c4, c5, c6}) /\ DOMAIN s = 1 .. 6 /\ Len(s) = 6
      /\ s[1] = c1 /\ s[2] = c2 /\ s[3] = c3 /\ s[4] = c4 /\ s[5] = c5 /\ s[6] = c6
  OBVIOUS
<1>8. IsSeq(s)
  BY <1>7, SeqOf
<1> HIDE DEF s
<1>9. \A m \in DOMAIN s : m = 1 \/ m = 2 \/ m = 3 \/ m = 4 \/ m = 5 \/ m = 6
  BY <1>7
<1>10. ~MayFail(c1) /\ ~MayFail(c3) /\ ~MayFail(c4) /\ ~MayFail(c5) /\ ~MayFail(c6)
  BY <1>1, <1>2, <1>3, <1>4, <1>5, <1>6 DEF MayFail
<1>11. OneFork("HelloSysV", s, 2, 4)
  <2>1. \A m \in DOMAIN s :
         /\ MainCall(s[m])
         /\ s[m].call = "fork" => m = 2
         /\ s[m].call = "exit" => m = Len(s)
         /\ s[m].call # "getline"
         /\ MayFail(s[m]) => m <= 2 /\ \E code : s[m].failed = <<exit(code)>>
    BY <1>1, <1>2, <1>3, <1>4, <1>5, <1>6, <1>7, <1>9, <1>10
  <2> QED
    BY <1>2, <1>4, <1>7, <1>8, <2>1 DEF OneFork, Reporting
<1>12. Single("HelloSysV") /\ "HelloSysV" \notin Hasty
  BY DEF Single, Hasty
<1>13. ScriptOK("HelloSysV", s, {}, {})
  BY <1>11, <1>12, OneForkOK
<1> QED
  BY <1>13 DEF HelloSysV, s, c1, c2, c3, c4, c5, c6

LEMMA ListGrepOK == ScriptOK("ListGrep", ListGrep, {}, {})
<1> DEFINE c1 == pipe(P(1), Return)
           c2 == fork(1, <<close({R(P(1))}), execvp(1)>> \o List(P(1)) \o <<exit(0)>>, Return)
           c3 == fork(2,
       <<close({W(P(1))}), execvp(1), filter(P(1), {}, FALSE), exit(0)>>, Return)
           c4 == close({R(P(1))})
           c5 == close({W(P(1))})
           c6 == waitpid(1, FALSE)
           c7 == waitpid(2, FALSE)
           c8 == exit(0)
           s == <<c1, c2, c3, c4, c5, c6, c7, c8>>
<1>1. MainCall(c1) /\ c1.call = "pipe" /\ c1.failed = <<exit(0)>>
  BY MainOnes DEF Return
<1>2. MainCall(c2) /\ c2.call = "fork" /\ c2.child = 1 /\ c2.failed = <<exit(0)>>
  BY MainOnes DEF Return
<1>3. MainCall(c3) /\ c3.call = "fork" /\ c3.child = 2 /\ c3.failed = <<exit(0)>>
  BY MainOnes DEF Return
<1>4. MainCall(c4) /\ c4.call = "close"
  BY MainOnes
<1>5. MainCall(c5) /\ c5.call = "close"
  BY MainOnes
<1>6. MainCall(c6) /\ c6.call = "waitpid" /\ c6.set = {1}
  BY DEF MainCall, waitpid
<1>7. MainCall(c7) /\ c7.call = "waitpid" /\ c7.set = {2}
  BY DEF MainCall, waitpid
<1>8. MainCall(c8) /\ c8.call = "exit"
  BY MainOnes
<1> HIDE DEF c1, c2, c3, c4, c5, c6, c7, c8
<1>9. /\ s \in Seq({c1, c2, c3, c4, c5, c6, c7, c8}) /\ DOMAIN s = 1 .. 8 /\ Len(s) = 8
      /\ s[1] = c1 /\ s[2] = c2 /\ s[3] = c3 /\ s[4] = c4 /\ s[5] = c5 /\ s[6] = c6 /\ s[7] = c7 /\ s[8] = c8
  OBVIOUS
<1>10. IsSeq(s)
  BY <1>9, SeqOf
<1> HIDE DEF s
<1>11. \A m \in DOMAIN s : m = 1 \/ m = 2 \/ m = 3 \/ m = 4 \/ m = 5 \/ m = 6 \/ m = 7 \/ m = 8
  BY <1>9
<1>12. ~MayFail(c4) /\ ~MayFail(c5) /\ ~MayFail(c6) /\ ~MayFail(c7) /\ ~MayFail(c8)
  BY <1>1, <1>2, <1>3, <1>4, <1>5, <1>6, <1>7, <1>8 DEF MayFail
<1>13. ByNumber("ListGrep", s, 2, <<2, 3>>, <<6, 7>>)
  <2>1. \A m \in DOMAIN s :
         /\ MainCall(s[m]) /\ s[m].call # "getline"
         /\ s[m].call = "fork" => (m = 2 /\ s[m].child = 1) \/ (m = 3 /\ s[m].child = 2)
         /\ s[m].call = "exit" => m = Len(s)
         /\ MayFail(s[m]) => \E code : s[m].failed = <<exit(code)>>
    BY <1>1, <1>2, <1>3, <1>4, <1>5, <1>6, <1>7, <1>8, <1>9, <1>11, <1>12
  <2> DEFINE f == <<2, 3>>
             w == <<6, 7>>
  <2>2. f[1] = 2 /\ w[1] = 6 /\ f[2] = 3 /\ w[2] = 7
    OBVIOUS
  <2> HIDE DEF f, w
  <2>3. \A k \in 1 .. 2 : k = 1 \/ k = 2
    OBVIOUS
  <2>4. \A k \in 1 .. 2 : /\ f[k] \in DOMAIN s /\ w[k] \in DOMAIN s /\ f[k] < w[k]
                      /\ s[w[k]].call = "waitpid" /\ s[w[k]].set = {k}
    BY <1>6, <1>7, <1>9, <2>2, <2>3
  <2>5. \A m \in DOMAIN s : s[m].call = "fork" => \E k \in 1 .. 2 : m = f[k] /\ s[m].child = k
    BY <2>1, <2>2
  <2>6. ByNumber("ListGrep", s, 2, f, w)
    BY <1>10, <2>1, <2>4, <2>5 DEF ByNumber, Hasty
  <2> QED
    BY <2>6 DEF f, w
<1>14. ~Single("ListGrep") /\ "ListGrep" \notin Reporting
  BY DEF Single, Reporting
<1>15. ScriptOK("ListGrep", s, {}, {})
  BY <1>13, <1>14, ByNumberOK
<1> QED
  BY <1>15 DEF ListGrep, s, c1, c2, c3, c4, c5, c6, c7, c8

LEMMA PipelineOK == ScriptOK("Pipeline", Pipeline, {}, {})
<1> DEFINE c1 == pipe(P(1), <<>>)
           c2 == pipe(P(2), <<>>)
           c3 == pipe(P(3), <<>>)
           c4 == spawn(1, {}, {P(1)}, List(P(1)))
           c5 == close({W(P(1))})
           c6 == spawn(2, {P(1)}, {P(2)}, <<filter(P(1), {P(2)}, TRUE)>>)
           c7 == close({R(P(1))})
           c8 == close({W(P(2))})
           c9 == spawn(3, {P(2)}, {P(3)}, <<filter(P(2), {P(3)}, FALSE)>>)
           c10 == close({R(P(2))})
           c11 == close({W(P(3))})
           c12 == spawn(4, {P(3)}, {}, <<filter(P(3), {}, TRUE)>>)
           c13 == close({R(P(3))})
           c14 == waitpid(1, FALSE)
           c15 == waitpid(2, FALSE)
           c16 == waitpid(3, FALSE)
           c17 == waitpid(4, FALSE)
           c18 == exit(0)
           s == <<c1, c2, c3, c4, c5, c6, c7, c8, c9, c10, c11, c12, c13, c14, c15, c16, c17, c18>>
<1>1. MainCall(c1) /\ c1.call = "pipe" /\ c1.failed = <<>>
  BY MainOnes
<1>2. MainCall(c2) /\ c2.call = "pipe" /\ c2.failed = <<>>
  BY MainOnes
<1>3. MainCall(c3) /\ c3.call = "pipe" /\ c3.failed = <<>>
  BY MainOnes
<1>4. MainCall(c4) /\ c4.call = "fork" /\ c4.child = 1 /\ c4.failed = <<>>
  BY MainOnes DEF spawn
<1>5. MainCall(c5) /\ c5.call = "close"
  BY MainOnes
<1>6. MainCall(c6) /\ c6.call = "fork" /\ c6.child = 2 /\ c6.failed = <<>>
  BY MainOnes DEF spawn
<1>7. MainCall(c7) /\ c7.call = "close"
  BY MainOnes
<1>8. MainCall(c8) /\ c8.call = "close"
  BY MainOnes
<1>9. MainCall(c9) /\ c9.call = "fork" /\ c9.child = 3 /\ c9.failed = <<>>
  BY MainOnes DEF spawn
<1>10. MainCall(c10) /\ c10.call = "close"
  BY MainOnes
<1>11. MainCall(c11) /\ c11.call = "close"
  BY MainOnes
<1>12. MainCall(c12) /\ c12.call = "fork" /\ c12.child = 4 /\ c12.failed = <<>>
  BY MainOnes DEF spawn
<1>13. MainCall(c13) /\ c13.call = "close"
  BY MainOnes
<1>14. MainCall(c14) /\ c14.call = "waitpid" /\ c14.set = {1}
  BY DEF MainCall, waitpid
<1>15. MainCall(c15) /\ c15.call = "waitpid" /\ c15.set = {2}
  BY DEF MainCall, waitpid
<1>16. MainCall(c16) /\ c16.call = "waitpid" /\ c16.set = {3}
  BY DEF MainCall, waitpid
<1>17. MainCall(c17) /\ c17.call = "waitpid" /\ c17.set = {4}
  BY DEF MainCall, waitpid
<1>18. MainCall(c18) /\ c18.call = "exit"
  BY MainOnes
<1> HIDE DEF c1, c2, c3, c4, c5, c6, c7, c8, c9, c10, c11, c12, c13, c14, c15, c16, c17, c18
<1>19. /\ s \in Seq({c1, c2, c3, c4, c5, c6, c7, c8, c9, c10, c11, c12, c13, c14, c15, c16, c17, c18}) /\ DOMAIN s = 1 .. 18 /\ Len(s) = 18
      /\ s[1] = c1 /\ s[2] = c2 /\ s[3] = c3 /\ s[4] = c4 /\ s[5] = c5 /\ s[6] = c6 /\ s[7] = c7 /\ s[8] = c8 /\ s[9] = c9 /\ s[10] = c10 /\ s[11] = c11 /\ s[12] = c12 /\ s[13] = c13 /\ s[14] = c14 /\ s[15] = c15 /\ s[16] = c16 /\ s[17] = c17 /\ s[18] = c18
  OBVIOUS
<1>20. IsSeq(s)
  BY <1>19, SeqOf
<1> HIDE DEF s
<1>21. \A m \in DOMAIN s : m = 1 \/ m = 2 \/ m = 3 \/ m = 4 \/ m = 5 \/ m = 6 \/ m = 7 \/ m = 8 \/ m = 9 \/ m = 10 \/ m = 11 \/ m = 12 \/ m = 13 \/ m = 14 \/ m = 15 \/ m = 16 \/ m = 17 \/ m = 18
  BY <1>19
<1>22. ~MayFail(c1) /\ ~MayFail(c2) /\ ~MayFail(c3) /\ ~MayFail(c4) /\ ~MayFail(c5) /\ ~MayFail(c6) /\ ~MayFail(c7) /\ ~MayFail(c8) /\ ~MayFail(c9) /\ ~MayFail(c10) /\ ~MayFail(c11) /\ ~MayFail(c12) /\ ~MayFail(c13) /\ ~MayFail(c14) /\ ~MayFail(c15) /\ ~MayFail(c16) /\ ~MayFail(c17) /\ ~MayFail(c18)
  BY <1>1, <1>2, <1>3, <1>4, <1>5, <1>6, <1>7, <1>8, <1>9, <1>10, <1>11, <1>12, <1>13, <1>14, <1>15, <1>16, <1>17, <1>18 DEF MayFail
<1>23. ByNumber("Pipeline", s, 4, <<4, 6, 9, 12>>, <<14, 15, 16, 17>>)
  <2>1. \A m \in DOMAIN s :
         /\ MainCall(s[m]) /\ s[m].call # "getline"
         /\ s[m].call = "fork" => (m = 4 /\ s[m].child = 1) \/ (m = 6 /\ s[m].child = 2) \/ (m = 9 /\ s[m].child = 3) \/ (m = 12 /\ s[m].child = 4)
         /\ s[m].call = "exit" => m = Len(s)
         /\ ~MayFail(s[m])
    BY <1>1, <1>2, <1>3, <1>4, <1>5, <1>6, <1>7, <1>8, <1>9, <1>10, <1>11, <1>12, <1>13, <1>14, <1>15, <1>16, <1>17, <1>18, <1>19, <1>21, <1>22
  <2> DEFINE f == <<4, 6, 9, 12>>
             w == <<14, 15, 16, 17>>
  <2>2. f[1] = 4 /\ w[1] = 14 /\ f[2] = 6 /\ w[2] = 15 /\ f[3] = 9 /\ w[3] = 16 /\ f[4] = 12 /\ w[4] = 17
    OBVIOUS
  <2> HIDE DEF f, w
  <2>3. \A k \in 1 .. 4 : k = 1 \/ k = 2 \/ k = 3 \/ k = 4
    OBVIOUS
  <2>4. \A k \in 1 .. 4 : /\ f[k] \in DOMAIN s /\ w[k] \in DOMAIN s /\ f[k] < w[k]
                      /\ s[w[k]].call = "waitpid" /\ s[w[k]].set = {k}
    BY <1>14, <1>15, <1>16, <1>17, <1>19, <2>2, <2>3
  <2>5. \A m \in DOMAIN s : s[m].call = "fork" => \E k \in 1 .. 4 : m = f[k] /\ s[m].child = k
    BY <2>1, <2>2
  <2>6. ByNumber("Pipeline", s, 4, f, w)
    BY <1>20, <2>1, <2>4, <2>5 DEF ByNumber, Hasty
  <2> QED
    BY <2>6 DEF f, w
<1>24. ~Single("Pipeline") /\ "Pipeline" \notin Reporting
  BY DEF Single, Reporting
<1>25. ScriptOK("Pipeline", s, {}, {})
  BY <1>23, <1>24, ByNumberOK
<1> QED
  BY <1>25 DEF Pipeline, s, c1, c2, c3, c4, c5, c6, c7, c8, c9, c10, c11, c12, c13, c14, c15, c16, c17, c18

LEMMA Ec5OK == ScriptOK("Ec5", Ec5, {}, {})
<1> DEFINE c1 == fork(1, <<exit(1)>>, <<exit(1)>>)
           c2 == fork(2, <<exit(2)>>, <<exit(1)>>)
           c3 == fork(3, <<exit(3)>>, <<exit(1)>>)
           c4 == wait(TRUE)
           c5 == wait(TRUE)
           c6 == wait(TRUE)
           c7 == exit(0)
           s == <<c1, c2, c3, c4, c5, c6, c7>>
<1>1. MainCall(c1) /\ c1.call = "fork" /\ c1.child = 1 /\ c1.failed = <<exit(1)>>
  BY MainOnes
<1>2. MainCall(c2) /\ c2.call = "fork" /\ c2.child = 2 /\ c2.failed = <<exit(1)>>
  BY MainOnes
<1>3. MainCall(c3) /\ c3.call = "fork" /\ c3.child = 3 /\ c3.failed = <<exit(1)>>
  BY MainOnes
<1>4. MainCall(c4) /\ c4.call = "waitpid" /\ c4.prints = TRUE /\ (1 \in 1 .. MaxChildren => 1 \in c4.set)
  BY DEF MainCall, wait
<1>5. MainCall(c5) /\ c5.call = "waitpid" /\ c5.prints = TRUE /\ (1 \in 1 .. MaxChildren => 1 \in c5.set)
  BY DEF MainCall, wait
<1>6. MainCall(c6) /\ c6.call = "waitpid" /\ c6.prints = TRUE /\ (1 \in 1 .. MaxChildren => 1 \in c6.set)
  BY DEF MainCall, wait
<1>7. MainCall(c7) /\ c7.call = "exit"
  BY MainOnes
<1> HIDE DEF c1, c2, c3, c4, c5, c6, c7
<1>8. /\ s \in Seq({c1, c2, c3, c4, c5, c6, c7}) /\ DOMAIN s = 1 .. 7 /\ Len(s) = 7
      /\ s[1] = c1 /\ s[2] = c2 /\ s[3] = c3 /\ s[4] = c4 /\ s[5] = c5 /\ s[6] = c6 /\ s[7] = c7
  OBVIOUS
<1>9. IsSeq(s)
  BY <1>8, SeqOf
<1> HIDE DEF s
<1>10. \A m \in DOMAIN s : m = 1 \/ m = 2 \/ m = 3 \/ m = 4 \/ m = 5 \/ m = 6 \/ m = 7
  BY <1>8
<1>11. ~MayFail(c4) /\ ~MayFail(c5) /\ ~MayFail(c6) /\ ~MayFail(c7)
  BY <1>1, <1>2, <1>3, <1>4, <1>5, <1>6, <1>7 DEF MayFail
<1>12. CarefulScript("Ec5", s)
  <2>1. \A m \in DOMAIN s :
         /\ MainCall(s[m])
         /\ s[m].call = "fork" => s[m].child = m /\ m \in 1 .. 3
         /\ s[m].call = "exit" => m = Len(s)
         /\ s[m].call # "getline"
         /\ s[m].call = "waitpid" => s[m].prints = TRUE
         /\ MayFail(s[m]) => \E code : s[m].failed = <<exit(code)>>
    BY <1>1, <1>2, <1>3, <1>4, <1>5, <1>6, <1>7, <1>8, <1>10, <1>11
  <2> QED
    BY <1>8, <1>9, <2>1 DEF CarefulScript, Single
<1>13. Fresh("Ec5", s, {}) /\ s = Ec5
  BY DEF Fresh, s, Ec5, c1, c2, c3, c4, c5, c6, c7
<1> QED
  BY <1>12, <1>13 DEF ScriptOK, Ec5Waits

------------------------------------------------------------
\* A stranger goes on, forks, stops or waits.
LEMMA StrangerDoes ==
  ASSUME NEW p, Foreign(p), Step(p) \/ Signal(p)
  PROVE  GoesOn(p) \/ Forks(p) \/ Stops(p) \/ Waitpid(p)
<1>0. Shape /\ p \in Procs /\ IsSeq(got[p]) /\ \A n \in Pipe : IsSeq(content[n])
  BY DEF Foreign, Shape
<1>1. CASE Signal(p)
  BY <1>1 DEF Signal, Kill, Stops, SIGKILL, Signalled
<1>2. CASE Fork(p)
  <2>1. Call(p).call = "fork" /\ Fallback(Call(p).failed)
    BY <1>2, NextCall DEF Fork, ForeignCall, ChildCall, Plain
  <2>2. CASE CallFails /\ Continue(p, FailedOr(Call(p).failed, Tail(todo[p]))) /\ UNCHANGED <<state, fds>>
    BY <1>2, <2>1, <2>2 DEF Fork, GoesOn, CallFails, FailedOr, MayFail, Fallback
  <2> QED
    BY <1>2, <2>1, <2>2 DEF Fork, Forks
<1>3. CASE Exec(p)
  BY <1>3, NextCall DEF Exec, GoesOn, Stops, Proceed
<1>4. CASE Exit(p)
  BY <1>4, NextCall DEF Exit, Stops
<1>5. CASE Close(p) \/ Unlink(p)
  BY <1>5, NextCall DEF Close, Unlink, GoesOn, Proceed
<1>6. CASE Getline(p)
  BY <1>6 DEF Getline, GoesOn
<1>7. CASE MakePipe(p)
  <2>1. Call(p).call = "pipe" /\ PlainCalls(Call(p).failed)
    BY <1>7, NextCall DEF MakePipe, ForeignCall, ChildCall, Plain, Fallback
  <2> QED
    BY <1>7, <2>1 DEF MakePipe, GoesOn, Proceed, CallFails, MayFail
<1>8. CASE Write(p)
  <2>1. Call(p).call = "write"
    BY <1>8, NextCall DEF Write
  <2> QED
    BY <1>8, <2>1 DEF Write, GoesOn, Proceed, Stops, SIGPIPE, Signalled
<1>9. CASE Read(p)
  <2>1. Call(p).call = "read" /\ PlainCalls(Call(p).then)
    BY <1>9, NextCall DEF Read, ForeignCall, ChildCall, Plain
  <2> QED
    BY <1>9, <2>1 DEF Read, GoesOn, Proceed
<1>10. CASE Filter(p)
  <2> DEFINE f == Call(p)
             n == f.pipe
             line == <<Head(content[n])>>
             s == IF f.atEnd THEN Writes(f.out, got[p]) ELSE <<>>
             t == IF f.atEnd THEN <<>> ELSE Writes(f.out, line)
  <2>1. f.call = "filter" /\ f.out \subseteq ExercisePipes
    BY <1>10, NextCall DEF Filter, ForeignCall, ChildCall, Plain
  <2>2. IsSeq(line)
    BY SingleIsSeq
  <2>3. PlainCalls(s) /\ PlainCalls(t)
    <3> HIDE DEF line
    <3> QED
      BY <1>0, <2>1, <2>2, WritesPlain, ExerciseOnes
  <2>4. UNCHANGED <<state, status, reports>>
    BY <1>10 DEF Filter
  <2>5. Continue(p, s \o Tail(todo[p])) \/ Continue(p, t \o todo[p])
    BY <1>10 DEF Filter
  <2> HIDE DEF s, t
  <2> QED
    BY <2>1, <2>3, <2>4, <2>5 DEF GoesOn
<1>11. CASE OpenQueue(p)
  <2>1. Call(p).call = "open" /\ PlainCalls(Call(p).failed)
    BY <1>11, NextCall DEF OpenQueue, ForeignCall, ChildCall, Plain, Fallback
  <2> QED
    BY <1>11, <2>1 DEF OpenQueue, GoesOn, Proceed, CallFails, MayFail
<1>12. CASE Send(p) \/ Fetch(p) \/ Remove(p)
  BY <1>12, NextCall DEF Send, Fetch, Remove, GoesOn, Proceed
<1> QED
  BY <1>1, <1>2, <1>3, <1>4, <1>5, <1>6, <1>7, <1>8, <1>9, <1>10, <1>11, <1>12, NoSocketStep
  DEF Step, ProcessStep, PipeStep, QueueStep

------------------------------------------------------------
\* What stays of a script that forks only children
LEMMA ForksKidsRest ==
  ASSUME NEW p, NEW s, IsSeq(s), s # <<>>, ForksKids(p, s), NEW t, PlainCalls(t)
  PROVE  ForksKids(p, Tail(s)) /\ ForksKids(p, t) /\ ForksKids(p, t \o s) /\ ForksKids(p, t \o Tail(s))
<1>1. IsSeq(Tail(s)) /\ Elements(Tail(s)) \subseteq Elements(s) /\ IsSeq(t)
  BY TailIsSeq DEF PlainCalls
<1>2. /\ Elements(t \o s) \subseteq Elements(t) \cup Elements(s)
      /\ Elements(t \o Tail(s)) \subseteq Elements(t) \cup Elements(Tail(s))
  BY <1>1, ConcatIsSeq
<1>3. ForksKids(p, t)
  BY DEF ForksKids, PlainCalls, Plain
<1> QED
  BY <1>1, <1>2, <1>3 DEF ForksKids

\* What a child is to do forks nothing.
LEMMA ChildForksNothing ==
  ASSUME NEW p, NEW s, ChildScript(s)
  PROVE  ForksKids(p, s)
  BY DEF ForksKids, ChildScript, ChildCall, Plain

\* What a shell reads to do forks its one child.
LEMMA CommandForksKids ==
  ASSUME NEW p, p = Main(p), NEW line, NEW lines
  PROVE  /\ ForksKids(p, Command(line) \o <<getline(lines)>>)
         /\ ForksKids(p, <<getline(lines)>>) /\ ForksKids(p, Return)
<1>1. PICK calls : Command(line) = <<fork(1, calls, <<>>), waitpid(1, FALSE)>>
  BY DEF Command
<1> DEFINE a == fork(1, calls, <<>>)
           b == waitpid(1, FALSE)
           c == getline(lines)
           e == exit(0)
<1>2. a.call = "fork" /\ a.child = 1
  BY DEF fork
<1>3. b.call = "waitpid"
  BY DEF waitpid
<1>4. c.call = "getline" /\ e.call = "exit"
  BY DEF getline, exit
<1>5. Command(line) = <<a, b>> /\ Return = <<e>>
  BY <1>1 DEF Return
<1> HIDE DEF a, b, c, e
<1>6. <<a, b, c>> \in Seq({a, b, c})
  OBVIOUS
<1>7. Elements(<<a, b, c>>) \subseteq {a, b, c}
  BY <1>6, SeqOf
<1>8. Command(line) \o <<c>> = <<a, b, c>>
  BY <1>5, TwoAndOne
<1>9. Elements(<<c>>) = {c} /\ Elements(<<e>>) = {e}
  BY SingleIsSeq
<1>10. ForksKids(p, <<a, b, c>>)
  BY <1>2, <1>3, <1>4, <1>7 DEF ForksKids
<1>11. ForksKids(p, <<c>>)
  BY <1>4, <1>9 DEF ForksKids
<1>12. ForksKids(p, <<e>>)
  BY <1>4, <1>9 DEF ForksKids
<1> QED
  BY <1>5, <1>8, <1>10, <1>11, <1>12 DEF c

\* What a stranger is still to do keeps to it, and so does what its child is to do.
LEMMA StrangerForksKids ==
  ASSUME NEW p, Foreign(p), Step(p) \/ Signal(p),
         \A y \in Procs : y[1] = p[1] /\ state[y] = "running" => ForksKids(y, todo[y])
  PROVE  \A y \in Procs : y[1] = p[1] /\ state'[y] = "running" => ForksKids(y, todo'[y])
<1> SUFFICES ASSUME NEW y \in Procs, y[1] = p[1], state'[y] = "running"
             PROVE  ForksKids(y, todo'[y])
  OBVIOUS
<1>0. state[p] = "running"
  BY DEF Foreign
<1>1. /\ p \in Procs /\ DOMAIN todo = Procs /\ DOMAIN state = Procs
      /\ IsSeq(todo[p]) /\ todo[p] # <<>> /\ Head(todo[p]) \in Elements(todo[p])
      /\ ForksKids(p, todo[p])
  <2>1. IsSeq(todo[p]) /\ todo[p] # <<>>
    BY <1>0 DEF Foreign, ForeignScript, EndsIn
  <2>2. p \in Procs /\ DOMAIN todo = Procs /\ DOMAIN state = Procs
    BY DEF Foreign, Shape, Domains
  <2> QED
    BY <1>0, <2>1, <2>2, TailIsSeq
<1>2. PlainCalls(<<>>)
  BY ExerciseOnes
<1>3. ASSUME NEW s, Continue(p, s), UNCHANGED state, ForksKids(p, s)
      PROVE  ForksKids(y, todo'[y])
  <2>1. CASE y = p
    BY <1>1, <1>3, <2>1 DEF Continue
  <2>2. CASE y # p
    BY <1>1, <1>3, <2>2 DEF Continue
  <2> QED
    BY <2>1, <2>2
<1>4. CASE GoesOn(p)
  <2>0. UNCHANGED state
    BY <1>4 DEF GoesOn
  <2>1. CASE Continue(p, Tail(todo[p]))
    BY <1>1, <1>2, <1>3, <2>0, <2>1, ForksKidsRest
  <2>2. CASE PlainCalls(Call(p).failed) /\ Continue(p, Call(p).failed)
    BY <1>1, <1>3, <2>0, <2>2, ForksKidsRest
  <2>3. CASE PlainCalls(Call(p).then) /\ Continue(p, Call(p).then \o Tail(todo[p]))
    BY <1>1, <1>3, <2>0, <2>3, ForksKidsRest
  <2>4. CASE \E s : PlainCalls(s) /\ (Continue(p, s \o Tail(todo[p])) \/ Continue(p, s \o todo[p]))
    BY <1>1, <1>3, <2>0, <2>4, ForksKidsRest
  <2>5. CASE Getline(p)
    <3>1. p = Main(p)
      BY <1>1, <2>5 DEF Getline, Calls, ForksKids
    <3>2. PICK lines, line : \/ UNCHANGED todo \/ Continue(p, <<getline(lines)>>) \/ Continue(p, Return)
                             \/ Continue(p, Command(line) \o <<getline(lines)>>)
      BY <2>5 DEF Getline
    <3> QED
      BY <1>3, <2>0, <3>1, <3>2, CommandForksKids
  <2> QED
    BY <1>4, <2>1, <2>2, <2>3, <2>4, <2>5 DEF GoesOn
<1>5. CASE Forks(p)
  <2>1. ChildScript(Call(p).calls)
    BY <1>5, RestIsScript DEF Foreign, Forks, Call, ForeignCall, ChildCall, Plain
  <2>2. ForksKids(p, Tail(todo[p]))
    BY <1>1, <1>2, ForksKidsRest
  <2>3. PICK c : /\ todo' = [todo EXCEPT ![p] = Tail(@), ![c] = Call(p).calls]
                 /\ state' = [state EXCEPT ![c] = "running"]
    BY <1>5 DEF Forks
  <2>4. todo'[y] = Call(p).calls \/ (y = p /\ todo'[y] = Tail(todo[p]))
        \/ (todo'[y] = todo[y] /\ state'[y] = state[y])
    BY <1>1, <2>3
  <2> QED
    BY <2>1, <2>2, <2>4, ChildForksNothing
<1>6. CASE Stops(p)
  <2>1. PICK how : Ends(p, how)
    BY <1>6 DEF Stops
  <2>2. todo' = [todo EXCEPT ![p] = <<>>] /\ y # p /\ state[y] = "running"
    BY <1>1, <2>1 DEF Ends
  <2> QED
    BY <1>1, <2>2
<1>7. CASE Waitpid(p)
  <2>1. state[y] = "running" /\ ForksKids(p, Tail(todo[p]))
    BY <1>1, <1>2, <1>7, ForksKidsRest DEF Waitpid
  <2>2. todo' = [todo EXCEPT ![p] = Tail(todo[p])]
    BY <1>7 DEF Waitpid, Proceed, Continue
  <2> QED
    BY <1>1, <2>1, <2>2
<1> QED
  BY <1>4, <1>5, <1>6, <1>7, StrangerDoes

------------------------------------------------------------
\* A main process and its children, by their numbers
LEMMA Numbering ==
  ASSUME NEW p \in MainProcs
  PROVE  /\ p \in Procs /\ p = Main(p)
         /\ \A k \in 1 .. MaxChildren :
              /\ Child(p, k) \in Children(p) /\ Child(p, k) \in Procs /\ Child(p, k) # p
              /\ Child(p, k)[1] = p[1] /\ Child(p, k)[2] = k
         /\ \A c \in Children(p) :
              /\ c \in Procs /\ c # p /\ c[1] = p[1] /\ c # Main(c) /\ Main(c) = p
              /\ c[2] \in 1 .. MaxChildren /\ c = Child(p, c[2])
<1>1. p \in Procs /\ p = Main(p) /\ p = <<p[1], 0>> /\ p[1] \in Instances
  BY DEF MainProcs, Main, Procs
<1>2. MaxChildren \in Nat
  BY ProcessAssumption
<1>3. ASSUME NEW k \in 1 .. MaxChildren
      PROVE  /\ Child(p, k) \in Children(p) /\ Child(p, k) \in Procs /\ Child(p, k) # p
             /\ Child(p, k)[1] = p[1] /\ Child(p, k)[2] = k
  <2>1. Child(p, k)[1] = p[1] /\ Child(p, k)[2] = k /\ p[2] = 0
    BY <1>1 DEF Child
  <2>2. Child(p, k) \in Procs /\ Child(p, k) # p
    BY <1>1, <1>2, <2>1 DEF Child, Procs
  <2> QED
    BY <1>1, <2>1, <2>2 DEF Children
<1>4. ASSUME NEW c \in Children(p)
      PROVE  /\ c \in Procs /\ c # p /\ c[1] = p[1] /\ c # Main(c) /\ Main(c) = p
             /\ c[2] \in 1 .. MaxChildren /\ c = Child(p, c[2])
  <2>1. c \in Procs /\ c # p /\ c[1] = p[1]
    BY <1>1 DEF Children
  <2>2. c = <<c[1], c[2]>> /\ c[2] \in 0 .. MaxChildren
    BY <2>1 DEF Procs
  <2>3. c[2] # 0 /\ Main(c) = p
    BY <1>1, <2>1, <2>2 DEF Main
  <2> QED
    BY <1>1, <1>2, <2>1, <2>2, <2>3 DEF Child
<1> QED
  BY <1>1, <1>3, <1>4

\* Children that are born, waited for and reported as they were
LEMMA SameKids ==
  ASSUME NEW p \in MainProcs,
         \A c \in Children(p) :
           \/ state'[c] = state[c] /\ status'[c] = status[c]
           \/ state[c] \notin {"none", "gone"} /\ state'[c] \notin {"none", "gone"},
         \A r : r[1] \in Children(p) => (r \in reports' <=> r \in reports)
  PROVE  Forked(p)' = Forked(p) /\ Alive(p)' = Alive(p) /\ (Printed(p) => Printed(p)')
<1>1. \A k \in 1 .. MaxChildren : Child(p, k) \in Children(p)
  BY Numbering
<1>2. Forked(p)' = Forked(p)
  BY <1>1 DEF Forked, Child
<1>3. Alive(p)' = Alive(p)
  BY <1>1, <1>2 DEF Forked, Alive, Child
<1>4. ASSUME Printed(p) PROVE Printed(p)'
  <2>1. ASSUME NEW r \in reports', r[1] \in Children(p)
        PROVE  state'[r[1]] = "gone" /\ status'[r[1]] >= 0 /\ r = <<r[1], status'[r[1]]>>
    <3>1. state[r[1]] = "gone" /\ status[r[1]] >= 0 /\ r = <<r[1], status[r[1]]>>
      BY <1>4, <2>1 DEF Printed
    <3>2. state'[r[1]] = state[r[1]] /\ status'[r[1]] = status[r[1]]
      BY <2>1, <3>1
    <3> QED
      BY <3>1, <3>2
  <2>2. ASSUME NEW c \in Children(p), state'[c] = "gone", status'[c] >= 0
        PROVE  <<c, status'[c]>> \in reports'
    <3>1. state[c] = "gone" /\ status'[c] = status[c]
      BY <2>2
    <3>2. <<c, status[c]>> \in reports /\ <<c, status[c]>>[1] = c
      BY <1>4, <2>2, <3>1 DEF Printed
    <3> QED
      BY <3>1, <3>2
  <2>3. Children(p)' = Children(p)
    BY DEF Children, Main
  <2> QED
    BY <2>1, <2>2, <2>3 DEF Printed
<1> QED
  BY <1>2, <1>3, <1>4

\* A main process that has not moved, while its children may have ended
LEMMA SameMain ==
  ASSUME NEW p \in MainProcs, MainOK(p), program' = program,
         todo'[p] = todo[p], state'[p] = state[p], status'[p] = status[p],
         \A c \in Children(p) :
           \/ state'[c] = state[c] /\ status'[c] = status[c]
           \/ state[c] \notin {"none", "gone"} /\ state'[c] \notin {"none", "gone"},
         \A r : r[1] \in Children(p) => (r \in reports' <=> r \in reports)
  PROVE  MainOK(p)'
<1>1. Forked(p)' = Forked(p) /\ Alive(p)' = Alive(p) /\ (Printed(p) => Printed(p)')
  BY SameKids
<1>2. state[p] = "running" => ScriptOK(program[p[1]], todo[p], Forked(p), Alive(p))
  BY DEF MainOK
<1>3. state'[p] = "running" => ScriptOK(program'[p[1]], todo'[p], Forked(p)', Alive(p)')
  BY <1>1, <1>2
<1>4. state'[p] # "running" => Signalled(status'[p]) \/ Alive(p)' = {}
  BY <1>1 DEF MainOK
<1>5. program'[p[1]] \in Reporting => Printed(p)'
  BY <1>1 DEF MainOK
<1> QED
  BY <1>3, <1>4, <1>5 DEF MainOK

------------------------------------------------------------
\* A child that moves moves alone, and ends unseen until it is waited for.
LEMMA KidStep ==
  ASSUME NEW p, Foreign(p), p # Main(p), ForksKids(p, todo[p]), Step(p) \/ Signal(p)
  PROVE  /\ \A y \in Procs \ {p} :
              todo'[y] = todo[y] /\ state'[y] = state[y] /\ status'[y] = status[y]
         /\ UNCHANGED reports /\ state[p] = "running" /\ state'[p] \notin {"none", "gone"}
<1>1. /\ p \in Procs /\ DOMAIN todo = Procs /\ DOMAIN state = Procs /\ DOMAIN status = Procs
      /\ state[p] = "running" /\ IsSeq(todo[p]) /\ todo[p] # <<>>
  BY DEF Foreign, ForeignScript, EndsIn, Shape, Domains
<1>2. Head(todo[p]) \in Elements(todo[p])
  BY <1>1, TailIsSeq
<1>3. Head(todo[p]).call \notin {"fork", "getline"}
  BY <1>2 DEF ForksKids
<1>4. Children(p) = {}
  BY DEF Children
<1>5. CASE GoesOn(p)
  <2>1. ~Getline(p)
    BY <1>3 DEF Getline, Calls
  <2>2. \E s : Continue(p, s)
    BY <1>5, <2>1 DEF GoesOn
  <2> QED
    BY <1>1, <1>5, <2>2 DEF GoesOn, Continue
<1>6. CASE Forks(p)
  BY <1>3, <1>6 DEF Forks, Call
<1>7. CASE Stops(p)
  <2>1. PICK how : Ends(p, how) /\ UNCHANGED reports
    BY <1>7 DEF Stops
  <2>2. \A y \in Procs \ {p} : state'[y] = state[y]
    BY <1>4, <2>1 DEF Ends
  <2>3. state'[p] \in {"zombie", "abandoned"}
    BY <1>1, <2>1 DEF Ends
  <2> QED
    BY <1>1, <2>1, <2>2, <2>3 DEF Ends
<1>8. CASE Waitpid(p)
  <2>1. Awaited(p) = {}
    BY <1>4 DEF Awaited
  <2> QED
    BY <1>1, <1>8, <2>1 DEF Waitpid, Proceed, Continue
<1> QED
  BY <1>5, <1>6, <1>7, <1>8, StrangerDoes

------------------------------------------------------------
\* A call that neither forks nor waits goes on or ends the process.
LEMMA PlainStep ==
  ASSUME NEW p, Step(p), Call(p).call \notin {"fork", "waitpid", "getline"}
  PROVE  /\ UNCHANGED reports
         /\ \/ UNCHANGED <<state, status>> /\ \E s : Continue(p, s)
            \/ \E how : Ends(p, how)
<1> USE DEF Calls, Call
<1>1. CASE Fork(p) \/ Waitpid(p) \/ Getline(p)
  BY <1>1 DEF Fork, Waitpid, Getline
<1>2. CASE Exec(p)
  BY <1>2 DEF Exec, Proceed
<1>3. CASE Exit(p)
  BY <1>3 DEF Exit
<1>4. CASE Close(p) \/ Unlink(p)
  BY <1>4 DEF Close, Unlink, Proceed
<1>5. CASE MakePipe(p)
  BY <1>5 DEF MakePipe, Proceed
<1>6. CASE Write(p)
  BY <1>6 DEF Write, Proceed
<1>7. CASE Read(p)
  BY <1>7 DEF Read, Proceed
<1>8. CASE Filter(p)
  BY <1>8 DEF Filter, Proceed
<1>9. CASE OpenQueue(p)
  BY <1>9 DEF OpenQueue, Proceed
<1>10. CASE Send(p) \/ Fetch(p) \/ Remove(p)
  BY <1>10, SMTT(30) DEF Send, Fetch, Remove, Proceed
<1>11. CASE SocketStep(p)
  BY <1>11 DEF SocketStep, Bind, Listen, Connect, Accept, CloseAll, Proceed
<1> QED
  BY <1>1, <1>2, <1>3, <1>4, <1>5, <1>6, <1>7, <1>8, <1>9, <1>10, <1>11
  DEF Step, ProcessStep, PipeStep, QueueStep

\* Failures are counted, never forgotten.
LEMMA FailuresGrow ==
  ASSUME failures \in Nat, NEW p, Step(p) \/ Signal(p)
  PROVE  failures' \in Nat /\ failures' >= failures
<1>1. CASE UNCHANGED failures
  BY <1>1
<1>2. CASE CallFails
  BY <1>2 DEF CallFails
<1> QED
  BY <1>1, <1>2 DEF Step, Signal, Kill, ProcessStep, Fork, Exec, Exit, Close, Waitpid, Unlink, Getline,
     PipeStep, MakePipe, Write, Read, Filter, QueueStep, OpenQueue, Send, Fetch, Remove,
     SocketStep, Bind, Listen, Connect, Accept, CloseAll

\* Servers and clients neither fork nor wait.
LEMMA SocketCalls ==
  ASSUME IInv, NEW p \in SocketProcs, state[p] = "running"
  PROVE  Call(p).call \notin {"fork", "waitpid", "getline"}
<1>1. CASE p \in Serving
  <2>1. ServerStage(p)
    BY <1>1 DEF IInv, ServerOK
  <2> QED
    BY <2>1, Calling DEF ServerStage, Call
<1>2. CASE p \in Asking
  <2>1. todo[p] \in {Client(p), ToAsk(p), ToRead(p), ToClose, ToExit, ToGiveUp, ToFail}
    BY <1>2 DEF IInv, ClientOK
  <2> QED
    BY <2>1, Calling DEF Call
<1> QED
  BY <1>1, <1>2 DEF SocketProcs

\* ... and so a step of theirs changes no other process and reports nothing.
LEMMA SocketMoves ==
  ASSUME IInv, NEW p \in SocketProcs, Step(p) \/ Signal(p)
  PROVE  /\ program' = program /\ UNCHANGED reports
         /\ \A y \in Procs \ {p} :
              todo'[y] = todo[y] /\ state'[y] = state[y] /\ status'[y] = status[y]
         /\ state[p] = "running"
<1>1. /\ p \in Procs /\ DOMAIN todo = Procs /\ DOMAIN state = Procs /\ DOMAIN status = Procs
      /\ Others
  BY SocketProc DEF IInv, Shape, Domains
<1>2. state[p] = "running" /\ program' = program
  BY <1>1, StrangerRuns DEF Step, Signal
<1>3. UNCHANGED reports /\ \/ UNCHANGED <<state, status>> /\ \E s : Continue(p, s)
                           \/ \E how : Ends(p, how)
  <2>1. CASE Step(p)
    BY <1>2, <2>1, SocketCalls, PlainStep
  <2>2. CASE Signal(p)
    BY <2>2 DEF Signal, Kill
  <2> QED
    BY <2>1, <2>2
<1>4. CASE UNCHANGED <<state, status>> /\ \E s : Continue(p, s)
  BY <1>1, <1>2, <1>3, <1>4 DEF Continue
<1>5. CASE \E how : Ends(p, how)
  <2>1. PICK how : Ends(p, how)
    BY <1>5
  <2>2. \A y \in Procs \ {p} : state'[y] = state[y]
    BY <1>1, <2>1, NoChildren DEF Ends
  <2> QED
    BY <1>1, <1>2, <1>3, <2>1, <2>2 DEF Ends
<1> QED
  BY <1>3, <1>4, <1>5

------------------------------------------------------------
\* What is known of a main process that forks or waits
LEMMA MindsFacts ==
  ASSUME NEW p, Minds(p)
  PROVE  /\ p \in Procs /\ DOMAIN todo = Procs /\ DOMAIN state = Procs /\ DOMAIN status = Procs
         /\ state[p] = "running" /\ IsSeq(todo[p]) /\ todo[p] # <<>> /\ p = Main(p) /\ failures \in Nat
         /\ ScriptOK(program[p[1]], todo[p], Forked(p), Alive(p))
         /\ MainCall(Head(todo[p])) /\ Head(todo[p]) \in Elements(todo[p])
         /\ program[p[1]] \in Reporting => Printed(p)
         /\ Forked(p) \subseteq 1 .. MaxChildren /\ Alive(p) \subseteq Forked(p)
<1>1. /\ p \in Procs /\ DOMAIN todo = Procs /\ DOMAIN state = Procs /\ DOMAIN status = Procs
      /\ state[p] = "running" /\ IsSeq(todo[p]) /\ todo[p] # <<>> /\ failures \in Nat
  BY DEF Minds, Foreign, ForeignScript, EndsIn, Shape, Domains
<1>2. p = Main(p)
  BY DEF Minds, MainProcs
<1>3. /\ ScriptOK(program[p[1]], todo[p], Forked(p), Alive(p))
      /\ program[p[1]] \in Reporting => Printed(p)
  BY <1>1 DEF Minds, MainOK
<1>4. 1 \in DOMAIN todo[p] /\ Head(todo[p]) = todo[p][1]
  BY <1>1, TailIndex
<1>5. MainCall(Head(todo[p]))
  BY <1>3, <1>4 DEF ScriptOK, CarefulScript
<1>6. Head(todo[p]) \in Elements(todo[p])
  BY <1>1, TailIsSeq
<1>7. Forked(p) \subseteq 1 .. MaxChildren /\ Alive(p) \subseteq Forked(p)
  BY DEF Forked, Alive
<1> QED
  BY <1>1, <1>2, <1>3, <1>5, <1>6, <1>7

\* It goes on with a script that still minds the same children.
LEMMA ContinuesOK ==
  ASSUME NEW p, Minds(p), UNCHANGED <<status, reports, program>>, NEW s, todo'[p] = s,
         \A y \in Procs : state'[y] = state[y],
         ScriptOK(program[p[1]], s, Forked(p), Alive(p))
  PROVE  MainOK(p)'
<1>1. p \in MainProcs
  BY DEF Minds
<1>2. Forked(p)' = Forked(p) /\ Alive(p)' = Alive(p) /\ (Printed(p) => Printed(p)')
  BY <1>1, SameKids, Numbering
<1>3. state'[p] = "running"
  BY MindsFacts
<1>4. program'[p[1]] \in Reporting => Printed(p)'
  BY <1>2, MindsFacts
<1> QED
  BY <1>2, <1>3, <1>4 DEF MainOK

\* A step within its script
LEMMA MainGoesOn ==
  ASSUME NEW p, Minds(p), GoesOn(p), program' = program, Tracked(p)'
  PROVE  MainOK(p)'
<1> DEFINE name == program[p[1]]
           s == todo[p]
           F == Forked(p)
           A == Alive(p)
<1>1. /\ p \in Procs /\ DOMAIN todo = Procs /\ IsSeq(s) /\ s # <<>>
      /\ ScriptOK(name, s, F, A) /\ MainCall(Head(s)) /\ failures \in Nat
  BY MindsFacts
<1>2. UNCHANGED <<state, status, reports, program>>
  BY DEF GoesOn
<1>3. ASSUME NEW t, Continue(p, t), ScriptOK(name, t, F, A)
      PROVE  MainOK(p)'
  <2>1. todo'[p] = t
    BY <1>1, <1>3 DEF Continue
  <2> QED
    BY <1>2, <1>3, <2>1, ContinuesOK
<1>4. CASE /\ Continue(p, Tail(s)) /\ Call(p).call \notin {"exit", "getline", "waitpid"}
           /\ Call(p).call = "fork" => Call(p).failed = <<>>
  <2>1. ScriptOK(name, Tail(s), F, A)
    BY <1>1, <1>4, AdvanceOK DEF Call
  <2> QED
    BY <1>3, <1>4, <2>1
<1>5. CASE /\ MayFail(Call(p)) /\ failures' = failures + 1
           /\ Continue(p, Call(p).failed)
  <2>1. failures' # 0
    BY <1>1, <1>5
  <2>2. name \notin Hasty
    BY <1>2, <2>1 DEF Tracked, Awaiting, Hasty, Shells
  <2>3. A = {} /\ ScriptOK(name, Head(s).failed, F, A)
    BY <1>1, <1>5, <2>2, GiveUpOK DEF Call
  <2> QED
    BY <1>3, <1>5, <2>3 DEF Call
<1>6. CASE Call(p).call = "read" /\ Continue(p, Call(p).then \o Tail(s))
  <2>1. Call(p).then = <<>>
    BY <1>1, <1>6 DEF MainCall, Call
  <2>2. <<>> \o Tail(s) = Tail(s)
    <3>1. IsSeq(Tail(s))
      BY <1>1, TailIsSeq
    <3> QED
      BY <3>1 DEF IsSeq
  <2>3. ScriptOK(name, Tail(s), F, A)
    BY <1>1, <1>6, AdvanceOK DEF Call
  <2> QED
    BY <1>3, <1>6, <2>1, <2>2, <2>3
<1>7. CASE Call(p).call = "filter"
  BY <1>1, <1>7 DEF MainCall, Call
<1>8. CASE Getline(p)
  <2>1. Head(s).call = "getline"
    BY <1>8 DEF Getline, Calls
  <2>2. A = {} /\ name \in Shells
    BY <1>1, <2>1, LastOK
  <2>3. PICK lines, line : \/ UNCHANGED todo \/ Continue(p, <<getline(lines)>>) \/ Continue(p, Return)
                           \/ Continue(p, Command(line) \o <<getline(lines)>>)
    BY <1>8 DEF Getline
  <2>4. CASE UNCHANGED todo
    BY <1>1, <1>2, <2>4, ContinuesOK
  <2>5. CASE Continue(p, <<getline(lines)>>)
    BY <1>3, <2>2, <2>5, GetlineOK
  <2>6. CASE Continue(p, Return)
    <3>1. ScriptOK(name, Return, F, {})
      <4>1. name # "Ec5"
        BY <2>2 DEF Shells
      <4>2. ScriptOK(name, <<exit(0)>>, F, {})
        BY <4>1, ExitOK
      <4> QED
        BY <4>2 DEF Return
    <3> QED
      BY <1>3, <2>2, <2>6, <3>1
  <2>7. CASE Continue(p, Command(line) \o <<getline(lines)>>)
    <3> DEFINE t == Command(line) \o <<getline(lines)>>
    <3>1. ScriptOK(name, t, {}, {}) /\ name \notin Reporting
      BY <2>2, CommandOK DEF Shells, Reporting
    <3> HIDE DEF t
    <3>2. ScriptOK(name, t, F, {})
      BY <3>1, AnyForked
    <3>3. Continue(p, t)
      BY <2>7 DEF t
    <3> QED
      BY <1>3, <2>2, <3>2, <3>3
  <2> QED
    BY <2>3, <2>4, <2>5, <2>6, <2>7
<1> QED
  BY <1>4, <1>5, <1>6, <1>7, <1>8 DEF GoesOn

\* It forks a child it will wait for.
LEMMA MainForks ==
  ASSUME NEW p, Minds(p), Forks(p), program' = program
  PROVE  MainOK(p)'
<1> DEFINE name == program[p[1]]
           s == todo[p]
           k == Head(s).child
           F == Forked(p)
           A == Alive(p)
<1>1. /\ p \in Procs /\ DOMAIN todo = Procs /\ DOMAIN state = Procs /\ IsSeq(s) /\ s # <<>>
      /\ ScriptOK(name, s, F, A) /\ F \subseteq 1 .. MaxChildren /\ A \subseteq F
      /\ state[p] = "running" /\ Head(s) \in Elements(s) /\ (name \in Reporting => Printed(p))
  BY MindsFacts
<1>2. Head(s).call = "fork" /\ UNCHANGED <<status, reports>>
  BY DEF Forks, Call
<1>3. /\ todo' = [todo EXCEPT ![p] = Tail(@), ![Child(p, k)] = Head(s).calls]
      /\ state' = [state EXCEPT ![Child(p, k)] = "running"]
  BY DEF Forks, Call, Child
<1>4. k # 0
  BY <1>1, <1>2 DEF Minds, ForksKids
<1>5. p \in MainProcs /\ p = <<p[1], 0>> /\ Child(p, k) # p
  <2>1. p \in MainProcs /\ p = <<p[1], 0>>
    BY DEF Minds, MainProcs, Main
  <2>2. Child(p, k)[2] = k /\ p[2] = 0
    BY <2>1 DEF Child
  <2> QED
    BY <1>4, <2>1, <2>2
<1>6. state'[p] = "running" /\ todo'[p] = Tail(s)
  BY <1>1, <1>3, <1>5
<1>7. CASE k \notin 1 .. MaxChildren
  <2>1. Child(p, k) \notin Procs
    <3>1. Child(p, k)[2] = k
      BY DEF Child
    <3> QED
      BY <1>4, <1>7, <3>1, ProcessAssumption DEF Procs
  <2>2. \A y \in Procs : state'[y] = state[y]
    BY <1>1, <1>3, <2>1
  <2>3. ScriptOK(name, Tail(s), F, A)
    BY <1>1, <1>2, <1>7, ForkOK
  <2> QED
    BY <1>2, <1>6, <2>2, <2>3, ContinuesOK
<1>8. CASE k \in 1 .. MaxChildren
  <2>1. \A j \in 1 .. MaxChildren : /\ Child(p, j) \in Procs /\ Child(p, j) \in Children(p)
                                   /\ (Child(p, j) = Child(p, k) => j = k)
    BY <1>5, <1>8, Numbering
  <2>2. \A j \in 1 .. MaxChildren : state'[Child(p, j)] = IF j = k THEN "running" ELSE state[Child(p, j)]
    BY <1>1, <1>3, <2>1
  <2>3. Forked(p)' = F \cup {k}
    <3> HIDE DEF k
    <3>1. \A j : j \in Forked(p)' <=> j \in 1 .. MaxChildren /\ state'[Child(p, j)] # "none"
      BY DEF Forked, Child
    <3> QED
      BY <1>8, <2>2, <3>1 DEF Forked
  <2>4. Alive(p)' = A \cup {k}
    <3> HIDE DEF k
    <3>1. \A j : j \in Alive(p)' <=> j \in Forked(p)' /\ state'[Child(p, j)] # "gone"
      BY DEF Alive, Child
    <3>2. \A j \in F : j \in 1 .. MaxChildren
      BY <1>1
    <3> QED
      BY <1>8, <2>2, <2>3, <3>1, <3>2 DEF Alive
  <2>5. ScriptOK(name, Tail(s), F \cup {k}, A \cup {k})
    BY <1>1, <1>2, <1>8, ForkOK
  <2>6. ASSUME name \in Reporting PROVE Printed(p)'
    <3>1. Fresh(name, s, F)
      BY <1>1 DEF ScriptOK
    <3>2. k \notin F
      BY <1>1, <1>2, <2>6, <3>1, TailIndex DEF Fresh
    <3>3. state[Child(p, k)] = "none"
      BY <1>8, <3>2 DEF Forked
    <3>4. \A c \in Children(p) : c = Child(p, k) \/ state'[c] = state[c]
      BY <1>1, <1>3, <1>5, Numbering
    <3>5. state'[Child(p, k)] = "running"
      BY <1>8, <2>2
    <3>6. \A r \in reports : r[1] \in Children(p) =>
            state[r[1]] = "gone" /\ status[r[1]] >= 0 /\ r = <<r[1], status[r[1]]>>
      BY <1>1, <2>6 DEF Printed
    <3>7. \A r \in reports : r[1] \in Children(p) => state'[r[1]] = "gone"
      BY <3>3, <3>4, <3>6
    <3>8. \A c \in Children(p) : state'[c] = "gone" => state[c] = "gone"
      BY <3>4, <3>5
    <3>9. \A c \in Children(p) : state[c] = "gone" /\ status[c] >= 0 => <<c, status[c]>> \in reports
      BY <1>1, <2>6 DEF Printed
    <3>10. Children(p)' = Children(p)
      BY DEF Children, Main
    <3> QED
      BY <1>2, <3>6, <3>7, <3>8, <3>9, <3>10 DEF Printed
  <2> QED
    BY <1>6, <2>3, <2>4, <2>5, <2>6 DEF MainOK
<1> QED
  BY <1>7, <1>8

\* It waits for a child, or finds none.
LEMMA MainWaits ==
  ASSUME NEW p, Minds(p), Waitpid(p), program' = program
  PROVE  MainOK(p)'
<1> DEFINE name == program[p[1]]
           s == todo[p]
           F == Forked(p)
           A == Alive(p)
<1>1. /\ p \in Procs /\ DOMAIN todo = Procs /\ DOMAIN state = Procs /\ IsSeq(s) /\ s # <<>>
      /\ ScriptOK(name, s, F, A) /\ F \subseteq 1 .. MaxChildren /\ A \subseteq F
      /\ state[p] = "running" /\ Head(s) \in Elements(s) /\ (name \in Reporting => Printed(p))
      /\ p \in MainProcs
  BY MindsFacts DEF Minds
<1>2. Head(s).call = "waitpid" /\ todo'[p] = Tail(s) /\ UNCHANGED status
  BY <1>1 DEF Waitpid, Calls, Proceed, Continue
<1>3. \A c : c \in Awaited(p) <=> c \in Children(p) /\ c[2] \in Head(s).set
  BY DEF Awaited, Call
<1>4. CASE (\A c \in Awaited(p) : state[c] \in {"none", "gone"}) /\ UNCHANGED <<state, reports>>
  <2>1. Head(s).set \cap A = {}
    <3> SUFFICES ASSUME NEW k \in A, k \in Head(s).set PROVE FALSE
      OBVIOUS
    <3>1. k \in 1 .. MaxChildren /\ state[Child(p, k)] \notin {"none", "gone"}
      BY <1>1 DEF Alive, Forked
    <3>2. Child(p, k) \in Awaited(p)
      BY <1>1, <1>3, <3>1, Numbering
    <3> QED
      BY <1>4, <3>1, <3>2
  <2>2. ScriptOK(name, Tail(s), F, A)
    BY <1>1, <1>2, <2>1, WaitOK
  <2> QED
    BY <1>2, <1>4, <2>2, ContinuesOK
<1>5. CASE \E c \in Awaited(p) :
             /\ state[c] = "zombie" /\ state' = [state EXCEPT ![c] = "gone"]
             /\ reports' = reports \cup Report(p, c)
  <2>1. PICK c \in Awaited(p) : /\ state[c] = "zombie" /\ state' = [state EXCEPT ![c] = "gone"]
                                /\ reports' = reports \cup Report(p, c)
    BY <1>5
  <2>2. PICK k \in 1 .. MaxChildren : c = Child(p, k) /\ k \in Head(s).set
    BY <1>1, <1>3, Numbering
  <2>3. \A j \in 1 .. MaxChildren : /\ Child(p, j) \in Procs /\ Child(p, j) \in Children(p)
                                   /\ (Child(p, j) = c => j = k)
    BY <1>1, <2>2, Numbering
  <2>4. \A j \in 1 .. MaxChildren : state'[Child(p, j)] = IF j = k THEN "gone" ELSE state[Child(p, j)]
    BY <1>1, <2>1, <2>2, <2>3
  <2>5. k \in A
    BY <2>1, <2>2 DEF Alive, Forked
  <2>6. Forked(p)' = F
    <3>1. \A j : j \in Forked(p)' <=> j \in 1 .. MaxChildren /\ state'[Child(p, j)] # "none"
      BY DEF Forked, Child
    <3> QED
      BY <2>1, <2>2, <2>4, <3>1 DEF Forked
  <2>7. Alive(p)' = A \ {k}
    <3>1. \A j : j \in Alive(p)' <=> j \in Forked(p)' /\ state'[Child(p, j)] # "gone"
      BY DEF Alive, Child
    <3>2. \A j \in F : j \in 1 .. MaxChildren
      BY <1>1
    <3> QED
      BY <2>4, <2>6, <3>1, <3>2 DEF Alive
  <2>8. ScriptOK(name, Tail(s), F, A \ {k})
    BY <1>1, <1>2, <2>2, <2>5, WaitOK
  <2>9. ASSUME name \in Reporting PROVE Printed(p)'
    <3>1. Call(p).prints = TRUE
      <4>1. CarefulScript(name, s) /\ 1 \in DOMAIN s /\ Head(s) = s[1]
        BY <1>1, TailIndex DEF ScriptOK
      <4> QED
        BY <1>2, <2>9, <4>1 DEF CarefulScript, Call
    <3>2. \A r : r \in Report(p, c) <=> status[c] >= 0 /\ r = <<c, status[c]>>
      BY <3>1 DEF Report
    <3>3. \A r \in reports : r[1] \in Children(p) =>
            state[r[1]] = "gone" /\ status[r[1]] >= 0 /\ r = <<r[1], status[r[1]]>>
      BY <1>1, <2>9 DEF Printed
    <3>4. \A d \in Children(p) : state[d] = "gone" /\ status[d] >= 0 => <<d, status[d]>> \in reports
      BY <1>1, <2>9 DEF Printed
    <3>5. \A d \in Children(p) : state'[d] = IF d = c THEN "gone" ELSE state[d]
      BY <1>1, <2>1, Numbering
    <3>6. ASSUME NEW r \in reports', r[1] \in Children(p)
          PROVE  state'[r[1]] = "gone" /\ status[r[1]] >= 0 /\ r = <<r[1], status[r[1]]>>
      <4>1. CASE r \in reports
        BY <3>3, <3>5, <3>6, <4>1
      <4>2. CASE r \in Report(p, c)
        <5>1. r = <<c, status[c]>> /\ status[c] >= 0
          BY <3>2, <4>2
        <5>2. r[1] = c
          BY <5>1
        <5> QED
          BY <3>5, <3>6, <5>1, <5>2
      <4> QED
        BY <2>1, <4>1, <4>2
    <3>7. ASSUME NEW d \in Children(p), state'[d] = "gone", status[d] >= 0
          PROVE  <<d, status[d]>> \in reports'
      BY <2>1, <3>2, <3>4, <3>5, <3>7
    <3>8. Children(p)' = Children(p)
      BY DEF Children, Main
    <3> QED
      BY <1>2, <3>6, <3>7, <3>8 DEF Printed
  <2>10. state'[p] = "running"
    BY <1>1, <2>1
  <2> QED
    BY <1>2, <2>6, <2>7, <2>8, <2>9, <2>10 DEF MainOK
<1> QED
  BY <1>4, <1>5 DEF Waitpid

\* It ends, of itself only when nobody is left to wait for.
LEMMA MainStops ==
  ASSUME NEW p, Minds(p), Stops(p), program' = program
  PROVE  MainOK(p)'
<1> DEFINE name == program[p[1]]
           s == todo[p]
<1>1. /\ p \in Procs /\ DOMAIN todo = Procs /\ DOMAIN state = Procs /\ DOMAIN status = Procs
      /\ IsSeq(s) /\ s # <<>> /\ p = Main(p) /\ p \in MainProcs
      /\ ScriptOK(name, s, Forked(p), Alive(p)) /\ MainCall(Head(s))
      /\ name \in Reporting => Printed(p)
  BY MindsFacts DEF Minds
<1>2. PICK how : /\ Ends(p, how) /\ UNCHANGED reports
                 /\ Signalled(how) \/ Head(s).call \in {"exit", "exec"}
  BY DEF Stops, Call
<1>3. state'[p] = "gone" /\ status'[p] = how
  BY <1>1, <1>2 DEF Ends
<1>4. \A c \in Children(p) :
        \/ state'[c] = state[c] /\ status'[c] = status[c]
        \/ state[c] \notin {"none", "gone"} /\ state'[c] \notin {"none", "gone"}
  <2> SUFFICES ASSUME NEW c \in Children(p)
               PROVE  \/ state'[c] = state[c] /\ status'[c] = status[c]
                      \/ state[c] \notin {"none", "gone"} /\ state'[c] \notin {"none", "gone"}
    OBVIOUS
  <2>1. c \in Procs /\ c # p
    BY <1>1, Numbering
  <2>2. state'[c] = IF state[c] = "zombie" THEN "abandoned" ELSE state[c]
    BY <1>2, <2>1 DEF Ends
  <2>3. status'[c] = status[c]
    BY <1>1, <1>2, <2>1 DEF Ends
  <2> QED
    BY <2>2, <2>3
<1>5. Alive(p)' = Alive(p) /\ (Printed(p) => Printed(p)')
  BY <1>1, <1>2, <1>4, SameKids
<1>6. Signalled(how) \/ Alive(p) = {}
  <2>1. CASE Head(s).call = "exit"
    BY <1>1, <2>1, LastOK
  <2>2. Head(s).call # "exec"
    BY <1>1 DEF MainCall
  <2> QED
    BY <1>2, <2>1, <2>2
<1> QED
  BY <1>1, <1>3, <1>5, <1>6 DEF MainOK

\* Whatever it does, a main process minds its children.
LEMMA MainStep ==
  ASSUME NEW p, Minds(p), Step(p) \/ Signal(p), program' = program, Tracked(p)'
  PROVE  MainOK(p)'
  BY StrangerDoes, MainGoesOn, MainForks, MainWaits, MainStops DEF Minds

------------------------------------------------------------
\* Every program that waits for its children begins with such a script.
LEMMA ScriptsOK ==
  ASSUME NEW i, NEW name \in Awaiting \cup Hasty, name \notin Shells
  PROVE  ScriptOK(name, Script(i, name), {}, {})
<1>1. CASE name \in {"Ec1", "Ec2", "Ec3", "Ec4"}
  <2>1. ScriptOK("Ec1", Ec1, {}, {})
    BY EcOK DEF Ec1
  <2>2. ScriptOK("Ec2", Ec2, {}, {})
    BY EcOK DEF Ec2
  <2>3. ScriptOK("Ec3", Ec3, {}, {})
    BY EcOK DEF Ec3
  <2>4. ScriptOK("Ec4", Ec4, {}, {})
    BY EcOK DEF Ec4
  <2>5. /\ Script(i, "Ec1") = Ec1 /\ Script(i, "Ec2") = Ec2
        /\ Script(i, "Ec3") = Ec3 /\ Script(i, "Ec4") = Ec4
    BY DEF Script
  <2> QED
    BY <1>1, <2>1, <2>2, <2>3, <2>4, <2>5
<1>2. CASE name = "Ping"
  BY <1>2, PingOK DEF Script
<1>3. CASE name = "PingPong"
  BY <1>3, PingPongOK DEF Script
<1>4. CASE name = "Pipeline"
  BY <1>4, PipelineOK DEF Script
<1>5. CASE name = "ListGrep"
  BY <1>5, ListGrepOK DEF Script
<1>6. CASE name = "Ec5"
  BY <1>6, Ec5OK DEF Script
<1>7. CASE name = "HelloSysV"
  BY <1>7, HelloSysVOK DEF Script
<1> QED
  BY <1>1, <1>2, <1>3, <1>4, <1>5, <1>6, <1>7 DEF Awaiting, Hasty

\* ... and forks its children only.
LEMMA CarefulForksKids ==
  ASSUME NEW p, p = Main(p), NEW name, NEW s, NEW F, NEW A, ScriptOK(name, s, F, A)
  PROVE  ForksKids(p, s)
  BY DEF ScriptOK, CarefulScript, ForksKids, Elements

\* So do the two that never wait.
LEMMA NeverWaitForksKids ==
  ASSUME NEW p, p = Main(p), NEW i
  PROVE  ForksKids(p, Posix(i)) /\ ForksKids(p, SysV(i))
<1>1. ForksKids(p, Posix(i))
  <2> DEFINE a == open(MQ_NAME, <<exit(1)>>)
             b == fork(1, <<send(i, MaxMsg), closeQueue, exit(0)>>, <<>>)
             c == fetch(TRUE)
             d == closeQueue
             e == unlink(MQ_NAME)
             f == exit(0)
  <2>1. /\ a.call = "open" /\ b.call = "fork" /\ b.child = 1 /\ c.call = "fetch" /\ d.call = "close"
        /\ e.call = "unlink" /\ f.call = "exit"
    BY DEF open, fork, fetch, closeQueue, unlink, exit
  <2>2. Posix(i) = <<a, b, c, d, e, f>>
    BY DEF Posix
  <2> HIDE DEF a, b, c, d, e, f
  <2>3. <<a, b, c, d, e, f>> \in Seq({a, b, c, d, e, f})
    OBVIOUS
  <2>4. Elements(Posix(i)) \subseteq {a, b, c, d, e, f}
    BY <2>2, <2>3, SeqOf
  <2> QED
    BY <2>1, <2>4 DEF ForksKids
<1>2. ForksKids(p, SysV(i))
  <2> DEFINE a == open(KEY, <<>>)
             b == fork(1, <<send(i, MaxKeyed), exit(0)>>, <<>>)
             c == fetch(TRUE)
             d == rmid(KEY)
             e == exit(0)
  <2>1. /\ a.call = "open" /\ b.call = "fork" /\ b.child = 1 /\ c.call = "fetch" /\ d.call = "rmid"
        /\ e.call = "exit"
    BY DEF open, fork, fetch, rmid, exit
  <2>2. SysV(i) = <<a, b, c, d, e>>
    BY DEF SysV
  <2> HIDE DEF a, b, c, d, e
  <2>3. <<a, b, c, d, e>> \in Seq({a, b, c, d, e})
    OBVIOUS
  <2>4. Elements(SysV(i)) \subseteq {a, b, c, d, e}
    BY <2>2, <2>3, SeqOf
  <2> QED
    BY <2>1, <2>4 DEF ForksKids
<1> QED
  BY <1>1, <1>2

------------------------------------------------------------
\* At the start every main process has its script, and nobody else has begun.
LEMMA KidsBegin ==
  ASSUME NEW f, ProcessInit(f), IInv,
         \A p \in Procs : p \in DOMAIN f <=> p = Main(p) /\ p[1] \in DOMAIN program,
         \A p \in Procs : p \in DOMAIN f =>
           /\ program[p[1]] \in Programs \cup Shells
           /\ p \notin SocketProcs => ForksKids(p, f[p])
           /\ program[p[1]] \in Awaiting \cup Hasty => ScriptOK(program[p[1]], f[p], {}, {})
  PROVE  KidsInv
<1>1. /\ reports = {}
      /\ \A p \in Procs : /\ todo[p] = IF p \in DOMAIN f THEN f[p] ELSE <<>>
                          /\ state[p] = IF p \in DOMAIN f THEN "running" ELSE "none"
  BY DEF ProcessInit
<1>2. \A p \in Strangers : state[p] = "running" => ForksKids(p, todo[p])
  BY <1>1 DEF Strangers, SocketProcs
<1>3. \A p \in MainProcs : state[p] # "none" =>
        p[1] \in DOMAIN program /\ program[p[1]] \in Programs \cup Shells
  BY <1>1 DEF MainProcs
<1>4. ASSUME NEW p \in Procs, Tracked(p) PROVE MainOK(p)
  <2>1. p \in MainProcs /\ p = Main(p) /\ p \in DOMAIN f
    BY <1>4 DEF Tracked, MainProcs
  <2>2. \A c \in Children(p) : state[c] = "none"
    BY <1>1, <2>1, Numbering
  <2>3. Forked(p) = {} /\ Alive(p) = {}
    BY <2>1, <2>2, Numbering DEF Forked, Alive
  <2>4. Printed(p)
    BY <1>1, <2>2 DEF Printed
  <2>5. ScriptOK(program[p[1]], todo[p], {}, {})
    BY <1>1, <1>4, <2>1 DEF Tracked
  <2> QED
    BY <2>3, <2>4, <2>5 DEF MainOK
<1> QED
  BY <1>2, <1>3, <1>4 DEF KidsInv

\* It holds at the start, in whatever company.
LEMMA InitKids == Init => KidsInv
<1> SUFFICES ASSUME Init PROVE KidsInv
  OBVIOUS
<1>1. IInv
  BY InitIInv
<1>2. \A p \in Procs : p = Main(p) <=> p[2] = 0
  BY DEF Procs, Main
<1>3. ASSUME NEW company \in Companies, program = company,
             ProcessInit([p \in (DOMAIN company) \X {0} |-> Script(p[1], company[p[1]])])
      PROVE  KidsInv
  <2> DEFINE f == [p \in (DOMAIN company) \X {0} |-> Script(p[1], company[p[1]])]
  <2>1. \A p \in Procs : p \in DOMAIN f <=> p = Main(p) /\ p[1] \in DOMAIN program
    BY <1>2, <1>3 DEF Procs
  <2>2. \A p \in DOMAIN f : f[p] = Script(p[1], program[p[1]])
    BY <1>3
  <2>3. ProcessInit(f)
    BY <1>3
  <2> HIDE DEF f
  <2>4. ASSUME NEW p \in Procs, p \in DOMAIN f
        PROVE  /\ program[p[1]] \in Programs \cup Shells
               /\ p \notin SocketProcs => ForksKids(p, f[p])
               /\ program[p[1]] \in Awaiting \cup Hasty => ScriptOK(program[p[1]], f[p], {}, {})
    <3> DEFINE name == program[p[1]]
    <3>1. p = Main(p) /\ p[1] \in DOMAIN program /\ f[p] = Script(p[1], name)
      BY <2>1, <2>2, <2>4
    <3>2. name \in Programs
      BY <1>3, <3>1, CompanyAssumption
    <3>3. name \notin Shells
      BY <3>2 DEF Programs, Shells
    <3>4. name \in Awaiting \cup Hasty => ScriptOK(name, f[p], {}, {})
      BY <3>1, <3>3, ScriptsOK
    <3>5. ASSUME p \notin SocketProcs PROVE ForksKids(p, f[p])
      <4>1. name \notin SocketPrograms
        BY <3>1, <3>5 DEF SocketProcs, Serving, Asking, Runs, MainProcs, SocketPrograms
      <4>2. CASE name \in Awaiting \cup Hasty
        BY <3>1, <3>4, <4>2, CarefulForksKids
      <4>3. CASE name \in {"Posix", "SysV"}
        <5>1. Script(p[1], "Posix") = Posix(p[1]) /\ Script(p[1], "SysV") = SysV(p[1])
          BY DEF Script
        <5> QED
          BY <3>1, <4>3, <5>1, NeverWaitForksKids
      <4> QED
        BY <3>2, <4>1, <4>2, <4>3 DEF Programs, SocketPrograms, Awaiting, Hasty
    <3> QED
      BY <3>2, <3>4, <3>5
  <2> QED
    BY <1>1, <2>1, <2>3, <2>4, KidsBegin
<1>4. ASSUME NEW lines \in Inputs, program \in {<<"Shell">>, <<"EndlessShell">>},
             ProcessInit([p \in {1} \X {0} |-> run_shell(lines)])
      PROVE  KidsInv
  <2> DEFINE f == [p \in {1} \X {0} |-> run_shell(lines)]
  <2>1. DOMAIN program = {1} /\ program[1] \in Shells
    BY <1>4 DEF Shells
  <2>2. \A p \in Procs : p \in DOMAIN f <=> p = Main(p) /\ p[1] \in DOMAIN program
    BY <1>2, <2>1 DEF Procs
  <2>3. \A p \in DOMAIN f : f[p] = <<getline(lines)>>
    BY DEF run_shell
  <2>4. ProcessInit(f)
    BY <1>4
  <2> HIDE DEF f
  <2>5. ASSUME NEW p \in Procs, p \in DOMAIN f
        PROVE  /\ program[p[1]] \in Programs \cup Shells
               /\ p \notin SocketProcs => ForksKids(p, f[p])
               /\ program[p[1]] \in Awaiting \cup Hasty => ScriptOK(program[p[1]], f[p], {}, {})
    <3>1. p = Main(p) /\ program[p[1]] \in Shells /\ f[p] = <<getline(lines)>>
      BY <2>1, <2>2, <2>3, <2>5
    <3>2. ScriptOK(program[p[1]], f[p], {}, {})
      BY <3>1, GetlineOK
    <3> QED
      BY <3>1, <3>2, CarefulForksKids
  <2> QED
    BY <1>1, <2>2, <2>4, <2>5, KidsBegin
<1> QED
  BY <1>3, <1>4 DEF Init

------------------------------------------------------------
\* What is counted and known does not change sides.
LEMMA TrackedStays ==
  ASSUME NEW p, failures \in Nat, failures' \in Nat, failures' >= failures, program' = program,
         Tracked(p)'
  PROVE  Tracked(p)
<1>1. failures' = 0 => failures = 0
  OBVIOUS
<1>2. MainProcs' = MainProcs
  BY DEF MainProcs, Procs, Main
<1> QED
  BY <1>1, <1>2 DEF Tracked

\* A step of a stranger
LEMMA StrangerKids ==
  ASSUME IInv, KidsInv, NEW p \in Strangers, Step(p) \/ Signal(p)
  PROVE  KidsInv'
<1>1. /\ Goes(p) /\ Elsewhere /\ p \in Procs /\ state[p] = "running" /\ failures \in Nat
      /\ program' = program
  BY StrangerStep, StrangerRuns DEF IInv, Strangers, Elsewhere, Shape
<1>2. Foreign(p) /\ ForksKids(p, todo[p])
  BY <1>1, StrangerIsForeign DEF IInv, KidsInv
<1>3. Strangers' = Strangers /\ MainProcs' = MainProcs
  BY <1>1 DEF Strangers, Serving, Asking, MainProcs, Runs
<1>4. ~Socketed(p)
  BY StrangerStep DEF IInv
<1>5. \A y \in Procs : y[1] = p[1] => y \in Strangers
  BY <1>4 DEF Strangers, Serving, Asking, Socketed, SocketPrograms, Runs
<1>6. \A y \in Procs : y[1] = p[1] /\ state'[y] = "running" => ForksKids(y, todo'[y])
  BY <1>2, <1>5, StrangerForksKids DEF KidsInv
<1>7. ASSUME NEW y \in Strangers, state'[y] = "running" PROVE ForksKids(y, todo'[y])
  <2>1. y \in Procs
    BY DEF Strangers
  <2>2. CASE y[1] # p[1]
    BY <1>1, <1>7, <2>1, <2>2 DEF Goes, SameAt, KidsInv
  <2> QED
    BY <1>6, <1>7, <2>1, <2>2
<1>8. ASSUME NEW y \in MainProcs, state'[y] # "none"
      PROVE  y[1] \in DOMAIN program' /\ program'[y[1]] \in Programs \cup Shells
  <2>1. y \in Procs /\ y = Main(y)
    BY DEF MainProcs
  <2>2. CASE y[1] # p[1]
    BY <1>1, <1>8, <2>1, <2>2 DEF Goes, SameAt, KidsInv
  <2>3. CASE y[1] = p[1] /\ y # p
    <3>1. p # Main(p)
      BY <2>1, <2>3 DEF Main
    <3>2. state'[y] = state[y]
      BY <1>2, <2>1, <2>3, <3>1, KidStep
    <3> QED
      BY <1>1, <1>8, <3>2 DEF KidsInv
  <2>4. CASE y = p
    BY <1>1, <1>8, <2>4 DEF KidsInv
  <2> QED
    BY <2>2, <2>3, <2>4
<1>9. ASSUME NEW y \in Procs, Tracked(y)' PROVE MainOK(y)'
  <2>1. Tracked(y) /\ MainOK(y)
    BY <1>1, <1>9, TrackedStays DEF Elsewhere, KidsInv
  <2>2. y \in MainProcs /\ y = Main(y)
    BY <2>1 DEF Tracked, MainProcs
  <2>3. \A c \in Children(y) : c \in Procs /\ c # y /\ c[1] = y[1]
    BY <2>2, Numbering
  <2>4. CASE y[1] # p[1]
    <3>1. SameAt(y) /\ \A c \in Children(y) : SameAt(c)
      BY <1>1, <2>3, <2>4 DEF Goes
    <3>2. \A r : r[1] \in Children(y) => (r \in reports' <=> r \in reports)
      <4>1. CASE UNCHANGED reports
        BY <4>1
      <4>2. CASE Waitpid(p)
        <5>1. UNCHANGED reports \/ \E c \in Awaited(p) : reports' = reports \cup Report(p, c)
          BY <4>2 DEF Waitpid
        <5>2. \A c \in Awaited(p) : c[1] = p[1]
          BY DEF Awaited, Children
        <5>3. ASSUME NEW c \in Awaited(p), NEW r \in Report(p, c) PROVE r[1] = c
          BY <5>3 DEF Report
        <5> QED
          BY <2>3, <2>4, <5>1, <5>2, <5>3
      <4> QED
        BY <1>2, <4>1, <4>2, StrangerDoes DEF GoesOn, Forks, Stops
    <3> QED
      BY <1>1, <2>1, <2>2, <3>1, <3>2, SameMain DEF SameAt
  <2>5. CASE y[1] = p[1] /\ y # p
    <3>1. p # Main(p)
      BY <2>2, <2>5 DEF Main
    <3>2. /\ \A x \in Procs \ {p} :
               todo'[x] = todo[x] /\ state'[x] = state[x] /\ status'[x] = status[x]
          /\ UNCHANGED reports /\ state[p] = "running" /\ state'[p] \notin {"none", "gone"}
      BY <1>2, <3>1, KidStep
    <3>3. \A c \in Children(y) :
            \/ state'[c] = state[c] /\ status'[c] = status[c]
            \/ state[c] \notin {"none", "gone"} /\ state'[c] \notin {"none", "gone"}
      BY <2>3, <3>2
    <3>4. todo'[y] = todo[y] /\ state'[y] = state[y] /\ status'[y] = status[y]
      BY <2>5, <3>2
    <3> QED
      BY <1>1, <2>1, <2>2, <3>2, <3>3, <3>4, SameMain
  <2>6. CASE y = p
    <3>1. Minds(p)
      BY <1>2, <2>1, <2>2, <2>6 DEF Minds
    <3> QED
      BY <1>1, <1>9, <2>6, <3>1, MainStep
  <2> QED
    BY <2>4, <2>5, <2>6
<1> QED
  BY <1>3, <1>7, <1>8, <1>9 DEF KidsInv, ForksKids, Main

\* A step of a server or a client
LEMMA SocketKids ==
  ASSUME IInv, KidsInv, NEW p \in SocketProcs, Step(p) \/ Signal(p)
  PROVE  KidsInv'
<1>1. /\ program' = program /\ UNCHANGED reports /\ state[p] = "running"
      /\ \A y \in Procs \ {p} :
           todo'[y] = todo[y] /\ state'[y] = state[y] /\ status'[y] = status[y]
  BY SocketMoves
<1>2. failures \in Nat /\ failures' \in Nat /\ failures' >= failures
  BY FailuresGrow DEF IInv, Shape
<1>3. Strangers' = Strangers /\ MainProcs' = MainProcs
  BY <1>1 DEF Strangers, Serving, Asking, MainProcs, Runs
<1>4. p \in MainProcs /\ p \notin Strangers /\ Socketed(p) /\ p = Main(p)
  BY SocketProc DEF Strangers, SocketProcs, Serving, Asking, MainProcs
<1>5. \A y \in Strangers : state'[y] = "running" => ForksKids(y, todo'[y])
  BY <1>1, <1>4 DEF KidsInv, Strangers
<1>6. \A y \in MainProcs : state'[y] # "none" =>
        y[1] \in DOMAIN program' /\ program'[y[1]] \in Programs \cup Shells
  BY <1>1, <1>4 DEF KidsInv, MainProcs
<1>7. ASSUME NEW y \in Procs, Tracked(y)' PROVE MainOK(y)'
  <2>1. Tracked(y) /\ MainOK(y)
    BY <1>1, <1>2, <1>7, TrackedStays DEF KidsInv
  <2>2. y \in MainProcs
    BY <2>1 DEF Tracked
  <2>3. y # p
    BY <1>4, <2>1 DEF Tracked, Socketed, SocketPrograms, Runs, Awaiting, Hasty, Shells
  <2>4. \A c \in Children(y) : c \in Procs /\ c # p
    BY <1>4, <2>2, Numbering
  <2> QED
    BY <1>1, <2>1, <2>2, <2>3, <2>4, SameMain
<1> QED
  BY <1>3, <1>5, <1>6, <1>7 DEF KidsInv, ForksKids, Main

\* Every step keeps it.
LEMMA KidsStep == IInv /\ KidsInv /\ [Next]_vars => KidsInv'
<1> SUFFICES ASSUME IInv, KidsInv, [Next]_vars PROVE KidsInv'
  OBVIOUS
<1>1. CASE UNCHANGED vars
  <2> USE <1>1 DEF vars, procVars
  <2>1. Strangers' = Strangers /\ MainProcs' = MainProcs
    BY DEF Strangers, Serving, Asking, MainProcs, Runs
  <2>2. \A y \in Strangers : state'[y] = "running" => ForksKids(y, todo'[y])
    BY DEF KidsInv
  <2>3. \A y \in MainProcs : state'[y] # "none" =>
          y[1] \in DOMAIN program' /\ program'[y[1]] \in Programs \cup Shells
    BY DEF KidsInv
  <2>4. ASSUME NEW y \in Procs, Tracked(y)' PROVE MainOK(y)'
    <3>1. Tracked(y) /\ MainOK(y)
      BY <2>1, <2>4 DEF Tracked, KidsInv
    <3> QED
      BY <3>1, SameMain DEF Tracked
  <2> QED
    BY <2>1, <2>2, <2>3, <2>4 DEF KidsInv, ForksKids, Main
<1>2. CASE Next
  <2>1. PICK p \in Procs : Step(p) \/ Signal(p)
    BY <1>2 DEF Next
  <2> QED
    BY <2>1, StrangerKids, SocketKids DEF Strangers, SocketProcs
<1> QED
  BY <1>1, <1>2

------------------------------------------------------------
\* A parent that returns has printed each exit code once and none for a child
\* that a signal ended, and leaves no child behind but where the code does
\* (process/main.cpp:13-173, pipe_fifo/main.cpp:15-177, exercise/pipe/main.cpp,
\* exercise/shell_mini/main.cpp): for any programs in any company, whatever
\* fails and whoever is killed.
THEOREM ChildrenAwaitedHolds == Spec => []ChildrenAwaited
<1>1. IInv /\ KidsInv => ChildrenAwaited
  <2> SUFFICES ASSUME IInv, KidsInv PROVE ChildrenAwaited
    OBVIOUS
  <2>1. ReportsEveryChild
    <3> SUFFICES ASSUME NEW p \in Procs, p = Main(p), p[1] \in DOMAIN program,
                        program[p[1]] \in Reporting, Returned(p), failures = 0
                 PROVE  {r \in reports : r[1] \in Children(p)} =
                        {<<c, status[c]>> : c \in {d \in Children(p) : state[d] # "none" /\ status[d] >= 0}}
      BY DEF ReportsEveryChild
    <3>1. p \in MainProcs
      BY DEF MainProcs
    <3>2. Tracked(p)
      BY <3>1 DEF Tracked, Reporting, Awaiting, Hasty
    <3>3. MainOK(p)
      BY <3>2 DEF KidsInv
    <3>4. Printed(p) /\ (Signalled(status[p]) \/ Alive(p) = {})
      BY <3>3 DEF MainOK, Returned
    <3>5. Alive(p) = {}
      <4>1. ~Signalled(status[p])
        BY DEF Returned, Signalled
      <4> QED
        BY <3>4, <4>1
    <3>7. \A c \in Children(p) : state[c] # "none" => state[c] = "gone"
      BY <3>1, <3>5, Numbering DEF Alive, Forked
    <3> QED
      BY <3>4, <3>7 DEF Printed
  <2>2. AbandonsOnlyIf
    <3> SUFFICES ASSUME NEW p \in Procs, p = Main(p), state[p] = "gone",
                        NEW c \in Children(p), state[c] \notin {"none", "gone"}
                 PROVE  \/ status[p] < 0
                        \/ program[p[1]] \in NeverWait
                        \/ program[p[1]] \in {"Ec5", "ListGrep"} /\ failures > 0
      BY DEF AbandonsOnlyIf
    <3>1. p \in MainProcs /\ failures \in Nat
      BY DEF MainProcs, IInv, Shape
    <3>2. p[1] \in DOMAIN program /\ program[p[1]] \in Programs \cup Shells
      BY <3>1 DEF KidsInv
    <3>3. CASE Tracked(p)
      <4>1. Signalled(status[p]) \/ Alive(p) = {}
        BY <3>3 DEF KidsInv, MainOK
      <4>2. c[2] \in Alive(p)
        BY <3>1, Numbering DEF Alive, Forked
      <4> QED
        BY <4>1, <4>2 DEF Signalled
    <3>4. CASE ~Tracked(p)
      <4>1. program[p[1]] \in NeverWait \cup SocketPrograms \cup Hasty
        BY <3>1, <3>2, <3>4 DEF Tracked, Programs, Shells, Awaiting, Hasty, NeverWait, SocketPrograms
      <4>2. program[p[1]] \notin SocketPrograms
        <5> SUFFICES ASSUME program[p[1]] \in SocketPrograms PROVE FALSE
          OBVIOUS
        <5>1. p \in SocketProcs
          BY <3>1, <3>2 DEF SocketProcs, Serving, Asking, Runs, SocketPrograms
        <5> QED
          BY <5>1, NoChildren DEF IInv
      <4>3. program[p[1]] \in Hasty => failures > 0
        BY <3>1, <3>2, <3>4 DEF Tracked
      <4> QED
        BY <4>1, <4>2, <4>3 DEF Hasty
    <3> QED
      BY <3>3, <3>4
  <2> QED
    BY <2>1, <2>2 DEF ChildrenAwaited
<1> QED
  BY <1>1, InitIInv, IInvStep, InitKids, KidsStep, PTL DEF Spec

------------------------------------------------------------
\* The calls of the exercises, each in its class
LEMMA BasicOnes ==
  /\ \A code \in Codes : Basic(exit(code)) /\ Basic(execvp(code))
  /\ \A S : Basic(close(S))
  /\ \A child : Basic(waitpid(child, TRUE)) /\ Basic(waitpid(child, FALSE))
  /\ Basic(wait(TRUE))
  /\ \A n : \A m \in Message : Basic(write(n, m))
  /\ \A n, out : Basic(filter(n, out, TRUE)) /\ Basic(filter(n, out, FALSE))
  /\ \A lines : Basic(getline(lines))
  /\ {0, 1, 2, 3, 42, 127, SIGSEGV} \subseteq Codes /\ 1 \in Message /\ 2 \in Message
<1>1. \A n : \A m \in Message : Basic(write(n, m))
  BY DEF Basic, write
<1>2. \A code \in Codes : Basic(exit(code)) /\ Basic(execvp(code))
  BY DEF Basic, exit, execvp
<1>3. {0, 1, 2, 3, 42, 127, SIGSEGV} \subseteq Codes /\ 1 \in Message /\ 2 \in Message
  BY DEF Codes, Message
<1> QED
  BY <1>1, <1>2, <1>3 DEF Basic, close, waitpid, wait, filter, getline

\* What is done when a call has failed is basic.
LEMMA BasicFallbacks ==
  BasicCalls(<<>>) /\ BasicCalls(Return) /\ \A code \in Codes : BasicCalls(<<exit(code)>>)
<1>1. \A code \in Codes : BasicCalls(<<exit(code)>>)
  BY BasicOnes, SingleIsSeq DEF BasicCalls
<1>2. BasicCalls(<<>>)
  BY EmptyIsSeq DEF BasicCalls
<1> QED
  BY <1>1, <1>2, BasicOnes DEF Return

\* ... and what of the others is, to a child and to a main process.
LEMMA ChildBasicOnes ==
  /\ \A c : Basic(c) => ChildBasic(c) /\ MainBasic(c)
  /\ \A n, then : BasicCalls(then) => ChildBasic(read(n, then)) /\ MainBasic(read(n, then))
  /\ \A n, failed : BasicCalls(failed) => ChildBasic(pipe(n, failed)) /\ MainBasic(pipe(n, failed))
  /\ \A child, calls : ChildBasicScript(calls) =>
       /\ MainBasic(fork(child, calls, Return)) /\ MainBasic(fork(child, calls, <<>>))
       /\ MainBasic(fork(child, calls, <<exit(1)>>))
<1>1. \A n, then : BasicCalls(then) => ChildBasic(read(n, then))
  BY DEF ChildBasic, read
<1>2. \A n, failed : BasicCalls(failed) => ChildBasic(pipe(n, failed))
  BY DEF ChildBasic, pipe
<1>3. \A child, calls, failed : ChildBasicScript(calls) /\ BasicCalls(failed) =>
        MainBasic(fork(child, calls, failed))
  BY DEF MainBasic, fork
<1>4. \A c : Basic(c) => ChildBasic(c)
  BY DEF ChildBasic
<1>5. BasicCalls(<<>>) /\ BasicCalls(Return) /\ BasicCalls(<<exit(1)>>)
  BY BasicFallbacks, BasicOnes
<1>6. \A c : ChildBasic(c) => MainBasic(c)
  BY DEF MainBasic
<1> QED
  BY <1>1, <1>2, <1>3, <1>4, <1>5, <1>6

\* Scripts that are written out
LEMMA ChildBasicWritten ==
  ASSUME NEW S, NEW s \in Seq(S), \A c \in S : ChildBasic(c)
  PROVE  ChildBasicScript(s)
  BY SeqOf DEF ChildBasicScript

\* A script written out call by call is basic if each call is.
LEMMA BasicWritten ==
  ASSUME NEW S, NEW s \in Seq(S), \A c \in S : MainBasic(c)
  PROVE  BasicScript(s)
  BY SeqOf DEF BasicScript

\* Each program that uses neither queues nor sockets keeps to basic calls.
LEMMA PingIsBasic == BasicScript(Ping)
<1> DEFINE child == <<close({W(P(1))}), read(P(1), <<>>), close({R(P(1))}), exit(1)>>
           CHILD == {close({W(P(1))}), read(P(1), <<>>), close({R(P(1))}), exit(1)}
           S == {pipe(P(1), Return), fork(1, child, Return), close({R(P(1))}),
                write(P(1), 1), close({W(P(1))}), wait(TRUE), exit(0)}
<1>1. child \in Seq(CHILD)
  OBVIOUS
<1>2. Ping \in Seq(S)
  BY DEF Ping
<1> HIDE DEF child
<1>3. \A c \in CHILD : ChildBasic(c)
  BY BasicOnes, ChildBasicOnes, BasicFallbacks, Zenon
<1> HIDE DEF CHILD
<1>4. ChildBasicScript(child)
  BY <1>1, <1>3, ChildBasicWritten
<1>5. \A c \in S : MainBasic(c)
  BY <1>4, BasicOnes, ChildBasicOnes, BasicFallbacks, Zenon
<1> HIDE DEF S
<1> QED
  BY <1>2, <1>5, BasicWritten

LEMMA PingPongIsBasic == BasicScript(PingPong)
<1> DEFINE child == << close({R(P(2))}), close({W(P(1))}), read(P(1), <<write(P(2), 2)>>),
                       close({R(P(1))}), close({W(P(2))}), exit(1) >>
           CHILD == {close({R(P(2))}), close({W(P(1))}), read(P(1), <<write(P(2), 2)>>),
                     close({R(P(1))}), close({W(P(2))}), exit(1)}
           S == {pipe(P(1), Return), pipe(P(2), Return), fork(1, child, Return),
                close({R(P(1))}), close({W(P(2))}), write(P(1), 1), read(P(2), <<>>),
                close({R(P(2))}), close({W(P(1))}), wait(TRUE), exit(0)}
<1>1. child \in Seq(CHILD)
  OBVIOUS
<1>2. PingPong \in Seq(S)
  BY DEF PingPong
<1> HIDE DEF child
<1>6. BasicCalls(<<write(P(2), 2)>>)
  BY BasicOnes, SingleIsSeq DEF BasicCalls
<1>3. \A c \in CHILD : ChildBasic(c)
  BY <1>6, BasicOnes, ChildBasicOnes, BasicFallbacks, Zenon
<1> HIDE DEF CHILD
<1>4. ChildBasicScript(child)
  BY <1>1, <1>3, ChildBasicWritten
<1>5. \A c \in S : MainBasic(c)
  BY <1>4, BasicOnes, ChildBasicOnes, BasicFallbacks, Zenon
<1> HIDE DEF S
<1> QED
  BY <1>2, <1>5, BasicWritten

LEMMA ListGrepIsBasic == BasicScript(ListGrep)
<1> DEFINE ls == <<close({R(P(1))}), execvp(1)>> \o List(P(1)) \o <<exit(0)>>
           LS == {close({R(P(1))}), execvp(1), exit(0)} \cup {write(P(1), k) : k \in 1 .. Lines}
           grep == <<close({W(P(1))}), execvp(1), filter(P(1), {}, FALSE), exit(0)>>
           GREP == {close({W(P(1))}), execvp(1), filter(P(1), {}, FALSE), exit(0)}
           S == {pipe(P(1), Return), fork(1, ls, Return), fork(2, grep, Return),
                close({R(P(1))}), close({W(P(1))}), waitpid(1, FALSE), waitpid(2, FALSE),
                exit(0)}
<1>1. ls \in Seq(LS)
  BY LinesAssumption DEF List
<1>2. grep \in Seq(GREP)
  OBVIOUS
<1>3. ListGrep \in Seq(S)
  BY DEF ListGrep
<1> HIDE DEF ls, grep
<1>4. \A k \in 1 .. Lines : k \in Message
  BY LinesAssumption DEF Message
<1>5. \A c \in LS : ChildBasic(c)
  BY <1>4, BasicOnes, ChildBasicOnes, Zenon
<1>6. \A c \in GREP : ChildBasic(c)
  BY BasicOnes, ChildBasicOnes, Zenon
<1> HIDE DEF LS, GREP
<1>7. ChildBasicScript(ls) /\ ChildBasicScript(grep)
  BY <1>1, <1>2, <1>5, <1>6, ChildBasicWritten
<1>8. \A c \in S : MainBasic(c)
  BY <1>7, BasicOnes, ChildBasicOnes, BasicFallbacks, Zenon
<1> HIDE DEF S
<1> QED
  BY <1>3, <1>8, BasicWritten

\* A spawned child and the pipeline of such children
LEMMA SpawnIsBasic ==
  ASSUME NEW child, NEW in, NEW out, NEW C, NEW calls \in Seq(C),
         \A c \in C : ChildBasic(c)
  PROVE  MainBasic(spawn(child, in, out, calls))
<1> DEFINE ends == close({R(P(k)) : k \in 1 .. 3} \ {R(n) : n \in in})
           outs == close({W(P(k)) : k \in 1 .. 3} \ {W(n) : n \in out})
           S == C \cup {ends, outs, execvp(127), exit(0)}
           all == <<ends, outs, execvp(127)>> \o calls \o <<exit(0)>>
<1>1. ChildBasic(ends) /\ ChildBasic(outs) /\ ChildBasic(execvp(127)) /\ ChildBasic(exit(0))
  BY BasicOnes, ChildBasicOnes, Zenon
<1>2. spawn(child, in, out, calls) = fork(child, all, <<>>)
  BY DEF spawn
<1> HIDE DEF ends, outs
<1>3. all \in Seq(S)
  OBVIOUS
<1>4. \A c \in S : ChildBasic(c)
  BY <1>1
<1> HIDE DEF S, all
<1>5. ChildBasicScript(all)
  BY <1>3, <1>4, ChildBasicWritten
<1> QED
  BY <1>2, <1>5, ChildBasicOnes

LEMMA PipelineIsBasic == BasicScript(Pipeline)
<1> DEFINE ps == spawn(1, {}, {P(1)}, List(P(1)))
           sort == spawn(2, {P(1)}, {P(2)}, <<filter(P(1), {P(2)}, TRUE)>>)
           uniq == spawn(3, {P(2)}, {P(3)}, <<filter(P(2), {P(3)}, FALSE)>>)
           last == spawn(4, {P(3)}, {}, <<filter(P(3), {}, TRUE)>>)
           S == {pipe(P(1), <<>>), pipe(P(2), <<>>), pipe(P(3), <<>>), ps, sort, uniq, last,
                 close({W(P(1))}), close({R(P(1))}), close({W(P(2))}), close({R(P(2))}),
                 close({W(P(3))}), close({R(P(3))}), waitpid(1, FALSE), waitpid(2, FALSE),
                 waitpid(3, FALSE), waitpid(4, FALSE), exit(0)}
<1>1. MainBasic(ps)
  <2> DEFINE C == {write(P(1), k) : k \in 1 .. Lines}
  <2>1. List(P(1)) \in Seq(C)
    BY LinesAssumption DEF List
  <2>2. \A k \in 1 .. Lines : k \in Message
    BY LinesAssumption DEF Message
  <2>3. \A c \in C : ChildBasic(c)
    BY <2>2, BasicOnes, ChildBasicOnes, Zenon
  <2> QED
    BY <2>1, <2>3, SpawnIsBasic
<1>2. ASSUME NEW f, ChildBasic(f), NEW child, NEW from, NEW to
      PROVE  MainBasic(spawn(child, from, to, <<f>>))
  <2> DEFINE calls == <<f>>
             C == {f}
  <2>1. calls \in Seq(C) /\ \A c \in C : ChildBasic(c)
    BY <1>2
  <2> HIDE DEF calls, C
  <2>2. MainBasic(spawn(child, from, to, calls))
    BY <2>1, SpawnIsBasic
  <2> QED
    BY <2>2 DEF calls
<1>3. MainBasic(sort) /\ MainBasic(uniq) /\ MainBasic(last)
  BY <1>2, BasicOnes, ChildBasicOnes, Zenon
<1>4. Pipeline \in Seq(S)
  BY DEF Pipeline
<1> HIDE DEF ps, sort, uniq, last
<1>5. \A c \in S : MainBasic(c)
  BY <1>1, <1>3, BasicOnes, ChildBasicOnes, BasicFallbacks, Zenon
<1> HIDE DEF S
<1> QED
  BY <1>4, <1>5, BasicWritten

\* The exercises with one child, and with several
LEMMA OneChildIsBasic ==
  ASSUME NEW calls, ChildBasicScript(calls), NEW awaits, Basic(awaits)
  PROVE  BasicScript(OneChild(calls, awaits))
<1> DEFINE S == {fork(1, calls, Return), awaits, exit(0)}
<1>1. OneChild(calls, awaits) \in Seq(S)
  BY DEF OneChild
<1>2. \A c \in S : MainBasic(c)
  BY BasicOnes, ChildBasicOnes
<1> HIDE DEF S
<1> QED
  BY <1>1, <1>2, BasicWritten

LEMMA ExitsAreBasic ==
  /\ \A code \in Codes : ChildBasicScript(<<exit(code)>>)
  /\ ChildBasicScript(<<execvp(1), exit(0)>>)
<1>1. \A code \in Codes : ChildBasicScript(<<exit(code)>>)
  BY BasicOnes, ChildBasicOnes, SingleIsSeq DEF ChildBasicScript
<1>2. ChildBasicScript(<<execvp(1), exit(0)>>)
  <2> DEFINE all == <<execvp(1), exit(0)>>
             S == {execvp(1), exit(0)}
  <2>1. all \in Seq(S)
    OBVIOUS
  <2>2. \A c \in S : ChildBasic(c)
    BY BasicOnes, ChildBasicOnes
  <2> HIDE DEF S, all
  <2>3. ChildBasicScript(all)
    BY <2>1, <2>2, ChildBasicWritten
  <2> QED
    BY <2>3 DEF all
<1> QED
  BY <1>1, <1>2

LEMMA EcsAreBasic == BasicScript(Ec1) /\ BasicScript(Ec2) /\ BasicScript(Ec3) /\ BasicScript(Ec4)
<1>1. 1 \in Codes /\ 42 \in Codes
  BY BasicOnes
<1>2. Basic(waitpid(1, TRUE)) /\ Basic(wait(TRUE))
  BY BasicOnes
<1> QED
  BY <1>1, <1>2, ExitsAreBasic, OneChildIsBasic DEF Ec1, Ec2, Ec3, Ec4

LEMMA Ec5IsBasic == BasicScript(Ec5)
<1> DEFINE a == fork(1, <<exit(1)>>, <<exit(1)>>)
           b == fork(2, <<exit(2)>>, <<exit(1)>>)
           c == fork(3, <<exit(3)>>, <<exit(1)>>)
           S == {a, b, c, wait(TRUE), exit(0)}
<1>1. Ec5 \in Seq(S)
  BY DEF Ec5
<1>2. MainBasic(a) /\ MainBasic(b) /\ MainBasic(c)
  BY BasicOnes, ChildBasicOnes, ExitsAreBasic
<1> HIDE DEF a, b, c
<1>3. \A d \in S : MainBasic(d)
  BY <1>2, BasicOnes, ChildBasicOnes
<1> HIDE DEF S
<1> QED
  BY <1>1, <1>3, BasicWritten

\* What a shell reads to do
LEMMA CommandIsBasic ==
  ASSUME NEW line, NEW lines
  PROVE  /\ BasicScript(Command(line) \o <<getline(lines)>>)
         /\ BasicScript(<<getline(lines)>>) /\ BasicScript(Return)
<1> DEFINE calls == IF line = "blank" THEN <<exit(SIGSEGV)>> ELSE <<execvp(1), exit(0)>>
           a == fork(1, calls, <<>>)
           b == waitpid(1, FALSE)
           c == getline(lines)
<1>1. ChildBasicScript(calls)
  BY BasicOnes, ExitsAreBasic
<1>2. Command(line) = <<a, b>>
  BY DEF Command
<1> HIDE DEF calls
<1>3. MainBasic(a) /\ MainBasic(b) /\ MainBasic(c)
  BY <1>1, BasicOnes, ChildBasicOnes
<1>4. MainBasic(exit(0))
  BY BasicOnes, ChildBasicOnes
<1> HIDE DEF a, b
<1>5. BasicScript(<<c>>) /\ BasicScript(<<exit(0)>>)
  BY <1>3, <1>4, SingleIsSeq DEF BasicScript
<1>6. BasicScript(<<a, b>> \o <<c>>)
  <2> HIDE DEF c
  <2>1. <<a, b, c>> \in Seq({a, b, c})
    OBVIOUS
  <2>2. Elements(<<a, b, c>>) \subseteq {a, b, c}
    BY <2>1, SeqOf
  <2> QED
    BY <1>3, <2>2, TwoAndOne DEF BasicScript
<1> QED
  BY <1>2, <1>5, <1>6 DEF Return

\* So is every program that uses neither queues nor sockets.
LEMMA ProgramsAreBasic ==
  ASSUME NEW i, NEW name \in Programs, name \notin SocketPrograms, name \notin QueuePrograms
  PROVE  BasicScript(Script(i, name))
<1> USE PingIsBasic, PingPongIsBasic, ListGrepIsBasic, PipelineIsBasic, EcsAreBasic, Ec5IsBasic
    DEF Script
<1>1. CASE name = "Ping" BY <1>1
<1>2. CASE name = "PingPong" BY <1>2
<1>3. CASE name = "ListGrep" BY <1>3
<1>4. CASE name = "Pipeline" BY <1>4
<1>5. CASE name = "Ec1" BY <1>5
<1>6. CASE name = "Ec2" BY <1>6
<1>7. CASE name = "Ec3" BY <1>7
<1>8. CASE name = "Ec4" BY <1>8
<1>9. CASE name = "Ec5" BY <1>9
<1> QED
  BY <1>1, <1>2, <1>3, <1>4, <1>5, <1>6, <1>7, <1>8, <1>9
     DEF Programs, SocketPrograms, QueuePrograms

------------------------------------------------------------
\* One more element, and what it adds
LEMMA Appended ==
  ASSUME NEW s, IsSeq(s), NEW x
  PROVE  /\ IsSeq(Append(s, x)) /\ Elements(Append(s, x)) \subseteq Elements(s) \cup {x}
         /\ Len(s) \in Nat /\ Len(Append(s, x)) = Len(s) + 1
<1> DEFINE S == Elements(s) \cup {x}
<1>1. s \in Seq(S) /\ x \in S
  BY SeqMonotonic DEF IsSeq
<1> HIDE DEF S
<1>2. Append(s, x) \in Seq(S) /\ Len(Append(s, x)) = Len(s) + 1
  BY <1>1, AppendProperties
<1>3. IsSeq(Append(s, x)) /\ Elements(Append(s, x)) \subseteq S
  BY <1>2, SeqOf
<1>4. Len(s) \in Nat
  BY <1>1, LenProperties
<1> QED
  BY <1>2, <1>3, <1>4 DEF S

\* Messages read are written on.
LEMMA WritesBasic ==
  ASSUME NEW out, NEW lines, IsSeq(lines), Elements(lines) \subseteq Message
  PROVE  BasicCalls(Writes(out, lines))
<1>1. CASE out = {}
  BY <1>1, BasicFallbacks DEF Writes
<1>2. CASE out # {}
  <2> DEFINE n == CHOOSE m \in out : TRUE
             w == Writes(out, lines)
  <2>1. w = [k \in DOMAIN lines |-> write(n, lines[k])]
    BY <1>2 DEF Writes
  <2> HIDE DEF n, w
  <2>2. ASSUME NEW c \in Elements(w) PROVE Basic(c)
    <3>1. PICK k \in DOMAIN lines : c = write(n, lines[k])
      BY <2>1, <2>2 DEF Elements
    <3>2. lines[k] \in Message
      BY <3>1 DEF Elements
    <3> QED
      BY <3>1, <3>2, BasicOnes
  <2> QED
    BY <2>2 DEF BasicCalls, w
<1> QED
  BY <1>1, <1>2

------------------------------------------------------------
\* What a call changes of who runs and of what is open
LEMMA Changes ==
  ASSUME Domains, NEW p \in Procs, Step(p) \/ Signal(p), WellCalled(p)
  PROVE  /\ state[p] = "running" /\ program' = program
         /\ \/ \E how \in Codes : Ends(p, how)
            \/ UNCHANGED <<state, status>> /\ \A y \in Procs \ {p} : fds'[y] = fds[y]
            \/ UNCHANGED status /\ \E c : /\ state' = [state EXCEPT ![c] = "running"]
                                          /\ fds' = [fds EXCEPT ![c] = fds[p]]
            \/ UNCHANGED <<status, fds>> /\ \E c \in Procs :
                 state[c] = "zombie" /\ state' = [state EXCEPT ![c] = "gone"]
            \/ Connect(p)
<1>0. state[p] = "running" /\ program' = program
  BY StrangerRuns DEF Step, Signal
<1>1. CASE Signal(p)
  BY <1>0, <1>1 DEF Signal, Kill, Codes
<1>2. CASE Fork(p)
  BY <1>0, <1>2 DEF Fork
<1>3. CASE Exec(p)
  BY <1>0, <1>3 DEF Exec, WellCalled, Calls, Call
<1>4. CASE Exit(p)
  BY <1>0, <1>4 DEF Exit, WellCalled, Calls, Call
<1>5. CASE Close(p)
  BY <1>0, <1>5 DEF Close, Domains
<1>6. CASE Unlink(p) \/ Getline(p)
  BY <1>0, <1>6 DEF Unlink, Getline
<1>7. CASE Waitpid(p)
  <2>1. Awaited(p) \subseteq Procs
    BY DEF Awaited, Children
  <2> QED
    BY <1>0, <1>7, <2>1 DEF Waitpid
<1>8. CASE MakePipe(p)
  BY <1>0, <1>8 DEF MakePipe, Domains
<1>9. CASE Write(p)
  BY <1>0, <1>9 DEF Write, Codes
<1>10. CASE Read(p) \/ Filter(p)
  BY <1>0, <1>10 DEF Read, Filter
<1>11. CASE OpenQueue(p)
  BY <1>0, <1>11 DEF OpenQueue, Domains
<1>12. CASE Send(p) \/ Fetch(p) \/ Remove(p)
  BY <1>0, <1>12 DEF Send, Fetch, Remove
<1>13. CASE Bind(p) \/ Listen(p) \/ Accept(p) \/ CloseAll(p)
  BY <1>0, <1>13 DEF Bind, Listen, Accept, CloseAll, Domains
<1>14. CASE Connect(p)
  BY <1>0, <1>14
<1> QED
  BY <1>1, <1>2, <1>3, <1>4, <1>5, <1>6, <1>7, <1>8, <1>9, <1>10, <1>11, <1>12, <1>13, <1>14
  DEF Step, ProcessStep, PipeStep, QueueStep, SocketStep

\* ... and of the counters
LEMMA Counts ==
  ASSUME Typed, NEW p \in Procs, Step(p) \/ Signal(p)
  PROVE  /\ queues' \in 0 .. MaxQueues /\ failures' \in 0 .. MaxFailures /\ kills' \in 0 .. MaxKills
         /\ Undisturbed' => Undisturbed
<1>0. /\ MaxQueues \in Nat /\ MaxFailures \in Nat /\ MaxKills \in Nat
      /\ queues \in 0 .. MaxQueues /\ failures \in 0 .. MaxFailures /\ kills \in 0 .. MaxKills
  BY QueueAssumption, ProcessAssumption DEF Typed
<1>1. queues' = queues \/ (queues < MaxQueues /\ queues' = queues + 1)
  BY SMTT(30) DEF Step, Signal, QueueStep, OpenQueue, Send, Fetch, Remove
<1>2. failures' = failures \/ (failures < MaxFailures /\ failures' = failures + 1)
  BY DEF Step, Signal, Kill, ProcessStep, Fork, Exec, Exit, Close, Waitpid, Unlink, Getline, CallFails,
     PipeStep, MakePipe, Write, Read, Filter, QueueStep, OpenQueue, Send, Fetch, Remove,
     SocketStep, Bind, Listen, Connect, Accept, CloseAll
<1>3. kills' = kills \/ (kills < MaxKills /\ kills' = kills + 1)
  BY DEF Step, Signal, Kill, ProcessStep, Fork, Exec, Exit, Close, Waitpid, Unlink, Getline,
     PipeStep, MakePipe, Write, Read, Filter, QueueStep, OpenQueue, Send, Fetch, Remove,
     SocketStep, Bind, Listen, Connect, Accept, CloseAll
<1> QED
  BY <1>0, <1>1, <1>2, <1>3 DEF Undisturbed

\* The types are kept.
LEMMA TypedStep ==
  ASSUME IInv, Typed, NEW p \in Procs, Step(p) \/ Signal(p), WellCalled(p)
  PROVE  Typed'
<1>0. /\ Domains /\ DOMAIN fds = Procs
      /\ state \in [Procs -> States] /\ status \in [Procs -> Codes]
      /\ \A y \in Procs : state[y] # "running" => fds[y] = {}
  BY DEF IInv, Shape, Domains, Typed
<1>1. state[p] = "running" /\ program' = program
  BY <1>0, Changes
<1> SUFFICES /\ state' \in [Procs -> States] /\ status' \in [Procs -> Codes]
             /\ \A y \in Procs : state'[y] # "running" => fds'[y] = {}
  BY <1>1, Counts DEF Typed, Procs
<1>2. CASE \E how \in Codes : Ends(p, how)
  <2>1. PICK how \in Codes : Ends(p, how)
    BY <1>2
  <2>2. state' \in [Procs -> States] /\ \A y \in Procs \ {p} : state'[y] = "running" <=> state[y] = "running"
    BY <1>0, <2>1 DEF Ends, States
  <2>3. status' \in [Procs -> Codes] /\ fds'[p] = {} /\ \A y \in Procs \ {p} : fds'[y] = fds[y]
    BY <1>0, <2>1 DEF Ends
  <2> QED
    BY <1>0, <2>2, <2>3
<1>3. CASE UNCHANGED <<state, status>> /\ \A y \in Procs \ {p} : fds'[y] = fds[y]
  BY <1>0, <1>1, <1>3
<1>4. CASE UNCHANGED status /\ \E c : /\ state' = [state EXCEPT ![c] = "running"]
                                      /\ fds' = [fds EXCEPT ![c] = fds[p]]
  BY <1>0, <1>4 DEF States
<1>5. CASE UNCHANGED <<status, fds>> /\ \E c \in Procs :
                 state[c] = "zombie" /\ state' = [state EXCEPT ![c] = "gone"]
  BY <1>0, <1>5 DEF States
<1>6. CASE Connect(p)
  <2> DEFINE s == linked[Call(p).name]
  <2>1. UNCHANGED <<state, status>>
    BY <1>6 DEF Connect
  <2>2. CASE UNCHANGED fds
    BY <1>0, <2>1, <2>2
  <2>3. CASE /\ Listening(s)
             /\ fds' = [fds EXCEPT ![p] = {W(Up(p)), R(Down(p))}, ![s] = @ \cup {R(Up(p)), W(Down(p))}]
    <3>1. fds[s] # {}
      BY <2>3 DEF Listening
    <3> HIDE DEF s
    <3>2. \A y \in Procs : y # p /\ y # s => fds'[y] = fds[y]
      BY <1>0, <2>3
    <3>3. s \in Procs => state[s] = "running"
      BY <1>0, <3>1
    <3> QED
      BY <1>0, <1>1, <2>1, <3>2, <3>3
  <2> QED
    BY <1>6, <2>2, <2>3 DEF Connect
<1> QED
  BY <1>0, <1>2, <1>3, <1>4, <1>5, <1>6, Changes

\* Pipes hold what was written, and no more than they can.
LEMMA CleanStep ==
  ASSUME IInv, Clean, NEW p \in Procs, Step(p) \/ Signal(p), WellCalled(p)
  PROVE  Clean'
<1>0. /\ DOMAIN content = Pipe /\ DOMAIN got = Procs /\ Capacity \in Nat
      /\ \A n \in Pipe : IsSeq(content[n]) /\ Elements(content[n]) \subseteq Message
                         /\ Len(content[n]) <= Capacity
      /\ \A y \in Procs : IsSeq(got[y]) /\ (~Queued(y) => Elements(got[y]) \subseteq Message)
  BY CapacityAssumption DEF IInv, Shape, Domains, Clean
<1>1. program' = program
  BY DEF Step, Signal
<1>2. \A y : Queued(y)' <=> Queued(y)
  BY <1>1 DEF Queued, Runs
<1>3. ASSUME UNCHANGED content, UNCHANGED got PROVE Clean'
  BY <1>0, <1>2, <1>3 DEF Clean, Procs
<1>4. CASE /\ UNCHANGED content
           /\ Signal(p) \/ ProcessStep(p) \/ Getline(p) \/ OpenQueue(p) \/ Send(p) \/ Remove(p)
  <2>1. UNCHANGED got
    BY <1>4 DEF Signal, Kill, ProcessStep, Fork, Exec, Exit, Close, Waitpid, Unlink, Getline,
     OpenQueue, Send, Remove
  <2> QED
    BY <1>3, <1>4, <2>1
<1>9. CASE SocketStep(p)
  BY <1>3, <1>9 DEF SocketStep, Bind, Listen, Connect, Accept, CloseAll
<1>5. CASE Fetch(p) /\ UNCHANGED content
  <2>1. Queued(p)
    BY <1>5 DEF Fetch, Calls, Call, WellCalled
  <2>2. PICK m : got' = [got EXCEPT ![p] = m]
    BY <1>5 DEF Fetch
  <2>3. \A y \in Procs : ~Queued(y) => got'[y] = got[y]
    BY <1>0, <2>1, <2>2
  <2> QED
    BY <1>0, <1>2, <1>5, <2>3 DEF Clean, Procs
<1>6. CASE MakePipe(p)
  BY <1>3, <1>6 DEF MakePipe
<1>7. CASE Write(p)
  <2> DEFINE n == Call(p).pipe
             m == Call(p).message
  <2>1. UNCHANGED got /\ m \in Message
    BY <1>7 DEF Write, WellCalled, Calls, Call
  <2>2. CASE UNCHANGED content
    BY <1>3, <2>1, <2>2
  <2>3. CASE Len(content[n]) < Capacity /\ content' = [content EXCEPT ![n] = Append(@, m)]
    <3> HIDE DEF m, n
    <3>1. ASSUME NEW k \in Pipe
          PROVE  Elements(content'[k]) \subseteq Message /\ Len(content'[k]) <= Capacity
      <4>1. CASE k = n
        <5>1. content'[k] = Append(content[n], m) /\ IsSeq(content[n])
          BY <1>0, <2>3, <4>1
        <5>2. /\ Elements(Append(content[n], m)) \subseteq Elements(content[n]) \cup {m}
              /\ Len(content[n]) \in Nat /\ Len(Append(content[n], m)) = Len(content[n]) + 1
          BY <5>1, Appended
        <5>3. Elements(content[n]) \subseteq Message
          BY <1>0, <4>1
        <5>4. Len(content[n]) + 1 <= Capacity
          BY <1>0, <2>3, <5>2
        <5> QED
          BY <2>1, <5>1, <5>2, <5>3, <5>4
      <4>2. CASE k # n
        BY <1>0, <2>3, <4>2
      <4> QED
        BY <4>1, <4>2
    <3> QED
      BY <1>0, <1>2, <2>1, <3>1 DEF Clean, Procs
  <2> QED
    BY <1>7, <2>2, <2>3 DEF Write
<1>8. CASE Read(p) \/ Filter(p)
  <2> DEFINE n == Call(p).pipe
  <2>1. CASE UNCHANGED <<got, content>>
    BY <1>3, <2>1, SMTT(30)
  <2>4. n \in Pipe
    BY <1>8 DEF Read, Filter, Calls, Call, WellCalled
  <2>2. ASSUME NEW a, NEW b, IsSeq(a), Elements(a) \subseteq Elements(content[n]),
               Elements(b) \subseteq Elements(content[n]), Len(b) <= Capacity,
               got' = [got EXCEPT ![p] = @ \o a], content' = [content EXCEPT ![n] = b]
        PROVE  Clean'
    <3> HIDE DEF n
    <3>1. \A k \in Pipe : Elements(content'[k]) \subseteq Message /\ Len(content'[k]) <= Capacity
      BY <1>0, <2>2, <2>4
    <3>2. ASSUME NEW y \in Procs, ~Queued(y) PROVE Elements(got'[y]) \subseteq Message
      <4>1. CASE y = p
        <5>1. got'[y] = got[p] \o a /\ IsSeq(got[p]) /\ IsSeq(a)
          BY <1>0, <2>2, <4>1
        <5>2. Elements(got[p] \o a) \subseteq Elements(got[p]) \cup Elements(a)
          BY <5>1, ConcatIsSeq
        <5>3. Elements(got[p]) \subseteq Message /\ Elements(a) \subseteq Message
          BY <1>0, <2>2, <2>4, <3>2, <4>1
        <5> QED
          BY <5>1, <5>2, <5>3
      <4>2. CASE y # p
        BY <1>0, <2>2, <3>2, <4>2
      <4> QED
        BY <4>1, <4>2
    <3> QED
      BY <1>2, <3>1, <3>2 DEF Clean, Procs
  <2>5. IsSeq(content[n]) /\ Len(content[n]) <= Capacity
    BY <1>0, <2>4
  <2>3. CASE got' = [got EXCEPT ![p] = @ \o content[n]] /\ content' = [content EXCEPT ![n] = <<>>]
    <3> DEFINE b == <<>>
    <3>1. Elements(b) = {} /\ Len(b) = 0
      BY EmptyIsSeq
    <3>2. content' = [content EXCEPT ![n] = b] /\ Len(b) <= Capacity
      BY <1>0, <2>3, <3>1
    <3> HIDE DEF n, b
    <3> QED
      BY <2>2, <2>3, <2>5, <3>1, <3>2
  <2>6. CASE /\ content[n] # <<>>
             /\ got' = [got EXCEPT ![p] = @ \o <<Head(content[n])>>]
             /\ content' = [content EXCEPT ![n] = Tail(@)]
    <3> DEFINE a == <<Head(content[n])>>
               b == Tail(content[n])
    <3>1. IsSeq(a) /\ Elements(a) = {Head(content[n])}
      BY SingleIsSeq
    <3>2. Head(content[n]) \in Elements(content[n]) /\ Elements(b) \subseteq Elements(content[n])
      BY <2>5, <2>6, TailIsSeq
    <3>3. content[n] \in Seq(Elements(content[n]))
      BY <2>5 DEF IsSeq
    <3>4. Len(content[n]) \in Nat /\ Len(b) = Len(content[n]) - 1
      BY <2>6, <3>3, HeadTailProperties, LenProperties
    <3>5. Len(b) <= Capacity
      BY <1>0, <2>5, <3>4
    <3>6. got' = [got EXCEPT ![p] = @ \o a] /\ content' = [content EXCEPT ![n] = b]
      BY <2>6
    <3> HIDE DEF n, a, b
    <3> QED
      BY <2>2, <3>1, <3>2, <3>5, <3>6
  <2>7. CASE Read(p)
    BY <2>1, <2>3, <2>7 DEF Read
  <2>8. CASE Filter(p)
    BY <2>1, <2>6, <2>8 DEF Filter
  <2> QED
    BY <1>8, <2>7, <2>8
<1>10. CASE Signal(p)
  BY <1>4, <1>10 DEF Signal
<1> QED
  BY <1>4, <1>5, <1>6, <1>7, <1>8, <1>9, <1>10 DEF Step, PipeStep, QueueStep

------------------------------------------------------------
\* What stays of a script of basic calls
LEMMA BasicRest ==
  ASSUME NEW s, IsSeq(s), s # <<>>, BasicScript(s), NEW t, IsSeq(t), BasicCalls(t)
  PROVE  /\ BasicScript(Tail(s)) /\ BasicScript(t)
         /\ BasicScript(t \o s) /\ BasicScript(t \o Tail(s))
<1>1. IsSeq(Tail(s)) /\ Elements(Tail(s)) \subseteq Elements(s)
  BY TailIsSeq
<1>2. /\ Elements(t \o s) \subseteq Elements(t) \cup Elements(s)
      /\ Elements(t \o Tail(s)) \subseteq Elements(t) \cup Elements(Tail(s))
  BY <1>1, ConcatIsSeq
<1>3. \A c \in Elements(t) : MainBasic(c)
  BY DEF BasicCalls, MainBasic, ChildBasic
<1> QED
  BY <1>1, <1>2, <1>3 DEF BasicScript

\* A process apart, when it runs
LEMMA ApartCalls ==
  ASSUME IInv, ApartOK, NEW p \in Procs, Apart(p), state[p] = "running"
  PROVE  /\ p \in Strangers /\ Foreign(p) /\ BasicScript(todo[p]) /\ MainBasic(Call(p))
         /\ Call(p).call \notin {"open", "send", "fetch", "rmid", "unlink"}
         /\ IsSeq(todo[p]) /\ todo[p] # <<>>
         /\ WellCalled(p)
<1>1. p \in Strangers
  BY DEF Strangers, Apart, Socketed, Serving, Asking, SocketPrograms
<1>2. Foreign(p)
  BY <1>1, StrangerIsForeign DEF IInv
<1>3. IsSeq(todo[p]) /\ todo[p] # <<>> /\ ForeignCall(Call(p))
  BY <1>2, RestIsScript DEF Foreign, ForeignScript, EndsIn, Call
<1>4. BasicScript(todo[p]) /\ Call(p) \in Elements(todo[p])
  BY <1>3, TailIsSeq DEF ApartOK, Call
<1>5. MainBasic(Call(p))
  BY <1>4 DEF BasicScript
<1>6. Call(p).call \notin {"open", "send", "fetch", "rmid", "unlink"}
  BY <1>5 DEF MainBasic, ChildBasic, Basic
<1>7. Call(p).call \in {"read", "filter"} => Call(p).pipe \in Pipe
  BY <1>3, OtherPipes DEF ForeignCall, ChildCall, Plain
<1>8. /\ Call(p).call = "exit" => Call(p).code \in Codes
      /\ Call(p).call = "exec" => Call(p).failed \in Codes
      /\ Call(p).call = "write" => Call(p).message \in Message
  BY <1>5 DEF MainBasic, ChildBasic, Basic
<1> QED
  BY <1>1, <1>2, <1>3, <1>4, <1>5, <1>6, <1>7, <1>8 DEF WellCalled

\* It leaves queues and names alone,
LEMMA ApartElsewhere ==
  ASSUME IInv, ApartOK, NEW p \in Procs, Apart(p), Step(p) \/ Signal(p)
  PROVE  UNCHANGED <<linked, queues, messages, removed>>
<1>1. Foreign(p) /\ Call(p).call \notin {"open", "send", "fetch", "rmid", "unlink"}
  BY ApartCalls, StrangerRuns
<1>2. ~Unlink(p) /\ ~QueueStep(p) /\ ~SocketStep(p)
  BY <1>1, NoSocketStep DEF Unlink, QueueStep, OpenQueue, Send, Fetch, Remove, Calls, Call
<1> QED
  BY <1>2 DEF Step, Signal, Kill, ProcessStep, Fork, Exec, Exit, Close, Waitpid, Getline,
     PipeStep, MakePipe, Write, Read, Filter

\* and what it is to do afterwards, and its children, are basic calls.
LEMMA ApartContinues ==
  ASSUME IInv, ApartOK, NEW p \in Procs, Apart(p), Step(p) \/ Signal(p),
         NEW y \in Procs, state'[y] = "running", y[1] = p[1],
         NEW s, Continue(p, s), UNCHANGED state, BasicScript(s)
  PROVE  BasicScript(todo'[y])
<1>1. DOMAIN todo = Procs
  BY DEF IInv, Shape, Domains
<1>2. CASE y = p
  BY <1>1, <1>2 DEF Continue
<1>3. CASE y # p
  BY <1>1, <1>3 DEF Continue, ApartOK, Apart, Queued, Socketed, Runs
<1> QED
  BY <1>2, <1>3

\* What a filter writes is basic, since it read it from a clean pipe.
LEMMA FilterIsBasic ==
  ASSUME IInv, Clean, ApartOK, NEW p \in Procs, Apart(p), Filter(p)
  PROVE  UNCHANGED state /\ \E s : Continue(p, s) /\ BasicScript(s)
<1> DEFINE f == Call(p)
           n == f.pipe
           line == <<Head(content[n])>>
           a == IF f.atEnd THEN Writes(f.out, got[p]) ELSE <<>>
           b == IF f.atEnd THEN <<>> ELSE Writes(f.out, line)
<1>0. f.call = "filter" /\ state[p] = "running"
  BY DEF Filter, Calls, Call
<1>1. /\ Foreign(p) /\ BasicScript(todo[p]) /\ IsSeq(todo[p]) /\ todo[p] # <<>> /\ n \in Pipe
  BY <1>0, ApartCalls DEF WellCalled
<1>2. f.out \subseteq ExercisePipes
  BY <1>0, <1>1, RestIsScript DEF Foreign, Call, ForeignCall, ChildCall, Plain
<1>3. IsSeq(got[p]) /\ Elements(got[p]) \subseteq Message
      /\ IsSeq(content[n]) /\ Elements(content[n]) \subseteq Message
  BY <1>1 DEF IInv, Shape, Clean, Apart
<1>4. BasicCalls(<<>>) /\ IsSeq(<<>>)
  BY BasicFallbacks, EmptyIsSeq
<1>5. IsSeq(a) /\ BasicCalls(a)
  BY <1>2, <1>3, <1>4, WritesPlain, WritesBasic DEF PlainCalls
<1>6. CASE Continue(p, a \o Tail(todo[p]))
  <2> HIDE DEF a
  <2> QED
    BY <1>1, <1>5, <1>6, BasicRest DEF Filter
<1>7. CASE content[n] # <<>> /\ Continue(p, b \o todo[p])
  <2>1. IsSeq(line) /\ Elements(line) = {Head(content[n])}
    BY SingleIsSeq
  <2>2. Elements(line) \subseteq Message
    BY <1>3, <1>7, <2>1, TailIsSeq
  <2> HIDE DEF line
  <2>3. IsSeq(b) /\ BasicCalls(b)
    BY <1>2, <1>4, <2>1, <2>2, WritesPlain, WritesBasic DEF PlainCalls
  <2> HIDE DEF b
  <2> QED
    BY <1>1, <1>7, <2>3, BasicRest DEF Filter
<1> QED
  BY <1>6, <1>7 DEF Filter

\* Whatever a process that uses neither does, its program has basic calls left.
LEMMA ApartStep ==
  ASSUME IInv, Clean, ApartOK, NEW p \in Procs, Apart(p), Step(p) \/ Signal(p),
         NEW y \in Procs, state'[y] = "running", y[1] = p[1]
  PROVE  BasicScript(todo'[y])
<1>0. state[p] = "running"
  BY StrangerRuns
<1>1. /\ p \in Procs /\ DOMAIN todo = Procs /\ DOMAIN state = Procs
      /\ IsSeq(todo[p]) /\ todo[p] # <<>> /\ BasicScript(todo[p]) /\ Foreign(p)
      /\ MainBasic(Call(p)) /\ ForeignCall(Call(p))
  BY <1>0, ApartCalls, RestIsScript DEF IInv, Shape, Domains, Foreign, Call
<1>2. IsSeq(<<>>) /\ BasicCalls(<<>>)
  BY EmptyIsSeq, BasicFallbacks
<1>3. BasicScript(Tail(todo[p]))
  BY <1>1, <1>2, BasicRest
<1>4. state[y] = "running" => BasicScript(todo[y])
  BY DEF ApartOK, Apart, Queued, Socketed, Runs
<1>5. CASE GoesOn(p) /\ Call(p).call # "filter"
  <2>0. UNCHANGED state
    BY <1>5 DEF GoesOn
  <2>1. CASE Continue(p, Tail(todo[p]))
    BY <1>3, <2>0, <2>1, ApartContinues
  <2>2. CASE MayFail(Call(p)) /\ PlainCalls(Call(p).failed) /\ Continue(p, Call(p).failed)
    <3>1. BasicCalls(Call(p).failed)
      BY <1>1, <2>2, ApartCalls DEF MayFail, MainBasic, ChildBasic, Basic, Foreign
    <3> QED
      BY <1>1, <2>0, <2>2, <3>1, BasicRest, ApartContinues DEF PlainCalls
  <2>3. CASE /\ Call(p).call = "read" /\ PlainCalls(Call(p).then)
             /\ Continue(p, Call(p).then \o Tail(todo[p]))
    <3>1. BasicCalls(Call(p).then)
      BY <1>1, <2>3 DEF MainBasic, ChildBasic, Basic
    <3> QED
      BY <1>1, <2>0, <2>3, <3>1, BasicRest, ApartContinues DEF PlainCalls
  <2>4. CASE Getline(p)
    <3>1. PICK lines, line : \/ UNCHANGED todo \/ Continue(p, <<getline(lines)>>) \/ Continue(p, Return)
                             \/ Continue(p, Command(line) \o <<getline(lines)>>)
      BY <2>4 DEF Getline
    <3> QED
      BY <1>4, <2>0, <3>1, CommandIsBasic, ApartContinues
  <2> QED
    BY <1>5, <2>1, <2>2, <2>3, <2>4 DEF GoesOn
<1>6. CASE Filter(p)
  BY <1>6, FilterIsBasic, ApartContinues
<1>7. CASE Forks(p)
  <2>1. \A y2 \in Elements(Call(p).calls) : MainBasic(y2)
    BY <1>1, <1>7 DEF Forks, MainBasic, ChildBasic, Basic, ChildBasicScript
  <2>2. PICK c : /\ todo' = [todo EXCEPT ![p] = Tail(@), ![c] = Call(p).calls]
                 /\ state' = [state EXCEPT ![c] = "running"]
    BY <1>7 DEF Forks
  <2>4. todo'[y] = Call(p).calls \/ (y = p /\ todo'[y] = Tail(todo[p]))
        \/ (todo'[y] = todo[y] /\ state'[y] = state[y])
    BY <1>1, <2>2
  <2> QED
    BY <1>3, <1>4, <2>1, <2>4 DEF BasicScript
<1>8. CASE Stops(p)
  <2>1. PICK how : Ends(p, how)
    BY <1>8 DEF Stops
  <2>2. todo' = [todo EXCEPT ![p] = <<>>] /\ y # p /\ state[y] = "running"
    BY <1>1, <2>1 DEF Ends
  <2> QED
    BY <1>1, <1>4, <2>2
<1>9. CASE Waitpid(p)
  <2>1. state[y] = "running"
    BY <1>1, <1>9 DEF Waitpid
  <2>2. todo' = [todo EXCEPT ![p] = Tail(todo[p])]
    BY <1>9 DEF Waitpid, Proceed, Continue
  <2> QED
    BY <1>1, <1>3, <1>4, <2>1, <2>2
<1>10. CASE GoesOn(p) /\ Call(p).call = "filter"
  <2>1. ~Signal(p)
    BY <1>0, <1>1, <1>10, SMTT(30) DEF GoesOn, Signal, Kill, Ends
  <2>2. Filter(p)
    BY <1>10, <2>1, NoSocketStep, <1>1 DEF Step, ProcessStep, PipeStep, QueueStep, Fork, Exec, Exit,
      Close, Waitpid, Unlink, Getline, MakePipe, Write, Read, OpenQueue, Send, Fetch, Remove, Calls, Call
  <2> QED
    BY <1>6, <2>2
<1> QED
  BY <1>1, <1>5, <1>7, <1>8, <1>9, <1>10, StrangerDoes

------------------------------------------------------------
\* The program with a POSIX queue
LEMMA PosixScript ==
  ASSUME NEW i, NEW name, name = "Posix"
  PROVE  QueueCalls(name, i)
<1> DEFINE a == open(MQ_NAME, ToFail)
           b == fork(1, KidScript(name, i), <<>>)
           c == fetch(TRUE)
           d == closeQueue
           e == unlink(MQ_NAME)
           f == exit(0)
           x == send(i, MaxMsg)
           y == closeQueue
           z == exit(0)
<1>1. /\ Script(i, name) = <<a, b, c, d, e, f>> /\ ToFork(name, i) = <<b, c, d, e, f>>
      /\ ToFetch(name) = <<c, d, e, f>> /\ ToLeave(name) = <<d, e, f>>
      /\ KidScript(name, i) = <<x, y, z>> /\ ToCloseQueue = <<y, z>>
  BY DEF Script, Posix, ToFork, ToFetch, ToLeave, KidScript, ToCloseQueue, ToExit, ToFail
<1>2. /\ a.call = "open" /\ a.name = QueueName(name) /\ a.failed = ToFail
      /\ b.call = "fork" /\ b.child = 1 /\ b.calls = KidScript(name, i) /\ b.failed = <<>>
      /\ c.call = "fetch" /\ (c.waits <=> name # "HelloSysV")
      /\ x.call = "send" /\ x.message = i /\ x.room \in Nat
  BY QueueAssumption DEF open, fork, fetch, send, QueueName
<1> HIDE DEF a, b, c, d, e, f, x, y, z
<1>3. <<a, b, c, d, e, f>> # <<>> /\ Head(<<a, b, c, d, e, f>>) = a /\ Tail(<<a, b, c, d, e, f>>) = <<b, c, d, e, f>>
  OBVIOUS
<1>4. <<b, c, d, e, f>> # <<>> /\ Head(<<b, c, d, e, f>>) = b /\ Tail(<<b, c, d, e, f>>) = <<c, d, e, f>>
  OBVIOUS
<1>5. <<c, d, e, f>> # <<>> /\ Head(<<c, d, e, f>>) = c /\ Tail(<<c, d, e, f>>) = <<d, e, f>>
  OBVIOUS
<1>6. <<x, y, z>> # <<>> /\ Head(<<x, y, z>>) = x /\ Tail(<<x, y, z>>) = <<y, z>>
  OBVIOUS
<1> QED
  BY <1>1, <1>2, <1>3, <1>4, <1>5, <1>6 DEF QueueCalls

\* The program with a System V queue
LEMMA SysVScript ==
  ASSUME NEW i, NEW name, name = "SysV"
  PROVE  QueueCalls(name, i)
<1> DEFINE a == open(KEY, <<>>)
           b == fork(1, KidScript(name, i), <<>>)
           c == fetch(TRUE)
           d == rmid(KEY)
           e == exit(0)
           x == send(i, MaxKeyed)
           y == exit(0)
<1>1. /\ Script(i, name) = <<a, b, c, d, e>> /\ ToFork(name, i) = <<b, c, d, e>>
      /\ ToFetch(name) = <<c, d, e>> /\ ToLeave(name) = <<d, e>>
      /\ KidScript(name, i) = <<x, y>> /\ ToExit = <<y>>
  BY DEF Script, SysV, ToFork, ToFetch, ToLeave, KidScript, ToCloseQueue, ToExit, ToFail
<1>2. /\ a.call = "open" /\ a.name = QueueName(name) /\ a.failed = <<>>
      /\ b.call = "fork" /\ b.child = 1 /\ b.calls = KidScript(name, i) /\ b.failed = <<>>
      /\ c.call = "fetch" /\ (c.waits <=> name # "HelloSysV")
      /\ x.call = "send" /\ x.message = i /\ x.room \in Nat
  BY QueueAssumption DEF open, fork, fetch, send, QueueName
<1> HIDE DEF a, b, c, d, e, x, y
<1>3. <<a, b, c, d, e>> # <<>> /\ Head(<<a, b, c, d, e>>) = a /\ Tail(<<a, b, c, d, e>>) = <<b, c, d, e>>
  OBVIOUS
<1>4. <<b, c, d, e>> # <<>> /\ Head(<<b, c, d, e>>) = b /\ Tail(<<b, c, d, e>>) = <<c, d, e>>
  OBVIOUS
<1>5. <<c, d, e>> # <<>> /\ Head(<<c, d, e>>) = c /\ Tail(<<c, d, e>>) = <<d, e>>
  OBVIOUS
<1>6. <<x, y>> # <<>> /\ Head(<<x, y>>) = x /\ Tail(<<x, y>>) = <<y>>
  OBVIOUS
<1> QED
  BY <1>1, <1>2, <1>3, <1>4, <1>5, <1>6 DEF QueueCalls

\* The other one
LEMMA HelloSysVScript ==
  ASSUME NEW i, NEW name, name = "HelloSysV"
  PROVE  QueueCalls(name, i)
<1> DEFINE a == open(KEY, <<>>)
           b == fork(1, KidScript(name, i), ToFail)
           c == fetch(FALSE)
           d == waitpid(1, FALSE)
           e == rmid(KEY)
           f == exit(0)
           x == send(i, MaxKeyed)
           y == exit(1)
<1>1. /\ Script(i, name) = <<a, b, c, d, e, f>> /\ ToFork(name, i) = <<b, c, d, e, f>>
      /\ ToFetch(name) = <<c, d, e, f>> /\ ToLeave(name) = <<d, e, f>>
      /\ KidScript(name, i) = <<x, y>> /\ ToFail = <<y>>
  BY DEF Script, HelloSysV, ToFork, ToFetch, ToLeave, KidScript, ToCloseQueue, ToExit, ToFail
<1>2. /\ a.call = "open" /\ a.name = QueueName(name) /\ a.failed = <<>>
      /\ b.call = "fork" /\ b.child = 1 /\ b.calls = KidScript(name, i) /\ b.failed = ToFail
      /\ c.call = "fetch" /\ (c.waits <=> name # "HelloSysV")
      /\ x.call = "send" /\ x.message = i /\ x.room \in Nat
  BY QueueAssumption DEF open, fork, fetch, send, QueueName
<1> HIDE DEF a, b, c, d, e, f, x, y
<1>3. <<a, b, c, d, e, f>> # <<>> /\ Head(<<a, b, c, d, e, f>>) = a /\ Tail(<<a, b, c, d, e, f>>) = <<b, c, d, e, f>>
  OBVIOUS
<1>4. <<b, c, d, e, f>> # <<>> /\ Head(<<b, c, d, e, f>>) = b /\ Tail(<<b, c, d, e, f>>) = <<c, d, e, f>>
  OBVIOUS
<1>5. <<c, d, e, f>> # <<>> /\ Head(<<c, d, e, f>>) = c /\ Tail(<<c, d, e, f>>) = <<d, e, f>>
  OBVIOUS
<1>6. <<x, y>> # <<>> /\ Head(<<x, y>>) = x /\ Tail(<<x, y>>) = <<y>>
  OBVIOUS
<1> QED
  BY <1>1, <1>2, <1>3, <1>4, <1>5, <1>6 DEF QueueCalls

\* ... for whichever of them
LEMMA QueueScripts ==
  ASSUME NEW name \in QueuePrograms, NEW i
  PROVE  /\ LET s == Script(i, name) IN
            /\ s # <<>> /\ Head(s).call = "open" /\ Head(s).name = QueueName(name)
            /\ Head(s).failed = IF name = "Posix" THEN ToFail ELSE <<>>
            /\ Tail(s) = ToFork(name, i)
         /\ LET s == ToFork(name, i) IN
            /\ s # <<>> /\ Head(s).call = "fork" /\ Head(s).child = 1
            /\ Head(s).calls = KidScript(name, i)
            /\ Head(s).failed = IF name = "HelloSysV" THEN ToFail ELSE <<>>
            /\ Tail(s) = ToFetch(name)
         /\ LET s == ToFetch(name) IN
            /\ s # <<>> /\ Head(s).call = "fetch" /\ (Head(s).waits <=> name # "HelloSysV")
            /\ Tail(s) = ToLeave(name)
         /\ LET s == KidScript(name, i) IN
            /\ s # <<>> /\ Head(s).call = "send" /\ Head(s).message = i /\ Head(s).room \in Nat
            /\ Tail(s) = IF name = "Posix" THEN ToCloseQueue
                         ELSE IF name = "SysV" THEN ToExit ELSE ToFail
<1>1. name = "Posix" \/ name = "SysV" \/ name = "HelloSysV"
  BY DEF QueuePrograms
<1>2. QueueCalls(name, i)
  BY <1>1, PosixScript, SysVScript, HelloSysVScript
<1> QED
  BY <1>2 DEF QueueCalls

\* ... and what is called at the places of leaving
LEMMA LeavingScripts ==
  /\ LET s == ToLeave("Posix") IN
     s # <<>> /\ Head(s).call = "close" /\ Head(s).set = 1 .. MaxQueues /\ Tail(s) = ToUnlinkQueue
  /\ ToLeave("SysV") = ToRemove
  /\ LET s == ToLeave("HelloSysV") IN s # <<>> /\ Head(s).call = "waitpid" /\ Tail(s) = ToRemove
  /\ LET s == ToUnlinkQueue IN
     s # <<>> /\ Head(s).call = "unlink" /\ Head(s).name = MQ_NAME /\ Tail(s) = ToExit
  /\ LET s == ToRemove IN
     s # <<>> /\ Head(s).call = "rmid" /\ Head(s).name = KEY /\ Tail(s) = ToExit
  /\ LET s == ToCloseQueue IN s # <<>> /\ Head(s).call = "close" /\ Tail(s) = ToExit
  /\ ToExit # <<>> /\ Head(ToExit).call = "exit" /\ Head(ToExit).code = 0
  /\ ToFail # <<>> /\ Head(ToFail).call = "exit" /\ Head(ToFail).code = 1
<1>1. LET s == ToLeave("Posix") IN
     s # <<>> /\ Head(s).call = "close" /\ Head(s).set = 1 .. MaxQueues /\ Tail(s) = ToUnlinkQueue
  BY DEF ToLeave, ToUnlinkQueue, closeQueue
<1>2. ToLeave("SysV") = ToRemove
  BY DEF ToLeave, ToRemove
<1>3. LET s == ToLeave("HelloSysV") IN s # <<>> /\ Head(s).call = "waitpid" /\ Tail(s) = ToRemove
  BY DEF ToLeave, ToRemove, waitpid
<1>4. LET s == ToUnlinkQueue IN
     s # <<>> /\ Head(s).call = "unlink" /\ Head(s).name = MQ_NAME /\ Tail(s) = ToExit
  BY DEF ToUnlinkQueue, unlink, ToExit
<1>5. LET s == ToRemove IN
     s # <<>> /\ Head(s).call = "rmid" /\ Head(s).name = KEY /\ Tail(s) = ToExit
  BY DEF ToRemove, rmid, ToExit
<1>6. LET s == ToCloseQueue IN s # <<>> /\ Head(s).call = "close" /\ Tail(s) = ToExit
  BY DEF ToCloseQueue, closeQueue, ToExit
<1>7. /\ ToExit # <<>> /\ Head(ToExit).call = "exit" /\ Head(ToExit).code = 0
      /\ ToFail # <<>> /\ Head(ToFail).call = "exit" /\ Head(ToFail).code = 1
  BY DEF ToExit, ToFail, exit
<1> QED
  BY <1>1, <1>2, <1>3, <1>4, <1>5, <1>6, <1>7

\* The action that a next call of these stands for
LEMMA QueueStepIs ==
  ASSUME NEW p, Step(p)
  PROVE  /\ UNCHANGED program /\ state[p] = "running"
         /\ Call(p).call = "open" => OpenQueue(p)
         /\ Call(p).call = "fork" => Fork(p) /\ UNCHANGED <<queues, messages, removed>>
         /\ Call(p).call = "fetch" => Fetch(p)
         /\ Call(p).call = "send" => Send(p)
         /\ Call(p).call = "rmid" => Remove(p)
         /\ Call(p).call = "waitpid" => Waitpid(p) /\ UNCHANGED <<queues, messages, removed>>
         /\ Call(p).call = "unlink" => Unlink(p) /\ UNCHANGED <<queues, messages, removed>>
         /\ Call(p).call = "exit" => Exit(p) /\ UNCHANGED <<queues, messages, removed>>
         /\ Call(p).call = "close" => Close(p) /\ UNCHANGED <<queues, messages, removed>>
<1> USE DEF Calls, Call
<1>1. CASE (ProcessStep(p) \/ Getline(p)) /\ UNCHANGED <<queues, messages, removed>>
  BY <1>1 DEF Step, ProcessStep, Getline, Fork, Exec, Exit, Close, Waitpid, Unlink
<1>2. CASE PipeStep(p)
  BY <1>2 DEF Step, PipeStep, MakePipe, Write, Read, Filter
<1>3. CASE QueueStep(p)
  BY <1>3, SMTT(30) DEF Step, QueueStep, OpenQueue, Send, Fetch, Remove
<1>4. CASE SocketStep(p)
  BY <1>4 DEF Step, SocketStep, Bind, Listen, Connect, Accept, CloseAll
<1> QED
  BY <1>1, <1>2, <1>3, <1>4, SMTT(30) DEF Step

------------------------------------------------------------
\* A process that ends, and one that goes on, leave the others alone.
LEMMA EndsMoves ==
  ASSUME Domains, NEW p \in Procs, NEW how, Ends(p, how), UNCHANGED <<got, program>>
  PROVE  /\ Moves(p) /\ todo'[p] = <<>> /\ fds'[p] = {}
         /\ p = Main(p) => state'[p] = "gone"
         /\ state'[p] \notin {"running", "none"}
<1>1. \A y \in Procs \ {p} : todo'[y] = todo[y] /\ fds'[y] = fds[y] /\ got'[y] = got[y]
  BY DEF Ends, Domains
<1>2. \A y \in Procs \ {p} : state'[y] = state[y] \/ (state[y] = "zombie" /\ state'[y] \in {"gone", "abandoned"})
  BY DEF Ends
<1>3. todo'[p] = <<>> /\ fds'[p] = {}
  BY DEF Ends, Domains
<1>4. (p = Main(p) => state'[p] = "gone") /\ state'[p] \notin {"running", "none"}
  BY DEF Ends
<1> QED
  BY <1>1, <1>2, <1>3, <1>4 DEF Moves

LEMMA ContinueMoves ==
  ASSUME Domains, NEW p \in Procs, NEW s, Continue(p, s), UNCHANGED <<state, program>>,
         \A y \in Procs \ {p} : fds'[y] = fds[y] /\ got'[y] = got[y]
  PROVE  Moves(p) /\ todo'[p] = s /\ state'[p] = state[p]
  BY DEF Continue, Moves, Domains

\* The processes that use queues, main or child, stay what they are.
LEMMA SameQueued ==
  ASSUME program' = program
  PROVE  /\ QueueMains' = QueueMains
         /\ \A y : (Queued(y)' <=> Queued(y)) /\ (Keyed(y)' <=> Keyed(y))
         /\ \A y, name : Runs(y, name)' <=> Runs(y, name)
<1>1. \A y, name : Runs(y, name)' <=> Runs(y, name)
  BY DEF Runs
<1>2. \A y : (Queued(y)' <=> Queued(y)) /\ (Keyed(y)' <=> Keyed(y))
  BY <1>1 DEF Queued, Keyed
<1>3. QueueMains' = QueueMains
  BY <1>2 DEF QueueMains, MainProcs, Main, Procs
<1> QED
  BY <1>1, <1>2, <1>3

\* What a main process of such a program is, and a child of it
LEMMA QueueMain ==
  ASSUME NEW m \in QueueMains
  PROVE  /\ m \in Procs /\ m = Main(m) /\ Queued(m) /\ program[m[1]] \in QueuePrograms
         /\ \A name \in QueuePrograms : Runs(m, name) <=> program[m[1]] = name
         /\ Keyed(m) <=> program[m[1]] # "Posix"
  BY DEF QueueMains, MainProcs, Queued, Keyed, QueuePrograms, Runs

\* The main process of a child
LEMMA KidsMain ==
  ASSUME NEW k \in Procs, Queued(k), k # Main(k)
  PROVE  /\ Main(k) \in QueueMains /\ Main(k)[1] = k[1] /\ k \in Children(Main(k))
         /\ program[k[1]] \in QueuePrograms
<1>1. 0 \in 0 .. MaxChildren
  BY ProcessAssumption
<1>2. Main(k) \in Procs /\ Main(k)[1] = k[1] /\ Main(Main(k)) = Main(k)
  BY <1>1 DEF Procs, Main
<1> QED
  BY <1>2 DEF QueueMains, MainProcs, Queued, Runs, Children, QueuePrograms

------------------------------------------------------------
\* What is called at each place
LEMMA HeadCalls ==
  ASSUME NEW name \in QueuePrograms, NEW i
  PROVE  /\ Head(Script(i, name)).call = "open" /\ Head(ToFork(name, i)).call = "fork"
         /\ Head(ToFetch(name)).call = "fetch" /\ Head(KidScript(name, i)).call = "send"
         /\ Head(ToUnlinkQueue).call = "unlink" /\ Head(ToRemove).call = "rmid"
         /\ Head(ToCloseQueue).call = "close"
         /\ Head(ToExit).call = "exit" /\ Head(ToFail).call = "exit"
<1>1. /\ Head(Script(i, name)).call = "open" /\ Head(ToFork(name, i)).call = "fork"
      /\ Head(ToFetch(name)).call = "fetch" /\ Head(KidScript(name, i)).call = "send"
  BY QueueScripts
<1> QED
  BY <1>1, LeavingScripts

\* The place of a main process follows from its next call.
LEMMA MainPlaces ==
  ASSUME NEW m \in QueueMains, QueueMainOK(m), state[m] = "running"
  PROVE  LET name == program[m[1]]
             called == Call(m).call IN
         /\ called \in {"open", "fork", "fetch", "close", "waitpid", "unlink", "rmid", "exit"}
         /\ called = "open" <=> todo[m] = Script(m[1], name)
         /\ called = "fork" <=> todo[m] = ToFork(name, m[1])
         /\ called = "fetch" <=> todo[m] = ToFetch(name)
         /\ called = "close" => name = "Posix" /\ todo[m] = ToLeave(name)
         /\ called = "waitpid" => name = "HelloSysV" /\ todo[m] = ToLeave(name)
         /\ called = "unlink" => name = "Posix" /\ todo[m] = ToUnlinkQueue
         /\ called = "rmid" => name # "Posix" /\ todo[m] = ToRemove
         /\ called = "exit" => todo[m] \in {ToExit, ToFail}
<1> DEFINE name == program[m[1]]
           i == m[1]
<1>1. name \in QueuePrograms
  BY QueueMain
<1>2. todo[m] \in {Script(i, name), ToFork(name, i), ToFetch(name), ToExit, ToFail} \cup Received(name)
      /\ (todo[m] = ToUnlinkQueue => name = "Posix")
  <2>1. \/ todo[m] \in {Script(i, name), ToFork(name, i), ToFetch(name), ToExit, ToFail}
        \/ todo[m] \in Received(name) \ {ToUnlinkQueue}
        \/ todo[m] = ToUnlinkQueue /\ name = "Posix"
    BY DEF QueueMainOK
  <2>2. ToUnlinkQueue \in Received("Posix")
    BY DEF Received
  <2> HIDE DEF i, name
  <2>3. /\ Script(i, name) # ToUnlinkQueue /\ ToFork(name, i) # ToUnlinkQueue
        /\ ToFetch(name) # ToUnlinkQueue
    BY <1>1, HeadCalls
  <2>4. ToExit # ToUnlinkQueue /\ ToFail # ToUnlinkQueue
    BY <1>1, HeadCalls
  <2> QED
    BY <2>1, <2>2, <2>3, <2>4
<1> HIDE DEF i, name
<1>3. CASE todo[m] = Script(i, name)
  <2>1. Call(m).call = "open"
    BY <1>1, <1>3, QueueScripts DEF Call
  <2> QED
    BY <1>1, <1>3, <2>1, QueueScripts DEF i, name
<1>4. CASE todo[m] = ToFork(name, i)
  <2>1. Call(m).call = "fork"
    BY <1>1, <1>4, QueueScripts DEF Call
  <2> QED
    BY <1>1, <1>4, <2>1, QueueScripts DEF i, name
<1>5. CASE todo[m] = ToFetch(name)
  <2>1. Call(m).call = "fetch"
    BY <1>1, <1>5, QueueScripts DEF Call
  <2> QED
    BY <1>1, <1>5, <2>1, QueueScripts DEF i, name
<1>6. /\ Head(Script(i, name)).call = "open" /\ Head(ToFork(name, i)).call = "fork"
      /\ Head(ToFetch(name)).call = "fetch"
  BY <1>1, QueueScripts
<1>7. CASE todo[m] \in {ToExit, ToFail}
  <2>1. Call(m).call = "exit"
    BY <1>7, LeavingScripts DEF Call
  <2> QED
    BY <1>6, <1>7, <2>1 DEF i, name, Call
<1>8. CASE todo[m] \in Received(name)
  <2>1. CASE name = "Posix"
    <3>1. todo[m] = ToLeave("Posix") \/ todo[m] = ToUnlinkQueue
      BY <1>8, <2>1 DEF Received
    <3>2. \/ Call(m).call = "close" /\ todo[m] = ToLeave("Posix")
          \/ Call(m).call = "unlink" /\ todo[m] = ToUnlinkQueue
      BY <3>1, LeavingScripts DEF Call
    <3> QED
      BY <1>6, <2>1, <3>2 DEF i, name, Call
  <2>2. CASE name # "Posix" /\ todo[m] = ToRemove
    <3>1. Call(m).call = "rmid"
      BY <2>2, LeavingScripts DEF Call
    <3> QED
      BY <1>6, <2>2, <3>1 DEF i, name, Call
  <2>3. CASE name # "Posix" /\ todo[m] = ToLeave(name)
    <3>1. CASE name = "SysV"
      BY <2>2, <2>3, <3>1, LeavingScripts
    <3>2. CASE name = "HelloSysV"
      <4>1. Call(m).call = "waitpid"
        BY <2>3, <3>2, LeavingScripts DEF Call
      <4> QED
        BY <1>6, <2>3, <3>2, <4>1 DEF i, name, Call
    <3> QED
      BY <1>1, <2>3, <3>1, <3>2 DEF QueuePrograms
  <2> QED
    BY <1>8, <2>1, <2>2, <2>3 DEF Received
<1> QED
  BY <1>2, <1>3, <1>4, <1>5, <1>7, <1>8

------------------------------------------------------------
\* It opens its queue: the one of that name, or a new one; or that fails.
LEMMA MainOpens ==
  ASSUME NEW m, StepOfMain(m), OpenQueue(m)
  PROVE  LET name == program[m[1]]
             Q == QueueName(name) IN
         /\ todo[m] = Script(m[1], name)
         /\ Moves(m) /\ UNCHANGED <<state, got, messages, removed, kills>>
         /\ \/ /\ todo'[m] = ToFork(name, m[1])
               /\ linked[Q] # Nobody /\ fds'[m] = {linked[Q]}
               /\ UNCHANGED <<linked, queues, failures>>
            \/ /\ todo'[m] = ToFork(name, m[1])
               /\ linked[Q] = Nobody /\ queues < MaxQueues /\ queues' = queues + 1
               /\ linked' = [linked EXCEPT ![Q] = queues'] /\ fds'[m] = {queues'}
               /\ UNCHANGED failures
            \/ /\ todo'[m] = ToFail /\ fds'[m] = fds[m]
               /\ failures' = failures + 1
               /\ UNCHANGED <<linked, queues>>
<1> DEFINE name == program[m[1]]
           Q == QueueName(name)
           i == m[1]
<1>1. name \in QueuePrograms /\ m \in Procs /\ todo[m] = Script(i, name)
  BY QueueMain, MainPlaces DEF OpenQueue, Calls, Call, StepOfMain
<1>2. /\ Call(m).name = Q /\ Tail(todo[m]) = ToFork(name, i)
      /\ Call(m).failed = IF name = "Posix" THEN ToFail ELSE <<>>
  <2> HIDE DEF i, name
  <2> QED
    BY <1>1, QueueScripts DEF Call
<1>3. Moves(m)
  <2>1. PICK s : Continue(m, s)
    BY DEF OpenQueue, Proceed
  <2>2. UNCHANGED <<state, got>> /\ \A y \in Procs \ {m} : fds'[y] = fds[y]
    BY DEF OpenQueue, StepOfMain, Domains
  <2> QED
    BY <1>1, <2>1, <2>2, ContinueMoves DEF StepOfMain
<1>4. UNCHANGED <<state, got, messages, removed, kills>>
  BY DEF OpenQueue
<1>5. DOMAIN todo = Procs /\ DOMAIN fds = Procs
  BY DEF StepOfMain, Domains
<1>6. /\ \A s : Continue(m, s) => todo'[m] = s
      /\ \A S : fds' = [fds EXCEPT ![m] = S] => fds'[m] = S
  BY <1>1, <1>5 DEF Continue
<1> HIDE DEF i, name, Q
<1>7. \/ /\ todo'[m] = ToFork(name, i)
         /\ linked[Q] # Nobody /\ fds'[m] = {linked[Q]}
         /\ UNCHANGED <<linked, queues, failures>>
      \/ /\ todo'[m] = ToFork(name, i)
         /\ linked[Q] = Nobody /\ queues < MaxQueues /\ queues' = queues + 1
         /\ linked' = [linked EXCEPT ![Q] = queues'] /\ fds'[m] = {queues'}
         /\ UNCHANGED failures
      \/ /\ todo'[m] = ToFail /\ fds'[m] = fds[m]
         /\ failures' = failures + 1
         /\ UNCHANGED <<linked, queues>>
  BY <1>2, <1>6 DEF OpenQueue, Proceed, CallFails
<1> QED
  BY <1>1, <1>3, <1>4, <1>7 DEF i, name, Q

\* It forks its child, or that fails.
LEMMA QueueMainForks ==
  ASSUME NEW m, StepOfMain(m), Fork(m)
  PROVE  LET name == program[m[1]] IN
         /\ todo[m] = ToFork(name, m[1]) /\ UNCHANGED <<got, linked, kills>>
         /\ fds'[m] = fds[m] /\ state'[m] = "running"
         /\ \/ /\ todo'[m] = ToFetch(name) /\ UNCHANGED failures
               /\ Kid(m) \in Procs => /\ todo'[Kid(m)] = KidScript(name, m[1])
                                      /\ state'[Kid(m)] = "running"
               /\ \A y \in Procs \ {m, Kid(m)} :
                    todo'[y] = todo[y] /\ state'[y] = state[y] /\ fds'[y] = fds[y]
            \/ /\ todo'[m] \in {ToFetch(name), ToFail} /\ failures' = failures + 1
               /\ Moves(m)
<1> DEFINE name == program[m[1]]
           i == m[1]
           k == Kid(m)
<1>1. name \in QueuePrograms /\ m \in Procs /\ todo[m] = ToFork(name, i) /\ m # k
  BY QueueMain, MainPlaces DEF Fork, Calls, Call, StepOfMain, Kid, Main
<1>2. /\ <<m[1], Call(m).child>> = k /\ Tail(todo[m]) = ToFetch(name)
      /\ Call(m).calls = KidScript(name, i)
      /\ Call(m).failed = IF name = "HelloSysV" THEN ToFail ELSE <<>>
  <2>1. /\ Call(m).child = 1 /\ Tail(todo[m]) = ToFetch(name)
        /\ Call(m).calls = KidScript(name, i)
        /\ Call(m).failed = IF name = "HelloSysV" THEN ToFail ELSE <<>>
    <3> HIDE DEF i, name
    <3> QED
      BY <1>1, QueueScripts DEF Call
  <2> QED
    BY <2>1 DEF Kid
<1>3. /\ DOMAIN todo = Procs /\ DOMAIN fds = Procs /\ DOMAIN state = Procs
      /\ state[m] = "running" /\ program' = program
  BY DEF StepOfMain, Domains
<1>4. UNCHANGED <<got, linked, kills>>
  BY DEF Fork
<1>5. CASE /\ todo' = [todo EXCEPT ![m] = Tail(@), ![k] = KidScript(name, i)]
           /\ state' = [state EXCEPT ![k] = "running"]
           /\ fds' = [fds EXCEPT ![k] = fds[m]]
           /\ UNCHANGED failures
  <2> HIDE DEF i, name, k
  <2>1. todo'[m] = ToFetch(name) /\ fds'[m] = fds[m] /\ state'[m] = "running"
    BY <1>1, <1>2, <1>3, <1>5
  <2>2. k \in Procs => todo'[k] = KidScript(name, i) /\ state'[k] = "running"
    BY <1>1, <1>3, <1>5
  <2>3. \A y \in Procs \ {m, k} :
          todo'[y] = todo[y] /\ state'[y] = state[y] /\ fds'[y] = fds[y]
    BY <1>1, <1>3, <1>5
  <2> QED
    BY <1>1, <1>4, <1>5, <2>1, <2>2, <2>3 DEF i, name, k
<1>6. CASE /\ CallFails /\ Continue(m, FailedOr(Call(m).failed, Tail(todo[m])))
           /\ UNCHANGED <<state, fds>>
  <2>1. FailedOr(Call(m).failed, Tail(todo[m])) \in {ToFetch(name), ToFail}
    BY <1>2 DEF FailedOr
  <2>2. Moves(m) /\ todo'[m] \in {ToFetch(name), ToFail}
    BY <1>1, <1>4, <1>6, <2>1, ContinueMoves DEF StepOfMain
  <2> QED
    BY <1>1, <1>3, <1>4, <1>6, <2>2 DEF CallFails
<1> QED
  BY <1>2, <1>5, <1>6 DEF Fork

\* It receives a message, or nothing.
LEMMA MainFetches ==
  ASSUME NEW m, StepOfMain(m), Fetch(m)
  PROVE  LET name == program[m[1]]
             q == Queue(m) IN
         /\ todo[m] = ToFetch(name) /\ todo'[m] = ToLeave(name)
         /\ Moves(m) /\ UNCHANGED <<state, fds, linked, failures, kills, queues, removed>>
         /\ \/ /\ q \notin removed /\ messages[q] # <<>>
               /\ got'[m] = <<Head(messages[q])>>
               /\ messages' = [messages EXCEPT ![q] = Tail(@)]
            \/ /\ q \in removed \/ name = "HelloSysV"
               /\ got'[m] = <<Nobody>> /\ UNCHANGED messages
<1> DEFINE name == program[m[1]]
           i == m[1]
<1>1. name \in QueuePrograms /\ m \in Procs /\ todo[m] = ToFetch(name)
  BY QueueMain, MainPlaces DEF Fetch, Calls, Call, StepOfMain
<1>2. (Call(m).waits <=> name # "HelloSysV") /\ Tail(todo[m]) = ToLeave(name)
  <2> HIDE DEF i, name
  <2> QED
    BY <1>1, QueueScripts DEF Call
<1>3. DOMAIN todo = Procs /\ DOMAIN got = Procs
  BY DEF StepOfMain, Domains
<1>4. /\ UNCHANGED <<state, fds, linked, failures, kills, queues, removed>>
      /\ \E v : got' = [got EXCEPT ![m] = v]
  BY DEF Fetch
<1>5. Moves(m) /\ todo'[m] = ToLeave(name)
  <2>1. \A y \in Procs \ {m} : fds'[y] = fds[y] /\ got'[y] = got[y]
    BY <1>3, <1>4
  <2> HIDE DEF name
  <2> QED
    BY <1>1, <1>2, <1>4, <2>1, ContinueMoves DEF Fetch, Proceed, StepOfMain
<1>6. \A v : got' = [got EXCEPT ![m] = v] => got'[m] = v
  BY <1>1, <1>3
<1> HIDE DEF i, name
<1> DEFINE q == Queue(m)
<1>7. \/ /\ q \notin removed /\ messages[q] # <<>>
         /\ got'[m] = <<Head(messages[q])>>
         /\ messages' = [messages EXCEPT ![q] = Tail(@)]
      \/ /\ q \in removed \/ ~Call(m).waits
         /\ got'[m] = <<Nobody>> /\ UNCHANGED messages
  <2> HIDE DEF q
  <2> QED
    BY <1>6 DEF Fetch, q
<1> QED
  BY <1>1, <1>2, <1>4, <1>5, <1>7 DEF name

\* It closes its queue, once it has received.
LEMMA MainCloses ==
  ASSUME NEW m, StepOfMain(m), Typed, Close(m)
  PROVE  /\ program[m[1]] = "Posix" /\ todo[m] = ToLeave("Posix") /\ todo'[m] = ToUnlinkQueue
         /\ Moves(m) /\ UNCHANGED <<state, got, linked, failures, kills>>
         /\ fds'[m] = {} /\ got[m] # <<>>
<1>1. m \in Procs /\ program[m[1]] = "Posix" /\ todo[m] = ToLeave("Posix")
  BY QueueMain, MainPlaces DEF Close, Calls, Call, StepOfMain
<1>2. Call(m).set = 1 .. MaxQueues /\ Tail(todo[m]) = ToUnlinkQueue
  BY <1>1, LeavingScripts DEF Call
<1>3. OneQueue(m) /\ got[m] # <<>>
  <2>1. /\ ToLeave("Posix") # ToUnlinkQueue
        /\ ToLeave("Posix") \notin {Script(m[1], "Posix"), ToFork("Posix", m[1]), ToFetch("Posix"), ToExit, ToFail}
    BY LeavingScripts, HeadCalls DEF QueuePrograms
  <2> QED
    BY <1>1, <2>1 DEF StepOfMain, QueueMainOK
<1>4. queues \in Nat /\ queues <= MaxQueues /\ MaxQueues \in Nat
  BY QueueAssumption DEF Typed
<1>5. DOMAIN fds = Procs /\ DOMAIN todo = Procs /\ fds' = [fds EXCEPT ![m] = @ \ (1 .. MaxQueues)]
  BY <1>2 DEF Close, StepOfMain, Domains
<1>6. fds'[m] = {} /\ \A y \in Procs \ {m} : fds'[y] = fds[y]
  BY <1>1, <1>3, <1>4, <1>5 DEF OneQueue
<1>7. UNCHANGED <<state, got, linked, failures, kills>>
  BY DEF Close
<1>8. Moves(m) /\ todo'[m] = ToUnlinkQueue
  BY <1>1, <1>2, <1>6, <1>7, ContinueMoves DEF Close, Proceed, StepOfMain
<1> QED
  BY <1>1, <1>3, <1>6, <1>7, <1>8

\* It waits for its child, once it has received.
LEMMA MainAwaits ==
  ASSUME NEW m, StepOfMain(m), Waitpid(m)
  PROVE  /\ program[m[1]] = "HelloSysV" /\ todo[m] = ToLeave("HelloSysV") /\ todo'[m] = ToRemove
         /\ Moves(m) /\ UNCHANGED <<got, fds, linked, failures, kills>>
         /\ state'[m] = state[m]
<1>1. m \in Procs /\ program[m[1]] = "HelloSysV" /\ todo[m] = ToLeave("HelloSysV")
  BY QueueMain, MainPlaces DEF Waitpid, Calls, Call, StepOfMain
<1>2. Tail(todo[m]) = ToRemove
  BY <1>1, LeavingScripts
<1>3. UNCHANGED <<got, fds, linked, failures, kills>>
  BY DEF Waitpid
<1>4. DOMAIN todo = Procs /\ DOMAIN state = Procs /\ program' = program /\ state[m] = "running"
  BY DEF StepOfMain, Domains
<1>5. state' = state \/ \E c \in Procs : state[c] = "zombie" /\ state' = [state EXCEPT ![c] = "gone"]
  BY DEF Waitpid, Awaited, Children
<1>6. /\ state'[m] = state[m]
      /\ \A y \in Procs \ {m} : state'[y] = state[y]
                                \/ (state[y] = "zombie" /\ state'[y] \in {"gone", "abandoned"})
  BY <1>1, <1>4, <1>5
<1>7. /\ todo'[m] = ToRemove
      /\ \A y \in Procs \ {m} : todo'[y] = todo[y]
  BY <1>1, <1>2, <1>4 DEF Waitpid, Proceed, Continue
<1>8. Moves(m)
  BY <1>3, <1>4, <1>6, <1>7 DEF Moves
<1> QED
  BY <1>1, <1>3, <1>6, <1>7, <1>8

\* It takes the name of its queue away.
LEMMA MainUnlinks ==
  ASSUME NEW m, StepOfMain(m), Unlink(m)
  PROVE  /\ program[m[1]] = "Posix" /\ todo[m] = ToUnlinkQueue /\ todo'[m] = ToExit
         /\ Moves(m) /\ UNCHANGED <<state, got, fds, failures, kills>>
         /\ linked' = [linked EXCEPT ![MQ_NAME] = Nobody]
<1>1. m \in Procs /\ program[m[1]] = "Posix" /\ todo[m] = ToUnlinkQueue
  BY QueueMain, MainPlaces DEF Unlink, Calls, Call, StepOfMain
<1>2. Tail(todo[m]) = ToExit /\ Call(m).name = MQ_NAME
  BY <1>1, LeavingScripts DEF Call
<1>3. UNCHANGED <<state, got, fds, failures, kills>>
  BY DEF Unlink
<1>4. Moves(m) /\ todo'[m] = ToExit
  BY <1>1, <1>2, <1>3, ContinueMoves DEF Unlink, Proceed, StepOfMain
<1> QED
  BY <1>1, <1>2, <1>3, <1>4 DEF Unlink

\* It removes its queue, and the key no longer leads to it.
LEMMA MainRemoves ==
  ASSUME NEW m, StepOfMain(m), Remove(m)
  PROVE  LET q == Queue(m) IN
         /\ program[m[1]] # "Posix" /\ todo[m] = ToRemove /\ todo'[m] = ToExit
         /\ Moves(m) /\ UNCHANGED <<state, got, fds, failures, kills, queues, messages>>
         /\ removed' = removed \cup {q}
         /\ linked' = [linked EXCEPT ![KEY] = IF @ = q THEN Nobody ELSE @]
<1>1. m \in Procs /\ program[m[1]] # "Posix" /\ todo[m] = ToRemove
  BY QueueMain, MainPlaces DEF Remove, Calls, Call, StepOfMain
<1>2. Tail(todo[m]) = ToExit /\ Call(m).name = KEY
  BY <1>1, LeavingScripts DEF Call
<1>3. UNCHANGED <<state, got, fds, failures, kills, queues, messages>>
  BY DEF Remove
<1>4. Moves(m) /\ todo'[m] = ToExit
  BY <1>1, <1>2, <1>3, ContinueMoves DEF Remove, Proceed, StepOfMain
<1> DEFINE q == Queue(m)
<1> HIDE DEF q
<1>5. /\ removed' = removed \cup {q}
      /\ linked' = [linked EXCEPT ![KEY] = IF @ = q THEN Nobody ELSE @]
  BY <1>2 DEF Remove, q
<1> QED
  BY <1>1, <1>2, <1>3, <1>4, <1>5 DEF q

\* It comes to its end, or is killed.
LEMMA MainEnds ==
  ASSUME NEW m, StepOfMain(m), Typed, Exit(m) \/ Signal(m)
  PROVE  /\ Moves(m) /\ state'[m] = "gone" /\ todo'[m] = <<>> /\ fds'[m] = {}
         /\ UNCHANGED <<got, linked>>
         /\ \/ todo[m] \in {ToExit, ToFail} /\ UNCHANGED <<failures, kills>>
            \/ ~(Undisturbed')
<1>1. m \in Procs /\ m = Main(m) /\ UNCHANGED <<got, linked>>
  BY QueueMain DEF StepOfMain, Exit, Signal, Kill
<1>2. PICK how : Ends(m, how)
  BY DEF Exit, Signal, Kill
<1>3. Moves(m) /\ state'[m] = "gone" /\ todo'[m] = <<>> /\ fds'[m] = {}
  BY <1>1, <1>2, EndsMoves DEF StepOfMain
<1>4. CASE Exit(m)
  <2>1. todo[m] \in {ToExit, ToFail}
    BY <1>4, MainPlaces DEF Exit, Calls, Call, StepOfMain
  <2> QED
    BY <1>1, <1>3, <1>4, <2>1 DEF Exit
<1>5. CASE Signal(m)
  BY <1>1, <1>3, <1>5, ProcessAssumption DEF Signal, Kill, Typed, Undisturbed
<1> QED
  BY <1>4, <1>5

------------------------------------------------------------
\* The places differ.
LEMMA PlacesDiffer ==
  ASSUME NEW name \in QueuePrograms, NEW i
  PROVE  /\ Script(i, name) \notin {ToFork(name, i), ToFetch(name), ToUnlinkQueue, ToExit, ToFail} \cup Received(name)
         /\ ToFork(name, i) \notin {ToFetch(name), ToUnlinkQueue, ToExit, ToFail} \cup Received(name)
         /\ ToFetch(name) \notin {ToUnlinkQueue, ToExit, ToFail} \cup Received(name)
         /\ ToExit \notin {ToFail, ToUnlinkQueue} \cup Received(name)
         /\ ToFail \notin {ToUnlinkQueue} \cup Received(name)
         /\ ToLeave(name) \in Received(name) \ {ToUnlinkQueue}
         /\ name # "Posix" => ToRemove \in Received(name) \ {ToUnlinkQueue}
         /\ name = "Posix" => ToUnlinkQueue \in Received(name)
<1>1. ASSUME NEW s \in Received(name) PROVE Head(s).call \in {"close", "waitpid", "unlink", "rmid"}
  <2>1. CASE name = "Posix"
    BY <1>1, <2>1, LeavingScripts DEF Received
  <2>2. CASE name = "SysV"
    BY <1>1, <2>2, LeavingScripts DEF Received
  <2>3. CASE name = "HelloSysV"
    BY <1>1, <2>3, LeavingScripts DEF Received
  <2> QED
    BY <2>1, <2>2, <2>3 DEF QueuePrograms
<1>2. ToExit # ToFail
  <2>1. Head(ToExit).code = 0 /\ Head(ToFail).code = 1
    BY LeavingScripts
  <2> QED
    BY <2>1
<1>3. Head(ToLeave(name)).call # "unlink" /\ ToLeave(name) \in Received(name)
  <2>1. CASE name = "Posix"
    BY <2>1, LeavingScripts DEF Received
  <2>2. CASE name = "SysV"
    BY <2>2, LeavingScripts DEF Received
  <2>3. CASE name = "HelloSysV"
    BY <2>3, LeavingScripts DEF Received
  <2> QED
    BY <2>1, <2>2, <2>3 DEF QueuePrograms
<1>4. name # "Posix" => ToRemove \in Received(name)
  BY DEF Received
<1>5. name = "Posix" => ToUnlinkQueue \in Received(name)
  BY DEF Received
<1> QED
  BY <1>1, <1>2, <1>3, <1>4, <1>5, HeadCalls

\* What is open at each place, and what was received before it
LEMMA MainAt ==
  ASSUME NEW m \in QueueMains, QueueMainOK(m), state[m] = "running"
  PROVE  LET name == program[m[1]] IN
         /\ todo[m] = Script(m[1], name) => fds[m] = {} /\ got[m] = <<>>
         /\ todo[m] \in {ToFork(name, m[1]), ToFetch(name)} => OneQueue(m) /\ got[m] = <<>>
         /\ todo[m] \in Received(name) \ {ToUnlinkQueue} => OneQueue(m) /\ got[m] # <<>>
         /\ todo[m] = ToUnlinkQueue => fds[m] = {} /\ got[m] # <<>>
         /\ todo[m] = ToExit => got[m] # <<>>
         /\ todo[m] = ToFail => got[m] = <<>>
<1> DEFINE name == program[m[1]]
           i == m[1]
<1>1. name \in QueuePrograms
  BY QueueMain
<1>2. \/ todo[m] = Script(i, name) /\ fds[m] = {} /\ got[m] = <<>>
      \/ todo[m] \in {ToFork(name, i), ToFetch(name)} /\ OneQueue(m) /\ got[m] = <<>>
      \/ todo[m] \in Received(name) \ {ToUnlinkQueue} /\ OneQueue(m) /\ got[m] # <<>>
      \/ todo[m] = ToUnlinkQueue /\ fds[m] = {} /\ got[m] # <<>>
      \/ todo[m] = ToExit /\ got[m] # <<>>
      \/ todo[m] = ToFail /\ got[m] = <<>>
  BY DEF QueueMainOK
<1>3. /\ todo[m] = Script(i, name) => fds[m] = {} /\ got[m] = <<>>
      /\ todo[m] \in {ToFork(name, i), ToFetch(name)} => OneQueue(m) /\ got[m] = <<>>
      /\ todo[m] \in Received(name) \ {ToUnlinkQueue} => OneQueue(m) /\ got[m] # <<>>
      /\ todo[m] = ToUnlinkQueue => fds[m] = {} /\ got[m] # <<>>
      /\ todo[m] = ToExit => got[m] # <<>>
      /\ todo[m] = ToFail => got[m] = <<>>
  <2> HIDE DEF name, i
  <2> QED
    BY <1>1, <1>2, PlacesDiffer
<1> QED
  BY <1>3

------------------------------------------------------------
\* The places to come to
LEMMA ArrivesAt ==
  ASSUME NEW m, program' = program
  PROVE  LET name == program[m[1]] IN
         /\ state'[m] = "running" =>
              /\ todo'[m] \in {ToFork(name, m[1]), ToFetch(name)} =>
                   (OneQueue(m)' /\ got'[m] = <<>> => QueueMainOK(m)')
              /\ todo'[m] \in Received(name) \ {ToUnlinkQueue} =>
                   (OneQueue(m)' /\ got'[m] # <<>> => QueueMainOK(m)')
              /\ todo'[m] = ToUnlinkQueue =>
                   (name = "Posix" /\ fds'[m] = {} /\ got'[m] # <<>> => QueueMainOK(m)')
              /\ todo'[m] = ToExit => (got'[m] # <<>> => QueueMainOK(m)')
              /\ todo'[m] = ToFail => (got'[m] = <<>> => QueueMainOK(m)')
         /\ state'[m] = "gone" /\ todo'[m] = <<>> => QueueMainOK(m)'
  BY DEF QueueMainOK

\* ... and what it takes to stay at one
LEMMA StaysAt ==
  ASSUME NEW m \in QueueMains, QueueMainOK(m), Still(m), program' = program,
         queues \in Nat, queues' \in Nat, queues' >= queues
  PROVE  QueueMainOK(m)'
<1>1. OneQueue(m) => OneQueue(m)'
  BY DEF OneQueue, Still
<1> QED
  BY <1>1 DEF QueueMainOK, Still

\* Who moves leaves the other main processes as they are.
LEMMA MovesStill ==
  ASSUME MainsOK, NEW p, Moves(p)
  PROVE  \A y \in QueueMains \ {p} : Still(y)
<1>1. \A y \in QueueMains : y \in Procs /\ state[y] # "zombie"
  BY DEF MainsOK, QueueMainOK, QueueMains, MainProcs
<1> QED
  BY <1>1 DEF Moves, Still

\* The step of a main process, as the parts of the invariant see it
LEMMA MainOnward ==
  ASSUME NEW m, StepOfMain(m), MainsOK, Parted, Typed, Step(m) \/ Signal(m)
  PROVE  OthersStill(m) /\ QueueMainOK(m)' /\ Onward(m)
<1> DEFINE name == program[m[1]]
           i == m[1]
<1>0. /\ m \in QueueMains /\ QueueMainOK(m) /\ state[m] = "running" /\ program' = program
      /\ name \in QueuePrograms /\ queues \in Nat
  BY QueueMain DEF StepOfMain, Typed
<1>1. /\ todo[m] = Script(i, name) => fds[m] = {} /\ got[m] = <<>>
      /\ todo[m] \in {ToFork(name, i), ToFetch(name)} => OneQueue(m) /\ got[m] = <<>>
      /\ todo[m] \in Received(name) \ {ToUnlinkQueue} => OneQueue(m) /\ got[m] # <<>>
      /\ todo[m] = ToUnlinkQueue => fds[m] = {} /\ got[m] # <<>>
      /\ todo[m] = ToExit => got[m] # <<>>
      /\ todo[m] = ToFail => got[m] = <<>>
  BY <1>0, MainAt
<1>2. /\ Script(i, name) \notin {ToFork(name, i), ToFetch(name), ToUnlinkQueue, ToExit, ToFail} \cup Received(name)
      /\ ToFork(name, i) \notin {ToFetch(name), ToUnlinkQueue, ToExit, ToFail} \cup Received(name)
      /\ ToFetch(name) \notin {ToUnlinkQueue, ToExit, ToFail} \cup Received(name)
      /\ ToExit \notin {ToFail, ToUnlinkQueue} \cup Received(name)
      /\ ToFail \notin {ToUnlinkQueue} \cup Received(name)
      /\ ToLeave(name) \in Received(name) \ {ToUnlinkQueue}
      /\ name # "Posix" => ToRemove \in Received(name) \ {ToUnlinkQueue}
      /\ name = "Posix" => ToUnlinkQueue \in Received(name)
  BY <1>0, PlacesDiffer
<1>3. Script(i, name) # <<>> /\ ToFork(name, i) # <<>>
  BY <1>0, QueueScripts
<1>a. /\ state'[m] = "running" =>
              /\ todo'[m] \in {ToFork(name, i), ToFetch(name)} =>
                   (OneQueue(m)' /\ got'[m] = <<>> => QueueMainOK(m)')
              /\ todo'[m] \in Received(name) \ {ToUnlinkQueue} =>
                   (OneQueue(m)' /\ got'[m] # <<>> => QueueMainOK(m)')
              /\ todo'[m] = ToUnlinkQueue =>
                   (name = "Posix" /\ fds'[m] = {} /\ got'[m] # <<>> => QueueMainOK(m)')
              /\ todo'[m] = ToExit => (got'[m] # <<>> => QueueMainOK(m)')
              /\ todo'[m] = ToFail => (got'[m] = <<>> => QueueMainOK(m)')
      /\ state'[m] = "gone" /\ todo'[m] = <<>> => QueueMainOK(m)'
  BY <1>0, ArrivesAt
<1>b. Onward(m) <=> /\ todo'[m] \in {Script(i, name), ToFork(name, i)} => todo[m] \in {Script(i, name), ToFork(name, i)}
                    /\ got[m] # <<>> => got'[m] = got[m]
                    /\ todo[m] \in {ToExit, <<>>} /\ got[m] # <<>> => todo'[m] \in {ToExit, <<>>}
  BY DEF Onward
<1>c. Moves(m) => \A y \in QueueMains \ {m} : Still(y)
  BY MovesStill
<1>d. OneQueue(m) /\ fds'[m] = fds[m] /\ queues' = queues => OneQueue(m)'
  BY DEF OneQueue
<1>e. /\ queues' = queues /\ (\A y \in QueueMains \ {m} : Still(y)) => OthersStill(m)
      /\ queues' = queues + 1 /\ (\A y \in QueueMains \ {m} : Still(y)) => OthersStill(m)
  BY <1>0 DEF OthersStill
<1>4. CASE OpenQueue(m)
  <2> DEFINE Q == QueueName(name)
  <2>1. linked[Q] # Nobody => linked[Q] \in 1 .. queues
    BY DEF Parted, QueueName
  <2>2. /\ todo[m] = Script(i, name) /\ Moves(m) /\ UNCHANGED <<state, got>>
        /\ \/ todo'[m] = ToFork(name, i) /\ linked[Q] # Nobody /\ fds'[m] = {linked[Q]} /\ queues' = queues
           \/ todo'[m] = ToFork(name, i) /\ queues' = queues + 1 /\ fds'[m] = {queues'}
           \/ todo'[m] = ToFail /\ queues' = queues
    BY <1>4, MainOpens
  <2> HIDE DEF name, i, Q
  <2>3. queues' \in Nat /\ OthersStill(m)
    BY <1>0, <1>c, <1>e, <2>2
  <2>4. todo'[m] = ToFork(name, i) => OneQueue(m)'
    BY <1>0, <1>2, <2>1, <2>2, <2>3 DEF OneQueue
  <2>5. QueueMainOK(m)'
    BY <1>0, <1>1, <1>a, <2>2, <2>4
  <2>6. Onward(m)
    BY <1>1, <1>2, <1>3, <1>b, <2>2
  <2> QED
    BY <2>3, <2>5, <2>6
<1>5. CASE Fork(m) /\ UNCHANGED <<queues, messages, removed>>
  <2>1. /\ todo[m] = ToFork(name, i) /\ UNCHANGED got
        /\ fds'[m] = fds[m] /\ state'[m] = "running"
        /\ todo'[m] \in {ToFetch(name), ToFail}
        /\ \/ \A y \in Procs \ {m, Kid(m)} : todo'[y] = todo[y] /\ state'[y] = state[y] /\ fds'[y] = fds[y]
           \/ Moves(m)
    BY <1>5, QueueMainForks
  <2>2. \A y \in QueueMains : y \in Procs /\ y # Kid(m)
    BY DEF QueueMains, MainProcs, Main, Kid
  <2> HIDE DEF name, i
  <2>3. \A y \in QueueMains \ {m} : Still(y)
    BY <1>c, <2>1, <2>2 DEF Still
  <2>4. OneQueue(m)'
    BY <1>1, <1>5, <1>d, <2>1
  <2>5. QueueMainOK(m)'
    BY <1>1, <1>a, <2>1, <2>4
  <2>6. Onward(m)
    BY <1>1, <1>2, <1>3, <1>b, <2>1
  <2> QED
    BY <1>5, <1>e, <2>3, <2>5, <2>6
<1>6. CASE Fetch(m)
  <2>1. /\ todo[m] = ToFetch(name) /\ todo'[m] = ToLeave(name)
        /\ Moves(m) /\ UNCHANGED <<state, fds, queues>> /\ got'[m] # <<>>
    <3>1. \A x : <<x>> # <<>>
      OBVIOUS
    <3> QED
      BY <1>6, <3>1, MainFetches
  <2> HIDE DEF name, i
  <2>2. OneQueue(m)'
    BY <1>1, <1>d, <2>1
  <2>3. QueueMainOK(m)'
    BY <1>0, <1>2, <1>a, <2>1, <2>2
  <2>4. Onward(m)
    BY <1>1, <1>2, <1>b, <2>1
  <2> QED
    BY <1>c, <1>e, <2>1, <2>3, <2>4
<1>7. CASE Close(m) /\ UNCHANGED <<queues, messages, removed>>
  <2>1. /\ name = "Posix" /\ todo[m] = ToLeave(name) /\ todo'[m] = ToUnlinkQueue
        /\ Moves(m) /\ UNCHANGED <<state, got>>
        /\ fds'[m] = {} /\ got[m] # <<>>
    BY <1>7, MainCloses
  <2> HIDE DEF name, i
  <2>2. QueueMainOK(m)'
    BY <1>0, <1>a, <2>1
  <2>3. Onward(m)
    BY <1>2, <1>b, <2>1, LeavingScripts
  <2> QED
    BY <1>7, <1>c, <1>e, <2>1, <2>2, <2>3
<1>8. CASE Waitpid(m) /\ UNCHANGED <<queues, messages, removed>>
  <2>1. /\ name = "HelloSysV" /\ todo[m] = ToLeave(name) /\ todo'[m] = ToRemove
        /\ Moves(m) /\ UNCHANGED <<got, fds>> /\ state'[m] = state[m]
    BY <1>8, MainAwaits
  <2> HIDE DEF name, i
  <2>2. OneQueue(m)' /\ got'[m] # <<>>
    BY <1>1, <1>2, <1>8, <1>d, <2>1
  <2>3. QueueMainOK(m)'
    BY <1>0, <1>2, <1>a, <2>1, <2>2
  <2>4. Onward(m)
    BY <1>2, <1>b, <2>1, LeavingScripts
  <2> QED
    BY <1>8, <1>c, <1>e, <2>1, <2>3, <2>4
<1>9. CASE Unlink(m) /\ UNCHANGED <<queues, messages, removed>>
  <2>1. /\ todo[m] = ToUnlinkQueue /\ todo'[m] = ToExit
        /\ Moves(m) /\ UNCHANGED <<state, got>>
    BY <1>9, MainUnlinks
  <2> HIDE DEF name, i
  <2>2. QueueMainOK(m)'
    BY <1>0, <1>1, <1>a, <2>1
  <2>3. Onward(m)
    BY <1>2, <1>3, <1>b, <2>1, HeadCalls
  <2> QED
    BY <1>9, <1>c, <1>e, <2>1, <2>2, <2>3
<1>10. CASE Remove(m)
  <2>1. /\ name # "Posix" /\ todo[m] = ToRemove /\ todo'[m] = ToExit
        /\ Moves(m) /\ UNCHANGED <<state, got, queues>>
    BY <1>10, MainRemoves
  <2> HIDE DEF name, i
  <2>2. QueueMainOK(m)'
    BY <1>0, <1>1, <1>2, <1>a, <2>1
  <2>3. Onward(m)
    BY <1>2, <1>b, <2>1, HeadCalls, <1>0
  <2> QED
    BY <1>c, <1>e, <2>1, <2>2, <2>3
<1>11. CASE (Exit(m) /\ UNCHANGED <<queues, messages, removed>>) \/ Signal(m)
  <2>1. Moves(m) /\ state'[m] = "gone" /\ todo'[m] = <<>> /\ UNCHANGED <<got, queues>>
    BY <1>11, MainEnds DEF Signal
  <2> HIDE DEF name, i
  <2> QED
    BY <1>3, <1>a, <1>b, <1>c, <1>e, <2>1
<1> QED
  BY <1>0, <1>4, <1>5, <1>6, <1>7, <1>8, <1>9, <1>10, <1>11, MainPlaces, QueueStepIs

------------------------------------------------------------
\* What follows from that, and what stays true then
LEMMA FollowsFacts ==
  ASSUME NEW p, Follows(p)
  PROVE  /\ QueueMains' = QueueMains
         /\ \A y, name : Runs(y, name)' <=> Runs(y, name)
         /\ \A y : (Queued(y)' <=> Queued(y)) /\ (Keyed(y)' <=> Keyed(y))
         /\ \A y \in QueueMains : y # p => Still(y)
         /\ \A y \in QueueMains : got[y] # <<>> => got'[y] = got[y]
         /\ \A y \in QueueMains : todo[y] \in {ToExit, <<>>} /\ got[y] # <<>> => todo'[y] \in {ToExit, <<>>}
  BY SameQueued DEF Follows, OthersStill, Still, Onward

LEMMA MainsStay ==
  ASSUME MainsOK, NEW p, Follows(p)
  PROVE  MainsOK'
<1>1. ASSUME NEW y \in QueueMains PROVE QueueMainOK(y)'
  BY <1>1, StaysAt DEF Follows, OthersStill, MainsOK
<1> QED
  BY <1>1, FollowsFacts DEF MainsOK

LEMMA EndStays ==
  ASSUME RemovedAtEnd, NEW p, Follows(p), UNCHANGED removed
  PROVE  RemovedAtEnd'
  BY FollowsFacts DEF RemovedAtEnd, HasLeft

LEMMA PullStays ==
  ASSUME PulledAway, NEW p, Follows(p), removed \subseteq removed',
         p \in QueueMains /\ got'[p] = <<Nobody>> =>
           \/ got[p] = <<Nobody>> /\ state[p] = "running" /\ fds'[p] \subseteq fds[p]
           \/ Runs(p, "HelloSysV")
           \/ /\ Runs(p, "SysV") /\ fds'[p] \subseteq removed'
              /\ \E w \in QueueMains : w # p /\ HasLeft(w)
  PROVE  PulledAway'
<1>1. ASSUME NEW m \in QueueMains, got'[m] = <<Nobody>>
      PROVE  \/ Runs(m, "HelloSysV")
             \/ /\ Runs(m, "SysV") /\ (state'[m] = "running" => fds'[m] \subseteq removed')
                /\ \E w \in QueueMains : w # m /\ HasLeft(w)
  <2>1. CASE m # p
    <3>1. Still(m)
      BY <2>1, FollowsFacts
    <3> QED
      BY <1>1, <3>1 DEF PulledAway, Pulled, Still
  <2>2. CASE m = p /\ got[p] = <<Nobody>> /\ state[p] = "running" /\ fds'[p] \subseteq fds[p]
    BY <1>1, <2>2 DEF PulledAway, Pulled
  <2> QED
    BY <1>1, <2>1, <2>2
<1>2. \A w \in QueueMains : HasLeft(w) => HasLeft(w)'
  BY FollowsFacts DEF HasLeft
<1> QED
  BY <1>1, <1>2, FollowsFacts DEF PulledAway, Pulled

\* The queues stay parted if only names are taken away.
LEMMA PartedStays ==
  ASSUME Parted, NEW p, Follows(p), p \in QueueMains => fds'[p] \subseteq fds[p],
         UNCHANGED removed, linked'[KEY] \in {linked[KEY], Nobody},
         linked'[MQ_NAME] \in {linked[MQ_NAME], Nobody}
  PROVE  Parted'
<1>1. PICK K \in SUBSET (1 .. queues) :
        /\ removed \subseteq K
        /\ \A m \in QueueMains : IF Keyed(m) THEN fds[m] \subseteq K ELSE fds[m] \subseteq (1 .. queues) \ K
        /\ linked[KEY] \in K \cup {Nobody}
        /\ linked[MQ_NAME] \in ((1 .. queues) \ K) \cup {Nobody}
  BY DEF Parted
<1>2. 1 .. queues \subseteq 1 .. queues'
  BY DEF Follows, OthersStill
<1>3. \A m \in QueueMains : IF Keyed(m) THEN fds'[m] \subseteq K ELSE fds'[m] \subseteq (1 .. queues') \ K
  <2>1. ASSUME NEW m \in QueueMains PROVE fds'[m] \subseteq fds[m]
    BY <2>1, FollowsFacts DEF Still
  <2>2. (1 .. queues) \ K \subseteq (1 .. queues') \ K
    BY <1>2
  <2> QED
    BY <1>1, <2>1, <2>2
<1>4. \A m \in QueueMains' : IF Keyed(m)' THEN fds'[m] \subseteq K ELSE fds'[m] \subseteq (1 .. queues') \ K
  BY <1>3, FollowsFacts
<1>5. /\ K \in SUBSET (1 .. queues') /\ removed' \subseteq K
      /\ linked'[KEY] \in K \cup {Nobody}
      /\ linked'[MQ_NAME] \in ((1 .. queues') \ K) \cup {Nobody}
  BY <1>1, <1>2
<1> QED
  BY <1>4, <1>5 DEF Parted

------------------------------------------------------------
\* Who has sent its message has sent it ever after; so messages that stay are in order.
LEMMA HasSentStays ==
  ASSUME SentStays, program' = program, NEW i, HasSent(i)
  PROVE  HasSent(i)'
<1>1. <<i, 1>> # Main(<<i, 1>>)
  BY DEF Main
<1> QED
  BY <1>1, SameQueued DEF HasSent, SentStays

LEMMA MessagesStay ==
  ASSUME MessagesOK, SentStays, program' = program, UNCHANGED messages
  PROVE  MessagesOK'
  BY HasSentStays DEF MessagesOK

\* A sequence without repetition stays one if its first element is taken, or a new one put in.
LEMMA DistinctTail ==
  ASSUME NEW s, IsSeq(s), s # <<>>, Distinct(s)
  PROVE  Distinct(Tail(s))
<1>1. \A n \in DOMAIN Tail(s) : Tail(s)[n] = s[n + 1] /\ n + 1 \in DOMAIN s /\ n \in Int
  BY TailIndex
<1> QED
  BY <1>1 DEF Distinct

LEMMA DistinctAppend ==
  ASSUME NEW s, IsSeq(s), Distinct(s), NEW x, x \notin Elements(s)
  PROVE  Distinct(Append(s, x))
<1> DEFINE S == Elements(s) \cup {x}
<1>1. s \in Seq(S) /\ x \in S
  BY SeqMonotonic DEF IsSeq
<1> HIDE DEF S
<1>2. /\ Len(s) \in Nat /\ DOMAIN s = 1 .. Len(s) /\ Append(s, x) \in Seq(S)
      /\ Len(Append(s, x)) = Len(s) + 1
      /\ \A n \in 1 .. Len(s) : Append(s, x)[n] = s[n]
      /\ Append(s, x)[Len(s) + 1] = x
  BY <1>1, AppendProperties, LenProperties
<1>3. DOMAIN Append(s, x) = 1 .. Len(s) + 1
  BY <1>2, LenProperties
<1>4. \A n \in 1 .. Len(s) : s[n] # x
  BY <1>2 DEF Elements
<1> QED
  BY <1>2, <1>3, <1>4 DEF Distinct

\* The messages are in order after a receive, and after a send.
LEMMA MessagesFetched ==
  ASSUME MessagesOK, SentStays, program' = program, NEW q, messages[q] # <<>>,
         messages' = [messages EXCEPT ![q] = Tail(@)]
  PROVE  MessagesOK'
<1>1. ASSUME NEW r \in 1 .. MaxQueues
      PROVE  IsSeq(messages'[r]) /\ Distinct(messages'[r]) /\ \A i \in Elements(messages'[r]) : HasSent(i)'
  <2>1. /\ IsSeq(messages[r]) /\ Distinct(messages[r])
        /\ \A i \in Elements(messages[r]) : HasSent(i)'
    BY HasSentStays DEF MessagesOK
  <2>2. messages'[r] = IF r = q THEN Tail(messages[r]) ELSE messages[r]
    BY DEF MessagesOK
  <2> QED
    BY <2>1, <2>2, TailIsSeq, DistinctTail
<1> QED
  BY <1>1 DEF MessagesOK

LEMMA MessagesSent ==
  ASSUME MessagesOK, SentStays, program' = program, NEW i, ~HasSent(i), HasSent(i)', NEW q,
         messages' = [messages EXCEPT ![q] = Append(@, i)]
  PROVE  MessagesOK'
<1>1. ASSUME NEW r \in 1 .. MaxQueues
      PROVE  IsSeq(messages'[r]) /\ Distinct(messages'[r]) /\ \A j \in Elements(messages'[r]) : HasSent(j)'
  <2>1. /\ IsSeq(messages[r]) /\ Distinct(messages[r])
        /\ \A j \in Elements(messages[r]) : HasSent(j)'
        /\ i \notin Elements(messages[r])
    BY HasSentStays DEF MessagesOK
  <2>2. messages'[r] = IF r = q THEN Append(messages[r], i) ELSE messages[r]
    BY DEF MessagesOK
  <2>3. IsSeq(Append(messages[r], i)) /\ Elements(Append(messages[r], i)) \subseteq Elements(messages[r]) \cup {i}
        /\ Distinct(Append(messages[r], i))
    BY <2>1, Appended, DistinctAppend
  <2> QED
    BY <2>1, <2>2, <2>3
<1> QED
  BY <1>1 DEF MessagesOK

\* A child of such a program is left where it is by others, except that it is waited for.
LEMMA KidStays ==
  ASSUME KidsOK, NEW p, Follows(p), Moves(p), NEW k \in Procs \ {p}, Queued(k), k # Main(k)
  PROVE  /\ QueueKidOK(k)' /\ todo'[k] = todo[k]
         /\ state[k] # "none" => state'[k] # "none"
<1> DEFINE name == program[k[1]]
           i == k[1]
<1>1. /\ Main(k) \in QueueMains /\ Main(k)[1] = i
      /\ QueueKidOK(k) /\ program' = program
  BY KidsMain DEF KidsOK, Moves
<1>2. /\ todo'[k] = todo[k] /\ got'[k] = got[k]
      /\ state'[k] = state[k] \/ (state[k] = "zombie" /\ state'[k] \in {"gone", "abandoned"})
  BY DEF Moves
<1>3. /\ got[k] = <<>>
      /\ todo[Main(k)] \in {Script(i, name), ToFork(name, i)} => state[k] = "none"
      /\ state[k] = "running" =>
           k[2] = 1 /\ todo[k] \in {KidScript(name, i), ToCloseQueue, ToExit, ToFail}
  BY <1>1 DEF QueueKidOK
<1>4. todo'[Main(k)] \in {Script(i, name), ToFork(name, i)} =>
      todo[Main(k)] \in {Script(i, name), ToFork(name, i)}
  <2>1. CASE Main(k) = p
    BY <1>1, <2>1 DEF Follows, Onward
  <2>2. CASE Main(k) # p
    BY <1>1, <2>2, FollowsFacts DEF Still
  <2> QED
    BY <2>1, <2>2
<1>5. /\ got'[k] = <<>>
      /\ todo'[Main(k)] \in {Script(i, name), ToFork(name, i)} => state'[k] = "none"
      /\ state'[k] = "running" =>
           k[2] = 1 /\ todo'[k] \in {KidScript(name, i), ToCloseQueue, ToExit, ToFail}
  <2> HIDE DEF name, i
  <2> QED
    BY <1>2, <1>3, <1>4
<1>6. QueueKidOK(k)'
  BY <1>1, <1>5 DEF QueueKidOK
<1> QED
  BY <1>2, <1>6

\* When a main process does anything but fork, its child stays as it is.
LEMMA MovesKids ==
  ASSUME KidsOK, NEW m \in QueueMains, Follows(m), Moves(m)
  PROVE  KidsOK' /\ SentStays
<1>1. m = Main(m) /\ program' = program
  BY QueueMain DEF Moves
<1>2. \A y : Queued(y)' <=> Queued(y)
  BY <1>1, SameQueued
<1>3. ASSUME NEW k \in Procs, Queued(k), k # Main(k)
      PROVE  QueueKidOK(k)' /\ todo'[k] = todo[k] /\ (state[k] # "none" => state'[k] # "none")
  BY <1>1, <1>3, KidStays
<1>4. SentStays
  BY <1>3 DEF SentStays
<1>5. \A k \in Procs : Queued(k)' /\ k # Main(k) => QueueKidOK(k)'
  BY <1>2, <1>3
<1>6. KidsOK'
  BY <1>5 DEF KidsOK, Procs, Main
<1> QED
  BY <1>4, <1>6

\* When it forks, the child was not there.
LEMMA ForkKids ==
  ASSUME KidsOK, NEW m, StepOfMain(m), Fork(m), Follows(m)
  PROVE  KidsOK' /\ SentStays
<1> DEFINE name == program[m[1]]
           i == m[1]
<1>0. /\ m = Main(m) /\ m \in Procs /\ m \in QueueMains /\ name \in QueuePrograms /\ program' = program
  BY QueueMain DEF StepOfMain
<1>1. /\ todo[m] = ToFork(name, i) /\ UNCHANGED got
      /\ todo'[m] \in {ToFetch(name), ToFail}
      /\ \/ /\ Kid(m) \in Procs => todo'[Kid(m)] = KidScript(name, i) /\ state'[Kid(m)] = "running"
            /\ \A y \in Procs \ {m, Kid(m)} : todo'[y] = todo[y] /\ state'[y] = state[y]
         \/ Moves(m)
  BY QueueMainForks
<1>2. CASE Moves(m)
  BY <1>0, <1>2, MovesKids
<1>3. CASE /\ Kid(m) \in Procs => todo'[Kid(m)] = KidScript(name, i) /\ state'[Kid(m)] = "running"
           /\ \A y \in Procs \ {m, Kid(m)} : todo'[y] = todo[y] /\ state'[y] = state[y]
  <2>1. ASSUME NEW k \in Procs, Queued(k), k # Main(k)
        PROVE  /\ QueueKidOK(k)'
               /\ state[k] # "none" => state'[k] # "none" /\ todo'[k] = todo[k]
    <3>1. QueueKidOK(k)
      BY <2>1 DEF KidsOK
    <3>2. CASE k = Kid(m)
      <4>1. k[1] = i /\ k[2] = 1 /\ Main(k) = m
        BY <1>0, <3>2 DEF Kid, Main
      <4>2. state[k] = "none" /\ got[k] = <<>>
        BY <1>1, <3>1, <4>1 DEF QueueKidOK
      <4>3. todo'[m] \notin {Script(i, name), ToFork(name, i)}
        <5> HIDE DEF i, name
        <5> QED
          BY <1>0, <1>1, PlacesDiffer
      <4>4. QueueKidOK(k)'
        BY <1>0, <1>1, <1>3, <3>2, <4>1, <4>2, <4>3 DEF QueueKidOK
      <4> QED
        BY <4>2, <4>4
    <3>3. CASE k # Kid(m)
      <4>1. todo'[k] = todo[k] /\ state'[k] = state[k] /\ got'[k] = got[k]
        BY <1>0, <1>1, <1>3, <2>1, <3>3
      <4>2. Main(k) \in QueueMains /\ Main(k)[1] = k[1]
        BY <2>1, KidsMain
      <4>3. LET n == program[k[1]] IN
            todo'[Main(k)] \in {Script(k[1], n), ToFork(n, k[1])} =>
            todo[Main(k)] \in {Script(k[1], n), ToFork(n, k[1])}
        <5>1. CASE Main(k) = m
          BY <4>2, <5>1 DEF Follows, Onward
        <5>2. CASE Main(k) # m
          BY <4>2, <5>2, FollowsFacts DEF Still
        <5> QED
          BY <5>1, <5>2
      <4>4. QueueKidOK(k)'
        BY <1>0, <3>1, <4>1, <4>3 DEF QueueKidOK
      <4> QED
        BY <4>1, <4>4
    <3> QED
      BY <3>2, <3>3
  <2>2. SentStays
    BY <2>1 DEF SentStays
  <2>3. \A k \in Procs : Queued(k)' /\ k # Main(k) => QueueKidOK(k)'
    BY <1>0, <2>1, SameQueued
  <2>4. KidsOK'
    BY <2>3 DEF KidsOK, Procs, Main
  <2> QED
    BY <2>2, <2>4
<1> QED
  BY <1>1, <1>2, <1>3

\* What is opened is on the side of its name.
LEMMA PartedOpens ==
  ASSUME Parted, NEW m, StepOfMain(m), Follows(m), OpenQueue(m), queues \in Nat
  PROVE  Parted'
<1> DEFINE Q == QueueName(program[m[1]])
           keyed == Keyed(m)
<1>0. /\ m \in QueueMains /\ program' = program /\ DOMAIN linked = Names
      /\ KEY \in Names /\ MQ_NAME \in Names /\ MQ_NAME # KEY
  BY CompanyAssumption DEF StepOfMain, Domains
<1>1. /\ UNCHANGED removed
      /\ \/ linked[Q] # Nobody /\ fds'[m] = {linked[Q]} /\ UNCHANGED <<linked, queues>>
         \/ /\ queues' = queues + 1
            /\ linked' = [linked EXCEPT ![Q] = queues'] /\ fds'[m] = {queues'}
         \/ fds'[m] = fds[m] /\ UNCHANGED <<linked, queues>>
  BY MainOpens
<1>2. (keyed => Q = KEY) /\ (~keyed => Q = MQ_NAME)
  BY <1>0, QueueMain DEF QueueName
<1>3. PICK K \in SUBSET (1 .. queues) :
        /\ removed \subseteq K
        /\ \A y \in QueueMains : IF Keyed(y) THEN fds[y] \subseteq K ELSE fds[y] \subseteq (1 .. queues) \ K
        /\ linked[KEY] \in K \cup {Nobody}
        /\ linked[MQ_NAME] \in ((1 .. queues) \ K) \cup {Nobody}
  BY DEF Parted
<1>4. \A y \in QueueMains : y # m => fds'[y] = fds[y]
  BY FollowsFacts DEF Still
<1>5. ASSUME NEW L \in SUBSET (1 .. queues'), removed \subseteq L,
             \A y \in QueueMains : IF Keyed(y) THEN fds'[y] \subseteq L ELSE fds'[y] \subseteq (1 .. queues') \ L,
             linked'[KEY] \in L \cup {Nobody},
             linked'[MQ_NAME] \in ((1 .. queues') \ L) \cup {Nobody}
      PROVE  Parted'
  <2>1. \A y \in QueueMains' : IF Keyed(y)' THEN fds'[y] \subseteq L ELSE fds'[y] \subseteq (1 .. queues') \ L
    BY <1>5, FollowsFacts
  <2>2. removed' \subseteq L
    BY <1>1, <1>5
  <2> QED
    BY <1>5, <2>1, <2>2 DEF Parted
<1>6. CASE linked[Q] # Nobody /\ fds'[m] = {linked[Q]} /\ UNCHANGED <<linked, queues>>
  <2> HIDE DEF Q
  <2>1. \A y \in QueueMains : IF Keyed(y) THEN fds'[y] \subseteq K ELSE fds'[y] \subseteq (1 .. queues') \ K
    BY <1>2, <1>3, <1>4, <1>6
  <2> QED
    BY <1>3, <1>5, <1>6, <2>1
<1>7. CASE fds'[m] = fds[m] /\ UNCHANGED <<linked, queues>>
  <2>1. \A y \in QueueMains : IF Keyed(y) THEN fds'[y] \subseteq K ELSE fds'[y] \subseteq (1 .. queues') \ K
    BY <1>3, <1>4, <1>7
  <2> QED
    BY <1>3, <1>5, <1>7, <2>1
<1>8. CASE /\ queues' = queues + 1
           /\ linked' = [linked EXCEPT ![Q] = queues'] /\ fds'[m] = {queues'}
  <2> HIDE DEF Q
  <2>1. 1 .. queues' = (1 .. queues) \cup {queues'} /\ queues' \notin 1 .. queues
    BY <1>8
  <2>2. CASE keyed
    <3> DEFINE L == K \cup {queues'}
    <3>1. L \in SUBSET (1 .. queues') /\ (1 .. queues) \ K \subseteq (1 .. queues') \ L /\ removed \subseteq L
      BY <1>3, <2>1
    <3>2. \A y \in QueueMains : IF Keyed(y) THEN fds'[y] \subseteq L ELSE fds'[y] \subseteq (1 .. queues') \ L
      <4> HIDE DEF L
      <4>1. K \subseteq L /\ queues' \in L
        BY DEF L
      <4> QED
        BY <1>0, <1>3, <1>4, <1>8, <2>2, <3>1, <4>1
    <3>3. linked'[KEY] = queues' /\ linked'[MQ_NAME] = linked[MQ_NAME]
      BY <1>0, <1>2, <1>8, <2>2
    <3> QED
      BY <1>3, <1>5, <3>1, <3>2, <3>3
  <2>3. CASE ~keyed
    <3>1. /\ K \in SUBSET (1 .. queues') /\ (1 .. queues) \ K \subseteq (1 .. queues') \ K
          /\ queues' \in (1 .. queues') \ K
      BY <1>3, <2>1
    <3>2. \A y \in QueueMains : IF Keyed(y) THEN fds'[y] \subseteq K ELSE fds'[y] \subseteq (1 .. queues') \ K
      BY <1>0, <1>3, <1>4, <1>8, <2>3, <3>1
    <3>3. linked'[MQ_NAME] = queues' /\ linked'[KEY] = linked[KEY]
      BY <1>0, <1>2, <1>8, <2>3
    <3> QED
      BY <1>3, <1>5, <3>1, <3>2, <3>3
  <2> QED
    BY <2>2, <2>3
<1> QED
  BY <1>1, <1>6, <1>7, <1>8

\* What is removed was found by the key.
LEMMA PartedRemoves ==
  ASSUME Parted, NEW m, StepOfMain(m), Follows(m), Keyed(m), NEW q \in fds[m],
         UNCHANGED <<fds, queues>>, removed' = removed \cup {q},
         linked'[KEY] \in {linked[KEY], Nobody}, linked'[MQ_NAME] = linked[MQ_NAME]
  PROVE  Parted'
<1>1. PICK K \in SUBSET (1 .. queues) :
        /\ removed \subseteq K
        /\ \A y \in QueueMains : IF Keyed(y) THEN fds[y] \subseteq K ELSE fds[y] \subseteq (1 .. queues) \ K
        /\ linked[KEY] \in K \cup {Nobody}
        /\ linked[MQ_NAME] \in ((1 .. queues) \ K) \cup {Nobody}
  BY DEF Parted
<1>2. removed' \subseteq K
  BY <1>1 DEF StepOfMain
<1>3. \A y \in QueueMains' : IF Keyed(y)' THEN fds'[y] \subseteq K ELSE fds'[y] \subseteq (1 .. queues') \ K
  BY <1>1, FollowsFacts
<1> QED
  BY <1>1, <1>2, <1>3 DEF Parted

\* What is received is a message, or the queue was removed, or nothing was waited for.
LEMMA FetchedWorld ==
  ASSUME NEW m, StepOfMain(m), Typed, QueueWorld, Follows(m), Fetch(m), SentStays
  PROVE  MessagesOK' /\ PulledAway'
<1> DEFINE name == program[m[1]]
           q == Queue(m)
<1>0. /\ m \in QueueMains /\ name \in QueuePrograms /\ program' = program
      /\ QueueMainOK(m) /\ state[m] = "running" /\ queues <= MaxQueues /\ queues \in Nat /\ MaxQueues \in Nat
  BY QueueMain, QueueAssumption DEF StepOfMain, Typed
<1>1. /\ todo[m] = ToFetch(name)
      /\ \/ /\ q \notin removed /\ messages[q] # <<>>
            /\ got'[m] = <<Head(messages[q])>>
            /\ messages' = [messages EXCEPT ![q] = Tail(@)]
         \/ /\ q \in removed \/ name = "HelloSysV"
            /\ got'[m] = <<Nobody>> /\ UNCHANGED messages
  BY MainFetches
<1>2. q \in fds[m] /\ q \in 1 .. queues
  BY <1>0, <1>1, MainAt DEF OneQueue, Queue
<1>3. CASE /\ messages[q] # <<>> /\ got'[m] = <<Head(messages[q])>>
           /\ messages' = [messages EXCEPT ![q] = Tail(@)]
  <2>1. MessagesOK'
    <3> HIDE DEF q
    <3> QED
      BY <1>0, <1>3, MessagesFetched DEF QueueWorld
  <2>2. q \in 1 .. MaxQueues
    BY <1>0, <1>2
  <2>3. Head(messages[q]) \in Elements(messages[q])
    BY <1>3, <2>2, TailIsSeq DEF QueueWorld, MessagesOK
  <2>4. Head(messages[q]) # Nobody
    <3> DEFINE i == Head(messages[q])
    <3>1. HasSent(i)
      BY <2>2, <2>3 DEF QueueWorld, MessagesOK
    <3> HIDE DEF i
    <3>2. i \in Instances
      BY <3>1 DEF HasSent, Procs
    <3> QED
      BY <3>2, CompanyAssumption DEF i
  <2>5. got'[m] # <<Nobody>>
    BY <1>3, <2>4
  <2>6. PulledAway'
    BY <2>5, MainFetches, PullStays DEF QueueWorld
  <2> QED
    BY <2>1, <2>6
<1>4. CASE (q \in removed \/ name = "HelloSysV") /\ UNCHANGED messages
  <2>1. MessagesOK'
    BY <1>0, <1>4, MessagesStay DEF QueueWorld
  <2>2. name # "HelloSysV" =>
          /\ name = "SysV" /\ fds'[m] \subseteq removed'
          /\ \E w \in QueueMains : w # m /\ HasLeft(w)
    <3> SUFFICES ASSUME name # "HelloSysV"
                 PROVE  /\ name = "SysV" /\ fds'[m] \subseteq removed'
                        /\ \E w \in QueueMains : w # m /\ HasLeft(w)
      OBVIOUS
    <3>1. q \in removed
      BY <1>4
    <3>2. PICK w \in QueueMains : HasLeft(w)
      BY <3>1 DEF QueueWorld, RemovedAtEnd
    <3>3. w # m
      <4> HIDE DEF name
      <4> QED
        BY <1>0, <1>1, <3>2, PlacesDiffer, QueueScripts DEF HasLeft
    <3>5. fds'[m] \subseteq removed'
      <4>1. OneQueue(m)
        BY <1>0, <1>1, MainAt
      <4>2. fds[m] = {q}
        BY <1>2, <4>1 DEF OneQueue
      <4>3. UNCHANGED <<fds, removed>>
        BY MainFetches
      <4> QED
        BY <3>1, <4>2, <4>3
    <3>4. Keyed(m)
      BY <1>0, <1>2, <3>1 DEF QueueWorld, Parted
    <3> QED
      BY <1>0, <3>2, <3>3, <3>4, <3>5, QueueMain DEF QueuePrograms
  <2>3. \/ Runs(m, "HelloSysV")
        \/ /\ Runs(m, "SysV") /\ fds'[m] \subseteq removed'
           /\ \E w \in QueueMains : w # m /\ HasLeft(w)
    BY <1>0, <2>2, QueueMain DEF QueuePrograms
  <2>4. PulledAway'
    BY <2>3, MainFetches, PullStays DEF QueueWorld
  <2> QED
    BY <2>1, <2>4
<1> QED
  BY <1>1, <1>3, <1>4

\* A step of a main process keeps what is true of the queues.
LEMMA MainWorld ==
  ASSUME NEW m, StepOfMain(m), Typed, QueueWorld, Step(m) \/ Signal(m)
  PROVE  QueueWorld' /\ Follows(m)
<1>0. /\ MainsOK /\ KidsOK /\ MessagesOK /\ Parted /\ RemovedAtEnd /\ PulledAway
      /\ m \in QueueMains /\ QueueMainOK(m) /\ state[m] = "running" /\ program' = program
      /\ queues \in Nat
  BY DEF QueueWorld, StepOfMain, Typed
<1>1. Follows(m) /\ MainsOK'
  BY <1>0, MainOnward, MainsStay DEF Follows
<1>2. Moves(m) => KidsOK' /\ SentStays
  BY <1>0, <1>1, MovesKids
<1>3. UNCHANGED removed => RemovedAtEnd'
  BY <1>0, <1>1, EndStays
<1>4. ASSUME got'[m] = got[m], fds'[m] \subseteq fds[m] \/ got[m] # <<Nobody>>,
             removed \subseteq removed'
      PROVE  PulledAway'
  BY <1>0, <1>1, <1>4, PullStays
<1>5. SentStays /\ UNCHANGED messages => MessagesOK'
  BY <1>0, MessagesStay
<1>6. fds'[m] \subseteq fds[m] /\ UNCHANGED removed /\ linked'[KEY] \in {linked[KEY], Nobody}
      /\ linked'[MQ_NAME] \in {linked[MQ_NAME], Nobody} => Parted'
  BY <1>0, <1>1, PartedStays
<1>7. ASSUME KidsOK', SentStays, MessagesOK', Parted', RemovedAtEnd', PulledAway' PROVE QueueWorld'
  BY <1>1, <1>7 DEF QueueWorld
<1>8. CASE OpenQueue(m)
  <2>1. Moves(m) /\ UNCHANGED <<got, messages, removed>>
    BY <1>8, MainOpens
  <2>2. Parted'
    BY <1>0, <1>1, <1>8, PartedOpens
  <2>3. got[m] # <<Nobody>>
    <3>1. got[m] = <<>>
      BY <1>0, <1>8, MainPlaces, MainAt DEF OpenQueue, Calls, Call
    <3>2. <<>> # <<Nobody>>
      OBVIOUS
    <3> QED
      BY <3>1, <3>2
  <2> QED
    BY <1>1, <1>2, <1>3, <1>4, <1>5, <1>7, <2>1, <2>2, <2>3
<1>9. CASE Fork(m) /\ UNCHANGED <<queues, messages, removed>>
  <2>1. KidsOK' /\ SentStays
    BY <1>0, <1>1, <1>9, ForkKids
  <2>2. UNCHANGED <<got, linked>> /\ fds'[m] = fds[m]
    BY <1>9, QueueMainForks
  <2> QED
    BY <1>1, <1>3, <1>4, <1>5, <1>6, <1>7, <1>9, <2>1, <2>2
<1>10. CASE Fetch(m)
  <2>1. Moves(m) /\ UNCHANGED <<fds, linked, removed>>
    BY <1>10, MainFetches
  <2>2. MessagesOK' /\ PulledAway'
    BY <1>1, <1>2, <1>10, <2>1, FetchedWorld
  <2> QED
    BY <1>1, <1>2, <1>3, <1>6, <1>7, <2>1, <2>2
<1>11. CASE Close(m) /\ UNCHANGED <<queues, messages, removed>>
  <2>1. Moves(m) /\ UNCHANGED <<got, linked>> /\ fds'[m] = {}
    BY <1>11, MainCloses
  <2> QED
    BY <1>1, <1>2, <1>3, <1>4, <1>5, <1>6, <1>7, <1>11, <2>1
<1>12. CASE Waitpid(m) /\ UNCHANGED <<queues, messages, removed>>
  <2>1. Moves(m) /\ UNCHANGED <<got, fds, linked>>
    BY <1>12, MainAwaits
  <2> QED
    BY <1>1, <1>2, <1>3, <1>4, <1>5, <1>6, <1>7, <1>12, <2>1
<1>13. CASE Unlink(m) /\ UNCHANGED <<queues, messages, removed>>
  <2>1. /\ Moves(m) /\ UNCHANGED <<got, fds>>
        /\ linked' = [linked EXCEPT ![MQ_NAME] = Nobody]
    BY <1>13, MainUnlinks
  <2>2. linked'[KEY] \in {linked[KEY], Nobody} /\ linked'[MQ_NAME] \in {linked[MQ_NAME], Nobody}
    BY <2>1, CompanyAssumption DEF StepOfMain, Domains
  <2> QED
    BY <1>1, <1>2, <1>3, <1>4, <1>5, <1>6, <1>7, <1>13, <2>1, <2>2
<1>14. CASE Remove(m)
  <2> DEFINE q == Queue(m)
  <2>1. /\ program[m[1]] # "Posix" /\ todo[m] = ToRemove /\ todo'[m] = ToExit
        /\ Moves(m) /\ UNCHANGED <<state, got, fds, queues, messages>>
        /\ removed' = removed \cup {q}
        /\ linked' = [linked EXCEPT ![KEY] = IF @ = q THEN Nobody ELSE @]
    BY <1>14, MainRemoves
  <2>2. q \in fds[m] /\ got[m] # <<>> /\ Keyed(m)
    <3>1. ToRemove \in Received(program[m[1]]) \ {ToUnlinkQueue}
      BY <1>0, <2>1, QueueMain, PlacesDiffer
    <3>2. OneQueue(m) /\ got[m] # <<>>
      BY <1>0, <2>1, <3>1, MainAt
    <3> QED
      BY <1>0, <2>1, <3>2, QueueMain DEF OneQueue, Queue
  <2> HIDE DEF q
  <2>3. linked'[KEY] \in {linked[KEY], Nobody} /\ linked'[MQ_NAME] = linked[MQ_NAME]
    BY <2>1, CompanyAssumption DEF StepOfMain, Domains
  <2>4. Parted'
    BY <1>0, <1>1, <2>1, <2>2, <2>3, PartedRemoves
  <2>5. RemovedAtEnd'
    BY <1>0, <1>1, <2>1, <2>2, FollowsFacts DEF RemovedAtEnd, HasLeft
  <2> QED
    BY <1>1, <1>2, <1>4, <1>5, <1>7, <2>1, <2>4, <2>5
<1>15. CASE (Exit(m) /\ UNCHANGED <<queues, messages, removed>>) \/ Signal(m)
  <2>1. Moves(m) /\ fds'[m] = {} /\ UNCHANGED <<got, linked, queues, messages, removed>>
    BY <1>15, MainEnds DEF Signal
  <2> QED
    BY <1>1, <1>2, <1>3, <1>4, <1>5, <1>6, <1>7, <2>1
<1> QED
  BY <1>0, <1>8, <1>9, <1>10, <1>11, <1>12, <1>13, <1>14, <1>15, MainPlaces, QueueStepIs

------------------------------------------------------------
\* Who is to take a name away stays on the way there, unless something fails.
LEMMA BusyStays ==
  ASSUME NEW m, StepOfMain(m), Typed, Busy(m), Step(m) \/ Signal(m), Undisturbed'
  PROVE  \/ Busy(m)' /\ UNCHANGED linked /\ (Keyed(m) => fds'[m] = fds[m])
         \/ Runs(m, "Posix") /\ linked' = [linked EXCEPT ![MQ_NAME] = Nobody]
         \/ Keyed(m) /\ linked' = [linked EXCEPT ![KEY] = IF @ = Queue(m) THEN Nobody ELSE @]
            /\ UNCHANGED fds
<1> DEFINE name == program[m[1]]
           i == m[1]
<1>0. /\ m \in QueueMains /\ QueueMainOK(m) /\ state[m] = "running" /\ program' = program
      /\ name \in QueuePrograms /\ (Runs(m, "Posix") <=> name = "Posix") /\ (Keyed(m) <=> name # "Posix")
      /\ failures \in Nat
  BY QueueMain DEF StepOfMain, Typed, QueuePrograms
<1>1. Undisturbed /\ failures' = 0 /\ failures = 0
  BY <1>0, Counts DEF StepOfMain, Undisturbed, QueueMains, MainProcs
<1>2. todo[m] \in {ToFork(name, i), ToFetch(name)} \/ todo[m] \in Received(name)
  BY DEF Busy
<1>3. todo'[m] = ToFetch(name) \/ todo'[m] \in Received(name) => Busy(m)'
  BY <1>0 DEF Busy
<1>4. todo[m] \notin {Script(i, name), ToExit, ToFail}
  <2> HIDE DEF i, name
  <2> QED
    BY <1>0, <1>2, PlacesDiffer
<1>5. /\ ToLeave(name) \in Received(name)
      /\ name # "Posix" => ToRemove \in Received(name)
      /\ name = "Posix" => ToUnlinkQueue \in Received(name)
  BY <1>0, PlacesDiffer
<1>6. CASE OpenQueue(m)
  BY <1>4, <1>6, MainOpens
<1>7. CASE Fork(m)
  <2>1. todo'[m] = ToFetch(name) /\ UNCHANGED linked /\ fds'[m] = fds[m]
    BY <1>1, <1>7, QueueMainForks
  <2> QED
    BY <1>3, <2>1
<1>8. CASE Fetch(m)
  <2>1. todo'[m] = ToLeave(name) /\ UNCHANGED <<linked, fds>>
    BY <1>8, MainFetches
  <2> QED
    BY <1>3, <1>5, <2>1
<1>9. CASE Close(m)
  <2>1. name = "Posix" /\ todo'[m] = ToUnlinkQueue /\ UNCHANGED linked
    BY <1>9, MainCloses
  <2> QED
    BY <1>0, <1>3, <1>5, <2>1
<1>10. CASE Waitpid(m)
  <2>1. name = "HelloSysV" /\ todo'[m] = ToRemove /\ UNCHANGED <<linked, fds>>
    BY <1>10, MainAwaits
  <2> QED
    BY <1>3, <1>5, <2>1
<1>11. CASE Unlink(m)
  BY <1>0, <1>11, MainUnlinks
<1>12. CASE Remove(m)
  BY <1>0, <1>12, MainRemoves
<1>13. CASE Exit(m) \/ Signal(m)
  <2>1. todo[m] \in {ToExit, ToFail} \/ ~(Undisturbed')
    BY <1>13, MainEnds
  <2> QED
    BY <1>4, <2>1
<1> QED
  BY <1>0, <1>6, <1>7, <1>8, <1>9, <1>10, <1>11, <1>12, <1>13, MainPlaces, QueueStepIs

\* A name is given by an open, and taken away by an unlink or a removal.
LEMMA MainNames ==
  ASSUME NEW m, StepOfMain(m), Typed, Step(m) \/ Signal(m)
  PROVE  LET Q == QueueName(program[m[1]]) IN
         \/ \A n \in Names : linked'[n] \in {linked[n], Nobody}
         \/ /\ todo'[m] = ToFork(program[m[1]], m[1]) /\ fds'[m] = {linked'[Q]}
            /\ \A n \in Names : n # Q => linked'[n] = linked[n]
<1>0. /\ m \in QueueMains /\ QueueMainOK(m) /\ state[m] = "running" /\ DOMAIN linked = Names
      /\ MQ_NAME \in Names /\ KEY \in Names
  BY CompanyAssumption DEF StepOfMain, Domains
<1>1. CASE OpenQueue(m)
  <2> DEFINE Q == QueueName(program[m[1]])
  <2>1. \/ UNCHANGED linked
        \/ /\ todo'[m] = ToFork(program[m[1]], m[1]) /\ fds'[m] = {queues'}
           /\ linked' = [linked EXCEPT ![Q] = queues']
    BY <1>1, MainOpens
  <2>2. Q \in Names
    BY <1>0 DEF QueueName
  <2> HIDE DEF Q
  <2>3. CASE UNCHANGED linked
    BY <2>3
  <2>4. CASE /\ todo'[m] = ToFork(program[m[1]], m[1]) /\ fds'[m] = {queues'}
             /\ linked' = [linked EXCEPT ![Q] = queues']
    <3>1. linked'[Q] = queues' /\ \A n \in Names : n # Q => linked'[n] = linked[n]
      BY <1>0, <2>2, <2>4
    <3> QED
      BY <2>4, <3>1 DEF Q
  <2> QED
    BY <2>1, <2>3, <2>4
<1>2. CASE \/ UNCHANGED linked \/ linked' = [linked EXCEPT ![MQ_NAME] = Nobody]
           \/ \E q : linked' = [linked EXCEPT ![KEY] = IF @ = q THEN Nobody ELSE @]
  <2>1. \A n \in Names : linked'[n] \in {linked[n], Nobody}
    BY <1>0, <1>2
  <2> QED
    BY <2>1
<1>3. CASE Remove(m)
  <2>1. linked' = [linked EXCEPT ![KEY] = IF @ = Queue(m) THEN Nobody ELSE @]
    BY <1>3, MainRemoves
  <2> QED
    BY <1>2, <2>1
<1>4. CASE Unlink(m)
  BY <1>2, <1>4, MainUnlinks
<1>5. CASE Fork(m) \/ Fetch(m) \/ Close(m) \/ Waitpid(m) \/ Exit(m) \/ Signal(m)
  BY <1>2, <1>5 DEF Fork, Fetch, Close, Waitpid, Exit, Signal, Kill
<1> QED
  BY <1>0, <1>1, <1>3, <1>4, <1>5, MainPlaces, QueueStepIs

\* Who uses a queue and does not move uses it still.
LEMMA BusyStill ==
  ASSUME NEW w, Still(w), program' = program, Busy(w)
  PROVE  Busy(w)'
  BY DEF Busy, Still

\* What others hold stays held.
LEMMA OthersHold ==
  ASSUME NEW p, Follows(p), p \notin QueueMains, QueueNamesHeld, Undisturbed' => Undisturbed,
         linked'[MQ_NAME] = linked[MQ_NAME], linked'[KEY] = linked[KEY]
  PROVE  QueueNamesHeld'
<1> SUFFICES ASSUME Undisturbed'
             PROVE  /\ linked'[MQ_NAME] # Nobody => \E m \in QueueMains' : Runs(m, "Posix")' /\ Busy(m)'
                    /\ linked'[KEY] # Nobody =>
                         \E m \in QueueMains' : Keyed(m)' /\ Busy(m)' /\ fds'[m] = {linked'[KEY]}
  BY DEF QueueNamesHeld
<1>1. /\ linked[MQ_NAME] # Nobody => \E m \in QueueMains : Runs(m, "Posix") /\ Busy(m)
      /\ linked[KEY] # Nobody => \E m \in QueueMains : Keyed(m) /\ Busy(m) /\ fds[m] = {linked[KEY]}
  BY DEF QueueNamesHeld
<1>2. \A w \in QueueMains : fds'[w] = fds[w] /\ (Busy(w) => Busy(w)')
  BY FollowsFacts, BusyStill DEF Follows, OthersStill, Still
<1> QED
  BY <1>1, <1>2, FollowsFacts

\* A step of a main process keeps the names it has still to take away.
LEMMA MainHolds ==
  ASSUME NEW m, StepOfMain(m), Typed, Follows(m), QueueNamesHeld, Step(m) \/ Signal(m)
  PROVE  QueueNamesHeld'
<1> DEFINE name == program[m[1]]
           Q == QueueName(name)
<1> SUFFICES ASSUME Undisturbed'
             PROVE  /\ linked'[MQ_NAME] # Nobody => \E w \in QueueMains' : Runs(w, "Posix")' /\ Busy(w)'
                    /\ linked'[KEY] # Nobody =>
                         \E w \in QueueMains' : Keyed(w)' /\ Busy(w)' /\ fds'[w] = {linked'[KEY]}
  BY DEF QueueNamesHeld
<1>0. /\ m \in QueueMains /\ program' = program /\ m \in Procs
      /\ name \in QueuePrograms /\ (Runs(m, "Posix") <=> name = "Posix") /\ (Keyed(m) <=> name # "Posix")
      /\ DOMAIN linked = Names /\ MQ_NAME \in Names /\ KEY \in Names /\ MQ_NAME # KEY
  BY QueueMain, CompanyAssumption DEF StepOfMain, QueuePrograms, Domains
<1>1. /\ linked[MQ_NAME] # Nobody => \E w \in QueueMains : Runs(w, "Posix") /\ Busy(w)
      /\ linked[KEY] # Nobody => \E w \in QueueMains : Keyed(w) /\ Busy(w) /\ fds[w] = {linked[KEY]}
  BY <1>0, Counts DEF QueueNamesHeld
<1>2. \A w \in QueueMains : w # m => fds'[w] = fds[w] /\ (Busy(w) => Busy(w)')
  BY FollowsFacts, BusyStill DEF Follows, OthersStill, Still
<1>3. Busy(m) =>
         \/ Busy(m)' /\ UNCHANGED linked /\ (Keyed(m) => fds'[m] = fds[m])
         \/ Runs(m, "Posix") /\ linked' = [linked EXCEPT ![MQ_NAME] = Nobody]
         \/ Keyed(m) /\ linked' = [linked EXCEPT ![KEY] = IF @ = Queue(m) THEN Nobody ELSE @]
            /\ UNCHANGED fds
  BY BusyStays
<1>4. CASE \A n \in Names : linked'[n] \in {linked[n], Nobody}
  <2>1. ASSUME linked'[MQ_NAME] # Nobody PROVE \E w \in QueueMains : Runs(w, "Posix") /\ Busy(w)'
    <3>1. linked[MQ_NAME] # Nobody
      BY <1>0, <1>4, <2>1
    <3>2. PICK w \in QueueMains : Runs(w, "Posix") /\ Busy(w)
      BY <1>1, <3>1
    <3>3. CASE w = m
      <4>1. Busy(m)'
        BY <1>0, <1>3, <2>1, <3>2, <3>3
      <4> QED
        BY <3>2, <3>3, <4>1
    <3> QED
      BY <1>2, <3>2, <3>3
  <2>2. ASSUME linked'[KEY] # Nobody PROVE \E w \in QueueMains : Keyed(w) /\ Busy(w)' /\ fds'[w] = {linked'[KEY]}
    <3>1. linked[KEY] # Nobody /\ linked'[KEY] = linked[KEY]
      BY <1>0, <1>4, <2>2
    <3>2. PICK w \in QueueMains : Keyed(w) /\ Busy(w) /\ fds[w] = {linked[KEY]}
      BY <1>1, <3>1
    <3>3. CASE w = m
      <4>1. Queue(m) = linked[KEY]
        BY <3>2, <3>3 DEF Queue
      <4>2. linked' # [linked EXCEPT ![KEY] = IF @ = Queue(m) THEN Nobody ELSE @]
        BY <1>0, <2>2, <4>1
      <4>3. Busy(m)' /\ fds'[m] = fds[m]
        BY <1>0, <1>3, <3>2, <3>3, <4>2
      <4> QED
        BY <3>1, <3>2, <3>3, <4>3
    <3>4. CASE w # m
      <4>1. Busy(w)' /\ fds'[w] = fds[w]
        BY <1>2, <3>2, <3>4
      <4> QED
        BY <3>1, <3>2, <4>1
    <3> QED
      BY <3>3, <3>4
  <2> QED
    BY <2>1, <2>2, FollowsFacts
<1>5. CASE /\ todo'[m] = ToFork(name, m[1]) /\ fds'[m] = {linked'[Q]}
           /\ \A n \in Names : n # Q => linked'[n] = linked[n]
  <2>1. Busy(m)'
    BY <1>0, <1>5 DEF Busy
  <2>2. /\ name = "Posix" => Q = MQ_NAME
        /\ name # "Posix" => Q = KEY
    BY DEF QueueName
  <2> HIDE DEF Q, name
  <2>3. ASSUME linked'[MQ_NAME] # Nobody PROVE \E w \in QueueMains : Runs(w, "Posix") /\ Busy(w)'
    <3>1. CASE name = "Posix"
      BY <1>0, <2>1, <3>1
    <3>2. CASE name # "Posix"
      <4>1. PICK w \in QueueMains : Runs(w, "Posix") /\ Busy(w)
        BY <1>0, <1>1, <1>5, <2>2, <2>3, <3>2
      <4> QED
        BY <1>0, <1>2, <3>2, <4>1
    <3> QED
      BY <3>1, <3>2
  <2>4. ASSUME linked'[KEY] # Nobody PROVE \E w \in QueueMains : Keyed(w) /\ Busy(w)' /\ fds'[w] = {linked'[KEY]}
    <3>1. CASE name # "Posix"
      BY <1>0, <1>5, <2>1, <2>2, <3>1
    <3>2. CASE name = "Posix"
      <4>1. linked'[KEY] = linked[KEY]
        BY <1>0, <1>5, <2>2, <3>2
      <4>2. PICK w \in QueueMains : Keyed(w) /\ Busy(w) /\ fds[w] = {linked[KEY]}
        BY <1>1, <2>4, <4>1
      <4>3. w # m
        BY <1>0, <3>2, <4>2
      <4> QED
        BY <1>2, <4>1, <4>2, <4>3
    <3> QED
      BY <3>1, <3>2
  <2> QED
    BY <2>3, <2>4, FollowsFacts
<1> QED
  BY <1>4, <1>5, MainNames

------------------------------------------------------------
\* What a child calls, what it does, and that this keeps what is true of the queues
LEMMA KidCalls ==
  ASSUME NEW k, StepOfKid(k)
  PROVE  /\ program[k[1]] \in QueuePrograms /\ k = Kid(Main(k))
         /\ Call(k).call \in {"send", "close", "exit"}
         /\ Call(k).call = "send" <=> todo[k] = KidScript(program[k[1]], k[1])
         /\ Call(k).call = "send" => Call(k).message = k[1] /\ Tail(todo[k]) \in {ToCloseQueue, ToExit, ToFail}
         /\ Call(k).call = "close" => Tail(todo[k]) = ToExit
<1> DEFINE name == program[k[1]]
           i == k[1]
<1>1. name \in QueuePrograms
  BY KidsMain DEF StepOfKid
<1>2. k = Kid(Main(k)) /\ todo[k] \in {KidScript(name, i), ToCloseQueue, ToExit, ToFail}
  BY DEF StepOfKid, QueueKidOK, Kid, Main, Procs
<1> HIDE DEF name, i
<1>3. CASE todo[k] = KidScript(name, i)
  <2>1. Call(k).call = "send" /\ Call(k).message = i /\ Tail(todo[k]) \in {ToCloseQueue, ToExit, ToFail}
    BY <1>1, <1>3, QueueScripts DEF Call
  <2> QED
    BY <1>1, <1>2, <1>3, <2>1 DEF name, i
<1>4. CASE todo[k] = ToCloseQueue
  <2>1. Call(k).call = "close" /\ Tail(todo[k]) = ToExit
    BY <1>4, LeavingScripts DEF Call
  <2>2. todo[k] # KidScript(name, i)
    BY <1>1, <1>4, HeadCalls
  <2> QED
    BY <1>1, <1>2, <2>1, <2>2 DEF name, i
<1>5. CASE todo[k] \in {ToExit, ToFail}
  <2>1. Call(k).call = "exit"
    BY <1>5, LeavingScripts DEF Call
  <2>2. todo[k] # KidScript(name, i)
    BY <1>1, <1>5, HeadCalls
  <2> QED
    BY <1>1, <1>2, <2>1, <2>2 DEF name, i
<1> QED
  BY <1>2, <1>3, <1>4, <1>5

LEMMA KidDoes ==
  ASSUME NEW k, StepOfKid(k), Step(k) \/ Signal(k)
  PROVE  /\ Moves(k) /\ UNCHANGED <<got, linked, queues, removed>>
         /\ \/ state'[k] = "running" /\ todo'[k] \in {ToCloseQueue, ToExit, ToFail}
            \/ state'[k] \notin {"running", "none"} /\ todo'[k] = <<>>
         /\ \/ UNCHANGED messages
            \/ /\ todo[k] = KidScript(program[k[1]], k[1])
               /\ \E q : messages' = [messages EXCEPT ![q] = Append(@, k[1])]
<1>0. Domains /\ k \in Procs /\ state[k] = "running" /\ program' = program
  BY DEF StepOfKid
<1>1. CASE Send(k)
  <2>1. UNCHANGED <<state, fds, got, linked, queues, removed>>
    BY <1>1 DEF Send
  <2>2. Moves(k) /\ todo'[k] = Tail(todo[k]) /\ state'[k] = state[k]
    BY <1>0, <1>1, <2>1, ContinueMoves DEF Send, Proceed
  <2>3. todo[k] = KidScript(program[k[1]], k[1]) /\ Call(k).message = k[1] /\ Tail(todo[k]) \in {ToCloseQueue, ToExit, ToFail}
    BY <1>1, KidCalls DEF Send, Calls, Call
  <2>4. UNCHANGED messages \/ \E q : messages' = [messages EXCEPT ![q] = Append(@, k[1])]
    BY <1>1, <2>3 DEF Send
  <2> QED
    BY <1>0, <2>1, <2>2, <2>3, <2>4
<1>2. CASE Close(k) /\ UNCHANGED <<queues, messages, removed>>
  <2>1. UNCHANGED <<state, got, linked>> /\ \A y \in Procs \ {k} : fds'[y] = fds[y]
    BY <1>0, <1>2 DEF Close, Domains
  <2>2. Moves(k) /\ todo'[k] = Tail(todo[k]) /\ state'[k] = state[k]
    BY <1>0, <1>2, <2>1, ContinueMoves DEF Close, Proceed
  <2>3. Tail(todo[k]) = ToExit
    BY <1>2, KidCalls DEF Close, Calls, Call
  <2> QED
    BY <1>0, <1>2, <2>1, <2>2, <2>3
<1>3. CASE (Exit(k) /\ UNCHANGED <<queues, messages, removed>>) \/ Signal(k)
  <2>1. UNCHANGED <<got, linked, queues, messages, removed>> /\ \E how : Ends(k, how)
    BY <1>3 DEF Exit, Signal, Kill
  <2>2. Moves(k) /\ todo'[k] = <<>> /\ state'[k] \notin {"running", "none"}
    BY <1>0, <2>1, EndsMoves
  <2> QED
    BY <2>1, <2>2
<1> QED
  BY <1>1, <1>2, <1>3, KidCalls, QueueStepIs

LEMMA KidWorld ==
  ASSUME NEW k, StepOfKid(k), Typed, QueueWorld, Step(k) \/ Signal(k)
  PROVE  QueueWorld' /\ Follows(k)
<1> DEFINE name == program[k[1]]
           i == k[1]
<1>0. /\ MainsOK /\ KidsOK /\ MessagesOK /\ Parted /\ RemovedAtEnd /\ PulledAway
      /\ k \in Procs /\ Queued(k) /\ k # Main(k) /\ QueueKidOK(k) /\ state[k] = "running"
      /\ program' = program /\ queues \in Nat
  BY DEF QueueWorld, StepOfKid, Typed
<1>1. name \in QueuePrograms /\ k = Kid(Main(k)) /\ Main(k)[1] = i
  BY KidCalls DEF Main
<1>2. k \notin QueueMains
  BY <1>0, QueueMain
<1>3. /\ Moves(k) /\ UNCHANGED <<got, linked, queues, removed>>
      /\ \/ state'[k] = "running" /\ todo'[k] \in {ToCloseQueue, ToExit, ToFail}
         \/ state'[k] \notin {"running", "none"} /\ todo'[k] = <<>>
      /\ \/ UNCHANGED messages
         \/ /\ todo[k] = KidScript(name, i)
            /\ \E q : messages' = [messages EXCEPT ![q] = Append(@, i)]
  BY KidDoes
<1>4. Follows(k)
  BY <1>0, <1>2, <1>3, MovesStill DEF Follows, OthersStill
<1>5. MainsOK' /\ RemovedAtEnd' /\ PulledAway' /\ Parted'
  BY <1>0, <1>2, <1>3, <1>4, MainsStay, EndStays, PullStays, PartedStays
<1>6. todo'[k] # KidScript(name, i) /\ state'[k] # "none"
  <2> HIDE DEF name, i
  <2>1. KidScript(name, i) \notin {ToCloseQueue, ToExit, ToFail, <<>>}
    BY <1>1, HeadCalls, QueueScripts
  <2> QED
    BY <1>3, <2>1
<1>7. QueueKidOK(k)'
  <2>1. todo[Main(k)] \notin {Script(i, name), ToFork(name, i)}
    BY <1>0 DEF QueueKidOK
  <2>2. Main(k) \in QueueMains
    BY <1>0, KidsMain
  <2>3. todo'[Main(k)] = todo[Main(k)]
    BY <1>2, <1>4, <2>2, FollowsFacts DEF Still
  <2> QED
    BY <1>0, <1>3, <2>1, <2>3 DEF QueueKidOK
<1>8. ASSUME NEW y \in Procs, Queued(y), y # Main(y)
      PROVE  /\ QueueKidOK(y)'
             /\ y # k => todo'[y] = todo[y] /\ (state[y] # "none" => state'[y] # "none")
  BY <1>0, <1>3, <1>4, <1>7, <1>8, KidStays
<1>9. SentStays
  <2> HIDE DEF name, i
  <2>1. ASSUME NEW y \in Procs, Queued(y), y # Main(y), state[y] # "none",
               todo[y] # KidScript(program[y[1]], y[1])
        PROVE  state'[y] # "none" /\ todo'[y] # KidScript(program[y[1]], y[1])
    BY <1>6, <1>8, <2>1 DEF name, i
  <2> QED
    BY <2>1 DEF SentStays
<1>10. KidsOK'
  <2>1. \A y \in Procs : Queued(y)' /\ y # Main(y) => QueueKidOK(y)'
    BY <1>0, <1>8, SameQueued
  <2> QED
    BY <2>1 DEF KidsOK, Procs, Main
<1>11. MessagesOK'
  <2>1. CASE UNCHANGED messages
    BY <1>0, <1>9, <2>1, MessagesStay
  <2>2. ASSUME todo[k] = KidScript(name, i), NEW q, messages' = [messages EXCEPT ![q] = Append(@, i)]
        PROVE  MessagesOK'
    <3>1. k = <<i, 1>>
      BY <1>1 DEF Kid
    <3>2. ~HasSent(i)
      BY <2>2, <3>1 DEF HasSent
    <3>3. HasSent(i)'
      <4>1. Queued(k)'
        BY <1>0, SameQueued
      <4>2. k \in Procs' /\ program' = program
        BY <1>0 DEF Procs
      <4> QED
        BY <1>6, <3>1, <4>1, <4>2 DEF HasSent
    <3> HIDE DEF i
    <3> QED
      BY <1>0, <1>9, <2>2, <3>2, <3>3, MessagesSent
  <2> QED
    BY <1>3, <2>1, <2>2
<1> QED
  BY <1>4, <1>5, <1>10, <1>11 DEF QueueWorld

------------------------------------------------------------
\* What servers and clients call, of what matters elsewhere
LEMMA SocketCalling ==
  ASSUME IInv, NEW p \in SocketProcs, state[p] = "running"
  PROVE  /\ WellCalled(p)
         /\ Call(p).call \in {"unlink", "bind", "listen", "accept", "closeAll", "read", "write",
                              "close", "exit", "connect"}
         /\ Call(p).call \in {"unlink", "bind", "connect"} => Call(p).name = SOCKET_PATH
<1>1. p \in Procs /\ p[1] \in Message /\ Up(p) \in Pipe /\ Down(p) \in Pipe
  BY SocketProc DEF Procs, Message
<1>2. CASE todo[p] \in {Server, ToUnlink}
  <2>1. Call(p) = unlink(SOCKET_PATH)
    BY <1>2, ServerScript DEF Call
  <2> QED
    BY <2>1 DEF unlink, WellCalled
<1>3. CASE todo[p] = ToBind
  <2>1. Call(p) = bind(SOCKET_PATH, ToGiveUp)
    BY <1>3, ServerScript DEF Call
  <2> QED
    BY <2>1 DEF bind, WellCalled
<1>4. CASE todo[p] \in {ToListen, ToAccept, ToCloseAll, ToGiveUp, ToClose}
  <2>1. Call(p).call \in {"listen", "accept", "closeAll"}
    BY <1>4, Calling DEF Call
  <2> QED
    BY <2>1 DEF WellCalled
<1>5. CASE todo[p] \in {ToExit, ToFail}
  <2>1. Call(p).call = "exit" /\ Call(p).code \in {0, 1}
    BY <1>5, Calling DEF Call
  <2> QED
    BY <2>1 DEF WellCalled, Codes
<1>6. ASSUME NEW c \in Asking, todo[p] \in {ToHear(c, p), ToAnswer(c, p), ToHangUp(c)}
      PROVE  WellCalled(p) /\ Call(p).call \in {"read", "write", "close"}
  <2>1. Up(c) \in Pipe
    BY SocketProc DEF SocketProcs
  <2>2. CASE todo[p] = ToHear(c, p)
    <3>1. Call(p) = read(Up(c), <<>>)
      BY <2>2, ServeScript DEF Call
    <3> QED
      BY <2>1, <3>1 DEF read, WellCalled
  <2>3. CASE todo[p] = ToAnswer(c, p)
    <3>1. Call(p) = write(Down(c), p[1])
      BY <2>3, ServeScript DEF Call
    <3> QED
      BY <1>1, <3>1 DEF write, WellCalled
  <2>4. CASE todo[p] = ToHangUp(c)
    <3>1. Call(p).call = "close"
      BY <2>4, Calling DEF Call
    <3> QED
      BY <3>1 DEF WellCalled
  <2> QED
    BY <1>6, <2>2, <2>3, <2>4
<1>7. CASE todo[p] = Client(p)
  <2>1. Call(p) = connect(SOCKET_PATH, ToGiveUp)
    BY <1>7, ClientScript DEF Call
  <2> QED
    BY <2>1 DEF connect, WellCalled
<1>8. CASE todo[p] = ToAsk(p)
  <2>1. Call(p) = write(Up(p), p[1])
    BY <1>8, ClientScript DEF Call
  <2> QED
    BY <1>1, <2>1 DEF write, WellCalled
<1>9. CASE todo[p] = ToRead(p)
  <2>1. Call(p) = read(Down(p), <<>>)
    BY <1>9, ClientScript DEF Call
  <2> QED
    BY <1>1, <2>1 DEF read, WellCalled
<1>10. CASE p \in Serving
  <2>1. ServerStage(p)
    BY <1>10 DEF IInv, ServerOK
  <2> QED
    BY <1>2, <1>3, <1>4, <1>5, <1>6, <2>1 DEF ServerStage
<1>11. CASE p \in Asking
  <2>1. todo[p] \in {Client(p), ToAsk(p), ToRead(p), ToClose, ToExit, ToGiveUp, ToFail}
    BY <1>11 DEF IInv, ClientOK
  <2> QED
    BY <1>4, <1>5, <1>7, <1>8, <1>9, <2>1
<1> QED
  BY <1>10, <1>11 DEF SocketProcs

\* Servers and clients leave queues, and what is open for queues, alone.
LEMMA SocketFrame ==
  ASSUME IInv, NEW p \in SocketProcs, Step(p) \/ Signal(p)
  PROVE  /\ program' = program /\ UNCHANGED <<queues, messages, removed>>
         /\ \A n \in Names \ {SOCKET_PATH} : linked'[n] = linked[n]
         /\ \A y \in Procs : Queued(y) => Still(y)
<1>0. /\ p \in Procs /\ state[p] = "running" /\ DOMAIN linked = Names /\ DOMAIN fds = Procs
      /\ DOMAIN got = Procs /\ ~Queued(p)
      /\ linked[SOCKET_PATH] \in Serving \cup {Nobody}
  BY SocketProc, StrangerRuns DEF IInv, Shape, Domains, Reachable, Socketed, Queued, Runs, SocketPrograms, QueuePrograms
<1>1. /\ program' = program
      /\ \A y \in Procs \ {p} : todo'[y] = todo[y] /\ state'[y] = state[y]
  BY SocketMoves
<1>2. /\ Call(p).call \in {"unlink", "bind", "listen", "accept", "closeAll", "read", "write",
                              "close", "exit", "connect"}
      /\ Call(p).call \in {"unlink", "bind", "connect"} => Call(p).name = SOCKET_PATH
  BY <1>0, SocketCalling
<1>3. ~QueueStep(p)
  BY <1>2 DEF QueueStep, OpenQueue, Send, Fetch, Remove, Calls, Call
<1>4. UNCHANGED <<queues, messages, removed>>
  BY <1>3 DEF Step, Signal
<1>5. \A n \in Names \ {SOCKET_PATH} : linked'[n] = linked[n]
  <2>1. UNCHANGED linked \/ \E x : linked' = [linked EXCEPT ![SOCKET_PATH] = x]
    <3>1. CASE Unlink(p)
      BY <1>2, <3>1 DEF Unlink, Calls, Call
    <3>2. CASE Bind(p)
      BY <1>2, <3>2 DEF Bind, Calls, Call
    <3>3. CASE ~Unlink(p) /\ ~Bind(p)
      BY <1>3, <3>3 DEF Step, Signal, Kill, ProcessStep, Fork, Exec, Exit, Close, Waitpid, Getline,
        PipeStep, MakePipe, Write, Read, Filter, SocketStep, Listen, Connect, Accept, CloseAll
    <3> QED
      BY <3>1, <3>2, <3>3
  <2> QED
    BY <1>0, <2>1
<1>6. \A y \in Procs \ {p} : got'[y] = got[y]
  <2>1. UNCHANGED got \/ \E x : got' = [got EXCEPT ![p] = x]
    BY <1>3 DEF Step, Signal, Kill, ProcessStep, Fork, Exec, Exit, Close, Waitpid, Unlink, Getline,
        PipeStep, MakePipe, Write, Read, Filter, SocketStep, Bind, Listen, Connect, Accept, CloseAll
  <2> QED
    BY <1>0, <2>1, SMTT(30)
<1>7. \A y \in Procs \ {p} : fds'[y] = fds[y] \/ y \in Serving
  <2>1. CASE Connect(p)
    <3>1. CASE UNCHANGED fds
      BY <3>1
    <3>2. CASE \E a, b : fds' = [fds EXCEPT ![p] = a, ![linked[SOCKET_PATH]] = b] /\ p # Nobody
               /\ linked[SOCKET_PATH] # Nobody
      BY <1>0, <3>2
    <3>3. Call(p).name = SOCKET_PATH
      BY <1>2, <2>1 DEF Connect, Calls, Call
    <3>4. Nobody \notin Procs
      BY CompanyAssumption
    <3> QED
      BY <1>0, <2>1, <3>1, <3>2, <3>3, <3>4 DEF Connect, Listening
  <2>2. CASE ~Connect(p)
    <3>1. UNCHANGED fds \/ (\E x : fds' = [fds EXCEPT ![p] = x])
      <4>1. CASE Step(p)
        BY <1>2, <2>2, <4>1, QueueStepIs, StepIs DEF Unlink, Bind, Listen, Accept, CloseAll, Read, Write,
          Close, Exit, Ends
      <4>2. CASE Signal(p)
        BY <4>2 DEF Signal, Kill, Ends
      <4> QED
        BY <4>1, <4>2
    <3> QED
      BY <1>0, <3>1
  <2> QED
    BY <2>1, <2>2
<1>8. \A y \in Procs : Queued(y) => y # p /\ y \notin Serving
  BY <1>0 DEF Serving, Queued, Runs, QueuePrograms
<1> QED
  BY <1>1, <1>4, <1>5, <1>6, <1>7, <1>8 DEF Still

\* So does everybody else that uses no queue.
LEMMA ApartFrame ==
  ASSUME IInv, ApartOK, NEW p \in Procs, Apart(p), Step(p) \/ Signal(p)
  PROVE  /\ program' = program /\ UNCHANGED <<queues, messages, removed, linked>>
         /\ \A y \in Procs : Queued(y) => Still(y)
<1>1. p \in Strangers
  BY DEF Strangers, Apart, Socketed, Serving, Asking, SocketPrograms
<1>2. Goes(p) /\ program' = program
  BY <1>1, StrangerStep DEF IInv, Elsewhere
<1>3. \A y \in Procs : Queued(y) => y[1] # p[1]
  BY DEF Apart, Queued, Runs
<1> QED
  BY <1>2, <1>3, ApartElsewhere DEF Goes, SameAt, Still

\* ... and what is true of the queues stays true.
LEMMA OthersWorld ==
  ASSUME QueueWorld, QueueNamesHeld, Typed, NEW p \in Procs, ~Queued(p),
         program' = program, UNCHANGED <<queues, messages, removed>>,
         linked'[MQ_NAME] = linked[MQ_NAME], linked'[KEY] = linked[KEY],
         \A y \in Procs : Queued(y) => Still(y), Undisturbed' => Undisturbed
  PROVE  QueueWorld' /\ QueueNamesHeld'
<1>0. /\ MainsOK /\ KidsOK /\ MessagesOK /\ Parted /\ RemovedAtEnd /\ PulledAway /\ queues \in Nat
  BY DEF QueueWorld, Typed
<1>1. p \notin QueueMains /\ \A y \in QueueMains : y \in Procs /\ Queued(y)
  BY DEF QueueMains, MainProcs
<1>2. Follows(p)
  BY <1>0, <1>1 DEF Follows, OthersStill
<1>3. MainsOK' /\ RemovedAtEnd' /\ PulledAway' /\ Parted' /\ QueueNamesHeld'
  BY <1>0, <1>1, <1>2, MainsStay, EndStays, PullStays, PartedStays, OthersHold
<1>4. ASSUME NEW k \in Procs, Queued(k), k # Main(k) PROVE QueueKidOK(k)'
  <2>1. Main(k) \in Procs /\ Queued(Main(k))
    BY <1>1, <1>4, KidsMain
  <2>2. Still(k) /\ Still(Main(k)) /\ QueueKidOK(k)
    BY <1>0, <1>4, <2>1 DEF KidsOK
  <2> QED
    BY <2>2 DEF QueueKidOK, Still
<1>5. KidsOK'
  <2>1. \A k \in Procs : Queued(k)' /\ k # Main(k) => QueueKidOK(k)'
    BY <1>4, SameQueued
  <2> QED
    BY <2>1 DEF KidsOK, Procs, Main
<1>6. SentStays
  BY DEF SentStays, Still
<1>7. MessagesOK'
  BY <1>0, <1>6, MessagesStay
<1> QED
  BY <1>3, <1>5, <1>7 DEF QueueWorld

------------------------------------------------------------
\* A server that runs on leaves no name behind: it dies of no client that is not killed.
LEMMA ServerAnswered ==
  ASSUME IInv, NEW p \in Serving, Step(p), NEW c \in Asking, c \notin Backlog(p),
         todo[p] = ToAnswer(c, p), Undisturbed
  PROVE  todo'[p] = ToHangUp(c) /\ UNCHANGED linked
<1> USE DEF SocketProcs
<1>1. Shape /\ Others /\ ServerOK(p) /\ ClientOK(c) /\ todo[c] = ToRead(c)
  BY DEF IInv, Patience
<1>2. W(Down(c)) \in fds[p]
  <2>1. Waits(c, p) /\ Holding(p)
    BY DEF Waits, Holding
  <2> QED
    BY <1>1, <2>1 DEF ServerOK, EndsFor
<1>3. c \in Open(R(Down(c)))
  <2>1. fds[c] = {W(Up(c)), R(Down(c))}
    BY <1>1 DEF ClientOK
  <2> QED
    BY <2>1, SocketProc DEF Open
<1> DEFINE n == Down(c)
           m == p[1]
<1>4. n \in Pipe /\ Head(todo[p]) = write(n, m) /\ Tail(todo[p]) = ToHangUp(c) /\ W(n) \in fds[p]
      /\ Open(R(n)) # {}
  BY <1>2, <1>3, ServeScript, SocketProc
<1> HIDE DEF n, m
<1> QED
  BY <1>1, <1>4, Sends

\* After a step of a server the name is free, its own, or whose it was.
LEMMA ServerNames ==
  ASSUME IInv, NEW p \in Serving, Step(p), Undisturbed
  PROVE  \/ linked'[SOCKET_PATH] = Nobody
         \/ linked'[SOCKET_PATH] = p /\ todo'[p] \notin Nameless
         \/ linked'[SOCKET_PATH] = linked[SOCKET_PATH]
            /\ (todo[p] \notin Nameless => todo'[p] \notin Nameless)
<1> USE DEF SocketProcs
<1>0. Shape /\ Others /\ ServerStage(p) /\ p \in Procs
  BY StepIs, SocketProc DEF IInv, ServerOK
<1>1. CASE todo[p] \in {Server, ToUnlink}
  BY <1>0, <1>1, Unlinks, ServerScript
<1>2. CASE todo[p] = ToBind
  <2>1. ToListen \notin Nameless /\ ToBind \in Nameless
    BY Places DEF Nameless, After
  <2> QED
    BY <1>0, <1>2, <2>1, Binds
<1>3. CASE todo[p] = ToListen
  <2>1. ToAccept \notin Nameless
    BY Places DEF Nameless, Before, After
  <2> QED
    BY <1>0, <1>3, <2>1, Listens
<1>4. CASE todo[p] = ToAccept
  <2>1. \A c : ToHear(c, p) \notin Nameless
    BY Places DEF Nameless, Before, After
  <2> QED
    BY <1>0, <1>4, <2>1, Accepts
<1>5. ASSUME NEW c \in Asking, todo[p] = ToHear(c, p)
      PROVE  todo'[p] \notin Nameless /\ UNCHANGED linked
  <2> DEFINE n == Up(c)
  <2>1. ToAnswer(c, p) \notin Nameless
    BY Places DEF Nameless, Before, After
  <2>2. n \in Pipe /\ Head(todo[p]) = read(n, <<>>) /\ Tail(todo[p]) = ToAnswer(c, p)
        /\ <<>> \o Tail(todo[p]) = Tail(todo[p])
    BY <1>5, ServeScript, SocketProc
  <2> HIDE DEF n
  <2> QED
    BY <1>0, <2>1, <2>2, Reads
<1>6. ASSUME NEW c \in Asking \ Backlog(p), todo[p] = ToAnswer(c, p)
      PROVE  todo'[p] \notin Nameless /\ UNCHANGED linked
  <2>1. ToHangUp(c) \notin Nameless
    BY Places DEF Nameless, Before, After
  <2> QED
    BY <1>6, <2>1, ServerAnswered
<1>7. ASSUME NEW c \in Asking, todo[p] = ToHangUp(c)
      PROVE  todo'[p] \notin Nameless /\ UNCHANGED linked
  <2>1. ToCloseAll \notin Nameless
    BY Places DEF Nameless, Before, After
  <2> QED
    BY <1>0, <1>7, <2>1, HangsUp
<1>8. CASE todo[p] = ToCloseAll
  <2>1. ToUnlink # <<>>
    BY DEF ToUnlink
  <2>2. ToUnlink # ToGiveUp
    BY Calling
  <2>3. ToUnlink \notin {Server, ToBind, ToFail, ToExit}
    BY ServerLengths
  <2>4. ToUnlink \notin Nameless
    BY <2>1, <2>2, <2>3 DEF Nameless
  <2> QED
    BY <1>0, <1>8, <2>4, ClosesAll, ServerScript
<1>9. CASE todo[p] = ToGiveUp
  BY <1>0, <1>9, ClosesAll, ServerScript DEF Nameless
<1>10. CASE todo[p] \in {ToExit, ToFail}
  BY <1>0, <1>10, Exits, ServerScript DEF Nameless, Gone
<1> QED
  BY <1>0, <1>1, <1>2, <1>3, <1>4, <1>5, <1>6, <1>7, <1>8, <1>9, <1>10 DEF ServerStage

\* Whoever takes a step, a name that leads to a server is one that is still to be taken away.
LEMMA SocketNameStays ==
  ASSUME IInv, Typed, SocketNameHeld, NEW p \in Procs, Step(p) \/ Signal(p)
  PROVE  SocketNameHeld'
<1> DEFINE q == linked[SOCKET_PATH]
<1> SUFFICES ASSUME Undisturbed', linked'[SOCKET_PATH] # Nobody
             PROVE  todo'[linked'[SOCKET_PATH]] \notin Nameless
  BY DEF SocketNameHeld, Nameless
<1>0. Undisturbed /\ (q # Nobody => todo[q] \notin Nameless)
  BY Counts DEF SocketNameHeld, Nameless
<1>1. q \in Serving \cup {Nobody} /\ \A y \in Serving : y \in Procs /\ y \in SocketProcs
  BY SocketProc DEF IInv, Reachable, SocketProcs
<1>2. CASE p \in Strangers
  <2>1. linked'[SOCKET_PATH] = q /\ \A y \in Serving : todo'[y] = todo[y]
    BY <1>2, StrangerKeeps DEF IInv, SameAt
  <2> QED
    BY <1>0, <1>1, <2>1
<1>3. Step(p) \/ ~Undisturbed'
  BY ProcessAssumption DEF Signal, Kill, Typed, Undisturbed
<1>4. CASE p \in Serving
  <2>1. \A y \in Procs \ {p} : todo'[y] = todo[y]
    BY <1>1, <1>4, SocketMoves
  <2> HIDE DEF q
  <2>2. \/ linked'[SOCKET_PATH] = Nobody
        \/ linked'[SOCKET_PATH] = p /\ todo'[p] \notin Nameless
        \/ linked'[SOCKET_PATH] = q /\ (todo[p] \notin Nameless => todo'[p] \notin Nameless)
    BY <1>0, <1>3, <1>4, ServerNames DEF q
  <2> QED
    BY <1>0, <1>1, <2>1, <2>2
<1>5. CASE p \in Asking
  <2>1. \A y \in Serving : todo'[y] = todo[y]
    BY <1>1, <1>5, SocketMoves, NotBoth DEF SocketProcs
  <2>2. ~Unlink(p) /\ ~Bind(p) /\ ~QueueStep(p)
    <3>1. todo[p] \in {Client(p), ToAsk(p), ToRead(p), ToClose, ToExit, ToGiveUp, ToFail}
      BY <1>3, <1>5, StepIs DEF IInv, ClientOK
    <3>2. Call(p).call \notin {"unlink", "bind", "open", "rmid", "send", "fetch"}
      BY <3>1, Calling, SMTT(30) DEF Call
    <3> QED
      BY <3>2 DEF Unlink, Bind, QueueStep, OpenQueue, Remove, Send, Fetch, Calls, Call
  <2>3. UNCHANGED linked
    BY <2>2 DEF Step, Signal, Kill, ProcessStep, Fork, Exec, Exit, Close, Waitpid, Getline,
        PipeStep, MakePipe, Write, Read, Filter, SocketStep, Listen, Connect, Accept, CloseAll
  <2> QED
    BY <1>0, <1>1, <2>1, <2>3
<1> QED
  BY <1>2, <1>4, <1>5 DEF Strangers

------------------------------------------------------------
\* Whoever runs is of one of four kinds.
LEMMA Kinds ==
  ASSUME IInv, Typed, QueueWorld, NEW p \in Procs, state[p] = "running", program' = program
  PROVE  StepOfMain(p) \/ StepOfKid(p) \/ Apart(p) \/ p \in SocketProcs
<1>1. Domains
  BY DEF IInv, Shape
<1>2. CASE Queued(p) /\ p = Main(p)
  <2>1. p \in QueueMains
    BY <1>2 DEF QueueMains, MainProcs
  <2> QED
    BY <1>1, <2>1 DEF QueueWorld, MainsOK, StepOfMain
<1>3. CASE Queued(p) /\ p # Main(p)
  BY <1>1, <1>3 DEF QueueWorld, KidsOK, StepOfKid
<1>4. CASE Socketed(p)
  BY <1>4 DEF IInv, Others, SocketProcs
<1> QED
  BY <1>2, <1>3, <1>4 DEF Apart

\* What the programs of a queue call is in order, too.
LEMMA MainCalled ==
  ASSUME NEW m, StepOfMain(m) PROVE WellCalled(m)
<1> DEFINE called == Call(m).call
<1>1. m \in QueueMains /\ QueueMainOK(m) /\ state[m] = "running" /\ Queued(m)
  BY QueueMain DEF StepOfMain
<1>2. called \in {"open", "fork", "fetch", "close", "waitpid", "unlink", "rmid", "exit"}
      /\ (called = "exit" => todo[m] \in {ToExit, ToFail})
  BY <1>1, MainPlaces
<1>3. called = "exit" => Call(m).code \in {0, 1}
  BY <1>2, LeavingScripts DEF Call
<1> QED
  BY <1>1, <1>2, <1>3 DEF WellCalled, Codes

LEMMA KidCalled ==
  ASSUME NEW k, StepOfKid(k) PROVE WellCalled(k)
<1> DEFINE called == Call(k).call
<1>1. called \in {"send", "close", "exit"} /\ program[k[1]] \in QueuePrograms
  BY KidCalls
<1>2. todo[k] \in {KidScript(program[k[1]], k[1]), ToCloseQueue, ToExit, ToFail}
  BY DEF StepOfKid, QueueKidOK
<1>3. called = "exit" => todo[k] \in {ToExit, ToFail}
  <2>1. Head(KidScript(program[k[1]], k[1])).call = "send" /\ Head(ToCloseQueue).call = "close"
    BY <1>1, HeadCalls
  <2> QED
    BY <1>2, <2>1 DEF Call
<1>4. called = "exit" => Call(k).code \in {0, 1}
  BY <1>3, LeavingScripts DEF Call
<1> QED
  BY <1>1, <1>4 DEF WellCalled, Codes

LEMMA AllWellCalled ==
  ASSUME IInv, Typed, QueueWorld, ApartOK, NEW p \in Procs, state[p] = "running", program' = program
  PROVE  WellCalled(p)
  BY Kinds, MainCalled, KidCalled, ApartCalls, SocketCalling

\* Who uses neither queues nor sockets keeps to that, whoever takes a step.
LEMMA ApartStays ==
  ASSUME IInv, Clean, ApartOK, NEW p \in Procs, Step(p) \/ Signal(p)
  PROVE  ApartOK'
<1>1. program' = program
  BY DEF Step, Signal
<1>2. \A y \in Procs : Apart(y)' <=> Apart(y)
  BY <1>1 DEF Apart, Queued, Socketed, Runs
<1>3. ASSUME NEW y \in Procs, Apart(y), state'[y] = "running"
      PROVE  BasicScript(todo'[y])
  <2>1. CASE Apart(p) /\ y[1] = p[1]
    BY <1>3, <2>1, ApartStep
  <2>2. CASE ~(Apart(p) /\ y[1] = p[1])
    <3>1. todo'[y] = todo[y] /\ state'[y] = state[y]
      <4>0. y[1] # p[1]
        BY <1>3, <2>2 DEF Apart, Queued, Socketed, Runs
      <4>1. CASE p \in Strangers
        BY <4>0, <4>1, StrangerStep DEF IInv, Goes, SameAt
      <4>2. CASE p \in SocketProcs
        BY <4>0, <4>2, SocketMoves
      <4> QED
        BY <4>1, <4>2 DEF Strangers, SocketProcs
    <3> QED
      BY <1>3, <3>1 DEF ApartOK
  <2> QED
    BY <2>1, <2>2
<1> QED
  BY <1>2, <1>3 DEF ApartOK, Procs

\* Nobody gives another name to anything.
LEMMA OtherNamesStay ==
  ASSUME IInv, Typed, QueueWorld, ApartOK, OtherNamesFree, NEW p \in Procs, Step(p) \/ Signal(p)
  PROVE  OtherNamesFree'
<1>1. state[p] = "running" /\ program' = program
  BY StrangerRuns DEF Step, Signal
<1> SUFFICES ASSUME NEW name \in Names \ {MQ_NAME, KEY, SOCKET_PATH}
             PROVE  linked'[name] = Nobody
  BY DEF OtherNamesFree
<1>2. linked[name] = Nobody
  BY DEF OtherNamesFree
<1>3. CASE StepOfMain(p)
  <2>1. QueueName(program[p[1]]) \in {MQ_NAME, KEY}
    BY DEF QueueName
  <2>2. linked'[name] \in {linked[name], Nobody}
    BY <1>3, <2>1, MainNames
  <2> QED
    BY <1>2, <2>2
<1>4. CASE StepOfKid(p)
  BY <1>2, <1>4, KidDoes
<1>5. CASE Apart(p)
  BY <1>2, <1>5, ApartFrame
<1>6. CASE p \in SocketProcs
  BY <1>2, <1>6, SocketFrame
<1> QED
  BY <1>1, <1>3, <1>4, <1>5, <1>6, Kinds

\* What is true of the queues and of their names stays true, whoever takes a step.
LEMMA WorldStays ==
  ASSUME IInv, Typed, QueueWorld, QueueNamesHeld, ApartOK, NEW p \in Procs, Step(p) \/ Signal(p)
  PROVE  QueueWorld' /\ QueueNamesHeld'
<1>1. state[p] = "running" /\ program' = program
  BY StrangerRuns DEF Step, Signal
<1>2. Undisturbed' => Undisturbed
  BY Counts
<1>3. CASE StepOfMain(p)
  BY <1>3, MainWorld, MainHolds
<1>4. CASE StepOfKid(p)
  <2>1. p \notin QueueMains
    BY <1>4 DEF StepOfKid, QueueMains, MainProcs
  <2>2. Follows(p) /\ QueueWorld' /\ UNCHANGED linked
    BY <1>4, KidWorld, KidDoes
  <2> QED
    BY <1>2, <2>1, <2>2, OthersHold
<1>5. CASE Apart(p)
  BY <1>2, <1>5, ApartFrame, OthersWorld DEF Apart
<1>6. CASE p \in SocketProcs
  <2>1. ~Queued(p)
    BY <1>6, SocketProc DEF Socketed, Queued, Runs, SocketPrograms, QueuePrograms
  <2>2. MQ_NAME \in Names \ {SOCKET_PATH} /\ KEY \in Names \ {SOCKET_PATH}
    BY CompanyAssumption
  <2> QED
    BY <1>2, <1>6, <2>1, <2>2, SocketFrame, OthersWorld
<1> QED
  BY <1>1, <1>3, <1>4, <1>5, <1>6, Kinds

\* Every step preserves the invariant.
LEMMA QInvStep ==
  ASSUME IInv, QInv, [Next]_vars PROVE QInv'
<1>0. Typed /\ Clean /\ ApartOK /\ QueueWorld /\ QueueNamesHeld /\ SocketNameHeld /\ OtherNamesFree
  BY DEF QInv
<1>1. ASSUME NEW p \in Procs, Step(p) \/ Signal(p)
      PROVE  QInv'
  <2>1. state[p] = "running" /\ program' = program
    BY <1>1, StrangerRuns DEF Step, Signal
  <2>2. WellCalled(p)
    BY <1>0, <2>1, AllWellCalled
  <2>3. Typed' /\ Clean'
    BY <1>0, <1>1, <2>2, TypedStep, CleanStep
  <2>4. ApartOK' /\ OtherNamesFree' /\ SocketNameHeld'
    BY <1>0, <1>1, ApartStays, OtherNamesStay, SocketNameStays
  <2>5. QueueWorld' /\ QueueNamesHeld'
    BY <1>0, <1>1, WorldStays
  <2> QED
    BY <2>3, <2>4, <2>5 DEF QInv
<1>2. CASE UNCHANGED vars
  <2>1. UNCHANGED <<todo, state, status, fds, got, linked, failures, kills, program, content,
                    queues, messages, removed>>
    BY <1>2 DEF vars, procVars
  <2>2. Typed' /\ Clean' /\ ApartOK' /\ SocketNameHeld' /\ OtherNamesFree'
    BY <1>0, <2>1 DEF Typed, Clean, ApartOK, SocketNameHeld, OtherNamesFree, Apart, Queued, Socketed, Runs,
       Undisturbed
  <2>3. QueueMains' = QueueMains /\ \A y \in Procs : Queued(y)' <=> Queued(y)
    BY <2>1, SameQueued
  <2>4. MainsOK' /\ KidsOK'
    BY <1>0, <2>1, <2>3 DEF QueueWorld, MainsOK, KidsOK, QueueMainOK, QueueKidOK, OneQueue, Main, Procs
  <2>5. MessagesOK' /\ Parted' /\ QueueNamesHeld'
    BY <1>0, <2>1, <2>3 DEF QueueWorld, MessagesOK, HasSent, Parted, QueueNamesHeld,
       Busy, Keyed, Runs, Undisturbed, Queued
  <2>6. RemovedAtEnd'
    BY <1>0, <2>1, <2>3 DEF QueueWorld, RemovedAtEnd, HasLeft, Keyed, Runs
  <2>7. PulledAway'
    BY <1>0, <2>1, <2>3 DEF QueueWorld, PulledAway, Pulled, HasLeft, Keyed, Runs
  <2> QED
    BY <2>2, <2>4, <2>5, <2>6, <2>7 DEF QInv, QueueWorld
<1> QED
  BY <1>1, <1>2 DEF Next

------------------------------------------------------------
\* The programs of a queue begin with their scripts, and others with what is basic.
LEMMA QueuesBegin ==
  ASSUME NEW f, PipeInit, QueueInit, ProcessInit(f), program \in Seq(Programs \cup Shells),
         \A m \in QueueMains : m \in DOMAIN f /\ f[m] = Script(m[1], program[m[1]]),
         \A k \in Procs : Queued(k) /\ k # Main(k) => k \notin DOMAIN f,
         \A p \in Procs : Apart(p) /\ p \in DOMAIN f => BasicScript(f[p])
  PROVE  QInv
<1>1. /\ DOMAIN todo = Procs /\ DOMAIN state = Procs /\ DOMAIN status = Procs
      /\ failures = 0 /\ kills = 0 /\ queues = 0 /\ removed = {} /\ DOMAIN messages = 1 .. MaxQueues
      /\ \A n \in Names : linked[n] = Nobody
      /\ \A n \in Pipe : content[n] = <<>>
      /\ \A q \in 1 .. MaxQueues : messages[q] = <<>>
      /\ \A p \in Procs : /\ got[p] = <<>> /\ fds[p] = {} /\ status[p] = 0
                          /\ todo[p] = IF p \in DOMAIN f THEN f[p] ELSE <<>>
                          /\ state[p] = IF p \in DOMAIN f THEN "running" ELSE "none"
  BY DEF PipeInit, QueueInit, ProcessInit
<1>2. linked[MQ_NAME] = Nobody /\ linked[KEY] = Nobody /\ linked[SOCKET_PATH] = Nobody
  BY <1>1, CompanyAssumption
<1>3. Typed
  <2>1. state \in [Procs -> States] /\ status \in [Procs -> Codes]
    BY DEF ProcessInit, States, Codes
  <2> QED
    BY <1>1, <2>1, ProcessAssumption, QueueAssumption DEF Typed
<1>4. Clean
  <2>1. Elements(<<>>) = {} /\ Len(<<>>) = 0
    BY EmptyIsSeq
  <2> QED
    BY <1>1, <2>1, CapacityAssumption DEF Clean
<1>5. ApartOK
  BY <1>1 DEF ApartOK
<1>6. MainsOK
  <2>1. \A m \in QueueMains : m \in Procs
    BY DEF QueueMains, MainProcs
  <2> QED
    BY <1>1, <2>1 DEF MainsOK, QueueMainOK
<1>7. KidsOK
  BY <1>1 DEF KidsOK, QueueKidOK
<1>8. MessagesOK
  <2>1. IsSeq(<<>>) /\ Elements(<<>>) = {} /\ DOMAIN <<>> = {}
    BY EmptyIsSeq
  <2> QED
    BY <1>1, <2>1 DEF MessagesOK, Distinct
<1>9. Parted
  <2>1. \A m \in QueueMains : fds[m] = {}
    BY <1>1 DEF QueueMains, MainProcs
  <2> DEFINE K == {}
  <2>2. /\ K \in SUBSET (1 .. queues) /\ removed \subseteq K
        /\ \A m \in QueueMains : IF Keyed(m) THEN fds[m] \subseteq K ELSE fds[m] \subseteq (1 .. queues) \ K
        /\ linked[KEY] \in K \cup {Nobody}
        /\ linked[MQ_NAME] \in ((1 .. queues) \ K) \cup {Nobody}
    BY <1>1, <1>2, <2>1
  <2> HIDE DEF K
  <2> QED
    BY <2>2 DEF Parted
<1>10. RemovedAtEnd
  BY <1>1 DEF RemovedAtEnd
<1>11. PulledAway
  <2>1. \A m \in QueueMains : got[m] = <<>>
    BY <1>1 DEF QueueMains, MainProcs
  <2>2. <<>> # <<Nobody>>
    OBVIOUS
  <2> QED
    BY <2>1, <2>2 DEF PulledAway
<1>12. QueueNamesHeld /\ SocketNameHeld /\ OtherNamesFree
  BY <1>1, <1>2 DEF QueueNamesHeld, SocketNameHeld, OtherNamesFree
<1> QED
  BY <1>3, <1>4, <1>5, <1>6, <1>7, <1>8, <1>9, <1>10, <1>11, <1>12 DEF QInv, QueueWorld

\* It holds at the start, in whatever company.
LEMMA InitQInv == Init => QInv
<1> SUFFICES ASSUME Init PROVE QInv
  OBVIOUS
<1>1. PipeInit /\ QueueInit
  BY DEF Init
<1>2. \A p \in Procs : p = Main(p) <=> p[2] = 0
  BY DEF Procs, Main
<1>3. ASSUME NEW company \in Companies, program = company,
             ProcessInit([p \in (DOMAIN company) \X {0} |-> Script(p[1], company[p[1]])])
      PROVE  QInv
  <2> DEFINE f == [p \in (DOMAIN company) \X {0} |-> Script(p[1], company[p[1]])]
  <2>1. \A p \in Procs : p \in DOMAIN f <=> p = Main(p) /\ p[1] \in DOMAIN program
    BY <1>2, <1>3 DEF Procs
  <2>2. \A p \in DOMAIN f : f[p] = Script(p[1], program[p[1]])
    BY <1>3
  <2>3. ProcessInit(f)
    BY <1>3
  <2> HIDE DEF f
  <2>4. program \in Seq(Programs) /\ program \in Seq(Programs \cup Shells)
    <3>1. company \in Seq(Programs)
      BY CompanyAssumption
    <3> QED
      BY <1>3, <3>1
  <2>5. ASSUME NEW m \in QueueMains PROVE m \in DOMAIN f /\ f[m] = Script(m[1], program[m[1]])
    BY <2>1, <2>2 DEF QueueMains, MainProcs, Queued, Runs
  <2>6. ASSUME NEW p \in Procs, Apart(p), p \in DOMAIN f PROVE BasicScript(f[p])
    <3>1. p[1] \in DOMAIN program
      BY <2>1, <2>6
    <3>2. program[p[1]] \in Programs /\ program[p[1]] \notin SocketPrograms \cup QueuePrograms
      BY <2>4, <2>6, <3>1 DEF Apart, Queued, Socketed, Runs
    <3> QED
      BY <2>2, <2>6, <3>2, ProgramsAreBasic
  <2> QED
    BY <1>1, <2>1, <2>3, <2>4, <2>5, <2>6, QueuesBegin
<1>4. ASSUME NEW lines \in Inputs, program \in {<<"Shell">>, <<"EndlessShell">>},
             ProcessInit([p \in {1} \X {0} |-> run_shell(lines)])
      PROVE  QInv
  <2> DEFINE f == [p \in {1} \X {0} |-> run_shell(lines)]
  <2>1. \A p, name : Runs(p, name) => name \in {"Shell", "EndlessShell"}
    BY <1>4 DEF Runs
  <2>2. QueueMains = {} /\ \A p : ~Queued(p)
    BY <2>1 DEF QueueMains, Queued, QueuePrograms
  <2>3. \A p \in DOMAIN f : BasicScript(f[p])
    BY CommandIsBasic DEF run_shell
  <2>4. ProcessInit(f)
    BY <1>4
  <2>5. program \in Seq(Programs \cup Shells)
    <3> DEFINE S == Programs \cup Shells
    <3>1. "Shell" \in S /\ "EndlessShell" \in S
      BY DEF Shells
    <3> HIDE DEF S
    <3>2. <<"Shell">> \in Seq(S) /\ <<"EndlessShell">> \in Seq(S)
      BY <3>1
    <3> QED
      BY <1>4, <3>2 DEF S
  <2> HIDE DEF f
  <2> QED
    BY <1>1, <2>2, <2>3, <2>4, <2>5, QueuesBegin
<1> QED
  BY <1>3, <1>4 DEF Init

------------------------------------------------------------
\* A sequence without repetition is no longer than what it is made of.
LEMMA DistinctIsShort ==
  ASSUME NEW s, IsSeq(s), Distinct(s), NEW L \in Nat, Elements(s) \subseteq 1 .. L
  PROVE  Len(s) <= L
<1>1. Len(s) \in Nat /\ DOMAIN s = 1 .. Len(s) /\ s \in [1 .. Len(s) -> Elements(s)]
  BY DEF IsSeq
<1>2. s \in [1 .. Len(s) -> 1 .. L]
  BY <1>1
<1>3. /\ IsFiniteSet(1 .. L) /\ Cardinality(1 .. L) = L
      /\ IsFiniteSet(1 .. Len(s)) /\ Cardinality(1 .. Len(s)) = Len(s)
  <2>1. \A n \in Nat : IsFiniteSet(1 .. n) /\ Cardinality(1 .. n) = n
    <3> TAKE n \in Nat
    <3>1. 1 \in Int /\ n \in Int
      OBVIOUS
    <3>2. IsFiniteSet(1 .. n) /\ Cardinality(1 .. n) = IF 1 > n THEN 0 ELSE n - 1 + 1
      BY <3>1, FS_Interval
    <3> QED
      BY <3>2
  <2> QED
    BY <1>1, <2>1
<1>4. ~(Cardinality(1 .. L) < Cardinality(1 .. Len(s)))
  <2> SUFFICES ASSUME Cardinality(1 .. L) < Cardinality(1 .. Len(s)) PROVE FALSE
    OBVIOUS
  <2>1. \E x, y \in 1 .. Len(s) : x # y /\ s[x] = s[y]
    BY <1>2, <1>3, FS_PigeonHole
  <2> QED
    BY <1>1, <2>1 DEF Distinct
<1> QED
  BY <1>1, <1>3, <1>4

\* A queue holds no more messages than programs run.
LEMMA MessagesFew ==
  ASSUME QInv, NEW q \in 1 .. MaxQueues
  PROVE  Len(messages[q]) <= Len(program)
<1>1. IsSeq(messages[q]) /\ Distinct(messages[q]) /\ \A i \in Elements(messages[q]) : HasSent(i)
  BY DEF QInv, QueueWorld, MessagesOK
<1>2. Len(program) \in Nat /\ DOMAIN program = 1 .. Len(program)
  BY DEF QInv, Typed
<1>3. \A i : HasSent(i) => i \in DOMAIN program
  BY DEF HasSent, Queued, Runs
<1> QED
  BY <1>1, <1>2, <1>3, DistinctIsShort

\* Whoever runs has something to do.
LEMMA RunningHasCalls ==
  ASSUME IInv, NEW p \in Procs, state[p] = "running"
  PROVE  todo[p] # <<>>
<1>1. CASE p \in Strangers
  BY <1>1 DEF IInv, Others, Strangers, ForeignScript, EndsIn
<1>2. CASE p \in Serving
  <2>1. ServerStage(p)
    BY <1>2 DEF IInv, ServerOK
  <2>2. Len(todo[p]) \in 1 .. 7
    BY <2>1, ServerLengths DEF ServerStage
  <2>3. Len(<<>>) = 0
    OBVIOUS
  <2> QED
    BY <2>2, <2>3, SMTT(30)
<1>3. CASE p \in Asking
  <2>1. todo[p] \in {Client(p), ToAsk(p), ToRead(p), ToClose, ToExit, ToGiveUp, ToFail}
    BY <1>3 DEF IInv, ClientOK
  <2>2. Len(todo[p]) \in 1 .. 5
    BY <2>1, ServerLengths
  <2>3. Len(<<>>) = 0
    OBVIOUS
  <2> QED
    BY <2>2, <2>3
<1> QED
  BY <1>1, <1>2, <1>3 DEF Strangers

\* A program of a queue that is using it, or its name, has something to do.
LEMMA BusyHasCalls ==
  ASSUME NEW m \in QueueMains, Busy(m)
  PROVE  todo[m] # <<>>
<1>1. program[m[1]] \in QueuePrograms
  BY QueueMain
<1>2. \A name \in QueuePrograms : ToFetch(name) # <<>> /\ \A i : ToFork(name, i) # <<>>
  BY QueueScripts
<1>3. ToUnlinkQueue # <<>> /\ ToRemove # <<>>
  BY LeavingScripts
<1>4. ToLeave("Posix") # <<>> /\ ToLeave("SysV") # <<>> /\ ToLeave("HelloSysV") # <<>>
  BY <1>3, LeavingScripts
<1> QED
  BY <1>1, <1>2, <1>3, <1>4 DEF Busy, Received, QueuePrograms

\* The parts of what is promised
LEMMA NothingIsLeft ==
  ASSUME IInv, QInv PROVE NothingLeft
<1> SUFFICES ASSUME Undisturbed, \A p \in Procs : state[p] # "running", NEW name \in Names,
                    linked[name] # Nobody
             PROVE  FALSE
  BY DEF NothingLeft
<1>1. \A m \in QueueMains : ~Busy(m)
  <2>1. \A m \in QueueMains : m \in Procs /\ QueueMainOK(m)
    BY DEF QInv, QueueWorld, MainsOK, QueueMains, MainProcs
  <2>2. \A m \in QueueMains : todo[m] = <<>>
    BY <2>1 DEF QueueMainOK
  <2> QED
    BY <2>2, BusyHasCalls
<1>2. CASE name \in {MQ_NAME, KEY}
  BY <1>1, <1>2 DEF QInv, QueueNamesHeld
<1>3. CASE name = SOCKET_PATH
  <2> DEFINE s == linked[SOCKET_PATH]
  <2>1. s \in Serving /\ s \in Procs
    BY <1>3, SocketProc DEF IInv, Reachable, SocketProcs
  <2>2. todo[s] = <<>>
    BY <2>1 DEF IInv, ServerOK
  <2> QED
    BY <1>3, <2>2 DEF QInv, SocketNameHeld
<1> QED
  BY <1>2, <1>3 DEF QInv, OtherNamesFree

LEMMA MessageOrIsRemoved ==
  ASSUME QInv PROVE MessageOrRemoval
<1> SUFFICES ASSUME NEW p \in Procs, got[p] = <<Nobody>>
             PROVE  \/ Runs(p, "HelloSysV")
                    \/ /\ Runs(p, "SysV") /\ (state[p] = "running" => fds[p] \subseteq removed)
                       /\ \E q \in Procs : q = Main(q) /\ q # p /\ HasLeft(q)
  BY DEF MessageOrRemoval, HasLeft, ToExit
<1>1. CASE ~Queued(p)
  <2>1. Nobody \in Elements(<<Nobody>>)
    BY SingleIsSeq
  <2>2. Nobody \notin Message
    BY CompanyAssumption DEF Message
  <2> QED
    BY <1>1, <2>1, <2>2 DEF QInv, Clean
<1>2. CASE Queued(p) /\ p # Main(p)
  <2>1. got[p] = <<>>
    BY <1>2 DEF QInv, QueueWorld, KidsOK, QueueKidOK
  <2>2. <<>> # <<Nobody>>
    OBVIOUS
  <2> QED
    BY <2>1, <2>2
<1>3. CASE p \in QueueMains
  <2>1. \A w \in QueueMains : w \in Procs /\ w = Main(w)
    BY DEF QueueMains, MainProcs
  <2> QED
    BY <1>3, <2>1 DEF QInv, QueueWorld, PulledAway, Pulled
<1> QED
  BY <1>1, <1>2, <1>3 DEF QueueMains, MainProcs

\* The message of who has not sent it yet is not among those that are queued.
LEMMA RoomIsThere ==
  ASSUME IInv, QInv PROVE SendsHaveRoom
<1> SUFFICES ASSUME NEW p \in Procs, HeldUp(p) PROVE Len(program) > Call(p).room
  BY DEF SendsHaveRoom
<1> DEFINE i == p[1]
           name == program[i]
<1>1. state[p] = "running" /\ Call(p).call = "send"
  BY DEF HeldUp, Calls, Call
<1>2. PICK q \in 1 .. MaxQueues : Len(messages[q]) >= Call(p).room
  BY QueueAssumption DEF HeldUp, QInv, Typed
<1>3. Queued(p) /\ p # Main(p) /\ QueueKidOK(p)
  <2>1. p \notin SocketProcs /\ ~Apart(p)
    BY <1>1, SocketCalling, ApartCalls DEF QInv
  <2>2. p \notin QueueMains
    BY <1>1, MainPlaces DEF QInv, QueueWorld, MainsOK
  <2>3. ~Socketed(p)
    BY <1>1, <2>1 DEF IInv, Others, SocketProcs
  <2>4. Queued(p) /\ p # Main(p)
    BY <2>1, <2>2, <2>3 DEF Apart, QueueMains, MainProcs
  <2> QED
    BY <2>4 DEF QInv, QueueWorld, KidsOK
<1>4. name \in QueuePrograms /\ p = <<i, 1>> /\ i \in DOMAIN program
  BY <1>1, <1>3 DEF QueueKidOK, Procs, Queued, Runs, QueuePrograms
<1>5. todo[p] = KidScript(name, i)
  BY <1>1, <1>3, LeavingScripts DEF QueueKidOK, Call
<1>6. ~HasSent(i)
  BY <1>4, <1>5 DEF HasSent
<1>7. Call(p).room \in Nat
  <2> HIDE DEF i, name
  <2> QED
    BY <1>4, <1>5, QueueScripts DEF Call
<1> DEFINE s == messages[q]
<1>8. /\ IsSeq(s) /\ Distinct(s) /\ i \notin Elements(s)
      /\ Elements(s) \subseteq DOMAIN program
  BY <1>6 DEF QInv, QueueWorld, MessagesOK, HasSent, Queued, Runs
<1>9. Len(program) \in Nat /\ DOMAIN program = 1 .. Len(program)
  BY DEF QInv, Typed
<1> HIDE DEF s, i
<1>10. /\ IsSeq(Append(s, i)) /\ Elements(Append(s, i)) \subseteq Elements(s) \cup {i}
       /\ Distinct(Append(s, i))
  BY <1>8, Appended, DistinctAppend
<1>11. Len(Append(s, i)) <= Len(program)
  BY <1>4, <1>8, <1>9, <1>10, DistinctIsShort
<1>12. Len(s) \in Nat /\ Len(Append(s, i)) = Len(s) + 1
  <2>1. s \in Seq(Elements(s) \cup {i}) /\ i \in Elements(s) \cup {i}
    BY <1>8, SeqMonotonic DEF IsSeq
  <2> QED
    BY <2>1, AppendProperties, LenProperties
<1> QED
  BY <1>2, <1>7, <1>9, <1>11, <1>12 DEF s

LEMMA TypesAreOK ==
  ASSUME IInv, QInv PROVE TypeOK
<1>1. Typed /\ Clean /\ Parted
  BY DEF QInv, QueueWorld
<1>2. \A p \in Procs : IF state[p] = "running" THEN todo[p] # <<>> ELSE fds[p] = {}
  BY <1>1, RunningHasCalls DEF Typed
<1>3. removed \subseteq 1 .. queues
  BY <1>1 DEF Parted
<1>4. \A q \in 1 .. MaxQueues : Len(messages[q]) <= Len(program)
  BY MessagesFew
<1>5. \A n \in Pipe : Len(content[n]) <= Capacity
  BY <1>1 DEF Clean
<1>6. /\ state \in [Procs -> {"none", "running", "zombie", "gone", "abandoned"}]
      /\ status \in [Procs -> {SIGKILL, SIGSEGV, SIGPIPE, 0, 1, 2, 3, 42, 127}]
      /\ queues \in 0 .. MaxQueues /\ failures \in 0 .. MaxFailures /\ kills \in 0 .. MaxKills
  BY <1>1 DEF Typed, States, Codes
<1> QED
  BY <1>2, <1>3, <1>4, <1>5, <1>6 DEF TypeOK

\* Every variable keeps its type and a queue never holds more messages than programs
\* run; a send waits for room only when more programs meet than the queue has room
\* for; when nothing failed and every program has ended, no queue and no socket is
\* left behind; and a receive that waits fails only when the queue is removed and
\* another program that uses the key has come to its end (basic_MQ/posix.cpp,
\* basic_MQ/sys_v.cpp, Hello_MQ): for any programs in any company that meets under
\* the names, any room in the queues, whatever fails and whoever is killed.
THEOREM QueuesServeHolds == Spec => []QueuesServe
<1>1. IInv /\ QInv => QueuesServe
  BY TypesAreOK, NothingIsLeft, MessageOrIsRemoved, RoomIsThere DEF QueuesServe
<1>2. Init => IInv /\ QInv
  BY InitIInv, InitQInv
<1>3. IInv /\ QInv /\ [Next]_vars => IInv' /\ QInv'
  BY IInvStep, QInvStep
<1> QED
  BY <1>1, <1>2, <1>3, PTL DEF Spec
===============================================================================
