----------------------------- MODULE PipeExercises -----------------------------
(***************************************************************************)
(* The programs of pipe_fifo/main.cpp, ec1 to ec3, and of                  *)
(* exercise/pipe/main.cpp, as the calls they make.                         *)
(***************************************************************************)
EXTENDS Pipes

CONSTANT Lines   \* how many lines the first program of a pipeline prints

ASSUME LinesAssumption == Lines \in Nat

P(k) == <<"pipe", k>>

\* ls and ps
List(n) == [k \in 1 .. Lines |-> write(n, k)]

-------------------------------------------------------------------------------
\* Mutants: the other pipe's ends closed, an end that stays open, the child's
\* own ends closed

PingPongCrossed ==
  << pipe(P(1), Return), pipe(P(2), Return),
     fork(1,
       << close({R(P(1))}), close({W(P(2))}), read(P(2), <<write(P(1), 2)>>),
          close({R(P(2)), W(P(1))}), exit(1) >>, Return),
     close({R(P(1))}), close({W(P(2))}),
     write(P(1), 1), read(P(2), <<>>),
     close({R(P(2))}), close({W(P(1))}), wait(TRUE), exit(0) >>

ListGrepOpen ==
  << pipe(P(1), Return),
     fork(1, <<close({R(P(1))}), execvp(1)>> \o List(P(1)) \o <<exit(0)>>, Return),
     fork(2,
       <<close({W(P(1))}), execvp(1), filter(P(1), {}, FALSE), exit(0)>>, Return),
     close({R(P(1))}), waitpid(1, FALSE), waitpid(2, FALSE), exit(0) >>

SpawnClosesOwn(child, in, out, calls) ==
  fork(child, <<close({R(n) : n \in in} \cup {W(n) : n \in out}), execvp(127)>>
               \o calls \o <<exit(0)>>, <<>>)

-------------------------------------------------------------------------------
\* ec1
Ping ==
  << pipe(P(1), Return),
     fork(1, <<close({W(P(1))}), read(P(1), <<>>), close({R(P(1))}), exit(1)>>, Return),
     close({R(P(1))}), write(P(1), 1), close({W(P(1))}), wait(TRUE), exit(0) >>

\* ec2
PingPong ==
  << pipe(P(1), Return), pipe(P(2), Return),
     fork(1,
       << close({R(P(2))}), close({W(P(1))}), read(P(1), <<write(P(2), 2)>>),
          close({R(P(1))}), close({W(P(2))}), exit(1) >>, Return),
     close({R(P(1))}), close({W(P(2))}),
     write(P(1), 1), read(P(2), <<>>),
     close({R(P(2))}), close({W(P(1))}), wait(TRUE), exit(0) >>

\* ec3: ls | grep
ListGrep ==
  << pipe(P(1), Return),
     fork(1, <<close({R(P(1))}), execvp(1)>> \o List(P(1)) \o <<exit(0)>>, Return),
     fork(2,
       <<close({W(P(1))}), execvp(1), filter(P(1), {}, FALSE), exit(0)>>, Return),
     close({R(P(1))}), close({W(P(1))}),
     waitpid(1, FALSE), waitpid(2, FALSE), exit(0) >>

\* spawn: the child keeps the read end of its pipe "in" and the write end of its
\* pipe "out" only; a failing fork is printed and the pipeline goes on without it.
spawn(child, in, out, calls) ==
  fork(child, << close({R(P(k)) : k \in 1 .. 3} \ {R(n) : n \in in}),
                close({W(P(k)) : k \in 1 .. 3} \ {W(n) : n \in out}), execvp(127) >>
               \o calls \o <<exit(0)>>, <<>>)

\* main of exercise/pipe: ps | sort | uniq | sort.  Its pipes do not fail: the
\* program would go on with descriptors nobody has set.
Pipeline ==
  << pipe(P(1), <<>>), pipe(P(2), <<>>), pipe(P(3), <<>>),
     spawn(1, {}, {P(1)}, List(P(1))), close({W(P(1))}),
     spawn(2, {P(1)}, {P(2)}, <<filter(P(1), {P(2)}, TRUE)>>),
     close({R(P(1))}), close({W(P(2))}),
     spawn(3, {P(2)}, {P(3)}, <<filter(P(2), {P(3)}, FALSE)>>),
     close({R(P(2))}), close({W(P(3))}),
     spawn(4, {P(3)}, {}, <<filter(P(3), {}, TRUE)>>), close({R(P(3))}),
     waitpid(1, FALSE), waitpid(2, FALSE),
     waitpid(3, FALSE), waitpid(4, FALSE), exit(0) >>
===============================================================================
