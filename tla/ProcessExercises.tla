---------------------------- MODULE ProcessExercises ----------------------------
(***************************************************************************)
(* The programs of process/main.cpp, and the shell of                      *)
(* exercise/shell_mini/main.cpp.                                           *)
(***************************************************************************)
EXTENDS Processes

\* Mutant: a wait too few
ThreeOnlyTwo ==
  << fork(1, <<exit(1)>>, <<exit(1)>>),
     fork(2, <<exit(2)>>, <<exit(1)>>),
     fork(3, <<exit(3)>>, <<exit(1)>>),
     wait(TRUE), wait(TRUE), exit(0) >>

\* ec1 and ec2 await the child by its pid, ec3 and ec4 any child.
OneChild(calls, awaits) == << fork(1, calls, Return), awaits, exit(0) >>

Ec1 == OneChild(<<exit(1)>>, waitpid(1, TRUE))
Ec2 == OneChild(<<execvp(1), exit(0)>>, waitpid(1, TRUE))
Ec3 == OneChild(<<exit(42)>>, wait(TRUE))
Ec4 == OneChild(<<exit(1)>>, wait(TRUE))

Ec5 ==
  << fork(1, <<exit(1)>>, <<exit(1)>>),
     fork(2, <<exit(2)>>, <<exit(1)>>),
     fork(3, <<exit(3)>>, <<exit(1)>>),
     wait(TRUE), wait(TRUE), wait(TRUE), exit(0) >>

-------------------------------------------------------------------------------
\* The shell reads lines: "" and blank ones, commands, "exit", and one without
\* its newline at the end of the input.

run_shell(lines) == << getline(lines) >>

\* Mutant: a shell that does not wait
LoneCommand(line) ==
  << fork(1, IF line = "blank" THEN <<exit(SIGSEGV)>> ELSE <<execvp(1), exit(0)>>, <<>>) >>

\* A blank line has no first word: execvp gets a null pointer and faults.
Command(line) ==
  << fork(1, IF line = "blank" THEN <<exit(SIGSEGV)>> ELSE <<execvp(1), exit(0)>>, <<>>),
     waitpid(1, FALSE) >>

\* A line that the end of the input cut short; getline leaves it where it is
\* when it is called again, and so it is run again, for ever.
Unended == "unended"
AtEof == <<Unended>>

\* At the end of the input an empty line is read, for ever.
Getline(p) ==
  /\ Calls(p, "getline")
  /\ LET lines == Call(p).lines
         rest == <<getline(IF lines = AtEof THEN AtEof ELSE Tail(lines))>> IN
     IF lines = <<>> THEN UNCHANGED todo
     ELSE CASE Head(lines) = ""     -> Continue(p, rest)
            [] Head(lines) = "exit" -> Continue(p, Return)
            [] OTHER                -> Continue(p, Command(Head(lines)) \o rest)
  /\ UNCHANGED <<state, status, fds, got, linked, reports, failures, kills>>
===============================================================================
