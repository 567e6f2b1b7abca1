------------------------------ MODULE MCExercises ------------------------------
(***************************************************************************)
(* Exercises with pipes and queues that hold one message, two lines of     *)
(* output, two failing calls and two signals from outside.                 *)
(***************************************************************************)
EXTENDS Exercises

MCInstances == 1 .. 3
MCPipe ==
  {P(k) : k \in 1 .. 3} \cup {Up(<<i, 0>>) : i \in MCInstances}
    \cup {Down(<<i, 0>>) : i \in MCInstances}
MCCompanies ==
  { <<"Ping">>, <<"PingPong">>, <<"ListGrep">>, <<"Pipeline">>,
    <<"Ec1">>, <<"Ec2">>, <<"Ec3">>, <<"Ec4">>, <<"Ec5">>,
    <<"Posix">>, <<"Posix", "Posix">>,
    <<"SysV">>, <<"HelloSysV">>, <<"SysV", "SysV">>, <<"SysV", "HelloSysV">>,
    <<"Server">>, <<"Client">>, <<"Server", "Client", "Client">>,
    <<"Server", "Server", "Client">> }
MCInputs ==
  { <<"run", "", "exit">>, <<"blank", "run", "exit", "run">>, <<"run">>, <<"run", Unended>> }
===============================================================================
