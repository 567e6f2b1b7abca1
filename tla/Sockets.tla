-------------------------------- MODULE Sockets --------------------------------
(***************************************************************************)
(* socket/server.cpp and socket/client.cpp: stream sockets of the Unix     *)
(* domain.  A connection is two pipes, up to the server and down to the    *)
(* client; its server ends belong to the listening socket until accept.    *)
(***************************************************************************)
EXTENDS Pipes

CONSTANT SOCKET_PATH

VARIABLE backlog   \* of each server, the clients whose connect returned

socketVars == <<pipeVars, backlog>>

Listener(server) == R(<<"listener", server[1]>>)
Up(client) == <<"up", client[1]>>
Down(client) == <<"down", client[1]>>

bind(name, failed) == [call |-> "bind", name |-> name, failed |-> failed]
listen == [call |-> "listen"]
accept == [call |-> "accept"]
connect(name, failed) == [call |-> "connect", name |-> name, failed |-> failed]
closeAll == [call |-> "closeAll"]

SocketInit == backlog = [p \in Procs |-> <<>>]

-------------------------------------------------------------------------------
\* The programs.  A message is the number of the instance that sends it.

\* Mutants: an answer before the request was read, no answer
ServeUnread(client, server) ==
  << write(Down(client), server[1]), read(Up(client), <<>>),
     close({R(Up(client)), W(Down(client))}) >>

ServeSilent(client, server) ==
  << read(Up(client), <<>>), close({R(Up(client)), W(Down(client))}) >>

\* server.cpp, what follows accept
Serve(client, server) ==
  << read(Up(client), <<>>), write(Down(client), server[1]),
     close({R(Up(client)), W(Down(client))}) >>

\* Mutant: the name taken away after it was bound
LateUnlink ==
  << bind(SOCKET_PATH, <<closeAll, exit(1)>>), unlink(SOCKET_PATH), listen,
     accept, closeAll, exit(0) >>

Server ==
  << unlink(SOCKET_PATH), bind(SOCKET_PATH, <<closeAll, exit(1)>>), listen,
     accept, closeAll, unlink(SOCKET_PATH), exit(0) >>

Client(client) ==
  << connect(SOCKET_PATH, <<closeAll, exit(1)>>), write(Up(client), client[1]),
     read(Down(client), <<>>), closeAll, exit(0) >>

-------------------------------------------------------------------------------
Bind(p) ==
  /\ Calls(p, "bind")
  /\ IF linked[Call(p).name] = Nobody
       THEN Proceed(p) /\ linked' = [linked EXCEPT ![Call(p).name] = p]
       ELSE Continue(p, Call(p).failed) /\ UNCHANGED linked
  /\ UNCHANGED <<state, status, fds, got, reports, failures, kills, content, backlog>>

Listen(p) ==
  /\ Calls(p, "listen")
  /\ Proceed(p)
  /\ fds' = [fds EXCEPT ![p] = @ \cup {Listener(p)}]
  /\ UNCHANGED <<state, status, got, linked, reports, failures, kills, content, backlog>>

Listening(p) == p # Nobody /\ Listener(p) \in fds[p]

Connect(p) ==
  /\ Calls(p, "connect")
  /\ LET server == linked[Call(p).name] IN
     IF Listening(server)
       THEN /\ backlog' = [backlog EXCEPT ![server] = Append(@, p)]
            /\ fds' = [fds EXCEPT ![p] = {W(Up(p)), R(Down(p))},
                                  ![server] = @ \cup {R(Up(p)), W(Down(p))}]
            /\ Proceed(p)
       ELSE Continue(p, Call(p).failed) /\ UNCHANGED <<fds, backlog>>
  /\ UNCHANGED <<state, status, got, linked, reports, failures, kills, content>>

Accept(p) ==
  /\ Calls(p, "accept")
  /\ backlog[p] # <<>>
  /\ backlog' = [backlog EXCEPT ![p] = Tail(@)]
  /\ Continue(p, Serve(Head(backlog[p]), p) \o Tail(todo[p]))
  /\ UNCHANGED <<state, status, fds, got, linked, reports, failures, kills, content>>

\* The last descriptor of the program: for the server its listening socket, and
\* with it every connection it has not accepted.
CloseAll(p) ==
  /\ Calls(p, "closeAll")
  /\ Proceed(p)
  /\ fds' = [fds EXCEPT ![p] = {}]
  /\ UNCHANGED <<state, status, got, linked, reports, failures, kills, content, backlog>>

SocketStep(p) == Bind(p) \/ Listen(p) \/ Connect(p) \/ Accept(p) \/ CloseAll(p)
===============================================================================
