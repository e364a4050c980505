------------------------------ MODULE Gateway ------------------------------
(***************************************************************************)
(* The gateway of the signaling server (signaling gateway/index.ts): for   *)
(* each device the connection on which messages go to it, the last one     *)
(* that registered. A connection is a transport, a number and the place it *)
(* was opened at; long polling is one connection, whatever request of it   *)
(* waits. A queue of unanswered polls is read in order before anything     *)
(* newer, as a socket is, so that what reaches a device is delivered in    *)
(* the step that sends it.                                                 *)
(***************************************************************************)
EXTENDS LocalGroups

NoConn == [transport |-> "none", id |-> 0, at |-> "nowhere"]
Poll(at) == [transport |-> "poll", id |-> 0, at |-> at]

SameConn(c, e) == c.transport = e.transport /\ c.id = e.id

RegisterConnection(conns, d, c) == [conns EXCEPT ![d] = c]
RemoveConnection(conns, d) == [conns EXCEPT ![d] = NoConn]

\* sendToClient reaches the page when the registered connection is the one that
\* the page uses; what goes to another one, or to none, is lost.
Reaches(conns, link, d) == link[d] # NoConn /\ SameConn(conns[d], link[d])

\* As ClosesSession, whatever connection is registered (a plausible bug).
ClosesAlways(conns, d, c) == conns = conns

\* ws.on('close') goes on when the connection is the registered one or none is;
\* the `close' of an event stream only in the first case.
ClosesSession(conns, d, c) ==
  \/ SameConn(conns[d], c)
  \/ c.transport = "ws" /\ conns[d] = NoConn
=============================================================================
