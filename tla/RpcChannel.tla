----------------------------- MODULE RpcChannel -----------------------------
(***************************************************************************)
(* MprpcChannel (rpc/mprpcchannel.cpp) and RpcProvider (rpc/               *)
(* rpcprovider.cpp): threads of one process call the methods of one peer   *)
(* through one channel object, that is through one socket.  A Clerk's      *)
(* channels have one caller.  A Raft node makes its calls from detached    *)
(* threads, so the channel of a peer has several, and nothing locks        *)
(* m_clientFd between the send and the recv of a call.                     *)
(*                                                                         *)
(* A call is the pair of its thread and a number.  Bytes are abstracted to *)
(* whole requests and replies: a reply longer than the 1024 bytes of       *)
(* recv_buf, or a request the stream splits, is not modelled.              *)
(***************************************************************************)
EXTENDS Naturals, Sequences, SequencesExt, Bags

CONSTANTS
  Groups,     \* the sets of threads that may share the channel
  MaxCalls,   \* bound on the calls of one thread
  MaxConns    \* bound on the connections: after it the peer accepts no more

ASSUME RpcAssumption == {MaxCalls, MaxConns} \subseteq Nat

VARIABLES
  callers,    \* the threads that share the channel
  pc,         \* where each thread is in CallMethod
  n,          \* how many calls it has made
  sock,       \* the connection it waits on in recv
  fd,         \* m_clientFd: a connection, or 0 for -1
  conns,      \* how many connections there have been: they are 1..conns
  alive,      \* the connections neither side has closed
  toServer,   \* per connection, the requests sent and not yet read
  toClient,   \* per connection, the replies sent and not yet read
  runs,       \* history, a bag: the calls whose method ran
  answers     \* history: what the calls that returned came back with

threadVars == <<pc, n, sock>>
connVars == <<fd, conns, alive>>
wireVars == <<toServer, toClient>>
vars == <<callers, threadVars, connVars, wireVars, runs, answers>>

Threads == UNION Groups
Conns == 1..MaxConns
CallOf(c) == <<c, n[c]>>

Failed == [ok |-> FALSE, from |-> {}]

Init ==
  /\ callers \in Groups
  /\ pc = [c \in Threads |-> "idle"]
  /\ n = [c \in Threads |-> 0]
  /\ sock = [c \in Threads |-> 0]
  /\ fd = 0 /\ conns = 0 /\ alive = {}
  /\ toServer = [k \in Conns |-> << >>]
  /\ toClient = [k \in Conns |-> << >>]
  /\ runs = EmptyBag /\ answers = << >>

Goto(c, l) == pc' = [pc EXCEPT ![c] = l]

\* The call ends: the caller gets its controller and its response.
Return(c, a) ==
  /\ Goto(c, "idle")
  /\ answers' = [k \in DOMAIN answers \cup {CallOf(c)} |->
                   IF k = CallOf(c) THEN a ELSE answers[k]]

\* close(m_clientFd); m_clientFd = -1.  The connection ends, unless another
\* thread is blocked in recv on it, which keeps the socket open.  The two
\* statements are one step: that another thread finds the closed number in
\* m_clientFd, or the number given to a new connection, is left out.
CloseFd(c) ==
  /\ fd' = 0
  /\ alive' = IF \E d \in Threads \ {c} : pc[d] = "recv" /\ sock[d] = fd
              THEN alive ELSE alive \ {fd}
  /\ UNCHANGED conns

-----------------------------------------------------------------------------
(* The caller's side: CallMethod.                                          *)

\* CallMethod reads m_clientFd to decide whether to connect.
Call(c) ==
  /\ pc[c] = "idle" /\ n[c] < MaxCalls
  /\ n' = [n EXCEPT ![c] = @ + 1]
  /\ Goto(c, IF fd = 0 THEN "connect" ELSE "send")
  /\ UNCHANGED <<callers, sock, connVars, wireVars, runs, answers>>

\* newConnect succeeds.
Connect(c) ==
  /\ pc[c] = "connect" /\ conns < MaxConns
  /\ conns' = conns + 1 /\ fd' = conns' /\ alive' = alive \cup {conns'}
  /\ Goto(c, "send")
  /\ UNCHANGED <<callers, n, sock, wireVars, runs, answers>>

\* newConnect fails, and so does the call.
ConnectFails(c) ==
  /\ pc[c] = "connect"
  /\ fd' = 0
  /\ Return(c, Failed)
  /\ UNCHANGED <<callers, n, sock, conns, alive, wireVars, runs>>

\* send() succeeds.  What is sent on a connection the peer has left is lost.
Send(c) ==
  /\ pc[c] = "send" /\ fd # 0
  /\ toServer' = IF fd \in alive
                 THEN [toServer EXCEPT ![fd] = Append(@, CallOf(c))]
                 ELSE toServer
  /\ Goto(c, "sent")
  /\ UNCHANGED <<callers, n, sock, connVars, toClient, runs, answers>>

\* send() returns -1: the descriptor is -1 or the connection is closed.
SendFails(c) ==
  /\ pc[c] = "send" /\ fd \notin alive
  /\ Goto(c, "close")
  /\ UNCHANGED <<callers, n, sock, connVars, wireVars, runs, answers>>

\* After the failed send, whatever m_clientFd holds by now is closed.
CloseAfterSend(c) ==
  /\ pc[c] = "close"
  /\ CloseFd(c)
  /\ Goto(c, "connect")
  /\ UNCHANGED <<callers, n, sock, wireVars, runs, answers>>

\* recv() is entered with the m_clientFd of that moment, and blocks.
EnterRecv(c) ==
  /\ pc[c] = "sent" /\ fd # 0
  /\ sock' = [sock EXCEPT ![c] = fd]
  /\ Goto(c, "recv")
  /\ UNCHANGED <<callers, n, connVars, wireVars, runs, answers>>

\* recv(-1): another thread has closed the descriptor in between.
RecvNoFd(c) ==
  /\ pc[c] = "sent" /\ fd = 0
  /\ Return(c, Failed)
  /\ UNCHANGED <<callers, n, sock, connVars, wireVars, runs>>

\* recv() returns what has come, whoever it is for: one reply or several run
\* together, which ParseFromArray merges into one message.
RecvReply(c) ==
  LET k == sock[c] IN
  /\ pc[c] = "recv"
  /\ \E j \in 1..Len(toClient[k]) :
       /\ toClient' = [toClient EXCEPT ![k] = SubSeq(@, j + 1, Len(@))]
       /\ Return(c, [ok |-> TRUE, from |-> ToSet(SubSeq(toClient[k], 1, j))])
  /\ UNCHANGED <<callers, n, sock, connVars, toServer, runs>>

\* The peer has closed: recv() returns 0, not -1.  Zero bytes parse as a
\* response with no field set, so the call succeeds, and m_clientFd stays.
RecvEmpty(c) ==
  /\ pc[c] = "recv" /\ sock[c] \notin alive /\ toClient[sock[c]] = << >>
  /\ Return(c, [ok |-> TRUE, from |-> {}])
  /\ UNCHANGED <<callers, n, sock, connVars, wireVars, runs>>

\* faulty: a call whose reply is lost is sent again.
RecvErrorResend(c) ==
  /\ pc[c] = "recv" /\ sock[c] \notin alive
  /\ CloseFd(c)
  /\ Goto(c, "connect")
  /\ UNCHANGED <<callers, n, sock, wireVars, runs, answers>>

\* The connection is reset: recv() returns -1, what m_clientFd holds is closed.
RecvError(c) ==
  /\ pc[c] = "recv" /\ sock[c] \notin alive
  /\ CloseFd(c)
  /\ Return(c, Failed)
  /\ UNCHANGED <<callers, n, sock, wireVars, runs>>

-----------------------------------------------------------------------------
(* The peer's side, and the connection.                                    *)

\* faulty: the method returns without running its closure.
OnMessageSilent(k) ==
  /\ toServer[k] # << >>
  /\ toServer' = [toServer EXCEPT ![k] = << >>]
  /\ runs' = runs (+) SetToBag({Head(toServer[k])})
  /\ UNCHANGED <<callers, threadVars, connVars, toClient, answers>>

\* OnMessage takes everything that has arrived for one request: it runs the
\* first and drops the rest.  SendRpcResponse sends the reply.  A connection
\* belongs to one IO thread, which handles its requests one after another.
\* It always replies: requests that cannot be parsed or name no method, whose
\* callers get no answer, and replies that serialize to no bytes are left out.
OnMessage(k) ==
  /\ \E j \in 1..Len(toServer[k]) :
       toServer' = [toServer EXCEPT ![k] = SubSeq(@, j + 1, Len(@))]
  /\ runs' = runs (+) SetToBag({Head(toServer[k])})
  /\ toClient' = [toClient EXCEPT ![k] = Append(@, Head(toServer[k]))]
  /\ UNCHANGED <<callers, threadVars, connVars, answers>>

\* The peer goes, or the connection breaks: requests it has not read are
\* lost, and of the replies those the caller's kernel does not have yet.
PeerGone(k) ==
  /\ k \in alive
  /\ alive' = alive \ {k}
  /\ toServer' = [toServer EXCEPT ![k] = << >>]
  /\ \E j \in 0..Len(toClient[k]) :
       toClient' = [toClient EXCEPT ![k] = SubSeq(@, 1, j)]
  /\ UNCHANGED <<callers, threadVars, fd, conns, runs, answers>>

-----------------------------------------------------------------------------
CallMethod(c) ==
  \/ Connect(c) \/ ConnectFails(c) \/ Send(c) \/ SendFails(c)
  \/ CloseAfterSend(c) \/ EnterRecv(c) \/ RecvNoFd(c)
  \/ RecvReply(c) \/ RecvEmpty(c) \/ RecvError(c)

Next ==
  \/ \E c \in callers : Call(c) \/ CallMethod(c)
  \/ \E k \in Conns : OnMessage(k) \/ PeerGone(k)

\* A thread inside CallMethod keeps running, and the peer's event loop handles
\* what it has received.  Nothing makes a caller call or a connection break.
Fairness ==
  /\ \A c \in Threads : WF_vars(c \in callers /\ CallMethod(c))
  /\ \A k \in Conns : WF_vars(OnMessage(k))

Spec == Init /\ [][Next]_vars /\ Fairness

-----------------------------------------------------------------------------
(* What is checked.                                                        *)

Issued == {k \in Threads \X (1..MaxCalls) : k[2] <= n[k[1]]}

Abs == INSTANCE RpcCall WITH issued <- Issued

\* The channel and the provider implement RpcCall: a call runs at most once, a
\* reply is handed out at most once, never before the method has run, and the
\* only caller of a channel is never given the reply to another of its calls,
\* whatever connections broke between them.
ImplementsRpcCall == Abs!Spec

\* The only caller of a channel does not hang in CallMethod: recv has no time
\* limit, so it relies on the peer answering every request or being seen to
\* go.  (With several callers a dropped request leaves its caller in recv.)
LoneCallReturns ==
  \A c \in Threads : callers = {c} /\ pc[c] # "idle" ~> pc[c] = "idle"
=============================================================================
