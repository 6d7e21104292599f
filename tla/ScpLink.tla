------------------------------ MODULE ScpLink ------------------------------
(***************************************************************************)
(* The service protocol between the gateway (services/scp-server) and one  *)
(* service (service-sdk/client).  Both keep at most one connection that    *)
(* counts, which the service replaces when it is lost; both call actions   *)
(* of the other over it, and give up calls that are not answered in time.  *)
(*                                                                         *)
(* A socket has two ends, and carries what each end sends in order.  A     *)
(* close is the last message of an end; the other end answers with its     *)
(* own.  A lost socket loses what it carries, and each end finds out at    *)
(* some time: it finds a close.                                            *)
(***************************************************************************)
EXTENDS Naturals, Sequences, FiniteSets

CONSTANTS
  AgentCalls,   \* calls of the gateway: sendActionAndWait
  ServiceCalls, \* calls of the service: callAction
  None,         \* no socket, no call
  MaxRetries,   \* reconnect.maxRetries
  SocketCount,  \* bound: sockets
  MaxDrops,     \* bound: sockets that are lost or cannot be opened
  MaxOrders,    \* bound: connect and disconnect by the service's program
  MaxCalls      \* bound: calls that are made

Sockets == 1 .. SocketCount
Calls == AgentCalls \cup ServiceCalls

ASSUME LinkTypes ==
  /\ AgentCalls \cap ServiceCalls = {} /\ None \notin Calls \cup Nat
  /\ MaxRetries \in Nat /\ SocketCount \in Nat /\ MaxDrops \in Nat /\ MaxOrders \in Nat
  /\ MaxCalls \in Nat

VARIABLES
  client,    \* the service's end of each socket
  server,    \* the gateway's end of each socket
  up, down,  \* what each socket carries to the gateway, and to the service
  ws,        \* the client's socket; it is connected when there is one
  attempts,  \* reconnectAttempts
  retry,     \* is the reconnectTimeout pending
  stray,     \* pending timers that reconnectTimeout has forgotten
  conn,      \* the server's connection of the service
  metadata,  \* sockets over which the service has introduced itself
  outcome,   \* of each call
  carried,   \* how often each call was carried out
  working,   \* calls whose handler is running
  sentOn,    \* the socket of each call of the service
  wanted,    \* history: the program of the service has asked for a connection
  gaveUp,    \* history: the last attempt to connect ended in a report to the program
  crossed,   \* history: an event of a socket came when the client had another
  drops, orders

socketVars == <<client, server, up, down>>
clientVars == <<ws, attempts, retry, stray, wanted, gaveUp, crossed>>
serverVars == <<conn, metadata>>
callVars == <<outcome, carried, working, sentOn>>
vars == <<socketVars, clientVars, serverVars, callVars, drops, orders>>

Message == [type : {"started", "stopped", "close", "call", "answer"}, call : Calls \cup {None}]
Msg(type) == [type |-> type, call |-> None]

Init ==
  /\ client = [s \in Sockets |-> "unused"] /\ server = [s \in Sockets |-> "unused"]
  /\ up = [s \in Sockets |-> <<>>] /\ down = [s \in Sockets |-> <<>>]
  /\ ws = None /\ attempts = 0 /\ retry = FALSE /\ stray = 0
  /\ conn = None /\ metadata = {}
  /\ outcome = [c \in Calls |-> "none"] /\ carried = [c \in Calls |-> 0] /\ working = {}
  /\ sentOn = [c \in ServiceCalls |-> None]
  /\ wanted = FALSE /\ gaveUp = FALSE /\ crossed = FALSE
  /\ drops = 0 /\ orders = 0
---------------------------------------------------------------------------
(* Sockets *)

IsOpen(end, s) == s # None /\ end[s] = "open"
Hears(end, s) == end[s] \in {"open", "closing"}

\* An end that is open sends; to an end that is closed nothing is carried.
Sent(chan, from, to, s, msgs) ==
  IF IsOpen(from, s) /\ to[s] # "closed" THEN [chan EXCEPT ![s] = @ \o msgs] ELSE chan

\* close() at an end that is open.
Closing(end, s) == IF IsOpen(end, s) THEN [end EXCEPT ![s] = "closing"] ELSE end

Lose(s) ==
  /\ drops < MaxDrops
  /\ drops' = drops + 1
  /\ Hears(client, s) \/ Hears(server, s)
  /\ client[s] # "connecting"
  /\ up' = [up EXCEPT ![s] = IF Hears(server, s) THEN <<Msg("close")>> ELSE <<>>]
  /\ down' = [down EXCEPT ![s] = IF Hears(client, s) THEN <<Msg("close")>> ELSE <<>>]
  /\ UNCHANGED <<client, server, clientVars, serverVars, callVars, orders>>
---------------------------------------------------------------------------
(* The client *)

\* rejectAllPending
Rejected ==
  [c \in Calls |-> IF c \in ServiceCalls /\ outcome[c] = "open" THEN "failed" ELSE outcome[c]]

\* connect, of a client that is connected after disconnect.
Dial(s) ==
  /\ client[s] = "unused" /\ \A t \in Sockets : t < s => client[t] # "unused"
  /\ client' = [Closing(client, ws) EXCEPT ![s] = "connecting"]
  /\ up' = Sent(up, client, server, ws, <<Msg("stopped"), Msg("close")>>)
  /\ outcome' = IF ws = None THEN outcome ELSE Rejected
  /\ ws' = None
  /\ gaveUp' = FALSE
  /\ UNCHANGED <<server, down, attempts, crossed, serverVars, carried, working, sentOn, drops>>

Connect ==
  /\ orders < MaxOrders
  /\ orders' = orders + 1
  /\ wanted' = TRUE
  /\ \E s \in Sockets : Dial(s)
  /\ retry' = IF ws = None THEN retry ELSE FALSE
  /\ UNCHANGED stray

Reconnect ==
  /\ \E s \in Sockets : Dial(s)
  /\ \/ retry /\ retry' = FALSE /\ UNCHANGED stray
     \/ stray > 0 /\ stray' = stray - 1 /\ retry' = IF ws = None THEN retry ELSE FALSE
  /\ UNCHANGED <<wanted, orders>>

\* disconnect, which leaves an attempt to connect alone.
Disconnect ==
  /\ wanted /\ orders < MaxOrders
  /\ orders' = orders + 1
  /\ wanted' = FALSE
  /\ retry' = FALSE
  /\ client' = Closing(client, ws)
  /\ up' = Sent(up, client, server, ws, <<Msg("stopped"), Msg("close")>>)
  /\ outcome' = Rejected
  /\ ws' = None
  /\ UNCHANGED <<server, down, attempts, stray, gaveUp, crossed, serverVars, carried, working, sentOn, drops>>

\* Mutant: the attempts are not counted anew.
OpenCountsOn(s) ==
  /\ client[s] = "connecting" /\ server[s] # "unused"
  /\ client' = [client EXCEPT ![s] = "open"]
  /\ up' = Sent(up, client', server, s, <<Msg("started")>>)
  /\ ws' = s
  /\ gaveUp' = FALSE
  /\ crossed' = (crossed \/ ws # None)
  /\ UNCHANGED <<server, down, attempts, retry, stray, wanted, serverVars, callVars, drops, orders>>

\* The "open" event, which introduces the service.
Open(s) ==
  /\ client[s] = "connecting" /\ server[s] # "unused"
  /\ client' = [client EXCEPT ![s] = "open"]
  /\ up' = Sent(up, client', server, s, <<Msg("started")>>)
  /\ ws' = s
  /\ attempts' = 0
  /\ gaveUp' = FALSE
  /\ crossed' = (crossed \/ ws # None)
  /\ UNCHANGED <<server, down, retry, stray, wanted, serverVars, callVars, drops, orders>>

\* Mutant: the failure is not reported.
ConnectFailsQuietly(s) ==
  /\ drops < MaxDrops
  /\ drops' = drops + 1
  /\ client[s] = "connecting"
  /\ client' = [client EXCEPT ![s] = "closed"]
  /\ up' = [up EXCEPT ![s] = IF Hears(server, s) THEN <<Msg("close")>> ELSE <<>>]
  /\ down' = [down EXCEPT ![s] = <<>>]
  /\ UNCHANGED <<server, ws, attempts, retry, stray, wanted, gaveUp, crossed, serverVars, callVars, orders>>

\* The "error" event and the timeout of an attempt: connect rejects, and nothing
\* is tried again.
ConnectFails(s) ==
  /\ drops < MaxDrops
  /\ drops' = drops + 1
  /\ client[s] = "connecting"
  /\ client' = [client EXCEPT ![s] = "closed"]
  /\ up' = [up EXCEPT ![s] = IF Hears(server, s) THEN <<Msg("close")>> ELSE <<>>]
  /\ down' = [down EXCEPT ![s] = <<>>]
  /\ gaveUp' = TRUE
  /\ UNCHANGED <<server, ws, attempts, retry, stray, wanted, crossed, serverVars, callVars, orders>>

\* Mutant: the calls that wait are not rejected.
ClientClosesQuietly(s) ==
  /\ client' = [client EXCEPT ![s] = "closed"]
  /\ up' = Sent(up, client, server, s, <<Msg("close")>>)
  /\ down' = [down EXCEPT ![s] = <<>>]
  /\ ws' = None
  /\ crossed' = (crossed \/ ws \notin {s, None})
  /\ CASE ws # None /\ attempts >= MaxRetries ->
            gaveUp' = TRUE /\ UNCHANGED <<attempts, retry, stray>>
       [] ws # None /\ attempts < MaxRetries ->
            /\ attempts' = attempts + 1
            /\ retry' = TRUE
            /\ stray' = IF retry THEN stray + 1 ELSE stray
            /\ UNCHANGED gaveUp
       [] OTHER -> UNCHANGED <<gaveUp, attempts, retry, stray>>
  /\ UNCHANGED <<server, wanted, serverVars, outcome, carried, working, sentOn, drops, orders>>

\* The "close" event, of whatever socket, and attemptReconnect.
ClientCloses(s) ==
  /\ client' = [client EXCEPT ![s] = "closed"]
  /\ up' = Sent(up, client, server, s, <<Msg("close")>>)
  /\ down' = [down EXCEPT ![s] = <<>>]
  /\ outcome' = Rejected
  /\ ws' = None
  /\ crossed' = (crossed \/ ws \notin {s, None})
  /\ CASE ws # None /\ attempts >= MaxRetries ->
            gaveUp' = TRUE /\ UNCHANGED <<attempts, retry, stray>>
       [] ws # None /\ attempts < MaxRetries ->
            /\ attempts' = attempts + 1
            /\ retry' = TRUE
            /\ stray' = IF retry THEN stray + 1 ELSE stray
            /\ UNCHANGED gaveUp
       [] OTHER -> UNCHANGED <<gaveUp, attempts, retry, stray>>
  /\ UNCHANGED <<server, wanted, serverVars, carried, working, sentOn, drops, orders>>

\* Mutant: the answer to a call that was given up counts.
AnsweredLate(c) == [outcome EXCEPT ![c] = "answered"]

Answered(c) == IF outcome[c] = "open" THEN [outcome EXCEPT ![c] = "answered"] ELSE outcome

\* handleMessage of the client: it no longer matters which socket it was.
ClientReads(s) ==
  LET m == Head(down[s])
  IN
  /\ Hears(client, s) /\ down[s] # <<>>
  /\ IF m.type = "close" THEN ClientCloses(s)
     ELSE /\ down' = [down EXCEPT ![s] = Tail(@)]
          /\ IF m.type = "call"
             THEN /\ carried' = [carried EXCEPT ![m.call] = @ + 1]
                  /\ working' = working \cup {m.call}
                  /\ UNCHANGED outcome
             ELSE outcome' = Answered(m.call) /\ UNCHANGED <<carried, working>>
          /\ UNCHANGED <<client, server, up, clientVars, serverVars, sentOn, drops, orders>>

CanAsk(c) ==
  /\ outcome[c] = "none"
  /\ Cardinality({d \in Calls : outcome[d] # "none"}) < MaxCalls

\* callAction
ServiceAsks(c) ==
  /\ CanAsk(c)
  /\ outcome' = [outcome EXCEPT ![c] = IF ws = None THEN "failed" ELSE "open"]
  /\ sentOn' = [sentOn EXCEPT ![c] = ws]
  /\ up' = Sent(up, client, server, ws, <<[type |-> "call", call |-> c]>>)
  /\ UNCHANGED <<client, server, down, clientVars, serverVars, carried, working, drops, orders>>

\* sendActionResponse, over the socket that the client has by then.
ServiceAnswers(c) ==
  /\ c \in working
  /\ working' = working \ {c}
  /\ up' = Sent(up, client, server, ws, <<[type |-> "answer", call |-> c]>>)
  /\ UNCHANGED <<client, server, down, clientVars, serverVars, outcome, carried, sentOn, drops, orders>>
---------------------------------------------------------------------------
(* The server *)

\* Mutant: the connection that is replaced stays open.
AcceptBeside(s) ==
  /\ client[s] = "connecting" /\ server[s] = "unused"
  /\ server' = [server EXCEPT ![s] = "open"]
  /\ conn' = s
  /\ UNCHANGED <<client, up, down, metadata, clientVars, callVars, drops, orders>>

\* handleConnection: the last connection of a service is the one that counts.
Accept(s) ==
  /\ client[s] = "connecting" /\ server[s] = "unused"
  /\ server' = [Closing(server, conn) EXCEPT ![s] = "open"]
  /\ down' = Sent(down, server, client, conn, <<Msg("close")>>)
  /\ conn' = s
  /\ UNCHANGED <<client, up, metadata, clientVars, callVars, drops, orders>>

CloseAtServer(s) ==
  /\ server' = Closing(server, s)
  /\ down' = Sent(down, server, client, s, <<Msg("close")>>)

\* After 30 seconds; an attempt of the client lasts at most 10.
HandshakeTimeout(s) ==
  /\ server[s] = "open" /\ s \notin metadata /\ client[s] # "connecting"
  /\ CloseAtServer(s)
  /\ UNCHANGED <<client, up, clientVars, serverVars, callVars, drops, orders>>

\* The "close" event of a socket.
ServerCloses(s) ==
  /\ server' = [server EXCEPT ![s] = "closed"]
  /\ up' = [up EXCEPT ![s] = <<>>]
  /\ down' = Sent(down, server, client, s, <<Msg("close")>>)
  /\ conn' = IF conn = s THEN None ELSE conn
  /\ metadata' = metadata \ {s}
  /\ UNCHANGED <<client, clientVars, callVars, drops, orders>>

\* handleMessage of the server, for connections that were replaced as well.
ServerReads(s) ==
  LET m == Head(up[s])
  IN
  /\ Hears(server, s) /\ up[s] # <<>>
  /\ IF m.type = "close" THEN ServerCloses(s)
     ELSE /\ up' = [up EXCEPT ![s] = Tail(@)]
          /\ metadata' = IF m.type = "started" THEN metadata \cup {s} ELSE metadata
          /\ IF m.type = "stopped" THEN CloseAtServer(s) ELSE UNCHANGED <<server, down>>
          /\ IF m.type = "call"
             THEN /\ carried' = [carried EXCEPT ![m.call] = @ + 1]
                  /\ working' = working \cup {m.call}
             ELSE UNCHANGED <<carried, working>>
          /\ outcome' = IF m.type = "answer" THEN Answered(m.call) ELSE outcome
          /\ UNCHANGED <<client, clientVars, conn, sentOn, drops, orders>>

\* sendActionAndWait
AgentAsks(c) ==
  /\ CanAsk(c)
  /\ outcome' = [outcome EXCEPT ![c] = IF IsOpen(server, conn) THEN "open" ELSE "failed"]
  /\ down' = Sent(down, server, client, conn, <<[type |-> "call", call |-> c]>>)
  /\ UNCHANGED <<client, server, up, clientVars, serverVars, carried, working, sentOn, drops, orders>>

\* sendSuccess, over the socket that the call came from.
AgentAnswers(c) ==
  /\ c \in working
  /\ working' = working \ {c}
  /\ down' = Sent(down, server, client, sentOn[c], <<[type |-> "answer", call |-> c]>>)
  /\ UNCHANGED <<client, server, up, clientVars, serverVars, outcome, carried, sentOn, drops, orders>>

\* Mutant: a call that is not answered in time is sent once more.
TimesOutAndResends(c) ==
  /\ outcome[c] = "open"
  /\ outcome' = [outcome EXCEPT ![c] = "failed"]
  /\ up' = IF c \in ServiceCalls
           THEN Sent(up, client, server, ws, <<[type |-> "call", call |-> c]>>) ELSE up
  /\ UNCHANGED <<client, server, down, clientVars, serverVars, carried, working, sentOn, drops, orders>>

\* Both sides give up a call in the same way.
TimesOut(c) ==
  /\ outcome[c] = "open"
  /\ outcome' = [outcome EXCEPT ![c] = "failed"]
  /\ UNCHANGED <<socketVars, clientVars, serverVars, carried, working, sentOn, drops, orders>>
---------------------------------------------------------------------------
Next ==
  \/ Connect \/ Reconnect \/ Disconnect
  \/ \E s \in Sockets :
       \/ Lose(s) \/ Accept(s) \/ Open(s) \/ ConnectFails(s) \/ HandshakeTimeout(s)
       \/ ClientReads(s) \/ ServerReads(s)
  \/ \E c \in AgentCalls : AgentAsks(c) \/ ServiceAnswers(c)
  \/ \E c \in ServiceCalls : ServiceAsks(c) \/ AgentAnswers(c)
  \/ \E c \in Calls : TimesOut(c)

\* Timers fire, and what a socket carries arrives.  The program of the service
\* and the handlers of actions owe nothing.
Fairness ==
  /\ WF_vars(Reconnect)
  /\ \A s \in Sockets :
       /\ WF_vars(Accept(s)) /\ WF_vars(Open(s) \/ ConnectFails(s))
       /\ WF_vars(ClientReads(s)) /\ WF_vars(ServerReads(s))
  /\ \A c \in Calls : WF_vars(TimesOut(c))

Spec == Init /\ [][Next]_vars
FairSpec == Spec /\ Fairness
---------------------------------------------------------------------------
(* Properties *)

TypeOK ==
  /\ client \in [Sockets -> {"unused", "connecting", "open", "closing", "closed"}]
  /\ server \in [Sockets -> {"unused", "open", "closing", "closed"}]
  /\ up \in [Sockets -> Seq(Message)] /\ down \in [Sockets -> Seq(Message)]
  /\ ws \in Sockets \cup {None} /\ conn \in Sockets \cup {None}
  /\ attempts \in 0 .. MaxRetries /\ (ws # None => attempts = 0) /\ retry \in BOOLEAN /\ stray \in 0 .. SocketCount
  /\ metadata \subseteq Sockets
  /\ outcome \in [Calls -> {"none", "open", "answered", "failed"}]
  /\ carried \in [Calls -> Nat] /\ working \subseteq {c \in Calls : carried[c] > 0}
  /\ sentOn \in [ServiceCalls -> Sockets \cup {None}]
  /\ wanted \in BOOLEAN /\ gaveUp \in BOOLEAN /\ crossed \in BOOLEAN
  /\ drops \in 0 .. MaxDrops /\ orders \in 0 .. MaxOrders

\* The gateway holds no socket of the service open but the one it counts, and
\* that one has not ended.
OneConnection ==
  /\ \A s \in Sockets : server[s] = "open" => s = conn
  /\ conn # None => Hears(server, conn)

\* The two sides mean the same socket, and calls of the service wait on no other,
\* unless the client has met an event of one socket when it had another.
EndsAgree ==
  ~crossed =>
    /\ IsOpen(server, conn) /\ IsOpen(client, conn) => ws = conn
    /\ \A c \in ServiceCalls : outcome[c] = "open" => ws # None /\ sentOn[c] = ws

\* One connection counts, and both sides know which.
OneLink == OneConnection /\ EndsAgree

\* A service that wants a connection gets one, or is told.
LinkReturns ==
  wanted ~> \/ ws # None \/ gaveUp \/ ~wanted
            \/ \A s \in Sockets : client[s] # "unused"

\* Calls keep the promise of RemoteCalls.
Promise == INSTANCE RemoteCalls
ImplementsCalls == Promise!Spec
===========================================================================
