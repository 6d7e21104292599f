--------------------------- MODULE ScpLinkProofs ---------------------------
(***************************************************************************)
(* What holds of the connection of a service for any calls and sockets:    *)
(* its types, the one connection that counts, and the promise of           *)
(* RemoteCalls but for its liveness.                                       *)
(***************************************************************************)
EXTENDS ScpLink, FiniteSetTheorems, TLAPS

\* The parts of TypeOK, without the bound on stray timers.
EndTypes ==
  /\ client \in [Sockets -> {"unused", "connecting", "open", "closing", "closed"}]
  /\ server \in [Sockets -> {"unused", "open", "closing", "closed"}]

\* Each side sends its own calls and answers those of the other.
UpMessage ==
  {m \in Message : /\ m.type = "call" => m.call \in ServiceCalls
                   /\ m.type = "answer" => m.call \in AgentCalls}
DownMessage ==
  {m \in Message : /\ m.type \in {"close", "call", "answer"}
                   /\ m.type = "call" => m.call \in AgentCalls
                   /\ m.type = "answer" => m.call \in ServiceCalls}
ChanTypes == up \in [Sockets -> Seq(UpMessage)] /\ down \in [Sockets -> Seq(DownMessage)]

ClientTypes ==
  /\ ws \in Sockets \cup {None}
  /\ attempts \in 0 .. MaxRetries /\ (ws # None => attempts = 0)
  /\ retry \in BOOLEAN /\ stray \in Nat
  /\ wanted \in BOOLEAN /\ gaveUp \in BOOLEAN /\ crossed \in BOOLEAN

ServerTypes == conn \in Sockets \cup {None} /\ metadata \subseteq Sockets

Outcome == {"none", "open", "answered", "failed"}

\* The calls that were carried out, however often.
Carried == {c \in Calls : carried[c] > 0}

CallTypes ==
  /\ outcome \in [Calls -> Outcome]
  /\ carried \in [Calls -> Nat] /\ working \subseteq Carried
  /\ sentOn \in [ServiceCalls -> Sockets \cup {None}]

BoundTypes == drops \in 0 .. MaxDrops /\ orders \in 0 .. MaxOrders

Types == EndTypes /\ ChanTypes /\ ClientTypes /\ ServerTypes /\ CallTypes /\ BoundTypes

USE LinkTypes

\* A call that is carried out is one more of those that were.
LEMMA CarriedGrows ==
  ASSUME carried \in [Calls -> Nat], NEW c \in Calls, carried' = [carried EXCEPT ![c] = @ + 1]
  PROVE  /\ carried' \in [Calls -> Nat] /\ Carried' = Carried \cup {c}
         /\ c \notin Carried => carried[c] = 0
  BY DEF Carried

\* None is neither a socket nor a call.
LEMMA NoSocketIsNone == None \notin Sockets /\ None \notin Calls
  BY DEF Sockets

\* What each side sends.
LEMMA Messages ==
  /\ <<Msg("close")>> \in Seq(UpMessage) /\ <<Msg("close")>> \in Seq(DownMessage)
  /\ <<Msg("started")>> \in Seq(UpMessage)
  /\ <<Msg("stopped"), Msg("close")>> \in Seq(UpMessage)
  /\ <<>> \in Seq(UpMessage) /\ <<>> \in Seq(DownMessage)
<1>1. \A type \in {"started", "stopped", "close"} : Msg(type) \in UpMessage
  BY DEF Message, Msg, UpMessage
<1>2. Msg("close") \in DownMessage
  BY DEF Message, Msg, DownMessage
<1> QED
  BY <1>1, <1>2

\* A call, and an answer.
Asks(c) == <<[type |-> "call", call |-> c]>>
Answers(c) == <<[type |-> "answer", call |-> c]>>

\* A single message is a sequence of messages.
LEMMA OneMessage == ASSUME NEW M, NEW m \in M PROVE <<m>> \in Seq(M)
  OBVIOUS

\* Calls and answers are messages of the side that sends them.
LEMMA CallMessages ==
  /\ \A c \in ServiceCalls : Asks(c) \in Seq(UpMessage) /\ Answers(c) \in Seq(DownMessage)
  /\ \A c \in AgentCalls : Asks(c) \in Seq(DownMessage) /\ Answers(c) \in Seq(UpMessage)
<1>1. ASSUME NEW c \in ServiceCalls
      PROVE  [type |-> "call", call |-> c] \in UpMessage
             /\ [type |-> "answer", call |-> c] \in DownMessage
  BY DEF Message, UpMessage, DownMessage, Calls
<1>2. ASSUME NEW c \in AgentCalls
      PROVE  [type |-> "call", call |-> c] \in DownMessage
             /\ [type |-> "answer", call |-> c] \in UpMessage
  BY DEF Message, UpMessage, DownMessage, Calls
<1> QED
  BY <1>1, <1>2, OneMessage DEF Asks, Answers

\* What Sent leaves in a channel: what was there, and then perhaps the new.
Appends(new, chan, s, msgs) ==
  \/ new = chan
  \/ s \in Sockets /\ new = [chan EXCEPT ![s] = @ \o msgs]

\* Sending keeps the type of a channel.
LEMMA AppendsTypes ==
  ASSUME NEW M, NEW chan \in [Sockets -> Seq(M)], NEW s, NEW msgs \in Seq(M),
         NEW new, Appends(new, chan, s, msgs)
  PROVE  new \in [Sockets -> Seq(M)]
<1>1. CASE s \in Sockets /\ new = [chan EXCEPT ![s] = @ \o msgs]
  <2>1. chan[s] \o msgs \in Seq(M)
    BY <1>1
  <2> QED
    BY <1>1, <2>1
<1> QED
  BY <1>1 DEF Appends

\* What each action of the client sends.
LEMMA SentUp ==
  ASSUME Types
  PROVE  /\ \A s \in Sockets : Dial(s) => Appends(up', up, ws, <<Msg("stopped"), Msg("close")>>)
         /\ Disconnect => Appends(up', up, ws, <<Msg("stopped"), Msg("close")>>)
         /\ \A s \in Sockets : ClientCloses(s) => Appends(up', up, s, <<Msg("close")>>)
         /\ \A s \in Sockets : Open(s) => Appends(up', up, s, <<Msg("started")>>)
         /\ \A c \in ServiceCalls : ServiceAsks(c) => Appends(up', up, ws, Asks(c))
         /\ \A c \in AgentCalls : ServiceAnswers(c) => Appends(up', up, ws, Answers(c))
<1>1. \A s \in Sockets : Dial(s) => Appends(up', up, ws, <<Msg("stopped"), Msg("close")>>)
  BY NoSocketIsNone DEF Dial, Sent, IsOpen, Appends, Types, ClientTypes
<1>2. Disconnect => Appends(up', up, ws, <<Msg("stopped"), Msg("close")>>)
  BY NoSocketIsNone DEF Disconnect, Sent, IsOpen, Appends, Types, ClientTypes
<1>3. \A s \in Sockets : ClientCloses(s) => Appends(up', up, s, <<Msg("close")>>)
  BY NoSocketIsNone DEF ClientCloses, Sent, IsOpen, Appends
<1>4. \A s \in Sockets : Open(s) => Appends(up', up, s, <<Msg("started")>>)
  BY NoSocketIsNone DEF Open, Sent, IsOpen, Appends
<1>5. \A c \in ServiceCalls : ServiceAsks(c) => Appends(up', up, ws, Asks(c))
  BY NoSocketIsNone DEF ServiceAsks, Sent, IsOpen, Appends, Types, ClientTypes, Asks
<1>6. \A c \in AgentCalls : ServiceAnswers(c) => Appends(up', up, ws, Answers(c))
  BY NoSocketIsNone DEF ServiceAnswers, Sent, IsOpen, Appends, Types, ClientTypes, Answers
<1> QED
  BY <1>1, <1>2, <1>3, <1>4, <1>5, <1>6

\* What each action of the server sends.
LEMMA SentDown ==
  ASSUME Types
  PROVE  /\ \A s \in Sockets : CloseAtServer(s) => Appends(down', down, s, <<Msg("close")>>)
         /\ \A s \in Sockets : ServerCloses(s) => Appends(down', down, s, <<Msg("close")>>)
         /\ \A s \in Sockets : Accept(s) => Appends(down', down, conn, <<Msg("close")>>)
         /\ \A c \in AgentCalls : AgentAsks(c) => Appends(down', down, conn, Asks(c))
         /\ \A c \in ServiceCalls : 
            AgentAnswers(c) => Appends(down', down, sentOn[c], Answers(c))
<1>1. \A s \in Sockets : CloseAtServer(s) => Appends(down', down, s, <<Msg("close")>>)
  BY NoSocketIsNone DEF CloseAtServer, Sent, IsOpen, Appends
<1>2. \A s \in Sockets : ServerCloses(s) => Appends(down', down, s, <<Msg("close")>>)
  BY NoSocketIsNone DEF ServerCloses, Sent, IsOpen, Appends
<1>3. \A s \in Sockets : Accept(s) => Appends(down', down, conn, <<Msg("close")>>)
  BY NoSocketIsNone DEF Accept, Sent, IsOpen, Appends, Types, ServerTypes
<1>4. \A c \in AgentCalls : AgentAsks(c) => Appends(down', down, conn, Asks(c))
  BY NoSocketIsNone DEF AgentAsks, Sent, IsOpen, Appends, Types, ServerTypes, Asks
<1>5. \A c \in ServiceCalls : 
        AgentAnswers(c) => Appends(down', down, sentOn[c], Answers(c))
  BY NoSocketIsNone DEF AgentAnswers, Sent, IsOpen, Appends, Types, CallTypes, Answers
<1> QED
  BY <1>1, <1>2, <1>3, <1>4, <1>5

\* close() changes the end of an open socket only.
LEMMA ClosingEffect ==
  ASSUME NEW S, {"open", "closing"} \subseteq S, NEW end \in [Sockets -> S],
         NEW s \in Sockets \cup {None}
  PROVE  /\ Closing(end, s) \in [Sockets -> S]
         /\ \A t \in Sockets :
              Closing(end, s)[t] = IF t = s /\ end[t] = "open" THEN "closing" ELSE end[t]
  BY NoSocketIsNone DEF Closing, IsOpen

\* The same for the two ends of the link.
LEMMA ClosingEnds ==
  ASSUME Types, NEW s \in Sockets \cup {None}
  PROVE  /\ Closing(client, s)
              \in [Sockets -> {"unused", "connecting", "open", "closing", "closed"}]
         /\ Closing(server, s) \in [Sockets -> {"unused", "open", "closing", "closed"}]
         /\ \A t \in Sockets :
              /\ Closing(client, s)[t] =
                   IF t = s /\ client[t] = "open" THEN "closing" ELSE client[t]
              /\ Closing(server, s)[t] =
                   IF t = s /\ server[t] = "open" THEN "closing" ELSE server[t]
<1> DEFINE C == {"unused", "connecting", "open", "closing", "closed"}
           S == {"unused", "open", "closing", "closed"}
<1>1. {"open", "closing"} \subseteq C /\ {"open", "closing"} \subseteq S
  OBVIOUS
<1>2. client \in [Sockets -> C] /\ server \in [Sockets -> S]
  BY DEF Types, EndTypes
<1> HIDE DEF C, S
<1>3. /\ Closing(client, s) \in [Sockets -> C] /\ Closing(server, s) \in [Sockets -> S]
      /\ \A t \in Sockets :
           /\ Closing(client, s)[t] = IF t = s /\ client[t] = "open" THEN "closing" ELSE client[t]
           /\ Closing(server, s)[t] = IF t = s /\ server[t] = "open" THEN "closing" ELSE server[t]
  BY <1>1, <1>2, ClosingEffect
<1> QED
  BY <1>3 DEF C, S
---------------------------------------------------------------------------
(* Types *)

\* A client that connects keeps the types, given what becomes of its timers.
LEMMA DialTypes ==
  ASSUME Types, NEW s \in Sockets, Dial(s)
  PROVE  /\ EndTypes' /\ ChanTypes' /\ ServerTypes' /\ CallTypes'
         /\ ws' = None /\ gaveUp' = FALSE /\ UNCHANGED <<attempts, crossed, drops>>
<1>1. EndTypes'
  BY ClosingEnds DEF Dial, Types, EndTypes, ClientTypes
<1>2. ChanTypes'
  <2>1. <<Msg("stopped"), Msg("close")>> \in Seq(UpMessage)
    BY Messages
  <2> QED
    BY <2>1, SentUp, AppendsTypes DEF Dial, Types, ChanTypes, ClientTypes
<1>3. CallTypes'
  BY DEF Dial, Types, CallTypes, Rejected, Outcome, Carried
<1> QED
  BY <1>1, <1>2, <1>3 DEF Dial, Types, ServerTypes, serverVars

\* The close event keeps them.
LEMMA ClientClosesTypes ==
  ASSUME Types, NEW s \in Sockets, ClientCloses(s)
  PROVE  Types'
<1>1. EndTypes'
  BY DEF ClientCloses, Types, EndTypes
<1>2. ChanTypes'
  <2>1. <<Msg("close")>> \in Seq(UpMessage) /\ <<>> \in Seq(DownMessage)
    BY Messages
  <2> QED
    BY <2>1, SentUp, AppendsTypes DEF ClientCloses, Types, ChanTypes
<1>3. CallTypes'
  BY DEF ClientCloses, Types, CallTypes, Rejected, Outcome, Carried
<1>4. ClientTypes'
  <2>1. /\ ws' = None /\ UNCHANGED wanted
        /\ crossed' = (crossed \/ ws \notin {s, None})
    BY DEF ClientCloses
  <2>2. CASE ws # None /\ attempts >= MaxRetries
    <3>1. gaveUp' = TRUE /\ UNCHANGED <<attempts, retry, stray>>
      BY <2>2 DEF ClientCloses, Types, ClientTypes
    <3> QED
      BY <2>1, <3>1 DEF Types, ClientTypes
  <2>3. CASE ws # None /\ attempts < MaxRetries
    <3>1. /\ attempts' = attempts + 1 /\ retry' = TRUE
          /\ stray' = IF retry THEN stray + 1 ELSE stray
          /\ UNCHANGED gaveUp
      BY <2>3 DEF ClientCloses, Types, ClientTypes
    <3> QED
      BY <2>1, <2>3, <3>1 DEF Types, ClientTypes
  <2>4. CASE ws = None
    <3>1. UNCHANGED <<gaveUp, attempts, retry, stray>>
      BY <2>4 DEF ClientCloses
    <3> QED
      BY <2>1, <3>1 DEF Types, ClientTypes
  <2> QED
    BY <2>2, <2>3, <2>4 DEF Types, ClientTypes
<1> QED
  BY <1>1, <1>2, <1>3, <1>4
  DEF ClientCloses, Types, ServerTypes, serverVars, BoundTypes

\* What is at the head of a channel is a message, and the rest are messages.
LEMMA HeadIsMessage ==
  ASSUME NEW M, NEW chan \in [Sockets -> Seq(M)], NEW s \in Sockets, chan[s] # <<>>
  PROVE  /\ Head(chan[s]) \in M /\ Head(chan[s]) = chan[s][1]
         /\ Len(chan[s]) > 0 /\ Tail(chan[s]) \in Seq(M)
         /\ Len(Tail(chan[s])) = Len(chan[s]) - 1
         /\ \A i \in 1 .. Len(Tail(chan[s])) : Tail(chan[s])[i] = chan[s][i + 1]
         /\ [chan EXCEPT ![s] = Tail(@)] \in [Sockets -> Seq(M)]
  OBVIOUS

\* A close by the gateway keeps the types.
LEMMA CloseAtServerTypes ==
  ASSUME Types, NEW s \in Sockets, CloseAtServer(s)
  PROVE  server' \in [Sockets -> {"unused", "open", "closing", "closed"}]
         /\ down' \in [Sockets -> Seq(DownMessage)]
<1>1. <<Msg("close")>> \in Seq(DownMessage)
  BY Messages
<1> QED
  BY <1>1, SentDown, AppendsTypes, ClosingEnds DEF CloseAtServer, Types, ChanTypes, EndTypes

\* An answer keeps the outcomes.
LEMMA AnsweredTypes ==
  ASSUME CallTypes, NEW c
  PROVE  Answered(c) \in [Calls -> Outcome]
  BY DEF Answered, CallTypes, Outcome

\* Both sides read messages, and keep the types.
LEMMA ClientReadsTypes ==
  ASSUME Types, NEW s \in Sockets, ClientReads(s)
  PROVE  Types'
<1> DEFINE m == Head(down[s])
<1>1. CASE m.type = "close"
  BY <1>1, ClientClosesTypes DEF ClientReads
<1>2. CASE m.type # "close"
  <2>1. /\ down[s] # <<>> /\ down' = [down EXCEPT ![s] = Tail(@)]
        /\ UNCHANGED <<client, server, up, clientVars, serverVars, sentOn, drops, orders>>
        /\ \/ /\ m.type = "call"
              /\ carried' = [carried EXCEPT ![m.call] = @ + 1] /\ working' = working \cup {m.call}
              /\ UNCHANGED outcome
           \/ outcome' = Answered(m.call) /\ UNCHANGED <<carried, working>>
    BY <1>2 DEF ClientReads
  <2>2. down' \in [Sockets -> Seq(DownMessage)] /\ m \in DownMessage
    BY <2>1, HeadIsMessage DEF Types, ChanTypes
  <2>3. CASE outcome' = Answered(m.call) /\ UNCHANGED <<carried, working>>
    BY <2>1, <2>2, <2>3, AnsweredTypes
    DEF Types, EndTypes, ChanTypes, ClientTypes, ServerTypes, CallTypes,
        BoundTypes, clientVars, serverVars, Carried
  <2>4. CASE /\ m.type = "call"
             /\ carried' = [carried EXCEPT ![m.call] = @ + 1] /\ working' = working \cup {m.call}
             /\ UNCHANGED outcome
    <3>1. m.call \in Calls
      BY <2>2, <2>4 DEF DownMessage, Calls
    <3> HIDE DEF m
    <3> QED
      BY <2>1, <2>2, <2>4, <3>1
      DEF Types, EndTypes, ChanTypes, ClientTypes, ServerTypes, CallTypes,
          BoundTypes, clientVars, serverVars, Carried
  <2> QED
    BY <2>1, <2>3, <2>4
<1> QED
  BY <1>1, <1>2

\* The gateway reads as well.
LEMMA ServerReadsTypes ==
  ASSUME Types, NEW s \in Sockets, ServerReads(s)
  PROVE  Types'
<1> DEFINE m == Head(up[s])
<1>1. CASE m.type = "close"
  <2>1. ServerCloses(s)
    BY <1>1 DEF ServerReads
  <2>2. <<Msg("close")>> \in Seq(DownMessage) /\ <<>> \in Seq(UpMessage)
    BY Messages
  <2>3. ChanTypes'
    BY <2>1, <2>2, SentDown, AppendsTypes DEF ServerCloses, Types, ChanTypes
  <2> QED
    BY <2>1, <2>3 DEF ServerCloses, Types, EndTypes, ClientTypes, ServerTypes, CallTypes,
                      BoundTypes, clientVars, callVars, Carried
<1>2. CASE m.type # "close"
  <2>1. /\ up[s] # <<>> /\ up' = [up EXCEPT ![s] = Tail(@)]
        /\ metadata' = IF m.type = "started" THEN metadata \cup {s} ELSE metadata
        /\ CloseAtServer(s) \/ UNCHANGED <<server, down>>
        /\ \/ /\ m.type = "call"
              /\ carried' = [carried EXCEPT ![m.call] = @ + 1] /\ working' = working \cup {m.call}
           \/ UNCHANGED <<carried, working>>
        /\ outcome' = Answered(m.call) \/ outcome' = outcome
        /\ UNCHANGED <<client, clientVars, conn, sentOn, drops, orders>>
    BY <1>2 DEF ServerReads
  <2>2. up' \in [Sockets -> Seq(UpMessage)] /\ m \in UpMessage
    BY <2>1, HeadIsMessage DEF Types, ChanTypes
  <2>3. EndTypes' /\ ChanTypes'
    BY <2>1, <2>2, CloseAtServerTypes DEF Types, EndTypes, ChanTypes
  <2>4. outcome' \in [Calls -> Outcome]
    BY <2>1, AnsweredTypes DEF Types, CallTypes
  <2>5. carried' \in [Calls -> Nat] /\ working' \subseteq Carried'
    <3>1. m.type = "call" => m.call \in Calls
      BY <2>2 DEF UpMessage, Calls
    <3> HIDE DEF m
    <3> QED
      BY <2>1, <3>1 DEF Types, CallTypes, Carried
  <2> QED
    BY <2>1, <2>3, <2>4, <2>5
    DEF Types, ClientTypes, ServerTypes, CallTypes, BoundTypes, clientVars
<1> QED
  BY <1>1, <1>2

\* Every step keeps the types.
LEMMA TypesStep ==
  ASSUME Types, [Next]_vars
  PROVE  Types'
<1>1. ASSUME NEW s \in Sockets, Dial(s), Connect \/ Reconnect PROVE Types'
  <2>1. /\ EndTypes' /\ ChanTypes' /\ ServerTypes' /\ CallTypes'
        /\ ws' = None /\ gaveUp' = FALSE /\ UNCHANGED <<attempts, crossed, drops>>
    BY <1>1, DialTypes
  <2>2. retry' \in BOOLEAN /\ wanted' \in BOOLEAN
    BY <1>1, Zenon DEF Connect, Reconnect, Types, ClientTypes
  <2>3. stray' \in Nat /\ orders' \in 0 .. MaxOrders
    <3>1. CASE Connect
      BY <3>1 DEF Connect, Types, ClientTypes, BoundTypes
    <3>2. CASE Reconnect
      <4>1. UNCHANGED orders /\ (stray' = stray \/ (stray > 0 /\ stray' = stray - 1))
        BY <3>2 DEF Reconnect
      <4> QED
        BY <4>1 DEF Types, ClientTypes, BoundTypes
    <3> QED
      BY <1>1, <3>1, <3>2
  <2> QED
    BY <2>1, <2>2, <2>3 DEF Types, ClientTypes, BoundTypes
<1>2. CASE Disconnect
  <2>1. <<Msg("stopped"), Msg("close")>> \in Seq(UpMessage)
    BY Messages
  <2>2. ChanTypes'
    BY <1>2, <2>1, SentUp, AppendsTypes DEF Disconnect, Types, ChanTypes, ClientTypes
  <2>3. EndTypes'
    BY <1>2, ClosingEnds DEF Disconnect, Types, EndTypes, ClientTypes
  <2>4. CallTypes'
    BY <1>2 DEF Disconnect, Types, CallTypes, Rejected, Outcome, Carried
  <2>5. ClientTypes'
    BY <1>2 DEF Disconnect, Types, ClientTypes
  <2>6. ServerTypes' /\ BoundTypes'
    BY <1>2 DEF Disconnect, Types, ServerTypes, BoundTypes, serverVars
  <2> QED
    BY <2>2, <2>3, <2>4, <2>5, <2>6 DEF Types
<1>3. ASSUME NEW s \in Sockets, Lose(s) \/ ConnectFails(s) PROVE Types'
  <2>1. <<Msg("close")>> \in Seq(UpMessage) /\ <<Msg("close")>> \in Seq(DownMessage)
        /\ <<>> \in Seq(UpMessage) /\ <<>> \in Seq(DownMessage)
    BY Messages
  <2>2. ChanTypes'
    BY <1>3, <2>1 DEF Lose, ConnectFails, Types, ChanTypes
  <2>3. ClientTypes'
    BY <1>3 DEF Lose, ConnectFails, Types, ClientTypes, clientVars
  <2>4. EndTypes' /\ ServerTypes' /\ CallTypes' /\ BoundTypes'
    BY <1>3 DEF Lose, ConnectFails, Types, EndTypes, ServerTypes, CallTypes, BoundTypes,
                serverVars, callVars, Carried
  <2> QED
    BY <2>2, <2>3, <2>4 DEF Types
<1>4. ASSUME NEW s \in Sockets, Accept(s) PROVE Types'
  <2>1. <<Msg("close")>> \in Seq(DownMessage)
    BY Messages
  <2>2. ChanTypes'
    BY <1>4, <2>1, SentDown, AppendsTypes DEF Accept, Types, ChanTypes, ServerTypes
  <2>3. EndTypes'
    BY <1>4, ClosingEnds DEF Accept, Types, EndTypes, ServerTypes
  <2> QED
    BY <1>4, <2>2, <2>3
    DEF Accept, Types, ClientTypes, ServerTypes, CallTypes, BoundTypes, clientVars, callVars, Carried
<1>5. ASSUME NEW s \in Sockets, Open(s) PROVE Types'
  <2>1. <<Msg("started")>> \in Seq(UpMessage)
    BY Messages
  <2>2. ChanTypes'
    BY <1>5, <2>1, SentUp, AppendsTypes DEF Open, Types, ChanTypes
  <2>3. ClientTypes'
    <3>1. crossed' \in BOOLEAN /\ gaveUp' \in BOOLEAN
      BY <1>5, Zenon DEF Open
    <3>2. ws' = s /\ attempts' = 0 /\ UNCHANGED <<retry, stray, wanted>>
      BY <1>5 DEF Open
    <3> QED
      BY <3>1, <3>2 DEF Types, ClientTypes
  <2>4. EndTypes' /\ ServerTypes' /\ CallTypes' /\ BoundTypes'
    BY <1>5 DEF Open, Types, EndTypes, ServerTypes, CallTypes, BoundTypes, serverVars, callVars, Carried
  <2> QED
    BY <2>2, <2>3, <2>4 DEF Types
<1>6. ASSUME NEW s \in Sockets, HandshakeTimeout(s) PROVE Types'
  BY <1>6, CloseAtServerTypes
  DEF HandshakeTimeout, Types, EndTypes, ChanTypes, ClientTypes, ServerTypes, CallTypes,
      BoundTypes, clientVars, serverVars, callVars, Carried
<1>7. ASSUME NEW c \in AgentCalls, AgentAsks(c) PROVE Types'
  <2>1. Asks(c) \in Seq(DownMessage)
    BY CallMessages
  <2>2. ChanTypes'
    BY <1>7, <2>1, SentDown, AppendsTypes DEF AgentAsks, Types, ChanTypes, ServerTypes
  <2>3. CallTypes'
    BY <1>7 DEF AgentAsks, Types, CallTypes, Outcome, Carried
  <2> QED
    BY <1>7, <2>2, <2>3
    DEF AgentAsks, Types, EndTypes, ClientTypes, ServerTypes, BoundTypes, clientVars, serverVars
<1>8. ASSUME NEW c \in AgentCalls, ServiceAnswers(c) PROVE Types'
  <2>1. Answers(c) \in Seq(UpMessage)
    BY CallMessages
  <2>2. ChanTypes'
    BY <1>8, <2>1, SentUp, AppendsTypes DEF ServiceAnswers, Types, ChanTypes, ClientTypes
  <2> QED
    BY <1>8, <2>2
    DEF ServiceAnswers, Types, EndTypes, ClientTypes, ServerTypes, CallTypes, BoundTypes,
        clientVars, serverVars, Carried
<1>9. ASSUME NEW c \in ServiceCalls, ServiceAsks(c) PROVE Types'
  <2>1. Asks(c) \in Seq(UpMessage)
    BY CallMessages
  <2>2. ChanTypes'
    BY <1>9, <2>1, SentUp, AppendsTypes DEF ServiceAsks, Types, ChanTypes, ClientTypes
  <2>3. CallTypes'
    BY <1>9 DEF ServiceAsks, Types, CallTypes, ClientTypes, Outcome, Carried
  <2> QED
    BY <1>9, <2>2, <2>3
    DEF ServiceAsks, Types, EndTypes, ClientTypes, ServerTypes, BoundTypes, clientVars, serverVars
<1>10. ASSUME NEW c \in ServiceCalls, AgentAnswers(c) PROVE Types'
  <2>1. Answers(c) \in Seq(DownMessage)
    BY CallMessages
  <2>2. ChanTypes'
    BY <1>10, <2>1, SentDown, AppendsTypes DEF AgentAnswers, Types, ChanTypes, CallTypes
  <2> QED
    BY <1>10, <2>2
    DEF AgentAnswers, Types, EndTypes, ClientTypes, ServerTypes, CallTypes, BoundTypes,
        clientVars, serverVars, Carried
<1>11. ASSUME NEW c \in Calls, TimesOut(c) PROVE Types'
  BY <1>11
  DEF TimesOut, Types, EndTypes, ChanTypes, ClientTypes, ServerTypes, CallTypes, Outcome,
      BoundTypes, socketVars, clientVars, serverVars, Carried
<1>12. CASE UNCHANGED vars
  BY <1>12
  DEF vars, Types, EndTypes, ChanTypes, ClientTypes, ServerTypes, CallTypes, BoundTypes,
      socketVars, clientVars, serverVars, callVars, Carried
<1>13. Connect \/ Reconnect => \E s \in Sockets : Dial(s)
  BY DEF Connect, Reconnect
<1> QED
  BY <1>1, <1>2, <1>3, <1>4, <1>5, <1>6, <1>7, <1>8, <1>9, <1>10, <1>11, <1>12, <1>13,
     ClientReadsTypes, ServerReadsTypes DEF Next
---------------------------------------------------------------------------
(* Timers *)

\* Each timer, and the socket of the client, stems from a socket of its own.
Tried == {s \in Sockets : client[s] \notin {"unused", "connecting"}}
Due == stray + (IF retry THEN 1 ELSE 0) + (IF ws # None THEN 1 ELSE 0)
StrayBound == Due <= Cardinality(Tried)

\* There are SocketCount sockets.
LEMMA SocketCountBounds ==
  ASSUME NEW T \in SUBSET Sockets
  PROVE  IsFiniteSet(T) /\ Cardinality(T) \in 0 .. SocketCount
<1>1. IsFiniteSet(1 .. SocketCount) /\ Cardinality(1 .. SocketCount) = SocketCount
  BY FS_Interval
<1>2. IsFiniteSet(T) /\ Cardinality(T) <= SocketCount
  BY <1>1, FS_Subset DEF Sockets
<1>3. Cardinality(T) \in Nat
  BY <1>2, FS_CardinalityType
<1> QED
  BY <1>2, <1>3

\* So many were tried at most, before and after a step.
LEMMA TriedCount ==
  /\ IsFiniteSet(Tried) /\ Cardinality(Tried) \in 0 .. SocketCount
  /\ IsFiniteSet(Tried') /\ Cardinality(Tried') \in 0 .. SocketCount
<1>1. Tried \in SUBSET Sockets /\ Tried' \in SUBSET Sockets
  BY DEF Tried
<1> QED
  BY <1>1, SocketCountBounds

\* Sockets that were tried have been tried for good.
LEMMA TriedStays ==
  ASSUME Types, [Next]_vars
  PROVE  Tried \subseteq Tried'
<1>1. \A s \in Sockets : Closing(client, ws)[s] \notin {"unused", "connecting"}
                         <=> client[s] \notin {"unused", "connecting"}
  BY ClosingEnds DEF Types, EndTypes, ClientTypes
<1>2. Closing(client, ws) \in [Sockets -> {"unused", "connecting", "open", "closing", "closed"}]
  BY ClosingEnds DEF Types, EndTypes, ClientTypes
<1>3. ASSUME NEW s \in Sockets, Dial(s) PROVE Tried \subseteq Tried'
  <2>1. client[s] = "unused" /\ client' = [Closing(client, ws) EXCEPT ![s] = "connecting"]
    BY <1>3 DEF Dial
  <2> QED
    BY <1>1, <1>2, <2>1 DEF Tried
<1>4. CASE Disconnect
  BY <1>4, <1>1 DEF Disconnect, Tried
<1>5. ASSUME NEW s \in Sockets, \/ Lose(s) \/ Accept(s) \/ Open(s) \/ ConnectFails(s)
                                \/ HandshakeTimeout(s) \/ ServerReads(s)
      PROVE  Tried \subseteq Tried'
  BY <1>5 DEF Lose, Accept, Open, ConnectFails, HandshakeTimeout, ServerReads, ServerCloses,
              Tried, Types, EndTypes
<1>6. ASSUME NEW s \in Sockets, ClientReads(s) PROVE Tried \subseteq Tried'
  BY <1>6 DEF ClientReads, ClientCloses, Tried, Types, EndTypes
<1>7. CASE \/ \E c \in AgentCalls : AgentAsks(c) \/ ServiceAnswers(c)
           \/ \E c \in ServiceCalls : ServiceAsks(c) \/ AgentAnswers(c)
           \/ \E c \in Calls : TimesOut(c)
           \/ UNCHANGED vars
  BY <1>7 DEF AgentAsks, ServiceAnswers, ServiceAsks, AgentAnswers, TimesOut, vars,
              socketVars, Tried
<1> QED
  BY <1>3, <1>4, <1>5, <1>6, <1>7 DEF Next, Connect, Reconnect

\* No step makes more timers than sockets.
LEMMA StrayStep ==
  ASSUME Types, StrayBound, [Next]_vars
  PROVE  StrayBound'
<1> DEFINE n == Cardinality(Tried)
<1>1. n \in Nat /\ n' \in Nat /\ n <= n'
  <2>1. IsFiniteSet(Tried) /\ n \in Nat
    BY TriedCount
  <2>2. IsFiniteSet(Tried') /\ n' \in Nat
    BY TriedCount
  <2> QED
    BY <2>1, <2>2, TriedStays, FS_Subset
<1>2. Types'
  BY TypesStep
<1>3. StrayBound' <=> Due' <= n'
  BY DEF StrayBound
<1>4. Due <= n
  BY DEF StrayBound
<1> HIDE DEF n
<1>5. CASE UNCHANGED <<stray, retry, ws>>
  BY <1>1, <1>3, <1>4, <1>5 DEF Due, Types, ClientTypes
<1>6. ASSUME ws' = None,
             \/ UNCHANGED stray /\ (retry' = retry \/ retry' = FALSE)
             \/ /\ stray > 0 /\ stray' = stray - 1
                /\ (retry' = retry \/ retry' = FALSE)
      PROVE  StrayBound'
  BY <1>1, <1>3, <1>4, <1>6 DEF Due, Types, ClientTypes
<1>7. CASE Connect \/ Reconnect \/ Disconnect
  BY <1>6, <1>7 DEF Connect, Reconnect, Disconnect, Dial
<1>8. ASSUME NEW s \in Sockets, Open(s) PROVE StrayBound'
  <2>1. ws' = s /\ UNCHANGED <<stray, retry>>
    BY <1>8 DEF Open
  <2>2. n' = n + 1
    <3>1. Tried' = Tried \cup {s} /\ s \notin Tried
      BY <1>8 DEF Open, Tried, Types, EndTypes
    <3> QED
      BY <3>1, TriedCount, FS_AddElement DEF n
  <2> QED
    BY <1>1, <1>3, <1>4, <2>1, <2>2 DEF Due, Types, ClientTypes
<1>9. ASSUME NEW s \in Sockets, ClientCloses(s) PROVE StrayBound'
  <2>1. ws' = None
    BY <1>9 DEF ClientCloses
  <2>2. CASE ws # None /\ attempts < MaxRetries
    <3>1. retry' = TRUE /\ stray' = IF retry THEN stray + 1 ELSE stray
      BY <1>9, <2>2 DEF ClientCloses, Types, ClientTypes
    <3> QED
      BY <1>1, <1>3, <1>4, <2>1, <2>2, <3>1 DEF Due, Types, ClientTypes
  <2>3. CASE ~(ws # None /\ attempts < MaxRetries)
    <3>1. UNCHANGED <<stray, retry>>
      BY <1>9, <2>3 DEF ClientCloses, Types, ClientTypes
    <3> QED
      BY <1>6, <2>1, <3>1
  <2> QED
    BY <2>2, <2>3
<1>10. ASSUME NEW s \in Sockets, ClientReads(s) PROVE StrayBound'
  BY <1>5, <1>9, <1>10 DEF ClientReads, clientVars
<1>11. ASSUME NEW s \in Sockets, \/ Lose(s) \/ Accept(s) \/ ConnectFails(s)
                                 \/ HandshakeTimeout(s) \/ ServerReads(s)
       PROVE  StrayBound'
  BY <1>5, <1>11 DEF Lose, Accept, ConnectFails, HandshakeTimeout, ServerReads, ServerCloses,
                     clientVars
<1>12. CASE \/ \E c \in AgentCalls : AgentAsks(c) \/ ServiceAnswers(c)
            \/ \E c \in ServiceCalls : ServiceAsks(c) \/ AgentAnswers(c)
            \/ \E c \in Calls : TimesOut(c)
            \/ UNCHANGED vars
  BY <1>5, <1>12 DEF AgentAsks, ServiceAnswers, ServiceAsks, AgentAnswers, TimesOut, vars,
                     clientVars
<1> QED
  BY <1>7, <1>8, <1>10, <1>11, <1>12 DEF Next

\* The initial states have the types.
LEMMA InitTypes == Init => Types
<1> SUFFICES ASSUME Init PROVE Types
  OBVIOUS
<1>1. ChanTypes
  BY Messages DEF Init, ChanTypes
<1>2. EndTypes /\ ServerTypes /\ BoundTypes
  BY DEF Init, EndTypes, ServerTypes, BoundTypes
<1>3. ClientTypes
  <2>1. retry \in BOOLEAN /\ wanted \in BOOLEAN /\ gaveUp \in BOOLEAN /\ crossed \in BOOLEAN
    BY Zenon DEF Init
  <2>2. ws = None /\ attempts = 0 /\ stray = 0
    BY DEF Init
  <2> QED
    BY <2>1, <2>2 DEF ClientTypes
<1>4. CallTypes
  BY DEF Init, CallTypes, Outcome
<1> QED
  BY <1>1, <1>2, <1>3, <1>4 DEF Types

\* The state keeps its types, and there are never more timers than sockets.
THEOREM LinkTypesHold == Spec => []TypeOK
<1>1. Init => Types /\ StrayBound
  <2> SUFFICES ASSUME Init PROVE Types /\ StrayBound
    OBVIOUS
  <2>1. Due = 0
    BY DEF Init, Due
  <2> QED
    BY <2>1, InitTypes, TriedCount DEF StrayBound
<1>2. Types /\ StrayBound /\ [Next]_vars => (Types /\ StrayBound)'
  BY TypesStep, StrayStep
<1>3. Types /\ StrayBound => TypeOK
  <2> SUFFICES ASSUME Types, StrayBound PROVE TypeOK
    OBVIOUS
  <2>1. stray \in 0 .. SocketCount
    BY TriedCount DEF StrayBound, Due, Types, ClientTypes
  <2>2. up \in [Sockets -> Seq(Message)] /\ down \in [Sockets -> Seq(Message)]
    <3>1. UpMessage \subseteq Message /\ DownMessage \subseteq Message
      BY DEF UpMessage, DownMessage
    <3> QED
      BY <3>1 DEF Types, ChanTypes
  <2> QED
    BY <2>1, <2>2 DEF TypeOK, Types, EndTypes, ClientTypes, ServerTypes, CallTypes, Outcome,
                      BoundTypes, Carried
<1> QED
  BY <1>1, <1>2, <1>3, PTL DEF Spec
---------------------------------------------------------------------------
(* The connection that counts *)

\* Until events cross, the client has no open socket but its own, and waits for
\* answers over that one only.
OwnSocket == ~crossed => \A s \in Sockets : client[s] = "open" => s = ws
OwnCalls ==
  ~crossed => \A c \in ServiceCalls : outcome[c] = "open" => ws # None /\ sentOn[c] = ws

LinkInv == OneConnection /\ OwnSocket /\ OwnCalls

\* The gateway's connection.
LEMMA ConnectionStep ==
  ASSUME Types, OneConnection, [Next]_vars
  PROVE  OneConnection'
<1>1. CASE UNCHANGED <<server, conn>>
  BY <1>1 DEF OneConnection, Hears
<1>2. ASSUME NEW s \in Sockets, CloseAtServer(s), UNCHANGED conn PROVE OneConnection'
  BY <1>2, ClosingEnds DEF CloseAtServer, OneConnection, Hears, Types, EndTypes, ServerTypes
<1>3. ASSUME NEW s \in Sockets, Accept(s) PROVE OneConnection'
  <2>1. /\ server' = [Closing(server, conn) EXCEPT ![s] = "open"] /\ conn' = s
    BY <1>3 DEF Accept
  <2>2. /\ Closing(server, conn) \in [Sockets -> {"unused", "open", "closing", "closed"}]
        /\ \A t \in Sockets : Closing(server, conn)[t] # "open"
    BY ClosingEnds DEF OneConnection, Types, EndTypes, ServerTypes
  <2> QED
    BY <2>1, <2>2 DEF OneConnection, Hears
<1>4. ASSUME NEW s \in Sockets, ServerCloses(s) PROVE OneConnection'
  BY <1>4, NoSocketIsNone DEF ServerCloses, OneConnection, Hears, Types, EndTypes, ServerTypes
<1>5. ASSUME NEW s \in Sockets, ServerReads(s) PROVE OneConnection'
  BY <1>1, <1>2, <1>4, <1>5 DEF ServerReads
<1>6. ASSUME NEW s \in Sockets, HandshakeTimeout(s) PROVE OneConnection'
  BY <1>2, <1>6 DEF HandshakeTimeout, serverVars
<1>7. ASSUME NEW s \in Sockets, \/ Lose(s) \/ Open(s) \/ ConnectFails(s) \/ ClientReads(s)
      PROVE  UNCHANGED <<server, conn>>
  BY <1>7, Zenon DEF Lose, Open, ConnectFails, ClientReads, ClientCloses, serverVars
<1>8. CASE Connect \/ Reconnect \/ Disconnect
  BY <1>1, <1>8 DEF Connect, Reconnect, Disconnect, Dial, serverVars
<1>9. CASE \/ \E c \in AgentCalls : AgentAsks(c) \/ ServiceAnswers(c)
           \/ \E c \in ServiceCalls : ServiceAsks(c) \/ AgentAnswers(c)
           \/ \E c \in Calls : TimesOut(c)
           \/ UNCHANGED vars
  BY <1>1, <1>9 DEF AgentAsks, ServiceAnswers, ServiceAsks, AgentAnswers, TimesOut, vars,
                    serverVars, socketVars
<1> QED
  BY <1>1, <1>3, <1>5, <1>6, <1>7, <1>8, <1>9 DEF Next

\* The client's socket, and the calls that wait on it.
LEMMA OwnStep ==
  ASSUME Types, OwnSocket, OwnCalls, [Next]_vars
  PROVE  OwnSocket' /\ OwnCalls'
<1>1. ASSUME UNCHANGED <<client, ws, crossed, sentOn>>,
             \A c \in ServiceCalls : outcome'[c] = "open" => outcome[c] = "open"
      PROVE  OwnSocket' /\ OwnCalls'
  BY <1>1 DEF OwnSocket, OwnCalls
<1>2. /\ Closing(client, ws) \in [Sockets -> {"unused", "connecting", "open", "closing", "closed"}]
      /\ ~crossed => \A s \in Sockets : Closing(client, ws)[s] # "open"
  BY ClosingEnds DEF Types, EndTypes, ClientTypes, OwnSocket
<1>3. \A c \in ServiceCalls : Rejected[c] # "open"
  BY DEF Rejected, Calls
<1>4. ASSUME NEW s \in Sockets, Dial(s) PROVE OwnSocket' /\ OwnCalls'
  <2>1. /\ client' = [Closing(client, ws) EXCEPT ![s] = "connecting"]
        /\ outcome' = IF ws = None THEN outcome ELSE Rejected
        /\ ws' = None /\ UNCHANGED <<crossed, sentOn>>
    BY <1>4 DEF Dial
  <2>2. OwnSocket'
    BY <1>2, <2>1 DEF OwnSocket
  <2>3. OwnCalls'
    BY <1>3, <2>1 DEF OwnCalls
  <2> QED
    BY <2>2, <2>3
<1>5. CASE Disconnect
  <2>1. /\ client' = Closing(client, ws) /\ outcome' = Rejected
        /\ ws' = None /\ UNCHANGED <<crossed, sentOn>>
    BY <1>5 DEF Disconnect
  <2> QED
    BY <1>2, <1>3, <2>1 DEF OwnSocket, OwnCalls
<1>6. ASSUME NEW s \in Sockets, Open(s) PROVE OwnSocket' /\ OwnCalls'
  <2>1. /\ client' = [client EXCEPT ![s] = "open"] /\ ws' = s
        /\ UNCHANGED <<outcome, sentOn>> /\ (~crossed' => ~crossed /\ ws = None)
    BY <1>6, Zenon DEF Open, callVars
  <2> QED
    BY <2>1, NoSocketIsNone DEF OwnSocket, OwnCalls, Types, EndTypes
<1>7. ASSUME NEW s \in Sockets, ClientCloses(s) PROVE OwnSocket' /\ OwnCalls'
  <2>1. /\ client' = [client EXCEPT ![s] = "closed"] /\ ws' = None
        /\ outcome' = Rejected /\ (~crossed' => ~crossed /\ ws \in {s, None})
    BY <1>7, Zenon DEF ClientCloses
  <2>2. OwnSocket'
    BY <2>1, NoSocketIsNone DEF OwnSocket, Types, EndTypes
  <2> QED
    BY <1>3, <2>1, <2>2 DEF OwnCalls
<1>8. ASSUME NEW c \in ServiceCalls, ServiceAsks(c) PROVE OwnSocket' /\ OwnCalls'
  BY <1>8 DEF ServiceAsks, clientVars, OwnSocket, OwnCalls, Types, CallTypes, Calls
<1>9. ASSUME NEW c \in AgentCalls, AgentAsks(c) PROVE OwnSocket' /\ OwnCalls'
  <2>1. \A d \in ServiceCalls : outcome'[d] = outcome[d]
    BY <1>9 DEF AgentAsks, Types, CallTypes, Calls
  <2> QED
    BY <1>1, <1>9, <2>1 DEF AgentAsks, clientVars
<1>10. \A c : \A d \in ServiceCalls : Answered(c)[d] = "open" => outcome[d] = "open"
  BY DEF Answered, Types, CallTypes, Calls
<1>11. ASSUME NEW s \in Sockets, ServerReads(s) PROVE OwnSocket' /\ OwnCalls'
  <2>1. UNCHANGED <<client, ws, crossed, sentOn>>
    BY <1>11 DEF ServerReads, ServerCloses, clientVars, callVars
  <2>2. outcome' = outcome \/ outcome' = Answered(Head(up[s]).call)
    BY <1>11 DEF ServerReads, ServerCloses, callVars
  <2> QED
    BY <1>1, <1>10, <2>1, <2>2
<1>12. ASSUME NEW s \in Sockets, ClientReads(s) PROVE OwnSocket' /\ OwnCalls'
  <2>1. CASE ClientCloses(s)
    BY <1>7, <2>1
  <2>2. CASE ~ClientCloses(s)
    <3>1. UNCHANGED <<client, ws, crossed, sentOn>>
      BY <1>12, <2>2 DEF ClientReads, clientVars
    <3>2. outcome' = outcome \/ outcome' = Answered(Head(down[s]).call)
      BY <1>12, <2>2 DEF ClientReads
    <3> QED
      BY <1>1, <1>10, <3>1, <3>2
  <2> QED
    BY <2>1, <2>2
<1>13. ASSUME NEW s \in Sockets, Lose(s) \/ Accept(s) \/ HandshakeTimeout(s)
       PROVE  OwnSocket' /\ OwnCalls'
  BY <1>1, <1>13 DEF Lose, Accept, HandshakeTimeout, clientVars, callVars
<1>14. ASSUME NEW s \in Sockets, ConnectFails(s) PROVE OwnSocket' /\ OwnCalls'
  BY <1>14 DEF ConnectFails, callVars, OwnSocket, OwnCalls, Types, EndTypes
<1>15. ASSUME NEW c \in Calls, TimesOut(c) PROVE OwnSocket' /\ OwnCalls'
  BY <1>1, <1>15 DEF TimesOut, socketVars, clientVars, Types, CallTypes, Calls
<1>16. CASE \/ \E c \in AgentCalls : ServiceAnswers(c)
            \/ \E c \in ServiceCalls : AgentAnswers(c)
            \/ UNCHANGED vars
  BY <1>1, <1>16 DEF ServiceAnswers, AgentAnswers, vars, socketVars, clientVars, callVars
<1> QED
  BY <1>4, <1>5, <1>6, <1>8, <1>9, <1>11, <1>12, <1>13, <1>14, <1>15, <1>16
  DEF Next, Connect, Reconnect

\* The gateway holds one connection, and until events cross both sides mean the
\* same one, whatever sockets are lost, replaced or refused.
THEOREM LinkIsOne == Spec => []OneLink
<1>1. Init => Types /\ LinkInv
  <2> SUFFICES ASSUME Init PROVE Types /\ LinkInv
    OBVIOUS
  <2>1. LinkInv
    BY DEF Init, LinkInv, OneConnection, OwnSocket, OwnCalls, Hears, Calls
  <2> QED
    BY <2>1, InitTypes
<1>2. Types /\ LinkInv /\ [Next]_vars => (Types /\ LinkInv)'
  BY TypesStep, ConnectionStep, OwnStep DEF LinkInv
<1>3. Types /\ LinkInv => OneLink
  BY DEF Types, ServerTypes, LinkInv, OneLink, EndsAgree, OwnSocket, OwnCalls, IsOpen
<1> QED
  BY <1>1, <1>2, <1>3, PTL DEF Spec
---------------------------------------------------------------------------
(* Calls: the promise of RemoteCalls, but for its liveness *)

\* A channel carries each call once.
Once(chan) ==
  \A s, t \in Sockets : \A i \in 1 .. Len(chan[s]), j \in 1 .. Len(chan[t]) :
    /\ chan[s][i].type = "call" /\ chan[t][j].type = "call"
    /\ chan[s][i].call = chan[t][j].call
    => s = t /\ i = j

\* What it carries was asked and is not done, or is the answer to what is done.
Known(chan, asked, done) ==
  \A s \in Sockets : \A i \in 1 .. Len(chan[s]) :
    /\ chan[s][i].type = "call" => chan[s][i].call \in asked \ done
    /\ chan[s][i].type = "answer" => chan[s][i].call \in done

Asked == {c \in Calls : outcome[c] # "none"}

CallInv ==
  /\ Once(up) /\ Once(down)
  /\ Known(up, Asked, Carried) /\ Known(down, Asked, Carried)
  /\ Carried \subseteq Asked

\* A channel that loses what it carried at some sockets.
LEMMA Dropped ==
  ASSUME NEW chan, NEW new, NEW asked, NEW done, Once(chan), Known(chan, asked, done),
         \A t \in Sockets : \/ new[t] = chan[t] \/ new[t] = <<>> \/ new[t] = <<Msg("close")>>
  PROVE  Once(new) /\ Known(new, asked, done)
<1>1. \A t \in Sockets : \A i \in 1 .. Len(new[t]) :
        \/ new[t] = chan[t]
        \/ new[t][i].type = "close"
  BY DEF Msg
<1>2. Once(new)
  <2> SUFFICES ASSUME NEW s \in Sockets, NEW t \in Sockets,
                      NEW i \in 1 .. Len(new[s]), NEW j \in 1 .. Len(new[t]),
                      new[s][i].type = "call", new[t][j].type = "call",
                      new[s][i].call = new[t][j].call
               PROVE  s = t /\ i = j
    BY DEF Once
  <2>1. new[s] = chan[s] /\ new[t] = chan[t]
    BY <1>1
  <2> QED
    BY <2>1 DEF Once
<1>3. Known(new, asked, done)
  <2> SUFFICES ASSUME NEW s \in Sockets, NEW i \in 1 .. Len(new[s])
               PROVE  /\ new[s][i].type = "call" => new[s][i].call \in asked \ done
                      /\ new[s][i].type = "answer" => new[s][i].call \in done
    BY DEF Known
  <2>1. CASE new[s] = chan[s]
    BY <2>1 DEF Known
  <2>2. CASE new[s][i].type = "close"
    BY <2>2
  <2> QED
    BY <1>1, <2>1, <2>2
<1> QED
  BY <1>2, <1>3

\* A channel whose first message is read: a call that was read is not in it.
Moved(new, chan, s) == \A t \in Sockets : new[t] = IF t = s THEN Tail(chan[s]) ELSE chan[t]
WasKnown(new, m, asked, done) ==
  /\ m.type = "call" => /\ m.call \in asked \ done
                        /\ Known(new, asked, done \cup {m.call})
  /\ m.type = "answer" => m.call \in done

LEMMA Read ==
  ASSUME NEW M, NEW chan \in [Sockets -> Seq(M)], NEW s \in Sockets, chan[s] # <<>>,
         NEW asked, NEW done, Once(chan), Known(chan, asked, done),
         NEW new, Moved(new, chan, s)
  PROVE  Once(new) /\ Known(new, asked, done) /\ WasKnown(new, Head(chan[s]), asked, done)
<1>0. \A t \in Sockets : new[t] = IF t = s THEN Tail(chan[s]) ELSE chan[t]
  BY DEF Moved
<1> DEFINE k(t) == IF t = s THEN 1 ELSE 0
<1>1. /\ Head(chan[s]) = chan[s][1] /\ Len(chan[s]) > 0
      /\ \A t \in Sockets : /\ Len(chan[t]) \in Nat /\ Len(new[t]) \in Nat /\ k(t) \in {0, 1}
                            /\ \A i \in 1 .. Len(new[t]) : /\ i + k(t) \in 1 .. Len(chan[t])
                                                           /\ new[t][i] = chan[t][i + k(t)]
  <2>1. /\ Head(chan[s]) = chan[s][1] /\ Len(chan[s]) > 0
        /\ Len(Tail(chan[s])) = Len(chan[s]) - 1
        /\ \A i \in 1 .. Len(Tail(chan[s])) : Tail(chan[s])[i] = chan[s][i + 1]
        /\ \A t \in Sockets : Len(chan[t]) \in Nat
    BY HeadIsMessage
  <2>2. ASSUME NEW t \in Sockets
        PROVE  /\ Len(chan[t]) \in Nat /\ Len(new[t]) \in Nat /\ k(t) \in {0, 1}
               /\ \A i \in 1 .. Len(new[t]) : /\ i + k(t) \in 1 .. Len(chan[t])
                                              /\ new[t][i] = chan[t][i + k(t)]
    <3>1. CASE t = s
      <4>1. new[t] = Tail(chan[s]) /\ k(t) = 1
        BY <1>0, <3>1
      <4>2. \A i \in 1 .. Len(new[t]) : i + 1 \in 1 .. Len(chan[t])
        BY <2>1, <3>1, <4>1
      <4> HIDE DEF k
      <4> QED
        BY <2>1, <3>1, <4>1, <4>2
    <3>2. CASE t # s
      <4>1. new[t] = chan[t] /\ k(t) = 0
        BY <1>0, <3>2
      <4> HIDE DEF k
      <4> QED
        BY <2>1, <4>1
    <3> QED
      BY <3>1, <3>2
  <2> QED
    BY <2>1, <2>2
<1>2. 1 \in 1 .. Len(chan[s]) /\ k(s) = 1
  BY <1>1
<1> HIDE DEF k
<1>3. Once(new)
  <2> SUFFICES ASSUME NEW t \in Sockets, NEW u \in Sockets,
                      NEW i \in 1 .. Len(new[t]), NEW j \in 1 .. Len(new[u]),
                      new[t][i].type = "call", new[u][j].type = "call",
                      new[t][i].call = new[u][j].call
               PROVE  t = u /\ i = j
    BY DEF Once
  <2>1. t = u /\ i + k(t) = j + k(u)
    <3>1. /\ i + k(t) \in 1 .. Len(chan[t]) /\ new[t][i] = chan[t][i + k(t)]
          /\ j + k(u) \in 1 .. Len(chan[u]) /\ new[u][j] = chan[u][j + k(u)]
      BY <1>1
    <3> QED
      BY <3>1 DEF Once
  <2>2. k(t) = k(u) /\ k(t) \in {0, 1} /\ i \in Nat /\ j \in Nat
    BY <1>1, <2>1
  <2> QED
    BY <2>1, <2>2
<1>4. Known(new, asked, done)
  BY <1>1 DEF Known
<1>5. ASSUME Head(chan[s]).type = "call"
      PROVE  /\ Head(chan[s]).call \in asked \ done
             /\ Known(new, asked, done \cup {Head(chan[s]).call})
  <2>1. Head(chan[s]).call \in asked \ done
    BY <1>1, <1>2, <1>5 DEF Known
  <2>2. ASSUME NEW t \in Sockets, NEW i \in 1 .. Len(new[t]), new[t][i].type = "call"
        PROVE  new[t][i].call # Head(chan[s]).call
    <3>1. new[t][i] = chan[t][i + k(t)] /\ i + k(t) \in 1 .. Len(chan[t])
      BY <1>1
    <3>2. ASSUME new[t][i].call = Head(chan[s]).call PROVE FALSE
      <4>1. /\ chan[t][i + k(t)].type = "call" /\ chan[s][1].type = "call"
            /\ chan[t][i + k(t)].call = chan[s][1].call
        BY <1>1, <1>5, <2>2, <3>1, <3>2
      <4>2. i + k(t) \in 1 .. Len(chan[t]) /\ 1 \in 1 .. Len(chan[s])
        BY <1>2, <3>1
      <4>3. t = s /\ i + k(t) = 1
        BY <4>1, <4>2 DEF Once
      <4>4. i \in Nat \ {0}
        BY <1>1
      <4> QED
        BY <1>2, <4>3, <4>4
    <3> QED
      BY <3>2
  <2> QED
    BY <1>4, <2>1, <2>2 DEF Known
<1>6. Head(chan[s]).type = "answer" => Head(chan[s]).call \in done
  BY <1>1, <1>2 DEF Known
<1> QED
  BY <1>3, <1>4, <1>5, <1>6 DEF WasKnown

\* What a channel holds after something was sent.
Grown(new, chan, s, msgs) ==
  \A t \in Sockets : \A i \in 1 .. Len(new[t]) :
    \/ i \in 1 .. Len(chan[t]) /\ new[t][i] = chan[t][i]
    \/ /\ t = s /\ i > Len(chan[s]) /\ i - Len(chan[s]) \in 1 .. Len(msgs)
       /\ new[t][i] = msgs[i - Len(chan[s])]

LEMMA AppendsGrow ==
  ASSUME NEW M, NEW chan \in [Sockets -> Seq(M)], NEW s, NEW msgs \in Seq(M),
         NEW new, Appends(new, chan, s, msgs)
  PROVE  Grown(new, chan, s, msgs)
<1>1. CASE new = chan
  BY <1>1 DEF Grown
<1>2. CASE s \in Sockets /\ new = [chan EXCEPT ![s] = @ \o msgs]
  <2>1. \A t \in Sockets : t # s => new[t] = chan[t]
    BY <1>2
  <2>2. new[s] = chan[s] \o msgs /\ chan[s] \in Seq(M)
    BY <1>2
  <2>3. /\ Len(new[s]) = Len(chan[s]) + Len(msgs) /\ Len(chan[s]) \in Nat /\ Len(msgs) \in Nat
        /\ \A i \in 1 .. Len(new[s]) :
             new[s][i] = IF i <= Len(chan[s]) THEN chan[s][i] ELSE msgs[i - Len(chan[s])]
    BY <2>2
  <2> QED
    BY <1>2, <2>1, <2>3 DEF Grown
<1> QED
  BY <1>1, <1>2 DEF Appends

\* A channel that carries more, but no other call.
Harmless(msgs, done) ==
  \A k \in 1 .. Len(msgs) : /\ msgs[k].type # "call"
                            /\ msgs[k].type = "answer" => msgs[k].call \in done

LEMMA Spoken ==
  ASSUME NEW M, NEW chan \in [Sockets -> Seq(M)], NEW s, NEW msgs \in Seq(M),
         NEW new, Appends(new, chan, s, msgs), NEW asked, NEW done,
         Once(chan), Known(chan, asked, done), Harmless(msgs, done)
  PROVE  Once(new) /\ Known(new, asked, done)
<1>1. \A t \in Sockets : \A i \in 1 .. Len(new[t]) :
        \/ i \in 1 .. Len(chan[t]) /\ new[t][i] = chan[t][i]
        \/ /\ new[t][i].type # "call"
           /\ new[t][i].type = "answer" => new[t][i].call \in done
  <2>1. Grown(new, chan, s, msgs)
    BY AppendsGrow
  <2> QED
    BY <2>1 DEF Grown, Harmless
<1>2. Once(new)
  <2> SUFFICES ASSUME NEW t \in Sockets, NEW u \in Sockets,
                      NEW i \in 1 .. Len(new[t]), NEW j \in 1 .. Len(new[u]),
                      new[t][i].type = "call", new[u][j].type = "call",
                      new[t][i].call = new[u][j].call
               PROVE  t = u /\ i = j
    BY DEF Once
  <2>1. /\ i \in 1 .. Len(chan[t]) /\ new[t][i] = chan[t][i]
        /\ j \in 1 .. Len(chan[u]) /\ new[u][j] = chan[u][j]
    BY <1>1
  <2> QED
    BY <2>1 DEF Once
<1>3. Known(new, asked, done)
  BY <1>1 DEF Known
<1> QED
  BY <1>2, <1>3

\* A channel that carries one call more, which was not asked before.
LEMMA AskedNow ==
  ASSUME NEW M, NEW chan \in [Sockets -> Seq(M)], NEW s, NEW c, Asks(c) \in Seq(M),
         NEW new, Appends(new, chan, s, Asks(c)), NEW asked, NEW done,
         Once(chan), Known(chan, asked, done), c \notin asked, c \notin done
  PROVE  Once(new) /\ Known(new, asked \cup {c}, done)
<1>1. \A t \in Sockets : \A i \in 1 .. Len(new[t]) :
        \/ i \in 1 .. Len(chan[t]) /\ new[t][i] = chan[t][i]
        \/ /\ t = s /\ i = Len(chan[s]) + 1
           /\ new[t][i].type = "call" /\ new[t][i].call = c
  <2>1. /\ Len(Asks(c)) = 1 /\ Asks(c)[1].type = "call" /\ Asks(c)[1].call = c
    BY DEF Asks
  <2>2. \A t \in Sockets : Len(chan[t]) \in Nat
    OBVIOUS
  <2>3. Grown(new, chan, s, Asks(c))
    BY AppendsGrow
  <2>4. ASSUME NEW t \in Sockets, NEW i \in 1 .. Len(new[t]),
               t = s, i > Len(chan[s]), i - Len(chan[s]) \in 1 .. Len(Asks(c)),
               new[t][i] = Asks(c)[i - Len(chan[s])]
        PROVE  i = Len(chan[s]) + 1 /\ new[t][i].type = "call" /\ new[t][i].call = c
    <3>1. i - Len(chan[s]) = 1
      BY <2>1, <2>2, <2>4
    <3> QED
      BY <2>1, <2>2, <2>4, <3>1
  <2> QED
    BY <2>3, <2>4 DEF Grown
<1>2. \A t \in Sockets : \A i \in 1 .. Len(chan[t]) :
        chan[t][i].type = "call" => chan[t][i].call # c
  BY DEF Known
<1>3. Once(new)
  <2> SUFFICES ASSUME NEW t \in Sockets, NEW u \in Sockets,
                      NEW i \in 1 .. Len(new[t]), NEW j \in 1 .. Len(new[u]),
                      new[t][i].type = "call", new[u][j].type = "call",
                      new[t][i].call = new[u][j].call
               PROVE  t = u /\ i = j
    BY DEF Once
  <2>1. CASE /\ i \in 1 .. Len(chan[t]) /\ new[t][i] = chan[t][i]
             /\ j \in 1 .. Len(chan[u]) /\ new[u][j] = chan[u][j]
    BY <2>1 DEF Once
  <2> QED
    BY <1>1, <1>2, <2>1
<1>4. Known(new, asked \cup {c}, done)
  BY <1>1 DEF Known
<1> QED
  BY <1>3, <1>4

\* What both sides send besides calls.
LEMMA PlainMessages ==
  /\ \A k \in 1 .. Len(<<Msg("close")>>) : <<Msg("close")>>[k].type = "close"
  /\ \A k \in 1 .. Len(<<Msg("started")>>) : <<Msg("started")>>[k].type = "started"
  /\ \A k \in 1 .. Len(<<Msg("stopped"), Msg("close")>>) :
       <<Msg("stopped"), Msg("close")>>[k].type \in {"stopped", "close"}
  /\ \A c : \A k \in 1 .. Len(Answers(c)) : Answers(c)[k].type = "answer" /\ Answers(c)[k].call = c
  BY DEF Msg, Answers

\* Plain messages sent to the gateway, and to the service.
LEMMA UpSpoken ==
  ASSUME Types, CallInv, NEW s,
         NEW msgs \in {<<Msg("close")>>, <<Msg("started")>>, <<Msg("stopped"), Msg("close")>>},
         Appends(up', up, s, msgs)
  PROVE  Once(up') /\ Known(up', Asked, Carried)
<1>1. msgs \in Seq(UpMessage)
  BY Messages
<1>2. Harmless(msgs, Carried)
  BY PlainMessages DEF Harmless
<1>3. up \in [Sockets -> Seq(UpMessage)] /\ Once(up) /\ Known(up, Asked, Carried)
  BY DEF Types, ChanTypes, CallInv
<1> QED
  BY <1>1, <1>2, <1>3, Spoken

\* The same towards the service.
LEMMA DownSpoken ==
  ASSUME Types, CallInv, NEW s, Appends(down', down, s, <<Msg("close")>>)
  PROVE  Once(down') /\ Known(down', Asked, Carried)
<1> DEFINE msgs == <<Msg("close")>>
<1>1. msgs \in Seq(DownMessage) /\ Appends(down', down, s, msgs)
  BY Messages
<1>2. Harmless(msgs, Carried)
  BY PlainMessages DEF Harmless
<1>3. down \in [Sockets -> Seq(DownMessage)] /\ Once(down) /\ Known(down, Asked, Carried)
  BY DEF Types, ChanTypes, CallInv
<1> HIDE DEF msgs
<1> QED
  BY <1>1, <1>2, <1>3, Spoken

\* What was carried out, and what has been asked, only grows.
LEMMA KnownGrows ==
  ASSUME NEW chan, NEW a, NEW b, a \subseteq b, NEW d, Known(chan, a, d)
  PROVE  Known(chan, b, d)
  BY DEF Known

\* What was asked stays asked.
LEMMA AskedStays ==
  ASSUME Types
  PROVE  /\ outcome' = Rejected => Asked' = Asked
         /\ \A c : outcome' = Answered(c) => Asked' = Asked
         /\ outcome' = outcome => Asked' = Asked
  BY DEF Asked, Rejected, Answered, Types, CallTypes

\* Steps that carry nothing out and ask nothing.
LEMMA QuietStep ==
  ASSUME CallInv, carried' = carried, Asked' = Asked,
         Once(up') /\ Known(up', Asked, Carried),
         Once(down') /\ Known(down', Asked, Carried)
  PROVE  CallInv'
  BY DEF CallInv, Carried

\* Dialling carries nothing out.
LEMMA DialQuiet ==
  ASSUME Types, CallInv, NEW s \in Sockets, Dial(s)
  PROVE  CallInv'
<1>1. Once(up') /\ Known(up', Asked, Carried)
  BY SentUp, UpSpoken
<1>2. outcome' \in {outcome, Rejected} /\ UNCHANGED <<down, carried>>
  BY DEF Dial
<1> QED
  BY <1>1, <1>2, AskedStays, QuietStep DEF CallInv

\* Nor does a close that the client meets.
LEMMA ClientClosesQuiet ==
  ASSUME Types, CallInv, NEW s \in Sockets, ClientCloses(s)
  PROVE  CallInv'
<1>1. Once(up') /\ Known(up', Asked, Carried)
  BY SentUp, UpSpoken
<1>2. outcome' = Rejected /\ down' = [down EXCEPT ![s] = <<>>] /\ UNCHANGED carried
  BY DEF ClientCloses
<1>3. Once(down') /\ Known(down', Asked, Carried)
  <2>1. \A t \in Sockets : down'[t] = down[t] \/ down'[t] = <<>>
    BY <1>2 DEF Types, ChanTypes
  <2> QED
    BY <2>1, Dropped DEF CallInv
<1> QED
  BY <1>1, <1>2, <1>3, AskedStays, QuietStep

\* Nor one that the gateway meets.
LEMMA ServerClosesQuiet ==
  ASSUME Types, CallInv, NEW s \in Sockets, ServerCloses(s)
  PROVE  CallInv'
<1>1. Once(down') /\ Known(down', Asked, Carried)
  BY SentDown, DownSpoken
<1>2. up' = [up EXCEPT ![s] = <<>>] /\ UNCHANGED <<outcome, carried>>
  BY DEF ServerCloses, callVars
<1>3. Once(up') /\ Known(up', Asked, Carried)
  <2>1. \A t \in Sockets : up'[t] = up[t] \/ up'[t] = <<>>
    BY <1>2 DEF Types, ChanTypes
  <2> QED
    BY <2>1, Dropped DEF CallInv
<1> QED
  BY <1>1, <1>2, <1>3, AskedStays, QuietStep

\* A call that is read was asked and is carried out now; an answer is to a call
\* that was carried out.
LEMMA ClientReadsCalls ==
  ASSUME Types, CallInv, NEW s \in Sockets, ClientReads(s), ~ClientCloses(s)
  PROVE  /\ CallInv'
         /\ \/ \E c \in Calls : Promise!CarryOut(c)
            \/ \E c \in Calls : Promise!Answer(c)
            \/ UNCHANGED <<outcome, carried>>
<1> DEFINE m == Head(down[s])
<1>1. /\ down[s] # <<>> /\ down' = [down EXCEPT ![s] = Tail(@)] /\ up' = up
      /\ \/ m.type = "call" /\ carried' = [carried EXCEPT ![m.call] = @ + 1] /\ UNCHANGED outcome
         \/ m.type \notin {"close", "call"} /\ outcome' = Answered(m.call) /\ UNCHANGED carried
  BY DEF ClientReads
<1>2. down \in [Sockets -> Seq(DownMessage)] /\ Once(down) /\ Known(down, Asked, Carried)
  BY DEF Types, ChanTypes, CallInv
<1>3. m \in DownMessage
  BY <1>1, <1>2, HeadIsMessage
<1>4. /\ Once(down') /\ Known(down', Asked, Carried)
      /\ m.type = "call" => /\ m.call \in Asked \ Carried
                            /\ Known(down', Asked, Carried \cup {m.call})
      /\ m.type = "answer" => m.call \in Carried
  <2>1. Moved(down', down, s)
    BY <1>1, <1>2 DEF Moved
  <2>2. Once(down') /\ Known(down', Asked, Carried) /\ WasKnown(down', m, Asked, Carried)
    BY <1>1, <1>2, <2>1, Read
  <2> QED
    BY <2>2 DEF WasKnown
<1> HIDE DEF m
<1>5. CASE m.type = "call" /\ carried' = [carried EXCEPT ![m.call] = @ + 1] /\ UNCHANGED outcome
  <2>1. m.call \in AgentCalls
    BY <1>3, <1>5 DEF DownMessage
  <2>0. Carried' = Carried \cup {m.call} /\ (m.call \notin Carried => carried[m.call] = 0)
    <3>1. m.call \in Calls /\ carried \in [Calls -> Nat]
      BY <2>1 DEF Calls, Types, CallTypes
    <3> QED
      BY <1>5, <3>1, CarriedGrows
  <2>2. Known(up, Asked, Carried')
    <3>1. \A t \in Sockets : \A i \in 1 .. Len(up[t]) :
            up[t][i].type = "call" => up[t][i].call \in ServiceCalls
      <4>1. \A t \in Sockets : \A i \in 1 .. Len(up[t]) : up[t][i] \in UpMessage
        BY DEF Types, ChanTypes
      <4> QED
        BY <4>1 DEF UpMessage
    <3> QED
      BY <2>0, <2>1, <3>1 DEF CallInv, Known
  <2>3. Asked' = Asked
    BY <1>5, AskedStays
  <2>4. CallInv'
    BY <1>1, <1>4, <1>5, <2>0, <2>2, <2>3 DEF CallInv
  <2>5. Promise!CarryOut(m.call) /\ m.call \in Calls
    BY <1>4, <1>5, <2>0, <2>1 DEF Promise!CarryOut, Asked, Calls
  <2> QED
    BY <2>4, <2>5
<1>6. CASE m.type \notin {"close", "call"} /\ outcome' = Answered(m.call) /\ UNCHANGED carried
  <2>1. m.type = "answer"
    BY <1>3, <1>6 DEF DownMessage
  <2>2. CallInv'
    BY <1>1, <1>4, <1>6, AskedStays, QuietStep DEF CallInv
  <2>3. m.call \in Calls /\ (Promise!Answer(m.call) \/ UNCHANGED <<outcome, carried>>)
    BY <1>4, <1>6, <2>1 DEF Answered, Promise!Answer, CallInv, Asked, Carried
  <2> QED
    BY <2>2, <2>3
<1> QED
  BY <1>1, <1>5, <1>6

\* The gateway reads calls and answers as well.
LEMMA ServerReadsCalls ==
  ASSUME Types, CallInv, NEW s \in Sockets, ServerReads(s)
  PROVE  /\ CallInv'
         /\ \/ \E c \in Calls : Promise!CarryOut(c)
            \/ \E c \in Calls : Promise!Answer(c)
            \/ UNCHANGED <<outcome, carried>>
<1> DEFINE m == Head(up[s])
<1>1. CASE m.type = "close"
  <2>1. ServerCloses(s)
    BY <1>1 DEF ServerReads
  <2> QED
    BY <2>1, ServerClosesQuiet DEF ServerCloses, callVars
<1>2. CASE m.type # "close"
  <2>1. /\ up[s] # <<>> /\ up' = [up EXCEPT ![s] = Tail(@)]
        /\ CloseAtServer(s) \/ down' = down
        /\ \/ m.type = "call" /\ carried' = [carried EXCEPT ![m.call] = @ + 1] /\ down' = down
           \/ m.type # "call" /\ UNCHANGED carried
        /\ IF m.type = "answer" THEN outcome' = Answered(m.call) ELSE outcome' = outcome
    BY <1>2 DEF ServerReads
  <2>2. up \in [Sockets -> Seq(UpMessage)] /\ Once(up) /\ Known(up, Asked, Carried)
    BY DEF Types, ChanTypes, CallInv
  <2>3. m \in UpMessage
    BY <2>1, <2>2, HeadIsMessage
  <2>4. /\ Once(up') /\ Known(up', Asked, Carried)
        /\ m.type = "call" => /\ m.call \in Asked \ Carried
                              /\ Known(up', Asked, Carried \cup {m.call})
        /\ m.type = "answer" => m.call \in Carried
    <3>1. Moved(up', up, s)
      BY <2>1, <2>2 DEF Moved
    <3>2. Once(up') /\ Known(up', Asked, Carried) /\ WasKnown(up', m, Asked, Carried)
      BY <2>1, <2>2, <3>1, Read
    <3> QED
      BY <3>2 DEF WasKnown
  <2>5. Once(down') /\ Known(down', Asked, Carried)
    BY <2>1, SentDown, DownSpoken DEF CallInv
  <2>6. Asked' = Asked
    BY <2>1, AskedStays
  <2> HIDE DEF m
  <2>7. CASE m.type = "call"
    <3>1. carried' = [carried EXCEPT ![m.call] = @ + 1] /\ down' = down /\ outcome' = outcome
      BY <2>1, <2>7
    <3>2. m.call \in ServiceCalls
      BY <2>3, <2>7 DEF UpMessage
    <3>0. Carried' = Carried \cup {m.call} /\ (m.call \notin Carried => carried[m.call] = 0)
      <4>1. m.call \in Calls /\ carried \in [Calls -> Nat]
        BY <3>2 DEF Calls, Types, CallTypes
      <4> QED
        BY <3>1, <4>1, CarriedGrows
    <3>3. Known(down, Asked, Carried')
      <4>1. \A t \in Sockets : \A i \in 1 .. Len(down[t]) :
              down[t][i].type = "call" => down[t][i].call \in AgentCalls
        <5>1. \A t \in Sockets : \A i \in 1 .. Len(down[t]) : down[t][i] \in DownMessage
          BY DEF Types, ChanTypes
        <5> QED
          BY <5>1 DEF DownMessage
      <4> QED
        BY <3>0, <3>2, <4>1 DEF CallInv, Known
    <3>4. CallInv'
      BY <2>4, <2>6, <2>7, <3>0, <3>1, <3>3 DEF CallInv
    <3>5. Promise!CarryOut(m.call) /\ m.call \in Calls
      BY <2>4, <2>7, <3>0, <3>1, <3>2 DEF Promise!CarryOut, Asked, Calls
    <3> QED
      BY <3>4, <3>5
  <2>8. CASE m.type # "call"
    <3>1. UNCHANGED carried
      BY <2>1, <2>8
    <3>2. CallInv'
      BY <2>4, <2>5, <2>6, <3>1, QuietStep
    <3>3. CASE m.type = "answer"
      <4>1. m.call \in Calls /\ (Promise!Answer(m.call) \/ UNCHANGED <<outcome, carried>>)
        BY <2>1, <2>4, <3>1, <3>3 DEF Answered, Promise!Answer, CallInv, Asked, Carried
      <4> QED
        BY <3>2, <4>1
    <3>4. CASE m.type # "answer"
      BY <2>1, <3>1, <3>2, <3>4
    <3> QED
      BY <3>3, <3>4
  <2> QED
    BY <2>7, <2>8
<1> QED
  BY <1>1, <1>2

\* A call that is made is in no channel yet.
LEMMA Made ==
  ASSUME Types, CallInv, NEW c \in Calls, outcome[c] = "none",
         NEW o \in {"open", "failed"}, outcome' = [outcome EXCEPT ![c] = o],
         UNCHANGED carried
  PROVE  /\ Asked' = Asked \cup {c} /\ c \notin Asked /\ c \notin Carried
         /\ Carried' \subseteq Asked' /\ Promise!Ask(c)
<1>1. Asked' = Asked \cup {c} /\ c \notin Asked
  BY DEF Asked, Types, CallTypes
<1> QED
  BY <1>1 DEF CallInv, Promise!Ask, Carried

\* A call that the service makes.
LEMMA ServiceAsksCalls ==
  ASSUME Types, CallInv, NEW c \in ServiceCalls, ServiceAsks(c)
  PROVE  CallInv' /\ Promise!Ask(c)
<1>1. /\ Asked' = Asked \cup {c} /\ c \notin Asked /\ c \notin Carried
      /\ Carried' \subseteq Asked' /\ Promise!Ask(c)
  <2>1. PICK o \in {"open", "failed"} : outcome' = [outcome EXCEPT ![c] = o]
    BY DEF ServiceAsks
  <2> QED
    BY <2>1, Made DEF ServiceAsks, CanAsk, Calls
<1>2. Once(up') /\ Known(up', Asked \cup {c}, Carried)
  <2>1. Appends(up', up, ws, Asks(c)) /\ Asks(c) \in Seq(UpMessage)
    BY SentUp, CallMessages
  <2>2. up \in [Sockets -> Seq(UpMessage)] /\ Once(up) /\ Known(up, Asked, Carried)
    BY DEF Types, ChanTypes, CallInv
  <2> QED
    BY <1>1, <2>1, <2>2, AskedNow
<1>3. UNCHANGED <<down, carried>>
  BY DEF ServiceAsks
<1>4. Known(down, Asked \cup {c}, Carried)
  BY KnownGrows DEF CallInv
<1> QED
  BY <1>1, <1>2, <1>3, <1>4 DEF CallInv, Carried

\* A call that the gateway makes.
LEMMA AgentAsksCalls ==
  ASSUME Types, CallInv, NEW c \in AgentCalls, AgentAsks(c)
  PROVE  CallInv' /\ Promise!Ask(c)
<1>1. /\ Asked' = Asked \cup {c} /\ c \notin Asked /\ c \notin Carried
      /\ Carried' \subseteq Asked' /\ Promise!Ask(c)
  <2>1. PICK o \in {"open", "failed"} : outcome' = [outcome EXCEPT ![c] = o]
    BY DEF AgentAsks
  <2> QED
    BY <2>1, Made DEF AgentAsks, CanAsk, Calls
<1>2. Once(down') /\ Known(down', Asked \cup {c}, Carried)
  <2>1. Appends(down', down, conn, Asks(c)) /\ Asks(c) \in Seq(DownMessage)
    BY SentDown, CallMessages
  <2>2. down \in [Sockets -> Seq(DownMessage)] /\ Once(down) /\ Known(down, Asked, Carried)
    BY DEF Types, ChanTypes, CallInv
  <2> QED
    BY <1>1, <2>1, <2>2, AskedNow
<1>3. UNCHANGED <<up, carried>>
  BY DEF AgentAsks
<1>4. Known(up, Asked \cup {c}, Carried)
  BY KnownGrows DEF CallInv
<1> QED
  BY <1>1, <1>2, <1>3, <1>4 DEF CallInv, Carried

\* A handler that ends answers what was carried out.
LEMMA AnswersQuiet ==
  ASSUME Types, CallInv, NEW c \in Calls,
         \/ c \in AgentCalls /\ ServiceAnswers(c)
         \/ c \in ServiceCalls /\ AgentAnswers(c)
  PROVE  CallInv' /\ UNCHANGED <<outcome, carried>>
<1> DEFINE msgs == Answers(c)
<1>1. c \in Carried /\ UNCHANGED <<outcome, carried>>
  BY DEF ServiceAnswers, AgentAnswers, Types, CallTypes
<1>2. Harmless(msgs, Carried)
  BY <1>1, PlainMessages DEF Harmless
<1>3. /\ up \in [Sockets -> Seq(UpMessage)] /\ Once(up) /\ Known(up, Asked, Carried)
      /\ down \in [Sockets -> Seq(DownMessage)] /\ Once(down) /\ Known(down, Asked, Carried)
  BY DEF Types, ChanTypes, CallInv
<1>4. CASE c \in AgentCalls /\ ServiceAnswers(c)
  <2>1. /\ Appends(up', up, ws, msgs) /\ msgs \in Seq(UpMessage)
        /\ UNCHANGED down
    BY <1>4, SentUp, CallMessages DEF ServiceAnswers
  <2>2. Once(up') /\ Known(up', Asked, Carried)
    <3> HIDE DEF msgs
    <3> QED
      BY <1>2, <1>3, <2>1, Spoken
  <2> QED
    BY <1>1, <1>3, <2>1, <2>2, AskedStays, QuietStep
<1>5. CASE c \in ServiceCalls /\ AgentAnswers(c)
  <2>1. /\ Appends(down', down, sentOn[c], msgs) /\ msgs \in Seq(DownMessage)
        /\ UNCHANGED up
    BY <1>5, SentDown, CallMessages DEF AgentAnswers
  <2>2. Once(down') /\ Known(down', Asked, Carried)
    <3> HIDE DEF msgs
    <3> QED
      BY <1>2, <1>3, <2>1, Spoken
  <2> QED
    BY <1>1, <1>3, <2>1, <2>2, AskedStays, QuietStep
<1> QED
  BY <1>4, <1>5

\* Calls that are rejected together fail, as Fail has it.
LEMMA RejectedFail ==
  ASSUME Types, outcome' = Rejected, UNCHANGED carried
  PROVE  Promise!Fail
<1> DEFINE cs == {c \in ServiceCalls : outcome[c] = "open"}
<1>1. cs \in SUBSET {c \in Calls : outcome[c] = "open"}
  BY DEF Calls
<1>2. outcome' = [c \in Calls |-> IF c \in cs THEN "failed" ELSE outcome[c]]
  BY DEF Rejected
<1> QED
  BY <1>1, <1>2 DEF Promise!Fail

\* Every step is one of RemoteCalls, or none.
LEMMA StepOfCalls ==
  ASSUME Types, CallInv, [Next]_vars
  PROVE  CallInv' /\ [Promise!Next]_(Promise!vars)
<1>0. UNCHANGED <<outcome, carried>> => [Promise!Next]_(Promise!vars)
  BY DEF Promise!vars
<1>1. Promise!Fail => [Promise!Next]_(Promise!vars)
  BY DEF Promise!Next
<1>2. \A c \in Calls : Promise!Ask(c) \/ Promise!CarryOut(c) \/ Promise!Answer(c)
                       => [Promise!Next]_(Promise!vars)
  BY DEF Promise!Next
<1>3. ASSUME NEW s \in Sockets, Dial(s) PROVE CallInv' /\ [Promise!Next]_(Promise!vars)
  <2>1. outcome' \in {outcome, Rejected} /\ UNCHANGED carried
    BY <1>3 DEF Dial
  <2> QED
    BY <1>0, <1>1, <1>3, <2>1, DialQuiet, RejectedFail
<1>4. CASE Disconnect
  <2>1. outcome' = Rejected /\ UNCHANGED <<down, carried>>
    BY <1>4 DEF Disconnect
  <2>2. Once(up') /\ Known(up', Asked, Carried)
    BY <1>4, SentUp, UpSpoken
  <2>3. CallInv'
    BY <2>1, <2>2, AskedStays, QuietStep DEF CallInv
  <2> QED
    BY <1>1, <2>1, <2>3, RejectedFail
<1>5. ASSUME NEW s \in Sockets, Lose(s) \/ ConnectFails(s)
      PROVE  CallInv' /\ [Promise!Next]_(Promise!vars)
  <2>1. UNCHANGED <<outcome, carried>>
    BY <1>5 DEF Lose, ConnectFails, callVars
  <2>2. /\ \A t \in Sockets : up'[t] = up[t] \/ up'[t] = <<>> \/ up'[t] = <<Msg("close")>>
        /\ \A t \in Sockets : down'[t] = down[t] \/ down'[t] = <<>> \/ down'[t] = <<Msg("close")>>
    BY <1>5 DEF Lose, ConnectFails, Types, ChanTypes
  <2>3. Once(up') /\ Known(up', Asked, Carried) /\ Once(down') /\ Known(down', Asked, Carried)
    BY <2>2, Dropped DEF CallInv
  <2> QED
    BY <1>0, <2>1, <2>3, AskedStays, QuietStep
<1>6. ASSUME NEW s \in Sockets, Accept(s) \/ HandshakeTimeout(s)
      PROVE  CallInv' /\ [Promise!Next]_(Promise!vars)
  <2>1. UNCHANGED <<up, outcome, carried>>
    BY <1>6 DEF Accept, HandshakeTimeout, callVars
  <2>2. Once(down') /\ Known(down', Asked, Carried)
    BY <1>6, SentDown, DownSpoken DEF HandshakeTimeout
  <2> QED
    BY <1>0, <2>1, <2>2, AskedStays, QuietStep DEF CallInv
<1>7. ASSUME NEW s \in Sockets, Open(s) PROVE CallInv' /\ [Promise!Next]_(Promise!vars)
  <2>1. UNCHANGED <<down, outcome, carried>>
    BY <1>7 DEF Open, callVars
  <2>2. Once(up') /\ Known(up', Asked, Carried)
    BY <1>7, SentUp, UpSpoken
  <2> QED
    BY <1>0, <2>1, <2>2, AskedStays, QuietStep DEF CallInv
<1>8. ASSUME NEW s \in Sockets, ClientReads(s)
      PROVE  CallInv' /\ [Promise!Next]_(Promise!vars)
  <2>1. CASE ClientCloses(s)
    <3>1. outcome' = Rejected /\ UNCHANGED carried
      BY <2>1 DEF ClientCloses
    <3> QED
      BY <1>1, <2>1, <3>1, ClientClosesQuiet, RejectedFail
  <2>2. CASE ~ClientCloses(s)
    BY <1>0, <1>2, <1>8, <2>2, ClientReadsCalls
  <2> QED
    BY <2>1, <2>2
<1>9. ASSUME NEW s \in Sockets, ServerReads(s)
      PROVE  CallInv' /\ [Promise!Next]_(Promise!vars)
  BY <1>0, <1>2, <1>9, ServerReadsCalls
<1>10. ASSUME NEW c \in Calls, \/ c \in ServiceCalls /\ ServiceAsks(c)
                               \/ c \in AgentCalls /\ AgentAsks(c)
       PROVE  CallInv' /\ [Promise!Next]_(Promise!vars)
  BY <1>2, <1>10, ServiceAsksCalls, AgentAsksCalls
<1>11. ASSUME NEW c \in Calls, \/ c \in AgentCalls /\ ServiceAnswers(c)
                               \/ c \in ServiceCalls /\ AgentAnswers(c)
       PROVE  CallInv' /\ [Promise!Next]_(Promise!vars)
  BY <1>0, <1>11, AnswersQuiet
<1>12. ASSUME NEW c \in Calls, TimesOut(c) PROVE CallInv' /\ [Promise!Next]_(Promise!vars)
  <2>1. /\ outcome[c] = "open" /\ outcome' = [outcome EXCEPT ![c] = "failed"]
        /\ UNCHANGED <<up, down, carried>>
    BY <1>12 DEF TimesOut, socketVars
  <2>2. Asked' = Asked
    BY <2>1 DEF Asked, Types, CallTypes
  <2>3. Promise!Fail
    <3>1. {c} \in SUBSET {d \in Calls : outcome[d] = "open"}
      BY <2>1
    <3>2. outcome' = [d \in Calls |-> IF d \in {c} THEN "failed" ELSE outcome[d]]
      BY <2>1 DEF Types, CallTypes
    <3> QED
      BY <2>1, <3>1, <3>2 DEF Promise!Fail
  <2> QED
    BY <1>1, <2>1, <2>2, <2>3, QuietStep DEF CallInv
<1>13. CASE UNCHANGED vars
  <2>1. UNCHANGED <<up, down, outcome, carried>>
    BY <1>13 DEF vars, socketVars, callVars
  <2> QED
    BY <1>0, <2>1, AskedStays, QuietStep DEF CallInv
<1> QED
  BY <1>3, <1>4, <1>5, <1>6, <1>7, <1>8, <1>9, <1>10, <1>11, <1>12, <1>13
  DEF Next, Connect, Reconnect, Calls

\* Calls over the link do what RemoteCalls allows: a call is carried out at most
\* once, ends once, and is answered only if it was carried out, whatever sockets
\* are lost and replaced in the meantime.
THEOREM CallsKeepPromise == Spec => Promise!Init /\ [][Promise!Next]_(Promise!vars)
<1>1. Init => Types /\ CallInv /\ Promise!Init
  <2> SUFFICES ASSUME Init PROVE Types /\ CallInv /\ Promise!Init
    OBVIOUS
  <2>1. \A s \in Sockets : Len(up[s]) = 0 /\ Len(down[s]) = 0
    BY DEF Init
  <2>2. CallInv
    BY <2>1 DEF Init, CallInv, Once, Known, Asked, Carried
  <2> QED
    BY <2>2, InitTypes DEF Init, Promise!Init
<1>2. Types /\ CallInv /\ [Next]_vars => (Types /\ CallInv)' /\ [Promise!Next]_(Promise!vars)
  BY TypesStep, StepOfCalls
<1> QED
  BY <1>1, <1>2, PTL DEF Spec
===========================================================================
