----------------------------- MODULE HubProofs ------------------------------
(***************************************************************************)
(* Proofs about the hub, for any set of clients, any channel capacities    *)
(* and any number of broadcasts.                                           *)
(***************************************************************************)
EXTENDS Hub, SequenceTheorems, TLAPS

\* The inductive invariant, part by part.

\* Every message in the channel or in the log is one that was broadcast.
MessagesCounted == Len(log) + Len(broadcast) <= issued

\* Run fans out the message it took last.
FansOutLast == msg # Idle => Len(log) > 0 /\ msg = log[Len(log)]

\* The map, the fan-out loop and the closing of channels.
ChannelLife ==
    /\ todo \subseteq clients
    /\ Select => todo = {}
    /\ \A c \in Clients : closes[c] <= 1 /\ (c \in clients => closes[c] = 0)

\* A client the hub has not met has no pumps, no messages and no place in the map;
\* the pumps are started together.
NewIsUntouched ==
    \A c \in Clients :
        /\ conn[c] \in {"new", "registering"} =>
             /\ c \notin clients /\ closes[c] = 0
             /\ send[c] = <<>> /\ got[c] = <<>>
             /\ reader[c] = "none"
        /\ reader[c] = "none" => writer[c] = "none"

\* What was written to the socket is the log from the client's start on.
GotFollowsLog ==
    \A c \in Clients :
        /\ start[c] + Len(got[c]) <= Len(log)
        /\ \A i \in 1..Len(got[c]) : got[c][i] = log[start[c] + i]

\* While the writer runs, what is buffered comes next; and for a client in the
\* map that is all there is, but for the message it is about to be given.
SendFollowsGot ==
    \A c \in Clients : writer[c] # "done" =>
        /\ start[c] + Len(got[c]) + Len(send[c]) <= Len(log)
        /\ \A i \in 1..Len(send[c]) : send[c][i] = log[start[c] + Len(got[c]) + i]
        /\ c \in todo => start[c] + Len(got[c]) + Len(send[c]) + 1 = Len(log)
        /\ c \in clients \ todo => start[c] + Len(got[c]) + Len(send[c]) = Len(log)

HubInv ==
    /\ HubTypeOK /\ MessagesCounted /\ FansOutLast /\ ChannelLife /\ NewIsUntouched
    /\ GotFollowsLog /\ SendFollowsGot

-----------------------------------------------------------------------------
\* A channel is a sequence: what a send and a receive do to it, index by index.
LEMMA ChannelFacts ==
    ASSUME NEW S, NEW q \in Seq(S)
    PROVE  /\ Len(q) \in Nat
           /\ \A i \in 1..Len(q) : q[i] \in S
           /\ \A x \in S :
                /\ Append(q, x) \in Seq(S) /\ Len(Append(q, x)) = Len(q) + 1
                /\ \A i \in 1..Len(q) : Append(q, x)[i] = q[i]
                /\ Append(q, x)[Len(q) + 1] = x
           /\ q # <<>> =>
                /\ Head(q) \in S /\ Head(q) = q[1] /\ Len(q) > 0
                /\ Tail(q) \in Seq(S) /\ Len(Tail(q)) = Len(q) - 1
                /\ \A i \in 1..(Len(q) - 1) : Tail(q)[i] = q[i + 1]
  OBVIOUS

\* A message that moves from the buffer to the socket leaves the sum as it is.
LEMMA MoveOne ==
    ASSUME NEW a \in Nat, NEW b \in Nat, NEW n \in Nat
    PROVE  a + (b + 1) + (n - 1) = a + b + n
  OBVIOUS

\* The window of n messages that starts after the a-th.
LEMMA Window ==
    ASSUME NEW a \in Nat, NEW n \in Nat
    PROVE  /\ (a + n) - (a + 1) + 1 = n
           /\ a + 1 <= a + n <=> n # 0
           /\ \A i \in 1..n : (a + 1) + i - 1 = a + i
  OBVIOUS

\* The invariant holds before any client connects.
LEMMA HubInvInit == HubInit => HubInv
<1> SUFFICES ASSUME HubInit PROVE HubInv
  OBVIOUS
<1> USE HubCapPositive, SendCapPositive, MaxMsgsNat DEF HubInit, Idle
<1>1. HubTypeOK
  <2>1. <<>> \in Seq(1..MaxMsgs) /\ Len(<<>>) = 0
    OBVIOUS
  <2>2. /\ send \in [Clients -> Seq(1..MaxMsgs)] /\ got \in [Clients -> Seq(1..MaxMsgs)]
        /\ \A c \in Clients : Len(send[c]) <= SendCap
    BY <2>1
  <2>3. /\ conn \in [Clients -> {"new", "registering", "open", "closed"}]
        /\ reader \in [Clients -> {"none", "reading", "unregister", "done"}]
        /\ writer \in [Clients -> {"none", "select", "done"}]
    OBVIOUS
  <2>4. closes \in [Clients -> Nat] /\ start \in [Clients -> 0..MaxMsgs]
    OBVIOUS
  <2> QED
    BY <2>1, <2>2, <2>3, <2>4 DEF HubTypeOK
<1>2. MessagesCounted /\ FansOutLast
  BY DEF MessagesCounted, FansOutLast
<1>3. ChannelLife
  BY DEF ChannelLife
<1>4. NewIsUntouched
  BY DEF NewIsUntouched
<1>5. GotFollowsLog /\ SendFollowsGot
  BY DEF GotFollowsLog, SendFollowsGot
<1> QED
  BY <1>1, <1>2, <1>3, <1>4, <1>5 DEF HubInv

\* Steps of Broadcast, of the select and of the fan-out loop keep the invariant.
LEMMA HubInvRun ==
    ASSUME HubInv, Broadcast \/ RunTake \/ RunNext PROVE HubInv'
<1> USE HubCapPositive, SendCapPositive, MaxMsgsNat DEF HubInv, Idle
<1>1. ASSUME Broadcast PROVE HubInv'
  <2>1. /\ broadcast' \in Seq(1..MaxMsgs) /\ Len(broadcast') \in Nat
        /\ Len(broadcast') <= HubCap /\ Len(broadcast') <= Len(broadcast) + 1
        /\ Len(broadcast) \in Nat /\ Len(log) \in Nat
    <3>1. broadcast \in Seq(1..MaxMsgs) /\ log \in Seq(1..MaxMsgs)
      BY DEF HubTypeOK
    <3>2. issued + 1 \in 1..MaxMsgs /\ Len(broadcast) <= HubCap
      BY <1>1 DEF Broadcast, HubTypeOK
    <3>3. Len(broadcast) \in Nat /\ Len(log) \in Nat
      BY <3>1, ChannelFacts
    <3>4. CASE Len(broadcast) < HubCap
      <4>1. broadcast' = Append(broadcast, issued + 1)
        BY <1>1, <3>4 DEF Broadcast
      <4>2. broadcast' \in Seq(1..MaxMsgs) /\ Len(broadcast') = Len(broadcast) + 1
        BY <3>1, <3>2, <4>1, ChannelFacts
      <4> QED
        BY <3>3, <3>4, <4>2
    <3>5. CASE ~(Len(broadcast) < HubCap)
      BY <1>1, <3>1, <3>2, <3>3, <3>5 DEF Broadcast
    <3> QED
      BY <3>4, <3>5
  <2>2. HubTypeOK'
    BY <1>1, <2>1 DEF Broadcast, HubTypeOK
  <2>3. MessagesCounted'
    BY <1>1, <2>1 DEF Broadcast, HubTypeOK, MessagesCounted
  <2> QED
    BY <1>1, <2>2, <2>3 DEF Broadcast, FansOutLast, ChannelLife, Select, NewIsUntouched,
       GotFollowsLog, SendFollowsGot
<1>2. ASSUME RunTake PROVE HubInv'
  <2> DEFINE m == Head(broadcast)
  <2>1. /\ m \in 1..MaxMsgs /\ Len(Tail(broadcast)) = Len(broadcast) - 1
        /\ Tail(broadcast) \in Seq(1..MaxMsgs) /\ Len(broadcast) \in Nat
    BY <1>2, ChannelFacts DEF RunTake, HubTypeOK
  <2>2. /\ log' \in Seq(1..MaxMsgs) /\ Len(log') = Len(log) + 1 /\ Len(log) \in Nat
        /\ log'[Len(log) + 1] = m
        /\ \A i \in 1..Len(log) : log'[i] = log[i]
    BY <1>2, <2>1, ChannelFacts DEF RunTake, HubTypeOK
  <2>3. HubTypeOK'
    BY <1>2, <2>1, <2>2 DEF RunTake, HubTypeOK
  <2>4. MessagesCounted' /\ FansOutLast'
    BY <1>2, <2>1, <2>2 DEF RunTake, HubTypeOK, MessagesCounted, FansOutLast
  <2>5. ChannelLife'
    BY <1>2, <2>1 DEF RunTake, ChannelLife, Select
  <2>6. NewIsUntouched'
    BY <1>2 DEF RunTake, NewIsUntouched
  <2>7. GotFollowsLog'
    <3> SUFFICES ASSUME NEW c \in Clients
                 PROVE  /\ start[c] + Len(got[c]) <= Len(log')
                        /\ \A i \in 1..Len(got[c]) : got[c][i] = log'[start[c] + i]
      BY <1>2 DEF RunTake, GotFollowsLog
    <3>1. start[c] \in Nat /\ Len(got[c]) \in Nat
      BY ChannelFacts DEF HubTypeOK
    <3>2. ASSUME NEW i \in 1..Len(got[c]) PROVE got[c][i] = log'[start[c] + i]
      <4>1. start[c] + Len(got[c]) <= Len(log) /\ got[c][i] = log[start[c] + i]
        BY DEF GotFollowsLog
      <4>2. Len(log) \in Nat
        BY <2>2
      <4>3. start[c] + i \in 1..Len(log)
        BY <3>1, <4>1, <4>2
      <4> QED
        BY <2>2, <4>1, <4>3
    <3> QED
      BY <2>2, <3>1, <3>2, SMTT(40) DEF GotFollowsLog
  <2>8. SendFollowsGot'
    <3> SUFFICES ASSUME NEW c \in Clients, writer[c] # "done"
                 PROVE  /\ start[c] + Len(got[c]) + Len(send[c]) <= Len(log')
                        /\ \A i \in 1..Len(send[c]) :
                             send[c][i] = log'[start[c] + Len(got[c]) + i]
                        /\ c \in clients =>
                             start[c] + Len(got[c]) + Len(send[c]) + 1 = Len(log')
      BY <1>2 DEF RunTake, SendFollowsGot
    <3>1. start[c] \in Nat /\ Len(got[c]) \in Nat /\ Len(send[c]) \in Nat
      BY ChannelFacts DEF HubTypeOK
    <3>2. todo = {}
      BY <1>2 DEF RunTake, ChannelLife
    <3>3. ASSUME NEW i \in 1..Len(send[c])
          PROVE  send[c][i] = log'[start[c] + Len(got[c]) + i]
      <4>1. /\ start[c] + Len(got[c]) + Len(send[c]) <= Len(log)
            /\ send[c][i] = log[start[c] + Len(got[c]) + i]
        BY DEF SendFollowsGot
      <4>2. Len(log) \in Nat
        BY <2>2
      <4>3. start[c] + Len(got[c]) + i \in 1..Len(log)
        BY <3>1, <4>1, <4>2, SMTT(40)
      <4> QED
        BY <2>2, <4>1, <4>3
    <3>4. /\ start[c] + Len(got[c]) + Len(send[c]) <= Len(log)
          /\ c \in clients => start[c] + Len(got[c]) + Len(send[c]) = Len(log)
      BY <3>2 DEF SendFollowsGot
    <3>5. Len(log') = Len(log) + 1 /\ Len(log) \in Nat
      BY <2>2
    <3> QED
      BY <3>1, <3>3, <3>4, <3>5, SMTT(40)
  <2> QED
    BY <2>3, <2>4, <2>5, <2>6, <2>7, <2>8
<1>3. ASSUME RunNext PROVE HubInv'
  BY <1>3 DEF RunNext, Select, HubTypeOK, MessagesCounted, FansOutLast, ChannelLife,
     NewIsUntouched, GotFollowsLog, SendFollowsGot
<1> QED
  BY <1>1, <1>2, <1>3

\* So do the hub's dealings with one client: registration, a message for its
\* buffer, eviction and the rendezvous with its returning reader.
LEMMA HubInvServe ==
    ASSUME HubInv, NEW c \in Clients,
           RunRegister(c) \/ RunUnregister(c) \/ RunSend(c) \/ RunEvict(c)
    PROVE  HubInv'
<1> USE HubCapPositive, SendCapPositive, MaxMsgsNat DEF HubInv, Idle
<1>0. /\ Len(log) \in Nat /\ Len(broadcast) \in Nat /\ issued \in 0..MaxMsgs
      /\ \A d \in Clients : /\ start[d] \in Nat /\ Len(got[d]) \in Nat
                            /\ Len(send[d]) \in Nat
  BY ChannelFacts DEF HubTypeOK
<1>1. ASSUME RunRegister(c) PROVE HubInv'
  <2>1. HubTypeOK'
    <3>1. conn' \in [Clients -> {"new", "registering", "open", "closed"}]
      BY <1>1 DEF RunRegister, HubTypeOK
    <3>2. start' \in [Clients -> 0..MaxMsgs]
      <4>1. Len(log) \in 0..MaxMsgs
        BY <1>0 DEF HubTypeOK, MessagesCounted
      <4>2. start \in [Clients -> 0..MaxMsgs] /\ start' = [start EXCEPT ![c] = Len(log)]
        BY <1>1 DEF RunRegister, HubTypeOK
      <4> QED
        BY <4>1, <4>2, Zenon
    <3>3. /\ clients' = clients \union {c}
          /\ UNCHANGED <<broadcast, issued, msg, todo, log, send, closes, reader, writer, got>>
      BY <1>1 DEF RunRegister
    <3> QED
      BY <3>1, <3>2, <3>3 DEF HubTypeOK
  <2>2. MessagesCounted' /\ FansOutLast'
    BY <1>1 DEF RunRegister, MessagesCounted, FansOutLast
  <2>3. ChannelLife'
    BY <1>1 DEF RunRegister, ChannelLife, NewIsUntouched, Select
  <2>4. NewIsUntouched'
    BY <1>1 DEF RunRegister, NewIsUntouched, HubTypeOK
  <2>5. /\ got[c] = <<>> /\ send[c] = <<>> /\ todo = {} /\ todo' = {} /\ log' = log
        /\ got' = got /\ send' = send /\ writer' = writer /\ clients' = clients \union {c}
        /\ start'[c] = Len(log) /\ \A d \in Clients \ {c} : start'[d] = start[d]
    BY <1>1 DEF RunRegister, NewIsUntouched, ChannelLife, HubTypeOK
  <2>6. GotFollowsLog'
    BY <1>0, <2>5 DEF GotFollowsLog
  <2>7. SendFollowsGot'
    BY <1>0, <2>5 DEF SendFollowsGot
  <2> QED
    BY <2>1, <2>2, <2>3, <2>4, <2>6, <2>7
<1>2. ASSUME RunUnregister(c) PROVE HubInv'
  <2>1. HubTypeOK'
    <3>1. closes \in [Clients -> Nat]
      BY DEF HubTypeOK
    <3>2. CASE c \in clients
      <4>1. clients' = clients \ {c} /\ closes' = [closes EXCEPT ![c] = @ + 1]
        BY <1>2, <3>2 DEF RunUnregister, Remove
      <4> QED
        BY <1>2, <3>1, <4>1, SMTT(40) DEF RunUnregister, HubTypeOK
    <3>3. CASE c \notin clients
      BY <1>2, <3>3 DEF RunUnregister, HubTypeOK
    <3> QED
      BY <3>2, <3>3
  <2>2. MessagesCounted' /\ FansOutLast' /\ GotFollowsLog'
    BY <1>2 DEF RunUnregister, MessagesCounted, FansOutLast, GotFollowsLog
  <2>3. ChannelLife'
    BY <1>2 DEF RunUnregister, Remove, ChannelLife, HubTypeOK, Select
  <2>4. NewIsUntouched'
    BY <1>2 DEF RunUnregister, Remove, NewIsUntouched, HubTypeOK
  <2>5. SendFollowsGot'
    BY <1>2 DEF RunUnregister, Remove, SendFollowsGot
  <2> QED
    BY <2>1, <2>2, <2>3, <2>4, <2>5
<1>3. ASSUME RunSend(c) PROVE HubInv'
  <2>1. c \in clients /\ msg \in 1..MaxMsgs /\ msg = log[Len(log)]
    BY <1>3 DEF RunSend, ChannelLife, Select, FansOutLast, HubTypeOK
  <2>2. /\ send'[c] = Append(send[c], msg) /\ send'[c] \in Seq(1..MaxMsgs)
        /\ Len(send'[c]) = Len(send[c]) + 1
        /\ \A i \in 1..Len(send[c]) : send'[c][i] = send[c][i]
        /\ send'[c][Len(send[c]) + 1] = msg
        /\ \A d \in Clients \ {c} : send'[d] = send[d]
    <3>1. send[c] \in Seq(1..MaxMsgs) /\ send'[c] = Append(send[c], msg)
      BY <1>3 DEF RunSend, HubTypeOK
    <3>2. \A d \in Clients \ {c} : send'[d] = send[d]
      BY <1>3 DEF RunSend, HubTypeOK
    <3> QED
      BY <2>1, <3>1, <3>2, ChannelFacts
  <2>3. HubTypeOK'
    <3>1. Len(send[c]) < SendCap /\ send' = [send EXCEPT ![c] = Append(@, msg)]
      BY <1>3 DEF RunSend
    <3>2. send' \in [Clients -> Seq(1..MaxMsgs)]
      BY <2>2, <3>1 DEF HubTypeOK
    <3>3. Len(send'[c]) <= SendCap
      <4>1. Len(send[c]) \in Nat
        BY <1>0
      <4> QED
        BY <2>2, <3>1, <4>1, SendCapPositive
    <3>4. \A d \in Clients : Len(send'[d]) <= SendCap
      BY <2>2, <3>3 DEF HubTypeOK
    <3>5. /\ todo' \subseteq todo
          /\ UNCHANGED <<broadcast, issued, clients, msg, log, closes, conn, reader, writer,
                         got, start>>
      BY <1>3 DEF RunSend
    <3> QED
      BY <3>2, <3>4, <3>5 DEF HubTypeOK
  <2>4. MessagesCounted' /\ FansOutLast' /\ GotFollowsLog'
    BY <1>3 DEF RunSend, MessagesCounted, FansOutLast, GotFollowsLog
  <2>5. ChannelLife'
    BY <1>3, <2>1 DEF RunSend, ChannelLife, Select
  <2>6. NewIsUntouched'
    BY <1>3, <2>1, <2>2 DEF RunSend, NewIsUntouched
  <2>7. SendFollowsGot'
    <3> SUFFICES ASSUME NEW d \in Clients, writer[d] # "done"
                 PROVE  /\ start[d] + Len(got[d]) + Len(send'[d]) <= Len(log)
                        /\ \A i \in 1..Len(send'[d]) :
                             send'[d][i] = log[start[d] + Len(got[d]) + i]
                        /\ d \in todo' =>
                             start[d] + Len(got[d]) + Len(send'[d]) + 1 = Len(log)
                        /\ d \in clients \ todo' =>
                             start[d] + Len(got[d]) + Len(send'[d]) = Len(log)
      BY <1>3 DEF RunSend, SendFollowsGot
    <3>1. CASE d = c
      <4>1. start[c] + Len(got[c]) + Len(send[c]) + 1 = Len(log)
        BY <1>3, <3>1 DEF RunSend, SendFollowsGot
      <4>2. ASSUME NEW i \in 1..Len(send'[c])
            PROVE  send'[c][i] = log[start[c] + Len(got[c]) + i]
        <5>1. CASE i = Len(send[c]) + 1
          <6>1. start[c] + Len(got[c]) + i = Len(log)
            <7>1. start[c] \in Nat /\ Len(got[c]) \in Nat /\ Len(send[c]) \in Nat
              BY <1>0
            <7>2. start[c] + Len(got[c]) + (Len(send[c]) + 1) = Len(log)
              BY <4>1, <7>1, SMTT(40)
            <7> QED
              BY <5>1, <7>2, Zenon
          <6> QED
            BY <2>1, <2>2, <5>1, <6>1
        <5>2. CASE i \in 1..Len(send[c])
          BY <1>0, <2>2, <3>1, <5>2 DEF SendFollowsGot
        <5> QED
          BY <1>0, <2>2, <5>1, <5>2, SMTT(40)
      <4> QED
        <5>1. c \notin todo'
          BY <1>3 DEF RunSend
        <5>2. start[c] + Len(got[c]) + Len(send'[c]) = Len(log)
          <6>1. Len(send'[c]) = Len(send[c]) + 1
            BY <2>2
          <6>2. start[c] \in Nat /\ Len(got[c]) \in Nat /\ Len(send[c]) \in Nat
            BY <1>0
          <6> QED
            BY <4>1, <6>1, <6>2, SMTT(40)
        <5> QED
          BY <1>0, <3>1, <4>2, <5>1, <5>2
    <3>2. CASE d # c
      <4>1. send'[d] = send[d] /\ (d \in todo' <=> d \in todo)
        BY <1>3, <2>2, <3>2 DEF RunSend
      <4> QED
        BY <4>1 DEF SendFollowsGot
    <3> QED
      BY <3>1, <3>2
  <2> QED
    BY <2>3, <2>4, <2>5, <2>6, <2>7
<1>4. ASSUME RunEvict(c) PROVE HubInv'
  <2>1. HubTypeOK'
    <3>1. closes' \in [Clients -> Nat]
      <4>1. closes \in [Clients -> Nat] /\ closes' = [closes EXCEPT ![c] = @ + 1]
        BY <1>4 DEF RunEvict, Remove, HubTypeOK
      <4> QED
        BY <4>1
    <3>2. /\ todo' \subseteq todo /\ clients' \subseteq clients
          /\ UNCHANGED <<broadcast, issued, msg, log, send, conn, reader, writer, got, start>>
      BY <1>4 DEF RunEvict, Remove
    <3> QED
      BY <3>1, <3>2 DEF HubTypeOK
  <2>2. MessagesCounted' /\ FansOutLast' /\ GotFollowsLog'
    BY <1>4 DEF RunEvict, MessagesCounted, FansOutLast, GotFollowsLog
  <2>3. ChannelLife'
    BY <1>4 DEF RunEvict, Remove, ChannelLife, HubTypeOK, Select
  <2>4. NewIsUntouched'
    BY <1>4 DEF RunEvict, Remove, NewIsUntouched, ChannelLife, HubTypeOK
  <2>5. SendFollowsGot'
    BY <1>4 DEF RunEvict, Remove, SendFollowsGot
  <2> QED
    BY <2>1, <2>2, <2>3, <2>4, <2>5
<1> QED
  BY <1>1, <1>2, <1>3, <1>4

\* And so do the steps of a connection and of its two pumps.
LEMMA HubInvPumps ==
    ASSUME HubInv, NEW c \in Clients,
           Connect(c) \/ StartPumps(c) \/ ReadFails(c) \/ WriterStep(c) \/ PingFails(c)
    PROVE  HubInv'
<1> USE DEF HubInv
<1>0. ASSUME NEW d \in Clients
      PROVE  start[d] \in Nat /\ Len(got[d]) \in Nat /\ Len(send[d]) \in Nat
  BY ChannelFacts, MaxMsgsNat DEF HubTypeOK
<1>1. ASSUME Connect(c) \/ StartPumps(c) \/ ReadFails(c) PROVE HubInv'
  <2>1. HubTypeOK'
    <3>1. CASE Connect(c)
      BY <3>1 DEF Connect, HubTypeOK
    <3>2. CASE StartPumps(c)
      BY <3>2 DEF StartPumps, HubTypeOK
    <3>3. CASE ReadFails(c)
      BY <3>3 DEF ReadFails, HubTypeOK
    <3> QED
      BY <1>1, <3>1, <3>2, <3>3
  <2>2. MessagesCounted' /\ FansOutLast' /\ GotFollowsLog' /\ ChannelLife'
    BY <1>1 DEF Connect, StartPumps, ReadFails, MessagesCounted, FansOutLast,
       GotFollowsLog, ChannelLife, Select
  <2>3. NewIsUntouched'
    BY <1>1 DEF Connect, StartPumps, ReadFails, NewIsUntouched, HubTypeOK
  <2>4. SendFollowsGot'
    <3>1. ASSUME NEW d \in Clients, writer'[d] # "done" PROVE writer[d] # "done" \/ d = c
      BY <1>1, <3>1 DEF Connect, StartPumps, ReadFails, HubTypeOK
    <3>2. StartPumps(c) => writer[c] # "done"
      BY DEF StartPumps, NewIsUntouched
    <3>3. UNCHANGED <<start, got, send, log, todo, clients>>
      BY <1>1 DEF Connect, StartPumps, ReadFails
    <3>4. ASSUME NEW d \in Clients, writer'[d] # "done" PROVE writer[d] # "done"
      BY <1>1, <3>1, <3>2, <3>4 DEF Connect, ReadFails
    <3> QED
      BY <3>3, <3>4 DEF SendFollowsGot
  <2> QED
    BY <2>1, <2>2, <2>3, <2>4
<1>2. ASSUME Write(c) PROVE HubInv'
  <2>1. /\ send[c] \in Seq(1..MaxMsgs) /\ got[c] \in Seq(1..MaxMsgs)
        /\ send'[c] = Tail(send[c]) /\ got'[c] = Append(got[c], Head(send[c]))
        /\ send[c] # <<>>
        /\ \A d \in Clients \ {c} : send'[d] = send[d] /\ got'[d] = got[d]
    BY <1>2 DEF Write, HubTypeOK
  <2>2. /\ Head(send[c]) \in 1..MaxMsgs /\ Head(send[c]) = send[c][1] /\ Len(send[c]) > 0
        /\ send'[c] \in Seq(1..MaxMsgs) /\ Len(send'[c]) = Len(send[c]) - 1
        /\ \A i \in 1..(Len(send[c]) - 1) : send'[c][i] = send[c][i + 1]
    <3>1. /\ Head(send[c]) \in 1..MaxMsgs /\ Head(send[c]) = send[c][1] /\ Len(send[c]) > 0
          /\ Tail(send[c]) \in Seq(1..MaxMsgs) /\ Len(Tail(send[c])) = Len(send[c]) - 1
          /\ \A i \in 1..(Len(send[c]) - 1) : Tail(send[c])[i] = send[c][i + 1]
      BY <2>1, ChannelFacts
    <3> QED
      BY <2>1, <3>1, Zenon
  <2>3. /\ got'[c] \in Seq(1..MaxMsgs) /\ Len(got'[c]) = Len(got[c]) + 1
        /\ \A i \in 1..Len(got[c]) : got'[c][i] = got[c][i]
        /\ got'[c][Len(got[c]) + 1] = send[c][1]
    BY <2>1, <2>2, ChannelFacts
  <2>4. HubTypeOK'
    <3>1. Len(send'[c]) <= SendCap
      BY <1>0, <2>2, SendCapPositive DEF HubTypeOK
    <3>2. send' \in [Clients -> Seq(1..MaxMsgs)] /\ got' \in [Clients -> Seq(1..MaxMsgs)]
      BY <1>2, <2>1, <2>2, <2>3 DEF Write, HubTypeOK
    <3> QED
      BY <1>2, <2>1, <3>1, <3>2 DEF Write, HubTypeOK
  <2>5. MessagesCounted' /\ FansOutLast' /\ ChannelLife'
    BY <1>2 DEF Write, MessagesCounted, FansOutLast, ChannelLife, Select
  <2>6. NewIsUntouched'
    BY <1>2, <2>1 DEF Write, NewIsUntouched
  <2>7. /\ start[c] + Len(got[c]) + Len(send[c]) <= Len(log)
        /\ \A i \in 1..Len(send[c]) : send[c][i] = log[start[c] + Len(got[c]) + i]
        /\ c \in todo => start[c] + Len(got[c]) + Len(send[c]) + 1 = Len(log)
        /\ c \in clients \ todo => start[c] + Len(got[c]) + Len(send[c]) = Len(log)
    BY <1>2 DEF Write, SendFollowsGot
  <2>8. Len(log) \in Nat
    BY ChannelFacts DEF HubTypeOK
  <2>9. start[c] + Len(got'[c]) + Len(send'[c]) = start[c] + Len(got[c]) + Len(send[c])
    <3>1. start[c] + (Len(got[c]) + 1) + (Len(send[c]) - 1)
        = start[c] + Len(got[c]) + Len(send[c])
      <4>1. start[c] \in Nat /\ Len(got[c]) \in Nat /\ Len(send[c]) \in Nat
        BY <1>0
      <4> QED
        BY <4>1, MoveOne
    <3>2. Len(got'[c]) = Len(got[c]) + 1 /\ Len(send'[c]) = Len(send[c]) - 1
      BY <2>2, <2>3
    <3> QED
      BY <3>1, <3>2, Zenon
  <2>10. GotFollowsLog'
    <3>1. start[c] + Len(got'[c]) <= Len(log)
      <4>1. start[c] + Len(got[c]) + 1 <= Len(log)
        BY <1>0, <2>2, <2>7, <2>8
      <4> QED
        BY <1>0, <2>3, <4>1
    <3>2. ASSUME NEW i \in 1..Len(got'[c]) PROVE got'[c][i] = log[start[c] + i]
      <4>1. CASE i \in 1..Len(got[c])
        BY <2>3, <4>1 DEF GotFollowsLog
      <4>2. CASE i = Len(got[c]) + 1
        <5>1. start[c] + Len(got[c]) + 1 = start[c] + (Len(got[c]) + 1)
          BY <1>0
        <5>2. send[c][1] = log[start[c] + Len(got[c]) + 1]
          BY <1>0, <2>2, <2>7
        <5> QED
          BY <2>3, <4>2, <5>1, <5>2, Zenon
      <4> QED
        BY <1>0, <2>3, <4>1, <4>2
    <3> QED
      BY <1>2, <2>1, <3>1, <3>2 DEF Write, GotFollowsLog
  <2>11. SendFollowsGot'
    <3>1. ASSUME NEW i \in 1..Len(send'[c])
          PROVE  send'[c][i] = log[start[c] + Len(got'[c]) + i]
      <4>1. i \in Nat /\ i \in 1..(Len(send[c]) - 1) /\ i + 1 \in 1..Len(send[c])
        BY <1>0, <2>2
      <4>2. send'[c][i] = log[start[c] + Len(got[c]) + (i + 1)]
        BY <2>2, <2>7, <4>1, Zenon
      <4>3. start[c] + Len(got'[c]) + i = start[c] + Len(got[c]) + (i + 1)
        <5>1. Len(got'[c]) = Len(got[c]) + 1
          BY <2>3
        <5>2. start[c] + (Len(got[c]) + 1) + i = start[c] + Len(got[c]) + (i + 1)
          <6>1. start[c] \in Nat /\ Len(got[c]) \in Nat
            BY <1>0
          <6> QED
            BY <4>1, <6>1, SMTT(40)
        <5> QED
          BY <5>1, <5>2, Zenon
      <4> QED
        BY <4>2, <4>3, Zenon
    <3>2. /\ start[c] + Len(got'[c]) + Len(send'[c]) <= Len(log)
          /\ c \in todo => start[c] + Len(got'[c]) + Len(send'[c]) + 1 = Len(log)
          /\ c \in clients \ todo => start[c] + Len(got'[c]) + Len(send'[c]) = Len(log)
      BY <2>7, <2>9, Zenon
    <3>3. UNCHANGED <<start, log, todo, clients, writer>>
      BY <1>2 DEF Write
    <3> QED
      BY <2>1, <3>1, <3>2, <3>3, ZenonT(60) DEF SendFollowsGot
  <2> QED
    BY <2>4, <2>5, <2>6, <2>10, <2>11
<1>3. ASSUME WriteFails(c) \/ WriteClose(c) \/ PingFails(c) PROVE HubInv'
  <2>1. /\ writer[c] = "select" /\ writer'[c] = "done" /\ conn'[c] = "closed"
        /\ \A d \in Clients \ {c} : /\ writer'[d] = writer[d] /\ conn'[d] = conn[d]
                                    /\ send'[d] = send[d]
        /\ UNCHANGED <<broadcast, issued, clients, msg, todo, log, closes, reader, got, start>>
    BY <1>3 DEF WriteFails, WriteClose, PingFails, WriterReturns, HubTypeOK
  <2>2. HubTypeOK'
    <3>1. send' \in [Clients -> Seq(1..MaxMsgs)] /\ Len(send'[c]) <= SendCap
      <4>1. send[c] # <<>> => /\ Tail(send[c]) \in Seq(1..MaxMsgs)
                              /\ Len(Tail(send[c])) = Len(send[c]) - 1
        BY ChannelFacts DEF HubTypeOK
      <4> QED
        <5>1. /\ send \in [Clients -> Seq(1..MaxMsgs)] /\ Len(send[c]) <= SendCap
              /\ Len(send[c]) \in Nat
          BY <1>0 DEF HubTypeOK
        <5>2. \/ send' = send
              \/ send[c] # <<>> /\ send' = [send EXCEPT ![c] = Tail(@)]
          BY <1>3 DEF WriteFails, WriteClose, PingFails
        <5>3. CASE send' = send
          BY <5>1, <5>3
        <5>4. CASE send[c] # <<>> /\ send' = [send EXCEPT ![c] = Tail(@)]
          <6>1. send'[c] = Tail(send[c]) /\ send' \in [Clients -> Seq(1..MaxMsgs)]
            BY <4>1, <5>1, <5>4
          <6>2. Len(Tail(send[c])) <= SendCap
            BY <4>1, <5>1, <5>4, SendCapPositive
          <6> QED
            BY <6>1, <6>2
        <5> QED
          BY <5>2, <5>3, <5>4
    <3>2. \A d \in Clients : Len(send'[d]) <= SendCap
      BY <2>1, <3>1 DEF HubTypeOK
    <3>3. conn' \in [Clients -> {"new", "registering", "open", "closed"}]
      <4>1. conn' = [conn EXCEPT ![c] = "closed"]
        BY <1>3 DEF WriteFails, WriteClose, PingFails, WriterReturns
      <4> QED
        BY <4>1 DEF HubTypeOK
    <3>4. writer' \in [Clients -> {"none", "select", "done"}]
      <4>1. writer' = [writer EXCEPT ![c] = "done"]
        BY <1>3 DEF WriteFails, WriteClose, PingFails, WriterReturns
      <4> QED
        BY <4>1 DEF HubTypeOK
    <3> QED
      BY <2>1, <3>1, <3>2, <3>3, <3>4 DEF HubTypeOK
  <2>3. MessagesCounted' /\ FansOutLast' /\ ChannelLife' /\ GotFollowsLog'
    BY <2>1 DEF MessagesCounted, FansOutLast, ChannelLife, GotFollowsLog, Select
  <2>4. NewIsUntouched'
    BY <2>1 DEF NewIsUntouched
  <2>5. SendFollowsGot'
    BY <2>1 DEF SendFollowsGot
  <2> QED
    BY <2>2, <2>3, <2>4, <2>5
<1> QED
  BY <1>1, <1>2, <1>3 DEF WriterStep

-----------------------------------------------------------------------------
\* The invariant holds of every state the hub can reach.
LEMMA HubInvHolds == HubSpec => []HubInv
<1>1. HubInv /\ [HubNext]_hubVars => HubInv'
  <2> SUFFICES ASSUME HubInv, [HubNext]_hubVars PROVE HubInv'
    OBVIOUS
  <2>1. CASE UNCHANGED hubVars
    BY <2>1 DEF hubVars, HubInv, HubTypeOK, MessagesCounted, FansOutLast, ChannelLife,
       Select, NewIsUntouched, GotFollowsLog, SendFollowsGot
  <2> QED
    BY <2>1, HubInvRun, HubInvServe, HubInvPumps DEF HubNext, RunStep, RunFanOut, HubIdle
<1> QED
  BY <1>1, HubInvInit, PTL DEF HubSpec

\* Type correctness; and no channel is ever filled beyond its capacity, however
\* Broadcast, the fan-out and the pumps interleave.
THEOREM HubTypeCorrect == HubSpec => []HubTypeOK
<1>1. HubInv => HubTypeOK
  BY DEF HubInv
<1> QED
  BY <1>1, HubInvHolds, PTL

\* The process never panics in the hub: eviction, the late Unregister and the
\* fan-out never close a client's channel twice or send on a closed one.
THEOREM HubSafe == HubSpec => []HubNeverPanics
<1>1. HubInv => HubNeverPanics
  BY DEF HubInv, ChannelLife, HubNeverPanics
<1> QED
  BY <1>1, HubInvHolds, PTL

\* What a client receives is a gap-free run of the log from its registration on.
THEOREM HubContiguous == HubSpec => []DeliveredIsContiguous
<1>1. HubInv => DeliveredIsContiguous
  <2> SUFFICES ASSUME HubInv, NEW c \in Clients
               PROVE  got[c] = SubSeq(log, start[c] + 1, start[c] + Len(got[c]))
    BY DEF DeliveredIsContiguous
  <2> DEFINE lo == start[c] + 1
             hi == start[c] + Len(got[c])
             S  == 1..MaxMsgs
  <2>1. /\ log \in Seq(S) /\ got[c] \in Seq(S) /\ start[c] \in Nat
    BY MaxMsgsNat DEF HubInv, HubTypeOK
  <2>2. /\ Len(log) \in Nat /\ Len(got[c]) \in Nat
    BY <2>1, ChannelFacts
  <2>3. /\ hi <= Len(log)
        /\ \A i \in 1..Len(got[c]) : got[c][i] = log[start[c] + i]
    BY DEF HubInv, GotFollowsLog
  <2>4. /\ SubSeq(log, lo, hi) \in Seq(S)
        /\ Len(SubSeq(log, lo, hi)) = Len(got[c])
        /\ \A i \in 1..Len(got[c]) : SubSeq(log, lo, hi)[i] = log[start[c] + i]
    <3>1. lo \in Int /\ hi \in Int
      BY <2>1, <2>2
    <3>2. ASSUME NEW i \in lo..hi PROVE log[i] \in S
      <4>1. i \in 1..Len(log)
        BY <2>1, <2>2, <2>3
      <4> QED
        BY <2>1, <4>1, ChannelFacts
    <3>3. /\ SubSeq(log, lo, hi) \in Seq(S)
          /\ Len(SubSeq(log, lo, hi)) = IF lo <= hi THEN hi - lo + 1 ELSE 0
          /\ \A i \in 1..(hi - lo + 1) : SubSeq(log, lo, hi)[i] = log[lo + i - 1]
      BY <3>1, <3>2, SubSeqProperties
    <3>4. /\ hi - lo + 1 = Len(got[c]) /\ (lo <= hi <=> Len(got[c]) # 0)
          /\ \A i \in 1..Len(got[c]) : lo + i - 1 = start[c] + i
      BY <2>1, <2>2, Window
    <3> HIDE DEF lo, hi, S
    <3>5. Len(SubSeq(log, lo, hi)) = Len(got[c])
      BY <2>2, <3>3, <3>4
    <3>6. \A i \in 1..Len(got[c]) : SubSeq(log, lo, hi)[i] = log[start[c] + i]
      BY <3>3, <3>4, Zenon
    <3> QED
      BY <3>3, <3>5, <3>6
  <2> HIDE DEF lo, hi, S
  <2>5. \A i \in 1..Len(got[c]) : got[c][i] = SubSeq(log, lo, hi)[i]
    BY <2>3, <2>4
  <2>6. got[c] = SubSeq(log, lo, hi)
    BY <2>1, <2>4, <2>5, SeqEqual
  <2> QED
    BY <2>6 DEF lo, hi
<1> QED
  BY <1>1, HubInvHolds, PTL
=============================================================================
