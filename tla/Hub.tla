-------------------------------- MODULE Hub ---------------------------------
(***************************************************************************)
(* internal/hub: the goroutine that fans dashboard events out to WebSocket *)
(* clients.  The hub owns the client map; Broadcast never blocks; a client *)
(* whose buffer is full is evicted; each client has a reading and a        *)
(* writing goroutine.                                                      *)
(***************************************************************************)
EXTENDS Naturals, Sequences, FiniteSets

CONSTANTS
    Clients,       \* WebSocket connections
    HubCap,        \* capacity of Hub.broadcast
    SendCap,       \* sendBufSize
    MaxMsgs        \* bound: calls of Broadcast

ASSUME HubCapPositive  == HubCap \in Nat \ {0}
ASSUME SendCapPositive == SendCap \in Nat \ {0}
ASSUME MaxMsgsNat      == MaxMsgs \in Nat

VARIABLES
    broadcast,  \* the hub's message channel; messages are numbered
    issued,     \* calls of Broadcast so far
    clients,    \* Hub.clients
    msg, todo,  \* the message Run is fanning out, clients it has yet to reach
    log,        \* every message Run took from the channel
    send,       \* each client's send channel
    closes,     \* how often it was closed
    conn,       \* the connection: new, registering, open, closed
    reader,     \* readPump
    writer,     \* writePump
    got,        \* messages written to the socket
    start       \* Len(log) when the client was registered

hubVars == <<broadcast, issued, clients, msg, todo, log, send, closes, conn,
             reader, writer, got, start>>

Idle   == 0     \* Run is at its select
Select == msg = Idle

-----------------------------------------------------------------------------
\* Variant: nothing is dropped.
BroadcastUnbounded ==
    /\ issued < MaxMsgs
    /\ issued' = issued + 1
    /\ broadcast' = Append(broadcast, issued + 1)
    /\ UNCHANGED <<clients, msg, todo, log, send, closes, conn, reader, writer, got, start>>

\* Broadcast: dropped when the channel is full.
Broadcast ==
    /\ issued < MaxMsgs
    /\ issued' = issued + 1
    /\ broadcast' = IF Len(broadcast) < HubCap THEN Append(broadcast, issued + 1)
                                               ELSE broadcast
    /\ UNCHANGED <<clients, msg, todo, log, send, closes, conn, reader, writer, got, start>>

\* NewClient blocks in Register until Run takes it.
Connect(c) ==
    /\ conn[c] = "new"
    /\ conn' = [conn EXCEPT ![c] = "registering"]
    /\ UNCHANGED <<broadcast, issued, clients, msg, todo, log, send, closes, reader,
                   writer, got, start>>

RunRegister(c) ==
    /\ Select /\ conn[c] = "registering"
    /\ clients' = clients \union {c}
    /\ conn' = [conn EXCEPT ![c] = "open"]
    /\ start' = [start EXCEPT ![c] = Len(log)]
    /\ UNCHANGED <<broadcast, issued, msg, todo, log, send, closes, reader, writer, got>>

StartPumps(c) ==
    /\ conn[c] = "open" /\ reader[c] = "none"
    /\ reader' = [reader EXCEPT ![c] = "reading"]
    /\ writer' = [writer EXCEPT ![c] = "select"]
    /\ UNCHANGED <<broadcast, issued, clients, msg, todo, log, send, closes, conn, got, start>>

\* A client leaves the map and its channel is closed.
Remove(c) ==
    /\ clients' = clients \ {c}
    /\ closes' = [closes EXCEPT ![c] = @ + 1]

\* Variant: an evicted client is removed again.
RunUnregisterAlways(c) ==
    /\ Select /\ reader[c] = "unregister"
    /\ Remove(c)
    /\ reader' = [reader EXCEPT ![c] = "done"]
    /\ conn' = [conn EXCEPT ![c] = "closed"]
    /\ UNCHANGED <<broadcast, issued, msg, todo, log, send, writer, got, start>>

\* Rendezvous with a readPump that is returning; it then closes the connection.
RunUnregister(c) ==
    /\ Select /\ reader[c] = "unregister"
    /\ IF c \in clients THEN Remove(c) ELSE UNCHANGED <<clients, closes>>
    /\ reader' = [reader EXCEPT ![c] = "done"]
    /\ conn' = [conn EXCEPT ![c] = "closed"]
    /\ UNCHANGED <<broadcast, issued, msg, todo, log, send, writer, got, start>>

RunTake ==
    /\ Select /\ broadcast # <<>>
    /\ msg' = Head(broadcast) /\ todo' = clients
    /\ broadcast' = Tail(broadcast)
    /\ log' = Append(log, Head(broadcast))
    /\ UNCHANGED <<issued, clients, send, closes, conn, reader, writer, got, start>>

RunSend(c) ==
    /\ c \in todo /\ Len(send[c]) < SendCap
    /\ todo' = todo \ {c}
    /\ send' = [send EXCEPT ![c] = Append(@, msg)]
    /\ UNCHANGED <<broadcast, issued, clients, msg, log, closes, conn, reader, writer,
                   got, start>>

\* Variant: a slow client misses the message and stays.
RunSkip(c) ==
    /\ c \in todo /\ Len(send[c]) >= SendCap
    /\ todo' = todo \ {c}
    /\ UNCHANGED <<broadcast, issued, clients, msg, log, send, closes, conn, reader, writer,
                   got, start>>

\* Variant: the send to a slow client blocks.
RunBlocks(c) ==
    /\ c \in todo /\ Len(send[c]) > SendCap
    /\ UNCHANGED hubVars

RunEvict(c) ==
    /\ c \in todo /\ Len(send[c]) >= SendCap
    /\ todo' = todo \ {c}
    /\ Remove(c)
    /\ UNCHANGED <<broadcast, issued, msg, log, send, conn, reader, writer, got, start>>

RunNext ==
    /\ ~Select /\ todo = {}
    /\ msg' = Idle
    /\ UNCHANGED <<broadcast, issued, clients, todo, log, send, closes, conn, reader,
                   writer, got, start>>

-----------------------------------------------------------------------------
\* readPump: the peer goes away, a pong is late, or the connection was closed.
ReadFails(c) ==
    /\ reader[c] = "reading"
    /\ reader' = [reader EXCEPT ![c] = "unregister"]
    /\ UNCHANGED <<broadcast, issued, clients, msg, todo, log, send, closes, conn, writer,
                   got, start>>

\* writePump returns and closes the connection.
WriterReturns(c) ==
    /\ writer' = [writer EXCEPT ![c] = "done"]
    /\ conn' = [conn EXCEPT ![c] = "closed"]

Write(c) ==
    /\ writer[c] = "select" /\ send[c] # <<>> /\ conn[c] = "open"
    /\ got' = [got EXCEPT ![c] = Append(@, Head(send[c]))]
    /\ send' = [send EXCEPT ![c] = Tail(@)]
    /\ UNCHANGED <<broadcast, issued, clients, msg, todo, log, closes, conn, reader, writer,
                   start>>

WriteFails(c) ==
    /\ writer[c] = "select" /\ send[c] # <<>>
    /\ send' = [send EXCEPT ![c] = Tail(@)]
    /\ WriterReturns(c)
    /\ UNCHANGED <<broadcast, issued, clients, msg, todo, log, closes, reader, got, start>>

\* Variant: the connection is left open.
WriteCloseOnly(c) ==
    /\ writer[c] = "select" /\ send[c] = <<>> /\ closes[c] > 0
    /\ writer' = [writer EXCEPT ![c] = "done"]
    /\ UNCHANGED <<broadcast, issued, clients, msg, todo, log, send, closes, conn, reader,
                   got, start>>

\* The channel is closed and empty: a close frame, then return.
WriteClose(c) ==
    /\ writer[c] = "select" /\ send[c] = <<>> /\ closes[c] > 0
    /\ WriterReturns(c)
    /\ UNCHANGED <<broadcast, issued, clients, msg, todo, log, send, closes, reader, got, start>>

PingFails(c) ==
    /\ writer[c] = "select"
    /\ WriterReturns(c)
    /\ UNCHANGED <<broadcast, issued, clients, msg, todo, log, send, closes, reader, got, start>>

-----------------------------------------------------------------------------
HubInit ==
    /\ broadcast = <<>> /\ issued = 0 /\ clients = {} /\ msg = Idle /\ todo = {}
    /\ log = <<>>
    /\ send = [c \in Clients |-> <<>>] /\ closes = [c \in Clients |-> 0]
    /\ conn = [c \in Clients |-> "new"]
    /\ reader = [c \in Clients |-> "none"] /\ writer = [c \in Clients |-> "none"]
    /\ got = [c \in Clients |-> <<>>] /\ start = [c \in Clients |-> 0]

\* The cases of Run's select, and the fan-out loop.
RunFanOut == RunTake \/ RunNext \/ \E c \in Clients : RunSend(c) \/ RunEvict(c)
RunStep   == RunFanOut \/ \E c \in Clients : RunRegister(c) \/ RunUnregister(c)

WriterStep(c) == Write(c) \/ WriteFails(c) \/ WriteClose(c)

\* Every message was delivered or dropped and every client is served or gone.
HubIdle ==
    /\ issued = MaxMsgs /\ broadcast = <<>> /\ Select
    /\ \A c \in Clients : conn[c] = "closed" /\ reader[c] = "done" /\ writer[c] = "done"
    /\ UNCHANGED hubVars

HubNext ==
    \/ Broadcast \/ RunStep \/ HubIdle
    \/ \E c \in Clients : \/ Connect(c) \/ StartPumps(c) \/ ReadFails(c)
                          \/ WriterStep(c) \/ PingFails(c)

HubSpec == HubInit /\ [][HubNext]_hubVars

\* Run never stops; nothing is assumed of clients and their pumps.
HubOnlyFair ==
    /\ WF_hubVars(RunFanOut)
    /\ SF_hubVars(RunTake)

\* Pumps run too: a reader whose connection is closed gets its error, a writer
\* gets on with its channel (the write deadline), select takes every case.
PumpsFair ==
    \A c \in Clients :
        /\ WF_hubVars(StartPumps(c))
        /\ WF_hubVars(conn[c] = "closed" /\ ReadFails(c))
        /\ WF_hubVars(WriterStep(c))
        /\ SF_hubVars(RunUnregister(c))

HubUnfairClientsSpec == HubSpec /\ HubOnlyFair

-----------------------------------------------------------------------------
\* Properties

\* Every variable has its type and the channels stay within their capacity.
HubTypeOK ==
    /\ broadcast \in Seq(1..MaxMsgs) /\ Len(broadcast) <= HubCap
    /\ issued \in 0..MaxMsgs /\ msg \in 0..MaxMsgs
    /\ clients \subseteq Clients /\ todo \subseteq Clients
    /\ log \in Seq(1..MaxMsgs)
    /\ send \in [Clients -> Seq(1..MaxMsgs)] /\ \A c \in Clients : Len(send[c]) <= SendCap
    /\ closes \in [Clients -> Nat]
    /\ conn \in [Clients -> {"new", "registering", "open", "closed"}]
    /\ reader \in [Clients -> {"none", "reading", "unregister", "done"}]
    /\ writer \in [Clients -> {"none", "select", "done"}]
    /\ got \in [Clients -> Seq(1..MaxMsgs)]
    /\ start \in [Clients -> 0..MaxMsgs]

\* A send on a closed channel, or a second close, panics and takes the whole
\* process down.  Eviction and the late Unregister of the same client, and a
\* fan-out that meets an evicted client, never do either.
HubNeverPanics ==
    \A c \in Clients :
        /\ closes[c] <= 1
        /\ c \in clients \union todo => closes[c] = 0

\* What a client receives is a gap-free run of the messages the hub took, from
\* its registration on: a slow client is cut off, it never misses one message
\* and gets a later one.
DeliveredIsContiguous ==
    \A c \in Clients :
        got[c] = SubSeq(log, start[c] + 1, start[c] + Len(got[c]))

\* Slow or dead clients cannot hold the hub up: whatever the pumps do, every
\* message in the channel is taken.
BroadcastsDrain ==
    \A m \in 1..MaxMsgs :
        (\E i \in 1..Len(broadcast) : broadcast[i] = m) ~>
        (\E i \in 1..Len(log) : log[i] = m)

\* Nothing of a client is left behind: if its pumps get to run, then once its
\* channel is closed or its connection is, it leaves the map and both its
\* goroutines return.
ClientIsReleased ==
    PumpsFair => \A c \in Clients :
        (closes[c] > 0 \/ conn[c] = "closed") ~>
        (c \notin clients /\ reader[c] = "done" /\ writer[c] = "done")
=============================================================================
