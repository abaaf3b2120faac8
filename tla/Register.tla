------------------------------ MODULE Register ------------------------------
(***************************************************************************)
(* xlive-register: a UDP task that reads datagrams one at a time, a server *)
(* loop that owns the two maps, HTTP queries through the same queue, and   *)
(* around them the datagrams, the origins that set and delete names and    *)
(* the clients (the managers of caches and edges) that get one.            *)
(*                                                                         *)
(* A timestamp is modelled by its age in ticks of the register's clock,    *)
(* which does not step back; ages stop growing at Timeout, past which no   *)
(* comparison tells them apart.                                            *)
(***************************************************************************)
EXTENDS Naturals, Sequences

CONSTANTS
  Names,      \* app names
  Origins,    \* addresses of origins
  Clients,    \* addresses of Get requests: a fresh UDP port each
  None,       \* no address, or no name
  Timeout,    \* seconds an entry stays fresh (10 in the code)
  MaxQueue,   \* bound: messages in the server loop's queue
  Queries,    \* the HTTP queries that are made
  Faults      \* what may go wrong

ASSUME AddressAssumption ==
  None \notin Origins /\ None \notin Clients /\ None \notin Names /\ Origins \cap Clients = {}
ASSUME TimeoutAssumption == Timeout \in Nat \ {0} /\ None \notin 0 .. Timeout
ASSUME BoundsAssumption == MaxQueue \in Nat \ {0}
ASSUME QueriesAssumption == Queries \subseteq {"GetServers", "GetAppsMap"}
ASSUME FaultsAssumption == Faults \subseteq {"loss", "duplicate", "crash", "send", "receive", "panic"}

VARIABLES
  serving,      \* the name each origin's channel has
  datagrams,    \* datagrams on their way to the register
  task,         \* the UDP task: "receiving", "waiting" for a reply, or "dead"
  server,       \* the server loop: "running", or "dead" of a panic
  queue,        \* the server loop's queue
  oneshot,      \* the reply to the Get the UDP task waits for, if it is there
  channel_map,  \* name to address and age
  servers,      \* age of the last message of each address
  replies,      \* datagrams on their way to clients
  client,       \* "idle", "asked" or "answered"
  wanted,       \* the name a client asks for
  answer,       \* the address it was told, or None
  apps,         \* the last answer to /channels_info
  hosts         \* the last answer to /servers_info

originVars == <<serving>>
netVars    == <<datagrams, replies>>
serverVars == <<server, queue, oneshot, channel_map, servers>>
clientVars == <<client, wanted, answer>>
httpVars   == <<apps, hosts>>
vars       == <<serving, datagrams, task, server, queue, oneshot, channel_map,
                servers, replies, client, wanted, answer, apps, hosts>>

Addresses == Origins \cup Clients

Age == 0 .. Timeout

NoEntry == [addr |-> None, age |-> 0]

Entry == [addr : Origins \cup {None}, age : Age]

\* Register messages with the address they come from.
SetMsg(o, n)    == [kind |-> "Set", name |-> n, from |-> o]
DeleteMsg(o, n) == [kind |-> "Delete", name |-> n, from |-> o]
GetMsg(c, n)    == [kind |-> "Get", name |-> n, from |-> c]
QueryMsg(q)     == [kind |-> q, name |-> None, from |-> None]

Datagram ==
  [kind : {"Set", "Delete"}, name : Names, from : Origins]
  \cup [kind : {"Get"}, name : Names, from : Clients]

Message == Datagram \cup {QueryMsg(q) : q \in Queries}

\* A RegisterResp: OK with an address, or NOFOUND.
Reply == [to : Clients, addr : Origins \cup {None}]

TypeOK ==
  /\ serving \in [Origins -> Names \cup {None}]
  /\ datagrams \subseteq Datagram
  /\ task \in {"receiving", "waiting", "dead"}
  /\ server \in {"running", "dead"}
  /\ queue \in Seq(Message)
  /\ oneshot \subseteq Reply
  /\ channel_map \in [Names -> Entry]
  /\ servers \in [Addresses -> Age \cup {None}]
  /\ replies \subseteq Reply
  /\ client \in [Clients -> {"idle", "asked", "answered"}]
  /\ wanted \in [Clients -> Names]
  /\ answer \in [Clients -> Origins \cup {None}]
  /\ apps \subseteq [name : Names, entry : Entry]
  /\ hosts \subseteq Addresses

Init ==
  /\ serving = [o \in Origins |-> None]
  /\ datagrams = {}
  /\ task = "receiving"
  /\ server = "running"
  /\ queue = <<>>
  /\ oneshot = {}
  /\ channel_map = [n \in Names |-> NoEntry]
  /\ servers = [a \in Addresses |-> None]
  /\ replies = {}
  /\ client = [c \in Clients |-> "idle"]
  /\ wanted \in [Clients -> Names]
  /\ answer = [c \in Clients |-> None]
  /\ apps = {}
  /\ hosts = {}

---------------------------------------------------------------------------
(***************************************************************************)
(* The origins' channels, one at a time (OriginNode), and the clients.     *)
(***************************************************************************)
Start(o, n) ==
  /\ serving[o] = None
  /\ serving' = [serving EXCEPT ![o] = n]
  /\ datagrams' = datagrams \cup {SetMsg(o, n)}
  /\ UNCHANGED <<task, serverVars, replies, clientVars, httpVars>>

\* MUTANT of Heartbeat: there is none.
HeartbeatMissing(o) == serving[o] # None /\ UNCHANGED vars

\* With packets that arrive a channel sets its name again every second.
Heartbeat(o) ==
  /\ serving[o] # None
  /\ datagrams' = datagrams \cup {SetMsg(o, serving[o])}
  /\ UNCHANGED <<serving, task, serverVars, replies, clientVars, httpVars>>

Stop(o) ==
  /\ serving[o] # None
  /\ serving' = [serving EXCEPT ![o] = None]
  /\ datagrams' = datagrams \cup {DeleteMsg(o, serving[o])}
  /\ UNCHANGED <<task, serverVars, replies, clientVars, httpVars>>

\* The origin's process ends: nothing is deleted.
Crash(o) ==
  /\ "crash" \in Faults
  /\ serving[o] # None
  /\ serving' = [serving EXCEPT ![o] = None]
  /\ UNCHANGED <<netVars, task, serverVars, clientVars, httpVars>>

\* A manager binds a socket, sends one Get and waits in recv, with no timeout.
Ask(c) ==
  /\ client[c] = "idle"
  /\ client' = [client EXCEPT ![c] = "asked"]
  /\ datagrams' = datagrams \cup {GetMsg(c, wanted[c])}
  /\ UNCHANGED <<serving, task, serverVars, replies, wanted, answer, httpVars>>

Accept(r) ==
  /\ r \in replies
  /\ client[r.to] = "asked"
  /\ client' = [client EXCEPT ![r.to] = "answered"]
  /\ answer' = [answer EXCEPT ![r.to] = r.addr]
  /\ replies' = replies \ {r}
  /\ UNCHANGED <<serving, datagrams, task, serverVars, wanted, httpVars>>

---------------------------------------------------------------------------
(***************************************************************************)
(* The network: datagrams arrive in any order.                             *)
(***************************************************************************)
Lose ==
  /\ "loss" \in Faults
  /\ \/ \E m \in datagrams : datagrams' = datagrams \ {m} /\ UNCHANGED replies
     \/ \E r \in replies : replies' = replies \ {r} /\ UNCHANGED datagrams
  /\ UNCHANGED <<serving, task, serverVars, clientVars, httpVars>>

\* A datagram that was read may arrive again.
Read(m) ==
  \/ datagrams' = datagrams \ {m}
  \/ "duplicate" \in Faults /\ UNCHANGED datagrams

---------------------------------------------------------------------------
(***************************************************************************)
(* The UDP task.                                                           *)
(***************************************************************************)

\* What is sent to a server loop that is gone is dropped at once.
Sent(m) == queue' = IF server = "running" THEN Append(queue, m) ELSE queue

\* Set and Delete are passed on.
ReceiveUpdate(m) ==
  /\ task = "receiving"
  /\ Len(queue) < MaxQueue
  /\ m \in datagrams /\ m.kind # "Get"
  /\ Read(m)
  /\ Sent(m)
  /\ UNCHANGED <<serving, task, server, oneshot, channel_map, servers, replies,
                 clientVars, httpVars>>

\* MUTANT of ReceiveGet: the outcome of the send is bound to a name, and a Get that
\* nobody takes lives on in it, its reply's sender with it, while the task waits.
ReceiveGetHeld(m) ==
  /\ task = "receiving"
  /\ Len(queue) < MaxQueue
  /\ m \in datagrams /\ m.kind = "Get"
  /\ Read(m)
  /\ queue' = Append(queue, m)
  /\ task' = "waiting"
  /\ UNCHANGED <<serving, server, oneshot, channel_map, servers, replies, clientVars,
                 httpVars>>

\* Get is passed on with the sender of a one-shot reply, which the task waits for:
\* nothing is read meanwhile.
ReceiveGet(m) ==
  /\ task = "receiving"
  /\ Len(queue) < MaxQueue
  /\ m \in datagrams /\ m.kind = "Get"
  /\ Read(m)
  /\ Sent(m)
  /\ task' = "waiting"
  /\ UNCHANGED <<serving, server, oneshot, channel_map, servers, replies, clientVars,
                 httpVars>>

\* An error of recv_from ends the loop, and the task.
ReceiveFails ==
  /\ "receive" \in Faults
  /\ task = "receiving"
  /\ task' = "dead"
  /\ UNCHANGED <<serving, netVars, serverVars, clientVars, httpVars>>

SendReply ==
  /\ task = "waiting"
  /\ oneshot # {}
  /\ replies' = replies \cup oneshot
  /\ oneshot' = {}
  /\ task' = "receiving"
  /\ UNCHANGED <<serving, datagrams, server, queue, channel_map, servers, clientVars,
                 httpVars>>

\* An error of send_to ends the task, for good.
SendFails ==
  /\ "send" \in Faults
  /\ task = "waiting"
  /\ oneshot # {}
  /\ oneshot' = {}
  /\ task' = "dead"
  /\ UNCHANGED <<serving, netVars, server, queue, channel_map, servers, clientVars,
                 httpVars>>

\* The reply's sender was dropped with its Get: r.await is an error, which the
\* task passes over.
NoReply ==
  /\ task = "waiting"
  /\ oneshot = {} /\ \A i \in 1 .. Len(queue) : queue[i].kind # "Get"
  /\ task' = "receiving"
  /\ UNCHANGED <<serving, netVars, serverVars, clientVars, httpVars>>

---------------------------------------------------------------------------
(***************************************************************************)
(* The server loop.                                                        *)
(***************************************************************************)
Take(kind) ==
  /\ server = "running"
  /\ queue # <<>> /\ Head(queue).kind = kind
  /\ queue' = Tail(queue)

\* MUTANT of Seen: the sender of a message is not remembered.
SeenNever(addr) == UNCHANGED servers

\* Every message makes its sender known.
Seen(addr) == servers' = [servers EXCEPT ![addr] = 0]

\* MUTANT of Fresh: an entry is fresh for as long as it is there.
FreshAlways(e) == e.addr # None

\* timestamp - last_timestamp < 10
Fresh(e) == e.addr # None /\ e.age < Timeout

HandleSet ==
  /\ Take("Set")
  /\ Seen(Head(queue).from)
  /\ channel_map' = [channel_map EXCEPT ![Head(queue).name] =
                       [addr |-> Head(queue).from, age |-> 0]]
  /\ UNCHANGED <<serving, netVars, task, server, oneshot, clientVars, httpVars>>

HandleDelete ==
  /\ Take("Delete")
  /\ Seen(Head(queue).from)
  /\ channel_map' = [channel_map EXCEPT ![Head(queue).name] = NoEntry]
  /\ UNCHANGED <<serving, netVars, task, server, oneshot, clientVars, httpVars>>

\* MUTANT of HandleGet: the reply names the asker's address.
HandleGetEchoes ==
  /\ Take("Get")
  /\ Seen(Head(queue).from)
  /\ LET n == Head(queue).name
         e == channel_map[n]
     IN  IF Fresh(e)
         THEN /\ oneshot' = {[to |-> Head(queue).from, addr |-> Head(queue).from]}
              /\ UNCHANGED channel_map
         ELSE /\ oneshot' = {[to |-> Head(queue).from, addr |-> None]}
              /\ channel_map' = [channel_map EXCEPT ![n] = NoEntry]
  /\ UNCHANGED <<serving, netVars, task, server, clientVars, httpVars>>

\* MUTANT of HandleGet: a stale entry is removed, and still answered.
HandleGetStale ==
  /\ Take("Get")
  /\ Seen(Head(queue).from)
  /\ LET n == Head(queue).name
         e == channel_map[n]
     IN  /\ oneshot' = {[to |-> Head(queue).from, addr |-> e.addr]}
         /\ channel_map' = IF Fresh(e) THEN channel_map
                           ELSE [channel_map EXCEPT ![n] = NoEntry]
  /\ UNCHANGED <<serving, netVars, task, server, clientVars, httpVars>>

\* A stale entry is removed only when somebody asks for it.
HandleGet ==
  /\ Take("Get")
  /\ Seen(Head(queue).from)
  /\ LET n == Head(queue).name
         e == channel_map[n]
     IN  IF Fresh(e)
         THEN /\ oneshot' = {[to |-> Head(queue).from, addr |-> e.addr]}
              /\ UNCHANGED channel_map
         ELSE /\ oneshot' = {[to |-> Head(queue).from, addr |-> None]}
              /\ channel_map' = [channel_map EXCEPT ![n] = NoEntry]
  /\ UNCHANGED <<serving, netVars, task, server, clientVars, httpVars>>

\* A query of the HTTP service joins the same queue.
Query(q) ==
  /\ q \in Queries
  /\ Len(queue) < MaxQueue
  /\ Sent(QueryMsg(q))
  /\ UNCHANGED <<serving, netVars, task, server, oneshot, channel_map, servers,
                 clientVars, httpVars>>

\* The addresses heard of lately ...
HandleGetServers ==
  /\ Take("GetServers")
  /\ hosts' = {a \in Addresses : servers[a] # None /\ servers[a] # Timeout}
  /\ UNCHANGED <<serving, netVars, task, server, oneshot, channel_map, servers,
                 clientVars, apps>>

\* ... and the whole map, stale entries and all.
HandleGetAppsMap ==
  /\ Take("GetAppsMap")
  /\ apps' = {[name |-> n, entry |-> channel_map[n]] :
                n \in {m \in Names : channel_map[m].addr # None}}
  /\ UNCHANGED <<serving, netVars, task, server, oneshot, channel_map, servers,
                 clientVars, hosts>>

\* A panic ends the loop: the clock is before 1970 (duration_since), or behind a
\* timestamp that is subtracted (where a build checks overflow).  The queue is
\* dropped, the senders of its replies with it; the maps are read no more.
ServerPanics ==
  /\ "panic" \in Faults
  /\ server = "running"
  /\ queue # <<>>
  /\ server' = "dead"
  /\ queue' = <<>>
  /\ UNCHANGED <<serving, netVars, task, oneshot, channel_map, servers, clientVars,
                 httpVars>>

Older(age) == IF age < Timeout THEN age + 1 ELSE age

\* A second passes.
Tick ==
  /\ channel_map' = [n \in Names |->
       IF channel_map[n].addr = None THEN NoEntry
       ELSE [channel_map[n] EXCEPT !.age = Older(@)]]
  /\ servers' = [a \in Addresses |->
       IF servers[a] = None THEN None ELSE Older(servers[a])]
  /\ UNCHANGED <<serving, netVars, task, server, queue, oneshot, clientVars, httpVars>>

---------------------------------------------------------------------------
ServerLoop ==
  HandleSet \/ HandleDelete \/ HandleGet \/ HandleGetServers \/ HandleGetAppsMap

Receive(m) == ReceiveUpdate(m) \/ ReceiveGet(m)

Next ==
  \/ \E o \in Origins : Heartbeat(o) \/ Stop(o) \/ Crash(o) \/ \E n \in Names : Start(o, n)
  \/ \E c \in Clients : Ask(c)
  \/ \E r \in replies : Accept(r)
  \/ Lose
  \/ \E m \in datagrams : Receive(m)
  \/ ReceiveFails \/ SendReply \/ SendFails \/ NoReply
  \/ ServerLoop \/ ServerPanics
  \/ \E q \in Queries : Query(q)
  \/ Tick

Spec == Init /\ [][Next]_vars

\* The register's tasks are polled, datagrams of a kind that are sent again and
\* again get through, channels that have packets send heartbeats (and not only
\* when the bound on the queue keeps them from being read), time passes.
FairSpec ==
  /\ Spec
  /\ WF_vars(ServerLoop) /\ WF_vars(SendReply) /\ WF_vars(NoReply)
  /\ \A m \in Datagram : SF_vars(Receive(m))
  /\ \A r \in Reply : WF_vars(Accept(r))
  /\ \A o \in Origins : SF_vars(Len(queue) < MaxQueue /\ Heartbeat(o))
  /\ WF_vars(Tick)

---------------------------------------------------------------------------
(***************************************************************************)
(* Properties.                                                             *)
(***************************************************************************)

\* For its clients the register is a table of leases: whatever the order, the
\* loss or the duplication of datagrams, an answer is what the table held at
\* one moment since the question, and an entry kept past its time (it is only
\* removed when somebody asks) is as good as gone.
Lease(e) ==
  IF Fresh(e) THEN [holder |-> e.addr, age |-> e.age] ELSE [holder |-> None, age |-> 0]

Offers(c) == {r.addr : r \in {x \in replies \cup oneshot : x.to = c}}

Leases == INSTANCE LeaseTable WITH
  lease <- [n \in Names |-> Lease(channel_map[n])],
  offers <- [c \in Clients |-> Offers(c)]

ImplementsLeases == Leases!Spec

\* An origin that holds a name is among the servers, and heard of at least as
\* lately.
HolderIsServer ==
  \A n \in Names :
    LET e == channel_map[n]
    IN  e.addr # None => servers[e.addr] # None /\ servers[e.addr] <= e.age

\* The register's tasks end of errors and panics, and nothing restarts them.
Deaf == task = "dead" \/ server = "dead"

\* A stream that goes on is found again and again, whatever is lost and whichever
\* channel's Delete came in between, for as long as both tasks of the register go on.
FoundAgain ==
  \A o \in Origins, n \in Names :
    []<>(serving[o] = n => Fresh(channel_map[n]) \/ Deaf)

\* A stream that has ended everywhere comes not to be found, even when its
\* Delete was lost or its origin crashed.
EndedIsForgotten ==
  \A n \in Names :
    <>[](\A o \in Origins : serving[o] # n) => <>[]~Fresh(channel_map[n])

\* The UDP task, which reads nothing while it waits for the server loop, comes back
\* to its socket however many Gets and queries there are, whether or not the name that
\* was asked for is found, and even when the loop panics with the Get in its queue or
\* is gone before it is sent: only an error of its socket ends it.
Listening == []<>(task \in {"receiving", "dead"})

\* What Listening rests on, at every moment: the Get that the UDP task waits for is
\* in the queue or has its reply there, or went with the server loop.  And no question
\* gets lost in the register: without loss in the network, and while both tasks go on,
\* a client without an answer has its Get on the way or in the queue, or the reply on
\* its way.
NobodyForgotten ==
  /\ task = "waiting" =>
       \/ oneshot # {}
       \/ \E i \in 1 .. Len(queue) : queue[i].kind = "Get"
       \/ server = "dead"
  /\ "loss" \notin Faults /\ ~Deaf =>
       \A c \in Clients : client[c] = "asked" =>
         LET m == GetMsg(c, wanted[c])
         IN  \/ m \in datagrams
             \/ \E i \in 1 .. Len(queue) : queue[i] = m
             \/ \E r \in oneshot \cup replies : r.to = c

\* README: /channels_info answers with the streams that are alive.
AppsAreAlive == \A a \in apps : Fresh(a.entry)
=============================================================================
