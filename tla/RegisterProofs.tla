--------------------------- MODULE RegisterProofs ---------------------------
(***************************************************************************)
(* Theorems about Register, for any names, addresses, bounds and faults:   *)
(* in particular, that it implements LeaseTable.                           *)
(***************************************************************************)
EXTENDS Register, TLAPS

(***************************************************************************)
(* The inductive invariant.                                                *)
(***************************************************************************)

\* A Get on its way, or in the queue, is for what its client has asked.
Wanted(m) == m.kind = "Get" => client[m.from] # "idle" /\ m.name = wanted[m.from]

Asked ==
  /\ \A m \in datagrams : Wanted(m)
  /\ \A i \in 1 .. Len(queue) : Wanted(queue[i])

\* The UDP task waits for one Get at a time, whose reply is not there yet.
OneGet ==
  /\ \A i \in 1 .. Len(queue) :
       queue[i].kind = "Get" => task = "waiting" /\ oneshot = {}
  /\ \A i, j \in 1 .. Len(queue) :
       queue[i].kind = "Get" /\ queue[j].kind = "Get" => i = j
  /\ oneshot # {} => task = "waiting"

Inv == TypeOK /\ Asked /\ OneGet /\ HolderIsServer

(***************************************************************************)
(* Queues.                                                                 *)
(***************************************************************************)

\* What the server loop takes, and what it leaves.
LEMMA HeadAndTail ==
  ASSUME queue \in Seq(Message), queue # <<>>
  PROVE  /\ Head(queue) \in Message /\ Head(queue) = queue[1]
         /\ 1 \in 1 .. Len(queue)
         /\ Tail(queue) \in Seq(Message) /\ Len(Tail(queue)) = Len(queue) - 1
         /\ Len(queue) \in Nat
         /\ \A i \in 1 .. Len(queue) - 1 : Tail(queue)[i] = queue[i + 1]
OBVIOUS

\* What joins the queue comes last.
LEMMA Joined ==
  ASSUME queue \in Seq(Message), NEW m \in Message
  PROVE  /\ Append(queue, m) \in Seq(Message)
         /\ Len(Append(queue, m)) = Len(queue) + 1 /\ Len(queue) \in Nat
         /\ \A i \in 1 .. Len(queue) : Append(queue, m)[i] = queue[i]
         /\ Append(queue, m)[Len(queue) + 1] = m
OBVIOUS

\* A message by its kind.
LEMMA Kinds ==
  ASSUME NEW m \in Message
  PROVE  /\ m.kind \in {"Set", "Delete"} => m.name \in Names /\ m.from \in Origins
         /\ m.kind = "Get" => m.name \in Names /\ m.from \in Clients
         /\ m.kind \in {"Set", "Delete", "Get"} => m.from \in Addresses
BY QueriesAssumption DEF Message, Datagram, QueryMsg, Addresses

\* The addresses of origins are not None.
LEMMA NotNone ==
  None \notin Addresses /\ None \notin Age /\ 0 \in Age /\ Timeout \in Age /\ Timeout \in Nat
BY AddressAssumption, TimeoutAssumption DEF Addresses, Age

\* An age grows, and stays an age.
LEMMA OlderAge ==
  ASSUME NEW a \in Age
  PROVE  /\ Older(a) \in Age /\ a <= Older(a)
         /\ a + 1 < Timeout => Older(a) = a + 1
         /\ Older(a) < Timeout <=> a + 1 < Timeout
         /\ \A b \in Age : b <= a => Older(b) <= Older(a)
BY TimeoutAssumption DEF Older, Age

(***************************************************************************)
(* Type correctness.                                                       *)
(***************************************************************************)

\* Every step keeps the types.
LEMMA TypeStep ==
  ASSUME TypeOK, [Next]_vars
  PROVE  TypeOK'
<1> USE DEF netVars, serverVars, clientVars, httpVars
<1>1. ASSUME NEW o \in Origins, NEW n \in Names, Start(o, n) PROVE TypeOK'
  <2>1. SetMsg(o, n) \in Datagram
    BY DEF SetMsg, Datagram
  <2> QED
    BY <1>1, <2>1 DEF Start, TypeOK
<1>2. ASSUME NEW o \in Origins, Heartbeat(o) PROVE TypeOK'
  <2>1. SetMsg(o, serving[o]) \in Datagram
    BY <1>2 DEF Heartbeat, SetMsg, Datagram, TypeOK
  <2> QED
    BY <1>2, <2>1 DEF Heartbeat, TypeOK
<1>3. ASSUME NEW o \in Origins, Stop(o) PROVE TypeOK'
  <2>1. DeleteMsg(o, serving[o]) \in Datagram
    BY <1>3 DEF Stop, DeleteMsg, Datagram, TypeOK
  <2> QED
    BY <1>3, <2>1 DEF Stop, TypeOK
<1>4. ASSUME NEW o \in Origins, Crash(o) PROVE TypeOK'
  BY <1>4 DEF Crash, TypeOK
<1>5. ASSUME NEW c \in Clients, Ask(c) PROVE TypeOK'
  <2>1. GetMsg(c, wanted[c]) \in Datagram
    BY DEF GetMsg, Datagram, TypeOK
  <2> QED
    BY <1>5, <2>1 DEF Ask, TypeOK
<1>6. ASSUME NEW r \in replies, Accept(r) PROVE TypeOK'
  <2>1. r.to \in Clients /\ r.addr \in Origins \cup {None}
    BY DEF TypeOK, Reply
  <2> QED
    BY <1>6, <2>1 DEF Accept, TypeOK
<1>7. CASE Lose
  BY <1>7 DEF Lose, TypeOK
<1>8. ASSUME NEW m \in datagrams, Receive(m) PROVE TypeOK'
  <2>1. m \in Message
    BY DEF Message, TypeOK
  <2>2. queue' \in Seq(Message)
    BY <1>8, <2>1, Joined DEF Receive, ReceiveUpdate, ReceiveGet, Sent, TypeOK
  <2> QED
    BY <1>8, <2>2 DEF Receive, ReceiveUpdate, ReceiveGet, Read, TypeOK
<1>9. CASE ReceiveFails \/ SendReply \/ SendFails \/ NoReply
  BY <1>9 DEF ReceiveFails, SendReply, SendFails, NoReply, TypeOK
<1>10. ASSUME NEW q \in Queries, Query(q) PROVE TypeOK'
  <2>1. QueryMsg(q) \in Message
    BY DEF Message
  <2>2. queue' \in Seq(Message)
    BY <1>10, <2>1, Joined DEF Query, Sent, TypeOK
  <2> QED
    BY <1>10, <2>2 DEF Query, TypeOK
<1>11. CASE ServerLoop
  <2> DEFINE h == Head(queue)
  <2>1. h \in Message /\ queue' \in Seq(Message)
    BY <1>11, HeadAndTail
       DEF ServerLoop, HandleSet, HandleDelete, HandleGet, HandleGetServers,
           HandleGetAppsMap, Take, TypeOK
  <2>2. CASE HandleSet
    <3>1. h.name \in Names /\ h.from \in Origins /\ h.from \in Addresses
      BY <2>1, <2>2, Kinds DEF HandleSet, Take
    <3>2. [addr |-> h.from, age |-> 0] \in Entry
      BY <3>1, NotNone DEF Entry
    <3> QED
      BY <2>1, <2>2, <3>1, <3>2, NotNone DEF HandleSet, Seen, TypeOK
  <2>3. CASE HandleDelete
    <3>1. h.name \in Names /\ h.from \in Addresses
      BY <2>1, <2>3, Kinds DEF HandleDelete, Take
    <3>2. NoEntry \in Entry
      BY NotNone DEF Entry, NoEntry
    <3> QED
      BY <2>1, <2>3, <3>1, <3>2, NotNone DEF HandleDelete, Seen, TypeOK
  <2>4. CASE HandleGet
    <3>1. h.name \in Names /\ h.from \in Clients /\ h.from \in Addresses
      BY <2>1, <2>4, Kinds DEF HandleGet, Take
    <3>2. NoEntry \in Entry /\ channel_map[h.name].addr \in Origins \cup {None}
      BY <3>1, NotNone DEF Entry, NoEntry, TypeOK
    <3>3. oneshot' \subseteq Reply
      BY <2>4, <3>1, <3>2 DEF HandleGet, Reply
    <3>4. channel_map' \in [Names -> Entry]
      BY <2>4, <3>1, <3>2 DEF HandleGet, TypeOK
    <3> QED
      BY <2>1, <2>4, <3>1, <3>3, <3>4, NotNone DEF HandleGet, Seen, TypeOK
  <2>5. CASE HandleGetServers
    BY <2>1, <2>5 DEF HandleGetServers, TypeOK
  <2>6. CASE HandleGetAppsMap
    BY <2>1, <2>6 DEF HandleGetAppsMap, TypeOK
  <2> QED
    BY <1>11, <2>2, <2>3, <2>4, <2>5, <2>6 DEF ServerLoop
<1>12. CASE Tick
  <2>1. \A n \in Names : channel_map'[n] \in Entry
    <3> TAKE n \in Names
    <3>1. channel_map[n] \in Entry /\ NoEntry \in Entry
      BY NotNone DEF TypeOK, Entry, NoEntry
    <3>2. Older(channel_map[n].age) \in Age
      BY <3>1, OlderAge DEF Entry
    <3> QED
      BY <1>12, <3>1, <3>2 DEF Tick, Entry
  <2>2. channel_map' \in [Names -> Entry]
    BY <1>12, <2>1 DEF Tick
  <2>3. servers' \in [Addresses -> Age \cup {None}]
    BY <1>12, OlderAge DEF Tick, TypeOK
  <2> QED
    BY <1>12, <2>2, <2>3 DEF Tick, TypeOK
<1>13. CASE UNCHANGED vars
  BY <1>13 DEF vars, TypeOK
<1>14. CASE ServerPanics
  BY <1>14 DEF ServerPanics, TypeOK
<1> QED
  BY <1>1, <1>2, <1>3, <1>4, <1>5, <1>6, <1>7, <1>8, <1>9, <1>10, <1>11, <1>12,
     <1>13, <1>14
     DEF Next

(***************************************************************************)
(* The one Get.                                                            *)
(***************************************************************************)

\* What Wanted says of a message only depends on the clients.
LEMMA WantedKept ==
  ASSUME NEW m \in Message, TypeOK, Wanted(m), wanted' = wanted,
         \A c \in Clients : client[c] # "idle" => client'[c] # "idle"
  PROVE  Wanted(m)'
BY Kinds DEF Wanted

\* A message in the queue is a message.
LEMMA QueuedMessage ==
  ASSUME TypeOK
  PROVE  /\ \A i \in 1 .. Len(queue) : queue[i] \in Message
         /\ \A m \in datagrams : m \in Message
BY DEF TypeOK, Message

\* There is no Get in the queue, for instance when the UDP task waits for none.
NoGet == \A i \in 1 .. Len(queue) : queue[i].kind # "Get"

\* Steps that leave the queue alone.
LEMMA QueueAlone ==
  ASSUME TypeOK, Asked, OneGet, queue' = queue, wanted' = wanted,
         \A c \in Clients : client[c] # "idle" => client'[c] # "idle",
         \A m \in datagrams' : m \in datagrams \/ (m \in Message /\ Wanted(m)'),
         \/ task' = task /\ oneshot' = oneshot
         \/ oneshot # {} /\ oneshot' = {}
         \/ NoGet /\ oneshot' = {}
  PROVE  Asked' /\ OneGet'
<1>1. Asked'
  <2>1. ASSUME NEW i \in 1 .. Len(queue) PROVE Wanted(queue[i])'
    <3>1. PICK m \in Message : m = queue[i] /\ Wanted(m)
      BY QueuedMessage DEF Asked
    <3>2. Wanted(m)'
      BY <3>1, WantedKept
    <3>3. m = queue'[i]
      BY <3>1
    <3> QED
      BY <3>1, <3>2, <3>3
  <2>2. ASSUME NEW m \in datagrams' PROVE Wanted(m)'
    BY WantedKept, QueuedMessage DEF Asked
  <2> QED
    BY <2>1, <2>2 DEF Asked
<1> QED
  BY <1>1 DEF OneGet, NoGet

\* A message that joins the queue.
LEMMA QueueJoined ==
  ASSUME TypeOK, Asked, OneGet, NEW m \in Message, Wanted(m), queue' = Append(queue, m),
         wanted' = wanted, client' = client, oneshot' = oneshot,
         \A x \in datagrams' : x \in datagrams,
         \/ m.kind # "Get" /\ task' = task
         \/ task = "receiving" /\ task' = "waiting"
  PROVE  Asked' /\ OneGet'
<1>0. /\ Len(queue') = Len(queue) + 1 /\ Len(queue) \in Nat
      /\ \A i \in 1 .. Len(queue) : queue'[i] = queue[i]
      /\ queue'[Len(queue) + 1] = m
  BY Joined DEF TypeOK
<1>1. ASSUME NEW i \in 1 .. Len(queue') PROVE i \in 1 .. Len(queue) \/ i = Len(queue) + 1
  BY <1>0
<1>2. Asked'
  <2>1. \A x : Wanted(x) <=> Wanted(x)'
    BY DEF Wanted
  <2> QED
    BY <1>0, <1>1, <2>1 DEF Asked
<1>3. CASE m.kind # "Get" /\ task' = task
  BY <1>0, <1>1, <1>2, <1>3 DEF OneGet
<1>4. CASE task = "receiving" /\ task' = "waiting"
  <2>1. \A i \in 1 .. Len(queue) : queue[i].kind # "Get"
    BY <1>4 DEF OneGet
  <2>2. oneshot = {}
    BY <1>4 DEF OneGet
  <2> QED
    BY <1>0, <1>1, <1>2, <1>4, <2>1, <2>2 DEF OneGet
<1> QED
  BY <1>2, <1>3, <1>4

\* The message that is taken from the queue.
LEMMA QueueTaken ==
  ASSUME TypeOK, Asked, OneGet, queue # <<>>, queue' = Tail(queue),
         wanted' = wanted, client' = client, task' = task, datagrams' = datagrams,
         Head(queue).kind = "Get" \/ oneshot' = oneshot
  PROVE  Asked' /\ OneGet'
<1>0. /\ Len(queue') = Len(queue) - 1 /\ Len(queue) \in Nat
      /\ \A i \in 1 .. Len(queue) - 1 : queue'[i] = queue[i + 1]
      /\ Head(queue) = queue[1] /\ 1 \in 1 .. Len(queue)
  BY HeadAndTail DEF TypeOK
<1>1. ASSUME NEW i \in 1 .. Len(queue')
      PROVE  i + 1 \in 1 .. Len(queue) /\ queue'[i] = queue[i + 1] /\ i + 1 # 1
  BY <1>0
<1>2. Asked'
  <2>1. \A x : Wanted(x) <=> Wanted(x)'
    BY DEF Wanted
  <2> QED
    BY <1>1, <2>1 DEF Asked
<1>3. CASE Head(queue).kind = "Get"
  <2>1. \A i \in 1 .. Len(queue') : queue'[i].kind # "Get"
    BY <1>0, <1>1, <1>2, <1>3 DEF OneGet
  <2>2. task' = "waiting"
    BY <1>0, <1>3 DEF OneGet
  <2> QED
    BY <2>1, <2>2, <1>2 DEF OneGet
<1>4. CASE oneshot' = oneshot
  <2>1. \A i, j \in 1 .. Len(queue') : i + 1 = j + 1 => i = j
    BY <1>0
  <2> QED
    BY <1>1, <1>2, <1>4, <2>1 DEF OneGet
<1> QED
  BY <1>3, <1>4

\* Every step keeps the Get the only one.
LEMMA AskedStep ==
  ASSUME TypeOK, Asked, OneGet, [Next]_vars
  PROVE  Asked' /\ OneGet'
<1> USE DEF netVars, serverVars, clientVars, httpVars
<1>1. ASSUME NEW o \in Origins, NEW n \in Names, Start(o, n) PROVE Asked' /\ OneGet'
  <2>1. SetMsg(o, n) \in Message /\ Wanted(SetMsg(o, n))'
    BY DEF SetMsg, Wanted, Message, Datagram
  <2> QED
    BY <1>1, <2>1, QueueAlone DEF Start
<1>11. ASSUME NEW o \in Origins, Heartbeat(o) \/ Stop(o) \/ Crash(o)
       PROVE  Asked' /\ OneGet'
  <2>1. ASSUME NEW m \in datagrams', m \notin datagrams PROVE m \in Message /\ Wanted(m)'
    <3>1. m \in {SetMsg(o, serving[o]), DeleteMsg(o, serving[o])} /\ serving[o] \in Names
      BY <1>11, <2>1 DEF Heartbeat, Stop, Crash, TypeOK
    <3> QED
      BY <3>1 DEF SetMsg, DeleteMsg, Wanted, Message, Datagram
  <2> QED
    BY <1>11, <2>1, QueueAlone DEF Heartbeat, Stop, Crash
<1>2. ASSUME NEW c \in Clients, Ask(c) PROVE Asked' /\ OneGet'
  <2>1. /\ client' = [client EXCEPT ![c] = "asked"] /\ wanted' = wanted
        /\ datagrams' = datagrams \cup {GetMsg(c, wanted[c])}
        /\ client \in [Clients -> {"idle", "asked", "answered"}]
        /\ wanted[c] \in Names
    BY <1>2 DEF Ask, TypeOK
  <2>2. GetMsg(c, wanted[c]) \in Message
    BY <2>1 DEF GetMsg, Message, Datagram
  <2>3. PICK m \in Message : m = GetMsg(c, wanted[c])
    BY <2>2
  <2>4. Wanted(m)'
    BY <2>1, <2>3 DEF GetMsg, Wanted
  <2>5. \A d \in Clients : client[d] # "idle" => client'[d] # "idle"
    BY <2>1
  <2> QED
    BY <1>2, <2>1, <2>3, <2>4, <2>5, QueueAlone DEF Ask
<1>3. ASSUME NEW r \in replies, Accept(r) PROVE Asked' /\ OneGet'
  <2>1. client \in [Clients -> {"idle", "asked", "answered"}]
    BY DEF TypeOK
  <2> QED
    BY <1>3, <2>1, QueueAlone DEF Accept
<1>4. CASE Lose
  BY <1>4, QueueAlone DEF Lose
<1>5. ASSUME NEW m \in datagrams, Receive(m) PROVE Asked' /\ OneGet'
  <2>1. m \in Message /\ Wanted(m)
    BY QueuedMessage DEF Asked
  <2>2. CASE server = "running"
    BY <1>5, <2>1, <2>2, QueueJoined DEF Receive, ReceiveUpdate, ReceiveGet, Read, Sent
  <2>3. CASE server # "running"
    <3>1. NoGet /\ oneshot = {}
      BY <1>5 DEF Receive, ReceiveUpdate, ReceiveGet, OneGet, NoGet
    <3> QED
      BY <1>5, <2>3, <3>1, QueueAlone DEF Receive, ReceiveUpdate, ReceiveGet, Read, Sent
  <2> QED
    BY <2>2, <2>3
<1>6. CASE SendReply \/ SendFails
  BY <1>6, QueueAlone DEF SendReply, SendFails
<1>12. CASE ReceiveFails \/ NoReply
  <2>1. NoGet /\ oneshot = {}
    BY <1>12 DEF ReceiveFails, NoReply, OneGet, NoGet
  <2> QED
    BY <1>12, <2>1, QueueAlone DEF ReceiveFails, NoReply
<1>13. CASE ServerPanics
  BY <1>13 DEF ServerPanics, Asked, OneGet, Wanted
<1>7. ASSUME NEW q \in Queries, Query(q) PROVE Asked' /\ OneGet'
  <2>1. QueryMsg(q) \in Message /\ QueryMsg(q).kind # "Get"
    BY QueriesAssumption DEF Message, QueryMsg
  <2>2. Wanted(QueryMsg(q))
    BY <2>1 DEF Wanted
  <2>3. CASE server = "running"
    BY <1>7, <2>1, <2>2, <2>3, QueueJoined DEF Query, Sent
  <2>4. CASE server # "running"
    BY <1>7, <2>4, QueueAlone DEF Query, Sent
  <2> QED
    BY <2>3, <2>4
<1>8. CASE ServerLoop
  BY <1>8, QueueTaken
     DEF ServerLoop, HandleSet, HandleDelete, HandleGet, HandleGetServers,
         HandleGetAppsMap, Take
<1>9. CASE Tick
  BY <1>9, QueueAlone DEF Tick
<1>10. CASE UNCHANGED vars
  BY <1>10, QueueAlone DEF vars
<1> QED
  BY <1>1, <1>2, <1>3, <1>4, <1>5, <1>6, <1>7, <1>8, <1>9, <1>10, <1>11, <1>12, <1>13
     DEF Next

(***************************************************************************)
(* The two maps.                                                           *)
(***************************************************************************)

\* A holder is known as a server.
LEMMA HolderStep ==
  ASSUME TypeOK, HolderIsServer, [Next]_vars
  PROVE  HolderIsServer'
<1> USE DEF netVars, serverVars, clientVars, httpVars
<1>0. /\ channel_map \in [Names -> Entry] /\ servers \in [Addresses -> Age \cup {None}]
      /\ \A n \in Names : channel_map[n].addr \in Origins \cup {None}
                          /\ channel_map[n].age \in Age
      /\ Origins \subseteq Addresses
  BY DEF TypeOK, Entry, Addresses
<1>1. CASE channel_map' = channel_map /\ servers' = servers
  BY <1>1 DEF HolderIsServer
<1>2. ASSUME NEW a \in Addresses, servers' = [servers EXCEPT ![a] = 0],
             NEW n \in Names, NEW e \in {NoEntry, [addr |-> a, age |-> 0], channel_map[n]},
             channel_map' = [channel_map EXCEPT ![n] = e]
      PROVE  HolderIsServer'
  <2>1. servers'[a] = 0 /\ \A b \in Addresses : b # a => servers'[b] = servers[b]
    BY <1>0, <1>2
  <2>2. ASSUME NEW m \in Names, channel_map'[m].addr # None
        PROVE  /\ servers'[channel_map'[m].addr] # None
               /\ servers'[channel_map'[m].addr] <= channel_map'[m].age
    <3>1. CASE channel_map'[m] = channel_map[m]
      <4>1. /\ channel_map[m].addr \in Addresses /\ channel_map[m].age \in Age
            /\ servers[channel_map[m].addr] # None
            /\ servers[channel_map[m].addr] <= channel_map[m].age
        BY <1>0, <2>2, <3>1 DEF HolderIsServer
      <4>2. CASE channel_map[m].addr = a
        BY <2>1, <3>1, <4>1, <4>2, NotNone DEF Age
      <4>3. CASE channel_map[m].addr # a
        BY <2>1, <3>1, <4>1, <4>3
      <4> QED
        BY <4>2, <4>3
    <3>2. CASE channel_map'[m] = [addr |-> a, age |-> 0]
      <4>1. channel_map'[m].addr = a /\ channel_map'[m].age = 0
        BY <3>2
      <4> QED
        BY <2>1, <4>1, NotNone
    <3>3. CASE channel_map'[m] = NoEntry
      BY <2>2, <3>3 DEF NoEntry
    <3> QED
      BY <1>0, <1>2, <3>1, <3>2, <3>3
  <2> QED
    BY <2>2 DEF HolderIsServer
<1>3. CASE ServerLoop
  <2> DEFINE h == Head(queue)
  <2>1. h \in Message
    BY <1>3, HeadAndTail
       DEF ServerLoop, HandleSet, HandleDelete, HandleGet, HandleGetServers,
           HandleGetAppsMap, Take, TypeOK
  <2>2. CASE HandleSet \/ HandleDelete \/ HandleGet
    <3>1. h.name \in Names /\ h.from \in Addresses
      BY <2>1, <2>2, Kinds DEF HandleSet, HandleDelete, HandleGet, Take
    <3>2. /\ servers' = [servers EXCEPT ![h.from] = 0]
          /\ \E e \in {NoEntry, [addr |-> h.from, age |-> 0], channel_map[h.name]} :
               channel_map' = [channel_map EXCEPT ![h.name] = e]
      BY <1>0, <2>2, <3>1 DEF HandleSet, HandleDelete, HandleGet, Seen
    <3> QED
      BY <1>2, <3>1, <3>2
  <2>3. CASE HandleGetServers \/ HandleGetAppsMap
    BY <1>1, <2>3 DEF HandleGetServers, HandleGetAppsMap
  <2> QED
    BY <1>3, <2>2, <2>3 DEF ServerLoop
<1>4. CASE Tick
  <2>1. ASSUME NEW n \in Names, channel_map'[n].addr # None
        PROVE  /\ servers'[channel_map'[n].addr] # None
               /\ servers'[channel_map'[n].addr] <= channel_map'[n].age
    <3> DEFINE a == channel_map[n].addr
    <3>1. channel_map[n].addr # None
      BY <1>4, <2>1 DEF Tick, NoEntry
    <3>2. /\ channel_map'[n].addr = a
          /\ channel_map'[n].age = Older(channel_map[n].age)
      <4>1. channel_map[n] \in Entry
        BY <1>0
      <4>2. channel_map'[n] = [channel_map[n] EXCEPT !.age = Older(@)]
        BY <1>4, <3>1 DEF Tick
      <4> QED
        BY <4>1, <4>2 DEF Entry
    <3>3. a \in Addresses /\ servers[a] \in Age /\ servers[a] <= channel_map[n].age
      BY <1>0, <3>1 DEF HolderIsServer
    <3>4. servers'[a] = Older(servers[a])
      BY <1>4, <3>3, NotNone DEF Tick, Age
    <3> QED
      BY <1>0, <3>2, <3>3, <3>4, OlderAge, NotNone DEF Age
  <2> QED
    BY <2>1 DEF HolderIsServer
<1> QED
  BY <1>1, <1>3, <1>4
     DEF Next, Start, Heartbeat, Stop, Crash, Ask, Accept, Lose, Receive, ReceiveUpdate,
         ReceiveGet, ReceiveFails, SendReply, SendFails, NoReply, ServerPanics, Query,
         vars

(***************************************************************************)
(* Refinement.                                                             *)
(***************************************************************************)

\* A step that changes no entry, no offer and no client is a stutter.
LEMMA Stutter ==
  ASSUME channel_map' = channel_map, replies' \cup oneshot' = replies \cup oneshot,
         client' = client, wanted' = wanted, answer' = answer
  PROVE  UNCHANGED Leases!vars
<1>1. \A n \in Names : Lease(channel_map'[n]) = Lease(channel_map[n])
  BY DEF Lease
<1>2. \A c \in Clients : Offers(c)' = Offers(c)
  BY DEF Offers
<1>3. /\ [n \in Names |-> Lease(channel_map'[n])] = [n \in Names |-> Lease(channel_map[n])]
      /\ [c \in Clients |-> Offers(c)'] = [c \in Clients |-> Offers(c)]
  BY <1>1, <1>2
<1> QED
  BY <1>3 DEF Leases!vars, Lease, Fresh

\* An entry that is set or removed changes the lease of its name.
LEMMA EntrySet ==
  ASSUME TypeOK, NEW n \in Names, NEW e \in Entry,
         channel_map' = [channel_map EXCEPT ![n] = e]
  PROVE  [m \in Names |-> Lease(channel_map'[m])] =
         [[m \in Names |-> Lease(channel_map[m])] EXCEPT ![n] = Lease(e)]
BY DEF TypeOK

\* With a second more, a lease runs on or runs out.
LEMMA TickLease ==
  ASSUME NEW e \in Entry
  PROVE  LET older == IF e.addr = None THEN NoEntry ELSE [e EXCEPT !.age = Older(@)]
         IN  Lease(older) = IF Lease(e).holder # None /\ Lease(e).age + 1 < Timeout
                            THEN [Lease(e) EXCEPT !.age = @ + 1]
                            ELSE [holder |-> None, age |-> 0]
<1>1. /\ e = [addr |-> e.addr, age |-> e.age] /\ e.age \in Age
  BY DEF Entry
<1>2. CASE e.addr = None
  BY <1>2 DEF Lease, Fresh, NoEntry
<1>3. CASE e.addr # None
  <2>1. /\ [e EXCEPT !.age = Older(@)].addr = e.addr
        /\ [e EXCEPT !.age = Older(@)].age = Older(e.age)
    BY <1>1
  <2>2. CASE e.age + 1 < Timeout
    <3>1. Lease(e) = [holder |-> e.addr, age |-> e.age]
      BY <1>1, <1>3, <2>2, TimeoutAssumption DEF Lease, Fresh, Age
    <3>2. Lease([e EXCEPT !.age = Older(@)]) = [holder |-> e.addr, age |-> e.age + 1]
      BY <1>1, <1>3, <2>1, <2>2, OlderAge DEF Lease, Fresh
    <3> QED
      BY <1>3, <2>2, <3>1, <3>2
  <2>3. CASE ~(e.age + 1 < Timeout)
    <3>1. Lease([e EXCEPT !.age = Older(@)]) = [holder |-> None, age |-> 0]
      BY <1>1, <2>1, <2>3, OlderAge DEF Lease, Fresh
    <3>2. Lease(e).holder = None \/ Lease(e).age = e.age
      BY DEF Lease
    <3> QED
      BY <1>3, <2>3, <3>1, <3>2
  <2> QED
    BY <2>2, <2>3
<1> QED
  BY <1>2, <1>3

\* Every step of the register is a step of the table, or none.
LEMMA TableStep ==
  ASSUME Inv, Inv', [Next]_vars
  PROVE  [Leases!Next]_(Leases!vars)
<1> USE DEF netVars, serverVars, clientVars, httpVars
<1>0. TypeOK /\ TypeOK'
  BY DEF Inv
<1>1. ASSUME NEW o \in Origins, \/ Heartbeat(o) \/ Stop(o) \/ Crash(o)
                               \/ \E n \in Names : Start(o, n)
      PROVE  UNCHANGED Leases!vars
  BY <1>1, Stutter DEF Heartbeat, Stop, Crash, Start
<1>2. ASSUME NEW m \in datagrams, Receive(m) PROVE UNCHANGED Leases!vars
  BY <1>2, Stutter DEF Receive, ReceiveUpdate, ReceiveGet
<1>3. ASSUME NEW q \in Queries, Query(q) PROVE UNCHANGED Leases!vars
  BY <1>3, Stutter DEF Query
<1>4. CASE HandleGetServers \/ HandleGetAppsMap
  BY <1>4, Stutter DEF HandleGetServers, HandleGetAppsMap
<1>5. CASE SendReply
  <2>1. replies' \cup oneshot' = replies \cup oneshot
    BY <1>5 DEF SendReply
  <2> QED
    BY <1>5, <2>1, Stutter DEF SendReply
<1>6. CASE ReceiveFails \/ NoReply \/ ServerPanics \/ UNCHANGED vars
  BY <1>6, Stutter DEF ReceiveFails, NoReply, ServerPanics, vars
<1>7. CASE Lose \/ SendFails
  <2>1. /\ channel_map' = channel_map /\ client' = client /\ wanted' = wanted
        /\ answer' = answer /\ replies' \cup oneshot' \subseteq replies \cup oneshot
    BY <1>7 DEF Lose, SendFails
  <2>2. \A c \in Clients : Offers(c)' \subseteq Offers(c)
    BY <2>1 DEF Offers
  <2>3. \A c \in Clients : Offers(c)' \subseteq Origins \cup {None}
    BY <1>0 DEF TypeOK, Offers, Reply
  <2>4. Leases!Lose
    BY <2>1, <2>2, <2>3 DEF Leases!Lose
  <2> QED
    BY <2>4 DEF Leases!Next
<1>8. ASSUME NEW c \in Clients, Ask(c) PROVE Leases!Ask(c)
  <2>1. [d \in Clients |-> Offers(d)'] = [d \in Clients |-> Offers(d)]
    BY <1>8 DEF Ask, Offers
  <2> QED
    BY <1>8, <2>1 DEF Ask, Leases!Ask
<1>9. ASSUME NEW r \in replies, Accept(r) PROVE \E c \in Clients : Leases!Accept(c)
  <2>1. r \in Reply /\ r.to \in Clients
    BY <1>0 DEF TypeOK, Reply
  <2>2. r.addr \in Offers(r.to)
    BY DEF Offers
  <2>3. \/ [d \in Clients |-> Offers(d)'] = [d \in Clients |-> Offers(d)]
        \/ [d \in Clients |-> Offers(d)'] =
             [[d \in Clients |-> Offers(d)] EXCEPT ![r.to] = @ \ {r.addr}]
    <3>1. CASE r \in oneshot
      BY <1>9, <3>1 DEF Accept, Offers
    <3>2. CASE r \notin oneshot
      <4>1. \A x \in replies \cup oneshot : x.to = r.to /\ x.addr = r.addr => x = r
        BY <1>0, <2>1 DEF TypeOK, Reply
      <4>2. replies' \cup oneshot' = (replies \cup oneshot) \ {r}
        BY <1>9, <3>2 DEF Accept
      <4>3. Offers(r.to)' = Offers(r.to) \ {r.addr}
        BY <4>1, <4>2 DEF Offers
      <4>4. \A d \in Clients : d # r.to => Offers(d)' = Offers(d)
        BY <4>2 DEF Offers
      <4> QED
        BY <2>1, <4>3, <4>4
    <3> QED
      BY <3>1, <3>2
  <2>4. Leases!Accept(r.to)
    BY <1>9, <2>1, <2>2, <2>3 DEF Accept, Leases!Accept
  <2> QED
    BY <2>1, <2>4
<1>10. CASE HandleSet
  <2>1. Head(queue) \in Message /\ Head(queue).kind = "Set"
    BY <1>0, <1>10, HeadAndTail DEF HandleSet, Take, TypeOK
  <2>2. PICK n \in Names, o \in Origins : n = Head(queue).name /\ o = Head(queue).from
    BY <2>1, Kinds
  <2> DEFINE e == [addr |-> o, age |-> 0]
  <2>3. e \in Entry /\ o # None
    BY <2>2, NotNone DEF Entry, Addresses
  <2>4. Lease(e) = [holder |-> o, age |-> 0]
    BY <2>3, TimeoutAssumption DEF Lease, Fresh
  <2>5. channel_map' = [channel_map EXCEPT ![n] = e]
    BY <1>10, <2>2 DEF HandleSet
  <2>6. [c \in Clients |-> Offers(c)'] = [c \in Clients |-> Offers(c)]
    BY <1>10 DEF HandleSet, Offers
  <2> HIDE DEF e
  <2>7. [m \in Names |-> Lease(channel_map'[m])] =
        [[m \in Names |-> Lease(channel_map[m])] EXCEPT ![n] = [holder |-> o, age |-> 0]]
    BY <1>0, <2>3, <2>4, <2>5, EntrySet
  <2>8. Leases!Renew(n, o)
    BY <1>10, <2>6, <2>7 DEF HandleSet, Leases!Renew
  <2> QED
    BY <2>2, <2>8 DEF Leases!Next
<1>11. CASE HandleDelete
  <2>1. Head(queue) \in Message /\ Head(queue).kind = "Delete"
    BY <1>0, <1>11, HeadAndTail DEF HandleDelete, Take, TypeOK
  <2>2. PICK n \in Names : n = Head(queue).name
    BY <2>1, Kinds
  <2>3. NoEntry \in Entry /\ Lease(NoEntry) = [holder |-> None, age |-> 0]
    BY NotNone DEF Entry, NoEntry, Lease, Fresh
  <2>4. channel_map' = [channel_map EXCEPT ![n] = NoEntry]
    BY <1>11, <2>2 DEF HandleDelete
  <2>5. [c \in Clients |-> Offers(c)'] = [c \in Clients |-> Offers(c)]
    BY <1>11 DEF HandleDelete, Offers
  <2>6. [m \in Names |-> Lease(channel_map'[m])] =
        [[m \in Names |-> Lease(channel_map[m])]
           EXCEPT ![n] = [holder |-> None, age |-> 0]]
    BY <1>0, <2>3, <2>4, EntrySet
  <2>7. Leases!End(n)
    BY <1>11, <2>5, <2>6 DEF HandleDelete, Leases!End, Leases!NoLease
  <2> QED
    BY <2>2, <2>7 DEF Leases!Next
<1>12. CASE HandleGet
  <2>1. /\ Head(queue) \in Message /\ Head(queue).kind = "Get"
        /\ Head(queue) = queue[1] /\ 1 \in 1 .. Len(queue)
    BY <1>0, <1>12, HeadAndTail DEF HandleGet, Take, TypeOK
  <2>2. PICK n \in Names, c \in Clients : n = Head(queue).name /\ c = Head(queue).from
    BY <2>1, Kinds
  <2>3. client[c] # "idle" /\ n = wanted[c] /\ oneshot = {}
    BY <2>1, <2>2 DEF Inv, Asked, OneGet, Wanted
  <2>4. PICK e \in Entry : e = channel_map[n]
    BY <1>0 DEF TypeOK
  <2>5. oneshot' = {[to |-> c, addr |-> Lease(e).holder]} /\ replies' = replies
    BY <1>12, <2>2, <2>4 DEF HandleGet, Lease
  <2> PICK r \in {[to |-> c, addr |-> Lease(e).holder]} : TRUE
    OBVIOUS
  <2>6. Offers(c)' = Offers(c) \cup {Lease(e).holder}
    <3>1. /\ r.to = c /\ r.addr = Lease(e).holder
          /\ replies' \cup oneshot' = (replies \cup oneshot) \cup {r}
      BY <2>3, <2>5
    <3> QED
      BY <3>1 DEF Offers
  <2>7. \A d \in Clients : d # c => Offers(d)' = Offers(d)
    BY <2>3, <2>5 DEF Offers
  <2>8. [d \in Clients |-> Offers(d)'] =
        [[d \in Clients |-> Offers(d)] EXCEPT ![c] = @ \cup {Lease(e).holder}]
    BY <2>6, <2>7
  <2>9. [m \in Names |-> Lease(channel_map'[m])] = [m \in Names |-> Lease(channel_map[m])]
    <3>1. CASE Fresh(e)
      BY <1>12, <2>2, <2>4, <3>1 DEF HandleGet
    <3>2. CASE ~Fresh(e)
      <4>1. channel_map' = [channel_map EXCEPT ![n] = NoEntry]
        BY <1>12, <2>2, <2>4, <3>2 DEF HandleGet
      <4>2. Lease(NoEntry) = Lease(e) /\ NoEntry \in Entry
        BY <3>2, NotNone DEF Lease, Fresh, NoEntry, Entry
      <4> QED
        BY <1>0, <2>4, <4>1, <4>2, EntrySet
    <3> QED
      BY <3>1, <3>2
  <2>10. Leases!Lookup(c)
    BY <1>12, <2>3, <2>4, <2>8, <2>9 DEF HandleGet, Leases!Lookup
  <2> QED
    BY <2>10 DEF Leases!Next
<1>13. CASE Tick
  <2>1. \A n \in Names :
          Lease(channel_map'[n]) =
            IF Lease(channel_map[n]).holder # None /\ Lease(channel_map[n]).age + 1 < Timeout
            THEN [Lease(channel_map[n]) EXCEPT !.age = @ + 1]
            ELSE [holder |-> None, age |-> 0]
    <3> TAKE n \in Names
    <3>1. channel_map[n] \in Entry
      BY <1>0 DEF TypeOK
    <3>2. channel_map'[n] = IF channel_map[n].addr = None THEN NoEntry
                            ELSE [channel_map[n] EXCEPT !.age = Older(@)]
      BY <1>13 DEF Tick
    <3> QED
      BY <3>1, <3>2, TickLease
  <2>2. [c \in Clients |-> Offers(c)'] = [c \in Clients |-> Offers(c)]
    BY <1>13 DEF Tick, Offers
  <2>3. Leases!Tick
    BY <1>13, <2>1, <2>2 DEF Tick, Leases!Tick, Leases!NoLease
  <2> QED
    BY <2>3 DEF Leases!Next
<1> QED
  BY <1>1, <1>2, <1>3, <1>4, <1>5, <1>6, <1>7, <1>8, <1>9, <1>10, <1>11, <1>12, <1>13
     DEF Next, ServerLoop, Leases!Next

(***************************************************************************)
(* Nobody is forgotten.                                                    *)
(***************************************************************************)

InQueue(m) == \E i \in 1 .. Len(queue) : queue[i] = m

\* A message in the queue stays there when another joins ...
LEMMA StaysJoined ==
  ASSUME queue \in Seq(Message), NEW x \in Message, queue' = Append(queue, x), NEW m,
         InQueue(m)
  PROVE  InQueue(m)'
<1>1. PICK i \in 1 .. Len(queue) : queue[i] = m
  BY DEF InQueue
<1>2. i \in 1 .. Len(queue') /\ queue'[i] = m
  BY <1>1, Joined
<1> QED
  BY <1>2 DEF InQueue

\* ... and when the one before it is taken.
LEMMA StaysTaken ==
  ASSUME queue \in Seq(Message), queue # <<>>, queue' = Tail(queue), NEW m, InQueue(m),
         m # Head(queue)
  PROVE  InQueue(m)'
<1>1. PICK i \in 1 .. Len(queue) : queue[i] = m
  BY DEF InQueue
<1>2. i - 1 \in 1 .. Len(queue) - 1 /\ (i - 1) + 1 = i /\ Len(queue') = Len(queue) - 1
      /\ queue'[i - 1] = queue[(i - 1) + 1]
  BY <1>1, HeadAndTail
<1> QED
  BY <1>1, <1>2 DEF InQueue

\* The message that joins is there.
LEMMA IsJoined ==
  ASSUME queue \in Seq(Message), NEW x \in Message, queue' = Append(queue, x)
  PROVE  InQueue(x)'
<1>1. Len(queue) + 1 \in 1 .. Len(queue') /\ queue'[Len(queue) + 1] = x
  BY Joined
<1> QED
  BY <1>1 DEF InQueue

\* The UDP task waits for a Get in the queue or for its reply, while there is a
\* server loop.
Waited ==
  task = "waiting" =>
    oneshot # {} \/ server = "dead" \/ \E m \in Message : m.kind = "Get" /\ InQueue(m)

\* The question of a client: on its way, in the queue, or answered.
Pursued(c) ==
  \/ GetMsg(c, wanted[c]) \in datagrams
  \/ InQueue(GetMsg(c, wanted[c]))
  \/ \E r \in oneshot \cup replies : r.to = c

LookedAfter ==
  "loss" \notin Faults /\ ~Deaf =>
    \A c \in Clients : client[c] = "asked" => Pursued(c)

\* The queue by its messages, for what NobodyForgotten says by its places.
LEMMA ByMessage == TypeOK => (NobodyForgotten <=> Waited /\ LookedAfter)
<1> SUFFICES ASSUME TypeOK PROVE NobodyForgotten <=> Waited /\ LookedAfter
  OBVIOUS
<1>1. (\E i \in 1 .. Len(queue) : queue[i].kind = "Get")
        <=> \E m \in Message : m.kind = "Get" /\ InQueue(m)
  BY QueuedMessage DEF InQueue
<1> QED
  BY <1>1 DEF NobodyForgotten, Waited, LookedAfter, Pursued, InQueue, Deaf

\* What the server loop takes it answers, and nothing else takes from the queue.
LEMMA WaitedStep ==
  ASSUME TypeOK, OneGet, Waited, [Next]_vars
  PROVE  Waited'
<1> USE DEF netVars, serverVars, clientVars, httpVars
<1>0. queue \in Seq(Message)
  BY DEF TypeOK
<1> SUFFICES ASSUME task' = "waiting" PROVE Waited'
  BY DEF Waited
<1>1. CASE queue' = queue /\ oneshot' = oneshot /\ task' = task /\ server' = server
  BY <1>1 DEF Waited, InQueue
<1>11. CASE server' = "dead"
  BY <1>11 DEF Waited
<1>12. CASE ServerPanics
  BY <1>11, <1>12 DEF ServerPanics
<1>2. ASSUME NEW m \in datagrams, Receive(m), server' # "dead" PROVE Waited'
  <2>1. m \in Message /\ queue' = Append(queue, m) /\ oneshot' = oneshot
    BY <1>2, QueuedMessage DEF Receive, ReceiveUpdate, ReceiveGet, Sent, TypeOK
  <2>2. CASE ReceiveGet(m)
    BY <1>0, <2>1, <2>2, IsJoined DEF ReceiveGet, Waited
  <2>3. CASE ReceiveUpdate(m)
    BY <2>3 DEF ReceiveUpdate
  <2> QED
    BY <1>2, <2>2, <2>3 DEF Receive
<1>3. ASSUME NEW q \in Queries, Query(q), server' # "dead" PROVE Waited'
  <2>1. QueryMsg(q) \in Message /\ queue' = Append(queue, QueryMsg(q))
    BY <1>3 DEF Query, Message, Sent, TypeOK
  <2> QED
    BY <1>0, <1>3, <2>1, StaysJoined DEF Query, Waited
<1>4. CASE ServerLoop /\ Head(queue).kind = "Get"
  BY <1>4
     DEF ServerLoop, HandleSet, HandleDelete, HandleGet, HandleGetServers,
         HandleGetAppsMap, Take, Waited
<1>5. CASE ServerLoop /\ Head(queue).kind # "Get"
  <2>1. /\ queue # <<>> /\ queue' = Tail(queue)
        /\ oneshot' = oneshot /\ task' = task /\ server' = server
    BY <1>5
       DEF ServerLoop, HandleSet, HandleDelete, HandleGet, HandleGetServers,
           HandleGetAppsMap, Take
  <2> QED
    BY <1>0, <1>5, <2>1, StaysTaken DEF Waited
<1>6. CASE ReceiveFails \/ SendReply \/ SendFails \/ NoReply
  BY <1>6 DEF ReceiveFails, SendReply, SendFails, NoReply
<1>7. ASSUME NEW o \in Origins, \/ \E n \in Names : Start(o, n)
                               \/ Heartbeat(o) \/ Stop(o) \/ Crash(o)
      PROVE  Waited'
  BY <1>1, <1>7 DEF Start, Heartbeat, Stop, Crash
<1>8. ASSUME NEW c \in Clients, Ask(c) PROVE Waited'
  BY <1>1, <1>8 DEF Ask
<1>9. ASSUME NEW r \in replies, Accept(r) PROVE Waited'
  BY <1>1, <1>9 DEF Accept
<1>10. CASE Lose \/ Tick \/ UNCHANGED vars
  BY <1>1, <1>10 DEF Lose, Tick, vars
<1> QED
  BY <1>2, <1>3, <1>4, <1>5, <1>6, <1>7, <1>8, <1>9, <1>10, <1>11, <1>12 DEF Next

\* A question is pursued until it is answered, unless the network loses it.
LEMMA PursuedStep ==
  ASSUME TypeOK, Asked, OneGet, [Next]_vars, "loss" \notin Faults, ~Deaf',
         \A c \in Clients : client[c] = "asked" => Pursued(c),
         NEW c \in Clients, client'[c] = "asked"
  PROVE  Pursued(c)'
<1> USE DEF netVars, serverVars, clientVars, httpVars
<1> DEFINE m == GetMsg(c, wanted[c])
<1>0. /\ queue \in Seq(Message)
      /\ client \in [Clients -> {"idle", "asked", "answered"}]
      /\ wanted' = wanted /\ m \in Message /\ m.kind = "Get" /\ m.from = c
  <2>1. wanted' = wanted
    BY DEF Next, Start, Heartbeat, Stop, Crash, Ask, Accept, Lose, Receive, ReceiveUpdate,
           ReceiveGet, ReceiveFails, SendReply, SendFails, NoReply, ServerPanics, ServerLoop, HandleSet, HandleDelete,
           HandleGet, HandleGetServers, HandleGetAppsMap, Query, Tick, vars
  <2> QED
    BY <2>1 DEF TypeOK, GetMsg, Message, Datagram
<1>1. CASE client[c] = "asked"
  <2>1. Pursued(c)
    BY <1>1
  <2>2. ASSUME datagrams \subseteq datagrams', InQueue(m) => InQueue(m)',
               \A r \in oneshot \cup replies : r.to = c => r \in oneshot' \cup replies'
        PROVE  Pursued(c)'
    BY <1>0, <2>1, <2>2 DEF Pursued
  <2>3. ASSUME queue' = queue PROVE InQueue(m) => InQueue(m)'
    BY <1>0, <2>3 DEF InQueue
  <2>4. ASSUME NEW o \in Origins,
               \/ \E n \in Names : Start(o, n)
               \/ Heartbeat(o) \/ Stop(o) \/ Crash(o)
        PROVE  Pursued(c)'
    BY <2>2, <2>3, <2>4 DEF Start, Heartbeat, Stop, Crash
  <2>5. ASSUME NEW d \in Clients, Ask(d) PROVE Pursued(c)'
    BY <2>2, <2>3, <2>5 DEF Ask
  <2>6. ASSUME NEW r \in replies, Accept(r) PROVE Pursued(c)'
    <3>1. r.to # c
      BY <1>0, <2>6 DEF Accept
    <3> QED
      BY <2>2, <2>3, <2>6, <3>1 DEF Accept
  <2>7. ASSUME NEW x \in datagrams, Receive(x) PROVE Pursued(c)'
    <3>1. x \in Message /\ queue' = Append(queue, x)
      BY <2>7, QueuedMessage
         DEF Receive, ReceiveUpdate, ReceiveGet, Sent, Deaf, TypeOK
    <3>2. InQueue(m) => InQueue(m)'
      BY <1>0, <3>1, StaysJoined
    <3>3. InQueue(x)'
      BY <1>0, <3>1, IsJoined
    <3>4. /\ datagrams' = datagrams \/ datagrams' = datagrams \ {x}
          /\ oneshot' = oneshot /\ replies' = replies
      BY <2>7 DEF Receive, ReceiveUpdate, ReceiveGet, Read
    <3> QED
      BY <1>0, <2>1, <3>2, <3>3, <3>4 DEF Pursued
  <2>8. CASE SendReply
    BY <2>2, <2>3, <2>8 DEF SendReply
  <2>9. CASE SendFails \/ ReceiveFails \/ ServerPanics
    BY <2>9 DEF SendFails, ReceiveFails, ServerPanics, Deaf
  <2>14. CASE NoReply
    BY <2>2, <2>3, <2>14 DEF NoReply
  <2>10. CASE HandleGet
    <3>1. /\ queue # <<>> /\ queue' = Tail(queue) /\ Head(queue).kind = "Get"
          /\ datagrams' = datagrams /\ replies' = replies
      BY <2>10 DEF HandleGet, Take
    <3>2. oneshot = {}
      BY <1>0, <3>1, HeadAndTail DEF OneGet
    <3>3. CASE m = Head(queue)
      <4>1. PICK a : oneshot' = {[to |-> Head(queue).from, addr |-> a]}
        BY <2>10 DEF HandleGet
      <4>2. [to |-> Head(queue).from, addr |-> a].to = c
        BY <1>0, <3>3
      <4> QED
        BY <4>1, <4>2 DEF Pursued
    <3>4. CASE m # Head(queue)
      BY <1>0, <2>2, <3>1, <3>2, <3>4, StaysTaken
    <3> QED
      BY <3>3, <3>4
  <2>11. CASE HandleSet \/ HandleDelete \/ HandleGetServers \/ HandleGetAppsMap
    <3>1. /\ queue # <<>> /\ queue' = Tail(queue) /\ Head(queue).kind # "Get"
          /\ datagrams' = datagrams /\ replies' = replies /\ oneshot' = oneshot
      BY <2>11 DEF HandleSet, HandleDelete, HandleGetServers, HandleGetAppsMap, Take
    <3>2. InQueue(m) => InQueue(m)'
      BY <1>0, <3>1, StaysTaken
    <3> QED
      BY <2>2, <3>1, <3>2
  <2>12. ASSUME NEW q \in Queries, Query(q) PROVE Pursued(c)'
    <3>1. QueryMsg(q) \in Message
      BY DEF Message
    <3>2. InQueue(m) => InQueue(m)'
      BY <1>0, <2>12, <3>1, StaysJoined DEF Query, Sent, InQueue
    <3> QED
      BY <2>2, <2>12, <3>2 DEF Query
  <2>13. CASE Tick \/ UNCHANGED vars
    BY <2>2, <2>3, <2>13 DEF Tick, vars
  <2> QED
    BY <2>4, <2>5, <2>6, <2>7, <2>8, <2>9, <2>10, <2>11, <2>12, <2>13, <2>14
       DEF Next, ServerLoop, Lose
<1>2. CASE client[c] # "asked"
  <2>1. \E d \in Clients : Ask(d)
    BY <1>0, <1>2
       DEF Next, Start, Heartbeat, Stop, Crash, Accept, Lose, Receive, ReceiveUpdate,
           ReceiveGet, ReceiveFails, SendReply, SendFails, NoReply, ServerPanics, ServerLoop, HandleSet, HandleDelete,
           HandleGet, HandleGetServers, HandleGetAppsMap, Query, Tick, vars
  <2>2. Ask(c)
    BY <1>0, <1>2, <2>1 DEF Ask
  <2> QED
    BY <1>0, <2>2 DEF Ask, Pursued
<1> QED
  BY <1>1, <1>2

\* No step comes back from the end of a task of the register.
LEMMA DeafStep ==
  ASSUME [Next]_vars, Deaf
  PROVE  Deaf'
BY DEF Next, Start, Heartbeat, Stop, Crash, Ask, Accept, Lose, Receive, ReceiveUpdate,
       ReceiveGet, ReceiveFails, SendReply, SendFails, NoReply, ServerPanics, ServerLoop,
       HandleSet, HandleDelete, HandleGet, HandleGetServers, HandleGetAppsMap, Query,
       Tick, vars, serverVars, clientVars, httpVars, netVars, Deaf, Take

(***************************************************************************)
(* Theorems.                                                               *)
(***************************************************************************)

\* Initially the maps and the queues are empty.
LEMMA InitInv ==
  ASSUME Init
  PROVE  Inv
<1>1. TypeOK
  <2>1. <<>> \in Seq(Message) /\ NoEntry \in Entry
    BY NotNone DEF NoEntry, Entry
  <2> QED
    BY <2>1 DEF Init, TypeOK
<1>2. Asked /\ OneGet
  BY DEF Init, Asked, OneGet
<1>3. HolderIsServer
  BY DEF Init, HolderIsServer, NoEntry
<1> QED
  BY <1>1, <1>2, <1>3 DEF Inv

\* The invariant holds.
THEOREM Invariant == Spec => []Inv
<1>1. Init => Inv
  BY InitInv
<1>2. Inv /\ [Next]_vars => Inv'
  BY TypeStep, AskedStep, HolderStep DEF Inv
<1> QED
  BY <1>1, <1>2, PTL DEF Spec

\* Every variable stays in its type.
THEOREM TypeCorrect == Spec => []TypeOK
BY Invariant, PTL DEF Inv

\* An address that holds a name is among the servers, seen no longer ago.
THEOREM HolderKnown == Spec => []HolderIsServer
BY Invariant, PTL DEF Inv

\* The register is a table of leases, whatever the network does: register.rs's
\* lazy removal and the UDP task's one Get at a time cannot be told from
\* atomic lookups in a table whose leases run out.
THEOREM Implementation == Spec => ImplementsLeases
<1>1. Init => Leases!Init
  <2> SUFFICES ASSUME Init PROVE Leases!Init
    OBVIOUS
  <2>1. \A n \in Names : Lease(channel_map[n]) = [holder |-> None, age |-> 0]
    BY DEF Init, Lease, Fresh, NoEntry
  <2>2. \A c \in Clients : Offers(c) = {}
    BY DEF Init, Offers
  <2> QED
    BY <2>1, <2>2 DEF Init, Leases!Init, Leases!NoLease
<1>2. Inv /\ Inv' /\ [Next]_vars => [Leases!Next]_(Leases!vars)
  BY TableStep
<1> QED
  BY <1>1, <1>2, Invariant, PTL DEF Spec, ImplementsLeases, Leases!Spec

\* The Get that the UDP task waits for is in the queue or answered, or went with the
\* server loop, so that Listening only needs the server loop to go on or to be gone;
\* and the register itself loses no question: without loss in the network, and until
\* one of its tasks ends, a client without an answer is being looked after.
THEOREM Remembered == Spec => []NobodyForgotten
<1>1. Init => NobodyForgotten
  BY DEF Init, NobodyForgotten
<1>2. Inv /\ Inv' /\ NobodyForgotten /\ [Next]_vars => NobodyForgotten'
  <2>1. Inv => TypeOK /\ Asked /\ OneGet
    BY DEF Inv
  <2>2. TypeOK /\ OneGet /\ Waited /\ [Next]_vars => Waited'
    BY WaitedStep
  <2>3. TypeOK /\ Asked /\ OneGet /\ LookedAfter /\ [Next]_vars => LookedAfter'
    BY PursuedStep, DeafStep DEF LookedAfter
  <2> QED
    BY <2>1, <2>2, <2>3, ByMessage, PTL
<1> QED
  BY <1>1, <1>2, Invariant, PTL DEF Spec
=============================================================================
