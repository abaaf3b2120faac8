--------------------------- MODULE MonitorProofs ---------------------------
(***************************************************************************)
(* Theorems about Monitor, for any hosts, apps, clients, faults and        *)
(* bounds: the types, and that whoever asks for /info is shown numbers     *)
(* that are no older than what had been reported when it asked.            *)
(***************************************************************************)
EXTENDS Monitor, TLAPS

ReportMsg == [type : {"TaskMsg"}, name : Hosts, value : Numbers]
Message == ReportMsg \cup [type : {"Oneshot"}, sender : Clients]

\* A spider that has its answer has a number for every channel.
Complete == \A h \in Hosts : spider[h] = "answered" => info[h] \in Numbers

IsReport(m, h) == m.type = "TaskMsg" /\ m.name = h
IsAsk(m, c)    == m.type = "Oneshot" /\ m.sender = c

\* What h has reported and can still be shown.
Reports(h) ==
  {state[h]} \cup {incoming[i].value : i \in {j \in 1 .. Len(incoming) :
     incoming[j].type = "TaskMsg" /\ incoming[j].name = h}}

\* Numbers only grow, so what is counted for the next poll is at least what was
\* reported before.
Counting ==
  \A h \in Hosts :
    /\ \A a \in DOMAIN info[h] : info[h][a] <= watching[h][a]
    /\ \A r \in Reports(h) : \A a \in DOMAIN r :
         /\ r[a] <= watching[h][a]
         /\ a \in DOMAIN info[h] => r[a] <= info[h][a]

\* The reports of a host are handled from the oldest to the newest.
Ascending ==
  \A h \in Hosts :
    /\ \A i \in 1 .. Len(incoming) :
         IsReport(incoming[i], h) => AtLeast(incoming[i].value, state[h])
    /\ \A i, j \in 1 .. Len(incoming) :
         i < j /\ IsReport(incoming[i], h) /\ IsReport(incoming[j], h) =>
           AtLeast(incoming[j].value, incoming[i].value)
    /\ \E r \in Reports(h) : \A s \in Reports(h) : AtLeast(r, s)

\* Each client has at most one request in the queue, and what it is to be shown
\* at least is in the table or comes before the request.
Asking ==
  /\ \A i \in 1 .. Len(incoming) : \A c \in Clients : IsAsk(incoming[i], c) =>
       /\ client[c] = "asking"
       /\ \A j \in 1 .. Len(incoming) : IsAsk(incoming[j], c) => j = i
       /\ \A h \in Hosts :
            \/ AtLeast(state[h], since[c][h])
            \/ \E j \in 1 .. i - 1 :
                 IsReport(incoming[j], h) /\ AtLeast(incoming[j].value, since[c][h])

Quiet == UNCHANGED <<incoming, state, client, since>>

Inv == TypeOK /\ Complete /\ Counting /\ Ascending /\ Asking

---------------------------------------------------------------------------
(***************************************************************************)
(* Tables and messages.                                                    *)
(***************************************************************************)

\* The tables: with all numbers, with some of them, with none.
LEMMA Tables ==
  /\ Nothing \in Counted /\ Numbers \subseteq Counted
  /\ \A r \in Counted : /\ DOMAIN r \subseteq Apps
                        /\ \A a \in DOMAIN r : r[a] \in 0 .. MaxChanges
                        /\ DOMAIN r = Apps => r \in Numbers
  /\ DOMAIN Nothing = {}
  /\ Blank \in [Hosts -> Counted] /\ Blank \in Table
<1>1. Nothing \in [{} -> 0 .. MaxChanges] /\ DOMAIN Nothing = {}
  BY DEF Nothing
<1>2. Nothing \in Counted /\ Numbers \subseteq Counted
  BY <1>1 DEF Counted, Numbers
<1>3. \A r \in Counted : /\ DOMAIN r \subseteq Apps
                         /\ \A a \in DOMAIN r : r[a] \in 0 .. MaxChanges
                         /\ DOMAIN r = Apps => r \in Numbers
  BY DEF Counted, Numbers
<1>4. Blank \in [Hosts -> Counted] /\ Blank \in Table
  BY <1>2 DEF Blank, Table
<1> QED
  BY <1>1, <1>2, <1>3, <1>4

\* At least as late is reflexive and transitive.
LEMMA AtLeastOrder ==
  /\ \A r \in Counted : AtLeast(r, r)
  /\ \A r, s, t \in Counted : AtLeast(r, s) /\ AtLeast(s, t) => AtLeast(r, t)
<1>1. \A r \in Counted : \A a \in DOMAIN r : r[a] \in Nat
  BY Tables, BoundsAssumption
<1> QED
  BY <1>1 DEF AtLeast

\* A message has the fields that go with its type.
LEMMA MessageFields ==
  \A m \in Message :
    /\ m.type = "TaskMsg" => m.name \in Hosts /\ m.value \in Numbers
    /\ m.type = "Oneshot" => m.sender \in Clients
  BY DEF Message, ReportMsg

\* The types of the parts that the lemmas speak of.
LEMMA Typed ==
  ASSUME TypeOK
  PROVE  /\ incoming \in Seq(Message) /\ Len(incoming) \in Nat
         /\ \A i \in 1 .. Len(incoming) : incoming[i] \in Message
         /\ \A h \in Hosts : state[h] \in Counted
         /\ \A h \in Hosts : \A r \in Reports(h) : r \in Counted
         /\ \A c \in Clients, h \in Hosts : since[c][h] \in Counted
<1>1. incoming \in Seq(Message)
  BY DEF TypeOK, Message, ReportMsg
<1>2. \A i \in 1 .. Len(incoming) : incoming[i] \in Message
  BY <1>1
<1>3. \A h \in Hosts : state[h] \in Counted
  BY Tables DEF TypeOK, Table
<1>4. \A c \in Clients, h \in Hosts : since[c][h] \in Counted
  BY Tables DEF TypeOK, Table
<1>5. \A h \in Hosts : \A r \in Reports(h) : r \in Counted
  BY <1>2, <1>3, Tables, MessageFields DEF Reports
<1> QED
  BY <1>1, <1>2, <1>3, <1>4, <1>5

\* What is left of the queue when its first message is taken.
LEMMA Taken ==
  ASSUME TypeOK, incoming # <<>>, incoming' = Tail(incoming)
  PROVE  /\ Len(incoming') = Len(incoming) - 1
         /\ \A i \in 1 .. Len(incoming') :
              i + 1 \in 1 .. Len(incoming) /\ incoming'[i] = incoming[i + 1]
         /\ \A i \in 1 .. Len(incoming) : i # 1 =>
              i - 1 \in 1 .. Len(incoming') /\ incoming'[i - 1] = incoming[i]
         /\ Head(incoming) = incoming[1] /\ 1 \in 1 .. Len(incoming)
<1>1. incoming \in Seq(Message) /\ Len(incoming) \in Nat
  BY Typed
<1> QED
  BY <1>1

\* What is in the queue when a message is added.
LEMMA Added ==
  ASSUME TypeOK, NEW m, incoming' = Append(incoming, m)
  PROVE  /\ Len(incoming') = Len(incoming) + 1
         /\ \A i \in 1 .. Len(incoming) : incoming'[i] = incoming[i]
         /\ incoming'[Len(incoming) + 1] = m
         /\ \A i \in 1 .. Len(incoming') : i \in 1 .. Len(incoming) \/ i = Len(incoming) + 1
<1>1. incoming \in Seq(Message) /\ Len(incoming) \in Nat
  BY Typed
<1> QED
  BY <1>1

\* The newest report is there, and Reported is it.
LEMMA ReportedIsNewest ==
  ASSUME TypeOK, Ascending
  PROVE  \A h \in Hosts :
           /\ Reported(h) \in Reports(h) /\ Reported(h) \in {Nothing} \cup Numbers
           /\ \A s \in Reports(h) : AtLeast(Reported(h), s)
<1> SUFFICES ASSUME NEW h \in Hosts
             PROVE  /\ Reported(h) \in Reports(h) /\ Reported(h) \in {Nothing} \cup Numbers
                    /\ \A s \in Reports(h) : AtLeast(Reported(h), s)
  OBVIOUS
<1>1. Reported(h) = CHOOSE r \in Reports(h) : \A s \in Reports(h) : AtLeast(r, s)
  BY DEF Reported, Reports
<1>2. \E r \in Reports(h) : \A s \in Reports(h) : AtLeast(r, s)
  BY DEF Ascending
<1>3. Reports(h) \subseteq {Nothing} \cup Numbers
  BY Typed, MessageFields DEF Reports, TypeOK, Table
<1> QED
  BY <1>1, <1>2, <1>3

---------------------------------------------------------------------------
(***************************************************************************)
(* Type correctness.                                                       *)
(***************************************************************************)

\* Every step keeps the types.
LEMMA TypeStep ==
  ASSUME TypeOK, Complete, Ascending, [Next]_vars
  PROVE  TypeOK' /\ Complete'
<1> USE DEF nodeVars, spiderVars, clientVars
<1>1. ASSUME NEW h \in Hosts, NEW a \in Apps, Change(h, a) PROVE TypeOK' /\ Complete'
  <2>1. watching[h][a] + 1 \in 0 .. MaxChanges
    BY <1>1, BoundsAssumption DEF Change, TypeOK
  <2>2. watching' \in [Hosts -> [Apps -> 0 .. MaxChanges]]
    BY <1>1, <2>1 DEF Change, TypeOK
  <2> QED
    BY <1>1, <2>2 DEF Change, TypeOK, Complete
<1>2. ASSUME NEW h \in Hosts, NEW a \in Apps, Count(h, a) PROVE TypeOK' /\ Complete'
  <2> DEFINE new == [b \in DOMAIN info[h] \cup {a} |->
                       IF b = a THEN watching[h][a] ELSE info[h][b]]
  <2>1. info' = [info EXCEPT ![h] = new]
    BY <1>2 DEF Count
  <2>2. DOMAIN info[h] \subseteq Apps /\ \A b \in DOMAIN info[h] : info[h][b] \in 0 .. MaxChanges
    BY Tables DEF TypeOK
  <2>3. new \in [DOMAIN info[h] \cup {a} -> 0 .. MaxChanges]
    BY <2>2 DEF TypeOK
  <2>4. DOMAIN info[h] \cup {a} \in SUBSET Apps
    BY <2>2
  <2>5. new \in Counted
    BY <2>3, <2>4 DEF Counted
  <2> HIDE DEF new
  <2>6. info' \in [Hosts -> Counted]
    BY <2>1, <2>5 DEF TypeOK
  <2>7. \A g \in Hosts : spider[g] = "answered" => info'[g] = info[g]
    BY <1>2, <2>1 DEF Count, TypeOK
  <2> QED
    BY <1>2, <2>6, <2>7 DEF Count, TypeOK, Complete
<1>3. ASSUME NEW h \in Hosts, Respond(h) PROVE TypeOK' /\ Complete'
  <2>1. info[h] \in Numbers
    BY <1>3, Tables DEF Respond, TypeOK
  <2> QED
    BY <1>3, <2>1 DEF Respond, TypeOK, Complete, SpiderState
<1>4. ASSUME NEW h \in Hosts, CutOff(h) \/ UNCHANGED spider
      PROVE  /\ spider' \in [Hosts -> SpiderState]
             /\ \A g \in Hosts : spider'[g] = "answered" => spider[g] = "answered"
  BY <1>4 DEF CutOff, TypeOK, SpiderState
<1>5. ASSUME NEW h \in Hosts, Panic(h) \/ Crash(h) PROVE TypeOK' /\ Complete'
  <2>1. /\ spider' \in [Hosts -> SpiderState]
        /\ \A g \in Hosts : spider'[g] = "answered" => spider[g] = "answered"
    BY <1>4, <1>5 DEF Panic, Crash
  <2> QED
    BY <1>5, <2>1 DEF Panic, Crash, TypeOK, Complete
<1>6. ASSUME NEW h \in Hosts, Restart(h) PROVE TypeOK' /\ Complete'
  <2>1. /\ spider' \in [Hosts -> SpiderState]
        /\ \A g \in Hosts : spider'[g] = "answered" => spider[g] = "answered"
    BY <1>4, <1>6 DEF Restart
  <2>2. [a \in Apps |-> watching[h][a] + 1] \in [Apps -> 0 .. MaxChanges]
    BY <1>6, BoundsAssumption DEF Restart, TypeOK
  <2>3. watching' \in [Hosts -> [Apps -> 0 .. MaxChanges]]
    BY <1>6, <2>2 DEF Restart, TypeOK
  <2> QED
    BY <1>6, <2>1, <2>3 DEF Restart, TypeOK, Complete
<1>7. ASSUME NEW h \in Hosts, Poll(h) \/ PollFails(h) \/ RequestFails(h) PROVE TypeOK' /\ Complete'
  BY <1>7 DEF Poll, PollFails, RequestFails, TypeOK, Complete, SpiderState
<1>8. ASSUME NEW h \in Hosts, Report(h) PROVE TypeOK' /\ Complete'
  <2>1. TaskMsg(h, info[h]) \in Message
    BY <1>8 DEF Report, Complete, TaskMsg, Message, ReportMsg
  <2>2. incoming' \in Seq(Message)
    BY <1>8, <2>1, Typed DEF Report
  <2>3. info' \in [Hosts -> Counted]
    BY <1>8, Tables DEF Report, TypeOK
  <2>4. spider' \in [Hosts -> SpiderState]
    BY <1>8 DEF Report, TypeOK, SpiderState
  <2>5. UNCHANGED <<node, watching, state, client, since>>
    BY <1>8 DEF Report
  <2>6. TypeOK'
    BY <2>2, <2>3, <2>4, <2>5 DEF TypeOK, Message, ReportMsg
  <2>7. Complete'
    BY <1>8 DEF Report, TypeOK, Complete
  <2> QED
    BY <2>6, <2>7
<1>9. CASE Insert
  <2>1. Head(incoming) \in Message /\ Tail(incoming) \in Seq(Message)
    BY <1>9, Typed DEF Insert, Receives
  <2>2. Head(incoming).name \in Hosts /\ Head(incoming).value \in Numbers
    BY <1>9, <2>1, MessageFields DEF Insert, Receives
  <2>3. state' \in Table /\ incoming' \in Seq(Message)
    BY <1>9, <2>1, <2>2 DEF Insert, TypeOK, Table
  <2>4. UNCHANGED <<node, watching, spider, info, client, since>>
    BY <1>9 DEF Insert
  <2> QED
    BY <2>3, <2>4 DEF TypeOK, Complete, Message, ReportMsg
<1>10. CASE Show
  <2>1. Head(incoming) \in Message /\ Tail(incoming) \in Seq(Message)
    BY <1>10, Typed DEF Show, Receives
  <2>2. Head(incoming).sender \in Clients
    BY <1>10, <2>1, MessageFields DEF Show, Receives
  <2>3. /\ client' \in [Clients -> {"idle", "asking"}]
        /\ since' \in [Clients -> Table] /\ incoming' \in Seq(Message)
    BY <1>10, <2>1, <2>2, Tables DEF Show, TypeOK
  <2>4. UNCHANGED <<node, watching, spider, info, state>>
    BY <1>10 DEF Show
  <2> QED
    BY <2>3, <2>4 DEF TypeOK, Complete, Message, ReportMsg
<1>11. ASSUME NEW c \in Clients, Ask(c) PROVE TypeOK' /\ Complete'
  <2>1. Oneshot(c) \in Message
    BY DEF Oneshot, Message
  <2>2. incoming' \in Seq(Message)
    BY <1>11, <2>1, Typed DEF Ask
  <2>3. [h \in Hosts |-> Reported(h)] \in Table
    BY ReportedIsNewest DEF Table
  <2>4. since' \in [Clients -> Table] /\ client' \in [Clients -> {"idle", "asking"}]
    BY <1>11, <2>3 DEF Ask, TypeOK
  <2>5. UNCHANGED <<node, watching, spider, info, state>>
    BY <1>11 DEF Ask
  <2> QED
    BY <2>2, <2>4, <2>5 DEF TypeOK, Complete, Message, ReportMsg
<1>12. CASE UNCHANGED vars
  BY <1>12 DEF vars, TypeOK, Complete
<1> QED
  BY <1>1, <1>2, <1>3, <1>5, <1>6, <1>7, <1>8, <1>9, <1>10, <1>11, <1>12
     DEF Next, Environment, MonitorTask, Node, Spider

---------------------------------------------------------------------------
(***************************************************************************)
(* The order of the reports.                                               *)
(***************************************************************************)

\* Numbers that are counted later are no smaller.
LEMMA CountingStep ==
  ASSUME TypeOK, TypeOK', Complete, Counting, [Next]_vars
  PROVE  Counting'
<1> USE DEF nodeVars, spiderVars, clientVars
<1>0. /\ \A h \in Hosts, a \in Apps : watching[h][a] \in Nat
      /\ \A h \in Hosts : /\ DOMAIN info[h] \subseteq Apps
                          /\ \A a \in DOMAIN info[h] : info[h][a] \in Nat
      /\ \A h \in Hosts : \A r \in Reports(h) :
           DOMAIN r \subseteq Apps /\ \A a \in DOMAIN r : r[a] \in Nat
  BY Tables, Typed, BoundsAssumption DEF TypeOK
<1>1. ASSUME \A h \in Hosts : Reports(h)' \subseteq Reports(h),
             \A h \in Hosts, a \in Apps : watching[h][a] <= watching'[h][a],
             watching' \in [Hosts -> [Apps -> 0 .. MaxChanges]],
             info' = info
      PROVE  Counting'
  <2>1. \A h \in Hosts, a \in Apps : watching'[h][a] \in Nat
    BY <1>1, BoundsAssumption
  <2> QED
    BY <1>0, <1>1, <2>1 DEF Counting
<1>2. ASSUME UNCHANGED <<incoming, state>>
      PROVE  \A h \in Hosts : Reports(h)' = Reports(h)
  BY <1>2 DEF Reports
<1>3. watching' \in [Hosts -> [Apps -> 0 .. MaxChanges]]
  BY DEF TypeOK
<1>4. ASSUME NEW h \in Hosts,
             \/ Restart(h) \/ Panic(h) \/ Crash(h) \/ Poll(h) \/ PollFails(h)
             \/ RequestFails(h) \/ Respond(h)
             \/ \E a \in Apps : Change(h, a)
      PROVE  Counting'
  <2>1. UNCHANGED <<incoming, state, info>>
    BY <1>4 DEF Restart, Panic, Crash, Poll, PollFails, RequestFails, Respond, Change
  <2>2. \A g \in Hosts, a \in Apps : watching[g][a] <= watching'[g][a]
    <3>1. CASE Restart(h)
      BY <1>0, <3>1 DEF Restart, TypeOK
    <3>2. ASSUME NEW b \in Apps, Change(h, b)
          PROVE  \A g \in Hosts, a \in Apps : watching[g][a] <= watching'[g][a]
      BY <1>0, <3>2 DEF Change, TypeOK
    <3>3. CASE UNCHANGED watching
      BY <1>0, <3>3
    <3> QED
      BY <1>4, <3>1, <3>2, <3>3 DEF Panic, Crash, Poll, PollFails, RequestFails, Respond
  <2> QED
    BY <1>1, <1>2, <1>3, <2>1, <2>2
<1>5. ASSUME NEW h \in Hosts, NEW a \in Apps, Count(h, a) PROVE Counting'
  <2>1. /\ UNCHANGED <<incoming, state, watching>>
        /\ \A g \in Hosts : g # h => info'[g] = info[g]
        /\ DOMAIN info'[h] = DOMAIN info[h] \cup {a}
        /\ \A b \in DOMAIN info'[h] :
             info'[h][b] = IF b = a THEN watching[h][a] ELSE info[h][b]
    BY <1>5 DEF Count, TypeOK
  <2>2. \A g \in Hosts : Reports(g)' = Reports(g)
    BY <1>2, <2>1
  <2>3. \A b \in DOMAIN info'[h] : info'[h][b] <= watching[h][b]
    BY <1>0, <2>1 DEF Counting
  <2>4. \A r \in Reports(h) : \A b \in DOMAIN r :
          b \in DOMAIN info'[h] => r[b] <= info'[h][b]
    BY <2>1 DEF Counting
  <2> QED
    BY <2>1, <2>2, <2>3, <2>4 DEF Counting
<1>6. ASSUME NEW h \in Hosts, Report(h) PROVE Counting'
  <2>1. /\ UNCHANGED <<state, watching>>
        /\ \A g \in Hosts : info'[g] = info[g] \/ DOMAIN info'[g] = {}
        /\ incoming' = Append(incoming, TaskMsg(h, info[h]))
        /\ info[h] \in Numbers
    BY <1>6, Tables DEF Report, TypeOK, Complete
  <2>2. \A g \in Hosts :
          Reports(g)' \subseteq Reports(g) \cup (IF g = h THEN {info[h]} ELSE {})
    <3> SUFFICES ASSUME NEW g \in Hosts, NEW r \in Reports(g)'
                 PROVE  r \in Reports(g) \/ (g = h /\ r = info[h])
      OBVIOUS
    <3>1. CASE r = state'[g]
      BY <2>1, <3>1 DEF Reports
    <3>2. ASSUME NEW i \in 1 .. Len(incoming'), incoming'[i].type = "TaskMsg",
                 incoming'[i].name = g, r = incoming'[i].value
          PROVE  r \in Reports(g) \/ (g = h /\ r = info[h])
      <4>1. CASE i \in 1 .. Len(incoming)
        BY <2>1, <3>2, <4>1, Added DEF Reports
      <4>2. CASE i = Len(incoming) + 1
        BY <2>1, <3>2, <4>2, Added DEF TaskMsg
      <4> QED
        BY <2>1, <4>1, <4>2, Added
    <3> QED
      BY <3>1, <3>2 DEF Reports
  <2>3. \A g \in Hosts : \A r \in Reports(g)' : \A a \in DOMAIN r : r[a] <= watching[g][a]
    BY <2>2 DEF Counting
  <2>4. \A g \in Hosts : DOMAIN info'[g] = {} \/ (g # h /\ info'[g] = info[g])
    BY <1>6, Tables DEF Report, TypeOK
  <2> QED
    BY <2>1, <2>2, <2>3, <2>4 DEF Counting
<1>7. CASE Insert
  <2>1. /\ incoming' = Tail(incoming) /\ incoming # <<>>
        /\ Head(incoming).type = "TaskMsg"
        /\ \A g \in Hosts : \/ state'[g] = state[g]
                            \/ g = Head(incoming).name /\ state'[g] = Head(incoming).value
        /\ UNCHANGED <<watching, info>>
    BY <1>7 DEF Insert, Receives, TypeOK, Table
  <2>2. \A g \in Hosts : Reports(g)' \subseteq Reports(g)
    BY <2>1, Taken DEF Reports
  <2> QED
    BY <1>0, <1>1, <1>3, <2>1, <2>2
<1>8. CASE Show
  <2>1. incoming' = Tail(incoming) /\ incoming # <<>> /\ UNCHANGED <<state, watching, info>>
    BY <1>8 DEF Show, Receives
  <2>2. \A g \in Hosts : Reports(g)' \subseteq Reports(g)
    BY <2>1, Taken DEF Reports
  <2> QED
    BY <1>0, <1>1, <1>3, <2>1, <2>2
<1>9. ASSUME NEW c \in Clients, Ask(c) PROVE Counting'
  <2>1. incoming' = Append(incoming, Oneshot(c)) /\ UNCHANGED <<state, watching, info>>
    BY <1>9 DEF Ask
  <2>2. Oneshot(c).type = "Oneshot"
    BY DEF Oneshot
  <2>3. \A g \in Hosts : Reports(g)' \subseteq Reports(g)
    BY <2>1, <2>2, Added DEF Reports
  <2> QED
    BY <1>0, <1>1, <1>3, <2>1, <2>3
<1>10. CASE UNCHANGED vars
  BY <1>0, <1>1, <1>2, <1>3, <1>10 DEF vars
<1> QED
  BY <1>4, <1>5, <1>6, <1>7, <1>8, <1>9, <1>10
     DEF Next, Environment, MonitorTask, Node, Spider

\* What a step does to the queue and the table.
LEMMA QueueStep ==
  ASSUME [Next]_vars
  PROVE  \/ \E h \in Hosts : Report(h)
         \/ Insert
         \/ Show
         \/ \E c \in Clients : Ask(c)
         \/ Quiet
<1> USE DEF Quiet, nodeVars, spiderVars, clientVars
<1>1. ASSUME NEW h \in Hosts,
             \/ Restart(h) \/ Panic(h) \/ Crash(h) \/ Poll(h) \/ PollFails(h)
             \/ RequestFails(h) \/ Respond(h)
             \/ \E a \in Apps : Change(h, a) \/ Count(h, a)
      PROVE  Quiet
  BY <1>1 DEF Restart, Panic, Crash, Poll, PollFails, RequestFails, Respond, Change, Count
<1>2. CASE UNCHANGED vars
  BY <1>2 DEF vars
<1> QED
  BY <1>1, <1>2 DEF Next, Environment, MonitorTask, Node, Spider

\* A report is newer than those before it.
LEMMA AscendingStep ==
  ASSUME TypeOK, Complete, Counting, Ascending, [Next]_vars
  PROVE  Ascending'
<1>1. ASSUME NEW h \in Hosts, Report(h) PROVE Ascending'
  <2>1. /\ state' = state /\ incoming' = Append(incoming, TaskMsg(h, info[h]))
        /\ info[h] \in Numbers
    BY <1>1 DEF Report, Complete
  <2>2. TaskMsg(h, info[h]).type = "TaskMsg" /\ TaskMsg(h, info[h]).name = h
        /\ TaskMsg(h, info[h]).value = info[h]
    BY DEF TaskMsg
  <2>3. \A g \in Hosts : Reports(g)' = Reports(g) \cup (IF g = h THEN {info[h]} ELSE {})
    <3>1. \A g \in Hosts : Reports(g) \subseteq Reports(g)'
      BY <2>1, Added DEF Reports
    <3>2. info[h] \in Reports(h)'
      <4>1. Len(incoming) + 1 \in 1 .. Len(incoming')
        BY <2>1, Added, Typed
      <4> QED
        BY <2>1, <2>2, <4>1, Added DEF Reports
    <3>3. ASSUME NEW g \in Hosts, NEW r \in Reports(g)'
          PROVE  r \in Reports(g) \/ (g = h /\ r = info[h])
      <4>1. CASE r = state'[g]
        BY <2>1, <4>1 DEF Reports
      <4>2. ASSUME NEW i \in 1 .. Len(incoming'), incoming'[i].type = "TaskMsg",
                   incoming'[i].name = g, r = incoming'[i].value
            PROVE  r \in Reports(g) \/ (g = h /\ r = info[h])
        <5>1. CASE i \in 1 .. Len(incoming)
          BY <2>1, <4>2, <5>1, Added DEF Reports
        <5>2. CASE i = Len(incoming) + 1
          BY <2>1, <2>2, <4>2, <5>2, Added
        <5> QED
          BY <2>1, <5>1, <5>2, Added
      <4> QED
        BY <4>1, <4>2 DEF Reports
    <3> QED
      BY <3>1, <3>2, <3>3
  <2>4. \A r \in Reports(h) : AtLeast(info[h], r)
    <3>1. DOMAIN info[h] = Apps
      BY <2>1 DEF Numbers
    <3>2. \A r \in Reports(h) : DOMAIN r \subseteq Apps
      BY Typed, Tables
    <3>3. \A r \in Reports(h) : \A a \in DOMAIN r :
            a \in DOMAIN info[h] => r[a] <= info[h][a]
      BY DEF Counting
    <3>4. \A r \in Reports(h) : \A a \in DOMAIN r : r[a] \in Nat /\ info[h][a] \in Nat
      BY <2>1, <3>2, Typed, Tables, BoundsAssumption DEF Numbers
    <3> QED
      BY <3>1, <3>2, <3>3, <3>4 DEF AtLeast
  <2>5. AtLeast(info[h], info[h])
    BY <2>1, Tables, AtLeastOrder
  <2>6. state[h] \in Reports(h)
    BY DEF Reports
  <2>7. ASSUME NEW g \in Hosts, NEW i \in 1 .. Len(incoming'), IsReport(incoming'[i], g)
        PROVE  AtLeast(incoming'[i].value, state'[g])
    <3>1. CASE i \in 1 .. Len(incoming)
      BY <2>1, <2>7, <3>1, Added DEF Ascending
    <3>2. CASE i = Len(incoming) + 1
      BY <2>1, <2>2, <2>4, <2>6, <2>7, <3>2, Added DEF IsReport
    <3> QED
      BY <2>1, <3>1, <3>2, Added
  <2>8. ASSUME NEW g \in Hosts
        PROVE  \E r \in Reports(g)' : \A s \in Reports(g)' : AtLeast(r, s)
    <3>1. CASE g = h
      <4>1. info[h] \in Reports(g)' /\ \A s \in Reports(g)' : AtLeast(info[h], s)
        BY <2>3, <2>4, <2>5, <3>1
      <4> QED
        BY <4>1
    <3>2. CASE g # h
      <4>1. Reports(g)' = Reports(g)
        BY <2>3, <3>2
      <4> QED
        BY <4>1 DEF Ascending
    <3> QED
      BY <3>1, <3>2
  <2>9. ASSUME NEW g \in Hosts, NEW i \in 1 .. Len(incoming'), NEW j \in 1 .. Len(incoming'),
               i < j, IsReport(incoming'[i], g), IsReport(incoming'[j], g)
        PROVE  AtLeast(incoming'[j].value, incoming'[i].value)
    <3>1. i \in 1 .. Len(incoming) /\ incoming'[i] = incoming[i]
      BY <2>1, <2>9, Added, Typed
    <3>2. CASE j \in 1 .. Len(incoming)
      BY <2>1, <2>9, <3>1, <3>2, Added DEF Ascending
    <3>3. CASE j = Len(incoming) + 1
      <4>1. g = h /\ incoming'[j].value = info[h]
        BY <2>1, <2>2, <2>9, <3>3, Added DEF IsReport
      <4>2. incoming[i].value \in Reports(h)
        BY <2>9, <3>1, <4>1 DEF IsReport, Reports
      <4> QED
        BY <2>4, <3>1, <4>1, <4>2
    <3> QED
      BY <2>1, <3>2, <3>3, Added
  <2> QED
    BY <2>7, <2>8, <2>9 DEF Ascending
<1>2. CASE Insert
  <2>1. /\ incoming' = Tail(incoming) /\ incoming # <<>>
        /\ Head(incoming).type = "TaskMsg" /\ Head(incoming) = incoming[1]
        /\ 1 \in 1 .. Len(incoming)
    BY <1>2, Taken DEF Insert, Receives
  <2>2. PICK n \in Hosts, v \in Numbers : incoming[1].name = n /\ incoming[1].value = v
    BY <2>1, Typed, MessageFields
  <2>3. v \in Counted /\ state'[n] = v /\ \A g \in Hosts : g # n => state'[g] = state[g]
    BY <1>2, <2>1, <2>2, Tables DEF Insert, TypeOK, Table
  <2>4. IsReport(incoming[1], n) /\ incoming[1].value = v
    BY <2>1, <2>2 DEF IsReport
  <2>5. \A i \in 1 .. Len(incoming') : \A g \in Hosts : IsReport(incoming'[i], g) =>
          incoming'[i].value \in Reports(g) /\ AtLeast(incoming'[i].value, state[g])
    BY <2>1, Taken DEF Ascending, Reports, IsReport
  <2>14. AtLeast(v, state[n]) /\ v \in Reports(n)
    BY <2>1, <2>2, <2>4 DEF Ascending, Reports, IsReport
  <2>15. \A g \in Hosts : \A i \in 1 .. Len(incoming) : i # 1 /\ IsReport(incoming[i], g) =>
           \E j \in 1 .. Len(incoming') :
             IsReport(incoming'[j], g) /\ incoming'[j].value = incoming[i].value
    BY <2>1, Taken
  <2>16. \A g \in Hosts : \A i \in 1 .. Len(incoming) : i # 1 /\ IsReport(incoming[i], g) =>
           incoming[i].value \in Reports(g)'
    BY <2>15 DEF Reports, IsReport
  <2>17. \A g \in Hosts : \A r \in Reports(g)' : r \in Reports(g) \/ r = state'[g]
    <3> SUFFICES ASSUME NEW g \in Hosts, NEW r \in Reports(g)', r # state'[g]
                 PROVE  r \in Reports(g)
      OBVIOUS
    <3>1. PICK i \in 1 .. Len(incoming') :
            incoming'[i].type = "TaskMsg" /\ incoming'[i].name = g /\ r = incoming'[i].value
      BY DEF Reports
    <3> QED
      BY <2>5, <3>1 DEF IsReport
  <2>6. PICK top \in Reports(n) : \A s \in Reports(n) : AtLeast(top, s)
    BY <2>2 DEF Ascending
  <2>7. Reports(n)' \subseteq Reports(n) /\ v \in Reports(n)'
        /\ \A s \in Reports(n) : s \in Reports(n)' \/ s = state[n]
    <3>1. v \in Reports(n)'
      <4>1. state'[n] \in Reports(n)'
        BY DEF Reports
      <4> QED
        BY <2>3, <4>1
    <3>3. \A s \in Reports(n) : s \in Reports(n)' \/ s = state[n]
      BY <2>2, <2>4, <2>16, <3>1 DEF Reports, IsReport
    <3>4. Reports(n)' \subseteq Reports(n)
      BY <2>2, <2>3, <2>14, <2>17
    <3> QED
      BY <3>1, <3>3, <3>4
  <2>8. \E r \in Reports(n)' : \A s \in Reports(n)' : AtLeast(r, s)
    <3>1. CASE top \in Reports(n)'
      BY <2>6, <2>7, <3>1
    <3>2. CASE top = state[n]
      <4>1. \A s \in Reports(n)' : AtLeast(v, s)
        <5>1. \A s \in Reports(n) : s \in Counted
          BY <2>2, Typed
        <5> QED
          BY <2>3, <2>6, <2>7, <2>14, <3>2, <5>1, Typed, AtLeastOrder
      <4> QED
        BY <2>7, <4>1
    <3> QED
      BY <2>6, <2>7, <3>1, <3>2
  <2>9. ASSUME NEW i \in 1 .. Len(incoming'), IsReport(incoming'[i], n)
        PROVE  AtLeast(incoming'[i].value, v)
    <3>1. /\ i + 1 \in 1 .. Len(incoming) /\ 1 < i + 1
          /\ incoming'[i] = incoming[i + 1]
      BY <2>1, Taken
    <3>2. IsReport(incoming[i + 1], n)
      BY <2>9, <3>1
    <3> QED
      BY <2>1, <2>2, <2>4, <3>1, <3>2 DEF Ascending
  <2>10. ASSUME NEW g \in Hosts, NEW i \in 1 .. Len(incoming'), IsReport(incoming'[i], g)
         PROVE  AtLeast(incoming'[i].value, state'[g])
    BY <2>3, <2>5, <2>9, <2>10
  <2>11. ASSUME NEW g \in Hosts, NEW i \in 1 .. Len(incoming'), NEW j \in 1 .. Len(incoming'),
                i < j, IsReport(incoming'[i], g), IsReport(incoming'[j], g)
         PROVE  AtLeast(incoming'[j].value, incoming'[i].value)
    <3>1. /\ i + 1 \in 1 .. Len(incoming) /\ j + 1 \in 1 .. Len(incoming) /\ i + 1 < j + 1
          /\ incoming'[i] = incoming[i + 1] /\ incoming'[j] = incoming[j + 1]
      BY <2>1, <2>11, Taken
    <3> QED
      BY <2>11, <3>1 DEF Ascending
  <2>12. ASSUME NEW g \in Hosts, g # n
         PROVE  \E r \in Reports(g)' : \A s \in Reports(g)' : AtLeast(r, s)
    <3>1. Reports(g)' = Reports(g)
      <4>1. state'[g] = state[g] /\ state[g] \in Reports(g) /\ state'[g] \in Reports(g)'
        BY <2>3, <2>12 DEF Reports
      <4>2. Reports(g)' \subseteq Reports(g)
        BY <2>17, <4>1
      <4>3. ~IsReport(incoming[1], g)
        BY <2>4, <2>12 DEF IsReport
      <4>4. Reports(g) \subseteq Reports(g)'
        BY <2>16, <4>1, <4>3 DEF Reports, IsReport
      <4> QED
        BY <4>2, <4>4
    <3> QED
      BY <3>1 DEF Ascending
  <2>13. ASSUME NEW g \in Hosts
         PROVE  \E r \in Reports(g)' : \A s \in Reports(g)' : AtLeast(r, s)
  <3>1. CASE g = n
    BY <2>8, <3>1
  <3> QED
    BY <2>12, <3>1
  <2> QED
    BY <2>10, <2>11, <2>13 DEF Ascending
<1>3. ASSUME incoming # <<>>, incoming' = Tail(incoming), state' = state,
             Head(incoming).type = "Oneshot"
      PROVE  Ascending'
  <2>1. \A g \in Hosts : Reports(g)' = Reports(g)
    <3>1. \A g \in Hosts : Reports(g)' \subseteq Reports(g)
      BY <1>3, Taken DEF Reports
    <3>2. \A g \in Hosts : Reports(g) \subseteq Reports(g)'
      BY <1>3, Taken DEF Reports
    <3> QED
      BY <3>1, <3>2
  <2>2. \A g \in Hosts : \A i \in 1 .. Len(incoming') :
          IsReport(incoming'[i], g) => AtLeast(incoming'[i].value, state'[g])
    BY <1>3, Taken DEF Ascending
  <2>3. ASSUME NEW g \in Hosts, NEW i \in 1 .. Len(incoming'), NEW j \in 1 .. Len(incoming'),
               i < j, IsReport(incoming'[i], g), IsReport(incoming'[j], g)
        PROVE  AtLeast(incoming'[j].value, incoming'[i].value)
    <3>1. /\ i + 1 \in 1 .. Len(incoming) /\ j + 1 \in 1 .. Len(incoming) /\ i + 1 < j + 1
          /\ incoming'[i] = incoming[i + 1] /\ incoming'[j] = incoming[j + 1]
      BY <1>3, <2>3, Taken
    <3> QED
      BY <2>3, <3>1 DEF Ascending
  <2> QED
    BY <2>1, <2>2, <2>3 DEF Ascending
<1>4. CASE Show
  BY <1>3, <1>4 DEF Show, Receives
<1>5. ASSUME NEW c \in Clients, Ask(c) PROVE Ascending'
  <2>1. incoming' = Append(incoming, Oneshot(c)) /\ state' = state
    BY <1>5 DEF Ask
  <2>2. Oneshot(c).type = "Oneshot"
    BY DEF Oneshot
  <2>3. \A i \in 1 .. Len(incoming') : \A g \in Hosts : IsReport(incoming'[i], g) =>
          i \in 1 .. Len(incoming) /\ incoming'[i] = incoming[i]
    BY <2>1, <2>2, Added DEF IsReport
  <2>4. \A i \in 1 .. Len(incoming) : i \in 1 .. Len(incoming') /\ incoming'[i] = incoming[i]
    BY <2>1, Added, Typed
  <2>5. \A g \in Hosts : Reports(g)' = Reports(g)
    BY <2>1, <2>3, <2>4 DEF Reports, IsReport
  <2> QED
    BY <2>1, <2>3, <2>4, <2>5 DEF Ascending
<1>6. CASE Quiet
  <2>1. \A g \in Hosts : Reports(g)' = Reports(g)
    BY <1>6 DEF Quiet, Reports
  <2> QED
    BY <1>6, <2>1 DEF Quiet, Ascending
<1> QED
  BY <1>1, <1>2, <1>4, <1>5, <1>6, QueueStep

\* What a request is due is in the table or before it in the queue.
LEMMA AskingStep ==
  ASSUME TypeOK, TypeOK', Ascending, Asking, [Next]_vars
  PROVE  Asking'
<1>1. ASSUME NEW h \in Hosts, Report(h) PROVE Asking'
  <2>1. /\ incoming' = Append(incoming, TaskMsg(h, info[h]))
        /\ UNCHANGED <<state, client, since>>
    BY <1>1 DEF Report, clientVars
  <2>2. TaskMsg(h, info[h]).type # "Oneshot"
    BY DEF TaskMsg
  <2>3. \A i \in 1 .. Len(incoming') : \A c \in Clients : IsAsk(incoming'[i], c) =>
          i \in 1 .. Len(incoming) /\ incoming'[i] = incoming[i]
    BY <2>1, <2>2, Added DEF IsAsk
  <2>4. \A i \in 1 .. Len(incoming) : \A j \in 1 .. i - 1 : incoming'[j] = incoming[j]
    BY <2>1, Added, Typed
  <2> QED
    BY <2>1, <2>3, <2>4 DEF Asking
<1>2. ASSUME incoming # <<>>, incoming' = Tail(incoming),
             NEW i \in 1 .. Len(incoming'), NEW c \in Clients, IsAsk(incoming'[i], c),
             client'[c] = client[c], since'[c] = since[c],
             \A h \in Hosts : \/ state'[h] = state[h]
                              \/ /\ IsReport(incoming[1], h)
                                 /\ state'[h] = incoming[1].value,
             \A h \in Hosts : IsReport(incoming[1], h) => state'[h] = incoming[1].value
      PROVE  /\ client'[c] = "asking"
             /\ \A j \in 1 .. Len(incoming') : IsAsk(incoming'[j], c) => j = i
             /\ \A h \in Hosts :
                  \/ AtLeast(state'[h], since'[c][h])
                  \/ \E j \in 1 .. i - 1 : /\ IsReport(incoming'[j], h)
                                           /\ AtLeast(incoming'[j].value, since'[c][h])
  <2>1. i + 1 \in 1 .. Len(incoming) /\ incoming'[i] = incoming[i + 1]
    BY <1>2, Taken
  <2>2. client'[c] = "asking"
    BY <1>2, <2>1 DEF Asking
  <2>3. \A j \in 1 .. Len(incoming') : IsAsk(incoming'[j], c) => j = i
    BY <1>2, <2>1, Taken DEF Asking
  <2>4. ASSUME NEW h \in Hosts
        PROVE  \/ AtLeast(state'[h], since'[c][h])
               \/ \E j \in 1 .. i - 1 : /\ IsReport(incoming'[j], h)
                                        /\ AtLeast(incoming'[j].value, since'[c][h])
    <3>1. CASE AtLeast(state[h], since[c][h])
      <4>1. CASE state'[h] = state[h]
        BY <1>2, <3>1, <4>1
      <4>2. CASE IsReport(incoming[1], h) /\ state'[h] = incoming[1].value
        <5>1. 1 \in 1 .. Len(incoming)
          BY <1>2, Taken
        <5>2. AtLeast(incoming[1].value, state[h]) /\ incoming[1].value \in Counted
          BY <4>2, <5>1, Typed, MessageFields, Tables DEF Ascending, IsReport
        <5>3. state[h] \in Counted /\ since[c][h] \in Counted
          BY Typed
        <5> QED
          BY <1>2, <3>1, <4>2, <5>2, <5>3, AtLeastOrder
      <4> QED
        BY <1>2, <4>1, <4>2
    <3>2. ASSUME NEW j \in 1 .. i, IsReport(incoming[j], h),
                 AtLeast(incoming[j].value, since[c][h])
          PROVE  \/ AtLeast(state'[h], since'[c][h])
                 \/ \E k \in 1 .. i - 1 : /\ IsReport(incoming'[k], h)
                                          /\ AtLeast(incoming'[k].value, since'[c][h])
      <4>1. CASE j = 1
        BY <1>2, <3>2, <4>1
      <4>2. CASE j # 1
        <5>1. j \in 1 .. Len(incoming) /\ j - 1 \in 1 .. i - 1
          BY <2>1, <3>2, <4>2, Typed
        <5>2. incoming'[j - 1] = incoming[j]
          BY <1>2, <4>2, <5>1, Taken
        <5> QED
          BY <1>2, <3>2, <5>1, <5>2
      <4> QED
        BY <4>1, <4>2
    <3>3. \/ AtLeast(state[h], since[c][h])
          \/ \E j \in 1 .. i : IsReport(incoming[j], h) /\ AtLeast(incoming[j].value, since[c][h])
      <4>1. (i + 1) - 1 = i
        BY <2>1
      <4> QED
        BY <1>2, <2>1, <4>1 DEF Asking
    <3> QED
      BY <3>1, <3>2, <3>3
  <2> QED
    BY <2>2, <2>3, <2>4
<1>3. CASE Insert
  <2>1. /\ incoming' = Tail(incoming) /\ incoming # <<>>
        /\ incoming[1].type = "TaskMsg" /\ 1 \in 1 .. Len(incoming)
        /\ UNCHANGED <<client, since>>
        /\ state' = [state EXCEPT ![incoming[1].name] = incoming[1].value]
    BY <1>3, Taken DEF Insert, Receives, clientVars
  <2>2. incoming[1].name \in Hosts
    BY <2>1, Typed, MessageFields
  <2>3. /\ \A h \in Hosts : IsReport(incoming[1], h) => state'[h] = incoming[1].value
        /\ \A h \in Hosts : \/ state'[h] = state[h]
                            \/ /\ IsReport(incoming[1], h)
                               /\ state'[h] = incoming[1].value
    BY <2>1, <2>2 DEF IsReport, TypeOK, Table
  <2> QED
    BY <1>2, <2>1, <2>3 DEF Asking
<1>4. CASE Show
  <2> DEFINE d == incoming[1].sender
  <2>1. /\ incoming' = Tail(incoming) /\ incoming # <<>>
        /\ incoming[1].type = "Oneshot" /\ 1 \in 1 .. Len(incoming)
        /\ state' = state
        /\ client' = [client EXCEPT ![d] = "idle"]
        /\ since' = [since EXCEPT ![d] = Blank]
    BY <1>4, Taken DEF Show, Receives
  <2>2. \A h \in Hosts : ~IsReport(incoming[1], h)
    BY <2>1 DEF IsReport
  <2>3. d \in Clients /\ IsAsk(incoming[1], d)
    BY <2>1, Typed, MessageFields DEF IsAsk
  <2>4. \A i \in 1 .. Len(incoming') : ~IsAsk(incoming'[i], d)
    <3> SUFFICES ASSUME NEW i \in 1 .. Len(incoming'), IsAsk(incoming'[i], d)
                 PROVE  FALSE
      OBVIOUS
    <3>1. i + 1 \in 1 .. Len(incoming) /\ IsAsk(incoming[i + 1], d) /\ i + 1 # 1
      BY <2>1, Taken
    <3> QED
      BY <2>1, <2>3, <3>1 DEF Asking
  <2> HIDE DEF d
  <2>5. \A c \in Clients : c # d => client'[c] = client[c] /\ since'[c] = since[c]
    BY <2>1, <2>3 DEF TypeOK
  <2>6. ASSUME NEW i \in 1 .. Len(incoming'), NEW c \in Clients, IsAsk(incoming'[i], c)
        PROVE  /\ client'[c] = "asking"
               /\ \A j \in 1 .. Len(incoming') : IsAsk(incoming'[j], c) => j = i
               /\ \A h \in Hosts :
                    \/ AtLeast(state'[h], since'[c][h])
                    \/ \E j \in 1 .. i - 1 : /\ IsReport(incoming'[j], h)
                                             /\ AtLeast(incoming'[j].value, since'[c][h])
    <3>1. c # d
      BY <2>4, <2>6
    <3>2. client'[c] = client[c] /\ since'[c] = since[c]
      BY <2>5, <3>1
    <3> QED
      BY <1>2, <2>1, <2>2, <2>6, <3>2
  <2> QED
    BY <2>6 DEF Asking
<1>5. ASSUME NEW d \in Clients, Ask(d) PROVE Asking'
  <2>1. /\ incoming' = Append(incoming, Oneshot(d)) /\ state' = state
        /\ client[d] = "idle"
        /\ client' = [client EXCEPT ![d] = "asking"]
        /\ since' = [since EXCEPT ![d] = [h \in Hosts |-> Reported(h)]]
    BY <1>5 DEF Ask
  <2>2. Oneshot(d).type = "Oneshot" /\ Oneshot(d).sender = d
    BY DEF Oneshot
  <2>3. \A i \in 1 .. Len(incoming) : ~IsAsk(incoming[i], d)
    BY <2>1 DEF Asking
  <2>4. \A i \in 1 .. Len(incoming) : i \in 1 .. Len(incoming') /\ incoming'[i] = incoming[i]
    BY <2>1, Added, Typed
  <2>5. \A c \in Clients : c # d => client'[c] = client[c] /\ since'[c] = since[c]
    BY <2>1 DEF TypeOK
  <2>6. client'[d] = "asking" /\ \A h \in Hosts : since'[d][h] = Reported(h)
    BY <2>1 DEF TypeOK
  <2>7. ASSUME NEW i \in 1 .. Len(incoming'), NEW c \in Clients, IsAsk(incoming'[i], c)
        PROVE  /\ client'[c] = "asking"
               /\ \A j \in 1 .. Len(incoming') : IsAsk(incoming'[j], c) => j = i
               /\ \A h \in Hosts :
                    \/ AtLeast(state'[h], since'[c][h])
                    \/ \E j \in 1 .. i - 1 : /\ IsReport(incoming'[j], h)
                                             /\ AtLeast(incoming'[j].value, since'[c][h])
    <3>1. CASE i \in 1 .. Len(incoming)
      <4>1. incoming'[i] = incoming[i] /\ c # d
        BY <2>3, <2>4, <2>7, <3>1
      <4>2. \A j \in 1 .. i - 1 : incoming'[j] = incoming[j]
        BY <2>4, <3>1, Typed
      <4>3. \A j \in 1 .. Len(incoming') : IsAsk(incoming'[j], c) => j = i
        BY <2>1, <2>2, <2>7, <3>1, <4>1, Added DEF Asking, IsAsk
      <4>4. /\ client[c] = "asking"
            /\ \A h \in Hosts :
                 \/ AtLeast(state[h], since[c][h])
                 \/ \E j \in 1 .. i - 1 :
                      IsReport(incoming[j], h) /\ AtLeast(incoming[j].value, since[c][h])
        BY <2>7, <3>1, <4>1 DEF Asking
      <4> QED
        BY <2>1, <2>5, <4>1, <4>2, <4>3, <4>4
    <3>2. CASE i = Len(incoming) + 1
      <4>1. c = d
        BY <2>1, <2>2, <2>7, <3>2, Added DEF IsAsk
      <4>2. \A j \in 1 .. Len(incoming') : IsAsk(incoming'[j], d) => j = i
        BY <2>1, <2>3, <3>2, Added
      <4>3. i - 1 = Len(incoming)
        BY <3>2, Typed
      <4>4. ASSUME NEW h \in Hosts
            PROVE  \/ AtLeast(state'[h], since'[d][h])
                   \/ \E j \in 1 .. i - 1 : /\ IsReport(incoming'[j], h)
                                            /\ AtLeast(incoming'[j].value, since'[d][h])
        <5>1. Reported(h) \in Reports(h) /\ Reported(h) \in Counted
          BY ReportedIsNewest, Typed
        <5>2. AtLeast(Reported(h), Reported(h))
          BY <5>1, AtLeastOrder
        <5>3. CASE Reported(h) = state[h]
          BY <2>1, <2>6, <5>2, <5>3
        <5>4. ASSUME NEW j \in 1 .. Len(incoming), IsReport(incoming[j], h),
                     Reported(h) = incoming[j].value
              PROVE  \E k \in 1 .. i - 1 : /\ IsReport(incoming'[k], h)
                                           /\ AtLeast(incoming'[k].value, since'[d][h])
          BY <2>4, <2>6, <4>3, <5>2, <5>4
        <5> QED
          BY <5>1, <5>3, <5>4 DEF Reports, IsReport
      <4> QED
        BY <2>6, <4>1, <4>2, <4>4
    <3> QED
      BY <2>1, <3>1, <3>2, Added
  <2> QED
    BY <2>7 DEF Asking
<1>6. CASE Quiet
  BY <1>6 DEF Quiet, Asking
<1> QED
  BY <1>1, <1>3, <1>4, <1>5, <1>6, QueueStep

---------------------------------------------------------------------------
(***************************************************************************)
(* The theorems.                                                           *)
(***************************************************************************)

\* The initial state satisfies the inductive invariant.
LEMMA InvInit == Init => Inv
<1> SUFFICES ASSUME Init PROVE Inv
  OBVIOUS
<1>1. Len(incoming) = 0 /\ \A h \in Hosts : state[h] = Nothing /\ info[h] = Nothing
  BY DEF Init, Blank
<1>2. TypeOK
  <2>1. incoming \in Seq(Message)
    BY DEF Init
  <2>2. watching \in [Hosts -> [Apps -> 0 .. MaxChanges]]
    BY BoundsAssumption DEF Init
  <2>3. /\ info \in [Hosts -> Counted] /\ state \in Table /\ since \in [Clients -> Table]
    BY Tables DEF Init
  <2> QED
    BY <2>1, <2>2, <2>3 DEF Init, TypeOK, SpiderState, Message, ReportMsg
<1>3. \A h \in Hosts : Reports(h) = {Nothing}
  BY <1>1 DEF Reports
<1>4. AtLeast(Nothing, Nothing) /\ DOMAIN Nothing = {}
  BY Tables, AtLeastOrder
<1>5. Complete
  BY DEF Init, Complete
<1>6. Counting
  BY <1>1, <1>3, <1>4 DEF Counting
<1>7. Ascending
  BY <1>1, <1>3, <1>4 DEF Ascending
<1>8. Asking
  BY <1>1 DEF Asking
<1> QED
  BY <1>2, <1>5, <1>6, <1>7, <1>8 DEF Inv

\* Every step preserves it.
LEMMA InvStep == Inv /\ [Next]_vars => Inv'
<1> SUFFICES ASSUME Inv, [Next]_vars PROVE Inv'
  OBVIOUS
<1>1. TypeOK' /\ Complete'
  BY TypeStep DEF Inv
<1>2. Counting' /\ Ascending' /\ Asking'
  BY <1>1, CountingStep, AscendingStep, AskingStep DEF Inv
<1> QED
  BY <1>1, <1>2 DEF Inv

\* The invariant holds in every reachable state.
THEOREM Invariant == Spec => []Inv
  BY InvInit, InvStep, PTL DEF Spec

\* The variables of nodes, spiders, task and clients have their types in every
\* reachable state.
THEOREM TypeCorrect == Spec => []TypeOK
<1>1. Inv => TypeOK
  BY DEF Inv
<1> QED
  BY <1>1, Invariant, PTL

\* Whoever asks for /info is shown numbers that are no older than what any host
\* had reported when it asked, for any number of hosts and pending requests.
THEOREM ShownRecent == Spec => ShownIsRecent
<1> DEFINE Right ==
      \A c \in Clients : client[c] = "asking" /\ client'[c] = "idle" =>
        \A h \in Hosts : AtLeast(state[h], since[c][h])
<1>1. Inv /\ [Next]_vars => Right
  <2> SUFFICES ASSUME Inv, [Next]_vars, NEW c \in Clients,
                      client[c] = "asking", client'[c] = "idle", NEW h \in Hosts
               PROVE  AtLeast(state[h], since[c][h])
    OBVIOUS
  <2>1. Show
    <3>1. ASSUME NEW d \in Clients, Ask(d) PROVE client'[c] # "idle"
      BY <3>1 DEF Ask, Inv, TypeOK
    <3>2. ASSUME NEW g \in Hosts, Report(g) PROVE client' = client
      BY <3>2 DEF Report, clientVars
    <3>3. CASE Insert \/ Quiet
      BY <3>3 DEF Insert, Quiet, clientVars
    <3> QED
      BY <3>1, <3>2, <3>3, QueueStep
  <2>2. /\ 1 \in 1 .. Len(incoming) /\ incoming[1].type = "Oneshot"
        /\ client' = [client EXCEPT ![incoming[1].sender] = "idle"]
    BY <2>1, Taken DEF Show, Receives, Inv
  <2>3. IsAsk(incoming[1], c)
    BY <2>2 DEF IsAsk, Inv, TypeOK
  <2>4. \A j \in 1 .. 1 - 1 : FALSE
    OBVIOUS
  <2> QED
    BY <2>2, <2>3, <2>4 DEF Inv, Asking
<1>2. Inv /\ [Next]_vars => [Right]_vars
  BY <1>1
<1> QED
  BY <1>2, Invariant, PTL DEF Spec, ShownIsRecent
=============================================================================
