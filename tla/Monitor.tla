------------------------------ MODULE Monitor ------------------------------
(***************************************************************************)
(* xlive-monitor and what it asks of the nodes: a spider per configured    *)
(* host, which polls the monitoring endpoint of that node (monitor.rs of   *)
(* origin, cache and edge, the same code), the Monitor task, which keeps   *)
(* the last numbers of each host, and the HTTP service that shows them.    *)
(*                                                                         *)
(* Of a node there is its monitoring endpoint and its manager, which       *)
(* answers a Snapshot with how many receivers each of its channels has.    *)
(* Players come and go at any moment, so watching[h][a] counts how often   *)
(* the number of app a has changed: the greater of two is the later one.   *)
(***************************************************************************)
EXTENDS Naturals, Sequences, FiniteSets

CONSTANTS
  Hosts,       \* the hosts of config.toml
  Urls,        \* those whose addr is the URL of a node's /monitor
  Apps,        \* app names
  Clients,     \* who asks for /info
  Faults,      \* what happens to a node or to a poll of it
  MaxChanges,  \* bound: changes of one number
  MaxQueue     \* bound: messages to the Monitor task

ASSUME UrlsAssumption == Urls \subseteq Hosts
ASSUME FaultsAssumption == Faults \subseteq {"panic", "crash", "restart", "request"}
ASSUME BoundsAssumption == MaxChanges \in Nat /\ MaxQueue \in Nat \ {0}

VARIABLES
  node,      \* "up", "headless" when its manager is gone, or "down"
  watching,  \* the number of receivers of each channel, as a count of changes
  spider,    \* what each spider is doing
  info,      \* the numbers the node has put together for its poll
  incoming,  \* the queue of the Monitor task
  state,     \* Monitor.state: the last numbers of each host
  client,    \* whether each client of /info is waiting for an answer
  since      \* what each host had reported when it asked

nodeVars    == <<node, watching>>
spiderVars  == <<spider, info>>
clientVars  == <<client, since>>
vars        == <<nodeVars, spiderVars, incoming, state, clientVars>>

SpiderState == {"polling", "waiting", "answered", "cut off", "ended"}

\* A number for each channel; while they are counted there are some.
Numbers == [Apps -> 0 .. MaxChanges]
Counted == UNION {[A -> 0 .. MaxChanges] : A \in SUBSET Apps}

Nothing == [a \in {} |-> 0]
Blank   == [h \in Hosts |-> Nothing]
Table   == [Hosts -> {Nothing} \cup Numbers]

TaskMsg(h, value) == [type |-> "TaskMsg", name |-> h, value |-> value]
Oneshot(c)        == [type |-> "Oneshot", sender |-> c]

TypeOK ==
  /\ node \in [Hosts -> {"up", "headless", "down"}]
  /\ watching \in [Hosts -> [Apps -> 0 .. MaxChanges]]
  /\ spider \in [Hosts -> SpiderState]
  /\ info \in [Hosts -> Counted]
  /\ incoming \in Seq([type : {"TaskMsg"}, name : Hosts, value : Numbers]
                       \cup [type : {"Oneshot"}, sender : Clients])
  /\ state \in Table
  /\ client \in [Clients -> {"idle", "asking"}]
  /\ since \in [Clients -> Table]

Init ==
  /\ node = [h \in Hosts |-> "up"]
  /\ watching = [h \in Hosts |-> [a \in Apps |-> 0]]
  /\ spider = [h \in Hosts |-> "polling"]
  /\ info = Blank
  /\ incoming = <<>>
  /\ state = Blank
  /\ client = [c \in Clients |-> "idle"]
  /\ since = [c \in Clients |-> Blank]

---------------------------------------------------------------------------
(***************************************************************************)
(* A node.                                                                 *)
(***************************************************************************)

\* A player joins or leaves a channel, or the channel comes or goes.
Change(h, a) ==
  /\ node[h] = "up"
  /\ watching[h][a] < MaxChanges
  /\ watching' = [watching EXCEPT ![h][a] = @ + 1]
  /\ UNCHANGED <<node, spiderVars, incoming, state, clientVars>>

\* The manager handles Snapshot: it counts the receivers of one channel after
\* the other, while players come and go.
Count(h, a) ==
  /\ node[h] = "up"
  /\ spider[h] = "waiting"
  /\ a \notin DOMAIN info[h]
  /\ info' = [info EXCEPT ![h] =
       [b \in DOMAIN @ \cup {a} |-> IF b = a THEN watching[h][a] ELSE @[b]]]
  /\ UNCHANGED <<nodeVars, spider, incoming, state, clientVars>>

Respond(h) ==
  /\ node[h] = "up"
  /\ spider[h] = "waiting"
  /\ DOMAIN info[h] = Apps
  /\ spider' = [spider EXCEPT ![h] = "answered"]
  /\ UNCHANGED <<nodeVars, info, incoming, state, clientVars>>

\* A poll that the node has not answered gets what is no table: an empty body
\* when its manager dropped the reply.
CutOff(h) ==
  spider' = [spider EXCEPT ![h] = IF @ = "waiting" THEN "cut off" ELSE @]

\* The manager panics (bind, manager.rs:60); the endpoint goes on.
Panic(h) ==
  /\ "panic" \in Faults
  /\ node[h] = "up"
  /\ node' = [node EXCEPT ![h] = "headless"]
  /\ CutOff(h)
  /\ UNCHANGED <<watching, info, incoming, state, clientVars>>

\* The process ends: its connections are reset, or, when its host is gone with
\* it, silent for ever.
Crash(h) ==
  /\ "crash" \in Faults
  /\ node[h] # "down"
  /\ node' = [node EXCEPT ![h] = "down"]
  /\ CutOff(h) \/ UNCHANGED spider
  /\ UNCHANGED <<watching, info, incoming, state, clientVars>>

\* A poll that the old process left unanswered is not answered by the new one.
Restart(h) ==
  /\ "restart" \in Faults
  /\ node[h] = "down"
  /\ \A a \in Apps : watching[h][a] < MaxChanges
  /\ node' = [node EXCEPT ![h] = "up"]
  /\ watching' = [watching EXCEPT ![h] = [a \in Apps |-> @[a] + 1]]
  /\ CutOff(h)
  /\ UNCHANGED <<info, incoming, state, clientVars>>

---------------------------------------------------------------------------
(***************************************************************************)
(* A spider.  Its interval is made anew for every poll, and the first tick *)
(* of an interval is due at once: it polls again without a pause.          *)
(***************************************************************************)

\* Whatever else makes reqwest fail while the node runs: a reset, an error of the
\* network, no port left for one more request.
RequestFails(h) ==
  /\ "request" \in Faults
  /\ spider[h] \in {"polling", "waiting", "answered"}
  /\ spider' = [spider EXCEPT ![h] = "cut off"]
  /\ UNCHANGED <<nodeVars, info, incoming, state, clientVars>>

\* No URL, no connection, or the 404 of a node without a manager is an error.
Poll(h) ==
  /\ spider[h] = "polling"
  /\ spider' = [spider EXCEPT ![h] =
       IF h \in Urls /\ node[h] = "up" THEN "waiting" ELSE "ended"]
  /\ UNCHANGED <<nodeVars, info, incoming, state, clientVars>>

\* MUTANT of Report: the spider has no loop.
ReportOnce(h) ==
  /\ spider[h] = "answered"
  /\ Len(incoming) < MaxQueue
  /\ incoming' = Append(incoming, TaskMsg(h, info[h]))
  /\ spider' = [spider EXCEPT ![h] = "ended"]
  /\ info' = [info EXCEPT ![h] = Nothing]
  /\ UNCHANGED <<nodeVars, state, clientVars>>

Report(h) ==
  /\ spider[h] = "answered"
  /\ Len(incoming) < MaxQueue
  /\ incoming' = Append(incoming, TaskMsg(h, info[h]))
  /\ spider' = [spider EXCEPT ![h] = "polling"]
  /\ info' = [info EXCEPT ![h] = Nothing]
  /\ UNCHANGED <<nodeVars, state, clientVars>>

\* MUTANT of PollFails: a poll that failed is reported as an empty table.
PollFailsEmpty(h) ==
  /\ spider[h] = "cut off"
  /\ Len(incoming) < MaxQueue
  /\ incoming' = Append(incoming, TaskMsg(h, Nothing))
  /\ spider' = [spider EXCEPT ![h] = "polling"]
  /\ info' = [info EXCEPT ![h] = Nothing]
  /\ UNCHANGED <<nodeVars, state, clientVars>>

\* The error ends run, and the spider with it.
PollFails(h) ==
  /\ spider[h] = "cut off"
  /\ spider' = [spider EXCEPT ![h] = "ended"]
  /\ UNCHANGED <<nodeVars, info, incoming, state, clientVars>>

---------------------------------------------------------------------------
(***************************************************************************)
(* The Monitor task and the HTTP service.                                  *)
(***************************************************************************)
Receives(type) == incoming # <<>> /\ Head(incoming).type = type

Insert ==
  /\ Receives("TaskMsg")
  /\ state' = [state EXCEPT ![Head(incoming).name] = Head(incoming).value]
  /\ incoming' = Tail(incoming)
  /\ UNCHANGED <<nodeVars, spiderVars, clientVars>>

\* The whole table is sent back.
Show ==
  /\ Receives("Oneshot")
  /\ LET c == Head(incoming).sender
     IN  /\ client' = [client EXCEPT ![c] = "idle"]
         /\ since' = [since EXCEPT ![c] = Blank]
  /\ incoming' = Tail(incoming)
  /\ UNCHANGED <<nodeVars, spiderVars, state>>

\* One table is no older than another, in each number.
AtLeast(new, old) ==
  \A a \in DOMAIN old : a \in DOMAIN new /\ new[a] >= old[a]

\* The newest numbers that h has reported, handled or not.
Reported(h) ==
  LET R == {state[h]} \cup {incoming[i].value : i \in {j \in 1 .. Len(incoming) :
              incoming[j].type = "TaskMsg" /\ incoming[j].name = h}}
  IN  CHOOSE r \in R : \A s \in R : AtLeast(r, s)

\* MUTANT of Ask: the request overtakes the reports that wait.
AskFirst(c) ==
  /\ client[c] = "idle"
  /\ Len(incoming) < MaxQueue
  /\ incoming' = <<Oneshot(c)>> \o incoming
  /\ since' = [since EXCEPT ![c] = [h \in Hosts |-> Reported(h)]]
  /\ client' = [client EXCEPT ![c] = "asking"]
  /\ UNCHANGED <<nodeVars, spiderVars, state>>

\* GET /info.
Ask(c) ==
  /\ client[c] = "idle"
  /\ Len(incoming) < MaxQueue
  /\ incoming' = Append(incoming, Oneshot(c))
  /\ since' = [since EXCEPT ![c] = [h \in Hosts |-> Reported(h)]]
  /\ client' = [client EXCEPT ![c] = "asking"]
  /\ UNCHANGED <<nodeVars, spiderVars, state>>

---------------------------------------------------------------------------
Node(h) == Respond(h) \/ \E a \in Apps : Count(h, a)

Spider(h) == Poll(h) \/ Report(h) \/ PollFails(h)

MonitorTask == Insert \/ Show

Environment ==
  \/ \E h \in Hosts : Panic(h) \/ Crash(h) \/ Restart(h) \/ RequestFails(h)
  \/ \E h \in Hosts, a \in Apps : Change(h, a)
  \/ \E c \in Clients : Ask(c)

Next == Environment \/ MonitorTask \/ \E h \in Hosts : Node(h) \/ Spider(h)

Spec == Init /\ [][Next]_vars

\* Tasks that can run are polled, and a manager comes to the Snapshot in its
\* queue: what it waits for before is answered.  A report finds its queue with
\* room again and again, as only the bound can fill it.
FairSpec ==
  /\ Spec
  /\ WF_vars(MonitorTask)
  /\ \A h \in Hosts : WF_vars(Node(h)) /\ WF_vars(Poll(h)) /\ SF_vars(Report(h))

---------------------------------------------------------------------------
(***************************************************************************)
(* Properties.                                                             *)
(***************************************************************************)

\* Who asks for /info is shown what every host had reported by then, or later
\* numbers: a poll is over before the next begins, its report is handled before
\* that of the next, and no request overtakes a report.
ShownIsRecent ==
  [][\A c \in Clients : client[c] = "asking" /\ client'[c] = "idle" =>
       \A h \in Hosts : AtLeast(state[h], since[c][h])]_vars

\* A node that runs and keeps its manager, and none of whose polls fails, is polled
\* for ever, and its numbers are right in the end.  It takes no more than one poll
\* that fails, or an addr without http:// as in config.toml, for its spider to be gone
\* (spider.rs:34).
RunningIsShown ==
  \A h \in Urls :
    [](node[h] = "up" /\ spider[h] # "cut off") => <>[](state[h] = watching[h])
=============================================================================
