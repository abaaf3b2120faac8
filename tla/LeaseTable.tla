----------------------------- MODULE LeaseTable -----------------------------
(***************************************************************************)
(* What xlive-register promises to those that look a stream up, without    *)
(* its queue, its UDP task or its way of forgetting: a table of leases     *)
(* that run out, and lookups that are atomic.                              *)
(***************************************************************************)
EXTENDS Naturals

CONSTANTS
  Names,    \* app names
  Origins,  \* who may hold a lease
  Clients,  \* who looks names up, once each
  None,     \* no holder
  Timeout   \* ticks a lease lasts when it is not renewed

VARIABLES
  lease,    \* the holder of each name and the age of its lease
  client,   \* "idle", "asked" or "answered"
  wanted,   \* the name a client asks for
  offers,   \* what a client may be answered
  answer    \* what it was answered

vars == <<lease, client, wanted, offers, answer>>

NoLease == [holder |-> None, age |-> 0]

Init ==
  /\ lease = [n \in Names |-> NoLease]
  /\ client = [c \in Clients |-> "idle"]
  /\ wanted \in [Clients -> Names]
  /\ offers = [c \in Clients |-> {}]
  /\ answer = [c \in Clients |-> None]

Renew(n, o) ==
  /\ lease' = [lease EXCEPT ![n] = [holder |-> o, age |-> 0]]
  /\ UNCHANGED <<client, wanted, offers, answer>>

End(n) ==
  /\ lease' = [lease EXCEPT ![n] = NoLease]
  /\ UNCHANGED <<client, wanted, offers, answer>>

\* A lease that is not renewed in time is over.
Tick ==
  /\ lease' = [n \in Names |->
       IF lease[n].holder # None /\ lease[n].age + 1 < Timeout
       THEN [lease[n] EXCEPT !.age = @ + 1] ELSE NoLease]
  /\ UNCHANGED <<client, wanted, offers, answer>>

Ask(c) ==
  /\ client[c] = "idle"
  /\ client' = [client EXCEPT ![c] = "asked"]
  /\ UNCHANGED <<lease, wanted, offers, answer>>

\* The holder of the moment, or nobody.
Lookup(c) ==
  /\ client[c] # "idle"
  /\ offers' = [offers EXCEPT ![c] = @ \cup {lease[wanted[c]].holder}]
  /\ UNCHANGED <<lease, client, wanted, answer>>

Lose ==
  /\ offers' \in [Clients -> SUBSET (Origins \cup {None})]
  /\ \A c \in Clients : offers'[c] \subseteq offers[c]
  /\ UNCHANGED <<lease, client, wanted, answer>>

Accept(c) ==
  /\ client[c] = "asked"
  /\ client' = [client EXCEPT ![c] = "answered"]
  /\ \E o \in offers[c] :
       /\ answer' = [answer EXCEPT ![c] = o]
       /\ offers' \in {offers, [offers EXCEPT ![c] = @ \ {o}]}
  /\ UNCHANGED <<lease, wanted>>

Next ==
  \/ \E n \in Names : End(n) \/ \E o \in Origins : Renew(n, o)
  \/ Tick
  \/ Lose
  \/ \E c \in Clients : Ask(c) \/ Lookup(c) \/ Accept(c)

Spec == Init /\ [][Next]_vars
=============================================================================
