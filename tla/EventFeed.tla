------------------------------ MODULE EventFeed ------------------------------
(***************************************************************************)
(* What a subscriber of /events is promised: it sees broadcasts made since *)
(* it subscribed, each at most once and in the order they were made.  Some *)
(* may be missing: a slow subscriber loses events, never their order.      *)
(***************************************************************************)
EXTENDS Integers

CONSTANT Clients

VARIABLES
  sent,   \* broadcasts made, which are numbered from 1
  since,  \* how many had been made when each client subscribed, or -1
  seen    \* the broadcasts each client has been sent

feedVars == <<sent, since, seen>>

FeedInit ==
  /\ sent = 0
  /\ since = [c \in Clients |-> -1]
  /\ seen = [c \in Clients |-> {}]

Subscribe(c) ==
  /\ since[c] = -1
  /\ since' = [since EXCEPT ![c] = sent]
  /\ UNCHANGED <<sent, seen>>

Announce == sent' = sent + 1 /\ UNCHANGED <<since, seen>>

Deliver(c, n) ==
  /\ since[c] # -1 /\ since[c] < n
  /\ \A m \in seen[c] : m < n
  /\ seen' = [seen EXCEPT ![c] = seen[c] \cup {n}]
  /\ UNCHANGED <<sent, since>>

FeedNext ==
  \/ Announce
  \/ \E c \in Clients : Subscribe(c) \/ \E n \in 1..sent : Deliver(c, n)

FeedSpec == FeedInit /\ [][FeedNext]_feedVars
=============================================================================
