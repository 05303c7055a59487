------------------------------- MODULE Fanout -------------------------------
(***************************************************************************)
(* What a topic promises: every subscription is a FIFO queue of its own,   *)
(* each payload goes to all of them at once or to none, and a capacity     *)
(* bounds the longest.  An in-memory queue is a topic with one subscriber  *)
(* that it never loses, and whose Purge hands back what it drops.          *)
(***************************************************************************)
EXTENDS Naturals, Sequences

CONSTANTS
    Subs,      \* who may subscribe
    Payloads   \* what may be published

VARIABLES
    limit,       \* unread payloads the slowest subscription may have, 0: any
    returns,     \* Purge hands back what it drops; fixed when made
    subscribed,  \* the current subscriptions
    unread,      \* the payloads each has not read
    got          \* what the last read or Purge of each returned

fvars == <<limit, returns, subscribed, unread, got>>

FInit ==
    /\ limit \in Nat /\ returns \in BOOLEAN
    /\ subscribed \in SUBSET Subs
    /\ unread = [s \in Subs |-> <<>>]
    /\ got = [s \in Subs |-> <<>>]

Full == limit # 0 /\ \E s \in subscribed : Len(unread[s]) >= limit

\* A payload reaches every subscription, or is refused.
Publish(x) ==
    /\ subscribed # {} /\ ~Full
    /\ unread' = [s \in Subs |-> IF s \in subscribed THEN Append(unread[s], x) ELSE <<>>]
    /\ UNCHANGED <<limit, returns, subscribed, got>>

\* A subscriber reads its oldest unread payload.
Receive(s) ==
    /\ s \in subscribed /\ unread[s] # <<>>
    /\ got' = [got EXCEPT ![s] = <<Head(unread[s])>>]
    /\ unread' = [unread EXCEPT ![s] = Tail(@)]
    /\ UNCHANGED <<limit, returns, subscribed>>

\* A Purge drops the oldest k payloads: what was published before it began.
Purge(s, k) ==
    /\ s \in subscribed
    /\ got' = [got EXCEPT ![s] = IF returns THEN SubSeq(unread[s], 1, k) ELSE <<>>]
    /\ unread' = [unread EXCEPT ![s] = SubSeq(@, k + 1, Len(@))]
    /\ UNCHANGED <<limit, returns, subscribed>>

\* A new subscription starts empty; one that ends drops what it has not read.
Join(s) ==
    /\ s \in Subs \ subscribed
    /\ subscribed' = subscribed \cup {s}
    /\ got' = [got EXCEPT ![s] = <<>>]
    /\ UNCHANGED <<limit, returns, unread>>

Leave(s) ==
    /\ s \in subscribed
    /\ subscribed' = subscribed \ {s}
    /\ unread' = [unread EXCEPT ![s] = <<>>]
    /\ UNCHANGED <<limit, returns, got>>

FNext ==
    \/ \E x \in Payloads : Publish(x)
    \/ \E s \in Subs : Receive(s) \/ Join(s) \/ Leave(s)
    \/ \E s \in Subs : \E k \in 0 .. Len(unread[s]) : Purge(s, k)

FSpec == FInit /\ [][FNext]_fvars
=============================================================================
