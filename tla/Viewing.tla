------------------------------- MODULE Viewing -------------------------------
(***************************************************************************)
(* What the service promises its clients, without threads, maps and        *)
(* locks: a client that asks for a string may be sent frames of that       *)
(* string, and of no other, from then on until its connection object is    *)
(* deleted.  Nothing else makes or ends a subscription, except the end of  *)
(* the process.  VideoService implements it, for clients that send one     *)
(* string.                                                                 *)
(***************************************************************************)
CONSTANTS Client, Key, NoKey

VARIABLES
    up,       \* the process runs
    place,    \* "new", "watching", "leaving" (unsubscribed) or "gone"
    watched,  \* the string a client asked for
    shown     \* the strings under which frames were sent to it

vars == <<up, place, watched, shown>>

Init ==
    /\ up = TRUE
    /\ place = [c \in Client |-> "new"]
    /\ watched = [c \in Client |-> NoKey]
    /\ shown = [c \in Client |-> {}]

Ask(c, k) ==
    /\ up /\ place[c] = "new" /\ watched[c] = NoKey
    /\ watched' = [watched EXCEPT ![c] = k]
    /\ UNCHANGED <<up, place, shown>>

Subscribe(c) ==
    /\ up /\ place[c] = "new" /\ watched[c] # NoKey
    /\ place' = [place EXCEPT ![c] = "watching"]
    /\ UNCHANGED <<up, watched, shown>>

\* A frame may still be on its way to a client that has just unsubscribed.
Show(c) ==
    /\ up /\ place[c] \in {"watching", "leaving"}
    /\ shown' = [shown EXCEPT ![c] = @ \cup {watched[c]}]
    /\ UNCHANGED <<up, place, watched>>

\* The connection closes; it may never have asked for anything.
Unsubscribe(c) ==
    /\ up /\ place[c] = "watching"
    /\ place' = [place EXCEPT ![c] = "leaving"]
    /\ UNCHANGED <<up, watched, shown>>

Leave(c) ==
    /\ up
    /\ place[c] = "leaving" \/ (place[c] = "new" /\ watched[c] = NoKey)
    /\ place' = [place EXCEPT ![c] = "gone"]
    /\ UNCHANGED <<up, watched, shown>>

Crash ==
    /\ up
    /\ up' = FALSE
    /\ place' = [c \in Client |-> "new"]
    /\ watched' = [c \in Client |-> NoKey]
    /\ shown' = [c \in Client |-> {}]

Next ==
    \/ Crash
    \/ \E c \in Client : Subscribe(c) \/ Show(c) \/ Unsubscribe(c) \/ Leave(c)
    \/ \E c \in Client : \E k \in Key : Ask(c, k)

Spec == Init /\ [][Next]_vars
=============================================================================
