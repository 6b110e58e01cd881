-------------------------------- MODULE Feed --------------------------------
(***************************************************************************)
(* What the room's broadcasts promise a websocket client, without queues,   *)
(* goroutines or locks: there is one sequence of broadcasts, a socket is    *)
(* handed some of them, in that order, none of them twice, and never one    *)
(* that leaves its player out.  Messages may be lost.  Outbound implements  *)
(* this specification.                                                      *)
(***************************************************************************)
EXTENDS Naturals, Sequences

CONSTANTS Sock,        \* websocket sessions
          Excludable,  \* what a broadcast may leave out: a player, or nobody
          PlayerOf     \* PlayerOf[s]: the player of session s

VARIABLES feed,   \* feed[i]: the player broadcast i leaves out, or no player
          last    \* last[s]: the last broadcast socket s was handed, 0 for none

Init == feed = << >> /\ last = [s \in Sock |-> 0]

Broadcast == /\ \E x \in Excludable : feed' = Append(feed, x)
             /\ UNCHANGED last

Receive(s) == \E i \in (last[s] + 1) .. Len(feed) :
                 /\ feed[i] # PlayerOf[s]
                 /\ last' = [last EXCEPT ![s] = i]
                 /\ UNCHANGED feed

Next == Broadcast \/ (\E s \in Sock : Receive(s))

Spec == Init /\ [][Next]_<<feed, last>>
=============================================================================
