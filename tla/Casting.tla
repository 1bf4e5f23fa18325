--------------------------------- MODULE Casting --------------------------------
(***************************************************************************)
(* Sockets/Task_3, BroadCast and MultiCast: a sender sends Times datagrams *)
(* to everybody on port 7777 and ends; a receiver takes Times of them, from *)
(* whichever runs of the sender, and ends.  What is sent before bind() (and *)
(* the membership of the group) a receiver never sees.                     *)
(***************************************************************************)
EXTENDS Integers

CONSTANTS
  Receivers,
  Times,   \* 10 in the code
  Room,    \* datagrams a socket holds
  MaxRuns, \* bound: how often the sender is started
  MaxLost  \* bound: datagrams the network loses on the way to one receiver

VARIABLES
  left,     \* how many datagrams the running sender has still to send
  runs,
  at,       \* at[r]: "off", "bound", "gone"
  buffer,   \* buffer[r]: datagrams in its socket
  received, \* received[r]
  sent,     \* sent[r]: how many were sent since r is bound
  lost      \* lost[r]: by the network, or for want of room

vars == <<left, runs, at, buffer, received, sent, lost>>

Init ==
  /\ left = 0 /\ runs = 0
  /\ at = [r \in Receivers |-> "off"]
  /\ buffer = [r \in Receivers |-> 0] /\ received = [r \in Receivers |-> 0]
  /\ sent = [r \in Receivers |-> 0] /\ lost = [r \in Receivers |-> 0]

Start ==
  /\ left = 0 /\ runs < MaxRuns
  /\ left' = Times /\ runs' = runs + 1
  /\ UNCHANGED <<at, buffer, received, sent, lost>>

Bind(r) ==
  /\ at[r] = "off"
  /\ at' = [at EXCEPT ![r] = "bound"]
  /\ UNCHANGED <<left, runs, buffer, received, sent, lost>>

\* sendto() never waits for a receiver; each that has room gets the datagram unless
\* the network loses it for him.
Send ==
  /\ left > 0
  /\ left' = left - 1
  /\ \E unlucky \in SUBSET Receivers :
       LET Here == {r \in Receivers : at[r] = "bound"}
           Gets == {r \in Here \ unlucky : buffer[r] < Room}
       IN  /\ \A r \in unlucky : r \in Here /\ lost[r] < MaxLost
           /\ buffer' = [r \in Receivers |-> buffer[r] + IF r \in Gets THEN 1 ELSE 0]
           /\ sent' = [r \in Receivers |-> sent[r] + IF r \in Here THEN 1 ELSE 0]
           /\ lost' = [r \in Receivers |-> lost[r] + IF r \in Here \ Gets THEN 1 ELSE 0]
  /\ UNCHANGED <<runs, at, received>>

Receive(r) ==
  /\ at[r] = "bound" /\ buffer[r] > 0
  /\ buffer' = [buffer EXCEPT ![r] = @ - 1]
  /\ received' = [received EXCEPT ![r] = @ + 1]
  /\ at' = [at EXCEPT ![r] = IF received[r] + 1 = Times THEN "gone" ELSE @]
  /\ UNCHANGED <<left, runs, sent, lost>>

Next == Start \/ Send \/ \E r \in Receivers : Bind(r) \/ Receive(r)

--------------------------------------------------------------------------------
\* A receiver for whom Times datagrams have come since it was bound, besides those
\* that were lost for it, ends; one that came in the middle of a run waits for the
\* next (BroadCast/receiver.c:39-51, MultiCast/receiver.c:35-54).
ReceiversEnd ==
  \A r \in Receivers :
    (at[r] = "bound" /\ sent[r] - lost[r] >= Times) ~> (at[r] = "gone")
================================================================================
