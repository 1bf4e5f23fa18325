------------------------------ MODULE TimeService ------------------------------
(***************************************************************************)
(* What the queueing time server of Sockets/Task_2 promises its clients,   *)
(* with no threads, descriptors or locks in sight: a client joins the end  *)
(* of a bounded line or is turned away because the line is full; the line  *)
(* is served strictly in order of arrival, every client in it is served    *)
(* once, and a shutdown cuts whoever has not been served.                  *)
(***************************************************************************)
EXTENDS Naturals, Sequences

CONSTANTS
  Clients,   \* every connection that may ever be made
  Capacity   \* how many clients may stand in line

VARIABLES
  line,      \* the clients waiting, in order of arrival
  status,    \* how far each client has come
  open       \* FALSE once the service was shut down

vars == <<line, status, open>>

Statuses == {"new", "arrived", "queued", "serving", "served", "refused", "cut"}

Init ==
  /\ line = <<>>
  /\ status = [c \in Clients |-> "new"]
  /\ open = TRUE

\* A client comes to the door.
Arrive(c) ==
  /\ open
  /\ status[c] = "new"
  /\ status' = [status EXCEPT ![c] = "arrived"]
  /\ UNCHANGED <<line, open>>

\* It joins the line.
Join(c) ==
  /\ open
  /\ status[c] = "arrived"
  /\ Len(line) < Capacity
  /\ line' = Append(line, c)
  /\ status' = [status EXCEPT ![c] = "queued"]
  /\ UNCHANGED open

\* It is turned away: the line is full.
Refuse(c) ==
  /\ open
  /\ status[c] = "arrived"
  /\ Len(line) = Capacity
  /\ status' = [status EXCEPT ![c] = "refused"]
  /\ UNCHANGED <<line, open>>

\* Somebody starts to serve the client at the head of the line.
Take ==
  /\ open
  /\ line # <<>>
  /\ line' = Tail(line)
  /\ status' = [status EXCEPT ![Head(line)] = "serving"]
  /\ UNCHANGED open

Finish(c) ==
  /\ open
  /\ status[c] = "serving"
  /\ status' = [status EXCEPT ![c] = "served"]
  /\ UNCHANGED <<line, open>>

\* The service stops: whoever has arrived and was not served yet never is.
Shutdown ==
  /\ open
  /\ open' = FALSE
  /\ line' = <<>>
  /\ status' = [c \in Clients |->
                  IF status[c] \in {"arrived", "queued", "serving"} THEN "cut" ELSE status[c]]

Next ==
  \/ \E c \in Clients : Arrive(c) \/ Join(c) \/ Refuse(c) \/ Finish(c)
  \/ Take
  \/ Shutdown

Spec == Init /\ [][Next]_vars
================================================================================
