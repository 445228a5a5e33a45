------------------------------ MODULE Transport ------------------------------
(***************************************************************************)
(* The gRPC runtime and the network under one streaming call, as the       *)
(* examples 03, 04, 08 and 09 use them (external).  Messages travel in     *)
(* order, at most Window of them in each direction; a sender that finds    *)
(* the window full waits.  The client may close its direction; the status  *)
(* travels behind the server's messages.                                   *)
(*                                                                         *)
(* When the connection is lost the client gets what has arrived and then   *)
(* UNAVAILABLE; the server learns of it later, its reads then end and its  *)
(* writes fail.                                                            *)
(***************************************************************************)
EXTENDS Naturals, Sequences

CONSTANTS Window,  \* messages that fit into one direction
          Faults   \* what may happen: "cut" (the network), "death" (of the
                   \* client process), "kill" (of the server process)

ASSUME WindowAssumption == Window \in Nat \ {0}
ASSUME FaultsAssumption == Faults \subseteq {"cut", "death", "kill"}

VARIABLES
    up,       \* messages on their way to the server
    closed,   \* has the client closed its direction?
    down,     \* messages on their way to the client
    trailer,  \* the status on its way to the client, "none" before
    link,     \* "none" before the call, "up", "cut" (the client side), "reset"
              \* (the server knows, or never had the call)
    process   \* the server: "down", "up", "gone"

messages  == <<up, closed, down>>
transport == <<messages, trailer, link>>

TransportInit == /\ up = <<>>
                 /\ closed = FALSE
                 /\ down = <<>>
                 /\ trailer = "none"
                 /\ link = "none"
                 /\ process = "down"

\* A call to a server that is not there fails at once.
Open == /\ trailer' = IF process = "up" THEN "none" ELSE "UNAVAILABLE"
        /\ link' = IF process = "up" THEN "up" ELSE "reset"
        /\ UNCHANGED <<messages, process>>

\* The client's messages.
Put(m) == /\ trailer = "none" /\ Len(up) < Window
          /\ up' = Append(up, m)
          /\ UNCHANGED <<closed, down, trailer, link, process>>

PutFails == trailer # "none" /\ UNCHANGED <<transport, process>>

Close == closed' = TRUE /\ UNCHANGED <<up, down, trailer, link, process>>

Take == up # <<>> /\ up' = Tail(up) /\ UNCHANGED <<closed, down, trailer, link, process>>

TakeEnds == /\ \/ up = <<>> /\ closed
               \/ link = "reset"
            /\ UNCHANGED <<transport, process>>

\* The server's messages; they go nowhere once the connection is lost.
Reply(m) == /\ link # "reset" /\ Len(down) < Window
            /\ down' = IF link = "up" THEN Append(down, m) ELSE down
            /\ UNCHANGED <<up, closed, trailer, link, process>>

ReplyFails == link = "reset" /\ UNCHANGED <<transport, process>>

Get == down # <<>> /\ down' = Tail(down) /\ UNCHANGED <<up, closed, trailer, link, process>>

GetEnds == down = <<>> /\ trailer # "none" /\ UNCHANGED <<transport, process>>

Conclude(status) == /\ trailer' = IF link = "up" THEN status ELSE trailer
                    /\ UNCHANGED <<messages, link, process>>

\* The connection is lost, and what is on its way to the client may be, too.
Lose == /\ process = "gone" \/ "cut" \in Faults
        /\ link = "up"
        /\ \E n \in 0..Len(down) : down' = SubSeq(down, 1, n)
        /\ trailer' = "UNAVAILABLE"
        /\ link' = "cut"
        /\ UNCHANGED <<up, closed, process>>

\* The client process dies; its end of the call goes with it.
Hangup == /\ "death" \in Faults
          /\ link' = IF link = "up" THEN "cut" ELSE link
          /\ UNCHANGED <<messages, trailer, process>>

\* The server learns that the connection is lost.
Learn == /\ process = "up" /\ link = "cut"
         /\ link' = "reset"
         /\ UNCHANGED <<messages, trailer, process>>

\* The server process: it ends at once when its port is taken.
Listen == process = "down" /\ process' \in {"up", "gone"} /\ UNCHANGED transport

Kill == /\ "kill" \in Faults /\ process = "up"
        /\ process' = "gone"
        /\ UNCHANGED transport
=============================================================================
