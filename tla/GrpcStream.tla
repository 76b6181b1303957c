----------------------------- MODULE GrpcStream -----------------------------
(***************************************************************************)
(* The bidirectional stream RemCmdStrm as gRPC provides it to both ends    *)
(* (gRPC is not part of the repository; this is what its users rely on).   *)
(*                                                                         *)
(* Each direction is a reliable FIFO as long as the call is open, bounded  *)
(* by a flow-control window.  When the call is torn down the messages in   *)
(* flight may or may not reach the other end.  A sequence never shrinks:   *)
(* it records everything that was put on the wire, and the cursors taken   *)
(* and got say how far the other end has read.                             *)
(***************************************************************************)
EXTENDS Sequences, Integers

CONSTANTS
    Calls,           \* identities of RemCmdStrm calls
    Window,          \* messages a direction holds before its writer blocks
    TransportCodes   \* statuses gRPC synthesizes when a call breaks

ASSUME WindowAssumption == Window \in Nat \ {0}

VARIABLES
    net,     \* net[c]: "idle" (not started), "open" or "closed"
    c2s,     \* c2s[c]: requests put on the wire, oldest first
    half,    \* half[c]: the client has half-closed (done_writing / WritesDone)
    taken,   \* taken[c]: number of requests the handler has read
    s2c,     \* s2c[c]: responses put on the wire, oldest first
    got,     \* got[c]: number of responses the client has read
    cstat    \* cstat[c]: the status the client sees, "none" until the call ends

streamVars == <<net, c2s, half, taken, s2c, got, cstat>>

StreamInit ==
    /\ net   = [c \in Calls |-> "idle"]
    /\ c2s   = [c \in Calls |-> <<>>]
    /\ half  = [c \in Calls |-> FALSE]
    /\ taken = [c \in Calls |-> 0]
    /\ s2c   = [c \in Calls |-> <<>>]
    /\ got   = [c \in Calls |-> 0]
    /\ cstat = [c \in Calls |-> "none"]

-----------------------------------------------------------------------------
(* What the ends do.  Each leaves the variables it does not name to the    *)
(* action that uses it.                                                    *)

OpenCall(c) == net[c] = "idle" /\ net' = [net EXCEPT ![c] = "open"]

\* write() of the client: the message is on the wire when there is room.
PutRequest(c, req) ==
    /\ net[c] = "open"
    /\ Len(c2s[c]) - taken[c] < Window
    /\ c2s' = [c2s EXCEPT ![c] = Append(@, req)]

\* The half-close reaches the peer only on a call that is still open.
HalfClose(c) == half' = [half EXCEPT ![c] = @ \/ net[c] = "open"]

RequestReady(c) == taken[c] < Len(c2s[c])

\* Mutant of TakeRequest: the cursor moves twice.
TakeTwo(c) == taken' = [taken EXCEPT ![c] = @ + 2]

TakeRequest(c) == taken' = [taken EXCEPT ![c] = @ + 1]

\* Read() returns false: the peer half-closed and everything was read, or the
\* call is gone (messages not yet read may then be lost).
ReadReturnsFalse(c) ==
    \/ net[c] = "closed"
    \/ half[c] /\ ~RequestReady(c)

\* Write() of the server: blocks while the window is full, and returns false
\* without effect when the call is gone.
PutResponse(c, res) ==
    \/ /\ net[c] = "open"
       /\ Len(s2c[c]) - got[c] < Window
       /\ s2c' = [s2c EXCEPT ![c] = Append(@, res)]
    \/ /\ net[c] = "closed"
       /\ UNCHANGED s2c

ResponseReady(c) == got[c] < Len(s2c[c])

TakeResponse(c) == got' = [got EXCEPT ![c] = @ + 1]

\* The call ends for the client with status code.
CloseCall(c, code) ==
    /\ net'   = [net EXCEPT ![c] = "closed"]
    /\ cstat' = [cstat EXCEPT ![c] = IF @ = "none" THEN code ELSE @]

-----------------------------------------------------------------------------
(* What the network does.                                                  *)

\* The connection breaks (or was never made); the client does not know yet.
ConnLost(c) ==
    /\ net[c] = "open"
    /\ net' = [net EXCEPT ![c] = "closed"]
    /\ UNCHANGED <<c2s, half, taken, s2c, got, cstat>>

\* The client's gRPC library reports the broken call.
LossReported(c, code) ==
    /\ net[c] = "closed" /\ cstat[c] = "none"
    /\ cstat' = [cstat EXCEPT ![c] = code]
    /\ UNCHANGED <<net, c2s, half, taken, s2c, got>>

\* Mutant of DeadlineFires: the call was started without a deadline.
DeadlineMissing(c) == FALSE /\ UNCHANGED streamVars

\* The deadline the client gave the call passes.
DeadlineFires(c) ==
    /\ net[c] # "idle" /\ cstat[c] = "none"
    /\ CloseCall(c, "DEADLINE_EXCEEDED")
    /\ UNCHANGED <<c2s, half, taken, s2c, got>>
=============================================================================
