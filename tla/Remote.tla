------------------------------- MODULE Remote --------------------------------
(***************************************************************************)
(* The remote control: sendMessage of the Android app (AsdPre1.java) and   *)
(* the TCP server of the firmware (mcu/net.c, on lwIP's callbacks).        *)
(*                                                                         *)
(* A client sends a request and waits, without a time limit, for the line  *)
(* that answers it.  The server closes a connection that has been silent   *)
(* for two seconds (tcp_poll with interval 4); the client learns of that   *)
(* only when it reads, forgets the socket and tries once more on a new     *)
(* one.  tcp_write and tcp_close may lack memory, and the amplifier may    *)
(* lose power.                                                             *)
(*                                                                         *)
(* All settings behave alike here, so there is one, value.  A request and  *)
(* its answer fit one segment each.  server_sent and server_err do         *)
(* nothing; a client that closes its end (server_recv without a pbuf)      *)
(* changes nothing until server_poll closes the other.                     *)
(***************************************************************************)
EXTENDS Integers, Sequences, FiniteSets

CONSTANTS
  Clients,      \* running apps
  Values,       \* values of the setting
  MaxCuts       \* bound on power failures

ASSUME ClientsAssumption == IsFiniteSet(Clients)

\* As many connections as sockets: the ones nobody has are closed.
Conns == 1..Cardinality(Clients)
NoSocket == 0

Get    == [cmd |-> "GET", arg |-> 0]
Set(v) == [cmd |-> "SET", arg |-> v]
Messages == {Get} \cup {Set(v) : v \in Values}
NoMessage == [cmd |-> "none", arg |-> 0]

Answer(x) == [kind |-> "line", x |-> x]
Fin == [kind |-> "fin", x |-> 0]   \* readLine returns null
Rst == [kind |-> "rst", x |-> 0]   \* readLine throws

VARIABLES
  pc,          \* of a client: "idle", "open", "send", "read", "finished"
  message, socket, failCounter,   \* sendMessage's argument and the fields
  answer,      \* what the last sendMessage returned
  conn,        \* the server's end: "none", "open", or "deaf" when the
               \* callbacks are gone and tcp_close did not succeed yet
  polled,      \* tcp_poll is armed
  up, down,    \* the request, and the answers and signals, under way
  value,       \* the setting
  prompt,      \* all goes well: network and app take less than two seconds,
               \* tcp_write and tcp_close have memory, the power stays
  cuts,
  runs, seen, dropped   \* history of the current call: executions of the
                        \* request, values of the setting, why an answer
                        \* was lost

clientVars == <<pc, message, socket, failCounter, answer>>
serverVars == <<conn, polled, value>>
history    == <<runs, seen, dropped>>
vars == <<clientVars, serverVars, up, down, prompt, cuts, history>>

Init ==
  /\ pc = [k \in Clients |-> "idle"]
  /\ message = [k \in Clients |-> NoMessage]
  /\ socket = [k \in Clients |-> NoSocket]
  /\ failCounter = [k \in Clients |-> 0]
  /\ answer = [k \in Clients |-> 0]
  /\ conn = [c \in Conns |-> "none"]
  /\ polled = [c \in Conns |-> FALSE]
  /\ up = [c \in Conns |-> NoMessage]
  /\ down = [c \in Conns |-> <<>>]
  /\ value \in Values
  /\ prompt \in BOOLEAN
  /\ cuts = 0
  /\ runs = [k \in Clients |-> 0]
  /\ seen = [k \in Clients |-> {}]
  /\ dropped = [k \in Clients |-> "no"]

-----------------------------------------------------------------------------
(* The app. *)

\* The user does something that makes the app call sendMessage.
Call(k, m) ==
  /\ pc[k] = "idle"
  /\ pc' = [pc EXCEPT ![k] = IF socket[k] = NoSocket THEN "open" ELSE "send"]
  /\ message' = [message EXCEPT ![k] = m]
  /\ runs' = [runs EXCEPT ![k] = 0]
  /\ seen' = [seen EXCEPT ![k] = {value}]
  /\ dropped' = [dropped EXCEPT ![k] = "no"]
  /\ UNCHANGED <<socket, failCounter, answer, serverVars, up, down, prompt,
                 cuts>>

\* Slip: nobody closes the connection.
UnpolledAccept(c) ==
  /\ conn' = [conn EXCEPT ![c] = "open"]
  /\ polled' = [polled EXCEPT ![c] = FALSE]

\* server_accept registers the callbacks.
server_accept(c) ==
  /\ conn' = [conn EXCEPT ![c] = "open"]
  /\ polled' = [polled EXCEPT ![c] = TRUE]

\* new Socket.
Open(k) ==
  /\ pc[k] = "open"
  /\ \E c \in Conns \ {socket[j] : j \in Clients} :
       /\ conn[c] = "none"
       /\ server_accept(c)
       /\ socket' = [socket EXCEPT ![k] = c]
       /\ up' = [up EXCEPT ![c] = NoMessage]
       /\ down' = [down EXCEPT ![c] = <<>>]
  /\ pc' = [pc EXCEPT ![k] = "send"]
  /\ UNCHANGED <<message, failCounter, answer, value, prompt, cuts, history>>

\* Slip: does not wait for the "OK" that answers a SET.
HastySend(k) ==
  /\ pc[k] = "send"
  /\ up' = [up EXCEPT ![socket[k]] = message[k]]
  /\ pc' = [pc EXCEPT ![k] = IF message[k] = Get THEN "read" ELSE "idle"]
  /\ UNCHANGED <<message, socket, failCounter, answer, serverVars, down, prompt,
                 cuts, history>>

\* out.println, which never throws.
Send(k) ==
  /\ pc[k] = "send"
  /\ up' = [up EXCEPT ![socket[k]] = message[k]]
  /\ pc' = [pc EXCEPT ![k] = "read"]
  /\ UNCHANGED <<message, socket, failCounter, answer, serverVars, down, prompt,
                 cuts, history>>

\* Slip: one failure is enough.
ImpatientGiveUp(k) == failCounter[k] >= 0

\* failCounter++ >= 1
GiveUp(k) == failCounter[k] >= 1

\* in.readLine: an answer, or the end of the connection.  The latter throws
\* away the socket and ends the app, or calls sendMessage again.
Read(k) ==
  /\ pc[k] = "read"
  /\ down[socket[k]] # <<>>
  /\ LET got == Head(down[socket[k]])
     IN  IF got.kind = "line"
           THEN /\ answer' = [answer EXCEPT ![k] = got.x]
                /\ pc' = [pc EXCEPT ![k] = "idle"]
                /\ failCounter' = [failCounter EXCEPT ![k] = 0]
                /\ UNCHANGED socket
           ELSE /\ pc' = [pc EXCEPT ![k] =
                            IF GiveUp(k) THEN "finished" ELSE "open"]
                /\ failCounter' = [failCounter EXCEPT ![k] = @ + 1]
                /\ socket' = [socket EXCEPT ![k] = NoSocket]
                /\ UNCHANGED answer
  /\ down' = [down EXCEPT ![socket[k]] = Tail(@)]
  /\ UNCHANGED <<message, serverVars, up, prompt, cuts, history>>

\* The user starts a finished app again.
Relaunch(k) ==
  /\ pc[k] = "finished"
  /\ pc' = [pc EXCEPT ![k] = "idle"]
  /\ failCounter' = [failCounter EXCEPT ![k] = 0]
  /\ UNCHANGED <<message, socket, answer, serverVars, up, down, prompt, cuts,
                 history>>

-----------------------------------------------------------------------------
(* The server. *)

Owner(c) == {k \in Clients : socket[k] = c}
Seen(v)  == seen' = [k \in Clients |-> seen[k] \cup {v}]

\* Slip: goes on serving a connection whose own direction it has closed.
HalfClosedListening(c) == conn[c] # "deaf"

Listening(c) == conn[c] = "open"

\* server_recv executes the request and answers, if tcp_write can.
server_recv(c) ==
  /\ up[c] # NoMessage /\ Listening(c)
  /\ up' = [up EXCEPT ![c] = NoMessage]
  /\ value' = IF up[c].cmd = "SET" THEN up[c].arg ELSE value
  /\ runs' = [k \in Clients |-> IF k \in Owner(c) THEN runs[k] + 1 ELSE runs[k]]
  /\ Seen(value')
  /\ \/ /\ down' = [down EXCEPT ![c] =
                      Append(@, Answer(IF up[c].cmd = "GET" THEN value ELSE 0))]
        /\ UNCHANGED dropped
     \/ /\ ~prompt
        /\ dropped' = [k \in Clients |-> IF k \in Owner(c) /\ dropped[k] = "no"
                                         THEN "memory" ELSE dropped[k]]
        /\ UNCHANGED down
  /\ UNCHANGED <<clientVars, conn, polled, prompt, cuts>>

\* A request on a connection without callbacks is acknowledged and dropped by
\* lwIP (tcp_recv_null), on one that is closed or unknown it is refused.
Refuse(c) ==
  /\ up[c] # NoMessage /\ ~Listening(c)
  /\ up' = [up EXCEPT ![c] = NoMessage]
  /\ down' = IF conn[c] = "deaf" THEN down
             ELSE [down EXCEPT ![c] = Append(@, Rst)]
  /\ UNCHANGED <<clientVars, serverVars, prompt, cuts, history>>

\* Two seconds of silence.
Silent(c) ==
  prompt => \A k \in Owner(c) :
              /\ pc[k] # "send"
              /\ pc[k] = "read" => up[c] = NoMessage /\ down[c] = <<>>

\* Slip: after a failed tcp_close the poll is not armed again.
CloseOncePoll(c, err) ==
  IF err THEN /\ conn' = [conn EXCEPT ![c] = "deaf"]
              /\ polled' = [polled EXCEPT ![c] = FALSE]
              /\ UNCHANGED down
         ELSE /\ conn' = [conn EXCEPT ![c] = "none"]
              /\ polled' = [polled EXCEPT ![c] = FALSE]
              /\ down' = [down EXCEPT ![c] = Append(@, Fin)]

\* server_poll clears the callbacks and closes; when tcp_close fails it is
\* armed again.
server_poll(c, err) ==
  IF err THEN /\ conn' = [conn EXCEPT ![c] = "deaf"]
              /\ polled' = [polled EXCEPT ![c] = TRUE]
              /\ UNCHANGED down
         ELSE /\ conn' = [conn EXCEPT ![c] = "none"]
              /\ polled' = [polled EXCEPT ![c] = FALSE]
              /\ down' = [down EXCEPT ![c] = Append(@, Fin)]

Poll(c, err) ==
  /\ polled[c] /\ Silent(c)
  /\ err => ~prompt
  /\ server_poll(c, err)
  /\ UNCHANGED <<clientVars, value, up, prompt, cuts, history>>

\* The knob, the button.
Turn(v) ==
  /\ v # value
  /\ value' = v
  /\ Seen(v)
  /\ UNCHANGED <<clientVars, conn, polled, up, down, prompt, cuts, runs, dropped>>

\* The amplifier loses power and comes back with some saved value; what it had
\* not yet sent is lost.
PowerCut ==
  /\ ~prompt /\ cuts < MaxCuts
  /\ cuts' = cuts + 1
  /\ conn' = [c \in Conns |-> "none"]
  /\ polled' = [c \in Conns |-> FALSE]
  /\ down' \in {down, [c \in Conns |-> <<>>]}
  /\ value' \in Values
  /\ Seen(value')
  /\ dropped' = [k \in Clients |-> IF pc[k] = "idle" THEN dropped[k] ELSE "power"]
  /\ UNCHANGED <<clientVars, up, prompt, runs>>

App(k) == Open(k) \/ Send(k) \/ Read(k)

Next ==
  \/ \E k \in Clients : App(k) \/ Relaunch(k) \/ \E m \in Messages : Call(k, m)
  \/ \E c \in Conns : \/ server_recv(c) \/ Refuse(c)
                      \/ \E err \in BOOLEAN : Poll(c, err)
  \/ \E v \in Values : Turn(v)
  \/ PowerCut

Spec == Init /\ [][Next]_vars

\* The app runs, segments arrive, lwIP's timer ticks, and memory that is short
\* gets free again: a tcp_close that is tried again and again succeeds.
Fairness ==
  /\ \A k \in Clients : WF_vars(App(k))
  /\ \A c \in Conns : /\ WF_vars(server_recv(c) \/ Refuse(c))
                      /\ SF_vars(Poll(c, FALSE))

FairSpec == Spec /\ Fairness

-----------------------------------------------------------------------------
\* A sendMessage that returns was executed during the call, and what it
\* returns is the answer to it: a value the setting had since the call began,
\* never the answer to an earlier request.
AnswersHold ==
  [][\A k \in Clients : pc[k] = "read" /\ pc'[k] = "idle" =>
       /\ runs[k] >= 1
       /\ message[k] = Get => answer'[k] \in seen[k]
       /\ message[k] # Get => message[k].arg \in seen[k] /\ answer'[k] = 0]_vars

\* The second attempt repeats no work: a request runs twice only if its answer
\* was lost to want of memory or a power failure.
NotRepeated == \A k \in Clients : runs[k] > 1 => dropped[k] # "no"

\* On a prompt network with memory to spare, the closed connections of idle
\* apps never exhaust the one retry.
NeverFinishes == prompt => \A k \in Clients : pc[k] # "finished"

\* Every sendMessage ends: the server closes what it does not answer.  Only an
\* amplifier that loses power between request and answer leaves the app
\* waiting.
CallsEnd ==
  \A k \in Clients :
    pc[k] \in {"open", "send", "read"} ~>
      pc[k] \in {"idle", "finished"} \/ dropped[k] = "power"
=============================================================================
