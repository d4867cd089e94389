---------------------------- MODULE RemoteProofs ----------------------------
(***************************************************************************)
(* The remote control of module Remote, for any number of apps, any values *)
(* of the setting and any number of power failures.                        *)
(***************************************************************************)
EXTENDS Remote, FiniteSetTheorems, TLAPS

-----------------------------------------------------------------------------
(* The inductive invariant. *)

Signals == [kind : {"line", "fin", "rst"}, x : Values \cup {0}]
Requests == Messages \cup {NoMessage}

TypeInv ==
  /\ pc \in [Clients -> {"idle", "open", "send", "read", "finished"}]
  /\ message \in [Clients -> Requests]
  /\ socket \in [Clients -> Conns \cup {NoSocket}]
  /\ failCounter \in [Clients -> Nat]
  /\ answer \in [Clients -> Values \cup {0}]
  /\ conn \in [Conns -> {"none", "open", "deaf"}]
  /\ polled \in [Conns -> BOOLEAN]
  /\ up \in [Conns -> Requests]
  /\ down \in [Conns -> Seq(Signals)]
  /\ value \in Values /\ prompt \in BOOLEAN
  /\ runs \in [Clients -> Nat]
  /\ seen \in [Clients -> SUBSET Values]
  /\ dropped \in [Clients -> {"no", "memory", "power"}]

\* Every connection has one app at most.  The server has forgotten those
\* without an app (SocketInv) and those it signalled to be over (EndInv).
SocketInv ==
  /\ \A j, k \in Clients : socket[j] = socket[k] /\ socket[j] # NoSocket => j = k
  /\ \A k \in Clients : /\ pc[k] \in {"send", "read"} => socket[k] # NoSocket
                        /\ pc[k] \in {"open", "finished"} => socket[k] = NoSocket
  /\ \A c \in Conns : conn[c] # "none" => \E k \in Clients : socket[k] = c
  /\ \A c \in Conns : polled[c] => conn[c] # "none"

EndInv ==
  \A c \in Conns : \A i \in 1 .. Len(down[c]) :
    down[c][i].kind # "line" => conn[c] = "none"

\* What may be the answer to the request of k.
Answers(k, x) == IF message[k] = Get THEN x \in seen[k]
                                     ELSE x = 0 /\ message[k].arg \in seen[k]

\* A line is under way only to an app that waits for it, ahead of any signal,
\* and when the request has run; the request is not under way any more.
OnLine(k) ==
  /\ up[socket[k]] # NoMessage => pc[k] = "read" /\ up[socket[k]] = message[k]
  /\ \A i \in 1 .. Len(down[socket[k]]) :
       down[socket[k]][i].kind = "line" =>
         /\ i = 1 /\ pc[k] = "read" /\ up[socket[k]] = NoMessage /\ runs[k] >= 1
         /\ Answers(k, down[socket[k]][i].x)

LineInv == \A k \in Clients : socket[k] # NoSocket => OnLine(k)

\* A request that ran is answered, or the answer was lost.
Answered(k) == pc[k] = "read" /\ down[socket[k]] # <<>>
                              /\ down[socket[k]][1].kind = "line"

CallInv ==
  \A k \in Clients :
    /\ pc[k] \in {"open", "send", "read"} => value \in seen[k] /\ message[k] \in Messages
    /\ dropped[k] = "no" =>
         runs[k] = 0 \/ (runs[k] = 1 /\ (pc[k] = "idle" \/ Answered(k)))

\* In a second attempt the connection is young: the server has it and a
\* request, an answer or the app that sends one keeps it.
PromptInv ==
  prompt =>
    /\ \A c \in Conns : conn[c] # "deaf"
    /\ \A k \in Clients :
         /\ pc[k] # "finished" /\ failCounter[k] \in {0, 1}
         /\ pc[k] = "idle" => failCounter[k] = 0
         /\ failCounter[k] = 1 /\ pc[k] # "open" =>
              /\ conn[socket[k]] = "open"
              /\ pc[k] = "read" => up[socket[k]] # NoMessage \/ down[socket[k]] # <<>>

IInv == TypeInv /\ SocketInv /\ EndInv /\ LineInv /\ CallInv /\ PromptInv

-----------------------------------------------------------------------------
(* Signals under way. *)

LEMMA SignalKinds ==
  /\ \A x \in Values \cup {0} : Answer(x) \in Signals /\ Answer(x).kind = "line"
                                  /\ Answer(x).x = x
  /\ Fin \in Signals /\ Fin.kind = "fin"
  /\ Rst \in Signals /\ Rst.kind = "rst"
BY Zenon DEF Answer, Fin, Rst, Signals

LEMMA MessageKinds ==
  /\ NoMessage \notin Messages
  /\ \A m \in Messages : \/ m = Get /\ m.cmd = "GET"
                         \/ m # Get /\ m.cmd = "SET" /\ m.arg \in Values
<1>1. Get.cmd = "GET" /\ NoMessage.cmd = "none"
  BY Zenon DEF Get, NoMessage
<1>2. \A v \in Values : Set(v).cmd = "SET" /\ Set(v).arg = v
  BY Zenon DEF Set
<1>3. \A m \in Messages : m = Get \/ \E v \in Values : m = Set(v)
  BY Zenon DEF Messages
<1>4. \A v \in Values : Set(v) # Get /\ Set(v) # NoMessage
  BY <1>1, <1>2, Zenon
<1>5. \A m \in Messages : \/ m = Get /\ m.cmd = "GET"
                          \/ m # Get /\ m.cmd = "SET" /\ m.arg \in Values
  BY <1>1, <1>2, <1>3, <1>4, Zenon
<1>6. Get # NoMessage
  BY <1>1, Zenon
<1> QED
  BY <1>3, <1>4, <1>5, <1>6, Zenon

LEMMA NoSocketOpen == NoSocket \notin Conns
BY DEF Conns, NoSocket

\* A sequence with one more at its end, and without its first.
LEMMA Longer ==
  ASSUME NEW S, NEW s \in Seq(S), NEW e \in S
  PROVE  /\ Append(s, e) \in Seq(S) /\ Append(s, e) # <<>>
         /\ \A i \in 1 .. Len(Append(s, e)) :
              \/ i \in 1 .. Len(s) /\ Append(s, e)[i] = s[i]
              \/ i = Len(s) + 1 /\ Append(s, e)[i] = e
         /\ \A i \in 1 .. Len(s) : /\ i \in 1 .. Len(Append(s, e))
                                   /\ Append(s, e)[i] = s[i]
         /\ s = <<>> => Append(s, e)[1] = e /\ Len(Append(s, e)) = 1
         /\ s # <<>> => Append(s, e)[1] = s[1]
OBVIOUS

LEMMA Shorter ==
  ASSUME NEW S, NEW s \in Seq(S), s # <<>>
  PROVE  /\ Tail(s) \in Seq(S) /\ Head(s) = s[1] /\ 1 \in 1 .. Len(s)
         /\ \A i \in 1 .. Len(Tail(s)) : /\ i + 1 \in 1 .. Len(s)
                                         /\ Tail(s)[i] = s[i + 1]
         /\ s[1] \in S
OBVIOUS

-----------------------------------------------------------------------------
(* The app's steps. *)

\* No step takes a value from those seen, and an app that does not move stays
\* on line when no line comes to it.
LEMMA OnLineKept ==
  ASSUME NEW k, OnLine(k), pc'[k] = pc[k], message'[k] = message[k],
         socket'[k] = socket[k], runs'[k] = runs[k], seen[k] \subseteq seen'[k],
         up'[socket[k]] = up[socket[k]] \/ up'[socket[k]] = NoMessage,
         \A i \in 1 .. Len(down'[socket[k]]) : down'[socket[k]][i].kind = "line" =>
           i \in 1 .. Len(down[socket[k]]) /\ down'[socket[k]][i] = down[socket[k]][i]
  PROVE  OnLine(k)'
<1>1. ASSUME NEW x, Answers(k, x) PROVE IF message'[k] = Get THEN x \in seen'[k]
                                        ELSE x = 0 /\ message'[k].arg \in seen'[k]
  BY <1>1, Zenon DEF Answers
<1>2. ASSUME NEW i \in 1 .. Len(down'[socket[k]]), down'[socket[k]][i].kind = "line"
      PROVE  /\ i = 1 /\ pc'[k] = "read" /\ up'[socket[k]] = NoMessage /\ runs'[k] >= 1
             /\ Answers(k, down[socket[k]][i].x)'
  <2>1. /\ i \in 1 .. Len(down[socket[k]]) /\ down'[socket[k]][i] = down[socket[k]][i]
        /\ down[socket[k]][i].kind = "line"
    BY <1>2, Zenon
  <2>2. /\ i = 1 /\ pc[k] = "read" /\ up[socket[k]] = NoMessage /\ runs[k] >= 1
        /\ Answers(k, down[socket[k]][i].x)
    BY <2>1, Zenon DEF OnLine
  <2> QED
    BY <1>1, <2>1, <2>2, Zenon DEF Answers
<1>3. up'[socket[k]] # NoMessage => pc'[k] = "read" /\ up'[socket[k]] = message'[k]
  BY Zenon DEF OnLine
<1> QED
  BY <1>2, <1>3, Zenon DEF OnLine, Answers

LEMMA InitIInv == Init => IInv
<1> SUFFICES ASSUME Init PROVE IInv
  BY Zenon
<1>1. TypeInv
  BY DEF Init, TypeInv, Requests
<1>2. SocketInv /\ EndInv
  BY Zenon DEF Init, SocketInv, EndInv
<1>3. LineInv
  BY Zenon DEF Init, LineInv, OnLine
<1>4. CallInv
  BY Zenon DEF Init, CallInv
<1>5. PromptInv
  BY DEF Init, PromptInv
<1> QED
  BY <1>1, <1>2, <1>3, <1>4, <1>5, Zenon DEF IInv

LEMMA CallIInv ==
  ASSUME IInv, NEW k \in Clients, NEW m \in Messages, Call(k, m)
  PROVE  IInv'
<1> USE DEF IInv
<1>1. TypeInv'
  BY Zenon DEF Call, serverVars, TypeInv, Requests
<1>2. SocketInv' /\ EndInv'
  BY ZenonT(30) DEF Call, serverVars, SocketInv, EndInv, TypeInv
<1>3. LineInv'
  BY DEF Call, serverVars, LineInv, OnLine, TypeInv, Answers
<1>4. CallInv'
  BY DEF Call, serverVars, CallInv, TypeInv, Answered
<1>5. PromptInv'
  BY Zenon DEF Call, serverVars, PromptInv, TypeInv
<1> QED
  BY <1>1, <1>2, <1>3, <1>4, <1>5, Zenon DEF IInv

LEMMA RelaunchIInv ==
  ASSUME IInv, NEW k \in Clients, Relaunch(k)
  PROVE  IInv'
<1> USE DEF IInv
<1>1. TypeInv'
  BY Zenon DEF Relaunch, serverVars, history, TypeInv, Requests
<1>2. SocketInv' /\ EndInv'
  BY ZenonT(30) DEF Relaunch, serverVars, history, SocketInv, EndInv, TypeInv
<1>3. LineInv'
  BY DEF Relaunch, serverVars, history, LineInv, OnLine, TypeInv, Answers,
     SocketInv
<1>4. CallInv'
  BY Zenon DEF Relaunch, serverVars, history, CallInv, TypeInv, Answered
<1>5. PromptInv'
  BY Zenon DEF Relaunch, serverVars, history, PromptInv, TypeInv
<1> QED
  BY <1>1, <1>2, <1>3, <1>4, <1>5, Zenon DEF IInv

LEMMA SendIInv ==
  ASSUME IInv, NEW k \in Clients, Send(k)
  PROVE  IInv'
<1> USE DEF IInv
<1>0. socket[k] \in Conns /\ socket[k] # NoSocket
  BY DEF Send, SocketInv, TypeInv
<1>1. TypeInv'
  BY <1>0, Zenon DEF Send, serverVars, history, TypeInv, Requests
<1>2. SocketInv' /\ EndInv'
  BY <1>0 DEF Send, serverVars, history, SocketInv, EndInv, TypeInv
<1>3. LineInv'
  BY <1>0 DEF Send, serverVars, history, LineInv, OnLine, TypeInv, Answers,
     SocketInv
<1>4. CallInv'
  BY <1>0, Zenon DEF Send, serverVars, history, CallInv, TypeInv, Answered
<1>5. PromptInv'
  BY <1>0, MessageKinds DEF Send, serverVars, history, PromptInv, TypeInv,
     CallInv
<1> QED
  BY <1>1, <1>2, <1>3, <1>4, <1>5, Zenon DEF IInv

LEMMA OpenIInv ==
  ASSUME IInv, NEW k \in Clients, Open(k)
  PROVE  IInv'
<1>0. /\ TypeInv /\ SocketInv /\ EndInv /\ LineInv /\ CallInv /\ PromptInv
      /\ pc[k] = "open" /\ pc' = [pc EXCEPT ![k] = "send"]
      /\ UNCHANGED <<message, failCounter, answer, value, prompt, cuts, runs, seen, dropped>>
  BY Zenon DEF IInv, Open, history
<1>1. PICK c \in Conns \ {socket[j] : j \in Clients} :
        /\ conn[c] = "none" /\ server_accept(c)
        /\ socket' = [socket EXCEPT ![k] = c]
        /\ up' = [up EXCEPT ![c] = NoMessage]
        /\ down' = [down EXCEPT ![c] = <<>>]
  BY Zenon DEF Open
<1>2. /\ c \in Conns /\ c # NoSocket /\ \A j \in Clients : socket[j] # c
      /\ conn' = [conn EXCEPT ![c] = "open"] /\ polled' = [polled EXCEPT ![c] = TRUE]
  BY <1>1, NoSocketOpen, Zenon DEF server_accept
<1>3. TypeInv'
  BY <1>0, <1>1, <1>2 DEF TypeInv, Requests
<1>4. SocketInv'
  <2>1. /\ socket'[k] = c /\ pc'[k] = "send"
        /\ \A j \in Clients \ {k} : socket'[j] = socket[j] /\ pc'[j] = pc[j]
        /\ conn'[c] = "open"
        /\ \A d \in Conns \ {c} : conn'[d] = conn[d] /\ polled'[d] = polled[d]
    BY <1>0, <1>1, <1>2, Zenon DEF TypeInv
  <2>2. socket[k] = NoSocket
    BY <1>0, Zenon DEF SocketInv
  <2>a. /\ \A i, j \in Clients : socket[i] = socket[j] /\ socket[i] # NoSocket => i = j
        /\ \A d \in Conns : conn[d] # "none" => \E j \in Clients : socket[j] = d
    BY <1>0, Zenon DEF SocketInv
  <2>3. \A i, j \in Clients : socket'[i] = socket'[j] /\ socket'[i] # NoSocket => i = j
    BY <1>2, <2>1, <2>a
  <2>4. \A d \in Conns : conn'[d] # "none" => \E j \in Clients : socket'[j] = d
    BY <1>2, <2>1, <2>2, <2>a, NoSocketOpen
  <2> QED
    BY <1>0, <1>2, <2>1, <2>3, <2>4 DEF SocketInv
<1>5. EndInv'
  BY <1>0, <1>1, <1>2 DEF EndInv, TypeInv
<1>6. LineInv'
  <2> SUFFICES ASSUME NEW j \in Clients, socket'[j] # NoSocket PROVE OnLine(j)'
    BY Zenon DEF LineInv
  <2>1. CASE j = k
    <3>1. socket'[k] = c /\ up'[c] = NoMessage /\ 1 .. Len(down'[c]) = {}
      BY <1>0, <1>1, <1>2 DEF TypeInv
    <3> QED
      BY <2>1, <3>1, Zenon DEF OnLine
  <2>2. CASE j # k
    <3>1. /\ socket'[j] = socket[j] /\ pc'[j] = pc[j] /\ socket[j] \in Conns \ {c}
          /\ up'[socket[j]] = up[socket[j]] /\ down'[socket[j]] = down[socket[j]]
      BY <1>0, <1>1, <1>2, <2>2, Zenon DEF TypeInv
    <3>2. OnLine(j)
      BY <1>0, <3>1, Zenon DEF LineInv
    <3> QED
      BY <1>0, <3>1, <3>2, OnLineKept, Zenon
  <2> QED
    BY <2>1, <2>2, Zenon
<1>7. CallInv'
  BY <1>0, <1>1, <1>2 DEF CallInv, TypeInv, Answered, SocketInv
<1>8. PromptInv'
  BY <1>0, <1>1, <1>2 DEF PromptInv, TypeInv
<1> QED
  BY <1>3, <1>4, <1>5, <1>6, <1>7, <1>8, Zenon DEF IInv

LEMMA ReadIInv ==
  ASSUME IInv, NEW k \in Clients, Read(k)
  PROVE  IInv'
<1> DEFINE c == socket[k]  s == down[c]
<1>0. /\ TypeInv /\ SocketInv /\ EndInv /\ LineInv /\ CallInv /\ PromptInv
      /\ pc[k] = "read" /\ c \in Conns /\ c # NoSocket
      /\ s # <<>> /\ s \in Seq(Signals)
      /\ down' = [down EXCEPT ![c] = Tail(s)]
      /\ UNCHANGED <<message, conn, polled, value, up, prompt, cuts, runs, seen, dropped>>
  BY SMTT(30) DEF IInv, Read, SocketInv, TypeInv, serverVars, history
<1>1. /\ Tail(s) \in Seq(Signals) /\ Head(s) = s[1] /\ 1 \in 1 .. Len(s)
      /\ \A i \in 1 .. Len(Tail(s)) : i + 1 \in 1 .. Len(s) /\ Tail(s)[i] = s[i + 1]
      /\ s[1] \in Signals
  BY <1>0, Shorter, Zenon
<1>2. s[1].kind \in {"line", "fin", "rst"} /\ s[1].x \in Values \cup {0}
  BY <1>1, Zenon DEF Signals
<1>a. \A j \in Clients \ {k} : socket[j] # NoSocket =>
        socket[j] \in Conns \ {c} /\ down'[socket[j]] = down[socket[j]]
  <2>1. \A j \in Clients \ {k} : socket[j] # NoSocket => socket[j] \in Conns \ {c}
    BY <1>0 DEF SocketInv, TypeInv
  <2>2. \A d \in Conns \ {c} : down'[d] = down[d]
    BY <1>0, Zenon DEF TypeInv
  <2> QED
    BY <2>1, <2>2, Zenon
<1>b. down'[c] = Tail(s)
  BY <1>0, Zenon DEF TypeInv
<1>3. CASE s[1].kind = "line"
  <2>0. /\ answer' = [answer EXCEPT ![k] = s[1].x]
        /\ pc' = [pc EXCEPT ![k] = "idle"]
        /\ failCounter' = [failCounter EXCEPT ![k] = 0]
        /\ UNCHANGED socket
    BY <1>1, <1>3, Zenon DEF Read
  <2>a. pc'[k] = "idle" /\ \A j \in Clients \ {k} : pc'[j] = pc[j]
    BY <1>0, <2>0, Zenon DEF TypeInv
  <2>1. TypeInv'
    BY <1>0, <1>1, <1>2, <2>0, Zenon DEF TypeInv
  <2>2. SocketInv'
    BY <1>0, <2>0, <2>a, Zenon DEF SocketInv
  <2>b. EndInv'
    <3>1. \A d \in Conns \ {c} : down'[d] = down[d]
      BY <1>0, Zenon DEF TypeInv
    <3>2. \A i \in 1 .. Len(down'[c]) : down'[c][i].kind # "line" => conn[c] = "none"
      <4>1. ASSUME NEW i \in 1 .. Len(Tail(s)), Tail(s)[i].kind # "line"
            PROVE  conn[c] = "none"
        <5>1. i + 1 \in 1 .. Len(s) /\ s[i + 1].kind # "line"
          BY <1>1, <4>1, Zenon
        <5> QED
          BY <1>0, <5>1, Zenon DEF EndInv
      <4> QED
        BY <1>b, <4>1, Zenon
    <3> QED
      BY <1>0, <3>1, <3>2, ZenonT(30) DEF EndInv
  <2>3. LineInv'
    <3> SUFFICES ASSUME NEW j \in Clients, socket[j] # NoSocket, OnLine(j)
                 PROVE  OnLine(j)'
      BY <1>0, <2>0, Zenon DEF LineInv
    <3>1. CASE j = k
      <4>1. up'[c] = NoMessage
        BY <1>0, <1>1, <1>3, <3>1, Zenon DEF OnLine
      <4>2. ASSUME NEW i \in 1 .. Len(Tail(s)), Tail(s)[i].kind = "line" PROVE FALSE
        <5>1. i + 1 = 1
          BY <1>1, <3>1, <4>2, Zenon DEF OnLine
        <5> QED
          BY <5>1
      <4> QED
        BY <1>b, <2>0, <3>1, <4>1, <4>2, Zenon DEF OnLine
    <3>2. CASE j # k
      BY <1>0, <1>a, <2>0, <2>a, <3>2, OnLineKept, Zenon
    <3> QED
      BY <3>1, <3>2, Zenon
  <2>4. CallInv'
    <3>1. \A j \in Clients \ {k} : Answered(j) => Answered(j)'
      <4>1. \A j \in Clients : Answered(j) => socket[j] # NoSocket
        BY <1>0, Zenon DEF Answered, SocketInv
      <4> QED
        BY <1>a, <2>0, <2>a, <4>1, Zenon DEF Answered
    <3> QED
      BY <1>0, <2>a, <3>1, Zenon DEF CallInv
  <2>5. PromptInv'
    <3>1. /\ failCounter'[k] = 0 /\ failCounter'[k] # 1
          /\ \A j \in Clients \ {k} : failCounter'[j] = failCounter[j]
      BY <1>0, <2>0 DEF TypeInv
    <3>2. \A j \in Clients \ {k} : pc[j] = "read" => down'[socket[j]] = down[socket[j]]
      BY <1>0, <1>a, Zenon DEF SocketInv
    <3> SUFFICES ASSUME prompt, NEW j \in Clients
                 PROVE  /\ pc'[j] # "finished" /\ failCounter'[j] \in {0, 1}
                        /\ pc'[j] = "idle" => failCounter'[j] = 0
                        /\ failCounter'[j] = 1 /\ pc'[j] # "open" =>
                             /\ conn[socket[j]] = "open"
                             /\ pc'[j] = "read" => \/ up[socket[j]] # NoMessage
                                                   \/ down'[socket[j]] # <<>>
      BY <1>0, <2>0, ZenonT(30) DEF PromptInv
    <3>3. CASE j # k
      <4>1. /\ pc'[j] = pc[j] /\ failCounter'[j] = failCounter[j]
            /\ pc[j] = "read" => down'[socket[j]] = down[socket[j]]
        BY <2>a, <3>1, <3>2, <3>3, Zenon
      <4>2. /\ pc[j] # "finished" /\ failCounter[j] \in {0, 1}
            /\ pc[j] = "idle" => failCounter[j] = 0
            /\ failCounter[j] = 1 /\ pc[j] # "open" =>
                 /\ conn[socket[j]] = "open"
                 /\ pc[j] = "read" => \/ up[socket[j]] # NoMessage
                                      \/ down[socket[j]] # <<>>
        BY <1>0, Zenon DEF PromptInv
      <4> QED
        BY <4>1, <4>2, Zenon
    <3> QED
      BY <2>a, <3>1, <3>3, Zenon
  <2> QED
    BY <2>1, <2>2, <2>3, <2>4, <2>5, <2>b, Zenon DEF IInv
<1>4. CASE s[1].kind # "line"
  <2>0. /\ pc' = [pc EXCEPT ![k] = IF GiveUp(k) THEN "finished" ELSE "open"]
        /\ failCounter' = [failCounter EXCEPT ![k] = @ + 1]
        /\ socket' = [socket EXCEPT ![k] = NoSocket]
        /\ UNCHANGED answer
        /\ conn[c] = "none"
    BY <1>0, <1>1, <1>4, Zenon DEF Read, EndInv
  <2>a. /\ pc'[k] \in {"open", "finished"} /\ socket'[k] = NoSocket
        /\ \A j \in Clients \ {k} : pc'[j] = pc[j] /\ socket'[j] = socket[j]
    BY <1>0, <2>0, Zenon DEF TypeInv
  <2>1. TypeInv'
    BY <1>0, <1>1, <2>0 DEF TypeInv
  <2>2. SocketInv'
    BY <1>0, <2>0, <2>a DEF SocketInv
  <2>b. EndInv'
    <3>1. \A d \in Conns \ {c} : down'[d] = down[d]
      BY <1>0, Zenon DEF TypeInv
    <3> QED
      BY <1>0, <2>0, <3>1, ZenonT(30) DEF EndInv
  <2>3. LineInv'
    <3> SUFFICES ASSUME NEW j \in Clients, socket'[j] # NoSocket
                 PROVE  OnLine(j)'
      BY Zenon DEF LineInv
    <3>1. j # k /\ socket[j] # NoSocket /\ OnLine(j)
      BY <1>0, <2>a, Zenon DEF LineInv
    <3> QED
      BY <1>0, <1>a, <2>a, <3>1, OnLineKept, Zenon
  <2>4. CallInv'
    <3> SUFFICES ASSUME NEW j \in Clients
                 PROVE  /\ pc'[j] \in {"open", "send", "read"} =>
                             value' \in seen'[j] /\ message'[j] \in Messages
                        /\ dropped'[j] = "no" =>
                             runs'[j] = 0
                               \/ (runs'[j] = 1 /\ (pc'[j] = "idle" \/ Answered(j)'))
      BY Zenon DEF CallInv
    <3>1. CASE j = k
      BY <1>0, <1>4, <2>0, <3>1, Zenon DEF CallInv, TypeInv, Answered
    <3>2. CASE j # k
      <4>1. pc'[j] = pc[j] /\ socket'[j] = socket[j]
        BY <2>0, <3>2 DEF TypeInv
      <4>2. socket[j] \in Conns => down'[socket[j]] = down[socket[j]]
        BY <1>0, <3>2, ZenonT(30) DEF SocketInv, TypeInv
      <4>3. pc[j] = "read" => socket[j] \in Conns
        BY <1>0 DEF SocketInv, TypeInv
      <4>4. Answered(j) => Answered(j)'
        BY <4>1, <4>2, <4>3, Zenon DEF Answered
      <4> QED
        BY <1>0, <4>1, <4>4, Zenon DEF CallInv
    <3> QED
      BY <3>1, <3>2, Zenon
  <2>5. PromptInv'
    BY <1>0, <1>1, <2>0 DEF PromptInv, SocketInv, TypeInv, GiveUp
  <2> QED
    BY <2>1, <2>2, <2>3, <2>4, <2>5, <2>b, Zenon DEF IInv
<1> QED
  BY <1>3, <1>4, Zenon

-----------------------------------------------------------------------------
(* The server's steps. *)

\* A signal behind what is under way changes no answer.
LEMMA Signalled ==
  ASSUME TypeInv, SocketInv, LineInv, CallInv,
         NEW c \in Conns, NEW e \in {Fin, Rst},
         down' = [down EXCEPT ![c] = Append(@, e)],
         up' \in {up, [up EXCEPT ![c] = NoMessage]},
         UNCHANGED <<pc, message, socket, value, runs, seen, dropped>>
  PROVE  /\ down' \in [Conns -> Seq(Signals)] /\ LineInv' /\ CallInv'
         /\ \A d \in Conns : down[d] # <<>> => down'[d] # <<>>
         /\ \A d \in Conns \ {c} : down'[d] = down[d]
<1>1. down[c] \in Seq(Signals) /\ e \in Signals /\ e.kind # "line"
  BY SignalKinds, Zenon DEF TypeInv
<1>2. down'[c] = Append(down[c], e) /\ \A d \in Conns \ {c} : down'[d] = down[d]
  BY Zenon DEF TypeInv
<1>3. down'[c] \in Seq(Signals)
  BY <1>1, <1>2, Longer
<1>4. down' \in [Conns -> Seq(Signals)]
  BY <1>3, Zenon DEF TypeInv
<1>5. /\ \A i \in 1 .. Len(down'[c]) :
           \/ i \in 1 .. Len(down[c]) /\ down'[c][i] = down[c][i]
           \/ down'[c][i] = e
      /\ down[c] # <<>> => down'[c] # <<>> /\ down'[c][1] = down[c][1]
  BY <1>1, <1>2, Longer
<1>6. ASSUME NEW j \in Clients, socket[j] # NoSocket
      PROVE  /\ up'[socket[j]] \in {up[socket[j]], NoMessage}
             /\ \A i \in 1 .. Len(down'[socket[j]]) : down'[socket[j]][i].kind = "line" =>
                  i \in 1 .. Len(down[socket[j]]) /\ down'[socket[j]][i] = down[socket[j]][i]
             /\ down[socket[j]] # <<>> =>
                  down'[socket[j]] # <<>> /\ down'[socket[j]][1] = down[socket[j]][1]
  <2>1. socket[j] \in Conns
    BY <1>6, Zenon DEF TypeInv
  <2>2. up'[socket[j]] \in {up[socket[j]], NoMessage}
    BY <2>1, Zenon DEF TypeInv
  <2>3. CASE socket[j] = c
    BY <1>1, <1>5, <2>2, <2>3
  <2>4. CASE socket[j] # c
    BY <1>2, <2>1, <2>2, <2>4, Zenon
  <2> QED
    BY <2>3, <2>4, Zenon
<1>7. LineInv'
  <2> SUFFICES ASSUME NEW j \in Clients, socket[j] # NoSocket, OnLine(j)
               PROVE  OnLine(j)'
    BY Zenon DEF LineInv
  <2>1. up'[socket[j]] = up[socket[j]] \/ up'[socket[j]] = NoMessage
    BY <1>6, Zenon
  <2> QED
    BY <1>6, <2>1, OnLineKept, Zenon
<1>8. CallInv'
  <2>1. ASSUME NEW j \in Clients, Answered(j) PROVE Answered(j)'
    <3>1. socket[j] # NoSocket /\ pc[j] = "read" /\ down[socket[j]] # <<>>
      BY <2>1, Zenon DEF Answered, SocketInv
    <3> QED
      BY <1>6, <2>1, <3>1, Zenon DEF Answered
  <2> QED
    BY <2>1, Zenon DEF CallInv
<1> QED
  BY <1>2, <1>4, <1>5, <1>7, <1>8, Zenon

\* A request the server takes is that of one app, which waits for it and has
\* nothing to read yet.
LEMMA Requester ==
  ASSUME IInv, NEW c \in Conns, up[c] # NoMessage, conn[c] = "open"
  PROVE  \E k \in Clients :
           /\ socket[k] = c /\ \A j \in Clients : socket[j] = c <=> j = k
           /\ pc[k] = "read" /\ up[c] = message[k] /\ message[k] \in Messages
           /\ down[c] = <<>>
<1>1. TypeInv /\ SocketInv /\ EndInv /\ LineInv /\ CallInv
  BY Zenon DEF IInv
<1>2. PICK k \in Clients : socket[k] = c
  BY <1>1, Zenon DEF SocketInv
<1>3. c # NoSocket /\ \A j \in Clients : socket[j] = c <=> j = k
  BY <1>1, <1>2, NoSocketOpen, Zenon DEF SocketInv
<1>4. pc[k] = "read" /\ up[c] = message[k]
  BY <1>1, <1>2, <1>3, Zenon DEF LineInv, OnLine
<1>5. message[k] \in Messages
  BY <1>1, <1>4, Zenon DEF CallInv
<1>6. down[c] = <<>>
  <2>1. \A i \in 1 .. Len(down[c]) : down[c][i].kind # "line" /\ down[c][i].kind = "line"
    BY <1>1, <1>2, <1>3, Zenon DEF LineInv, OnLine, EndInv
  <2>2. down[c] \in Seq(Signals)
    BY <1>1, Zenon DEF TypeInv
  <2> QED
    BY <2>1, <2>2, Shorter, Zenon
<1> QED
  BY <1>2, <1>3, <1>4, <1>5, <1>6, Zenon

\* What the request of k does to the setting is what its answer says.
LEMMA Served ==
  ASSUME TypeInv, NEW k \in Clients, message[k] \in Messages, value \in seen[k],
         value' = IF message[k].cmd = "SET" THEN message[k].arg ELSE value,
         seen'[k] = seen[k] \cup {value'}, UNCHANGED message,
         NEW x, x = IF message[k].cmd = "GET" THEN value ELSE 0
  PROVE  x \in Values \cup {0} /\ value' \in Values /\ Answers(k, x)'
<1>1. value \in Values
  BY Zenon DEF TypeInv
<1>2. CASE message[k] = Get /\ message[k].cmd = "GET"
  BY <1>1, <1>2, Zenon DEF Answers
<1>3. CASE message[k] # Get /\ message[k].cmd = "SET" /\ message[k].arg \in Values
  BY <1>3, Zenon DEF Answers
<1> QED
  BY <1>2, <1>3, MessageKinds, Zenon

\* A request is answered, or its answer lost, and the other apps see only a
\* new value of the setting.
LEMMA RecvIInv ==
  ASSUME IInv, NEW c \in Conns, server_recv(c)
  PROVE  IInv'
<1>0. /\ TypeInv /\ SocketInv /\ EndInv /\ LineInv /\ CallInv /\ PromptInv
      /\ up[c] # NoMessage /\ conn[c] = "open"
      /\ up' = [up EXCEPT ![c] = NoMessage]
      /\ value' = IF up[c].cmd = "SET" THEN up[c].arg ELSE value
      /\ runs' = [k \in Clients |-> IF k \in Owner(c) THEN runs[k] + 1 ELSE runs[k]]
      /\ seen' = [k \in Clients |-> seen[k] \cup {value'}]
      /\ UNCHANGED <<pc, message, socket, failCounter, answer, conn, polled, prompt, cuts>>
  BY Zenon DEF IInv, server_recv, Listening, Seen, clientVars
<1>1. PICK k \in Clients :
           /\ socket[k] = c /\ \A j \in Clients : socket[j] = c <=> j = k
           /\ pc[k] = "read" /\ up[c] = message[k] /\ message[k] \in Messages
           /\ down[c] = <<>>
  BY <1>0, Requester, Zenon
<1>2. c # NoSocket /\ \A j \in Clients : j \in Owner(c) <=> j = k
  BY <1>1, NoSocketOpen, Zenon DEF Owner
<1>3. PICK x : x = IF up[c].cmd = "GET" THEN value ELSE 0
  BY Zenon
<1>4. value \in seen[k] /\ seen'[k] = seen[k] \cup {value'}
  BY <1>0, <1>1, Zenon DEF CallInv
<1>5. x \in Values \cup {0} /\ value' \in Values /\ Answers(k, x)'
  BY <1>0, <1>1, <1>3, <1>4, Served, Zenon
<1>6. /\ runs'[k] = runs[k] + 1 /\ \A j \in Clients \ {k} : runs'[j] = runs[j]
      /\ \A j \in Clients : seen[j] \subseteq seen'[j] /\ value' \in seen'[j]
  BY <1>0, <1>2, Zenon
<1>7. /\ up'[c] = NoMessage /\ \A d \in Conns \ {c} : up'[d] = up[d]
      /\ up' \in [Conns -> Requests]
  BY <1>0, Zenon DEF TypeInv, Requests
<1>8. \A j \in Clients \ {k} : socket[j] # NoSocket => socket[j] \in Conns \ {c}
  BY <1>0, <1>1, Zenon DEF TypeInv
<1>9. /\ runs' \in [Clients -> Nat] /\ seen' \in [Clients -> SUBSET Values]
  BY <1>0, <1>5 DEF TypeInv
<1>10. SocketInv'
  BY <1>0, Zenon DEF SocketInv
<1>11. CASE /\ down' = [down EXCEPT ![c] = Append(@, Answer(x))]
            /\ UNCHANGED dropped
  <2>1. /\ down[c] \in Seq(Signals) /\ Answer(x) \in Signals
        /\ down'[c] = Append(down[c], Answer(x))
    BY <1>0, <1>5, <1>11, SignalKinds, Zenon DEF TypeInv
  <2>2. /\ down'[c] \in Seq(Signals) /\ down'[c] # <<>> /\ Len(down'[c]) = 1
        /\ down'[c][1] = Answer(x)
    <3>1. down[c] = <<>>
      BY <1>1, Zenon
    <3> QED
      BY <2>1, <3>1
  <2>3. /\ down' \in [Conns -> Seq(Signals)]
        /\ \A d \in Conns \ {c} : down'[d] = down[d]
    BY <1>0, <1>11, <2>2, Zenon DEF TypeInv
  <2>4. TypeInv'
    BY <1>0, <1>5, <1>7, <1>9, <1>11, <2>3, Zenon DEF TypeInv
  <2>5. Answer(x).kind = "line" /\ Answer(x).x = x
    BY <1>5, SignalKinds, Zenon
  <2>6. EndInv'
    <3>1. \A i \in 1 .. Len(down'[c]) : down'[c][i].kind = "line"
      BY <2>2, <2>5
    <3>2. \A d \in Conns \ {c} : \A i \in 1 .. Len(down'[d]) :
            down'[d][i].kind # "line" => conn'[d] = "none"
      BY <1>0, <2>3, Zenon DEF EndInv
    <3> QED
      BY <3>1, <3>2, Zenon DEF EndInv
  <2>7. LineInv'
    <3> SUFFICES ASSUME NEW j \in Clients, socket[j] # NoSocket, OnLine(j)
                 PROVE  OnLine(j)'
      BY <1>0, Zenon DEF LineInv
    <3>1. CASE j = k
      <4>1. runs'[k] >= 1
        BY <1>0, <1>6 DEF TypeInv
      <4>2. \A i \in 1 .. Len(down'[c]) : i = 1
        BY <2>2
      <4>3. Answers(k, down[c][1].x)'
        BY <1>5, <2>2, <2>5, Zenon DEF Answers
      <4> QED
        BY <1>0, <1>1, <1>7, <3>1, <4>1, <4>2, <4>3, ZenonT(30) DEF OnLine, Answers
    <3>2. CASE j # k
      <4>1. socket[j] \in Conns \ {c} /\ runs'[j] = runs[j] /\ seen[j] \subseteq seen'[j]
        BY <1>6, <1>8, <3>2, Zenon
      <4>2. up'[socket[j]] = up[socket[j]] /\ down'[socket[j]] = down[socket[j]]
        BY <1>7, <2>3, <4>1, Zenon
      <4> QED
        BY <1>0, <4>1, <4>2, OnLineKept, Zenon
    <3> QED
      BY <3>1, <3>2, Zenon
  <2>8. CallInv'
    <3>1. \A j \in Clients \ {k} : Answered(j) => Answered(j)'
      <4>1. \A j \in Clients \ {k} : pc[j] = "read" => down'[socket[j]] = down[socket[j]]
        BY <1>0, <1>8, <2>3, Zenon DEF SocketInv
      <4> QED
        BY <1>0, <4>1, Zenon DEF Answered
    <3>2. Answered(k)' /\ ~Answered(k)
      BY <1>0, <1>1, <2>2, <2>5, Zenon DEF Answered
    <3>3. dropped[k] = "no" => runs'[k] = 1
      <4>1. dropped[k] = "no" => runs[k] = 0
        BY <1>0, <1>1, <3>2, Zenon DEF CallInv
      <4> QED
        BY <1>6, <4>1
    <3> QED
      BY <1>0, <1>1, <1>6, <1>11, <3>1, <3>2, <3>3, Zenon DEF CallInv
  <2>9. PromptInv'
    <3>1. ASSUME NEW j \in Clients, pc[j] = "read",
                 up[socket[j]] # NoMessage \/ down[socket[j]] # <<>>
          PROVE  up'[socket[j]] # NoMessage \/ down'[socket[j]] # <<>>
      <4>1. socket[j] # NoSocket
        BY <1>0, <3>1, Zenon DEF SocketInv
      <4> QED
        BY <1>1, <1>7, <1>8, <2>2, <2>3, <3>1, <4>1, Zenon
    <3> QED
      BY <1>0, <3>1, Zenon DEF PromptInv
  <2> QED
    BY <1>10, <2>4, <2>6, <2>7, <2>8, <2>9, Zenon DEF IInv
<1>12. CASE /\ ~prompt /\ UNCHANGED down
            /\ dropped' = [j \in Clients |-> IF j \in Owner(c) /\ dropped[j] = "no"
                                             THEN "memory" ELSE dropped[j]]
  <2>1. dropped' \in [Clients -> {"no", "memory", "power"}]
    BY <1>0, <1>12, Zenon DEF TypeInv
  <2>2. TypeInv'
    BY <1>0, <1>5, <1>7, <1>9, <1>12, <2>1, Zenon DEF TypeInv
  <2>3. EndInv'
    BY <1>0, <1>12, Zenon DEF EndInv
  <2>4. LineInv'
    <3> SUFFICES ASSUME NEW j \in Clients, socket[j] # NoSocket, OnLine(j)
                 PROVE  OnLine(j)'
      BY <1>0, Zenon DEF LineInv
    <3>1. CASE j = k
      <4>1. 1 .. Len(down'[socket[j]]) = {} /\ up'[socket'[j]] = NoMessage
        BY <1>0, <1>1, <1>7, <1>12, <3>1
      <4> QED
        BY <1>0, <4>1, Zenon DEF OnLine
    <3>2. CASE j # k
      BY <1>0, <1>6, <1>7, <1>8, <1>12, <3>2, OnLineKept, Zenon
    <3> QED
      BY <3>1, <3>2, Zenon
  <2>5. CallInv'
    <3>1. dropped'[k] # "no" /\ \A j \in Clients \ {k} : dropped'[j] = dropped[j]
      BY <1>2, <1>12, Zenon
    <3>2. \A j \in Clients : Answered(j) => Answered(j)'
      BY <1>0, <1>12, Zenon DEF Answered
    <3> QED
      BY <1>0, <1>6, <3>1, <3>2, Zenon DEF CallInv
  <2>6. PromptInv'
    BY <1>0, <1>12, Zenon DEF PromptInv
  <2> QED
    BY <1>10, <2>2, <2>3, <2>4, <2>5, <2>6, Zenon DEF IInv
<1> QED
  BY <1>3, <1>11, <1>12, Zenon DEF server_recv

LEMMA RefuseIInv ==
  ASSUME IInv, NEW c \in Conns, Refuse(c)
  PROVE  IInv'
<1>0. /\ TypeInv /\ SocketInv /\ EndInv /\ LineInv /\ CallInv /\ PromptInv
      /\ up[c] # NoMessage /\ conn[c] # "open"
      /\ up' = [up EXCEPT ![c] = NoMessage]
      /\ down' = IF conn[c] = "deaf" THEN down ELSE [down EXCEPT ![c] = Append(@, Rst)]
      /\ UNCHANGED <<pc, message, socket, failCounter, answer, conn, polled, value,
                     prompt, cuts, runs, seen, dropped>>
  BY Zenon DEF IInv, Refuse, Listening, clientVars, serverVars,
     history
<1>1. /\ up'[c] = NoMessage /\ \A d \in Conns \ {c} : up'[d] = up[d]
      /\ up' \in [Conns -> Requests]
  BY <1>0, Zenon DEF TypeInv, Requests
<1>2. SocketInv'
  BY <1>0, Zenon DEF SocketInv
<1>3. CASE conn[c] = "deaf"
  <2>0. UNCHANGED down
    BY <1>0, <1>3, Zenon
  <2>1. TypeInv'
    BY <1>0, <1>1, <2>0, Zenon DEF TypeInv
  <2>2. EndInv'
    BY <1>0, <2>0, Zenon DEF EndInv
  <2>3. LineInv'
    <3> SUFFICES ASSUME NEW j \in Clients, socket[j] # NoSocket, OnLine(j)
                 PROVE  OnLine(j)'
      BY <1>0, Zenon DEF LineInv
    <3>1. up'[socket[j]] = up[socket[j]] \/ up'[socket[j]] = NoMessage
      BY <1>0, <1>1, Zenon DEF TypeInv
    <3> QED
      BY <1>0, <2>0, <3>1, OnLineKept, Zenon
  <2>4. CallInv'
    BY <1>0, <2>0, Zenon DEF CallInv, Answered
  <2>5. PromptInv'
    BY <1>0, <1>3, Zenon DEF PromptInv
  <2> QED
    BY <1>2, <2>1, <2>2, <2>3, <2>4, <2>5, Zenon DEF IInv
<1>4. CASE conn[c] # "deaf"
  <2>0. conn[c] = "none" /\ down' = [down EXCEPT ![c] = Append(@, Rst)]
    BY <1>0, <1>4, Zenon DEF TypeInv
  <2>1. /\ down' \in [Conns -> Seq(Signals)] /\ LineInv' /\ CallInv'
        /\ \A d \in Conns : down[d] # <<>> => down'[d] # <<>>
        /\ \A d \in Conns \ {c} : down'[d] = down[d]
    BY <1>0, <2>0, Signalled, Zenon
  <2>2. TypeInv'
    BY <1>0, <1>1, <2>1, Zenon DEF TypeInv
  <2>3. EndInv'
    BY <1>0, <2>0, <2>1, Zenon DEF EndInv
  <2>4. PromptInv'
    <3>1. \A j \in Clients : conn[socket[j]] = "open" /\ pc[j] = "read" =>
                              socket[j] \in Conns \ {c}
      BY <1>0 DEF SocketInv, TypeInv
    <3>2. \A j \in Clients : conn[socket[j]] = "open" /\ pc[j] = "read" =>
            up'[socket[j]] = up[socket[j]] /\ down'[socket[j]] = down[socket[j]]
      BY <1>1, <2>1, <3>1, Zenon
    <3> QED
      BY <1>0, <3>2 DEF PromptInv
  <2> QED
    BY <1>2, <2>1, <2>2, <2>3, <2>4, Zenon DEF IInv
<1> QED
  BY <1>3, <1>4, Zenon

\* A poll that closes signals the end; one that fails leaves the connection deaf.
LEMMA PollIInv ==
  ASSUME IInv, NEW c \in Conns, NEW err \in BOOLEAN, Poll(c, err)
  PROVE  IInv'
<1>0. /\ TypeInv /\ SocketInv /\ EndInv /\ LineInv /\ CallInv /\ PromptInv
      /\ polled[c] /\ Silent(c) /\ (err => ~prompt) /\ server_poll(c, err)
      /\ UNCHANGED <<pc, message, socket, failCounter, answer, value, up, prompt, cuts,
                     runs, seen, dropped>>
  BY Zenon DEF IInv, Poll, clientVars, history
<1>1. PICK k \in Clients : socket[k] = c
  BY <1>0, Zenon DEF SocketInv
<1>2. CASE err
  <2>0. /\ conn' = [conn EXCEPT ![c] = "deaf"] /\ polled' = [polled EXCEPT ![c] = TRUE]
        /\ UNCHANGED down /\ ~prompt
    BY <1>0, <1>2, Zenon DEF server_poll
  <2>1. TypeInv'
    BY <1>0, <2>0, Zenon DEF TypeInv
  <2>2. SocketInv'
    BY <1>0, <1>1, <2>0, ZenonT(30) DEF SocketInv, TypeInv
  <2>3. EndInv'
    <3>1. conn[c] # "none" /\ \A d \in Conns \ {c} : conn'[d] = conn[d]
      BY <1>0, <2>0, Zenon DEF SocketInv, TypeInv
    <3> QED
      BY <1>0, <2>0, <3>1, Zenon DEF EndInv
  <2>4. LineInv'
    BY <1>0, <2>0, ZenonT(30) DEF LineInv, OnLine, Answers
  <2>5. CallInv' /\ PromptInv'
    BY <1>0, <2>0, Zenon DEF CallInv, Answered, PromptInv
  <2> QED
    BY <2>1, <2>2, <2>3, <2>4, <2>5, Zenon DEF IInv
<1>3. CASE ~err
  <2>0. /\ conn' = [conn EXCEPT ![c] = "none"] /\ polled' = [polled EXCEPT ![c] = FALSE]
        /\ down' = [down EXCEPT ![c] = Append(@, Fin)]
    BY <1>0, <1>3, Zenon DEF server_poll
  <2>1. /\ down' \in [Conns -> Seq(Signals)] /\ LineInv' /\ CallInv'
        /\ \A d \in Conns : down[d] # <<>> => down'[d] # <<>>
        /\ \A d \in Conns \ {c} : down'[d] = down[d]
    BY <1>0, <2>0, Signalled, Zenon
  <2>2. /\ conn' \in [Conns -> {"none", "open", "deaf"}]
        /\ polled' \in [Conns -> BOOLEAN]
        /\ conn'[c] = "none" /\ polled'[c] = FALSE
        /\ \A d \in Conns \ {c} : conn'[d] = conn[d] /\ polled'[d] = polled[d]
    BY <1>0, <2>0, Zenon DEF TypeInv
  <2>3. TypeInv'
    BY <1>0, <2>1, <2>2, Zenon DEF TypeInv
  <2>4. SocketInv'
    BY <1>0, <2>2, Zenon DEF SocketInv
  <2>5. EndInv'
    <3> SUFFICES ASSUME NEW d \in Conns, NEW i \in 1 .. Len(down'[d]),
                        down'[d][i].kind # "line"
                 PROVE  conn'[d] = "none"
      BY Zenon DEF EndInv
    <3>1. CASE d # c
      <4>1. down'[d] = down[d] /\ conn'[d] = conn[d]
        BY <2>1, <2>2, <3>1, Zenon
      <4> QED
        BY <1>0, <4>1, Zenon DEF EndInv
    <3> QED
      BY <2>2, <3>1, Zenon
  <2>6. PromptInv'
    <3> SUFFICES ASSUME prompt PROVE PromptInv'
      BY <1>0, Zenon DEF PromptInv
    <3>1. ASSUME NEW j \in Clients, failCounter[j] = 1, pc[j] # "open"
          PROVE  socket[j] \in Conns \ {c}
      <4>1. pc[j] \in {"send", "read"} /\ socket[j] # NoSocket
        BY <1>0, <3>1 DEF PromptInv, SocketInv, TypeInv
      <4>2. socket[j] # c
        BY <1>0, <3>1, <4>1, Zenon DEF PromptInv, Silent, Owner
      <4> QED
        BY <1>0, <4>1, <4>2, Zenon DEF TypeInv
    <3>2. ASSUME NEW j \in Clients, failCounter[j] = 1, pc[j] # "open"
          PROVE  /\ conn'[socket[j]] = "open"
                 /\ pc[j] = "read" => up[socket[j]] # NoMessage \/ down'[socket[j]] # <<>>
      BY <1>0, <2>1, <2>2, <3>1, <3>2, Zenon DEF PromptInv
    <3>3. \A d \in Conns : conn'[d] # "deaf"
      <4>1. \A d \in Conns : conn[d] # "deaf"
        BY <1>0, Zenon DEF PromptInv
      <4> QED
        BY <2>2, <4>1, Zenon
    <3> QED
      BY <1>0, <3>2, <3>3, Zenon DEF PromptInv
  <2> QED
    BY <2>1, <2>3, <2>4, <2>5, <2>6, Zenon DEF IInv
<1> QED
  BY <1>2, <1>3, Zenon

LEMMA TurnIInv ==
  ASSUME IInv, NEW v \in Values, Turn(v)
  PROVE  IInv'
<1>0. /\ TypeInv /\ SocketInv /\ EndInv /\ LineInv /\ CallInv /\ PromptInv
      /\ value' = v /\ seen' = [k \in Clients |-> seen[k] \cup {v}]
      /\ UNCHANGED <<pc, message, socket, failCounter, answer, conn, polled, up, down,
                     prompt, cuts, runs, dropped>>
  BY Zenon DEF IInv, Turn, Seen, clientVars
<1>1. TypeInv'
  BY <1>0, Zenon DEF TypeInv
<1>2. SocketInv' /\ EndInv'
  BY <1>0, Zenon DEF SocketInv, EndInv
<1>3. LineInv'
  <2>1. \A k \in Clients : seen[k] \subseteq seen'[k]
    BY <1>0, Zenon
  <2> QED
    BY <1>0, <2>1, OnLineKept, Zenon DEF LineInv
<1>4. CallInv'
  BY <1>0, Zenon DEF CallInv, Answered, TypeInv
<1>5. PromptInv'
  BY <1>0, Zenon DEF PromptInv
<1> QED
  BY <1>1, <1>2, <1>3, <1>4, <1>5, Zenon DEF IInv

LEMMA CutIInv ==
  ASSUME IInv, PowerCut
  PROVE  IInv'
<1>0. /\ TypeInv /\ SocketInv /\ EndInv /\ LineInv /\ CallInv /\ ~prompt
      /\ conn' = [c \in Conns |-> "none"] /\ polled' = [c \in Conns |-> FALSE]
      /\ down' \in {down, [c \in Conns |-> <<>>]}
      /\ value' \in Values
      /\ seen' = [k \in Clients |-> seen[k] \cup {value'}]
      /\ dropped' = [k \in Clients |-> IF pc[k] = "idle" THEN dropped[k] ELSE "power"]
      /\ UNCHANGED <<pc, message, socket, failCounter, answer, up, prompt, runs>>
  BY Zenon DEF IInv, PowerCut, Seen, clientVars
<1>1. TypeInv'
  <2>1. /\ conn' \in [Conns -> {"none", "open", "deaf"}]
        /\ polled' \in [Conns -> BOOLEAN]
    BY <1>0, Zenon
  <2>2. down' \in [Conns -> Seq(Signals)]
    <3>1. <<>> \in Seq(Signals)
      OBVIOUS
    <3>2. [c \in Conns |-> <<>>] \in [Conns -> Seq(Signals)]
      BY <3>1, Zenon
    <3> QED
      BY <1>0, <3>2, Zenon DEF TypeInv
  <2>3. dropped' \in [Clients -> {"no", "memory", "power"}]
    BY <1>0, Zenon DEF TypeInv
  <2>4. seen' \in [Clients -> SUBSET Values]
    BY <1>0, Zenon DEF TypeInv
  <2> QED
    BY <1>0, <2>1, <2>2, <2>3, <2>4, Zenon DEF TypeInv
<1>2. SocketInv' /\ EndInv'
  BY <1>0, Zenon DEF SocketInv, EndInv
<1>3. LineInv'
  <2> SUFFICES ASSUME NEW k \in Clients, socket[k] # NoSocket, OnLine(k)
               PROVE  OnLine(k)'
    BY <1>0, Zenon DEF LineInv
  <2>1. seen[k] \subseteq seen'[k]
    BY <1>0, Zenon
  <2>2. down' = down \/ 1 .. Len(down'[socket[k]]) = {}
    BY <1>0 DEF TypeInv
  <2> QED
    BY <1>0, <2>1, <2>2, OnLineKept, Zenon
<1>4. CallInv'
  BY <1>0, Zenon DEF CallInv, Answered, TypeInv
<1>5. PromptInv'
  BY <1>0, Zenon DEF PromptInv
<1> QED
  BY <1>1, <1>2, <1>3, <1>4, <1>5, Zenon DEF IInv

LEMMA StepIInv == IInv /\ [Next]_vars => IInv'
<1> SUFFICES ASSUME IInv, [Next]_vars PROVE IInv'
  BY Zenon
<1>1. ASSUME NEW k \in Clients, App(k) PROVE IInv'
  BY <1>1, OpenIInv, SendIInv, ReadIInv, Zenon DEF App
<1>2. ASSUME NEW k \in Clients, Relaunch(k) PROVE IInv'
  BY <1>2, RelaunchIInv, Zenon
<1>3. ASSUME NEW k \in Clients, NEW m \in Messages, Call(k, m) PROVE IInv'
  BY <1>3, CallIInv, Zenon
<1>4. ASSUME NEW c \in Conns, server_recv(c) PROVE IInv'
  BY <1>4, RecvIInv, Zenon
<1>5. ASSUME NEW c \in Conns, Refuse(c) PROVE IInv'
  BY <1>5, RefuseIInv, Zenon
<1>6. ASSUME NEW c \in Conns, NEW err \in BOOLEAN, Poll(c, err) PROVE IInv'
  BY <1>6, PollIInv, Zenon
<1>7. ASSUME NEW v \in Values, Turn(v) PROVE IInv'
  BY <1>7, TurnIInv, Zenon
<1>8. CASE PowerCut
  BY <1>8, CutIInv, Zenon
<1>9. CASE UNCHANGED vars
  <2>1. UNCHANGED <<pc, message, socket, failCounter, answer, conn, polled, value, up,
                    down, prompt, runs, seen, dropped>>
    BY <1>9, Zenon DEF vars, clientVars, serverVars, history
  <2>2. TypeInv' /\ SocketInv' /\ EndInv'
    BY <2>1, Zenon DEF IInv, TypeInv, SocketInv, EndInv
  <2>3. LineInv'
    BY <2>1, ZenonT(30) DEF IInv, LineInv, OnLine, Answers
  <2>4. CallInv' /\ PromptInv'
    BY <2>1, Zenon DEF IInv, CallInv, PromptInv, Answered
  <2> QED
    BY <2>2, <2>3, <2>4, Zenon DEF IInv
<1> QED
  BY <1>1, <1>2, <1>3, <1>4, <1>5, <1>6, <1>7, <1>8, <1>9, Zenon DEF Next

-----------------------------------------------------------------------------
(* The theorems. *)

LEMMA RemoteInvariant == Spec => []IInv
BY InitIInv, StepIInv, PTL DEF Spec

\* No request runs twice, whatever the connections do, unless its answer was
\* lost to want of memory or a power failure: the retry of sendMessage
\* repeats only what server_recv never saw.
THEOREM RemoteNotRepeated == Spec => []NotRepeated
<1>1. ASSUME IInv PROVE NotRepeated
  <2> SUFFICES ASSUME NEW k \in Clients, dropped[k] = "no" PROVE ~(runs[k] > 1)
    BY Zenon DEF NotRepeated
  <2>1. runs[k] = 0 \/ runs[k] = 1
    BY <1>1, Zenon DEF IInv, CallInv
  <2> QED
    BY <2>1
<1> QED
  BY <1>1, RemoteInvariant, PTL

\* On a prompt network with memory to spare no app ever ends for a lost
\* connection: one retry is enough, however many apps there are.
THEOREM RemoteNeverFinishes == Spec => []NeverFinishes
<1>1. IInv => NeverFinishes
  BY Zenon DEF IInv, PromptInv, NeverFinishes
<1> QED
  BY <1>1, RemoteInvariant, PTL

\* What sendMessage returns is the answer to its own request, which ran during
\* the call: a value the setting had since, or the OK to a value it was given.
THEOREM RemoteAnswersHold == Spec => AnswersHold
<1> DEFINE A == \A k \in Clients : pc[k] = "read" /\ pc'[k] = "idle" =>
                  /\ runs[k] >= 1
                  /\ message[k] = Get => answer'[k] \in seen[k]
                  /\ message[k] # Get => message[k].arg \in seen[k] /\ answer'[k] = 0
<1>1. ASSUME IInv, [Next]_vars PROVE [A]_vars
  <2> SUFFICES ASSUME NEW k \in Clients, pc[k] = "read", pc'[k] = "idle"
               PROVE  /\ runs[k] >= 1
                      /\ message[k] = Get => answer'[k] \in seen[k]
                      /\ message[k] # Get => message[k].arg \in seen[k] /\ answer'[k] = 0
    BY Zenon
  <2>1. Read(k)
    <3>1. pc' # pc /\ pc \in [Clients -> {"idle", "open", "send", "read", "finished"}]
      BY <1>1, Zenon DEF IInv, TypeInv
    <3>2. \E j \in Clients : \/ App(j) \/ Relaunch(j)
                             \/ \E m \in Messages : Call(j, m)
      BY <1>1, <3>1, Zenon DEF Next, server_recv, Refuse, Poll,
         Turn, PowerCut, vars, clientVars
    <3>3. PICK j \in Clients : \/ App(j) \/ Relaunch(j)
                               \/ \E m \in Messages : Call(j, m)
      BY <3>2, Zenon
    <3>4. pc[j] # pc'[j] /\ j = k
      BY <3>1, <3>3, Zenon DEF App, Open, Send, Read, Relaunch, Call
    <3>5. /\ ~Open(k) /\ ~Send(k) /\ ~Relaunch(k)
          /\ \A m \in Messages : ~Call(k, m)
      BY <3>1, Zenon DEF Open, Send, Relaunch, Call
    <3> QED
      BY <3>3, <3>4, <3>5, Zenon DEF App
  <2>2. /\ socket[k] \in Conns /\ socket[k] # NoSocket /\ down[socket[k]] # <<>>
        /\ down[socket[k]] \in Seq(Signals)
    BY <1>1, <2>1 DEF Read, IInv, SocketInv, TypeInv
  <2>3. Head(down[socket[k]]) = down[socket[k]][1] /\ 1 \in 1 .. Len(down[socket[k]])
    BY <2>2, Shorter, Zenon
  <2>4. down[socket[k]][1].kind = "line" /\ answer'[k] = down[socket[k]][1].x
    BY <1>1, <2>1, <2>3 DEF Read, IInv, TypeInv
  <2>5. runs[k] >= 1 /\ Answers(k, down[socket[k]][1].x)
    BY <1>1, <2>2, <2>3, <2>4, Zenon DEF IInv, LineInv, OnLine
  <2> QED
    BY <2>4, <2>5, Zenon DEF Answers
<1> QED
  BY <1>1, RemoteInvariant, PTL DEF Spec, AnswersHold

-----------------------------------------------------------------------------
(* How long a call takes. *)

\* Until there is something to read: the request arrives, the server closes.
WaitLeft(c) == IF down[c] # <<>> THEN 0 ELSE IF up[c] # NoMessage THEN 2 ELSE 1

\* What is left of a call: this attempt, and in the first one the second.
CallLeft(k) ==
  IF pc[k] \in {"idle", "finished"} THEN 0
  ELSE (IF failCounter[k] = 0 THEN 5 ELSE 0) +
       (IF pc[k] = "open" THEN 5 ELSE IF pc[k] = "send" THEN 4
        ELSE 1 + WaitLeft(socket[k]))

\* The app has a step to take or, where it waits in readLine, the server has.
CallMoves(k) ==
  \/ pc[k] = "open" /\ \E c \in Conns \ {socket[j] : j \in Clients} : conn[c] = "none"
  \/ pc[k] = "send"
  \/ /\ pc[k] = "read"
     /\ \/ down[socket[k]] # <<>> \/ up[socket[k]] # NoMessage
        \/ polled[socket[k]] /\ Silent(socket[k])

\* The server's work on a connection; a tcp_close that fails is none.
Serves(c) == server_recv(c) \/ Refuse(c) \/ Poll(c, FALSE)

\* A call is over after ten steps of the app and, while the app waits, of the
\* server; whatever else happens does not put its end off, and unless the
\* power failed during the call one of the two always has a step to take.
CallInTime ==
  /\ [](\A k \in Clients :
          /\ CallLeft(k) \in 0..10
          /\ CallLeft(k) = 0 <=> pc[k] \in {"idle", "finished"}
          /\ CallLeft(k) # 0 /\ dropped[k] # "power" => CallMoves(k))
  /\ [][\A k \in Clients :
          /\ App(k) => CallLeft(k)' < CallLeft(k)
          /\ pc[k] = "read" /\ down[socket[k]] = <<>> /\ Serves(socket[k])
               => CallLeft(k)' < CallLeft(k)
          /\ CallLeft(k) # 0 /\ ~PowerCut => CallLeft(k)' <= CallLeft(k)]_vars

\* The server polls every connection it has; where it has none, an app that
\* waits has its request still to be refused, or the refusal or the end of the
\* connection to read.
Waits(k) ==
  pc[k] = "read" /\ dropped[k] # "power" /\ conn[socket[k]] = "none" =>
    up[socket[k]] # NoMessage \/ down[socket[k]] # <<>>

Attempts(k) ==
  /\ pc[k] \in {"open", "send", "read"} => failCounter[k] \in {0, 1}
  /\ pc[k] = "idle" => failCounter[k] = 0

WaitInv ==
  /\ \A c \in Conns : conn[c] # "none" => polled[c]
  /\ \A k \in Clients : Waits(k) /\ Attempts(k)

\* Apps have connections of their own.
LEMMA Apart ==
  ASSUME IInv, NEW j \in Clients, NEW k \in Clients, j # k, pc[j] = "read"
  PROVE  socket[j] \in Conns /\ socket[j] # socket[k]
<1>1. socket[j] \in Conns \cup {NoSocket} /\ socket[j] # NoSocket
  BY Zenon DEF IInv, TypeInv, SocketInv
<1> QED
  BY <1>1, Zenon DEF IInv, SocketInv

LEMMA AppWaits ==
  ASSUME IInv, WaitInv, NEW k \in Clients, App(k)
  PROVE  WaitInv'
<1>1. TypeInv
  BY Zenon DEF IInv
<1>2. CASE Open(k)
  <2>1. PICK c \in Conns \ {socket[j] : j \in Clients} :
          /\ server_accept(c) /\ socket' = [socket EXCEPT ![k] = c]
          /\ up' = [up EXCEPT ![c] = NoMessage] /\ down' = [down EXCEPT ![c] = <<>>]
    BY <1>2, Zenon DEF Open
  <2>2. /\ conn' = [conn EXCEPT ![c] = "open"] /\ polled' = [polled EXCEPT ![c] = TRUE]
        /\ pc' = [pc EXCEPT ![k] = "send"] /\ failCounter' = failCounter
        /\ dropped' = dropped /\ pc[k] = "open"
    BY <1>2, <2>1, Zenon DEF Open, server_accept, history
  <2>3. \A d \in Conns : conn'[d] # "none" => polled'[d]
    BY <1>1, <2>2, Zenon DEF TypeInv, WaitInv
  <2>4. ASSUME NEW j \in Clients PROVE Attempts(j)'
    BY <1>1, <2>2, <2>4, Zenon DEF TypeInv, WaitInv, Attempts
  <2>5. ASSUME NEW j \in Clients PROVE Waits(j)'
    <3>1. CASE j = k
      BY <1>1, <2>2, <3>1 DEF TypeInv, Waits
    <3>2. CASE j # k
      <4>1. pc'[j] = pc[j] /\ socket'[j] = socket[j]
        BY <1>1, <2>1, <2>2, <3>2, Zenon DEF TypeInv
      <4>2. SUFFICES ASSUME pc[j] = "read" PROVE Waits(j)'
        BY <4>1, Zenon DEF Waits
      <4>3. socket[j] \in Conns /\ socket[j] # c
        BY <2>1, <3>2, <4>2, Apart, Zenon
      <4>4. /\ conn'[socket[j]] = conn[socket[j]] /\ up'[socket[j]] = up[socket[j]]
            /\ down'[socket[j]] = down[socket[j]]
        BY <1>1, <2>1, <2>2, <4>3, Zenon DEF TypeInv
      <4> QED
        BY <2>2, <4>1, <4>4, ZenonT(30) DEF Waits, WaitInv
    <3> QED
      BY <3>1, <3>2, Zenon
  <2> QED
    BY <2>3, <2>4, <2>5, Zenon DEF WaitInv
<1>3. CASE Send(k)
  <2>1. /\ up' = [up EXCEPT ![socket[k]] = message[k]] /\ pc' = [pc EXCEPT ![k] = "read"]
        /\ UNCHANGED <<socket, failCounter, conn, polled, down, dropped>>
        /\ pc[k] = "send"
    BY <1>3, Zenon DEF Send, serverVars, history
  <2>2. socket[k] \in Conns /\ message[k] # NoMessage
    <3>1. socket[k] \in Conns \cup {NoSocket} /\ socket[k] # NoSocket
      BY <2>1, Zenon DEF IInv, TypeInv, SocketInv
    <3>2. message[k] \in Messages
      BY <2>1, Zenon DEF IInv, CallInv
    <3> QED
      BY <3>1, <3>2, MessageKinds, Zenon
  <2>3. ASSUME NEW j \in Clients PROVE Attempts(j)'
    <3>1. CASE j = k
      BY <1>1, <2>1, <3>1 DEF TypeInv, WaitInv, Attempts
    <3>2. CASE j # k
      BY <1>1, <2>1, <3>2, Zenon DEF TypeInv, WaitInv, Attempts
    <3> QED
      BY <3>1, <3>2, Zenon
  <2>4. ASSUME NEW j \in Clients PROVE Waits(j)'
    <3>1. CASE j = k
      <4>1. up'[socket'[k]] # NoMessage
        BY <1>1, <2>1, <2>2, Zenon DEF TypeInv
      <4> QED
        BY <3>1, <4>1, Zenon DEF Waits
    <3>2. CASE j # k
      <4>1. pc'[j] = pc[j]
        BY <1>1, <2>1, <3>2, Zenon DEF TypeInv
      <4>2. SUFFICES ASSUME pc[j] = "read" PROVE Waits(j)'
        BY <4>1, Zenon DEF Waits
      <4>3. socket[j] \in Conns /\ socket[j] # socket[k]
        BY <3>2, <4>2, Apart, Zenon
      <4>4. up'[socket[j]] = up[socket[j]]
        BY <1>1, <2>1, <4>3, Zenon DEF TypeInv
      <4> QED
        BY <2>1, <4>1, <4>4, Zenon DEF Waits, WaitInv
    <3> QED
      BY <3>1, <3>2, Zenon
  <2> QED
    BY <2>1, <2>3, <2>4, Zenon DEF WaitInv
<1>4. CASE Read(k)
  <2>1. /\ down' = [down EXCEPT ![socket[k]] = Tail(@)]
        /\ pc[k] = "read" /\ UNCHANGED <<conn, polled, up, dropped>>
        /\ \/ /\ pc' = [pc EXCEPT ![k] = "idle"] /\ socket' = socket
              /\ failCounter' = [failCounter EXCEPT ![k] = 0]
           \/ /\ pc' = [pc EXCEPT ![k] = IF GiveUp(k) THEN "finished" ELSE "open"]
              /\ failCounter' = [failCounter EXCEPT ![k] = @ + 1]
              /\ socket' = [socket EXCEPT ![k] = NoSocket]
    BY <1>4, Zenon DEF Read, serverVars, history
  <2>2. /\ \A j \in Clients \ {k} : /\ pc'[j] = pc[j] /\ socket'[j] = socket[j]
                                    /\ failCounter'[j] = failCounter[j]
        /\ pc'[k] # "read"
    BY <1>1, <2>1, Zenon DEF TypeInv
  <2>3. ASSUME NEW j \in Clients PROVE Attempts(j)'
    <3>1. CASE j = k
      <4>1. failCounter[k] \in {0, 1}
        BY <2>1, Zenon DEF WaitInv, Attempts
      <4>2. \/ pc'[k] = "idle" /\ failCounter'[k] = 0
            \/ /\ pc'[k] = IF failCounter[k] >= 1 THEN "finished" ELSE "open"
               /\ failCounter'[k] = failCounter[k] + 1
        BY <1>1, <2>1, Zenon DEF TypeInv, GiveUp
      <4> QED
        BY <3>1, <4>1, <4>2 DEF Attempts
    <3>2. CASE j # k
      BY <2>2, <3>2, Zenon DEF WaitInv, Attempts
    <3> QED
      BY <3>1, <3>2, Zenon
  <2>4. ASSUME NEW j \in Clients PROVE Waits(j)'
    <3>1. CASE j = k
      BY <2>2, <3>1, Zenon DEF Waits
    <3>2. CASE j # k
      <4>2. SUFFICES ASSUME pc[j] = "read" PROVE Waits(j)'
        BY <2>2, <3>2, Zenon DEF Waits
      <4>3. socket[j] \in Conns /\ socket[j] # socket[k]
        BY <3>2, <4>2, Apart, Zenon
      <4>4. down'[socket[j]] = down[socket[j]]
        BY <1>1, <2>1, <4>3, Zenon DEF TypeInv
      <4>5. /\ pc'[j] = pc[j] /\ socket'[j] = socket[j] /\ conn' = conn
            /\ up' = up /\ dropped' = dropped
        BY <2>1, <2>2, <3>2, Zenon
      <4> QED
        BY <4>4, <4>5, Zenon DEF Waits, WaitInv
    <3> QED
      BY <3>1, <3>2, Zenon
  <2> QED
    BY <2>1, <2>3, <2>4, Zenon DEF WaitInv
<1> QED
  BY <1>2, <1>3, <1>4, Zenon DEF App

\* What the server does to a connection.
LEMMA ServerStep ==
  ASSUME IInv, WaitInv, NEW c \in Conns,
         server_recv(c) \/ Refuse(c) \/ \E err \in BOOLEAN : Poll(c, err)
  PROVE  /\ UNCHANGED <<pc, socket, failCounter>>
         /\ \A d \in Conns \ {c} : /\ up'[d] = up[d] /\ down'[d] = down[d]
                                   /\ conn'[d] = conn[d] /\ polled'[d] = polled[d]
         /\ \A j \in Clients : dropped'[j] # "power" => dropped[j] # "power"
         /\ up'[c] \in {up[c], NoMessage}
         /\ down[c] # <<>> => down'[c] # <<>>
         /\ conn'[c] # "none" => polled'[c]
         /\ conn'[c] = "none" => down'[c] # <<>>
         /\ Serves(c) => \/ down'[c] # <<>>
                         \/ up[c] # NoMessage /\ up'[c] = NoMessage
<1>1. TypeInv /\ down[c] \in Seq(Signals)
  BY Zenon DEF IInv, TypeInv
<1>2. \A e \in Signals : Append(down[c], e) # <<>>
  BY <1>1
<1>3. Fin \in Signals /\ Rst \in Signals
      /\ \A x \in Values \cup {0} : Answer(x) \in Signals
  BY SignalKinds, Zenon
<1>4. CASE server_recv(c)
  <2>1. /\ UNCHANGED <<pc, socket, failCounter, conn, polled>>
        /\ up' = [up EXCEPT ![c] = NoMessage] /\ up[c] # NoMessage /\ conn[c] = "open"
    BY <1>4, Zenon DEF server_recv, clientVars, Listening
  <2>2. PICK x \in Values \cup {0} :
          \/ down' = [down EXCEPT ![c] = Append(@, Answer(x))] /\ dropped' = dropped
          \/ /\ dropped' = [k \in Clients |-> IF k \in Owner(c) /\ dropped[k] = "no"
                                              THEN "memory" ELSE dropped[k]]
             /\ down' = down
    <3>1. (IF up[c].cmd = "GET" THEN value ELSE 0) \in Values \cup {0}
      BY <1>1, Zenon DEF TypeInv
    <3> QED
      BY <1>4, <3>1, Zenon DEF server_recv
  <2>3. \A d \in Conns \ {c} : up'[d] = up[d] /\ down'[d] = down[d]
    BY <1>1, <2>1, <2>2, Zenon DEF TypeInv
  <2>4. down[c] # <<>> => down'[c] # <<>>
    <3>1. down'[c] = Append(down[c], Answer(x)) \/ down'[c] = down[c]
      BY <1>1, <2>2, Zenon DEF TypeInv
    <3> QED
      BY <1>2, <1>3, <3>1, Zenon
  <2>5. \A j \in Clients : dropped'[j] # "power" => dropped[j] # "power"
    BY <2>2 DEF TypeInv
  <2>6. up'[c] = NoMessage /\ polled[c]
    BY <1>1, <2>1, Zenon DEF TypeInv, WaitInv
  <2> QED
    BY <2>1, <2>3, <2>4, <2>5, <2>6
<1>5. CASE Refuse(c)
  <2>1. /\ UNCHANGED <<pc, socket, failCounter, conn, polled, dropped>>
        /\ up' = [up EXCEPT ![c] = NoMessage] /\ up[c] # NoMessage
        /\ down' = IF conn[c] = "deaf" THEN down
                   ELSE [down EXCEPT ![c] = Append(@, Rst)]
    BY <1>5, Zenon DEF Refuse, clientVars, serverVars, history
  <2>2. \A d \in Conns \ {c} : up'[d] = up[d] /\ down'[d] = down[d]
    BY <1>1, <2>1, Zenon DEF TypeInv
  <2>3. conn[c] # "deaf" => down'[c] # <<>>
    BY <1>1, <1>2, <1>3, <2>1, Zenon DEF TypeInv
  <2>4. up'[c] = NoMessage /\ (conn[c] = "deaf" => down'[c] = down[c])
    BY <1>1, <2>1, Zenon DEF TypeInv
  <2>5. conn[c] # "none" => polled[c]
    BY Zenon DEF WaitInv
  <2> QED
    BY <2>1, <2>2, <2>3, <2>4, <2>5
<1>6. ASSUME NEW err \in BOOLEAN, Poll(c, err)
      PROVE  /\ UNCHANGED <<pc, socket, failCounter, up, dropped>>
             /\ \A d \in Conns \ {c} : /\ down'[d] = down[d]
                                       /\ conn'[d] = conn[d] /\ polled'[d] = polled[d]
             /\ down[c] # <<>> => down'[c] # <<>>
             /\ conn'[c] # "none" => polled'[c]
             /\ conn'[c] = "none" => down'[c] # <<>>
             /\ ~err => down'[c] # <<>>
  <2>1. UNCHANGED <<pc, socket, failCounter, up, dropped>> /\ server_poll(c, err)
    BY <1>6, Zenon DEF Poll, clientVars, history
  <2>2. CASE err
    <3>1. conn' = [conn EXCEPT ![c] = "deaf"] /\ polled' = [polled EXCEPT ![c] = TRUE]
          /\ down' = down
      BY <2>1, <2>2, Zenon DEF server_poll
    <3>2. conn'[c] = "deaf" /\ polled'[c]
      BY <1>1, <3>1, Zenon DEF TypeInv
    <3>3. \A d \in Conns \ {c} : conn'[d] = conn[d] /\ polled'[d] = polled[d]
      BY <1>1, <3>1, Zenon DEF TypeInv
    <3> QED
      BY <2>1, <2>2, <3>1, <3>2, <3>3
  <2>3. CASE ~err
    <3>1. conn' = [conn EXCEPT ![c] = "none"] /\ polled' = [polled EXCEPT ![c] = FALSE]
          /\ down' = [down EXCEPT ![c] = Append(@, Fin)]
      BY <2>1, <2>3, Zenon DEF server_poll
    <3>2. conn'[c] = "none" /\ down'[c] # <<>>
      BY <1>1, <1>2, <1>3, <3>1, Zenon DEF TypeInv
    <3>3. \A d \in Conns \ {c} : /\ conn'[d] = conn[d] /\ polled'[d] = polled[d]
                                 /\ down'[d] = down[d]
      BY <1>1, <3>1, Zenon DEF TypeInv
    <3> QED
      BY <2>1, <3>2, <3>3, Zenon
  <2> QED
    BY <2>2, <2>3, Zenon
<1>7. CASE \E err \in BOOLEAN : Poll(c, err)
  <2>1. PICK err \in BOOLEAN : Poll(c, err)
    BY <1>7, Zenon
  <2>2. CASE Serves(c)
    <3>1. CASE Poll(c, FALSE)
      BY <1>6, <3>1, Zenon
    <3> QED
      BY <1>4, <1>5, <2>2, <3>1, Zenon DEF Serves
  <2>3. CASE ~Serves(c)
    BY <1>6, <2>1, <2>3, Zenon
  <2> QED
    BY <2>2, <2>3, Zenon
<1> QED
  BY <1>4, <1>5, <1>7, Zenon

\* Every step keeps the invariant.
LEMMA StepWait == IInv /\ WaitInv /\ [Next]_vars => WaitInv'
<1> SUFFICES ASSUME IInv, WaitInv, [Next]_vars PROVE WaitInv'
  BY Zenon
<1>1. TypeInv
  BY Zenon DEF IInv
<1>2. ASSUME NEW k \in Clients, App(k) PROVE WaitInv'
  BY <1>2, AppWaits, Zenon
<1>3. ASSUME NEW k \in Clients, Relaunch(k) \/ \E m \in Messages : Call(k, m)
      PROVE  WaitInv'
  <2>1. /\ UNCHANGED <<socket, conn, polled, up, down>>
        /\ \A j \in Clients \ {k} : /\ pc'[j] = pc[j] /\ dropped'[j] = dropped[j]
                                    /\ failCounter'[j] = failCounter[j]
    <3>1. CASE Relaunch(k)
      <4>1. /\ UNCHANGED <<socket, conn, polled, up, down, dropped>>
            /\ pc' = [pc EXCEPT ![k] = "idle"]
            /\ failCounter' = [failCounter EXCEPT ![k] = 0]
        BY <3>1, Zenon DEF Relaunch, serverVars, history
      <4>2. DOMAIN pc = Clients /\ DOMAIN failCounter = Clients
        BY <1>1, Zenon DEF TypeInv
      <4> QED
        BY <4>1, <4>2, Zenon
    <3>2. CASE \E m \in Messages : Call(k, m)
      <4>1. /\ UNCHANGED <<socket, conn, polled, up, down, failCounter>>
            /\ \E x : pc' = [pc EXCEPT ![k] = x]
            /\ dropped' = [dropped EXCEPT ![k] = "no"]
        BY <3>2, Zenon DEF Call, serverVars
      <4>2. DOMAIN pc = Clients /\ DOMAIN dropped = Clients
        BY <1>1, Zenon DEF TypeInv
      <4> QED
        BY <4>1, <4>2, Zenon
    <3> QED
      BY <1>3, <3>1, <3>2, Zenon
  <2>2. pc'[k] # "read" /\ Attempts(k)'
    <3>1. CASE Relaunch(k)
      BY <1>1, <3>1, Zenon DEF Relaunch, TypeInv, Attempts
    <3>2. CASE \E m \in Messages : Call(k, m)
      <4>1. /\ pc[k] = "idle" /\ pc'[k] \in {"open", "send"}
            /\ failCounter' = failCounter
        BY <1>1, <3>2, Zenon DEF Call, TypeInv
      <4>2. failCounter[k] = 0
        BY <4>1, Zenon DEF WaitInv, Attempts
      <4> QED
        BY <4>1, <4>2, Zenon DEF Attempts
    <3> QED
      BY <1>3, <3>1, <3>2, Zenon
  <2>3. ASSUME NEW j \in Clients PROVE Waits(j)' /\ Attempts(j)'
    <3>1. CASE j = k
      BY <2>2, <3>1, Zenon DEF Waits
    <3>2. CASE j # k
      <4>1. /\ pc'[j] = pc[j] /\ dropped'[j] = dropped[j]
            /\ failCounter'[j] = failCounter[j] /\ Waits(j) /\ Attempts(j)
        BY <2>1, <3>2, Zenon DEF WaitInv
      <4> QED
        BY <2>1, <4>1, Zenon DEF Waits, Attempts
    <3> QED
      BY <3>1, <3>2, Zenon
  <2> QED
    BY <2>1, <2>3, Zenon DEF WaitInv
<1>4. ASSUME NEW c \in Conns,
             server_recv(c) \/ Refuse(c) \/ \E err \in BOOLEAN : Poll(c, err)
      PROVE  WaitInv'
  <2>1. /\ UNCHANGED <<pc, socket, failCounter>>
        /\ \A d \in Conns \ {c} : /\ up'[d] = up[d] /\ down'[d] = down[d]
                                  /\ conn'[d] = conn[d] /\ polled'[d] = polled[d]
        /\ \A j \in Clients : dropped'[j] # "power" => dropped[j] # "power"
        /\ conn'[c] # "none" => polled'[c]
        /\ conn'[c] = "none" => down'[c] # <<>>
    BY <1>4, ServerStep, Zenon
  <2>2. \A d \in Conns : conn'[d] # "none" => polled'[d]
    BY <2>1, Zenon DEF WaitInv
  <2>3. ASSUME NEW k \in Clients, pc[k] = "read" PROVE socket[k] \in Conns
    <3>1. socket[k] \in Conns \cup {NoSocket} /\ socket[k] # NoSocket
      BY <2>3, Zenon DEF IInv, SocketInv, TypeInv
    <3> QED
      BY <3>1, Zenon
  <2>4. ASSUME NEW k \in Clients PROVE Waits(k)'
    <3>1. CASE socket[k] = c
      BY <2>1, <3>1, Zenon DEF Waits
    <3>2. CASE socket[k] # c
      BY <2>1, <2>3, <3>2, ZenonT(30) DEF Waits, WaitInv
    <3> QED
      BY <3>1, <3>2, Zenon
  <2> QED
    BY <2>1, <2>2, <2>4, Zenon DEF WaitInv, Attempts
<1>5. CASE PowerCut
  <2>1. /\ \A c \in Conns : conn'[c] = "none"
        /\ \A k \in Clients : pc[k] = "read" => dropped'[k] = "power"
        /\ UNCHANGED <<pc, failCounter>>
    BY <1>5 DEF PowerCut, clientVars
  <2> QED
    BY <2>1, Zenon DEF WaitInv, Waits, Attempts
<1>6. CASE UNCHANGED vars \/ \E v \in Values : Turn(v)
  <2>1. UNCHANGED <<pc, socket, failCounter, conn, polled, up, down, dropped>>
    BY <1>6, Zenon DEF vars, Turn, clientVars, serverVars, history
  <2> QED
    BY <2>1, Zenon DEF WaitInv, Waits, Attempts
<1> QED
  BY <1>2, <1>3, <1>4, <1>5, <1>6, Zenon DEF Next

LEMMA WaitInvariant == Spec => [](IInv /\ WaitInv)
<1>1. Init => WaitInv
  <2> SUFFICES ASSUME Init PROVE WaitInv
    BY Zenon
  <2>1. /\ \A k \in Clients : pc[k] = "idle" /\ failCounter[k] = 0
        /\ \A c \in Conns : conn[c] = "none"
    BY Zenon DEF Init
  <2> QED
    BY <2>1, Zenon DEF WaitInv, Waits, Attempts
<1> QED
  BY <1>1, StepWait, RemoteInvariant, PTL DEF Spec

\* An app without a socket finds a connection that is free: the others have
\* fewer than there are.
LEMMA FreeConnection ==
  ASSUME IInv, NEW k \in Clients, pc[k] = "open"
  PROVE  \E c \in Conns \ {socket[j] : j \in Clients} : conn[c] = "none"
<1>1. socket[k] = NoSocket
  BY Zenon DEF IInv, SocketInv
<1>2. PICK c \in Conns : \A j \in Clients : socket[j] # c
  <2> SUFFICES ASSUME \A c \in Conns : \E j \in Clients : socket[j] = c
               PROVE  FALSE
    BY Zenon
  <2> DEFINE Others == Clients \ {k}
             owner == [c \in Conns |-> CHOOSE j \in Others : socket[j] = c]
  <2>1. \A c \in Conns : \E j \in Others : socket[j] = c
    BY <1>1, NoSocketOpen, Zenon
  <2>2. \A c \in Conns : owner[c] \in Others /\ socket[owner[c]] = c
    BY <2>1, Zenon
  <2>3. owner \in [Conns -> Others]
    BY <2>2, Zenon
  <2>4. IsFiniteSet(Clients) /\ Cardinality(Clients) \in Nat
    BY ClientsAssumption, FS_CardinalityType, Zenon
  <2>5. /\ IsFiniteSet(Others)
        /\ Cardinality(Others) = Cardinality(Clients) - 1
    BY <2>4, FS_RemoveElement, Zenon
  <2>6. IsFiniteSet(Conns) /\ Cardinality(Conns) = Cardinality(Clients)
    <3>1. Cardinality(Others) \in Nat
      BY <2>5, FS_CardinalityType, Zenon
    <3>2. IsFiniteSet(1..Cardinality(Clients))
          /\ Cardinality(1..Cardinality(Clients)) =
               IF 1 > Cardinality(Clients) THEN 0 ELSE Cardinality(Clients) - 1 + 1
      BY <2>4, FS_Interval, SMTT(30)
    <3> QED
      BY <2>4, <2>5, <3>1, <3>2 DEF Conns
  <2>7. Cardinality(Others) < Cardinality(Conns)
    BY <2>4, <2>5, <2>6
  <2>8. \E c, d \in Conns : c # d /\ owner[c] = owner[d]
    <3> HIDE DEF owner, Others
    <3>1. IsFiniteSet(Conns) /\ IsFiniteSet(Others)
      BY <2>5, <2>6, Zenon
    <3> QED
      BY <2>3, <2>7, <3>1, FS_PigeonHole
  <2> QED
    BY <2>2, <2>8, Zenon
<1>3. conn[c] = "none"
  BY <1>2, Zenon DEF IInv, SocketInv
<1> QED
  BY <1>2, <1>3, Zenon

LEMMA WaitLeftType ==
  ASSUME NEW c
  PROVE  WaitLeft(c) \in 0..2 /\ (down[c] = <<>> => WaitLeft(c) # 0)
BY DEF WaitLeft

LEMMA Sums ==
  /\ \A a \in {0, 5}, w \in 0..2 :
       /\ a + (1 + w) \in 0..10 /\ a + (1 + w) # 0 /\ a + (1 + w) < a + 4
  /\ \A a \in {0, 5} : /\ a + 4 \in 0..10 /\ a + 4 # 0 /\ a + 5 \in 0..10 /\ a + 5 # 0
                       /\ a + 4 < a + 5 /\ 0 < a + (1 + 0)
  /\ 0 + 5 < 5 + (1 + 0)
  /\ \A a \in {0, 5}, v, w \in 0..2 :
       /\ v < w => a + (1 + v) < a + (1 + w)
       /\ v <= w => a + (1 + v) <= a + (1 + w)
  /\ \A n \in 0..10 : n <= n
OBVIOUS

Attempt(k) == IF failCounter[k] = 0 THEN 5 ELSE 0

\* The number by the app's place, ...
LeftOk(k) ==
  /\ Attempt(k) \in {0, 5} /\ WaitLeft(socket[k]) \in 0..2
  /\ pc[k] \in {"idle", "finished"} => CallLeft(k) = 0
  /\ pc[k] = "open" => CallLeft(k) = Attempt(k) + 5
  /\ pc[k] = "send" => CallLeft(k) = Attempt(k) + 4
  /\ pc[k] = "read" => CallLeft(k) = Attempt(k) + (1 + WaitLeft(socket[k]))

LEMMA LeftAt == \A k \in Clients : LeftOk(k)
<1> SUFFICES ASSUME NEW k \in Clients PROVE LeftOk(k)
  BY Zenon
<1>1. Attempt(k) \in {0, 5}
  BY Zenon DEF Attempt
<1>2. pc[k] \in {"idle", "finished"} => CallLeft(k) = 0
  BY Zenon DEF CallLeft
<1>3. pc[k] = "open" => CallLeft(k) = Attempt(k) + 5
  BY Zenon DEF CallLeft, Attempt
<1>4. pc[k] = "send" => CallLeft(k) = Attempt(k) + 4
  BY Zenon DEF CallLeft, Attempt
<1>5. pc[k] = "read" => CallLeft(k) = Attempt(k) + (1 + WaitLeft(socket[k]))
  BY Zenon DEF CallLeft, Attempt
<1>6. WaitLeft(socket[k]) \in 0..2
  BY WaitLeftType, Zenon
<1> QED
  BY <1>1, <1>2, <1>3, <1>4, <1>5, <1>6, Zenon DEF LeftOk

\* ... in the next state too.
LEMMA LeftAtNext == \A k \in Clients : LeftOk(k)'
<1>1. (\A k \in Clients : LeftOk(k))'
  BY LeftAt, PTL
<1> QED
  BY <1>1, Zenon

\* A step of the app ...
LEMMA AppShortens ==
  ASSUME IInv, WaitInv, NEW k \in Clients, App(k)
  PROVE  CallLeft(k)' < CallLeft(k)
<1>1. TypeInv /\ LeftOk(k) /\ LeftOk(k)'
  BY LeftAt, LeftAtNext, Zenon DEF IInv
<1>2. CASE Open(k)
  <2>1. pc[k] = "open" /\ pc'[k] = "send" /\ Attempt(k)' = Attempt(k)
    BY <1>1, <1>2, Zenon DEF Open, TypeInv, Attempt
  <2>2. /\ CallLeft(k) = Attempt(k) + 5 /\ CallLeft(k)' = Attempt(k) + 4
        /\ Attempt(k) \in {0, 5}
    BY <1>1, <2>1, Zenon DEF LeftOk
  <2> QED
    BY <2>2, Sums, Zenon
<1>3. CASE Send(k)
  <2>1. pc[k] = "send" /\ pc'[k] = "read" /\ Attempt(k)' = Attempt(k)
    BY <1>1, <1>3, Zenon DEF Send, TypeInv, Attempt
  <2>2. /\ CallLeft(k) = Attempt(k) + 4 /\ Attempt(k) \in {0, 5}
        /\ CallLeft(k)' = Attempt(k) + (1 + WaitLeft(socket[k])')
        /\ WaitLeft(socket[k])' \in 0..2
    BY <1>1, <2>1, Zenon DEF LeftOk
  <2> QED
    BY <2>2, Sums, Zenon
<1>4. CASE Read(k)
  <2>1. pc[k] = "read" /\ WaitLeft(socket[k]) = 0
    BY <1>4, Zenon DEF Read, WaitLeft
  <2>2. CallLeft(k) = Attempt(k) + (1 + 0) /\ Attempt(k) \in {0, 5}
    BY <1>1, <2>1, Zenon DEF LeftOk
  <2>3. CASE pc'[k] \in {"idle", "finished"}
    <3>1. CallLeft(k)' = 0
      BY <1>1, <2>3, Zenon DEF LeftOk
    <3> QED
      BY <2>2, <3>1, Sums, Zenon
  <2>4. CASE pc'[k] = "open"
    <3>1. /\ pc'[k] # "idle"
          /\ \/ pc' = [pc EXCEPT ![k] = "idle"]
             \/ /\ pc' = [pc EXCEPT ![k] = IF GiveUp(k) THEN "finished" ELSE "open"]
                /\ failCounter' = [failCounter EXCEPT ![k] = @ + 1]
      BY <1>4, <2>4, Zenon DEF Read
    <3>2. ~GiveUp(k) /\ failCounter'[k] = failCounter[k] + 1
      BY <1>1, <2>4, <3>1, Zenon DEF TypeInv
    <3>3. failCounter[k] \in {0, 1}
      BY <2>1, Zenon DEF WaitInv, Attempts
    <3>4. failCounter[k] = 0 /\ failCounter'[k] # 0
      BY <3>2, <3>3 DEF GiveUp
    <3>5. Attempt(k) = 5 /\ Attempt(k)' = 0
      BY <3>4, Zenon DEF Attempt
    <3>6. CallLeft(k)' = 0 + 5 /\ CallLeft(k) = 5 + (1 + 0)
      BY <1>1, <2>2, <2>4, <3>5, Zenon DEF LeftOk
    <3> QED
      BY <3>6, Sums, Zenon
  <2>5. pc'[k] \in {"idle", "finished", "open"}
    BY <1>1, <1>4, Zenon DEF Read, TypeInv
  <2> QED
    BY <2>3, <2>4, <2>5, Zenon
<1> QED
  BY <1>2, <1>3, <1>4, Zenon DEF App

\* ... or of the server for it, and everything else.
LEMMA WaitShortens ==
  ASSUME NEW k \in Clients, pc'[k] = pc[k], Attempt(k)' = Attempt(k)
  PROVE  /\ pc[k] = "read" /\ WaitLeft(socket[k])' < WaitLeft(socket[k])
              => CallLeft(k)' < CallLeft(k)
         /\ pc[k] = "read" /\ WaitLeft(socket[k])' <= WaitLeft(socket[k])
              => CallLeft(k)' <= CallLeft(k)
         /\ pc[k] \in {"open", "send"} => CallLeft(k)' <= CallLeft(k)
<1>1. LeftOk(k) /\ LeftOk(k)'
  BY LeftAt, LeftAtNext, Zenon
<1>2. CASE pc[k] = "read"
  <2>1. /\ CallLeft(k) = Attempt(k) + (1 + WaitLeft(socket[k]))
        /\ CallLeft(k)' = Attempt(k) + (1 + WaitLeft(socket[k])')
        /\ WaitLeft(socket[k])' \in 0..2 /\ WaitLeft(socket[k]) \in 0..2
        /\ Attempt(k) \in {0, 5}
    BY <1>1, <1>2, Zenon DEF LeftOk
  <2>2. /\ WaitLeft(socket[k])' < WaitLeft(socket[k]) => CallLeft(k)' < CallLeft(k)
        /\ WaitLeft(socket[k])' <= WaitLeft(socket[k]) => CallLeft(k)' <= CallLeft(k)
    BY <2>1, Sums, Zenon
  <2> QED
    BY <1>2, <2>2
<1>3. CASE pc[k] \in {"open", "send"}
  <2>1. CallLeft(k)' = CallLeft(k) /\ CallLeft(k) \in 0..10
    BY <1>1, <1>3, Sums, ZenonT(30) DEF LeftOk
  <2> QED
    BY <1>3, <2>1, Sums
<1> QED
  BY <1>2, <1>3, Zenon

LEMMA CalmLeft ==
  ASSUME NEW k \in Clients, pc[k] \in {"open", "send", "read"},
         pc'[k] = pc[k], failCounter'[k] = failCounter[k], socket'[k] = socket[k],
         NEW c, c = socket[k],
         pc[k] = "read" => /\ down[c] # <<>> => down'[c] # <<>>
                           /\ up'[c] \in {up[c], NoMessage}
  PROVE  /\ CallLeft(k)' <= CallLeft(k)
         /\ pc[k] = "read" /\ down[c] = <<>> =>
              (down'[c] # <<>> \/ (up[c] # NoMessage /\ up'[c] = NoMessage)
                 => CallLeft(k)' < CallLeft(k))
<1>1. Attempt(k)' = Attempt(k)
  BY Zenon DEF Attempt
<1>2. CASE pc[k] = "read"
  <2>1. /\ WaitLeft(socket[k]) = IF down[c] # <<>> THEN 0
                                 ELSE IF up[c] # NoMessage THEN 2 ELSE 1
        /\ WaitLeft(socket[k])' = IF down'[c] # <<>> THEN 0
                                  ELSE IF up'[c] # NoMessage THEN 2 ELSE 1
    BY Zenon DEF WaitLeft
  <2>2. WaitLeft(socket[k])' <= WaitLeft(socket[k])
    BY <1>2, <2>1
  <2>3. down[c] = <<>> /\ (down'[c] # <<>> \/ (up[c] # NoMessage /\ up'[c] = NoMessage))
          => WaitLeft(socket[k])' < WaitLeft(socket[k])
    BY <1>2, <2>1
  <2>4. /\ WaitLeft(socket[k])' < WaitLeft(socket[k]) => CallLeft(k)' < CallLeft(k)
        /\ WaitLeft(socket[k])' <= WaitLeft(socket[k]) => CallLeft(k)' <= CallLeft(k)
    BY <1>1, <1>2, WaitShortens, Zenon
  <2> QED
    BY <2>2, <2>3, <2>4, Zenon
<1>3. CASE pc[k] \in {"open", "send"}
  <2>1. pc[k] # "read"
    BY <1>3
  <2>2. CallLeft(k)' <= CallLeft(k)
    BY <1>1, <1>3, WaitShortens, Zenon
  <2> QED
    BY <2>1, <2>2, Zenon
<1> QED
  BY <1>2, <1>3, Zenon

LEMMA ServesShortens ==
  ASSUME IInv, WaitInv, NEW k \in Clients, pc[k] = "read", down[socket[k]] = <<>>,
         Serves(socket[k])
  PROVE  CallLeft(k)' < CallLeft(k)
<1> DEFINE c == socket[k]
<1>1. c \in Conns
  <2>1. c \in Conns \cup {NoSocket} /\ c # NoSocket
    BY Zenon DEF IInv, SocketInv, TypeInv
  <2> QED
    BY <2>1, Zenon
<1>2. server_recv(c) \/ Refuse(c) \/ \E err \in BOOLEAN : Poll(c, err)
  BY Zenon DEF Serves
<1>3. /\ UNCHANGED <<pc, socket, failCounter>> /\ up'[c] \in {up[c], NoMessage}
      /\ down'[c] # <<>> \/ (up[c] # NoMessage /\ up'[c] = NoMessage)
  BY <1>1, <1>2, ServerStep, Zenon
<1> QED
  BY <1>3, CalmLeft, Zenon

LEMMA OthersKeep ==
  ASSUME IInv, WaitInv, NEW k \in Clients, pc[k] \in {"open", "send", "read"},
         Next, ~App(k), ~PowerCut
  PROVE  CallLeft(k)' <= CallLeft(k)
<1> DEFINE c == socket[k]
<1>1. TypeInv
  BY Zenon DEF IInv
<1>2. pc[k] = "read" => c \in Conns
  <2>1. pc[k] = "read" => c \in Conns \cup {NoSocket} /\ c # NoSocket
    BY <1>1, Zenon DEF IInv, SocketInv, TypeInv
  <2> QED
    BY <2>1, Zenon
<1>3. ASSUME NEW j \in Clients, App(j) \/ Relaunch(j) \/ \E m \in Messages : Call(j, m)
      PROVE  CallLeft(k)' <= CallLeft(k)
  <2>1. j # k
    <3>1. ~Relaunch(k) /\ \A m \in Messages : ~Call(k, m)
      BY DEF Relaunch, Call
    <3> QED
      BY <1>3, <3>1, Zenon
  <2>2. pc'[k] = pc[k] /\ failCounter'[k] = failCounter[k] /\ socket'[k] = socket[k]
    BY <1>1, <1>3, <2>1 DEF App, Open, Send, Read, Relaunch, Call, TypeInv
  <2>3. pc[k] = "read" => down'[c] = down[c] /\ up'[c] = up[c]
    <3> SUFFICES ASSUME pc[k] = "read" PROVE down'[c] = down[c] /\ up'[c] = up[c]
      BY Zenon
    <3>1. c \in Conns /\ c # socket[j]
      BY <2>1, Apart, Zenon
    <3>2. CASE Open(j)
      <4>1. PICK d \in Conns \ {socket[i] : i \in Clients} :
              /\ up' = [up EXCEPT ![d] = NoMessage] /\ down' = [down EXCEPT ![d] = <<>>]
        BY <3>2, Zenon DEF Open
      <4>2. d # c
        BY <4>1, Zenon
      <4> HIDE DEF c
      <4> QED
        BY <1>1, <3>1, <4>1, <4>2, Zenon DEF TypeInv
    <3>3. CASE Send(j)
      BY <1>1, <3>1, <3>3, Zenon DEF Send, TypeInv
    <3>4. CASE Read(j)
      BY <1>1, <3>1, <3>4, Zenon DEF Read, TypeInv
    <3>5. CASE Relaunch(j) \/ \E m \in Messages : Call(j, m)
      BY <3>5, Zenon DEF Relaunch, Call
    <3> QED
      BY <1>3, <3>2, <3>3, <3>4, <3>5, Zenon DEF App
  <2> QED
    BY <2>2, <2>3, CalmLeft, Zenon
<1>4. ASSUME NEW d \in Conns,
             server_recv(d) \/ Refuse(d) \/ \E err \in BOOLEAN : Poll(d, err)
      PROVE  CallLeft(k)' <= CallLeft(k)
  <2>1. /\ UNCHANGED <<pc, socket, failCounter>>
        /\ \A b \in Conns \ {d} : up'[b] = up[b] /\ down'[b] = down[b]
        /\ up'[d] \in {up[d], NoMessage} /\ (down[d] # <<>> => down'[d] # <<>>)
    BY <1>4, ServerStep, Zenon
  <2>2. /\ pc'[k] = pc[k] /\ failCounter'[k] = failCounter[k]
        /\ socket'[k] = socket[k]
        /\ pc[k] = "read" => /\ down[c] # <<>> => down'[c] # <<>>
                             /\ up'[c] \in {up[c], NoMessage}
    BY <1>2, <2>1, Zenon
  <2> QED
    BY <2>2, CalmLeft, Zenon
<1>5. ASSUME NEW v \in Values, Turn(v) PROVE CallLeft(k)' <= CallLeft(k)
  <2>1. UNCHANGED <<pc, failCounter, socket, up, down>>
    BY <1>5, Zenon DEF Turn, clientVars
  <2> QED
    BY <2>1, CalmLeft, Zenon
<1> QED
  BY <1>3, <1>4, <1>5, Zenon DEF Next

\* A sendMessage makes its two attempts in ten steps of app and server, and
\* nobody waits for somebody who has nothing to do.
THEOREM RemoteCallsEnd == Spec => CallInTime
<1> DEFINE S == \A k \in Clients :
                  /\ CallLeft(k) \in 0..10
                  /\ CallLeft(k) = 0 <=> pc[k] \in {"idle", "finished"}
                  /\ CallLeft(k) # 0 /\ dropped[k] # "power" => CallMoves(k)
<1>1. IInv /\ WaitInv => S
  <2> SUFFICES ASSUME IInv, WaitInv, NEW k \in Clients
               PROVE  /\ CallLeft(k) \in 0..10
                      /\ CallLeft(k) = 0 <=> pc[k] \in {"idle", "finished"}
                      /\ CallLeft(k) # 0 /\ dropped[k] # "power" => CallMoves(k)
    BY Zenon
  <2>1. LeftOk(k) /\ 0 \in 0..10
    BY LeftAt
  <2>2. CASE pc[k] \in {"idle", "finished"}
    BY <2>1, <2>2, Zenon DEF LeftOk
  <2>3. CASE pc[k] = "open"
    <3>1. CallMoves(k) /\ pc[k] \notin {"idle", "finished"}
      BY <2>3, FreeConnection DEF CallMoves
    <3> QED
      BY <2>1, <2>3, <3>1, Sums, Zenon DEF LeftOk
  <2>4. CASE pc[k] = "send"
    <3>1. CallMoves(k) /\ pc[k] \notin {"idle", "finished"}
      BY <2>4 DEF CallMoves
    <3> QED
      BY <2>1, <2>4, <3>1, Sums, Zenon DEF LeftOk
  <2>5. CASE pc[k] = "read"
    <3> DEFINE c == socket[k]
    <3>1. c \in Conns /\ \A j \in Clients : socket[j] = c => j = k
      <4>1. c \in Conns \cup {NoSocket} /\ c # NoSocket
        BY <2>5, Zenon DEF IInv, SocketInv, TypeInv
      <4> QED
        BY <4>1, Zenon DEF IInv, SocketInv
    <3>2. dropped[k] # "power" => CallMoves(k)
      <4> SUFFICES ASSUME dropped[k] # "power", down[c] = <<>>, up[c] = NoMessage
                   PROVE  polled[c] /\ Silent(c)
        BY <2>5, Zenon DEF CallMoves
      <4>1. polled[c]
        BY <2>5, <3>1, Zenon DEF WaitInv, Waits
      <4>2. Silent(c)
        BY <2>5, <3>1, Zenon DEF Silent, Owner
      <4> QED
        BY <4>1, <4>2, Zenon
    <3>3. pc[k] \notin {"idle", "finished"}
      BY <2>5
    <3> QED
      BY <2>1, <2>5, <3>2, <3>3, Sums, Zenon DEF LeftOk
  <2>6. pc[k] \in {"idle", "open", "send", "read", "finished"}
    BY Zenon DEF IInv, TypeInv
  <2> QED
    BY <2>2, <2>3, <2>4, <2>5, <2>6, Zenon
<1>2. IInv /\ WaitInv /\ IInv' /\ WaitInv' /\ [Next]_vars =>
        [\A k \in Clients :
          /\ App(k) => CallLeft(k)' < CallLeft(k)
          /\ pc[k] = "read" /\ down[socket[k]] = <<>> /\ Serves(socket[k])
               => CallLeft(k)' < CallLeft(k)
          /\ CallLeft(k) # 0 /\ ~PowerCut => CallLeft(k)' <= CallLeft(k)]_vars
  <2> SUFFICES ASSUME IInv, WaitInv, IInv', WaitInv', Next, NEW k \in Clients
               PROVE  /\ App(k) => CallLeft(k)' < CallLeft(k)
                      /\ pc[k] = "read" /\ down[socket[k]] = <<>> /\ Serves(socket[k])
                           => CallLeft(k)' < CallLeft(k)
                      /\ CallLeft(k) # 0 /\ ~PowerCut => CallLeft(k)' <= CallLeft(k)
    BY Zenon
  <2>1. CASE App(k)
    <3>1. CallLeft(k)' < CallLeft(k)
      BY <2>1, AppShortens, Zenon
    <3>2. CallLeft(k)' \in 0..10 /\ CallLeft(k) \in 0..10
      <4>1. S /\ S'
        BY <1>1, PTL
      <4> QED
        BY <4>1, Zenon
    <3> QED
      BY <3>1, <3>2
  <2>2. CASE ~App(k)
    <3>1. CallLeft(k) # 0 => pc[k] \in {"open", "send", "read"}
      <4>1. LeftOk(k) /\ pc[k] \in {"idle", "open", "send", "read", "finished"}
        BY LeftAt, Zenon DEF IInv, TypeInv
      <4> QED
        BY <4>1, Zenon DEF LeftOk
    <3> QED
      BY <2>2, <3>1, ServesShortens, OthersKeep, Zenon
  <2> QED
    BY <2>1, <2>2, Zenon
<1> QED
  BY <1>1, <1>2, WaitInvariant, PTL DEF Spec, CallInTime
=============================================================================
