--------------------------- MODULE RemoteSession ---------------------------
(***************************************************************************)
(* The daemon seen from its clients, host/rogo/daemon_client.py: a client  *)
(* finds the daemon with a liveness probe and then makes one remote call   *)
(* at a time over its own connection, each with a deadline of its own.  On *)
(* the other end UnixSocketListener._serve_client() serves the connection, *)
(* one request after the other, on a thread of its own.                    *)
(*                                                                         *)
(* A connection and its thread have one name, a member of Threads.  A tick *)
(* is a second.  Everything the daemon does of its own accord takes no     *)
(* time: only a wait does, and noticing an abort takes one poll of 0.1 s,  *)
(* less than a tick.  The daemon is not stopped here; DaemonServer has     *)
(* that.                                                                   *)
(***************************************************************************)
EXTENDS DaemonServer, Sequences

CONSTANTS Tools,        \* the connections of long-lived mcp servers
          WaitTimeouts, \* [s] the timeouts that callers give a wait
          Margin,       \* [s] _RPC_MARGIN_S
          FindTimeout,  \* [s] DEFAULT_FIND_TIMEOUT_S
          MaxCalls      \* bound: calls of all clients together

ASSUME RemoteAssumption ==
  /\ Tools \subseteq Threads /\ WaitTimeouts \subseteq Nat \ {0}
  /\ Margin \in Nat \ {0} /\ FindTimeout \in Nat \ {0} /\ MaxCalls \in Nat
  /\ MaxRequests >= MaxCalls

VARIABLES
  link,       \* each client's socket: "none", "open" or "closed"
  call,       \* the call it is in: its request and the seconds left to answer
  nextCall,   \* _id_counter
  requests,   \* requests under way on each connection
  replies,    \* replies under way on each connection
  request,    \* the one its serving thread has read
  toRun,      \* [s] left of the running wait's own timeout
  behind      \* history: the call has stood behind another one's wait

clientVars == <<link, call, nextCall>>
socketVars == <<requests, replies>>
remoteVars == <<daemonVars, clientVars, socketVars, request, toRun, behind>>

NoRequest == [id |-> 0, body |-> "none", timeout |-> 0]
NoCall    == [request |-> NoRequest, left |-> 0]
InCall(c) == call[c] # NoCall
CallsMade == Cardinality({made \in Threads \X (1..MaxCalls) : made[2] < nextCall[made[1]]})

RemoteInit ==
  /\ DaemonInit
  /\ link = [c \in Threads |-> "none"] /\ call = [c \in Threads |-> NoCall]
  /\ nextCall = [c \in Threads |-> 1]
  /\ requests = [c \in Threads |-> << >>] /\ replies = [c \in Threads |-> << >>]
  /\ request = [c \in Threads |-> NoRequest]
  /\ toRun = 0 /\ behind = [c \in Threads |-> FALSE]

(***************************************************************************)
(* The client                                                              *)
(***************************************************************************)

\* _DaemonWireClient.call(): send the request, start its deadline.
Calls(c, body, timeout, patience) ==
  LET req == [id |-> nextCall[c], body |-> body, timeout |-> timeout]
  IN  /\ call' = [call EXCEPT ![c] = [request |-> req, left |-> patience]]
      /\ nextCall' = [nextCall EXCEPT ![c] = @ + 1]
      /\ requests' = [requests EXCEPT ![c] = Append(@, req)]
      /\ behind' = [behind EXCEPT ![c] = FALSE]
      /\ UNCHANGED <<daemonVars, replies, request, toRun>>

\* find_daemon(): connect and probe.
Find(c) ==
  /\ link[c] = "none" /\ worker # "none" /\ CallsMade < MaxCalls
  /\ link' = [link EXCEPT ![c] = "open"]
  /\ Calls(c, "probe", 0, FindTimeout)

MayCall(c) == link[c] = "open" /\ ~InCall(c) /\ CallsMade < MaxCalls

\* No tool of the mcp server sends ESTOP.
CallShort(c) ==
  /\ MayCall(c)
  /\ \E body \in Bodies \ {"wait"} :
       /\ c \in Tools => body # "estop"
       /\ Calls(c, body, 0, Margin)
  /\ UNCHANGED link

\* Mutant of Patience: the client allows what the daemon does and no more.
PatienceWithoutMargin(timeout) == timeout

Patience(timeout) == timeout + Margin

CallWait(c) ==
  /\ MayCall(c) /\ "wait" \in Bodies
  /\ \E timeout \in WaitTimeouts : Calls(c, "wait", timeout, Patience(timeout))
  /\ UNCHANGED link

\* Replies are told apart by their id only; one to an earlier call is dropped.
Receive(c) ==
  /\ InCall(c) /\ replies[c] # << >>
  /\ call' = IF Head(replies[c]).id = call[c].request.id
               THEN [call EXCEPT ![c] = NoCall] ELSE call
  /\ replies' = [replies EXCEPT ![c] = Tail(@)]
  /\ UNCHANGED <<daemonVars, link, nextCall, requests, request, toRun, behind>>

\* DaemonUnavailableError.  It ends a command-line client and a find; an mcp
\* server reports it and keeps its connection.
GivesUp(c) ==
  /\ InCall(c) /\ call[c].left = 0
  /\ call' = [call EXCEPT ![c] = NoCall]
  /\ link' = IF c \in Tools /\ call[c].request.body # "probe"
               THEN link ELSE [link EXCEPT ![c] = "closed"]
  /\ UNCHANGED <<daemonVars, nextCall, socketVars, request, toRun, behind>>

Leaves(c) ==
  /\ link[c] = "open" /\ ~InCall(c)
  /\ link' = [link EXCEPT ![c] = "closed"]
  /\ UNCHANGED <<daemonVars, call, nextCall, socketVars, request, toRun, behind>>

(***************************************************************************)
(* _serve_client(): its thread is between requests while it is "idle"      *)
(***************************************************************************)

Submits(c) ==
  /\ Number(c, Head(requests[c]).body)
  /\ request' = [request EXCEPT ![c] = Head(requests[c])]
  /\ UNCHANGED replies

\* Mutant of AnswersProbe: the probe is an ordinary request.
AnswersProbeInTurn(c) ==
  /\ Head(requests[c]).body = "probe"
  /\ Number(c, "quick")
  /\ request' = [request EXCEPT ![c] = Head(requests[c])]
  /\ UNCHANGED replies

\* Answered here, without submit().
AnswersProbe(c) ==
  /\ Head(requests[c]).body = "probe"
  /\ replies' = [replies EXCEPT ![c] = Append(@, Head(requests[c]))]
  /\ UNCHANGED <<daemonVars, request>>

\* What was sent before the client went away is still read and run.
ServeNext(c) ==
  /\ at[c] = "idle" /\ requests[c] # << >>
  /\ AnswersProbe(c) \/ (Head(requests[c]).body # "probe" /\ Submits(c))
  /\ requests' = [requests EXCEPT ![c] = Tail(@)]
  /\ UNCHANGED <<clientVars, toRun, behind>>

\* Writing to a client that has gone ends the thread.
WriteReply(c) ==
  /\ Returns(c)
  /\ IF link[c] = "open"
       THEN replies' = [replies EXCEPT ![c] = Append(@, request[c])] /\ UNCHANGED requests
       ELSE requests' = [requests EXCEPT ![c] = << >>] /\ UNCHANGED replies
  /\ request' = [request EXCEPT ![c] = NoRequest]
  /\ UNCHANGED <<clientVars, toRun, behind>>

DaemonRuns ==
  /\ Start \/ (\E c \in Threads : Push(c)) \/ WorkerRuns \/ WaitEnds
  /\ toRun' = IF worker = "idle" /\ worker' = "dispatching"
                THEN request[serving'].timeout ELSE toRun
  /\ UNCHANGED <<clientVars, socketVars, request, behind>>

(***************************************************************************)
(* Time                                                                    *)
(***************************************************************************)

\* Mutant of Waiting: a call's deadline is looked at only with a reply in hand.
WaitingForReply == {c \in Threads : InCall(c) /\ replies[c] = << >>}

Waiting == {c \in Threads : InCall(c) /\ replies[c] = << >> /\ call[c].left > 0}

\* Nobody has anything to do but wait.
AllWait ==
  /\ {c \in Threads : InCall(c)} = Waiting
  /\ \A c \in Threads : at[c] = "waiting" \/ (at[c] = "idle" /\ requests[c] = << >>)
  /\ \/ worker = "idle" /\ heap = {}
     \/ WaitHoldsWorker /\ toRun > 0

\* The call this client is in is the one the worker is dispatching.
BeingServed(c) ==
  worker = "dispatching" /\ serving = c /\ request[c].id = call[c].request.id

Tick ==
  /\ AllWait /\ Waiting # {}
  /\ call' = [c \in Threads |->
                IF InCall(c) THEN [call[c] EXCEPT !.left = @ - 1] ELSE call[c]]
  /\ toRun' = IF WaitHoldsWorker THEN toRun - 1 ELSE toRun
  /\ behind' = [c \in Threads |-> behind[c] \/ (WaitHoldsWorker /\ ~BeingServed(c))]
  /\ UNCHANGED <<daemonVars, link, nextCall, socketVars, request>>

RemoteNext ==
  \/ \E c \in Threads :
       \/ Find(c) \/ CallShort(c) \/ CallWait(c)
       \/ Receive(c) \/ GivesUp(c) \/ Leaves(c)
       \/ ServeNext(c) \/ WriteReply(c)
  \/ DaemonRuns \/ Tick

RemoteSpec == RemoteInit /\ [][RemoteNext]_remoteVars

(***************************************************************************)
(* Properties                                                              *)
(***************************************************************************)

\* Every variable stays within its type (daemon_client.py:266-276, 322-373).
RemoteTypeOK ==
  /\ DaemonTypeOK
  /\ \A c \in Threads :
       /\ link[c] \in {"none", "open", "closed"}
       /\ call[c].left \in Nat /\ nextCall[c] \in 1..(MaxCalls + 1)
       /\ Len(requests[c]) <= MaxCalls /\ Len(replies[c]) <= MaxCalls
  /\ toRun \in Nat

\* An ESTOP and the probe before it are answered within their deadlines,
\* whatever other clients are waiting for, so `rogo estop` neither fails nor
\* falls back to a second, direct connection (daemon.py:158-203, 395-433,
\* daemon_client.py:510-519, 564-599).
EstopAndProbeInTime ==
  \A c \in Threads :
    InCall(c) /\ call[c].request.body \in {"estop", "probe"} => call[c].left > 0

\* A client gives up only when its request stood behind a wait that was not
\* its own: a call the worker takes at once is answered before its deadline
\* (daemon_client.py:179-183, 353-373).
ExpiresOnlyBehindAnother ==
  \A c \in Threads : InCall(c) /\ call[c].left = 0 => behind[c]
=============================================================================
