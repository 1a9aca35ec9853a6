---------------------------- MODULE RequestDesk ----------------------------
(***************************************************************************)
(* What rogo's daemon promises the clients that hand it requests for the   *)
(* one robot it holds: one request is served at a time, each once; an      *)
(* estop goes before everything that is not one, and whoever is being      *)
(* served is told of it at the moment it comes in; among equals, whoever   *)
(* was queued before another one asked is served before; and the desk does *)
(* not close on anybody it has queued.  Locks, numbers, events and threads *)
(* are not mentioned.                                                      *)
(***************************************************************************)
CONSTANTS Clients, Kinds

VARIABLES
  stage,    \* where each client's request is
  kind,     \* what is asked
  earlier,  \* the clients a request must not overtake
  told,     \* the one being served was told to give way
  closed

vars == <<stage, kind, earlier, told, closed>>

Queued  == {c \in Clients : stage[c] = "queued"}
Served  == {c \in Clients : stage[c] = "served"}
AtDesk  == {c \in Clients : stage[c] \in {"served", "over"}}
Urgent(k) == k = "estop"
Equals(k) == {c \in Queued : Urgent(kind[c]) = Urgent(k)}

Moves(c, from, to) == stage[c] = from /\ stage' = [stage EXCEPT ![c] = to]

Init ==
  /\ stage = [c \in Clients |-> "idle"] /\ kind = [c \in Clients |-> "none"]
  /\ earlier = [c \in Clients |-> {}]
  /\ told = FALSE /\ closed = FALSE

Ask(c, k) ==
  /\ Moves(c, "idle", "asked")
  /\ kind' = [kind EXCEPT ![c] = k] /\ earlier' = [earlier EXCEPT ![c] = Equals(k)]
  /\ UNCHANGED <<told, closed>>

Enter(c) ==
  /\ Moves(c, "asked", "queued")
  /\ told' = (told \/ (Urgent(kind[c]) /\ Served # {}))
  /\ UNCHANGED <<kind, earlier, closed>>

Serve(c) ==
  /\ ~closed /\ AtDesk = {}
  /\ Moves(c, "queued", "served")
  /\ ~Urgent(kind[c]) => \A d \in Queued : ~Urgent(kind[d])
  /\ earlier[c] = {}
  /\ earlier' = [d \in Clients |-> earlier[d] \ {c}] /\ told' = FALSE
  /\ UNCHANGED <<kind, closed>>

Finish(c) ==
  /\ Moves(c, "served", "over") /\ told' = FALSE
  /\ UNCHANGED <<kind, earlier, closed>>

Answer(c) ==
  /\ Moves(c, "over", "answered")
  /\ UNCHANGED <<kind, earlier, told, closed>>

Leave(c) ==
  /\ Moves(c, "answered", "idle") /\ kind' = [kind EXCEPT ![c] = "none"]
  /\ UNCHANGED <<earlier, told, closed>>

Close ==
  /\ Queued = {} /\ AtDesk = {} /\ closed' = TRUE
  /\ UNCHANGED <<stage, kind, earlier, told>>

Next ==
  \/ Close
  \/ \E c \in Clients :
       \/ \E k \in Kinds : Ask(c, k)
       \/ Enter(c) \/ Serve(c) \/ Finish(c) \/ Answer(c) \/ Leave(c)

Spec == Init /\ [][Next]_vars
=============================================================================
