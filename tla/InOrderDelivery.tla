--------------------------- MODULE InOrderDelivery ---------------------------
(***************************************************************************)
(* What the reliability layer promises (docs/design/protocol.md, section   *)
(* 8.1): the robot executes the commands the host assigned ids to, each    *)
(* exactly once and in the order they were assigned, whatever the link     *)
(* loses; it may only ever be behind.                                      *)
(***************************************************************************)
EXTENDS Sequences, Naturals

CONSTANT Commands

VARIABLES submitted,    \* what the host has sent, in order
          delivered     \* what the robot has executed, in order

Init == submitted = << >> /\ delivered = << >>

Submit == \E c \in Commands :
  /\ submitted' = Append(submitted, c)
  /\ UNCHANGED delivered

Deliver ==
  /\ Len(delivered) < Len(submitted)
  /\ delivered' = Append(delivered, submitted[Len(delivered) + 1])
  /\ UNCHANGED submitted

Next == Submit \/ Deliver

Spec == Init /\ [][Next]_<<submitted, delivered>>
=============================================================================
