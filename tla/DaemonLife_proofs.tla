------------------------- MODULE DaemonLife_proofs -------------------------
(***************************************************************************)
(* What DaemonLife promises for any set of spawners, one-shot commands and *)
(* daemons, and any number of calls and kills: its types, and that looking *)
(* for a daemon before connecting keeps the robot to one process as long   *)
(* as nobody comes or goes at the same time as another.                    *)
(***************************************************************************)
EXTENDS DaemonLife, TLAPS

\* Holding the robot, or on the way to or from it.
Active(m) == Unsettled(m) \/ (m \in Daemons /\ Serves(m))

Alone == \A m, n \in Clients \cup Daemons : Active(m) /\ Active(n) => m = n

\* A bound socket can be reached under its name: nobody else cleared the path.
OwnsPath == \A d \in Daemons : proc[d] = "bound" \/ Serves(d) => path = d

LifeInv == DaemonLifeTypeOK /\ (~overlapped => Alone /\ OwnsPath)

\* At first nothing runs.
LEMMA LifeInitHolds == DaemonLifeInit => LifeInv
<1> SUFFICES ASSUME DaemonLifeInit PROVE LifeInv
  OBVIOUS
<1> USE DaemonLifeAssumption DEF DaemonLifeInit
<1>1. DaemonLifeTypeOK
  <2>1. proc \in [Daemons -> ProcStates] /\ client \in [Clients -> ClientStates] BY DEF ProcStates, ClientStates
  <2>2. using \in [Clients -> Daemons \cup {Nobody}] OBVIOUS
  <2>3. \A c \in Clients : client[c] \notin {"connected", "calling"} OBVIOUS
  <2>4. 0 \in 0..MaxCalls /\ 0 \in 0..MaxKills OBVIOUS
  <2> QED BY <2>1, <2>2, <2>3, <2>4 DEF DaemonLifeTypeOK
<1>2. \A m \in Clients \cup Daemons : ~Active(m) BY DEF Active, Unsettled, Serves
<1>3. Alone BY <1>2 DEF Alone
<1>4. OwnsPath BY DEF OwnsPath, Serves
<1> QED BY <1>1, <1>3, <1>4 DEF LifeInv

\* Every step keeps the types; a connection is made only to a socket that listens.
LEMMA TypeKept ==
  ASSUME DaemonLifeTypeOK, DaemonLifeNext
  PROVE  DaemonLifeTypeOK'
<1> USE DaemonLifeAssumption DEF DaemonLifeTypeOK, ProcStates, ClientStates, fileVars, clientVars
<1>1. overlapped' \in BOOLEAN BY DEF DaemonLifeNext, History
<1>2. ASSUME NEW d \in Daemons, DaemonStep(d) \/ FromOutside(d)
      PROVE  DaemonLifeTypeOK'
  <2>1. UNCHANGED <<target, clientVars, calls>> /\ kills' \in 0..MaxKills
    BY <1>2 DEF DaemonStep, FromOutside, Boots, HasNoName, Clears, Binds, Listens, Pipes, PipeCloses, IdleStops,
                Unlinks, Ends, UserServes, UserStops, Ages, Killed
  <2>2. path' \in Daemons \cup {Nobody} /\ proc' \in [Daemons -> ProcStates]
    BY <1>2 DEF DaemonStep, FromOutside, Boots, HasNoName, Clears, Binds, Listens, Pipes, PipeCloses, IdleStops,
                Unlinks, Ends, UserServes, UserStops, Ages, Killed, Becomes
  <2> QED BY <1>1, <2>1, <2>2
<1>3. ASSUME NEW c \in Clients, Seeks(c) \/ Polls(c)
      PROVE  DaemonLifeTypeOK'
  <2>1. UNCHANGED <<fileVars, proc, calls, kills>> BY <1>3 DEF Seeks, Polls
  <2>2. Finds(c) => path \in Daemons BY DEF Finds, Listening
  <2>3. CASE Finds(c) /\ Connects(c) BY <1>1, <2>1, <2>2, <2>3 DEF Connects, Turns
  <2>4. CASE ~(Finds(c) /\ Connects(c))
    <3>1. \E state \in {"failed", "absent"} : client' = [client EXCEPT ![c] = state]
      BY <1>3, <2>4 DEF Seeks, Polls, Turns
    <3>2. using' = using BY <1>3, <2>4 DEF Seeks, Polls
    <3> QED BY <1>1, <2>1, <3>1, <3>2
  <2> QED BY <2>3, <2>4
<1>4. ASSUME NEW c \in Clients, Spawns(c) \/ ConnectsDirect(c) \/ GivesUp(c)
      PROVE  DaemonLifeTypeOK'
  BY <1>1, <1>4 DEF Spawns, ConnectsDirect, GivesUp, Becomes, Turns
<1>5. ASSUME NEW c \in Clients, Calls(c) \/ Answered(c) \/ Lost(c) \/ Leaves(c)
      PROVE  DaemonLifeTypeOK'
  <2>1. CASE Calls(c) BY <1>1, <2>1 DEF Calls, Turns, Serves
  <2>2. CASE Answered(c) \/ Lost(c) \/ Leaves(c) BY <1>1, <2>2 DEF Answered, Lost, Leaves, Turns
  <2> QED BY <1>5, <2>1, <2>2
<1> QED BY <1>2, <1>3, <1>4, <1>5 DEF DaemonLifeNext, Step, ClientStep, Whims

\* A daemon's own steps, and what is done to it, make nobody active but a
\* daemon its user starts, and only the path of an active daemon changes.
LEMMA DaemonStepKeeps ==
  ASSUME DaemonLifeTypeOK, Alone, OwnsPath, ~Overlap',
         NEW d \in Daemons, DaemonStep(d) \/ FromOutside(d)
  PROVE  Alone' /\ OwnsPath'
<1> USE DaemonLifeAssumption DEF ProcStates, fileVars, clientVars
<1>1. proc \in [Daemons -> ProcStates] BY DEF DaemonLifeTypeOK
<1>2. client' = client /\ target' = target
  BY DEF DaemonStep, FromOutside, Boots, HasNoName, Clears, Binds, Listens, Pipes, PipeCloses, IdleStops,
         Unlinks, Ends, UserServes, UserStops, Ages, Killed
<1>3. \A e \in Daemons \ {d} : proc'[e] = proc[e]
  BY <1>1 DEF DaemonStep, FromOutside, Boots, HasNoName, Clears, Binds, Listens, Pipes, PipeCloses, IdleStops,
         Unlinks, Ends, UserServes, UserStops, Ages, Killed, Becomes
<1>4. \A m \in (Clients \cup Daemons) \ {d} : Active(m)' <=> Active(m)
  BY <1>2, <1>3 DEF Active, Unsettled, Serves
<1>5. CASE UserServes(d)
  <2>1. Unsettled(d)' BY <1>1, <1>5 DEF UserServes, Becomes, Unsettled
  <2>2. Uncoordinated(d)' BY <1>5 DEF UserServes, Uncoordinated, Clients
  <2>3. \A n \in (Clients \cup Daemons) \ {d} : ~Active(n)'
    BY <2>1, <2>2 DEF Overlap, Active
  <2>4. Alone' BY <2>3 DEF Alone
  <2>5. OwnsPath' BY <1>1, <1>5 DEF UserServes, Becomes, OwnsPath, Serves
  <2> QED BY <2>4, <2>5
<1>6. CASE ~UserServes(d)
  <2>1. Active(d)
    BY <1>1, <1>6 DEF DaemonStep, FromOutside, Boots, HasNoName, Clears, Binds, Listens, Pipes, PipeCloses, IdleStops,
         Unlinks, Ends, UserStops, Ages, Killed, Alive, Active, Unsettled, Serves
  <2>2. \A n \in (Clients \cup Daemons) \ {d} : ~Active(n)' BY <1>4, <2>1 DEF Alone
  <2>3. Alone' BY <2>2 DEF Alone
  <2>4. \A e \in Daemons \ {d} : ~(proc'[e] = "bound" \/ Serves(e)')
    BY <2>2 DEF Active, Unsettled
  <2>5. proc'[d] = "bound" \/ Serves(d)' => path' = d
    BY <1>1, <1>6 DEF DaemonStep, FromOutside, Boots, HasNoName, Clears, Binds, Listens, Pipes, PipeCloses, IdleStops,
         Unlinks, Ends, UserStops, Ages, Killed, Becomes, OwnsPath, Serves
  <2> QED BY <2>3, <2>4, <2>5 DEF OwnsPath
<1> QED BY <1>5, <1>6

\* A client that does not find a daemon is the only active process, or it is
\* one that does not look, or there is an overlap.
LEMMA SeeksKeeps ==
  ASSUME DaemonLifeTypeOK, Alone, OwnsPath, ~Overlap', NEW c \in Clients, Seeks(c)
  PROVE  Alone' /\ OwnsPath'
<1> USE DaemonLifeAssumption DEF ClientStates, fileVars
<1>1. client \in [Clients -> ClientStates] /\ target \in {"sim", "robot"} BY DEF DaemonLifeTypeOK
<1>2. proc' = proc /\ path' = path /\ target' = target BY DEF Seeks
<1>3. OwnsPath' BY <1>2 DEF OwnsPath, Serves
<1>4. \A m \in (Clients \cup Daemons) \ {c} : Active(m)' <=> Active(m)
  BY <1>1, <1>2 DEF Seeks, Connects, Turns, Active, Unsettled, Serves
<1>5. CASE client'[c] # "absent"
  <2>1. Active(c)' => Active(c) BY <1>1, <1>2, <1>5 DEF Seeks, Connects, Turns, Active, Unsettled, Serves
  <2> QED BY <1>3, <1>4, <2>1 DEF Alone
<1>6. CASE client'[c] = "absent"
  <2>1. ~Finds(c) /\ ~(c \in Spawners /\ ResolveClientName(c) = "none")
    BY <1>1, <1>6 DEF Seeks, Connects, Turns
  <2>2. Unsettled(c)' BY <1>6 DEF Unsettled
  <2>3. ASSUME NEW n \in Daemons, Serves(n), n # c
        PROVE  FALSE
    <3>1. Listening BY <2>3 DEF OwnsPath, Listening, Daemons
    <3>2. ResolveClientName(c) # target BY <2>1, <3>1 DEF Finds
    <3>3. c \notin Spawners BY <1>1, <2>1, <3>2 DEF ResolveClientName
    <3>4. Uncoordinated(c)' BY <1>2, <3>2, <3>3 DEF Uncoordinated, ResolveClientName
    <3>5. Serves(n)' BY <1>2, <2>3 DEF Serves
    <3> QED BY <2>2, <2>3, <3>4, <3>5 DEF Overlap
  <2>4. \A n \in (Clients \cup Daemons) \ {c} : ~Active(n)'
    BY <1>2, <2>2, <2>3 DEF Active, Overlap, Serves
  <2> QED BY <1>3, <2>4 DEF Alone
<1> QED BY <1>5, <1>6

\* What a client does later makes nobody active that was not.
LEMMA ClientStepKeeps ==
  ASSUME DaemonLifeTypeOK, Alone, OwnsPath,
         NEW c \in Clients, ClientStep(c) \/ Calls(c) \/ Leaves(c)
  PROVE  Alone' /\ OwnsPath'
<1> USE DaemonLifeAssumption DEF ProcStates, ClientStates, fileVars
<1>1. proc \in [Daemons -> ProcStates] /\ client \in [Clients -> ClientStates]
  BY DEF DaemonLifeTypeOK
<1>2. path' = path
  BY DEF ClientStep, Spawns, ConnectsDirect, Polls, GivesUp, Answered, Lost, Calls, Leaves
<1>3. \A m \in Clients \cup Daemons : Active(m)' => Active(m)
  <2>1. CASE Spawns(c) BY <1>1, <2>1 DEF Spawns, Becomes, Turns, Active, Unsettled, Serves
  <2>2. CASE GivesUp(c) BY <1>1, <2>2 DEF GivesUp, Turns, Active, Unsettled, Serves
  <2>3. CASE Calls(c) BY <1>1, <2>3 DEF Calls, Turns, Active, Unsettled, Serves
  <2>4. CASE ConnectsDirect(c) \/ Polls(c) \/ Answered(c) \/ Lost(c) \/ Leaves(c)
    BY <1>1, <2>4 DEF ConnectsDirect, Polls, Connects, Answered, Lost, Leaves, Turns, Active,
                      Unsettled, Serves
  <2> QED BY <2>1, <2>2, <2>3, <2>4 DEF ClientStep
<1>4. \A d \in Daemons : proc'[d] = "bound" \/ Serves(d)' => proc[d] = "bound" \/ Serves(d)
  BY <1>1 DEF ClientStep, Spawns, ConnectsDirect, Polls, GivesUp, Answered, Lost, Calls, Leaves,
              Becomes, Serves
<1> QED BY <1>2, <1>3, <1>4 DEF Alone, OwnsPath

\* The inductive invariant holds of every reachable state.
THEOREM LifeInvariantHolds == DaemonLifeSpec => []LifeInv
<1>1. DaemonLifeInit => LifeInv BY LifeInitHolds
<1>2. LifeInv /\ [DaemonLifeNext]_lifeVars => LifeInv'
  <2> SUFFICES ASSUME LifeInv, [DaemonLifeNext]_lifeVars PROVE LifeInv'
    OBVIOUS
  <2>1. CASE UNCHANGED lifeVars
    BY <2>1 DEF lifeVars, fileVars, clientVars, LifeInv, DaemonLifeTypeOK, Alone, OwnsPath,
                Active, Unsettled, Serves
  <2>2. CASE DaemonLifeNext
    <3>1. DaemonLifeTypeOK' BY <2>2, TypeKept DEF LifeInv
    <3>2. ASSUME ~overlapped' PROVE Alone' /\ OwnsPath'
      <4>1. Alone /\ OwnsPath /\ ~Overlap' BY <2>2, <3>2 DEF LifeInv, DaemonLifeNext, History
      <4>2. DaemonLifeTypeOK BY DEF LifeInv
      <4>3. CASE \E d \in Daemons : DaemonStep(d) \/ FromOutside(d)
        BY <4>1, <4>2, <4>3, DaemonStepKeeps
      <4>4. CASE \E c \in Clients : Seeks(c) BY <4>1, <4>2, <4>4, SeeksKeeps
      <4>5. CASE \E c \in Clients : ClientStep(c) \/ Calls(c) \/ Leaves(c)
        BY <4>1, <4>2, <4>5, ClientStepKeeps
      <4> QED BY <2>2, <4>3, <4>4, <4>5 DEF DaemonLifeNext, Step, Whims
    <3> QED BY <3>1, <3>2 DEF LifeInv
  <2> QED BY <2>1, <2>2
<1> QED BY <1>1, <1>2, PTL DEF DaemonLifeSpec

\* Every variable keeps its type, and a client's connection leads to a daemon.
THEOREM LifeTypeCorrect == DaemonLifeSpec => []DaemonLifeTypeOK
<1>1. LifeInv => DaemonLifeTypeOK BY DEF LifeInv
<1> QED BY <1>1, LifeInvariantHolds, PTL

\* find_daemon() before connecting or spawning keeps the robot to one process,
\* for any number of them, unless two came or went at the same time
\* (daemon_client.py:673-739, daemon.py:733-784).
THEOREM OneMasterHolds == DaemonLifeSpec => []OneMasterUnlessOverlap
<1>1. LifeInv => OneMasterUnlessOverlap
  <2> SUFFICES ASSUME LifeInv, ~overlapped PROVE OneMasterUnlessOverlap
    BY DEF OneMasterUnlessOverlap
  <2>1. \A m \in Clients \cup Daemons : Holds(m) => Active(m)
    BY DEF Holds, Active, Unsettled, Serves, ProcStates
  <2> QED BY <2>1 DEF LifeInv, Alone, OwnsPath, OneMasterUnlessOverlap
<1> QED BY <1>1, LifeInvariantHolds, PTL
=============================================================================
