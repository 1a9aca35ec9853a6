------------------------- MODULE RogoCommands_proofs -------------------------
(***************************************************************************)
(* What rogo's commands tell their users, proved for any number of         *)
(* terminals and servers that share a Session, any commands and trials,    *)
(* either adapter, and a link that may close: a command that says the      *)
(* robot took its line, rejected it, ended its motion or stopped says what *)
(* happened to that very line, whoever read the replies.                   *)
(*                                                                         *)
(* The argument has three parts.  On the wire, ids only grow, so the robot *)
(* executes the n-th line ever sent as the n-th entry of its log, if at    *)
(* all: after a HELLO it refuses everything instead.  Of a script, no      *)
(* command judges anything before the ack of the last line it sent.  Of a  *)
(* client, what it has yet to do and what it has seen agree with the wire. *)
(*                                                                         *)
(* And what the commands send is sound: the arithmetic of the motion verbs *)
(* for all integers.                                                       *)
(***************************************************************************)
EXTENDS RogoCommands, SequenceTheorems, TLAPS

(***************************************************************************)
(* Scripts                                                                 *)
(***************************************************************************)
Does     == {"none", "send", "say", "stream", "pace", "pumpUntil", "pump", "drain", "wait",
             "load", "ask", "save"}
Verbs    == {"WHEELS_X", "WHEELS_V", "GO_TO_R", "STOP", "GET", "SET", "STATUS", "UNDECODABLE",
             "HELLO", "ESTOP"}
Kinds    == {"ack", "nack", "err", "device", "estop", "get"}
Whats    == Verbs \cup Kinds \cup {"none", "done", "trackwidth", "config", "start", "measure",
                                  "given", "slip", "scale", "any"}
Outcomes == SuccessReports \cup {"none", "go", "skip", "banner", "silent", "unacked", "confirmed",
                                "unconfirmed", "late", "saved", "declined", "outOfRange",
                                "tooFew", "noConfig", "closed", "raised"}
Steps == [do : Does, what : Whats, yes : Outcomes, no : Outcomes]

\* Steps that send a sequenced line, or go back to one that does.
Sending(s)  == s.do \in {"send", "stream", "pace"}
AckStep(s)  == s.do \in {"pumpUntil", "wait"} /\ s.what = "ack"
Succeeds(s) == s.yes \in SuccessReports \/ s.no \in SuccessReports
Unsequenced == {"HELLO", "ESTOP"}

\* A verb without an id is said, any other is sent.
VerbOK(s) == s.do = "say" <=> s.what \in Unsequenced

\* Calls of Session a client may give up on.
Calls == {s \in [do : Does, what : Whats, id : Nat] :
            VerbOK(s) /\ s.do \in SessionCalls /\ s.what # "ESTOP"}

\* A step's outcomes are of its kind, and it goes on only if something follows.
StepOK(s, after) ==
  /\ VerbOK(s)
  /\ s.do \in {"send", "say", "stream", "pace", "ask"} => s.yes = "go" /\ s.no = "go"
  /\ s.do = "load" => s.yes = "go" /\ s.no = "noConfig"
  /\ s.do = "save" => s.what \in Fields
  /\ s.yes = "go" \/ s.no = "go" => after >= 1
  /\ s.yes = "skip" \/ s.no = "skip" => after >= 2
  /\ AckStep(s) => s.no \notin SuccessReports /\ s.no # s.yes
  /\ s.yes \in {"warned", "refused"} => s.do = "pump" /\ s.what = "err"
  /\ s.yes = "done" => s.do = "wait" /\ s.what = "done"
  /\ s.no \notin {"warned", "refused", "done", "stopped"}
  /\ s.yes \notin {"unacked", "closed", "raised"} /\ (s.no = "unacked" => AckStep(s))

After(t, k) == (k + 1)..Len(t)

\* A script judges what it sent: it may end with a success.  It then waits for
\* the ack of the last line it sends before it judges anything.
Judges(t) == \E k \in 1..Len(t) : Succeeds(t[k])

JudgesInTurn(t) ==
  \A k \in 1..Len(t) :
    /\ t[k].do # "ask" /\ t[k].yes # "skip" /\ t[k].no # "skip"
    /\ AckStep(t[k]) => t[k].no = "unacked"
    /\ Sending(t[k]) => \E j \in After(t, k) : AckStep(t[j])
    /\ AckStep(t[k]) \/ Succeeds(t[k]) => \A j \in After(t, k) : ~Sending(t[j])
    /\ Succeeds(t[k]) /\ ~AckStep(t[k]) => \A j \in After(t, k) : ~AckStep(t[j])

\* A script that ends with "stopped" sends a STOP last.
Stops(t) == \E k \in 1..Len(t) : t[k].yes = "stopped"

StopsLast(t) ==
  \A k \in 1..Len(t) :
    Sending(t[k]) /\ ~(t[k].do = "send" /\ t[k].what = "STOP")
      => \E j \in After(t, k) : Sending(t[j])

\* What a command looks for it looks for after everything it sends.
LooksLast(t) ==
  \A k \in 1..Len(t) :
    t[k].do \in {"pumpUntil", "pump", "drain"} => \A j \in After(t, k) : ~Sending(t[j])

ScriptOK(t) ==
  /\ \A k \in 1..Len(t) : StepOK(t[k], Len(t) - k)
  /\ LooksLast(t)
  /\ Judges(t) => JudgesInTurn(t)
  /\ Stops(t) => StopsLast(t)

(***************************************************************************)
(* The inductive invariant                                                 *)
(***************************************************************************)
Senders == Clients \cup {Nobody}
LineSet  == [verb : Whats, id : Nat, by : Senders]
ReplySet == [kind : Kinds, n : Nat, done : Nat, by : Senders]
Verdicts == {"runs", "queued", "rejected", "ok", "nothing"}
LogSet   == [verb : Whats, by : Senders, verdict : Verdicts]

WireTypes ==
  /\ latched \in BOOLEAN /\ linkUp \in BOOLEAN
  /\ expectedNext \in Nat \ {0} /\ log \in Seq(LogSet)
  /\ active \in Nat /\ queue \in Seq(Nat) /\ lastDone \in Nat
  /\ toRobot \in Seq(LineSet) /\ toHost \in Seq(ReplySet)
  /\ nextId \in Nat \ {0} /\ acked \in Nat /\ hostDone \in Nat

ClientTypes ==
  /\ held \in Senders
  /\ command \in [Clients -> CommandNames \cup ToolNames \cup {"none"}] 
  /\ todo \in [Clients -> Seq(Steps)]
  /\ report \in [Clients -> Outcomes] /\ id \in [Clients -> Nat]
  /\ seen \in [Clients -> SUBSET Kinds] /\ abandoned \in [Clients -> Seq(Calls)]
  /\ samples \in [Clients -> Nat]

\* Ids grow on the wire, and the log holds the n-th line as its n-th entry; once
\* the robot expects another id than the next of the log it never gets it.
WireInOrder ==
  /\ Len(log) < nextId /\ expectedNext \in {1, Len(log) + 1}
  /\ \A k \in 1..Len(toRobot) :
       /\ toRobot[k].id < nextId
       /\ toRobot[k].id = 0 <=> toRobot[k].verb \in Unsequenced
       /\ toRobot[k].id # 0 => Len(log) < toRobot[k].id
       /\ \A j \in 1..(k - 1) : toRobot[k].id # 0 => toRobot[j].id < toRobot[k].id

\* The motion that runs and those behind it were executed, in order, and come
\* after the last that is done.
MotionsInOrder ==
  /\ lastDone <= Len(log) /\ active <= Len(log)
  /\ active # 0 => lastDone < active /\ adapter = "sim"
  /\ active = 0 => queue = << >>
  /\ \A k \in 1..Len(queue) :
       /\ queue[k] <= Len(log) /\ active < queue[k]
       /\ \A j \in 1..(k - 1) : queue[j] < queue[k]

\* A STOP leaves nothing of what was executed before it.
StopEndsAll ==
  \A n \in 1..Len(log) :
    log[n].verb = "STOP" =>
      /\ active # 0 => n < active
      /\ \A k \in 1..Len(queue) : n < queue[k]

\* The line with this id was rejected, or was never executed and never will be.
NeverExecuted(n) ==
  /\ Len(log) < n /\ Len(log) + 1 < nextId
  /\ \A k \in 1..Len(toRobot) : toRobot[k].id # Len(log) + 1
ErrOf(n) == (n \in 1..Len(log) /\ log[n].verdict = "rejected") \/ NeverExecuted(n)

\* Replies tell what was executed and what is done, and the Session what they told.
ReplyIsTrue(r) ==
  /\ r.kind = "ack" => r.n <= Len(log)
  /\ r.kind = "err" => ErrOf(r.n)
  /\ r.done <= lastDone
RepliesAreTrue ==
  /\ acked <= Len(log) /\ hostDone <= lastDone
  /\ \A k \in 1..Len(toHost) : ReplyIsTrue(toHost[k])

\* The line with this id is the client's, or is a STOP, wherever it is now.
LineIsOf(c, n) ==
  /\ n \in 1..Len(log) => log[n].by = c
  /\ \A k \in 1..Len(toRobot) : toRobot[k].id = n => toRobot[k].by = c
LineIsStop(n) ==
  /\ n \in 1..Len(log) => log[n].verb = "STOP"
  /\ \A k \in 1..Len(toRobot) : toRobot[k].id = n => toRobot[k].verb = "STOP"

NoSendLeft(t) == \A k \in 1..Len(t) : ~Sending(t[k])
NoAckLeft(t)  == \A k \in 1..Len(t) : ~AckStep(t[k])

\* A client runs a script or is idle, and its line is its own.
ClientShape(c) ==
  /\ (Idle(c) <=> todo[c] = << >>) /\ (~Idle(c) => report[c] = "none")
  /\ ScriptOK(todo[c])
  /\ id[c] < nextId /\ (id[c] # 0 => LineIsOf(c, id[c]))

\* What it has yet to do agrees with what it has sent and seen acknowledged.
ScriptInStep(c) ==
  /\ Judges(todo[c]) /\ NoSendLeft(todo[c]) =>
       id[c] # 0 /\ (NoAckLeft(todo[c]) => id[c] <= acked)
  /\ Stops(todo[c]) /\ NoSendLeft(todo[c]) => LineIsStop(id[c])
  /\ seen[c] # {} => NoSendLeft(todo[c])
  /\ "err" \in seen[c] => ErrOf(id[c])

\* What it reported.
ReportHolds(c) ==
  /\ report[c] \in SuccessReports => id[c] # 0 /\ id[c] <= acked
  /\ report[c] \in {"warned", "refused"} => ErrOf(id[c])
  /\ report[c] = "done" => id[c] <= lastDone
  /\ report[c] = "stopped" => LineIsStop(id[c])

ClientOK(c) == ClientShape(c) /\ ScriptInStep(c) /\ ReportHolds(c)

\* The worker is in a client's wait, or in one that it gave up on.
HeldWaits ==
  held # Nobody =>
    IF abandoned[held] = << >> THEN ~Idle(held) /\ Now(held).do = "wait"
                               ELSE Head(abandoned[held]).do = "wait"

WireInv == WireTypes /\ WireInOrder /\ MotionsInOrder /\ StopEndsAll /\ RepliesAreTrue
RogoInv == WireInv /\ ClientTypes /\ HeldWaits /\ \A c \in Clients : ClientOK(c)

(***************************************************************************)
(* Acknowledgements on a link that loses nothing                           *)
(***************************************************************************)

\* While nothing has spoiled the sequence, every line sent is executed or under
\* way, and every execution acknowledged or its ack under way.
NothingIsLost ==
  linkUp /\ spoiled = {} =>
    /\ expectedNext = Len(log) + 1
    /\ \A n \in (Len(log) + 1)..(nextId - 1) : \E k \in 1..Len(toRobot) : toRobot[k].id = n
    /\ acked = Len(log) \/ \E k \in 1..Len(toHost) : toHost[k].kind = "ack" /\ toHost[k].n = Len(log)

UnackedInv ==
  /\ NothingIsLost /\ UnackedHasCause
  /\ delayed \in [Clients -> BOOLEAN] /\ aborted \in [Clients -> BOOLEAN]

(***************************************************************************)
(* Every script is as it should be                                         *)
(***************************************************************************)

\* A script in two parts has the steps of the first and then of the second.
LEMMA TwoParts ==
  ASSUME NEW s \in Seq(Steps), NEW t \in Seq(Steps)
  PROVE  /\ s \o t \in Seq(Steps) /\ Len(s \o t) = Len(s) + Len(t)
         /\ \A k \in 1..Len(s) : (s \o t)[k] = s[k]
         /\ \A k \in 1..Len(t) : (s \o t)[Len(s) + k] = t[k]
<1>1. /\ s \o t \in Seq(Steps) /\ Len(s \o t) = Len(s) + Len(t)
      /\ \A k \in 1..(Len(s) + Len(t)) :
           (s \o t)[k] = IF k <= Len(s) THEN s[k] ELSE t[k - Len(s)]
  BY ConcatProperties
<1>2. Len(s) \in Nat /\ Len(t) \in Nat
  BY LenProperties
<1>3. ASSUME NEW k \in 1..Len(s) PROVE (s \o t)[k] = s[k]
  BY <1>1, <1>2
<1>4. ASSUME NEW k \in 1..Len(t) PROVE (s \o t)[Len(s) + k] = t[k]
  <2>1. Len(s) + k \in 1..(Len(s) + Len(t)) /\ ~(Len(s) + k <= Len(s)) /\ Len(s) + k - Len(s) = k
    BY <1>2
  <2> QED BY <1>1, <2>1
<1> QED BY <1>1, <1>3, <1>4

\* Short scripts, step by step.
LEMMA ShortScripts ==
  ASSUME NEW a \in Steps, NEW b \in Steps
  PROVE  /\ <<a>> \in Seq(Steps) /\ Len(<<a>>) = 1 /\ <<a>>[1] = a
         /\ <<a, b>> \in Seq(Steps) /\ Len(<<a, b>>) = 2 /\ <<a, b>>[1] = a /\ <<a, b>>[2] = b
OBVIOUS

\* When two parts make up a third.
LEMMA Joined ==
  ASSUME NEW s \in Seq(Steps), NEW t \in Seq(Steps), NEW u \in Seq(Steps),
         Len(u) = Len(s) + Len(t), \A k \in 1..Len(s) : u[k] = s[k],
         \A k \in 1..Len(t) : u[Len(s) + k] = t[k]
  PROVE  s \o t = u
<1>1. Len(s) \in Nat /\ Len(t) \in Nat
  BY LenProperties
<1>2. \A k \in 1..Len(u) : u[k] = (s \o t)[k]
  <2> TAKE k \in 1..Len(u)
  <2>1. CASE k \in 1..Len(s)
    BY <2>1, TwoParts
  <2>2. CASE k \notin 1..Len(s)
    <3>1. k - Len(s) \in 1..Len(t) /\ Len(s) + (k - Len(s)) = k
      BY <1>1, <2>2
    <3> QED BY <3>1, TwoParts
  <2> QED BY <2>1, <2>2
<1> QED BY <1>2, TwoParts, SeqEqual

\* And those of two parts: one step or two, and then one, two or three.
LEMMA LongerScripts ==
  /\ \A a, b, c \in Steps :
       <<a>> \o <<b, c>> = <<a, b, c>> /\ <<a, b>> \o <<c>> = <<a, b, c>>
  /\ \A a, b, c, d \in Steps : <<a>> \o <<b, c, d>> = <<a, b, c, d>>
  /\ \A a, b, c, d \in Steps : <<a, b>> \o <<c, d>> = <<a, b, c, d>>
  /\ \A a, b, c, d, e \in Steps : <<a, b>> \o <<c, d, e>> = <<a, b, c, d, e>>
<1>1. ASSUME NEW a \in Steps, NEW b \in Steps, NEW c \in Steps
      PROVE  <<a>> \o <<b, c>> = <<a, b, c>>
  <2> DEFINE s == <<a>>  t == <<b, c>>  u == <<a, b, c>>
  <2>1. /\ s \in Seq(Steps) /\ t \in Seq(Steps) /\ u \in Seq(Steps)
        /\ Len(s) = 1 /\ Len(t) = 2 /\ Len(u) = 3
        /\ u[1] = s[1] /\ u[2] = t[1] /\ u[3] = t[2]
    OBVIOUS
  <2> HIDE DEF s, t, u
  <2>2. \A k \in 1..Len(s) : u[k] = s[k]
    BY <2>1
  <2>3. \A k \in 1..Len(t) : u[Len(s) + k] = t[k]
    BY <2>1
  <2>4. Len(u) = Len(s) + Len(t)
    BY <2>1
  <2>5. s \o t = u
    BY <2>1, <2>2, <2>3, <2>4, Joined
  <2> QED BY <2>5 DEF s, t, u
<1>2. ASSUME NEW a \in Steps, NEW b \in Steps, NEW c \in Steps
      PROVE  <<a, b>> \o <<c>> = <<a, b, c>>
  <2> DEFINE s == <<a, b>>  t == <<c>>  u == <<a, b, c>>
  <2>1. /\ s \in Seq(Steps) /\ t \in Seq(Steps) /\ u \in Seq(Steps)
        /\ Len(s) = 2 /\ Len(t) = 1 /\ Len(u) = 3
        /\ u[1] = s[1] /\ u[2] = s[2] /\ u[3] = t[1]
    OBVIOUS
  <2> HIDE DEF s, t, u
  <2>2. \A k \in 1..Len(s) : u[k] = s[k]
    BY <2>1
  <2>3. \A k \in 1..Len(t) : u[Len(s) + k] = t[k]
    BY <2>1
  <2>4. Len(u) = Len(s) + Len(t)
    BY <2>1
  <2>5. s \o t = u
    BY <2>1, <2>2, <2>3, <2>4, Joined
  <2> QED BY <2>5 DEF s, t, u
<1>3. ASSUME NEW a \in Steps, NEW b \in Steps, NEW c \in Steps, NEW d \in Steps
      PROVE  <<a>> \o <<b, c, d>> = <<a, b, c, d>>
  <2> DEFINE s == <<a>>  t == <<b, c, d>>  u == <<a, b, c, d>>
  <2>1. /\ s \in Seq(Steps) /\ t \in Seq(Steps) /\ u \in Seq(Steps)
        /\ Len(s) = 1 /\ Len(t) = 3 /\ Len(u) = 4
        /\ u[1] = s[1] /\ u[2] = t[1] /\ u[3] = t[2] /\ u[4] = t[3]
    OBVIOUS
  <2> HIDE DEF s, t, u
  <2>2. \A k \in 1..Len(s) : u[k] = s[k]
    BY <2>1
  <2>3. \A k \in 1..Len(t) : u[Len(s) + k] = t[k]
    BY <2>1
  <2>4. Len(u) = Len(s) + Len(t)
    BY <2>1
  <2>5. s \o t = u
    BY <2>1, <2>2, <2>3, <2>4, Joined
  <2> QED BY <2>5 DEF s, t, u
<1>4. ASSUME NEW a \in Steps, NEW b \in Steps, NEW c \in Steps, NEW d \in Steps
      PROVE  <<a, b>> \o <<c, d>> = <<a, b, c, d>>
  <2> DEFINE s == <<a, b>>  t == <<c, d>>  u == <<a, b, c, d>>
  <2>1. /\ s \in Seq(Steps) /\ t \in Seq(Steps) /\ u \in Seq(Steps)
        /\ Len(s) = 2 /\ Len(t) = 2 /\ Len(u) = 4
        /\ u[1] = s[1] /\ u[2] = s[2] /\ u[3] = t[1] /\ u[4] = t[2]
    OBVIOUS
  <2> HIDE DEF s, t, u
  <2>2. \A k \in 1..Len(s) : u[k] = s[k]
    BY <2>1
  <2>3. \A k \in 1..Len(t) : u[Len(s) + k] = t[k]
    BY <2>1
  <2>4. Len(u) = Len(s) + Len(t)
    BY <2>1
  <2>5. s \o t = u
    BY <2>1, <2>2, <2>3, <2>4, Joined
  <2> QED BY <2>5 DEF s, t, u
<1>5. ASSUME NEW a \in Steps, NEW b \in Steps, NEW c \in Steps, NEW d \in Steps, NEW e \in Steps
      PROVE  <<a, b>> \o <<c, d, e>> = <<a, b, c, d, e>>
  <2> DEFINE s == <<a, b>>  t == <<c, d, e>>  u == <<a, b, c, d, e>>
  <2>1. /\ s \in Seq(Steps) /\ t \in Seq(Steps) /\ u \in Seq(Steps)
        /\ Len(s) = 2 /\ Len(t) = 3 /\ Len(u) = 5
        /\ u[1] = s[1] /\ u[2] = s[2] /\ u[3] = t[1] /\ u[4] = t[2] /\ u[5] = t[3]
    OBVIOUS
  <2> HIDE DEF s, t, u
  <2>2. \A k \in 1..Len(s) : u[k] = s[k]
    BY <2>1
  <2>3. \A k \in 1..Len(t) : u[Len(s) + k] = t[k]
    BY <2>1
  <2>4. Len(u) = Len(s) + Len(t)
    BY <2>1
  <2>5. s \o t = u
    BY <2>1, <2>2, <2>3, <2>4, Joined
  <2> QED BY <2>5 DEF s, t, u
<1> QED BY <1>1, <1>2, <1>3, <1>4, <1>5

\* A script is a sequence of steps, not empty, in the order it should be in, and
\* judges nothing unless it sends something.
Runs(t) == t \in Seq(Steps) /\ t # << >> /\ ScriptOK(t) /\ (Judges(t) => ~NoSendLeft(t))

\* The steps that scripts share.
SendsVerb(v) ==
  v \in Steps /\ v.do = "send" /\ v.what \notin Unsequenced /\ v.yes = "go" /\ v.no = "go"
AckOrUnacked == Step("pumpUntil", "ack", "go", "unacked")
ErrIs(rejected, accepted) == Step("pump", "err", rejected, accepted)
DoneOrLate   == Step("wait", "done", "done", "late")
AckIsStopped == Step("wait", "ack", "stopped", "unacked")
GetsFields   == Step("drain", "get", "fields", "noFields")

\* What the parts of a script are made of.
LEMMA Parts ==
  /\ AwaitAckAndErr(SoftWarning, "go") = <<AckOrUnacked, ErrIs("warned", "go")>>
  /\ AwaitAckAndErr(ConfigSetError, "set") = <<AckOrUnacked, ErrIs("refused", "set")>>
  /\ AwaitCompletion = <<AckOrUnacked, ErrIs("warned", "go"), DoneOrLate>>
  /\ AwaitAckAndGetLines = <<AckOrUnacked, GetsFields>>
  /\ RunStop = <<StopVerb, AckIsStopped>>
  /\ AckOrUnacked \in Steps /\ ErrIs("warned", "go") \in Steps /\ ErrIs("refused", "set") \in Steps
  /\ DoneOrLate \in Steps /\ AckIsStopped \in Steps /\ GetsFields \in Steps
  /\ StopVerb \in Steps /\ PrepareTurn \in Steps
<1>1. /\ AwaitAckAndErr(SoftWarning, "go") = <<AckOrUnacked, ErrIs("warned", "go")>>
      /\ AwaitAckAndErr(ConfigSetError, "set") = <<AckOrUnacked, ErrIs("refused", "set")>>
      /\ AwaitAckAndGetLines = <<AckOrUnacked, GetsFields>>
      /\ RunStop = <<StopVerb, AckIsStopped>>
  BY DEF AwaitAckAndErr, AwaitAckAndGetLines, RunStop, AckOrUnacked, ErrIs, GetsFields,
         AckIsStopped, SoftWarning, ConfigSetError
<1>2. /\ AckOrUnacked \in Steps /\ ErrIs("warned", "go") \in Steps /\ ErrIs("refused", "set") \in Steps
      /\ DoneOrLate \in Steps /\ AckIsStopped \in Steps /\ GetsFields \in Steps
      /\ StopVerb \in Steps /\ PrepareTurn \in Steps
  BY DEF Step, Steps, Does, Verbs, Kinds, Whats, Outcomes, SuccessReports, AckOrUnacked, ErrIs, DoneOrLate, AckIsStopped, GetsFields, StopVerb, Send,
                    PrepareTurn
<1>3. AwaitCompletion = <<AckOrUnacked, ErrIs("warned", "go")>> \o <<DoneOrLate>>
  BY <1>1 DEF AwaitCompletion, DoneOrLate
<1>4. AwaitCompletion = <<AckOrUnacked, ErrIs("warned", "go"), DoneOrLate>>
  <2> DEFINE a == AckOrUnacked  b == ErrIs("warned", "go")  c == DoneOrLate
  <2>1. a \in Steps /\ b \in Steps /\ c \in Steps
    BY <1>2
  <2> HIDE DEF a, b, c
  <2>2. <<a, b>> \o <<c>> = <<a, b, c>>
    BY ZenonT(40), <2>1, LongerScripts
  <2> QED BY <1>3, <2>2 DEF a, b, c
<1> QED BY <1>1, <1>2, <1>4

\* A line is sent and stopped.
LEMMA StopRuns == Runs(RunStop)
<1> DEFINE t == <<StopVerb, AckIsStopped>>
<1>1. RunStop = t
  BY Parts
<1>2. t \in Seq(Steps) /\ Len(t) = 2 /\ t[1] = StopVerb /\ t[2] = AckIsStopped
  BY Parts, ShortScripts
<1> HIDE DEF t
<1>3. \A k \in 1..Len(t) : k \in {1, 2}
  BY <1>2
<1>4. \A k \in 1..Len(t) : StepOK(t[k], Len(t) - k)
  BY <1>2, <1>3 DEF StepOK, VerbOK, AckStep, Step, SuccessReports, Unsequenced, StopVerb, Send,
                      AckIsStopped
<1>5. /\ Sending(t[1]) /\ ~AckStep(t[1]) /\ ~Succeeds(t[1]) /\ t[1].do = "send"
      /\ t[1].what = "STOP" /\ ~Sending(t[2]) /\ AckStep(t[2]) /\ t[2].no = "unacked"
      /\ t[1].yes # "skip" /\ t[1].no # "skip" /\ t[2].yes # "skip" /\ t[2].no # "skip"
      /\ t[2].do = "wait"
  BY <1>2 DEF Sending, AckStep, Succeeds, Step, SuccessReports, StopVerb, Send, AckIsStopped
<1>6. LooksLast(t) /\ JudgesInTurn(t) /\ ~NoSendLeft(t) /\ StopsLast(t)
  BY <1>2, <1>3, <1>5 DEF LooksLast, JudgesInTurn, NoSendLeft, StopsLast, After
<1> QED BY <1>1, <1>2, <1>4, <1>6 DEF ScriptOK, Runs, t

\* A motion is sent, acknowledged, perhaps rejected, and done or late.
LEMMA MotionRuns ==
  ASSUME NEW v, SendsVerb(v)
  PROVE  Runs(<<v>> \o AwaitCompletion)
<1> DEFINE e1 == v
           e2 == AckOrUnacked
           e3 == ErrIs("warned", "go")
           e4 == DoneOrLate
           t == <<e1, e2, e3, e4>>
<1>1. e1 \in Steps /\ e2 \in Steps /\ e3 \in Steps /\ e4 \in Steps
  BY Parts DEF SendsVerb
<1>2. <<v>> \o AwaitCompletion = <<e1>> \o <<e2, e3, e4>>
  BY Parts
<1>3. /\ Sending(e1) /\ ~AckStep(e1) /\ ~Succeeds(e1) /\ e1.do \notin {"pumpUntil", "pump", "drain"} /\ e1.do # "ask"
      /\ e1.yes # "skip" /\ e1.no # "skip" /\ e1.yes # "stopped"
      /\ ~Sending(e2) /\ AckStep(e2) /\ ~Succeeds(e2) /\ e2.no = "unacked" /\ e2.do # "ask"
      /\ e2.yes # "skip" /\ e2.no # "skip" /\ e2.yes # "stopped"
      /\ ~Sending(e3) /\ ~AckStep(e3) /\ Succeeds(e3) /\ e3.do # "ask"
      /\ e3.yes # "skip" /\ e3.no # "skip" /\ e3.yes # "stopped"
      /\ ~Sending(e4) /\ ~AckStep(e4) /\ Succeeds(e4) /\ e4.do \notin {"pumpUntil", "pump", "drain"} /\ e4.do # "ask"
      /\ e4.yes # "skip" /\ e4.no # "skip" /\ e4.yes # "stopped"
  BY DEF Sending, AckStep, Succeeds, Step, SuccessReports, StopVerb, Send, AckIsStopped, AckOrUnacked, ErrIs,
                   DoneOrLate, GetsFields, PrepareTurn, SendsVerb, SetField, GetField
<1>4. StepOK(e1, 3) /\ StepOK(e2, 2) /\ StepOK(e3, 1) /\ StepOK(e4, 0)
  BY DEF StepOK, VerbOK, AckStep, Unsequenced, Step, SuccessReports, StopVerb, Send, AckIsStopped, AckOrUnacked, ErrIs,
                   DoneOrLate, GetsFields, PrepareTurn, SendsVerb, SetField, GetField
<1> HIDE DEF e1, e2, e3, e4
<1>5. <<e1>> \o <<e2, e3, e4>> = t
  BY <1>1, LongerScripts
<1>6. t \in Seq(Steps) /\ Len(t) = 4 /\ t[1] = e1 /\ t[2] = e2 /\ t[3] = e3 /\ t[4] = e4
  BY <1>1
<1>10. t # << >>
  BY <1>6
<1> HIDE DEF t
<1>7. \A k \in 1..Len(t) : k \in {1, 2, 3, 4}
  BY <1>6
<1>8. \A k \in 1..Len(t) : StepOK(t[k], Len(t) - k)
  BY <1>4, <1>6, <1>7
<1>9. LooksLast(t) /\ JudgesInTurn(t) /\ ~NoSendLeft(t) /\ ~Stops(t)
  BY <1>3, <1>6, <1>7 DEF LooksLast, JudgesInTurn, NoSendLeft, Stops, After
<1> QED BY <1>2, <1>5, <1>6, <1>8, <1>9, <1>10 DEF Runs, ScriptOK

\* A turn reads the track width first.
LEMMA TurnRuns ==
  ASSUME NEW v, SendsVerb(v)
  PROVE  Runs(<<PrepareTurn, v>> \o AwaitCompletion)
<1> DEFINE e1 == PrepareTurn
           e2 == v
           e3 == AckOrUnacked
           e4 == ErrIs("warned", "go")
           e5 == DoneOrLate
           t == <<e1, e2, e3, e4, e5>>
<1>1. e1 \in Steps /\ e2 \in Steps /\ e3 \in Steps /\ e4 \in Steps /\ e5 \in Steps
  BY Parts DEF SendsVerb
<1>2. <<PrepareTurn, v>> \o AwaitCompletion = <<e1, e2>> \o <<e3, e4, e5>>
  BY Parts
<1>3. /\ ~Sending(e1) /\ ~AckStep(e1) /\ ~Succeeds(e1) /\ e1.do \notin {"pumpUntil", "pump", "drain"} /\ e1.do # "ask"
      /\ e1.yes # "skip" /\ e1.no # "skip" /\ e1.yes # "stopped"
      /\ Sending(e2) /\ ~AckStep(e2) /\ ~Succeeds(e2) /\ e2.do \notin {"pumpUntil", "pump", "drain"} /\ e2.do # "ask"
      /\ e2.yes # "skip" /\ e2.no # "skip" /\ e2.yes # "stopped"
      /\ ~Sending(e3) /\ AckStep(e3) /\ ~Succeeds(e3) /\ e3.no = "unacked" /\ e3.do # "ask"
      /\ e3.yes # "skip" /\ e3.no # "skip" /\ e3.yes # "stopped"
      /\ ~Sending(e4) /\ ~AckStep(e4) /\ Succeeds(e4) /\ e4.do # "ask"
      /\ e4.yes # "skip" /\ e4.no # "skip" /\ e4.yes # "stopped"
      /\ ~Sending(e5) /\ ~AckStep(e5) /\ Succeeds(e5) /\ e5.do \notin {"pumpUntil", "pump", "drain"} /\ e5.do # "ask"
      /\ e5.yes # "skip" /\ e5.no # "skip" /\ e5.yes # "stopped"
  BY DEF Sending, AckStep, Succeeds, Step, SuccessReports, StopVerb, Send, AckIsStopped, AckOrUnacked, ErrIs,
                   DoneOrLate, GetsFields, PrepareTurn, SendsVerb, SetField, GetField
<1>4. StepOK(e1, 4) /\ StepOK(e2, 3) /\ StepOK(e3, 2) /\ StepOK(e4, 1) /\ StepOK(e5, 0)
  BY DEF StepOK, VerbOK, AckStep, Unsequenced, Step, SuccessReports, StopVerb, Send, AckIsStopped, AckOrUnacked, ErrIs,
                   DoneOrLate, GetsFields, PrepareTurn, SendsVerb, SetField, GetField
<1> HIDE DEF e1, e2, e3, e4, e5
<1>5. <<e1, e2>> \o <<e3, e4, e5>> = t
  BY <1>1, LongerScripts
<1>6. t \in Seq(Steps) /\ Len(t) = 5 /\ t[1] = e1 /\ t[2] = e2 /\ t[3] = e3 /\ t[4] = e4 /\ t[5] = e5
  BY <1>1
<1>10. t # << >>
  BY <1>6
<1> HIDE DEF t
<1>7. \A k \in 1..Len(t) : k \in {1, 2, 3, 4, 5}
  BY <1>6
<1>8. \A k \in 1..Len(t) : StepOK(t[k], Len(t) - k)
  BY <1>4, <1>6, <1>7
<1>9. LooksLast(t) /\ JudgesInTurn(t) /\ ~NoSendLeft(t) /\ ~Stops(t)
  BY <1>3, <1>6, <1>7 DEF LooksLast, JudgesInTurn, NoSendLeft, Stops, After
<1> QED BY <1>2, <1>5, <1>6, <1>8, <1>9, <1>10 DEF Runs, ScriptOK

\* A SET is sent, acknowledged and perhaps rejected.
LEMMA SetRuns ==
  ASSUME NEW v, SendsVerb(v)
  PROVE  Runs(<<v>> \o AwaitAckAndErr(ConfigSetError, "set"))
<1> DEFINE e1 == v
           e2 == AckOrUnacked
           e3 == ErrIs("refused", "set")
           t == <<e1, e2, e3>>
<1>1. e1 \in Steps /\ e2 \in Steps /\ e3 \in Steps
  BY Parts DEF SendsVerb
<1>2. <<v>> \o AwaitAckAndErr(ConfigSetError, "set") = <<e1>> \o <<e2, e3>>
  BY Parts
<1>3. /\ Sending(e1) /\ ~AckStep(e1) /\ ~Succeeds(e1) /\ e1.do \notin {"pumpUntil", "pump", "drain"} /\ e1.do # "ask"
      /\ e1.yes # "skip" /\ e1.no # "skip" /\ e1.yes # "stopped"
      /\ ~Sending(e2) /\ AckStep(e2) /\ ~Succeeds(e2) /\ e2.no = "unacked" /\ e2.do # "ask"
      /\ e2.yes # "skip" /\ e2.no # "skip" /\ e2.yes # "stopped"
      /\ ~Sending(e3) /\ ~AckStep(e3) /\ Succeeds(e3) /\ e3.do # "ask"
      /\ e3.yes # "skip" /\ e3.no # "skip" /\ e3.yes # "stopped"
  BY DEF Sending, AckStep, Succeeds, Step, SuccessReports, StopVerb, Send, AckIsStopped, AckOrUnacked, ErrIs,
                   DoneOrLate, GetsFields, PrepareTurn, SendsVerb, SetField, GetField
<1>4. StepOK(e1, 2) /\ StepOK(e2, 1) /\ StepOK(e3, 0)
  BY DEF StepOK, VerbOK, AckStep, Unsequenced, Step, SuccessReports, StopVerb, Send, AckIsStopped, AckOrUnacked, ErrIs,
                   DoneOrLate, GetsFields, PrepareTurn, SendsVerb, SetField, GetField
<1> HIDE DEF e1, e2, e3
<1>5. <<e1>> \o <<e2, e3>> = t
  BY ZenonT(40), <1>1, LongerScripts
<1>6. t \in Seq(Steps) /\ Len(t) = 3 /\ t[1] = e1 /\ t[2] = e2 /\ t[3] = e3
  BY <1>1
<1>10. t # << >>
  BY <1>6
<1> HIDE DEF t
<1>7. \A k \in 1..Len(t) : k \in {1, 2, 3}
  BY <1>6
<1>8. \A k \in 1..Len(t) : StepOK(t[k], Len(t) - k)
  BY <1>4, <1>6, <1>7
<1>9. LooksLast(t) /\ JudgesInTurn(t) /\ ~NoSendLeft(t) /\ ~Stops(t)
  BY <1>3, <1>6, <1>7 DEF LooksLast, JudgesInTurn, NoSendLeft, Stops, After
<1> QED BY <1>2, <1>5, <1>6, <1>8, <1>9, <1>10 DEF Runs, ScriptOK

\* A GET is sent, acknowledged and answered.
LEMMA GetRuns ==
  ASSUME NEW v, SendsVerb(v)
  PROVE  Runs(<<v>> \o AwaitAckAndGetLines)
<1> DEFINE e1 == v
           e2 == AckOrUnacked
           e3 == GetsFields
           t == <<e1, e2, e3>>
<1>1. e1 \in Steps /\ e2 \in Steps /\ e3 \in Steps
  BY Parts DEF SendsVerb
<1>2. <<v>> \o AwaitAckAndGetLines = <<e1>> \o <<e2, e3>>
  BY Parts
<1>3. /\ Sending(e1) /\ ~AckStep(e1) /\ ~Succeeds(e1) /\ e1.do \notin {"pumpUntil", "pump", "drain"} /\ e1.do # "ask"
      /\ e1.yes # "skip" /\ e1.no # "skip" /\ e1.yes # "stopped"
      /\ ~Sending(e2) /\ AckStep(e2) /\ ~Succeeds(e2) /\ e2.no = "unacked" /\ e2.do # "ask"
      /\ e2.yes # "skip" /\ e2.no # "skip" /\ e2.yes # "stopped"
      /\ ~Sending(e3) /\ ~AckStep(e3) /\ Succeeds(e3) /\ e3.do # "ask"
      /\ e3.yes # "skip" /\ e3.no # "skip" /\ e3.yes # "stopped"
  BY DEF Sending, AckStep, Succeeds, Step, SuccessReports, StopVerb, Send, AckIsStopped, AckOrUnacked, ErrIs,
                   DoneOrLate, GetsFields, PrepareTurn, SendsVerb, SetField, GetField
<1>4. StepOK(e1, 2) /\ StepOK(e2, 1) /\ StepOK(e3, 0)
  BY DEF StepOK, VerbOK, AckStep, Unsequenced, Step, SuccessReports, StopVerb, Send, AckIsStopped, AckOrUnacked, ErrIs,
                   DoneOrLate, GetsFields, PrepareTurn, SendsVerb, SetField, GetField
<1> HIDE DEF e1, e2, e3
<1>5. <<e1>> \o <<e2, e3>> = t
  BY ZenonT(40), <1>1, LongerScripts
<1>6. t \in Seq(Steps) /\ Len(t) = 3 /\ t[1] = e1 /\ t[2] = e2 /\ t[3] = e3
  BY <1>1
<1>10. t # << >>
  BY <1>6
<1> HIDE DEF t
<1>7. \A k \in 1..Len(t) : k \in {1, 2, 3}
  BY <1>6
<1>8. \A k \in 1..Len(t) : StepOK(t[k], Len(t) - k)
  BY <1>4, <1>6, <1>7
<1>9. LooksLast(t) /\ JudgesInTurn(t) /\ ~NoSendLeft(t) /\ ~Stops(t)
  BY <1>3, <1>6, <1>7 DEF LooksLast, JudgesInTurn, NoSendLeft, Stops, After
<1> QED BY <1>2, <1>5, <1>6, <1>8, <1>9, <1>10 DEF Runs, ScriptOK

\* A stream ends with a STOP.
LEMMA StreamRuns ==
  Runs(CmdDriveStream)
<1> DEFINE e1 == Step("stream", "WHEELS_V", "go", "go")
           e2 == Step("pace", "any", "go", "go")
           e3 == StopVerb
           e4 == AckIsStopped
           t == <<e1, e2, e3, e4>>
<1>1. e1 \in Steps /\ e2 \in Steps /\ e3 \in Steps /\ e4 \in Steps
  BY Parts DEF Step, Steps, Does, Verbs, Kinds, Whats, Outcomes, SuccessReports
<1>2. CmdDriveStream = <<e1, e2>> \o <<e3, e4>>
  BY Parts DEF CmdDriveStream
<1>3. /\ Sending(e1) /\ ~AckStep(e1) /\ ~Succeeds(e1) /\ e1.do \notin {"pumpUntil", "pump", "drain"} /\ e1.do # "ask"
      /\ e1.yes # "skip" /\ e1.no # "skip" /\ e1.yes # "stopped"
      /\ Sending(e2) /\ ~AckStep(e2) /\ ~Succeeds(e2) /\ e2.do \notin {"pumpUntil", "pump", "drain"} /\ e2.do # "ask"
      /\ e2.yes # "skip" /\ e2.no # "skip" /\ e2.yes # "stopped"
      /\ Sending(e3) /\ ~AckStep(e3) /\ ~Succeeds(e3) /\ e3.do \notin {"pumpUntil", "pump", "drain"} /\ e3.do # "ask"
      /\ e3.yes # "skip" /\ e3.no # "skip" /\ e3.yes # "stopped" /\ e3.do = "send" /\ e3.what = "STOP"
      /\ ~Sending(e4) /\ AckStep(e4) /\ Succeeds(e4) /\ e4.no = "unacked" /\ e4.do \notin {"pumpUntil", "pump", "drain"}
      /\ e4.do # "ask" /\ e4.yes # "skip" /\ e4.no # "skip" /\ e4.yes = "stopped"
  BY DEF Sending, AckStep, Succeeds, Step, SuccessReports, StopVerb, Send, AckIsStopped, AckOrUnacked, ErrIs,
                   DoneOrLate, GetsFields, PrepareTurn, SendsVerb, SetField, GetField
<1>4. StepOK(e1, 3) /\ StepOK(e2, 2) /\ StepOK(e3, 1) /\ StepOK(e4, 0)
  BY DEF StepOK, VerbOK, AckStep, Unsequenced, Step, SuccessReports, StopVerb, Send, AckIsStopped, AckOrUnacked, ErrIs,
                   DoneOrLate, GetsFields, PrepareTurn, SendsVerb, SetField, GetField
<1> HIDE DEF e1, e2, e3, e4
<1>5. <<e1, e2>> \o <<e3, e4>> = t
  BY <1>1, LongerScripts
<1>6. t \in Seq(Steps) /\ Len(t) = 4 /\ t[1] = e1 /\ t[2] = e2 /\ t[3] = e3 /\ t[4] = e4
  BY <1>1
<1>10. t # << >>
  BY <1>6
<1> HIDE DEF t
<1>7. \A k \in 1..Len(t) : k \in {1, 2, 3, 4}
  BY <1>6
<1>8. \A k \in 1..Len(t) : StepOK(t[k], Len(t) - k)
  BY <1>4, <1>6, <1>7
<1>9. LooksLast(t) /\ JudgesInTurn(t) /\ ~NoSendLeft(t) /\ StopsLast(t)
  BY <1>3, <1>6, <1>7 DEF LooksLast, JudgesInTurn, NoSendLeft, StopsLast, After
<1> QED BY <1>2, <1>5, <1>6, <1>8, <1>9, <1>10 DEF Runs, ScriptOK

\* A verb without an id is said, and its answer looked for.
LEMMA SayRuns ==
  ASSUME NEW a \in Steps, a.do = "say", a.what \in Unsequenced, a.yes = "go", a.no = "go",
         NEW b \in Steps, b.do = "pumpUntil", b.what \in {"device", "estop"},
         b.yes \in {"banner", "confirmed"}, b.no \in {"silent", "unconfirmed"}
  PROVE  Runs(<<a, b>>)
<1> DEFINE t == <<a, b>>
<1>1. t \in Seq(Steps) /\ Len(t) = 2 /\ t[1] = a /\ t[2] = b
  BY ShortScripts
<1>2. StepOK(a, 1) /\ StepOK(b, 0)
  BY DEF StepOK, VerbOK, AckStep, SuccessReports, Unsequenced
<1>3. ~Sending(a) /\ ~Succeeds(a) /\ ~Sending(b) /\ ~Succeeds(b) /\ a.yes # "stopped" /\ b.yes # "stopped"
  BY DEF Sending, Succeeds, SuccessReports
<1>4. t # << >>
  BY <1>1
<1> HIDE DEF t
<1>5. \A k \in 1..Len(t) : k \in {1, 2}
  BY <1>1
<1>6. \A k \in 1..Len(t) : StepOK(t[k], Len(t) - k)
  BY <1>1, <1>2, <1>5
<1>7. LooksLast(t) /\ ~Judges(t) /\ ~Stops(t)
  BY <1>1, <1>3, <1>5 DEF LooksLast, Judges, Stops, After
<1> QED BY <1>1, <1>4, <1>6, <1>7 DEF Runs, ScriptOK, t

\* Steps of a calibration: they go on, or skip one, and look for nothing.
Calibrates(s) ==
  /\ s \in Steps /\ VerbOK(s) /\ s.do \in {"load", "ask", "send", "wait", "save"}
  /\ ~Succeeds(s) /\ s.yes \notin {"unacked", "closed", "raised", "late"}
  /\ s.no \notin {"unacked", "late"}
  /\ s.what = "ack" => s.yes # s.no
  /\ s.do \in {"ask", "send"} => s.yes = "go" /\ s.no = "go"
  /\ s.do = "load" => s.yes = "go" /\ s.no = "noConfig"
  /\ s.do = "save" => s.what \in Fields
  /\ s.yes # "skip" /\ (s.no = "skip" => s.do = "wait")

\* A script of such steps that has enough steps left wherever it goes on judges
\* nothing.
LEMMA CalibrationRuns ==
  ASSUME NEW t \in Seq(Steps), t # << >>,
         \A k \in 1..Len(t) : Calibrates(t[k]),
         \A k \in 1..Len(t) : t[k].yes = "go" \/ t[k].no = "go" => Len(t) - k >= 1,
         \A k \in 1..Len(t) : t[k].no = "skip" => Len(t) - k >= 2
  PROVE  Runs(t)
<1>1. ASSUME NEW k \in 1..Len(t) PROVE StepOK(t[k], Len(t) - k)
  <2> DEFINE s == t[k]  after == Len(t) - k
  <2>1. /\ Calibrates(s) /\ (s.yes = "go" \/ s.no = "go" => after >= 1)
        /\ (s.no = "skip" => after >= 2)
    OBVIOUS
  <2> HIDE DEF s, after
  <2>2. StepOK(s, after)
    BY <2>1 DEF StepOK, Calibrates, Succeeds, AckStep, SuccessReports
  <2> QED BY <2>2 DEF s, after
<1>2. ~Judges(t) /\ ~Stops(t)
  BY DEF Judges, Stops, Calibrates, Succeeds, SuccessReports
<1>3. LooksLast(t)
  BY DEF LooksLast, Calibrates
<1> QED BY <1>1, <1>2, <1>3 DEF Runs, ScriptOK

\* The steps of one trial.
LEMMA TrialSteps ==
  /\ Len(InteractiveTrial) = 5
  /\ \A i \in 1..5 :
       /\ Calibrates(InteractiveTrial[i])
       /\ InteractiveTrial[i].no = "skip" => i = 3
<1> DEFINE a == Step("ask", "start", "go", "go")
           b == WheelsV
           c == Step("wait", "ack", "go", "skip")
           d == Step("wait", "done", "go", "go")
           e == Step("ask", "measure", "go", "go")
           t == <<a, b, c, d, e>>
<1>1. /\ Calibrates(a) /\ Calibrates(b) /\ Calibrates(c) /\ Calibrates(d) /\ Calibrates(e)
      /\ a.no # "skip" /\ b.no # "skip" /\ d.no # "skip" /\ e.no # "skip"
  BY DEF Calibrates, Step, Steps, Does, Verbs, Kinds, Whats, Outcomes, SuccessReports, Succeeds,
         VerbOK, Unsequenced, WheelsV, Send
<1>2. InteractiveTrial = t
  BY DEF InteractiveTrial
<1> HIDE DEF a, b, c, d, e
<1>3. Len(t) = 5 /\ t[1] = a /\ t[2] = b /\ t[3] = c /\ t[4] = d /\ t[5] = e
  OBVIOUS
<1> HIDE DEF t
<1>4. \A i \in 1..5 : i \in {1, 2, 3, 4, 5}
  OBVIOUS
<1> QED BY <1>1, <1>2, <1>3, <1>4

\* Any number of trials between the configuration and the report.
LEMMA CalibrateRuns ==
  ASSUME NEW needs \in {"trackwidth", "config"}, NEW field \in {"slip", "scale"}
  PROVE  /\ Runs(Calibrate(needs, field))
         /\ \A k \in 1..Len(Calibrate(needs, field)) : Calibrates(Calibrate(needs, field)[k])
<1> DEFINE a == Step("load", needs, "go", "noConfig")
           z == Step("save", field, "saved", "declined")
           trials == RunInteractiveTrials
           total == Trials * 5
           front == <<a>> \o trials
           t == front \o <<z>>
<1>1. Calibrate(needs, field) = t
  BY DEF Calibrate, ReportAndSave
<1>2. Calibrates(a) /\ Calibrates(z) /\ a.no # "skip" /\ z.yes # "go" /\ z.no \notin {"go", "skip"}
  BY DEF Calibrates, Step, Steps, Does, Verbs, Kinds, Whats, Outcomes, SuccessReports, Succeeds,
         VerbOK, Unsequenced, Fields
<1>3. total \in Nat
  BY CommandsAssumption
<1>4. trials = [k \in 1..total |-> InteractiveTrial[1 + ((k - 1) % 5)]]
  BY TrialSteps DEF RunInteractiveTrials
<1>5. \A k \in 1..total : 1 + ((k - 1) % 5) \in 1..5
  BY <1>3
<1>6. \A k \in 1..total : 1 + ((k - 1) % 5) = 3 => k <= total - 2
  BY CommandsAssumption
<1> HIDE DEF total
<1>7. /\ trials \in Seq(Steps) /\ Len(trials) = total
      /\ \A k \in 1..total : Calibrates(trials[k]) /\ (trials[k].no = "skip" => k <= total - 2)
  <2> HIDE DEF trials
  <2>1. \A k \in 1..total : trials[k] = InteractiveTrial[1 + ((k - 1) % 5)]
    BY <1>4
  <2>2. \A k \in 1..total : Calibrates(trials[k]) /\ (trials[k].no = "skip" => k <= total - 2)
    BY <2>1, <1>5, <1>6, TrialSteps
  <2>3. \A k \in 1..total : trials[k] \in Steps
    BY <2>2 DEF Calibrates
  <2>4. trials \in [1..total -> Steps]
    BY <1>4, <2>3
  <2> QED BY <1>3, <2>2, <2>4
<1>8. a \in Steps /\ z \in Steps
  BY <1>2 DEF Calibrates
<1> HIDE DEF a, z, trials
<1>9. <<a>> \in Seq(Steps) /\ Len(<<a>>) = 1 /\ <<a>>[1] = a
      /\ <<z>> \in Seq(Steps) /\ Len(<<z>>) = 1 /\ <<z>>[1] = z
  BY <1>8, ShortScripts
<1>10. /\ front \in Seq(Steps) /\ Len(front) = 1 + total /\ front[1] = a
       /\ \A k \in 1..total : front[1 + k] = trials[k]
  BY <1>3, <1>7, <1>9, TwoParts
<1> HIDE DEF front
<1>11. /\ t \in Seq(Steps) /\ Len(t) = 2 + total /\ t[2 + total] = z
       /\ \A k \in 1..(1 + total) : t[k] = front[k]
  <2>1. /\ t \in Seq(Steps) /\ Len(t) = Len(front) + Len(<<z>>)
        /\ \A k \in 1..Len(front) : t[k] = front[k]
        /\ \A k \in 1..Len(<<z>>) : t[Len(front) + k] = <<z>>[k]
    BY <1>9, <1>10, TwoParts
  <2>2. t[Len(front) + 1] = z
    BY <2>1, <1>9
  <2> HIDE DEF t
  <2>3. Len(front) + 1 = 2 + total /\ Len(front) + Len(<<z>>) = 2 + total
    BY <1>3, <1>9, <1>10
  <2> QED BY <2>1, <2>2, <2>3, <1>10
<1> HIDE DEF t
<1>12. \A k \in 1..total : t[1 + k] = trials[k]
  BY <1>3, <1>10, <1>11
<1>13. t[1] = a
  BY <1>3, <1>10, <1>11
<1>14. ASSUME NEW k \in 1..Len(t)
       PROVE  /\ Calibrates(t[k]) /\ (t[k].yes = "go" \/ t[k].no = "go" => Len(t) - k >= 1)
              /\ (t[k].no = "skip" => Len(t) - k >= 2)
  <2>1. CASE k = 1
    BY <2>1, <1>2, <1>3, <1>11, <1>13
  <2>2. CASE k = 2 + total
    BY <2>2, <1>2, <1>3, <1>11
  <2>3. CASE k # 1 /\ k # 2 + total
    <3> DEFINE j == k - 1
    <3>1. j \in 1..total /\ 1 + j = k
      BY <2>3, <1>3, <1>11
    <3>2. t[k] = trials[j]
      BY <3>1, <1>12
    <3>3. Calibrates(t[k]) /\ (t[k].no = "skip" => j <= total - 2)
      BY <3>1, <3>2, <1>7
    <3> QED BY <3>1, <3>3, <1>3, <1>11
  <2> QED BY <2>1, <2>2, <2>3
<1>15. t # << >>
  BY <1>3, <1>11
<1>16. Runs(t)
  BY <1>11, <1>14, <1>15, CalibrationRuns
<1> QED BY <1>1, <1>14, <1>16

\* The tool calibrates with the measurements it is given.
LEMMA ToolCalibrateRuns ==
  /\ Runs(ToolCalibrateTurns)
  /\ \A k \in 1..Len(ToolCalibrateTurns) : Calibrates(ToolCalibrateTurns[k])
<1> DEFINE a == Step("load", "config", "go", "noConfig")
           b == Step("ask", "given", "go", "go")
           z == Step("save", "slip", "saved", "declined")
           t == <<a, b, z>>
<1>1. ToolCalibrateTurns = <<a, b>> \o <<z>>
  BY DEF ToolCalibrateTurns, ReportAndSave
<1>2. /\ Calibrates(a) /\ Calibrates(b) /\ Calibrates(z) /\ a.no # "skip" /\ b.no # "skip"
      /\ z.yes # "go" /\ z.no \notin {"go", "skip"}
  BY DEF Calibrates, Step, Steps, Does, Verbs, Kinds, Whats, Outcomes, SuccessReports, Succeeds,
         VerbOK, Unsequenced, Fields
<1>3. a \in Steps /\ b \in Steps /\ z \in Steps
  BY <1>2 DEF Calibrates
<1> HIDE DEF a, b, z
<1>4. <<a, b>> \o <<z>> = t
  BY ZenonT(40), <1>3, LongerScripts
<1>5. t \in Seq(Steps) /\ Len(t) = 3 /\ t[1] = a /\ t[2] = b /\ t[3] = z
  BY <1>3
<1>6. t # << >>
  BY <1>5
<1> HIDE DEF t
<1>7. \A k \in 1..Len(t) : k \in {1, 2, 3}
  BY <1>5
<1>8. \A k \in 1..Len(t) : Calibrates(t[k])
  BY <1>2, <1>5, <1>7
<1>9. Runs(t)
  BY <1>2, <1>5, <1>6, <1>7, CalibrationRuns
<1> QED BY <1>1, <1>4, <1>8, <1>9

\* Without the line it sends, a drive awaits the completion all the same.
LEMMA NegativeDrive == CmdDriveNegative = <<Send("UNDECODABLE")>> \o AwaitCompletion
<1> DEFINE a == WheelsV
           b == AckOrUnacked
           c == ErrIs("warned", "go")
           d == DoneOrLate
<1>1. a \in Steps /\ b \in Steps /\ c \in Steps /\ d \in Steps
  BY Parts DEF WheelsV, Send, Step, Steps, Does, Verbs, Kinds, Whats, Outcomes, SuccessReports
<1>2. AwaitCompletion = <<b, c, d>>
  BY Parts
<1> HIDE DEF a, b, c, d
<1>3. <<a>> \o <<b, c, d>> = <<a, b, c, d>>
  BY <1>1, LongerScripts
<1>4. Tail(<<a, b, c, d>>) = <<b, c, d>>
  BY <1>1
<1>5. CmdDriveMs = <<a, b, c, d>>
  BY <1>2, <1>3 DEF CmdDriveMs, a
<1> QED BY <1>2, <1>4, <1>5 DEF CmdDriveNegative

\* The verbs that are sent.
LEMMA SentVerbs ==
  /\ SendsVerb(WheelsV) /\ SendsVerb(WheelsX) /\ SendsVerb(GoToR) /\ SendsVerb(GetField)
  /\ SendsVerb(SetField) /\ SendsVerb(Send("UNDECODABLE"))
BY DEF SendsVerb, WheelsV, WheelsX, GoToR, GetField, SetField, Send, Step, Steps, Does, Verbs,
       Kinds, Whats, Outcomes, SuccessReports, Unsequenced

\* HELLO and ESTOP.
LEMMA HelloRuns == Runs(RunHello) /\ Runs(ToolHello) /\ Runs(RunEstop)
<1> DEFINE hello == Step("say", "HELLO", "go", "go")
           estop == Step("say", "ESTOP", "go", "go")
           device == Step("pumpUntil", "device", "banner", "silent")
           heard == Step("pumpUntil", "estop", "confirmed", "unconfirmed")
<1>1. /\ hello \in Steps /\ estop \in Steps /\ device \in Steps /\ heard \in Steps
  BY DEF Step, Steps, Does, Verbs, Kinds, Whats, Outcomes, SuccessReports
<1>2. /\ hello.do = "say" /\ hello.what \in Unsequenced /\ hello.yes = "go" /\ hello.no = "go"
      /\ estop.do = "say" /\ estop.what \in Unsequenced /\ estop.yes = "go" /\ estop.no = "go"
      /\ device.do = "pumpUntil" /\ device.what \in {"device", "estop"}
      /\ device.yes \in {"banner", "confirmed"} /\ device.no \in {"silent", "unconfirmed"}
      /\ heard.do = "pumpUntil" /\ heard.what \in {"device", "estop"}
      /\ heard.yes \in {"banner", "confirmed"} /\ heard.no \in {"silent", "unconfirmed"}
  BY DEF Step, Unsequenced
<1>3. /\ RunHello = <<hello, device>> /\ ToolHello = <<hello, device>>
      /\ RunEstop = <<estop, heard>>
  BY DEF RunHello, ToolHello, RunEstop, EstopVerb
<1> HIDE DEF hello, estop, device, heard
<1>4. Runs(<<hello, device>>) /\ Runs(<<estop, heard>>)
  BY <1>1, <1>2, SayRuns
<1> QED BY <1>3, <1>4

\* So every command that a terminal or a server runs is a script as it should be.
LEMMA EveryScriptRuns ==
  ASSUME NEW c \in Clients, NEW name \in Offered(c)
  PROVE  Runs(ScriptOf(c, name))
<1>1. /\ Runs(RunHello) /\ Runs(RunStop) /\ Runs(RunEstop) /\ Runs(CmdDriveMs)
      /\ Runs(CmdDriveNegative) /\ Runs(CmdDriveMm) /\ Runs(CmdDriveStream) /\ Runs(RunTurn)
      /\ Runs(RunGoto) /\ Runs(RunConfigGet) /\ Runs(RunConfigSet)
  BY HelloRuns, StopRuns, MotionRuns, TurnRuns, GetRuns, SetRuns, StreamRuns, SentVerbs,
     NegativeDrive DEF CmdDriveMs, CmdDriveMm, RunTurn, RunGoto, RunConfigGet, RunConfigSet
<1>2. Runs(CalibrateTurns) /\ Runs(CalibrateDistance)
  BY CalibrateRuns DEF CalibrateTurns, CalibrateDistance
<1>3. /\ ToolStop = RunStop /\ ToolDrive = CmdDriveMs /\ ToolTurn = RunTurn
      /\ ToolGoto = RunGoto /\ ToolConfigGet = RunConfigGet /\ ToolConfigSet = RunConfigSet
  BY DEF ToolStop, RunStop, ToolDrive, CmdDriveMs, ToolTurn, RunTurn, ToolGoto, RunGoto,
         ToolConfigGet, RunConfigGet, ToolConfigSet, RunConfigSet
<1>4. Runs(ToolHello) /\ Runs(ToolStop) /\ Runs(ToolDrive) /\ Runs(ToolTurn) /\ Runs(ToolGoto)
      /\ Runs(ToolConfigGet) /\ Runs(ToolConfigSet) /\ Runs(ToolCalibrateTurns)
  BY <1>1, <1>3, HelloRuns, ToolCalibrateRuns
<1>5. \A n \in CommandNames : Runs(Commands[n])
  BY <1>1, <1>2 DEF Commands, CommandNames
<1>6. \A n \in ToolNames : Runs(Tools[n])
  BY <1>4 DEF Tools, ToolNames
<1> QED BY <1>5, <1>6, CommandsAssumption DEF ScriptOf, Offered

(***************************************************************************)
(* The wire                                                                *)
(***************************************************************************)

\* What is said of a line that was sent stays so, whatever happens on the wire.
Lasts ==
  /\ nextId <= nextId' /\ acked <= acked' /\ lastDone <= lastDone'
  /\ \A n \in Nat : ErrOf(n) => ErrOf(n)'
  /\ \A n \in Nat : n # 0 /\ n < nextId =>
       /\ \A c \in Clients : LineIsOf(c, n) => LineIsOf(c, n)'
       /\ LineIsStop(n) => LineIsStop(n)'

wire == <<latched, linkUp, adapter, expectedNext, log, active, queue, lastDone, toRobot, toHost,
          nextId, acked, hostDone>>

\* The lines behind the first.
LEMMA FewerLines ==
  ASSUME NEW S, NEW s \in Seq(S), s # << >>
  PROVE  /\ Len(s) \in Nat \ {0} /\ Tail(s) \in Seq(S) /\ Len(Tail(s)) = Len(s) - 1
         /\ \A k \in 1..Len(Tail(s)) : k + 1 \in 1..Len(s) /\ Tail(s)[k] = s[k + 1]
         /\ Head(s) = s[1] /\ 1 \in 1..Len(s) /\ s[1] \in S
OBVIOUS

\* A line more.
LEMMA OneMore ==
  ASSUME NEW S, NEW s \in Seq(S), NEW e \in S
  PROVE  /\ Append(s, e) \in Seq(S) /\ Len(Append(s, e)) = Len(s) + 1 /\ Len(s) \in Nat
         /\ \A k \in 1..Len(s) : Append(s, e)[k] = s[k]
         /\ Append(s, e)[Len(s) + 1] = e
OBVIOUS

\* Two sequences one after the other.
LEMMA OneAfterTheOther ==
  ASSUME NEW S, NEW s \in Seq(S), NEW t \in Seq(S)
  PROVE  /\ s \o t \in Seq(S)
         /\ \A k \in 1..Len(s \o t) :
              \/ k \in 1..Len(s) /\ (s \o t)[k] = s[k]
              \/ \E j \in 1..Len(t) : (s \o t)[k] = t[j]
<1>1. /\ s \o t \in Seq(S) /\ Len(s \o t) = Len(s) + Len(t)
      /\ \A k \in 1..(Len(s) + Len(t)) :
           (s \o t)[k] = IF k <= Len(s) THEN s[k] ELSE t[k - Len(s)]
  BY ConcatProperties
<1>2. Len(s) \in Nat /\ Len(t) \in Nat
  BY LenProperties
<1>3. ASSUME NEW k \in 1..Len(s \o t)
      PROVE  \/ k \in 1..Len(s) /\ (s \o t)[k] = s[k]
             \/ \E j \in 1..Len(t) : (s \o t)[k] = t[j]
  <2>1. CASE k <= Len(s)
    BY <2>1, <1>1, <1>2
  <2>2. CASE ~(k <= Len(s))
    <3>1. k - Len(s) \in 1..Len(t)
      BY <2>2, <1>1, <1>2
    <3>2. (s \o t)[k] = t[k - Len(s)]
      BY <2>2, <1>1, <1>2
    <3> QED BY <3>1, <3>2
  <2> QED BY <2>1, <2>2
<1> QED BY <1>1, <1>3

\* The robot's answers are true if those under way stay so.
LEMMA AnswersAreTrue ==
  ASSUME NEW replies \in Seq(ReplySet), Answer(replies), toHost \in Seq(ReplySet),
         \A k \in 1..Len(toHost) : ReplyIsTrue(toHost[k]),
         \A r \in ReplySet : ReplyIsTrue(r) => ReplyIsTrue(r)',
         \A r \in ReplySet : (\E k \in 1..Len(replies) : replies[k] = r) => ReplyIsTrue(r)'
  PROVE  /\ toHost' \in Seq(ReplySet)
         /\ (\A k \in 1..Len(toHost) : ReplyIsTrue(toHost[k]))'
<1> DEFINE u == toHost'
<1>1. /\ u \in Seq(ReplySet)
      /\ \A k \in 1..Len(u) :
           \/ k \in 1..Len(toHost) /\ u[k] = toHost[k]
           \/ \E j \in 1..Len(replies) : u[k] = replies[j]
  BY OneAfterTheOther DEF Answer
<1>2. \A k \in 1..Len(u) : \E r \in ReplySet : u[k] = r /\ ReplyIsTrue(r)'
  <2> TAKE k \in 1..Len(u)
  <2>1. CASE k \in 1..Len(toHost) /\ u[k] = toHost[k]
    <3>1. toHost[k] \in ReplySet
      BY <2>1
    <3> WITNESS toHost[k] \in ReplySet
    <3> QED BY <2>1
  <2>2. CASE \E j \in 1..Len(replies) : u[k] = replies[j]
    <3>1. PICK j \in 1..Len(replies) : u[k] = replies[j]
      BY <2>2
    <3>2. replies[j] \in ReplySet
      OBVIOUS
    <3> QED BY <3>1, <3>2
  <2> QED BY <1>1, <2>1, <2>2
<1> QED BY <1>1, <1>2 DEF ReplyIsTrue

\* While nothing is executed and no line is new but the one with the next id, what
\* is said of a line lasts.
LEMMA LinesLast ==
  ASSUME WireInv, log' = log, nextId' \in Nat, nextId <= nextId',
         \A k \in 1..Len(toRobot') :
           \/ \E j \in 1..Len(toRobot) : toRobot'[k] = toRobot[j]
           \/ toRobot'[k].id \in {0, nextId}
  PROVE  /\ \A n \in Nat : ErrOf(n) => ErrOf(n)'
         /\ \A n \in Nat : n # 0 /\ n < nextId =>
              /\ \A c \in Clients : LineIsOf(c, n) => LineIsOf(c, n)'
              /\ LineIsStop(n) => LineIsStop(n)'
<1>1. nextId \in Nat /\ Len(log) \in Nat
  BY DEF WireInv, WireTypes
<1>2. ASSUME NEW n \in Nat, ErrOf(n) PROVE ErrOf(n)'
  <2>1. CASE n \in 1..Len(log) /\ log[n].verdict = "rejected"
    BY <2>1 DEF ErrOf
  <2>2. CASE NeverExecuted(n)
    <3> DEFINE m == Len(log) + 1
    <3>1. Len(log) < n /\ m < nextId /\ \A k \in 1..Len(toRobot) : toRobot[k].id # m
      BY <2>2 DEF NeverExecuted
    <3>2. m \notin {0, nextId} /\ m < nextId'
      BY <1>1, <3>1
    <3> HIDE DEF m
    <3>3. \A k \in 1..Len(toRobot') : toRobot'[k].id # m
      BY <3>1, <3>2
    <3> QED BY <3>1, <3>2, <3>3 DEF ErrOf, NeverExecuted, m
  <2> QED BY <1>2, <2>1, <2>2 DEF ErrOf
<1>3. ASSUME NEW n \in Nat, n # 0, n < nextId, NEW c \in Clients, LineIsOf(c, n)
      PROVE  LineIsOf(c, n)'
  BY <1>1, <1>3 DEF LineIsOf
<1>4. ASSUME NEW n \in Nat, n # 0, n < nextId, LineIsStop(n)
      PROVE  LineIsStop(n)'
  BY <1>1, <1>4 DEF LineIsStop
<1> QED BY <1>2, <1>3, <1>4

\* A reply that is true stays so.
LEMMA RepliesLast ==
  ASSUME \A n \in Nat : ErrOf(n) => ErrOf(n)', Len(log) \in Nat, Len(log') \in Nat,
         Len(log) <= Len(log'), lastDone \in Nat, lastDone' \in Nat, lastDone <= lastDone'
  PROVE  \A r \in ReplySet : ReplyIsTrue(r) => ReplyIsTrue(r)'
BY DEF ReplySet, ReplyIsTrue

\* Taking the first line leaves the others in order.
LEMMA LinesInOrder ==
  ASSUME WireInv, toRobot # << >>, toRobot' = Tail(toRobot), log' = log, nextId' = nextId,
         expectedNext' \in {1, expectedNext}
  PROVE  /\ WireInOrder' /\ toRobot' \in Seq(LineSet) /\ expectedNext' \in Nat \ {0}
         /\ \A k \in 1..Len(toRobot') : \E j \in 1..Len(toRobot) : toRobot'[k] = toRobot[j]
<1>1. toRobot \in Seq(LineSet) /\ expectedNext \in Nat \ {0} /\ WireInOrder
  BY DEF WireInv, WireTypes
<1>2. /\ Len(toRobot) \in Nat \ {0} /\ toRobot' \in Seq(LineSet) /\ Len(toRobot') = Len(toRobot) - 1
      /\ \A k \in 1..Len(toRobot') : k + 1 \in 1..Len(toRobot) /\ toRobot'[k] = toRobot[k + 1]
  BY <1>1, FewerLines
<1>3. ASSUME NEW k \in 1..Len(toRobot')
      PROVE  /\ toRobot'[k].id < nextId
             /\ toRobot'[k].id = 0 <=> toRobot'[k].verb \in Unsequenced
             /\ toRobot'[k].id # 0 => Len(log) < toRobot'[k].id
             /\ \A j \in 1..(k - 1) : toRobot'[k].id # 0 => toRobot'[j].id < toRobot'[k].id
  <2>1. k + 1 \in 1..Len(toRobot) /\ toRobot'[k] = toRobot[k + 1]
    BY <1>2
  <2>2. \A j \in 1..(k - 1) : j + 1 \in 1..((k + 1) - 1) /\ toRobot'[j] = toRobot[j + 1]
    BY <1>2
  <2> QED BY <1>1, <2>1, <2>2 DEF WireInOrder
<1> QED BY <1>1, <1>2, <1>3 DEF WireInOrder

\* A line the robot does not execute: what it answers is true, and its motions are
\* as they were or all at an end.
LEMMA OnlyAnswers ==
  ASSUME WireInv, toRobot # << >>, toRobot' = Tail(toRobot), log' = log,
         UNCHANGED <<adapter, linkUp, sessionVars>>,
         expectedNext' \in {1, expectedNext}, latched' \in BOOLEAN,
         \/ UNCHANGED <<active, queue, lastDone>>
         \/ active' = 0 /\ queue' = << >> /\ lastDone' \in {lastDone, active} /\ lastDone <= lastDone',
         NEW replies \in Seq(ReplySet), Answer(replies),
         \A r \in ReplySet : (\E k \in 1..Len(replies) : replies[k] = r) =>
           /\ r.kind # "ack" /\ r.done \in {0, lastDone}
           /\ r.kind = "err" => ErrOf(r.n)'
  PROVE  WireInv' /\ Lasts
<1>1. WireTypes /\ WireInOrder /\ MotionsInOrder /\ StopEndsAll /\ RepliesAreTrue
  BY DEF WireInv
<1>2. /\ nextId' = nextId /\ acked' = acked /\ hostDone' = hostDone /\ adapter' = adapter
      /\ linkUp' = linkUp
  BY DEF sessionVars
<1>3. /\ WireInOrder' /\ toRobot' \in Seq(LineSet) /\ expectedNext' \in Nat \ {0}
      /\ \A k \in 1..Len(toRobot') : \E j \in 1..Len(toRobot) : toRobot'[k] = toRobot[j]
  BY <1>2, LinesInOrder
<1>4. /\ \A n \in Nat : ErrOf(n) => ErrOf(n)'
      /\ \A n \in Nat : n # 0 /\ n < nextId =>
           /\ \A c \in Clients : LineIsOf(c, n) => LineIsOf(c, n)'
           /\ LineIsStop(n) => LineIsStop(n)'
  BY SMTT(30), <1>1, <1>2, <1>3, LinesLast DEF WireTypes
<1>5. /\ lastDone \in Nat /\ lastDone' \in Nat /\ lastDone <= lastDone'
      /\ active' \in Nat /\ queue' \in Seq(Nat)
  <2>1. lastDone \in Nat /\ active \in Nat /\ queue \in Seq(Nat)
    BY <1>1 DEF WireTypes
  <2>2. CASE UNCHANGED <<active, queue, lastDone>>
    BY <2>1, <2>2
  <2>3. CASE /\ active' = 0 /\ queue' = << >> /\ lastDone' \in {lastDone, active}
             /\ lastDone <= lastDone'
    <3>1. << >> \in Seq(Nat)
      OBVIOUS
    <3> QED BY <2>1, <2>3, <3>1
  <2> QED BY <2>2, <2>3
<1>6. MotionsInOrder' /\ StopEndsAll'
  <2>1. CASE UNCHANGED <<active, queue, lastDone>>
    BY <2>1, <1>1, <1>2 DEF MotionsInOrder, StopEndsAll
  <2>2. CASE /\ active' = 0 /\ queue' = << >> /\ lastDone' \in {lastDone, active}
             /\ lastDone <= lastDone'
    BY <2>2, <1>1, <1>2 DEF MotionsInOrder, StopEndsAll
  <2> QED BY <2>1, <2>2
<1>7. \A r \in ReplySet : ReplyIsTrue(r) => ReplyIsTrue(r)'
  BY <1>1, <1>4, <1>5, RepliesLast DEF WireTypes
<1>8. \A r \in ReplySet : (\E k \in 1..Len(replies) : replies[k] = r) => ReplyIsTrue(r)'
  <2> TAKE r \in ReplySet
  <2> HAVE \E k \in 1..Len(replies) : replies[k] = r
  <2>1. r.kind # "ack" /\ r.done \in {0, lastDone} /\ (r.kind = "err" => ErrOf(r.n)')
    OBVIOUS
  <2>2. r.done <= lastDone'
    BY <2>1, <1>5
  <2> QED BY <2>1, <2>2 DEF ReplyIsTrue
<1>9. toHost' \in Seq(ReplySet) /\ (\A k \in 1..Len(toHost) : ReplyIsTrue(toHost[k]))'
  BY <1>1, <1>7, <1>8, AnswersAreTrue DEF RepliesAreTrue, WireTypes
<1>10. RepliesAreTrue'
  <2>1. acked' <= Len(log') /\ hostDone' <= lastDone'
    <3>1. acked <= Len(log) /\ hostDone <= lastDone /\ hostDone \in Nat /\ lastDone \in Nat
      BY <1>1 DEF RepliesAreTrue, WireTypes
    <3> QED BY <3>1, <1>2, <1>5
  <2> QED BY <2>1, <1>9 DEF RepliesAreTrue
<1>11. WireTypes'
  BY <1>1, <1>2, <1>3, <1>5, <1>9 DEF WireTypes
<1>12. Lasts
  <2>1. nextId <= nextId' /\ acked <= acked'
    BY <1>1, <1>2 DEF WireTypes
  <2> QED BY <2>1, <1>4, <1>5 DEF Lasts
<1> QED BY <1>3, <1>6, <1>10, <1>11, <1>12 DEF WireInv

\* A reply is one, and a line of the robot's is true in the ways below.
LEMMA ReplyShape ==
  ASSUME NEW kind \in Kinds, NEW n \in Nat, NEW done \in Nat, NEW c \in Senders
  PROVE  /\ Reply(kind, n, done, c) \in ReplySet /\ Reply(kind, n, done, c).kind = kind
         /\ Reply(kind, n, done, c).n = n /\ Reply(kind, n, done, c).done = done
BY DEF Reply, ReplySet

\* One reply, or two.
LEMMA OneOrTwo ==
  ASSUME NEW a \in ReplySet, NEW b \in ReplySet
  PROVE  /\ <<a>> \in Seq(ReplySet) /\ (\A k \in 1..Len(<<a>>) : <<a>>[k] = a)
         /\ <<a, b>> \in Seq(ReplySet) /\ (\A k \in 1..Len(<<a, b>>) : <<a, b>>[k] \in {a, b})
OBVIOUS

\* The line at the front.
LEMMA FrontLine ==
  ASSUME WireInv, toRobot # << >>, NEW line, line = Head(toRobot)
  PROVE  /\ line \in LineSet /\ line = toRobot[1] /\ 1 \in 1..Len(toRobot)
         /\ line.id \in Nat /\ line.by \in Senders /\ line.id < nextId
         /\ line.id = 0 <=> line.verb \in Unsequenced
         /\ line.id # 0 => Len(log) < line.id
         /\ line.id = expectedNext => line.id = Len(log) + 1
<1>1. toRobot \in Seq(LineSet) /\ WireInOrder /\ expectedNext \in Nat \ {0} /\ Len(log) \in Nat
  BY DEF WireInv, WireTypes
<1>2. line \in LineSet /\ line = toRobot[1] /\ 1 \in 1..Len(toRobot)
  BY <1>1, FewerLines
<1>3. line.id \in Nat /\ line.by \in Senders
  BY <1>2 DEF LineSet
<1>4. /\ line.id < nextId /\ (line.id = 0 <=> line.verb \in Unsequenced)
      /\ line.id # 0 => Len(log) < line.id
      /\ expectedNext \in {1, Len(log) + 1}
  BY <1>1, <1>2 DEF WireInOrder
<1> QED BY <1>1, <1>2, <1>3, <1>4

\* Lines behind the first have other ids.
LEMMA OtherIds ==
  ASSUME WireInv, toRobot # << >>, toRobot' = Tail(toRobot), Head(toRobot).id # 0
  PROVE  \A k \in 1..Len(toRobot') :
           /\ toRobot'[k].id # 0 => Head(toRobot).id < toRobot'[k].id
           /\ toRobot'[k].id # Head(toRobot).id
<1>1. toRobot \in Seq(LineSet) /\ WireInOrder
  BY DEF WireInv, WireTypes
<1>2. Head(toRobot) = toRobot[1] /\ Head(toRobot).id \in Nat
  BY FrontLine
<1> TAKE k \in 1..Len(toRobot')
<1>3. k + 1 \in 1..Len(toRobot) /\ toRobot'[k] = toRobot[k + 1] /\ 1 \in 1..((k + 1) - 1)
  BY <1>1, FewerLines
<1>4. toRobot[k + 1].id # 0 => toRobot[1].id < toRobot[k + 1].id
  BY <1>1, <1>3 DEF WireInOrder
<1> QED BY <1>2, <1>3, <1>4

\* ESTOP, HELLO, a line out of turn and one that cannot be decoded.
LEMMA RobotAnswers ==
  ASSUME WireInv, toRobot # << >>, toRobot' = Tail(toRobot),
         UNCHANGED <<adapter, linkUp, sessionVars>>, NEW line, line = Head(toRobot),
         TakesEstop(line) \/ TakesHello(line) \/ TakesGap(line) \/ TakesUndecodable(line)
  PROVE  WireInv' /\ Lasts
<1>1. /\ latched \in BOOLEAN /\ expectedNext \in Nat \ {0} /\ lastDone \in Nat /\ active \in Nat
      /\ lastDone <= Len(log) /\ (active # 0 => lastDone < active) /\ (active = 0 => queue = << >>)
      /\ Len(log) \in Nat /\ nextId \in Nat
  BY DEF WireInv, WireTypes, MotionsInOrder
<1>2. Nobody \in Senders
  BY DEF Senders
<1>3. /\ line.id \in Nat /\ line.by \in Senders /\ line.id < nextId
      /\ line.id = 0 <=> line.verb \in Unsequenced
      /\ line.id = expectedNext => line.id = Len(log) + 1
  BY FrontLine
<1>8. "nack" \in Kinds /\ "err" \in Kinds /\ expectedNext \in Nat /\ 0 \in Nat
  BY <1>1 DEF Kinds
<1>4. CASE TakesEstop(line)
  <2> DEFINE a == Reply("estop", 0, 0, Nobody)
  <2>1. a \in ReplySet /\ a.kind = "estop" /\ a.done = 0
    BY <1>2, ReplyShape DEF Kinds
  <2>2. Answer(<<a>>) /\ expectedNext' = expectedNext /\ log' = log
    BY <1>4 DEF TakesEstop
  <2>3. /\ latched' \in BOOLEAN
        /\ \/ UNCHANGED <<active, queue, lastDone>>
           \/ /\ active' = 0 /\ queue' = << >> /\ lastDone' \in {lastDone, active}
              /\ lastDone <= lastDone'
    <3>1. CASE adapter = "sim" /\ active # 0
      BY <1>1, <1>4, <3>1 DEF TakesEstop, EndAllMotion, FinishActive
    <3>2. CASE adapter = "sim" /\ active = 0
      BY <1>1, <1>4, <3>2 DEF TakesEstop, EndAllMotion, FinishActive
    <3>3. CASE adapter # "sim"
      BY <1>4, <3>3 DEF TakesEstop, adapterVars
    <3> QED BY <3>1, <3>2, <3>3
  <2> HIDE DEF a
  <2>4. <<a>> \in Seq(ReplySet) /\ (\A k \in 1..Len(<<a>>) : <<a>>[k] = a)
    BY <2>1, OneOrTwo
  <2>5. \A r \in ReplySet : (\E k \in 1..Len(<<a>>) : <<a>>[k] = r) =>
          /\ r.kind # "ack" /\ r.done \in {0, lastDone}
          /\ r.kind = "err" => ErrOf(r.n)'
    BY <2>1, <2>4
  <2> QED BY <2>2, <2>3, <2>4, <2>5, OnlyAnswers
<1>5. CASE TakesHello(line)
  <2> DEFINE a == Reply("device", 0, 0, Nobody)
  <2>1. a \in ReplySet /\ a.kind = "device" /\ a.done = 0
    BY <1>2, ReplyShape DEF Kinds
  <2>2. /\ Answer(<<a>>) /\ expectedNext' = 1 /\ log' = log /\ latched' = latched
        /\ UNCHANGED <<active, queue, lastDone>>
    BY <1>5 DEF TakesHello, adapterVars
  <2> HIDE DEF a
  <2>4. <<a>> \in Seq(ReplySet) /\ (\A k \in 1..Len(<<a>>) : <<a>>[k] = a)
    BY <2>1, OneOrTwo
  <2>5. \A r \in ReplySet : (\E k \in 1..Len(<<a>>) : <<a>>[k] = r) =>
          /\ r.kind # "ack" /\ r.done \in {0, lastDone}
          /\ r.kind = "err" => ErrOf(r.n)'
    BY <2>1, <2>4
  <2> QED BY <1>1, <2>2, <2>4, <2>5, OnlyAnswers
<1>6. CASE TakesGap(line)
  <2> DEFINE a == Reply("nack", expectedNext, lastDone, line.by)
  <2>1. a \in ReplySet /\ a.kind = "nack" /\ a.done = lastDone
    BY <1>8, <1>1, <1>3, ReplyShape
  <2>2. /\ Answer(<<a>>) /\ expectedNext' = expectedNext /\ log' = log /\ latched' = latched
        /\ UNCHANGED <<active, queue, lastDone>>
    BY <1>6 DEF TakesGap, adapterVars
  <2> HIDE DEF a
  <2>4. <<a>> \in Seq(ReplySet) /\ (\A k \in 1..Len(<<a>>) : <<a>>[k] = a)
    BY <2>1, OneOrTwo
  <2>5. \A r \in ReplySet : (\E k \in 1..Len(<<a>>) : <<a>>[k] = r) =>
          /\ r.kind # "ack" /\ r.done \in {0, lastDone}
          /\ r.kind = "err" => ErrOf(r.n)'
    BY <2>1, <2>4
  <2> QED BY <1>1, <2>2, <2>4, <2>5, OnlyAnswers
<1>7. CASE TakesUndecodable(line)
  <2> DEFINE a == Reply("nack", expectedNext, lastDone, line.by)
             b == Reply("err", line.id, 0, line.by)
  <2>1. /\ a \in ReplySet /\ a.kind = "nack" /\ a.done = lastDone
        /\ b \in ReplySet /\ b.kind = "err" /\ b.done = 0 /\ b.n = line.id
    BY <1>8, <1>1, <1>3, ReplyShape
  <2>2. /\ Answer(<<a, b>>) /\ expectedNext' = expectedNext /\ log' = log /\ latched' = latched
        /\ UNCHANGED <<active, queue, lastDone>> /\ line.id = Len(log) + 1
    BY <1>3, <1>7 DEF TakesUndecodable, adapterVars
  <2>3. ErrOf(line.id)'
    <3>1. \A k \in 1..Len(toRobot') : toRobot'[k].id # Len(log) + 1
      BY <1>1, <1>3, <2>2, OtherIds
    <3>2. nextId' = nextId
      BY DEF sessionVars
    <3> QED BY <1>1, <1>3, <2>2, <3>1, <3>2 DEF ErrOf, NeverExecuted
  <2> HIDE DEF a, b
  <2>4. <<a, b>> \in Seq(ReplySet) /\ (\A k \in 1..Len(<<a, b>>) : <<a, b>>[k] \in {a, b})
    BY <2>1, OneOrTwo
  <2>5. \A r \in ReplySet : (\E k \in 1..Len(<<a, b>>) : <<a, b>>[k] = r) =>
          /\ r.kind # "ack" /\ r.done \in {0, lastDone}
          /\ r.kind = "err" => ErrOf(r.n)'
    BY <2>1, <2>3, <2>4
  <2> QED BY <1>1, <2>2, <2>4, <2>5, OnlyAnswers
<1> QED BY <1>4, <1>5, <1>6, <1>7

\* What a verb writes after its ack.
FollowsAck(line, verdict, more) ==
  /\ more \in Seq(ReplySet)
  /\ \A r \in ReplySet : (\E k \in 1..Len(more) : more[k] = r) =>
       /\ r.kind # "ack" /\ r.done = 0
       /\ r.kind = "err" => r.n = line.id /\ verdict = "rejected"

\* The robot executes the line it expects: its ack comes first, the log gets the
\* entry of its id, and what is said of lines lasts.
LEMMA ExecutesInTurn ==
  ASSUME WireInv, toRobot # << >>, toRobot' = Tail(toRobot),
         UNCHANGED <<adapter, linkUp, sessionVars>>, NEW line, line = Head(toRobot),
         line.id = expectedNext, latched' \in BOOLEAN,
         NEW verdict \in Verdicts, NEW more, FollowsAck(line, verdict, more),
         Executes(line, verdict, more),
         active' \in Nat, queue' \in Seq(Nat), lastDone' \in Nat, lastDone <= lastDone',
         MotionsInOrder', StopEndsAll'
  PROVE  WireInv' /\ Lasts
<1> DEFINE n == line.id
           e == [verb |-> line.verb, by |-> line.by, verdict |-> verdict]
<1>1. WireTypes /\ WireInOrder /\ MotionsInOrder /\ StopEndsAll /\ RepliesAreTrue
  BY DEF WireInv
<1>2. /\ nextId' = nextId /\ acked' = acked /\ hostDone' = hostDone /\ adapter' = adapter
      /\ linkUp' = linkUp
  BY DEF sessionVars
<1>3. /\ log \in Seq(LogSet) /\ Len(log) \in Nat /\ expectedNext \in Nat \ {0}
      /\ nextId \in Nat \ {0} /\ acked \in Nat /\ hostDone \in Nat /\ lastDone \in Nat
      /\ toHost \in Seq(ReplySet) /\ toRobot \in Seq(LineSet) /\ linkUp \in BOOLEAN
  BY <1>1 DEF WireTypes
<1>4. /\ n \in Nat \ {0} /\ n = Len(log) + 1 /\ n < nextId /\ line.by \in Senders
      /\ line \in LineSet /\ line = toRobot[1] /\ 1 \in 1..Len(toRobot)
  BY <1>3, FrontLine
<1>5. e \in LogSet /\ e.verb = line.verb /\ e.by = line.by /\ e.verdict = verdict
  BY <1>4 DEF LineSet, LogSet
<1>6. log' = Append(log, e) /\ expectedNext' = n + 1
  BY DEF Executes
<1>7. /\ log' \in Seq(LogSet) /\ Len(log') = n /\ log'[n] = e
      /\ \A k \in 1..Len(log) : log'[k] = log[k]
  <2> HIDE DEF e, n
  <2>1. /\ Append(log, e) \in Seq(LogSet) /\ Len(Append(log, e)) = Len(log) + 1
        /\ \A k \in 1..Len(log) : Append(log, e)[k] = log[k]
        /\ Append(log, e)[Len(log) + 1] = e
    BY <1>3, <1>5, OneMore
  <2> QED BY <1>4, <1>6, <2>1
<1>8. /\ toRobot' \in Seq(LineSet) /\ Len(toRobot) \in Nat
      /\ \A k \in 1..Len(toRobot') : k + 1 \in 1..Len(toRobot) /\ toRobot'[k] = toRobot[k + 1]
  BY <1>3, FewerLines
<1>9. \A k \in 1..Len(toRobot') : toRobot'[k].id # n /\ (toRobot'[k].id # 0 => n < toRobot'[k].id)
  BY <1>4, OtherIds
<1>10. toRobot[1].id = n
  BY <1>4
<1> HIDE DEF e, n
<1>11. WireInOrder'
  <2>1. ASSUME NEW k \in 1..Len(toRobot')
        PROVE  /\ toRobot'[k].id < nextId'
               /\ toRobot'[k].id = 0 <=> toRobot'[k].verb \in Unsequenced
               /\ toRobot'[k].id # 0 => Len(log') < toRobot'[k].id
               /\ \A j \in 1..(k - 1) : toRobot'[k].id # 0 => toRobot'[j].id < toRobot'[k].id
    <3>1. k + 1 \in 1..Len(toRobot) /\ toRobot'[k] = toRobot[k + 1]
      BY <1>8
    <3>2. \A j \in 1..(k - 1) : j + 1 \in 1..((k + 1) - 1) /\ toRobot'[j] = toRobot[j + 1]
      BY <1>8
    <3> QED BY <1>1, <1>2, <1>7, <1>9, <3>1, <3>2 DEF WireInOrder
  <2> QED BY <2>1, <1>2, <1>3, <1>4, <1>6, <1>7 DEF WireInOrder
<1>12. \A m \in Nat : ErrOf(m) => ErrOf(m)'
  <2> TAKE m \in Nat
  <2> HAVE ErrOf(m)
  <2>1. ~NeverExecuted(m)
    BY <1>4, <1>10 DEF NeverExecuted
  <2>2. m \in 1..Len(log) /\ log[m].verdict = "rejected"
    BY <2>1 DEF ErrOf
  <2>3. m \in 1..Len(log')
    BY <1>3, <1>4, <1>7, <2>2
  <2> QED BY <1>7, <2>2, <2>3 DEF ErrOf
<1>13. \A m \in 1..Len(log') : m \in 1..Len(log) \/ m = n
  BY <1>3, <1>4, <1>7
<1>14. ASSUME NEW m \in Nat, NEW c \in Clients, LineIsOf(c, m)
       PROVE  LineIsOf(c, m)'
  <2>1. m = n => e.by = c
    BY <1>4, <1>5, <1>10, <1>14 DEF LineIsOf
  <2>2. m \in 1..Len(log') => log'[m].by = c
    BY <1>7, <1>13, <1>14, <2>1 DEF LineIsOf
  <2>3. \A k \in 1..Len(toRobot') : toRobot'[k].id = m => toRobot'[k].by = c
    BY <1>8, <1>14 DEF LineIsOf
  <2> QED BY <2>2, <2>3 DEF LineIsOf
<1>15. ASSUME NEW m \in Nat, LineIsStop(m)
       PROVE  LineIsStop(m)'
  <2>1. m = n => e.verb = "STOP"
    BY <1>4, <1>5, <1>10, <1>15 DEF LineIsStop
  <2>2. m \in 1..Len(log') => log'[m].verb = "STOP"
    BY <1>7, <1>13, <1>15, <2>1 DEF LineIsStop
  <2>3. \A k \in 1..Len(toRobot') : toRobot'[k].id = m => toRobot'[k].verb = "STOP"
    BY <1>8, <1>15 DEF LineIsStop
  <2> QED BY <2>2, <2>3 DEF LineIsStop
<1>16. \A r \in ReplySet : ReplyIsTrue(r) => ReplyIsTrue(r)'
  BY <1>3, <1>4, <1>7, <1>12, RepliesLast
<1> DEFINE a == Reply("ack", line.id, lastDone, line.by)
           replies == <<a>> \o more
<1>17. a \in ReplySet /\ a.kind = "ack" /\ a.n = n /\ a.done = lastDone
  <2>1. "ack" \in Kinds /\ line.id \in Nat
    BY <1>4 DEF Kinds, n
  <2> QED BY SMTT(30), <1>3, <1>4, <2>1, ReplyShape DEF n
<1>18. Answer(replies)
  BY DEF Executes
<1> HIDE DEF a
<1>19. <<a>> \in Seq(ReplySet) /\ (\A k \in 1..Len(<<a>>) : <<a>>[k] = a)
  BY <1>17, OneOrTwo
<1>20. /\ replies \in Seq(ReplySet)
       /\ \A k \in 1..Len(replies) : replies[k] = a \/ \E j \in 1..Len(more) : replies[k] = more[j]
  BY <1>19, OneAfterTheOther DEF FollowsAck
<1> HIDE DEF replies
<1>22. verdict = "rejected" => ErrOf(n)'
  BY <1>4, <1>5, <1>7 DEF ErrOf
<1>21. \A j \in 1..Len(more) : more[j] \in ReplySet /\ more[j].kind # "ack" /\ more[j].done = 0
             /\ (more[j].kind = "err" => more[j].n = n /\ verdict = "rejected")
  BY DEF FollowsAck, n
<1>23. \A r \in ReplySet : (\E k \in 1..Len(replies) : replies[k] = r) => ReplyIsTrue(r)'
  <2> TAKE r \in ReplySet
  <2> HAVE \E k \in 1..Len(replies) : replies[k] = r
  <2>1. CASE r = a
    BY <2>1, <1>17, <1>3, <1>7 DEF ReplyIsTrue
  <2>2. CASE \E j \in 1..Len(more) : more[j] = r
    BY SMTT(30), <2>2, <1>3, <1>21, <1>22 DEF ReplyIsTrue
  <2> QED BY <1>20, <2>1, <2>2
<1>24. toHost' \in Seq(ReplySet) /\ (\A k \in 1..Len(toHost) : ReplyIsTrue(toHost[k]))'
  BY <1>1, <1>3, <1>16, <1>18, <1>20, <1>23, AnswersAreTrue DEF RepliesAreTrue
<1>25. RepliesAreTrue'
  <2>1. acked <= Len(log) /\ hostDone <= lastDone
    BY <1>1 DEF RepliesAreTrue
  <2>2. acked' <= Len(log') /\ hostDone' <= lastDone'
    BY <1>2, <1>3, <1>4, <1>7, <2>1
  <2> QED BY <1>24, <2>2 DEF RepliesAreTrue
<1>26. WireTypes'
  <2>1. expectedNext' \in Nat \ {0}
    BY <1>4, <1>6
  <2> QED BY <1>2, <1>3, <1>7, <1>8, <1>24, <2>1 DEF WireTypes
<1>27. Lasts
  <2>1. nextId <= nextId' /\ acked <= acked'
    BY <1>2, <1>3
  <2> QED BY <2>1, <1>12, <1>14, <1>15 DEF Lasts
<1> QED BY <1>11, <1>25, <1>26, <1>27 DEF WireInv

\* An entry more of the log that is no STOP leaves the motions in order; a motion
\* that is accepted comes after all there are; and a STOP ends them.
LEMMA MotionsKept ==
  ASSUME WireInv, UNCHANGED adapter, NEW n, n = Len(log) + 1, Len(log') = n,
         \A k \in 1..Len(log) : log'[k] = log[k],
         \/ log'[n].verb # "STOP" /\ UNCHANGED <<active, queue, lastDone>>
         \/ /\ log'[n].verb # "STOP" /\ adapter = "sim" /\ active = 0
            /\ active' = n /\ UNCHANGED <<queue, lastDone>>
         \/ /\ log'[n].verb # "STOP" /\ active # 0 /\ queue' = Append(queue, n)
            /\ UNCHANGED <<active, lastDone>>
         \/ active' = 0 /\ queue' = << >> /\ lastDone' = IF active # 0 THEN active ELSE lastDone
  PROVE  /\ active' \in Nat /\ queue' \in Seq(Nat) /\ lastDone' \in Nat /\ lastDone <= lastDone'
         /\ MotionsInOrder' /\ StopEndsAll'
<1>1. /\ Len(log) \in Nat /\ n \in Nat /\ active \in Nat /\ queue \in Seq(Nat) /\ lastDone \in Nat
      /\ Len(queue) \in Nat /\ n # 0
  BY DEF WireInv, WireTypes
<1>2. /\ lastDone <= Len(log) /\ active <= Len(log)
      /\ active # 0 => lastDone < active /\ adapter = "sim"
      /\ active = 0 => queue = << >>
      /\ \A k \in 1..Len(queue) :
           /\ queue[k] <= Len(log) /\ active < queue[k] /\ queue[k] \in Nat
           /\ \A j \in 1..(k - 1) : queue[j] < queue[k]
  BY <1>1 DEF WireInv, MotionsInOrder
<1>3. \A k \in 1..Len(log) :
        log[k].verb = "STOP" =>
          /\ active # 0 => k < active
          /\ \A j \in 1..Len(queue) : k < queue[j]
  BY DEF WireInv, StopEndsAll
<1>4. \A k \in 1..Len(log') : k = n \/ k \in 1..Len(log)
  BY <1>1
<1>5. CASE log'[n].verb # "STOP" /\ UNCHANGED <<active, queue, lastDone>>
  <2>1. MotionsInOrder'
    BY <1>1, <1>2, <1>5 DEF MotionsInOrder
  <2>2. StopEndsAll'
    BY <1>1, <1>3, <1>4, <1>5 DEF StopEndsAll
  <2> QED BY <1>1, <1>5, <2>1, <2>2
<1>6. CASE /\ log'[n].verb # "STOP" /\ adapter = "sim" /\ active = 0
           /\ active' = n /\ UNCHANGED <<queue, lastDone>>
  <2>1. Len(queue) = 0
    BY <1>2, <1>6
  <2>2. MotionsInOrder'
    BY <1>1, <1>2, <1>6, <2>1 DEF MotionsInOrder
  <2>3. StopEndsAll'
    BY <1>1, <1>3, <1>4, <1>6, <2>1 DEF StopEndsAll
  <2> QED BY <1>1, <1>6, <2>2, <2>3
<1>7. CASE /\ log'[n].verb # "STOP" /\ active # 0 /\ queue' = Append(queue, n)
           /\ UNCHANGED <<active, lastDone>>
  <2>1. /\ queue' \in Seq(Nat) /\ Len(queue') = Len(queue) + 1
        /\ \A k \in 1..Len(queue) : queue'[k] = queue[k]
        /\ queue'[Len(queue) + 1] = n
    BY <1>1, <1>7, OneMore
  <2>2. \A k \in 1..Len(queue') : k \in 1..Len(queue) \/ k = Len(queue) + 1
    BY <1>1, <2>1
  <2>3. ASSUME NEW k \in 1..Len(queue')
        PROVE  /\ queue'[k] <= n /\ active < queue'[k]
               /\ \A j \in 1..(k - 1) : queue'[j] < queue'[k]
    <3>1. CASE k \in 1..Len(queue)
      <4>1. /\ queue'[k] = queue[k] /\ queue[k] <= Len(log) /\ active < queue[k] /\ queue[k] \in Nat
            /\ \A j \in 1..(k - 1) : queue[j] < queue[k]
        BY <3>1, <1>2, <2>1
      <4>2. \A j \in 1..(k - 1) : queue'[j] = queue[j]
        BY <3>1, <1>1, <2>1
      <4> QED BY <1>1, <4>1, <4>2
    <3>2. CASE k = Len(queue) + 1
      <4>1. queue'[k] = n /\ active < n
        BY <3>2, <1>1, <1>2, <2>1
      <4>2. \A j \in 1..(k - 1) : queue'[j] = queue[j] /\ queue[j] <= Len(log) /\ queue[j] \in Nat
        BY <3>2, <1>1, <1>2, <2>1
      <4>3. \A j \in 1..(k - 1) : queue'[j] < n
        BY SMTT(30), <1>1, <4>2
      <4> QED BY <1>1, <4>1, <4>3
    <3> QED BY <2>2, <3>1, <3>2
  <2>4. MotionsInOrder'
    BY <1>1, <1>2, <1>7, <2>3 DEF MotionsInOrder
  <2>5. ASSUME NEW m \in 1..Len(log'), log'[m].verb = "STOP"
        PROVE  (active' # 0 => m < active') /\ \A k \in 1..Len(queue') : m < queue'[k]
    <3>1. m \in 1..Len(log) /\ log[m].verb = "STOP"
      BY <1>4, <1>7, <2>5
    <3>2. m < active /\ \A j \in 1..Len(queue) : m < queue[j]
      BY <1>3, <1>7, <3>1
    <3>3. m < n
      BY <1>1, <3>1
    <3> QED BY <1>7, <2>1, <2>2, <3>2, <3>3
  <2>6. StopEndsAll'
    BY <2>5 DEF StopEndsAll
  <2> QED BY <1>1, <1>7, <2>1, <2>4, <2>6
<1>8. CASE /\ active' = 0 /\ queue' = << >>
           /\ lastDone' = IF active # 0 THEN active ELSE lastDone
  <2>1. lastDone' \in Nat /\ lastDone <= lastDone' /\ lastDone' <= n
    BY <1>1, <1>2, <1>8
  <2>2. queue' \in Seq(Nat) /\ Len(queue') = 0
    BY <1>8
  <2>3. MotionsInOrder'
    BY <1>1, <1>8, <2>1, <2>2 DEF MotionsInOrder
  <2>4. StopEndsAll'
    BY <1>8, <2>2 DEF StopEndsAll
  <2> QED BY <1>8, <2>1, <2>2, <2>3, <2>4
<1> QED BY <1>5, <1>6, <1>7, <1>8

\* What the robot executes, it executes in turn.
LEMMA RobotExecutes ==
  ASSUME WireInv, toRobot # << >>, toRobot' = Tail(toRobot),
         UNCHANGED <<adapter, linkUp, sessionVars>>, NEW line, line = Head(toRobot),
         TakesNext(line)
  PROVE  WireInv' /\ Lasts
<1> DEFINE n == line.id
           Moved ==
             \/ line.verb # "STOP" /\ UNCHANGED <<active, queue, lastDone>>
             \/ /\ line.verb # "STOP" /\ adapter = "sim" /\ active = 0
                /\ active' = n /\ UNCHANGED <<queue, lastDone>>
             \/ /\ line.verb # "STOP" /\ active # 0 /\ queue' = Append(queue, n)
                /\ UNCHANGED <<active, lastDone>>
             \/ active' = 0 /\ queue' = << >> /\ lastDone' = IF active # 0 THEN active ELSE lastDone
<1>1. /\ n \in Nat /\ n = Len(log) + 1 /\ line.by \in Senders /\ Len(log) \in Nat
      /\ line.id = expectedNext /\ log \in Seq(LogSet) /\ latched \in BOOLEAN
      /\ line.verb \in Whats /\ lastDone \in Nat /\ active \in Nat
      /\ (active # 0 => adapter = "sim") /\ (active = 0 => queue = << >>)
  BY SMTT(30), FrontLine DEF TakesNext, WireInv, WireTypes, LineSet, MotionsInOrder
<1>2. ASSUME NEW verdict \in Verdicts, NEW more, Executes(line, verdict, more),
             FollowsAck(line, verdict, more), Moved, latched' \in BOOLEAN
      PROVE  WireInv' /\ Lasts
  <2> DEFINE e == [verb |-> line.verb, by |-> line.by, verdict |-> verdict]
  <2>1. e \in LogSet /\ e.verb = line.verb
    BY <1>1, <1>2 DEF LogSet
  <2>2. log' = Append(log, e)
    BY <1>2 DEF Executes
  <2> HIDE DEF e
  <2>3. Len(log') = n /\ log'[n] = e /\ \A k \in 1..Len(log) : log'[k] = log[k]
    <3> HIDE DEF n
    <3>1. /\ Len(Append(log, e)) = Len(log) + 1
          /\ \A k \in 1..Len(log) : Append(log, e)[k] = log[k]
          /\ Append(log, e)[Len(log) + 1] = e
      BY <1>1, <2>1, OneMore
    <3> QED BY <1>1, <2>2, <3>1
  <2>4. /\ active' \in Nat /\ queue' \in Seq(Nat) /\ lastDone' \in Nat /\ lastDone <= lastDone'
        /\ MotionsInOrder' /\ StopEndsAll'
    <3> HIDE DEF n
    <3> QED BY <1>1, <1>2, <2>1, <2>3, MotionsKept
  <2> HIDE DEF n, Moved
  <2> QED BY <1>1, <1>2, <2>4, ExecutesInTurn
<1>3. \A verdict \in Verdicts : FollowsAck(line, verdict, << >>)
  BY DEF FollowsAck
<1>4. Err(line) = <<Reply("err", n, 0, line.by)>> /\ FollowsAck(line, "rejected", Err(line))
  <2> DEFINE a == Reply("err", n, 0, line.by)
  <2>1. "err" \in Kinds /\ 0 \in Nat
    BY DEF Kinds
  <2>2. a \in ReplySet /\ a.kind = "err" /\ a.n = line.id /\ a.done = 0
    <3> HIDE DEF n
    <3>1. a \in ReplySet /\ a.kind = "err" /\ a.n = n /\ a.done = 0
      BY <1>1, <2>1, ReplyShape
    <3> QED BY <3>1 DEF n
  <2>3. Err(line) = <<a>>
    BY DEF Err
  <2> HIDE DEF a
  <2>4. FollowsAck(line, "rejected", <<a>>)
    BY <2>2, OneOrTwo DEF FollowsAck
  <2> QED BY <2>3, <2>4 DEF a
<1>5. FollowsAck(line, "ok", <<Reply("get", 0, 0, line.by)>>)
  <2> DEFINE a == Reply("get", 0, 0, line.by)
  <2>1. "get" \in Kinds /\ 0 \in Nat
    BY DEF Kinds
  <2>2. a \in ReplySet /\ a.kind = "get" /\ a.done = 0
    BY <1>1, <2>1, ReplyShape
  <2> HIDE DEF a
  <2>3. FollowsAck(line, "ok", <<a>>)
    BY <2>2, OneOrTwo DEF FollowsAck
  <2> QED BY <2>3 DEF a
<1>6. line.verb # "STOP" /\ UNCHANGED adapterVars => Moved
  BY DEF adapterVars
<1>12. {"runs", "queued", "rejected", "ok", "nothing"} = Verdicts
  BY DEF Verdicts
<1>7. CASE SimMoves(line)
  <2>1. line.verb # "STOP" /\ adapter = "sim" /\ latched' = latched
    BY <1>7 DEF SimMoves, Motions
  <2>2. CASE QueueFull
    <3>1. UNCHANGED adapterVars /\ Executes(line, "rejected", Err(line))
      BY <1>7, <2>2 DEF SimMoves
    <3>2. Moved
      BY <1>6, <2>1, <3>1
    <3> HIDE DEF Moved
    <3> QED BY <1>1, <1>2, <1>4, <1>12, <2>1, <3>1, <3>2
  <2>3. CASE ~QueueFull
    <3>1. AcceptMotion(line.id) /\ Executes(line, IF active = 0 THEN "runs" ELSE "queued", << >>)
      BY <1>7, <2>3 DEF SimMoves
    <3>2. Moved
      BY <2>1, <3>1 DEF AcceptMotion
    <3> HIDE DEF Moved
    <3>3. CASE active = 0
      BY <1>1, <1>2, <1>3, <1>12, <2>1, <3>1, <3>2, <3>3
    <3>4. CASE active # 0
      BY <1>1, <1>2, <1>3, <1>12, <2>1, <3>1, <3>2, <3>4
    <3> QED BY <3>3, <3>4
  <2> QED BY <2>2, <2>3
<1>8. CASE KernelMoves(line)
  <2>1. line.verb # "STOP" /\ latched' = latched /\ UNCHANGED adapterVars
    BY <1>8 DEF KernelMoves, Motions
  <2>2. Executes(line, "runs", << >>) \/ Executes(line, "rejected", Err(line))
    BY <1>8 DEF KernelMoves
  <2>3. Moved
    BY <1>6, <2>1
  <2> HIDE DEF Moved
  <2> QED BY <1>1, <1>2, <1>3, <1>12, <1>4, <2>1, <2>2, <2>3
<1>9. CASE RobotStops(line)
  <2>1. Executes(line, "ok", << >>) /\ latched' = latched
    BY <1>9 DEF RobotStops
  <2>2. Moved
    <3>1. CASE adapter = "sim" /\ active # 0
      BY <3>1, <1>9 DEF RobotStops, EndAllMotion, FinishActive
    <3>2. CASE adapter = "sim" /\ active = 0
      BY <3>2, <1>9 DEF RobotStops, EndAllMotion
    <3>3. CASE adapter # "sim"
      BY <3>3, <1>1, <1>9 DEF RobotStops, adapterVars
    <3> QED BY <3>1, <3>2, <3>3
  <2> HIDE DEF Moved
  <2> QED BY <1>1, <1>2, <1>3, <1>12, <2>1, <2>2
<1>10. CASE RobotConfigures(line)
  <2>1. line.verb # "STOP" /\ latched' = latched /\ UNCHANGED adapterVars
    BY <1>10 DEF RobotConfigures
  <2>2. \/ Executes(line, "ok", <<Reply("get", 0, 0, line.by)>>) \/ Executes(line, "ok", << >>)
        \/ Executes(line, "nothing", << >>) \/ Executes(line, "rejected", Err(line))
    BY <1>10 DEF RobotConfigures
  <2>3. Moved
    BY <1>6, <2>1
  <2> HIDE DEF Moved
  <2> QED BY <1>1, <1>2, <1>3, <1>12, <1>4, <1>5, <2>1, <2>2, <2>3
<1>11. CASE RobotTellsStatus(line)
  <2>1. /\ line.verb # "STOP" /\ latched' = latched /\ UNCHANGED adapterVars
        /\ Executes(line, "ok", << >>)
    BY <1>11 DEF RobotTellsStatus
  <2>2. Moved
    BY <1>6, <2>1
  <2> HIDE DEF Moved
  <2> QED BY <1>1, <1>2, <1>3, <1>12, <2>1, <2>2
<1> HIDE DEF Moved
<1> QED BY <1>7, <1>8, <1>9, <1>10, <1>11 DEF TakesNext

\* Whatever the robot takes.
LEMMA RobotTakesKept ==
  ASSUME WireInv, RobotTakes
  PROVE  WireInv' /\ Lasts
<1>1. /\ toRobot # << >> /\ toRobot' = Tail(toRobot) /\ UNCHANGED <<adapter, linkUp, sessionVars>>
  BY DEF RobotTakes
<1>2. PICK line : /\ line = Head(toRobot)
                  /\ \/ TakesEstop(line) \/ TakesHello(line) \/ TakesGap(line)
                     \/ TakesUndecodable(line) \/ TakesNext(line)
  BY DEF RobotTakes
<1> QED BY <1>1, <1>2, RobotAnswers, RobotExecutes

\* A motion ends by itself, and the next one begins.
LEMMA MotionCompletesKept ==
  ASSUME WireInv, MotionCompletes,
         UNCHANGED <<latched, linkUp, adapter, expectedNext, log, toRobot, toHost, sessionVars>>
  PROVE  WireInv' /\ Lasts
<1>1. WireTypes /\ WireInOrder /\ MotionsInOrder /\ StopEndsAll /\ RepliesAreTrue
  BY DEF WireInv
<1>2. /\ active \in Nat /\ queue \in Seq(Nat) /\ lastDone \in Nat /\ Len(log) \in Nat
      /\ log \in Seq(LogSet)
  BY <1>1 DEF WireTypes
<1>3. /\ nextId' = nextId /\ acked' = acked /\ hostDone' = hostDone
  BY DEF sessionVars
<1>4. active # 0 /\ lastDone' = active
  BY DEF MotionCompletes, FinishActive
<1>5. /\ lastDone < active /\ active <= Len(log) /\ adapter = "sim"
      /\ \A k \in 1..Len(queue) :
           /\ queue[k] <= Len(log) /\ active < queue[k] /\ queue[k] \in Nat
           /\ \A j \in 1..(k - 1) : queue[j] < queue[k]
  BY <1>1, <1>2, <1>4 DEF MotionsInOrder
<1>6. \A k \in 1..Len(log) :
        log[k].verb = "STOP" => k < active /\ \A j \in 1..Len(queue) : k < queue[j]
  BY <1>1, <1>4 DEF StopEndsAll
<1>7. /\ active' \in Nat /\ queue' \in Seq(Nat) /\ MotionsInOrder' /\ StopEndsAll'
  <2>1. CASE queue = << >>
    <3>1. active' = 0 /\ queue' = << >>
      BY <2>1 DEF MotionCompletes
    <3>2. queue' \in Seq(Nat) /\ Len(queue') = 0
      BY <3>1
    <3>3. MotionsInOrder'
      BY <1>2, <1>4, <1>5, <3>1, <3>2 DEF MotionsInOrder
    <3>4. StopEndsAll'
      BY <3>1, <3>2 DEF StopEndsAll
    <3> QED BY <3>1, <3>2, <3>3, <3>4
  <2>2. CASE queue # << >>
    <3>1. active' = Head(queue) /\ queue' = Tail(queue)
      BY <2>2 DEF MotionCompletes
    <3>2. /\ queue' \in Seq(Nat) /\ active' = queue[1] /\ 1 \in 1..Len(queue)
          /\ \A k \in 1..Len(queue') : k + 1 \in 1..Len(queue) /\ queue'[k] = queue[k + 1]
      BY <1>2, <2>2, <3>1, FewerLines
    <3>3. active < active' /\ active' \in Nat /\ active' <= Len(log) /\ active' # 0
      BY <1>2, <1>5, <3>2
    <3>4. ASSUME NEW k \in 1..Len(queue')
          PROVE  /\ queue'[k] <= Len(log) /\ active' < queue'[k]
                 /\ \A j \in 1..(k - 1) : queue'[j] < queue'[k]
      <4>1. k + 1 \in 1..Len(queue) /\ queue'[k] = queue[k + 1] /\ 1 \in 1..((k + 1) - 1)
        BY <3>2
      <4>2. \A j \in 1..(k - 1) : j + 1 \in 1..((k + 1) - 1) /\ queue'[j] = queue[j + 1]
        BY <3>2
      <4> QED BY <1>5, <3>2, <4>1, <4>2
    <3>5. MotionsInOrder'
      BY <1>2, <1>4, <1>5, <3>3, <3>4 DEF MotionsInOrder
    <3>6. StopEndsAll'
      BY <1>6, <3>2 DEF StopEndsAll
    <3> QED BY <3>2, <3>3, <3>5, <3>6
  <2> QED BY <2>1, <2>2
<1>8. WireInOrder'
  BY <1>1, <1>3 DEF WireInOrder
<1>9. \A n \in Nat : ErrOf(n)' <=> ErrOf(n)
  BY <1>3 DEF ErrOf, NeverExecuted
<1>10. RepliesAreTrue'
  <2>1. /\ acked <= Len(log) /\ hostDone <= lastDone /\ hostDone \in Nat
        /\ toHost \in Seq(ReplySet) /\ \A k \in 1..Len(toHost) : ReplyIsTrue(toHost[k])
    BY <1>1 DEF RepliesAreTrue, WireTypes
  <2>2. \A r \in ReplySet : ReplyIsTrue(r) => ReplyIsTrue(r)'
    BY <1>2, <1>4, <1>5, <1>9 DEF ReplyIsTrue, ReplySet
  <2>3. (\A k \in 1..Len(toHost) : ReplyIsTrue(toHost[k]))'
    <3>1. \A k \in 1..Len(toHost) : toHost[k] \in ReplySet
      BY <2>1
    <3>2. \A k \in 1..Len(toHost) : \A r \in ReplySet : r = toHost[k] => ReplyIsTrue(r)'
      BY <2>1, <2>2
    <3> QED BY <3>1, <3>2 DEF ReplyIsTrue
  <2>4. hostDone' <= lastDone' /\ acked' <= Len(log')
    BY <1>2, <1>3, <1>4, <1>5, <2>1
  <2> QED BY <2>3, <2>4 DEF RepliesAreTrue
<1>11. WireTypes'
  BY <1>1, <1>2, <1>3, <1>4, <1>7 DEF WireTypes
<1>12. Lasts
  <2>1. nextId <= nextId' /\ acked <= acked' /\ lastDone <= lastDone'
    BY <1>1, <1>2, <1>3, <1>4, <1>5 DEF WireTypes
  <2> QED BY <2>1, <1>9 DEF Lasts, LineIsOf, LineIsStop
<1> QED BY <1>7, <1>8, <1>10, <1>11, <1>12 DEF WireInv

\* The connection is lost, and with it all that is under way.
LEMMA LinkClosesKept ==
  ASSUME WireInv, LinkCloses
  PROVE  WireInv' /\ Lasts
<1>1. WireTypes /\ WireInOrder /\ MotionsInOrder /\ StopEndsAll /\ RepliesAreTrue
  BY DEF WireInv
<1>2. /\ nextId' = nextId /\ acked' = acked /\ hostDone' = hostDone /\ log' = log
      /\ adapter' = adapter /\ latched' = latched /\ expectedNext' = expectedNext
      /\ UNCHANGED <<active, queue, lastDone>> /\ linkUp' = FALSE
      /\ toRobot' = << >> /\ toHost' = << >>
  BY DEF LinkCloses, robotVars, sessionVars, adapterVars
<1>3. Len(toRobot') = 0 /\ Len(toHost') = 0 /\ toRobot' \in Seq(LineSet) /\ toHost' \in Seq(ReplySet)
  BY <1>2
<1>4. WireInOrder'
  BY <1>1, <1>2, <1>3 DEF WireInOrder
<1>5. MotionsInOrder' /\ StopEndsAll'
  BY <1>1, <1>2 DEF MotionsInOrder, StopEndsAll
<1>6. RepliesAreTrue'
  BY <1>1, <1>2, <1>3 DEF RepliesAreTrue
<1>7. WireTypes'
  BY <1>1, <1>2, <1>3 DEF WireTypes
<1>8. nextId <= nextId' /\ acked <= acked' /\ lastDone <= lastDone' /\ nextId' \in Nat
  BY <1>1, <1>2 DEF WireTypes
<1>9. Lasts
  BY <1>2, <1>3, <1>8, LinesLast DEF Lasts
<1> QED BY <1>4, <1>5, <1>6, <1>7, <1>9 DEF WireInv

\* A line more on its way: with the next id, or without one.
LEMMA LineSentKept ==
  ASSUME WireInv, NEW verb \in Whats, NEW n \in Nat, NEW c \in Senders,
         toRobot' = Append(toRobot, Line(verb, n, c)),
         \/ n = nextId /\ verb \notin Unsequenced /\ nextId' = nextId + 1
         \/ n = 0 /\ verb \in Unsequenced /\ nextId' = nextId,
         UNCHANGED <<latched, linkUp, adapter, expectedNext, log, active, queue, lastDone, toHost,
                     acked, hostDone>>
  PROVE  WireInv' /\ Lasts
<1> DEFINE e == Line(verb, n, c)
<1>1. WireTypes /\ WireInOrder /\ MotionsInOrder /\ StopEndsAll /\ RepliesAreTrue
  BY DEF WireInv
<1>2. e \in LineSet /\ e.id = n /\ e.verb = verb
  BY DEF Line, LineSet
<1>3. toRobot \in Seq(LineSet) /\ nextId \in Nat \ {0} /\ Len(log) \in Nat
  BY <1>1 DEF WireTypes
<1>4. toRobot' = Append(toRobot, e)
  OBVIOUS
<1> HIDE DEF e
<1>5. /\ toRobot' \in Seq(LineSet) /\ Len(toRobot') = Len(toRobot) + 1 /\ Len(toRobot) \in Nat
      /\ \A k \in 1..Len(toRobot) : toRobot'[k] = toRobot[k]
      /\ toRobot'[Len(toRobot) + 1] = e
  BY <1>2, <1>3, <1>4, OneMore
<1>6. \A k \in 1..Len(toRobot') : k \in 1..Len(toRobot) \/ k = Len(toRobot) + 1
  BY <1>5
<1>7. nextId' \in Nat \ {0} /\ nextId <= nextId' /\ n < nextId' /\ n \in {0, nextId}
  BY <1>3
<1>8. WireInOrder'
  <2>1. /\ Len(log) < nextId /\ expectedNext \in {1, Len(log) + 1}
        /\ \A k \in 1..Len(toRobot) :
             /\ toRobot[k].id < nextId /\ toRobot[k].id \in Nat
             /\ toRobot[k].id = 0 <=> toRobot[k].verb \in Unsequenced
             /\ toRobot[k].id # 0 => Len(log) < toRobot[k].id
             /\ \A j \in 1..(k - 1) : toRobot[k].id # 0 => toRobot[j].id < toRobot[k].id
    <3>1. \A k \in 1..Len(toRobot) : toRobot[k].id \in Nat
      <4>1. \A k \in 1..Len(toRobot) : toRobot[k] \in LineSet
        BY <1>3
      <4> QED BY <4>1 DEF LineSet
    <3> QED BY <1>1, <3>1 DEF WireInOrder
  <2>2. ASSUME NEW k \in 1..Len(toRobot')
        PROVE  /\ toRobot'[k].id < nextId'
               /\ toRobot'[k].id = 0 <=> toRobot'[k].verb \in Unsequenced
               /\ toRobot'[k].id # 0 => Len(log) < toRobot'[k].id
               /\ \A j \in 1..(k - 1) : toRobot'[k].id # 0 => toRobot'[j].id < toRobot'[k].id
    <3>1. CASE k \in 1..Len(toRobot)
      <4>1. \A j \in 1..(k - 1) : toRobot'[j] = toRobot[j]
        BY <3>1, <1>5
      <4> QED BY <3>1, <4>1, <1>3, <1>5, <1>7, <2>1
    <3>2. CASE k = Len(toRobot) + 1
      <4>1. \A j \in 1..(k - 1) : toRobot'[j] = toRobot[j] /\ toRobot[j].id < nextId
        BY <3>2, <1>5, <2>1
      <4>2. toRobot'[k] = e
        BY <3>2, <1>5
      <4> QED BY <4>1, <4>2, <1>2, <1>3, <1>7, <2>1
    <3> QED BY <1>6, <3>1, <3>2
  <2>3. Len(log) < nextId'
    BY <1>3, <1>7, <2>1
  <2> QED BY <2>1, <2>2, <2>3 DEF WireInOrder
<1>9. /\ \A m \in Nat : ErrOf(m) => ErrOf(m)'
      /\ \A m \in Nat : m # 0 /\ m < nextId =>
           /\ \A d \in Clients : LineIsOf(d, m) => LineIsOf(d, m)'
           /\ LineIsStop(m) => LineIsStop(m)'
  <2>1. \A k \in 1..Len(toRobot') :
          \/ \E j \in 1..Len(toRobot) : toRobot'[k] = toRobot[j]
          \/ toRobot'[k].id \in {0, nextId}
    BY <1>2, <1>5, <1>6, <1>7
  <2> QED BY <1>7, <2>1, LinesLast
<1>10. lastDone \in Nat /\ acked \in Nat
  BY <1>1 DEF WireTypes
<1>11. RepliesAreTrue'
  <2>1. \A r \in ReplySet : ReplyIsTrue(r) => ReplyIsTrue(r)'
    BY <1>3, <1>9, <1>10, RepliesLast
  <2>2. toHost \in Seq(ReplySet) /\ \A k \in 1..Len(toHost) : ReplyIsTrue(toHost[k])
    BY <1>1 DEF RepliesAreTrue, WireTypes
  <2>3. (\A k \in 1..Len(toHost) : ReplyIsTrue(toHost[k]))'
    <3>1. \A k \in 1..Len(toHost) : toHost[k] \in ReplySet
      BY <2>2
    <3>2. \A k \in 1..Len(toHost) : \A r \in ReplySet : r = toHost[k] => ReplyIsTrue(r)'
      BY <2>1, <2>2
    <3> QED BY <3>1, <3>2 DEF ReplyIsTrue
  <2> QED BY <1>1, <2>3 DEF RepliesAreTrue
<1>12. MotionsInOrder' /\ StopEndsAll' /\ WireTypes'
  BY <1>1, <1>5, <1>7 DEF MotionsInOrder, StopEndsAll, WireTypes
<1>13. Lasts
  BY <1>7, <1>9, <1>10 DEF Lasts
<1> QED BY <1>8, <1>11, <1>12, <1>13 DEF WireInv

\* What is left of the replies when the first k are read.
LEMMA RepliesLeft ==
  ASSUME NEW s \in Seq(ReplySet), NEW k \in 0..Len(s)
  PROVE  /\ SubSeq(s, k + 1, Len(s)) \in Seq(ReplySet)
         /\ Len(SubSeq(s, k + 1, Len(s))) = Len(s) - k
         /\ \A j \in 1..(Len(s) - k) : k + j \in 1..Len(s) /\ SubSeq(s, k + 1, Len(s))[j] = s[k + j]
<1>1. Len(s) \in Nat /\ k \in Nat /\ k <= Len(s)
  BY LenProperties
<1> DEFINE m == k + 1  n == Len(s)
<1>2. \A j \in m..n : s[j] \in ReplySet
  BY <1>1
<1>3. m \in Int /\ n \in Int
  BY <1>1
<1> DEFINE size == IF m <= n THEN n - m + 1 ELSE 0
<1>4. size = Len(s) - k
  BY <1>1
<1> HIDE DEF m, n
<1>5. /\ SubSeq(s, m, n) \in Seq(ReplySet) /\ Len(SubSeq(s, m, n)) = size
      /\ \A i \in 1..size : SubSeq(s, m, n)[i] = s[m + i - 1]
  BY <1>2, <1>3
<1>6. \A j \in 1..(Len(s) - k) : k + j \in 1..Len(s) /\ m + j - 1 = k + j
  BY <1>1 DEF m
<1> QED BY <1>4, <1>5, <1>6 DEF m, n

\* The Session believes what it reads, and what it reads is true.
LEMMA ConsumeKept ==
  ASSUME WireInv, NEW k \in 0..Len(toHost), Consume(k),
         UNCHANGED <<latched, linkUp, adapter, expectedNext, log, active, queue, lastDone>>
  PROVE  /\ WireInv' /\ Lasts
         /\ \A c \in Clients : Noticed(k, c) \subseteq Kinds /\ ("err" \in Noticed(k, c) => ErrOf(id[c]))
<1>1. WireTypes /\ WireInOrder /\ MotionsInOrder /\ StopEndsAll /\ RepliesAreTrue
  BY DEF WireInv
<1>2. /\ toHost \in Seq(ReplySet) /\ Len(toHost) \in Nat /\ acked \in Nat /\ hostDone \in Nat
      /\ Len(log) \in Nat /\ lastDone \in Nat /\ nextId \in Nat
      /\ acked <= Len(log) /\ hostDone <= lastDone
      /\ \A i \in 1..Len(toHost) : ReplyIsTrue(toHost[i])
  BY <1>1 DEF WireTypes, RepliesAreTrue
<1>3. nextId' = nextId /\ toRobot' = toRobot /\ toHost' = SubSeq(toHost, k + 1, Len(toHost)) /\ Handles(k)
  BY DEF Consume
<1>4. \A i \in 1..k : i \in 1..Len(toHost)
  BY <1>2
<1>5. \A i \in 1..Len(toHost) : toHost[i].n \in Nat /\ toHost[i].done \in Nat /\ toHost[i].kind \in Kinds
  <2>1. \A i \in 1..Len(toHost) : toHost[i] \in ReplySet
    BY <1>2
  <2> QED BY <2>1 DEF ReplySet
<1>6. acked' \in Nat /\ acked' <= Len(log) /\ acked <= acked'
  <2> DEFINE acks == {toHost[i].n : i \in {j \in 1..k : toHost[j].kind = "ack"}}
  <2>1. acked' \in {acked} \cup acks /\ \A n \in {acked} \cup acks : n <= acked'
    BY <1>3 DEF Handles
  <2>2. \A n \in acks : n \in Nat /\ n <= Len(log)
    BY <1>2, <1>4, <1>5 DEF ReplyIsTrue
  <2> HIDE DEF acks
  <2> QED BY <1>2, <2>1, <2>2
<1>7. hostDone' \in Nat /\ hostDone' <= lastDone
  <2>1. hostDone' = hostDone \/ \E i \in 1..k : hostDone' = toHost[i].done
    BY <1>3 DEF Handles
  <2> QED BY <1>2, <1>4, <1>5, <2>1 DEF ReplyIsTrue
<1>8. /\ toHost' \in Seq(ReplySet) /\ Len(toHost') = Len(toHost) - k
      /\ \A j \in 1..(Len(toHost) - k) : k + j \in 1..Len(toHost) /\ toHost'[j] = toHost[k + j]
  BY <1>2, <1>3, RepliesLeft
<1>9. \A n \in Nat : ErrOf(n)' <=> ErrOf(n)
  BY <1>3 DEF ErrOf, NeverExecuted
<1>10. RepliesAreTrue'
  <2>1. ASSUME NEW j \in 1..Len(toHost')
        PROVE  /\ toHost'[j].kind = "ack" => toHost'[j].n <= Len(log)
               /\ toHost'[j].kind = "err" => ErrOf(toHost'[j].n)
               /\ toHost'[j].done <= lastDone /\ toHost'[j].n \in Nat
    BY <1>2, <1>5, <1>8 DEF ReplyIsTrue
  <2>2. (\A j \in 1..Len(toHost) : ReplyIsTrue(toHost[j]))'
    <3>1. \A j \in 1..Len(toHost') : \A n \in Nat :
            toHost'[j].n = n /\ toHost'[j].kind = "err" => ErrOf(n)'
      BY <1>9, <2>1
    <3> QED BY <2>1, <3>1 DEF ReplyIsTrue
  <2> QED BY <1>6, <1>7, <2>2 DEF RepliesAreTrue
<1>11. MotionsInOrder' /\ StopEndsAll' /\ WireInOrder' /\ WireTypes'
  BY <1>1, <1>3, <1>6, <1>7, <1>8 DEF MotionsInOrder, StopEndsAll, WireInOrder, WireTypes
<1>12. Lasts
  BY <1>2, <1>3, <1>6, <1>9 DEF Lasts, LineIsOf, LineIsStop
<1>13. ASSUME NEW c \in Clients
       PROVE  Noticed(k, c) \subseteq Kinds /\ ("err" \in Noticed(k, c) => ErrOf(id[c]))
  <2>1. Noticed(k, c) \subseteq Kinds
    BY <1>4, <1>5 DEF Noticed
  <2>2. ASSUME "err" \in Noticed(k, c) PROVE ErrOf(id[c])
    <3>1. PICK i \in 1..k : toHost[i].kind = "err" /\ toHost[i].n = id[c]
      BY <2>2 DEF Noticed
    <3>2. ReplyIsTrue(toHost[i])
      BY <1>2, <1>4
    <3> QED BY <3>1, <3>2 DEF ReplyIsTrue
  <2> QED BY <2>1, <2>2
<1> QED BY <1>10, <1>11, <1>12, <1>13 DEF WireInv

(***************************************************************************)
(* A client                                                                *)
(***************************************************************************)

\* t is what is left of s without its first m steps.
Rest(t, s, m) ==
  /\ t \in Seq(Steps) /\ m \in Nat /\ Len(t) + m = Len(s)
  /\ \A k \in 1..Len(t) : t[k] = s[k + m]

\* The rest of a script is one, and judges and stops no more than it did.
LEMMA RestRuns ==
  ASSUME NEW s \in Seq(Steps), ScriptOK(s), NEW t, NEW m, Rest(t, s, m)
  PROVE  /\ ScriptOK(t)
         /\ (Judges(t) => Judges(s)) /\ (Stops(t) => Stops(s) /\ Judges(t))
         /\ (NoSendLeft(s) => NoSendLeft(t))
         /\ ((\A k \in 1..m : ~Sending(s[k])) /\ NoSendLeft(t) => NoSendLeft(s))
         /\ ((\A k \in 1..m : ~AckStep(s[k])) /\ NoAckLeft(t) => NoAckLeft(s))
<1>1. t \in Seq(Steps) /\ m \in Nat /\ Len(t) \in Nat /\ Len(s) \in Nat /\ Len(t) + m = Len(s)
  BY LenProperties DEF Rest
<1>2. \A k \in 1..Len(t) : k + m \in 1..Len(s) /\ t[k] = s[k + m] /\ Len(t) - k = Len(s) - (k + m)
  BY <1>1 DEF Rest
<1>3. \A k \in 1..Len(s) : k \in 1..m \/ (k - m \in 1..Len(t) /\ t[k - m] = s[k])
  <2> TAKE k \in 1..Len(s)
  <2>1. k \in 1..m \/ (k - m \in 1..Len(t) /\ (k - m) + m = k)
    BY <1>1
  <2> QED BY <1>2, <2>1
<1>4. \A k \in 1..Len(t) : \A j \in After(t, k) : j \in 1..Len(t) /\ j + m \in After(s, k + m)
  BY <1>1 DEF After
<1>5. \A k \in 1..Len(t) : \A j \in After(s, k + m) : j - m \in After(t, k) /\ t[j - m] = s[j]
  <2> TAKE k \in 1..Len(t)
  <2> TAKE j \in After(s, k + m)
  <2>1. j - m \in After(t, k) /\ j - m \in 1..Len(t) /\ (j - m) + m = j
    BY <1>1 DEF After
  <2> QED BY <1>2, <2>1
<1>6. Judges(t) => Judges(s)
  BY <1>2 DEF Judges
<1>7. Stops(t) => Stops(s) /\ Judges(t)
  BY <1>2 DEF Stops, Judges, Succeeds, SuccessReports
<1>8. \A k \in 1..Len(t) : StepOK(t[k], Len(t) - k)
  BY <1>2 DEF ScriptOK
<1>9. LooksLast(t)
  BY <1>2, <1>4 DEF ScriptOK, LooksLast
<1>10. Judges(t) => JudgesInTurn(t)
  <2> HAVE Judges(t)
  <2>1. JudgesInTurn(s)
    BY <1>6 DEF ScriptOK
  <2> SUFFICES ASSUME NEW k \in 1..Len(t)
               PROVE  /\ t[k].do # "ask" /\ t[k].yes # "skip" /\ t[k].no # "skip"
                      /\ AckStep(t[k]) => t[k].no = "unacked"
                      /\ Sending(t[k]) => \E j \in After(t, k) : AckStep(t[j])
                      /\ AckStep(t[k]) \/ Succeeds(t[k]) => \A j \in After(t, k) : ~Sending(t[j])
                      /\ Succeeds(t[k]) /\ ~AckStep(t[k]) => \A j \in After(t, k) : ~AckStep(t[j])
    BY DEF JudgesInTurn
  <2>2. k + m \in 1..Len(s) /\ t[k] = s[k + m]
    BY <1>2
  <2>3. t[k].do # "ask" /\ t[k].yes # "skip" /\ t[k].no # "skip" /\ (AckStep(t[k]) => t[k].no = "unacked")
    BY <2>1, <2>2 DEF JudgesInTurn
  <2>4. ASSUME Sending(t[k]) PROVE \E j \in After(t, k) : AckStep(t[j])
    <3>1. PICK j \in After(s, k + m) : AckStep(s[j])
      BY <2>1, <2>2, <2>4 DEF JudgesInTurn
    <3> QED BY <1>5, <3>1
  <2>5. \A j \in After(t, k) : t[j] = s[j + m] /\ j + m \in After(s, k + m)
    BY <1>2, <1>4
  <2>6. AckStep(t[k]) \/ Succeeds(t[k]) => \A j \in After(t, k) : ~Sending(t[j])
    BY <2>1, <2>2, <2>5 DEF JudgesInTurn
  <2>7. Succeeds(t[k]) /\ ~AckStep(t[k]) => \A j \in After(t, k) : ~AckStep(t[j])
    BY <2>1, <2>2, <2>5 DEF JudgesInTurn
  <2> QED BY <2>3, <2>4, <2>6, <2>7
<1>11. Stops(t) => StopsLast(t)
  <2> HAVE Stops(t)
  <2>1. StopsLast(s)
    BY <1>7 DEF ScriptOK
  <2> SUFFICES ASSUME NEW k \in 1..Len(t), Sending(t[k]),
                      ~(t[k].do = "send" /\ t[k].what = "STOP")
               PROVE  \E j \in After(t, k) : Sending(t[j])
    BY DEF StopsLast
  <2>2. PICK j \in After(s, k + m) : Sending(s[j])
    BY <1>2, <2>1 DEF StopsLast
  <2> QED BY <1>5, <2>2
<1>12. NoSendLeft(s) => NoSendLeft(t)
  BY <1>2 DEF NoSendLeft
<1>13. (\A k \in 1..m : ~Sending(s[k])) /\ NoSendLeft(t) => NoSendLeft(s)
  BY <1>3 DEF NoSendLeft
<1>14. (\A k \in 1..m : ~AckStep(s[k])) /\ NoAckLeft(t) => NoAckLeft(s)
  BY <1>3 DEF NoAckLeft
<1> QED BY <1>6, <1>7, <1>8, <1>9, <1>10, <1>11, <1>12, <1>13, <1>14 DEF ScriptOK

\* Without its first step, without its first two, or but for its last.
LEMMA Rests ==
  ASSUME NEW s \in Seq(Steps), s # << >>
  PROVE  /\ Rest(Tail(s), s, 1) /\ Rest(s, s, 0) /\ Rest(<<Last(s)>>, s, Len(s) - 1)
         /\ Len(s) >= 2 => Rest(Tail(Tail(s)), s, 2) /\ Len(Tail(Tail(s))) = Len(s) - 2
<1>1. /\ Len(s) \in Nat \ {0} /\ Tail(s) \in Seq(Steps) /\ Len(Tail(s)) = Len(s) - 1
      /\ \A k \in 1..Len(Tail(s)) : k + 1 \in 1..Len(s) /\ Tail(s)[k] = s[k + 1]
  BY FewerLines
<1>2. Rest(Tail(s), s, 1) /\ Rest(s, s, 0)
  BY <1>1 DEF Rest
<1>3. Rest(<<Last(s)>>, s, Len(s) - 1)
  <2>1. Last(s) = s[Len(s)] /\ s[Len(s)] \in Steps
    BY <1>1 DEF Last
  <2>2. <<s[Len(s)]>> \in Seq(Steps) /\ Len(<<s[Len(s)]>>) = 1 /\ <<s[Len(s)]>>[1] = s[Len(s)]
    BY <2>1
  <2>3. \A k \in 1..1 : k + (Len(s) - 1) = Len(s) /\ k = 1
    BY <1>1
  <2> QED BY <1>1, <2>1, <2>2, <2>3 DEF Rest
<1>4. ASSUME Len(s) >= 2 PROVE Rest(Tail(Tail(s)), s, 2) /\ Len(Tail(Tail(s))) = Len(s) - 2
  <2> DEFINE t == Tail(s)
  <2>6. t \in Seq(Steps) /\ Len(t) = Len(s) - 1 /\ Len(t) \in Nat /\ Len(t) # 0
    BY <1>1, <1>4
  <2>2. \A k \in 1..Len(t) : t[k] = s[k + 1]
    BY <1>1
  <2> HIDE DEF t
  <2>1. t \in Seq(Steps) /\ t # << >> /\ Len(t) = Len(s) - 1 /\ Len(t) \in Nat
    BY <2>6
  <2>3. /\ Tail(t) \in Seq(Steps) /\ Len(Tail(t)) = Len(t) - 1
        /\ \A k \in 1..Len(Tail(t)) : k + 1 \in 1..Len(t) /\ Tail(t)[k] = t[k + 1]
    BY <2>1, FewerLines
  <2>4. \A k \in 1..Len(Tail(t)) : Tail(t)[k] = s[k + 2]
    <3>1. \A k \in 1..Len(Tail(t)) : (k + 1) + 1 = k + 2
      OBVIOUS
    <3> QED BY <2>2, <2>3, <3>1
  <2>5. Len(Tail(t)) + 2 = Len(s) /\ Len(Tail(t)) = Len(s) - 2
    <3>1. \A a, b, c \in Int : b = a - 1 /\ c = b - 1 => c + 2 = a /\ c = a - 2
      OBVIOUS
    <3>2. Len(s) \in Int /\ Len(t) \in Int /\ Len(Tail(t)) \in Int
      BY <1>1, <2>1, <2>3
    <3>3. Len(t) = Len(s) - 1 /\ Len(Tail(t)) = Len(t) - 1
      BY <2>1, <2>3
    <3> QED BY <3>1, <3>2, <3>3
  <2> QED BY <2>3, <2>4, <2>5 DEF Rest, t
<1> QED BY <1>2, <1>3, <1>4

\* What lasts of the line a client sent last.
LEMMA OwnLineLasts ==
  ASSUME WireInv, WireInv', Lasts, ClientTypes, NEW c \in Clients, ClientShape(c), id'[c] = id[c]
  PROVE  /\ id'[c] < nextId' /\ (id'[c] # 0 => LineIsOf(c, id[c])')
         /\ ErrOf(id[c]) => ErrOf(id[c])'
         /\ id[c] # 0 => id'[c] # 0 /\ (LineIsStop(id[c]) => LineIsStop(id[c])')
         /\ id[c] <= acked => id'[c] <= acked'
         /\ id[c] <= lastDone => id'[c] <= lastDone'
<1>1. PICK n \in Nat : n = id[c]
  BY DEF ClientTypes
<1>2. /\ nextId \in Nat /\ acked \in Nat /\ lastDone \in Nat
      /\ nextId' \in Nat /\ nextId <= nextId' /\ acked' \in Nat /\ lastDone' \in Nat
      /\ acked <= acked' /\ lastDone <= lastDone' /\ n < nextId
  BY <1>1 DEF WireInv, WireTypes, Lasts, ClientShape
<1>3. /\ (ErrOf(n) => ErrOf(n)')
      /\ n # 0 => (LineIsOf(c, n) => LineIsOf(c, n)') /\ (LineIsStop(n) => LineIsStop(n)')
  BY <1>2 DEF Lasts
<1>4. n # 0 => LineIsOf(c, n)
  BY <1>1 DEF ClientShape, LineIsOf
<1>5. n # 0 => LineIsOf(c, id[c])'
  BY <1>1, <1>3, <1>4 DEF LineIsOf
<1>6. ErrOf(id[c]) => ErrOf(id[c])'
  BY <1>1, <1>3 DEF ErrOf, NeverExecuted
<1>7. n # 0 /\ LineIsStop(id[c]) => LineIsStop(id[c])'
  BY <1>1, <1>3 DEF LineIsStop
<1> QED BY <1>1, <1>2, <1>5, <1>6, <1>7

\* A client goes on with its script, having sent nothing, or does nothing at all.
LEMMA GoesOn ==
  ASSUME WireInv, WireInv', Lasts, ClientTypes, NEW c \in Clients, ClientOK(c),
         command'[c] = command[c], report'[c] = report[c], id'[c] = id[c],
         NEW m, Rest(todo'[c], todo[c], m), todo'[c] = << >> => todo[c] = << >>,
         Judges(todo'[c]) => \A k \in 1..m : /\ ~Sending(todo[c][k])
                                             /\ AckStep(todo[c][k]) => id'[c] <= acked',
         seen'[c] # {} => NoSendLeft(todo'[c]),
         "err" \in seen'[c] => ErrOf(id[c])'
  PROVE  ClientOK(c)'
<1> DEFINE s == todo[c]  t == todo'[c]
<1>1. s \in Seq(Steps) /\ ScriptOK(s)
  BY DEF ClientTypes, ClientOK, ClientShape
<1>2. /\ ScriptOK(t) /\ (Judges(t) => Judges(s)) /\ (Stops(t) => Stops(s) /\ Judges(t))
      /\ ((\A k \in 1..m : ~Sending(s[k])) /\ NoSendLeft(t) => NoSendLeft(s))
      /\ ((\A k \in 1..m : ~AckStep(s[k])) /\ NoAckLeft(t) => NoAckLeft(s))
  BY <1>1, RestRuns
<1>3. /\ id'[c] < nextId' /\ (id'[c] # 0 => LineIsOf(c, id[c])')
      /\ ErrOf(id[c]) => ErrOf(id[c])'
      /\ id[c] # 0 => id'[c] # 0 /\ (LineIsStop(id[c]) => LineIsStop(id[c])')
      /\ id[c] <= acked => id'[c] <= acked'
      /\ id[c] <= lastDone => id'[c] <= lastDone'
  BY OwnLineLasts DEF ClientOK
<1>4. t = << >> <=> s = << >>
  <2>1. s = << >> => t = << >>
    <3> SUFFICES ASSUME s = << >> PROVE t = << >>
      OBVIOUS
    <3>1. t \in Seq(Steps) /\ m \in Nat /\ Len(t) + m = 0
      BY DEF Rest
    <3> QED BY <3>1
  <2> QED BY <2>1
<1>5. ClientShape(c)'
  <2>1. Idle(c)' <=> Idle(c)
    BY DEF Idle
  <2>2. /\ (Idle(c) <=> s = << >>) /\ (~Idle(c) => report[c] = "none")
    BY DEF ClientOK, ClientShape
  <2> QED BY <1>2, <1>3, <1>4, <2>1, <2>2 DEF ClientShape
<1>6. ScriptInStep(c)'
  <2>1. /\ Judges(s) /\ NoSendLeft(s) => id[c] # 0 /\ (NoAckLeft(s) => id[c] <= acked)
        /\ Stops(s) /\ NoSendLeft(s) => LineIsStop(id[c])
    BY DEF ClientOK, ScriptInStep
  <2>2. ASSUME Judges(t), NoSendLeft(t) PROVE id'[c] # 0 /\ (NoAckLeft(t) => id'[c] <= acked')
    <3>1. id[c] # 0 /\ (NoAckLeft(s) => id[c] <= acked)
      BY <1>2, <2>1, <2>2
    <3>2. ASSUME NoAckLeft(t) PROVE id'[c] <= acked'
      <4>1. CASE \E k \in 1..m : AckStep(s[k])
        BY <2>2, <4>1
      <4>2. CASE \A k \in 1..m : ~AckStep(s[k])
        BY <1>2, <1>3, <3>1, <3>2, <4>2
      <4> QED BY <4>1, <4>2
    <3> QED BY <1>3, <3>1, <3>2
  <2>3. ASSUME Stops(t), NoSendLeft(t) PROVE LineIsStop(id[c])'
    <3>1. Stops(s) /\ Judges(s) /\ NoSendLeft(s)
      BY <1>2, <2>3
    <3> QED BY <1>3, <2>1, <3>1
  <2> QED BY <2>2, <2>3 DEF ScriptInStep
<1>7. ReportHolds(c)'
  <2>1. ReportHolds(c)
    BY DEF ClientOK
  <2>2. report[c] = "stopped" => report[c] \in SuccessReports
    BY DEF SuccessReports
  <2> QED BY <1>3, <2>1, <2>2 DEF ReportHolds
<1> QED BY <1>5, <1>6, <1>7 DEF ClientOK

\* A command ends, and what it reports holds.
LEMMA CommandEnds ==
  ASSUME WireInv, WireInv', Lasts, ClientTypes, NEW c \in Clients, ClientOK(c),
         command'[c] = "none", todo'[c] = << >>, id'[c] = id[c],
         "err" \in seen'[c] => ErrOf(id[c])',
         report'[c] \in SuccessReports => id[c] # 0 /\ id'[c] <= acked',
         report'[c] \in {"warned", "refused"} => ErrOf(id[c])',
         report'[c] = "done" => id'[c] <= lastDone',
         report'[c] = "stopped" => id[c] # 0 /\ LineIsStop(id[c])
  PROVE  ClientOK(c)'
<1>1. Idle(c)' /\ todo'[c] = << >>
  BY DEF Idle
<1>2. /\ id'[c] < nextId' /\ (id'[c] # 0 => LineIsOf(c, id[c])')
      /\ id[c] # 0 => id'[c] # 0 /\ (LineIsStop(id[c]) => LineIsStop(id[c])')
  BY OwnLineLasts DEF ClientOK
<1> DEFINE t == todo'[c]
<1>3. Len(t) = 0 /\ t = << >>
  BY <1>1
<1>4. ScriptOK(t) /\ ~Judges(t) /\ ~Stops(t) /\ NoSendLeft(t)
  <2> HIDE DEF t
  <2>1. \A k \in 1..Len(t) : FALSE
    BY <1>3
  <2> QED BY <2>1 DEF ScriptOK, Judges, Stops, NoSendLeft, LooksLast
<1>5. ClientShape(c)'
  BY <1>1, <1>2, <1>4 DEF ClientShape
<1>6. ScriptInStep(c)'
  BY <1>4 DEF ScriptInStep
<1>7. ReportHolds(c)'
  BY <1>2 DEF ReportHolds
<1> QED BY <1>5, <1>6, <1>7 DEF ClientOK

\* The first step of a script, and the steps after it.
LEMMA FirstStep ==
  ASSUME ClientTypes, NEW c \in Clients, ClientOK(c), ~Idle(c)
  PROVE  /\ todo[c] \in Seq(Steps) /\ todo[c] # << >> /\ Now(c) = todo[c][1] /\ 1 \in 1..Len(todo[c])
         /\ Now(c) \in Steps /\ StepOK(Now(c), Len(todo[c]) - 1) /\ Len(todo[c]) \in Nat \ {0}
         /\ ScriptOK(todo[c]) /\ report[c] = "none" /\ Rest(Tail(todo[c]), todo[c], 1)
         /\ Len(Tail(todo[c])) = Len(todo[c]) - 1
<1>1. todo[c] \in Seq(Steps) /\ todo[c] # << >> /\ ScriptOK(todo[c]) /\ report[c] = "none"
  BY DEF ClientTypes, ClientOK, ClientShape
<1>2. /\ Now(c) = todo[c][1] /\ 1 \in 1..Len(todo[c]) /\ Now(c) \in Steps /\ Len(todo[c]) \in Nat \ {0}
      /\ Len(Tail(todo[c])) = Len(todo[c]) - 1
  BY <1>1, FewerLines DEF Now
<1>3. StepOK(Now(c), Len(todo[c]) - 1)
  BY <1>1, <1>2 DEF ScriptOK
<1>4. Rest(Tail(todo[c]), todo[c], 1)
  BY <1>1, Rests
<1> QED BY <1>1, <1>2, <1>3, <1>4

\* A client sends a line and goes on: the line is its own, and whatever it judges
\* it first waits for the ack of.
LEMMA SendsAndGoesOn ==
  ASSUME WireInv, WireInv', Lasts, ClientTypes, NEW c \in Clients, ClientOK(c), ~Idle(c),
         Now(c).do \in {"send", "stream"}, Assign(Now(c).what, c), log' = log,
         id'[c] = nextId, todo'[c] = Tail(todo[c]), command'[c] = command[c],
         report'[c] = report[c], seen'[c] = seen[c]
  PROVE  ClientOK(c)'
<1> DEFINE s == todo[c]  t == todo'[c]  n == nextId
<1>1. /\ s \in Seq(Steps) /\ s # << >> /\ Now(c) = s[1] /\ 1 \in 1..Len(s) /\ Len(s) \in Nat
      /\ Now(c) \in Steps /\ StepOK(Now(c), Len(s) - 1) /\ ScriptOK(s) /\ report[c] = "none"
      /\ Rest(t, s, 1) /\ Len(t) = Len(s) - 1
  BY FirstStep
<1>2. Sending(s[1])
  BY <1>1 DEF Sending
<1>3. t # << >>
  <2>1. Len(s) - 1 >= 1
    BY <1>1 DEF StepOK
  <2>2. \A u \in Seq(Steps) : Len(u) >= 1 => u # << >>
    OBVIOUS
  <2>3. t \in Seq(Steps) /\ Len(t) >= 1
    BY <1>1, <2>1 DEF Rest
  <2> QED BY <2>2, <2>3
<1>4. /\ ScriptOK(t) /\ (Judges(t) => Judges(s)) /\ (Stops(t) => Stops(s) /\ Judges(t))
  BY <1>1, RestRuns
<1>5. /\ n \in Nat \ {0} /\ nextId' = n + 1 /\ toRobot \in Seq(LineSet) /\ Len(log) \in Nat
      /\ Len(log) < n /\ \A k \in 1..Len(toRobot) : toRobot[k].id < n /\ toRobot[k].id \in Nat
  <2>1. toRobot \in Seq(LineSet) /\ \A k \in 1..Len(toRobot) : toRobot[k] \in LineSet
    BY SMTT(30) DEF WireInv, WireTypes
  <2>2. \A k \in 1..Len(toRobot) : toRobot[k].id \in Nat
    BY <2>1 DEF LineSet
  <2> QED BY SMTT(30), <2>1, <2>2 DEF WireInv, WireTypes, WireInOrder, Assign
<1>6. /\ toRobot' = Append(toRobot, Line(Now(c).what, n, c))
  BY DEF Assign
<1> DEFINE e == Line(Now(c).what, n, c)
<1>7. e.id = n /\ e.by = c /\ e.verb = Now(c).what /\ e \in LineSet
  BY <1>1, <1>5 DEF Line, LineSet, Steps, Senders
<1> HIDE DEF e
<1>8. \A k \in 1..Len(toRobot') : toRobot'[k] = e \/ \E j \in 1..Len(toRobot) : toRobot'[k] = toRobot[j]
  <2>1. /\ Len(toRobot') = Len(toRobot) + 1 /\ Len(toRobot) \in Nat
        /\ \A k \in 1..Len(toRobot) : toRobot'[k] = toRobot[k]
        /\ toRobot'[Len(toRobot) + 1] = e
    BY <1>5, <1>6, <1>7, OneMore DEF e
  <2>2. \A k \in 1..Len(toRobot') : k \in 1..Len(toRobot) \/ k = Len(toRobot) + 1
    BY <2>1
  <2> QED BY <2>1, <2>2
<1>9. \A k \in 1..Len(toRobot') : toRobot'[k].id = n => toRobot'[k] = e
  BY <1>5, <1>8
<1>10. n \notin 1..Len(log')
  BY <1>5
<1>11. LineIsOf(c, id[c])'
  BY <1>7, <1>9, <1>10 DEF LineIsOf
<1>12. ClientShape(c)'
  <2>1. Idle(c)' <=> Idle(c)
    BY DEF Idle
  <2>2. id'[c] < nextId'
    BY <1>5
  <2> QED BY <1>1, <1>3, <1>4, <1>11, <2>1, <2>2 DEF ClientShape
<1>13. ScriptInStep(c)'
  <2>1. ASSUME Judges(t) PROVE id'[c] # 0 /\ ~NoAckLeft(t)
    <3>1. PICK j \in After(s, 1) : AckStep(s[j])
      BY <1>1, <1>2, <1>4, <2>1 DEF ScriptOK, JudgesInTurn
    <3>2. j - 1 \in 1..Len(t) /\ (j - 1) + 1 = j
      BY <1>1 DEF After
    <3>3. AckStep(t[j - 1])
      BY <1>1, <3>1, <3>2 DEF Rest
    <3> QED BY <1>5, <3>2, <3>3 DEF NoAckLeft
  <2>2. ASSUME Stops(t), NoSendLeft(t) PROVE LineIsStop(id[c])'
    <3>1. ~ \E j \in After(s, 1) : Sending(s[j])
      <4> SUFFICES ASSUME NEW j \in After(s, 1), Sending(s[j]) PROVE FALSE
        OBVIOUS
      <4>1. j - 1 \in 1..Len(t) /\ (j - 1) + 1 = j
        BY <1>1 DEF After
      <4>2. t[j - 1] = s[j]
        BY <1>1, <4>1 DEF Rest
      <4> QED BY <2>2, <4>1, <4>2 DEF NoSendLeft
    <3>2. s[1].what = "STOP"
      BY <1>1, <1>2, <1>4, <2>2, <3>1 DEF ScriptOK, StopsLast
    <3> QED BY <1>1, <1>7, <1>9, <1>10, <3>2 DEF LineIsStop
  <2>3. seen[c] = {}
    BY <1>1, <1>2 DEF ClientOK, ScriptInStep, NoSendLeft
  <2> QED BY <2>1, <2>2, <2>3 DEF ScriptInStep
<1>14. ReportHolds(c)'
  BY <1>1 DEF ReportHolds, SuccessReports
<1> QED BY <1>12, <1>13, <1>14 DEF ClientOK

\* A client begins a script anew, and has looked for nothing yet.
LEMMA Begins ==
  ASSUME WireInv, WireInv', Lasts, ClientTypes, NEW c \in Clients, ClientOK(c),
         Runs(todo'[c]), command'[c] # "none", report'[c] = "none", id'[c] \in {id[c], 0},
         seen'[c] = {}
  PROVE  ClientOK(c)'
<1> DEFINE t == todo'[c]
<1>1. ScriptOK(t) /\ t # << >>
  BY DEF Runs
<1>2. NoSendLeft(t) => ~Judges(t)
  BY DEF Runs
<1>3. Stops(t) => Judges(t)
  BY DEF Stops, Judges, Succeeds, SuccessReports
<1>4. id'[c] < nextId' /\ (id'[c] # 0 => LineIsOf(c, id[c])')
  <2>1. CASE id'[c] = id[c]
    BY <2>1, OwnLineLasts DEF ClientOK
  <2>2. CASE id'[c] = 0
    BY <2>2 DEF WireInv, WireTypes
  <2> QED BY <2>1, <2>2
<1>5. ClientShape(c)'
  BY <1>1, <1>4 DEF ClientShape, Idle
<1>6. ScriptInStep(c)'
  BY <1>2, <1>3 DEF ScriptInStep
<1>7. ReportHolds(c)'
  BY DEF ReportHolds, SuccessReports
<1> QED BY <1>5, <1>6, <1>7 DEF ClientOK

\* One client's script goes on, or its command ends.
Advances(c, o) ==
  /\ todo'[c] = IF o \notin {"go", "skip"} THEN << >>
                ELSE IF o = "go" THEN Tail(todo[c]) ELSE Tail(Tail(todo[c]))
  /\ command'[c] = IF o \notin {"go", "skip"} THEN "none" ELSE command[c]
  /\ report'[c] = IF o \notin {"go", "skip"} THEN o ELSE report[c]

StaysPut(c) == todo'[c] = todo[c] /\ command'[c] = command[c] /\ report'[c] = report[c]

\* Outcomes a step may have: its own, the failure of the call, or of what it computes.
OutcomeOf(s, o) == o \in {s.yes, s.no, "closed", "raised", "outOfRange", "tooFew"}

\* A step that goes on leaves a script.
LEMMA ScriptsLeft ==
  ASSUME ClientTypes, NEW c \in Clients, ClientOK(c), ~Idle(c), NEW o, OutcomeOf(Now(c), o)
  PROVE  /\ o \in Outcomes
         /\ o = "go" => Tail(todo[c]) # << >> /\ Rest(Tail(todo[c]), todo[c], 1)
         /\ o = "skip" => /\ Tail(Tail(todo[c])) # << >>
                          /\ Rest(Tail(Tail(todo[c])), todo[c], 2)
<1> DEFINE s == todo[c]
<1>1. /\ s \in Seq(Steps) /\ s # << >> /\ Len(s) \in Nat \ {0} /\ Now(c) \in Steps
      /\ StepOK(Now(c), Len(s) - 1) /\ Rest(Tail(s), s, 1) /\ Len(Tail(s)) = Len(s) - 1
  BY FirstStep
<1>2. o \in Outcomes
  BY <1>1 DEF OutcomeOf, Steps, Outcomes
<1>3. \A u \in Seq(Steps) : Len(u) >= 1 => u # << >>
  OBVIOUS
<1>4. ASSUME o = "go" PROVE Tail(s) # << >>
  <2>1. Len(s) - 1 >= 1
    BY <1>1, <1>4 DEF StepOK, OutcomeOf
  <2> QED BY <1>1, <1>3, <2>1 DEF Rest
<1>5. ASSUME o = "skip" PROVE Tail(Tail(s)) # << >> /\ Rest(Tail(Tail(s)), s, 2)
  <2>1. Len(s) - 1 >= 2
    BY <1>1, <1>5 DEF StepOK, OutcomeOf
  <2>4. Len(s) >= 2
    BY <1>1, <2>1
  <2>2. Rest(Tail(Tail(s)), s, 2) /\ Len(Tail(Tail(s))) = Len(s) - 2
    BY <1>1, <2>4, Rests
  <2>3. Len(Tail(Tail(s))) >= 1
    BY <1>1, <2>1, <2>2
  <2> QED BY <1>3, <2>2, <2>3 DEF Rest
<1> QED BY <1>1, <1>2, <1>4, <1>5

\* Moves() moves the clients it is told to, and no other.
LEMMA MovesMoves ==
  ASSUME ClientTypes, NEW result, Moves(result), NEW c \in Clients
  PROVE  /\ c \in DOMAIN result => Advances(c, result[c])
         /\ c \notin DOMAIN result => StaysPut(c)
<1> DEFINE ended == {d \in DOMAIN result : result[d] \notin {"go", "skip"}}
<1>1. /\ todo' = [d \in Clients |->
                    IF d \notin DOMAIN result THEN todo[d]
                    ELSE IF d \in ended THEN << >>
                    ELSE IF result[d] = "go" THEN Tail(todo[d]) ELSE Tail(Tail(todo[d]))]
      /\ command' = [d \in Clients |-> IF d \in ended THEN "none" ELSE command[d]]
      /\ report' = [d \in Clients |-> IF d \in ended THEN result[d] ELSE report[d]]
  BY DEF Moves
<1>2. /\ todo'[c] = IF c \notin DOMAIN result THEN todo[c]
                    ELSE IF c \in ended THEN << >>
                    ELSE IF result[c] = "go" THEN Tail(todo[c]) ELSE Tail(Tail(todo[c]))
      /\ command'[c] = IF c \in ended THEN "none" ELSE command[c]
      /\ report'[c] = IF c \in ended THEN result[c] ELSE report[c]
  BY <1>1
<1> QED BY <1>2 DEF Advances, StaysPut

\* And scripts, commands and reports keep their types.
LEMMA MovesTyped ==
  ASSUME ClientTypes, NEW result, Moves(result),
         \A c \in Clients : ClientOK(c),
         \A c \in Clients \cap DOMAIN result : ~Idle(c) /\ OutcomeOf(Now(c), result[c])
  PROVE  /\ command' \in [Clients -> CommandNames \cup ToolNames \cup {"none"}]
         /\ todo' \in [Clients -> Seq(Steps)] /\ report' \in [Clients -> Outcomes]
<1>1. /\ command \in [Clients -> CommandNames \cup ToolNames \cup {"none"}]
      /\ todo \in [Clients -> Seq(Steps)] /\ report \in [Clients -> Outcomes]
  BY DEF ClientTypes
<1>2. ASSUME NEW c \in Clients
      PROVE  /\ command'[c] \in CommandNames \cup ToolNames \cup {"none"}
             /\ todo'[c] \in Seq(Steps) /\ report'[c] \in Outcomes
  <2>1. CASE c \notin DOMAIN result
    BY <1>1, <2>1, MovesMoves DEF StaysPut
  <2>2. CASE c \in DOMAIN result
    <3>1. PICK o : o = result[c]
      OBVIOUS
    <3>2. Advances(c, o) /\ OutcomeOf(Now(c), o) /\ ~Idle(c)
      BY <2>2, <3>1, MovesMoves
    <3>3. /\ o \in Outcomes
          /\ o = "go" => Rest(Tail(todo[c]), todo[c], 1)
          /\ o = "skip" => Rest(Tail(Tail(todo[c])), todo[c], 2)
      BY <3>2, ScriptsLeft
    <3>4. << >> \in Seq(Steps)
      OBVIOUS
    <3>5. todo'[c] \in Seq(Steps)
      BY <3>2, <3>3, <3>4 DEF Advances, Rest
    <3> QED BY <1>1, <3>2, <3>3, <3>5 DEF Advances
  <2> QED BY <2>1, <2>2
<1>3. DOMAIN todo' = Clients /\ DOMAIN command' = Clients /\ DOMAIN report' = Clients
  BY DEF Moves
<1>4. /\ todo' = [d \in Clients |-> todo'[d]] /\ command' = [d \in Clients |-> command'[d]]
      /\ report' = [d \in Clients |-> report'[d]]
  BY DEF Moves
<1> QED BY <1>2, <1>4

\* A client that does a step other than sending: it ends or goes on as the step
\* says, and what it reports it knows.
LEMMA StepDone ==
  ASSUME WireInv, WireInv', Lasts, ClientTypes, NEW c \in Clients, ClientOK(c), ~Idle(c),
         NEW o, Advances(c, o), OutcomeOf(Now(c), o),
         o \in {"go", "skip"} => ~Sending(Now(c)), id'[c] = id[c],
         o = Now(c).yes /\ AckStep(Now(c)) => id'[c] <= acked',
         o \in {"warned", "refused"} => "err" \in seen'[c],
         o = "done" => id[c] <= hostDone,
         "err" \in seen'[c] => ErrOf(id[c])',
         seen'[c] = seen[c] \/ Now(c).do \in {"pumpUntil", "pump", "drain"}
  PROVE  ClientOK(c)'
<1> DEFINE s == todo[c]  t == todo'[c]
<1>1. /\ s \in Seq(Steps) /\ s # << >> /\ Now(c) = s[1] /\ 1 \in 1..Len(s) /\ Len(s) \in Nat \ {0}
      /\ Now(c) \in Steps /\ StepOK(Now(c), Len(s) - 1) /\ ScriptOK(s) /\ report[c] = "none"
  BY FirstStep
<1>2. \A k \in 1..Len(s) : k = 1 \/ k \in After(s, 1)
  BY <1>1 DEF After
<1>3. ~Sending(s[1]) /\ (\A k \in After(s, 1) : ~Sending(s[k])) => NoSendLeft(s)
  BY <1>2 DEF NoSendLeft
<1>4. ~AckStep(s[1]) /\ (\A k \in After(s, 1) : ~AckStep(s[k])) => NoAckLeft(s)
  BY <1>2 DEF NoAckLeft
<1>5. /\ Judges(s) /\ NoSendLeft(s) => id[c] # 0 /\ (NoAckLeft(s) => id[c] <= acked)
      /\ Stops(s) /\ NoSendLeft(s) => LineIsStop(id[c])
      /\ seen[c] # {} => NoSendLeft(s)
  BY DEF ClientOK, ScriptInStep
<1>6. /\ id[c] <= acked => id'[c] <= acked'
      /\ id[c] <= lastDone => id'[c] <= lastDone'
      /\ id[c] \in Nat /\ hostDone \in Nat /\ lastDone \in Nat /\ hostDone <= lastDone
  BY OwnLineLasts DEF ClientOK, ClientTypes, WireInv, WireTypes, RepliesAreTrue
<1>7. CASE o \notin {"go", "skip"}
  <2>1. command'[c] = "none" /\ t = << >> /\ report'[c] = o
    BY <1>7 DEF Advances
  <2>2. ASSUME o \in SuccessReports
        PROVE  NoSendLeft(s) /\ id[c] # 0 /\ id'[c] <= acked'
    <3>1. o \in {Now(c).yes, Now(c).no} /\ Succeeds(Now(c))
      BY <2>2 DEF OutcomeOf, Succeeds, SuccessReports
    <3>2. ~Sending(Now(c))
      BY <1>1, <1>7, <3>1 DEF StepOK, Sending
    <3>3. Judges(s) /\ JudgesInTurn(s)
      BY <1>1, <3>1 DEF Judges, ScriptOK
    <3>4. NoSendLeft(s)
      BY <1>1, <1>3, <3>1, <3>2, <3>3 DEF JudgesInTurn
    <3>5. CASE AckStep(Now(c))
      <4>1. o = Now(c).yes
        BY <1>1, <2>2, <3>1, <3>5 DEF StepOK
      <4> QED BY <1>5, <3>3, <3>4, <3>5, <4>1
    <3>6. CASE ~AckStep(Now(c))
      <4>1. NoAckLeft(s)
        BY <1>1, <1>4, <3>1, <3>3, <3>6 DEF JudgesInTurn
      <4> QED BY <1>5, <1>6, <3>3, <3>4, <4>1
    <3> QED BY <3>5, <3>6
  <2>3. o = "stopped" => id[c] # 0 /\ LineIsStop(id[c])
    <3> HAVE o = "stopped"
    <3>1. o \in SuccessReports /\ Now(c).yes = "stopped"
      BY <1>1 DEF SuccessReports, OutcomeOf, StepOK
    <3>2. Stops(s)
      BY <1>1, <3>1 DEF Stops
    <3> QED BY <1>5, <2>2, <3>1, <3>2
  <2>4. o = "done" => id'[c] <= lastDone'
    BY <1>6
  <2> QED BY <2>1, <2>2, <2>3, <2>4, CommandEnds
<1>8. ASSUME o \in {"go", "skip"}
      PROVE  ClientOK(c)'
  <2>1. PICK m \in 1..2 : Rest(t, s, m) /\ t # << >> /\ (m = 1 => o = "go") /\ (m = 2 => o = "skip")
    <3>1. CASE o = "go"
      BY <3>1, ScriptsLeft DEF Advances
    <3>2. CASE o = "skip"
      BY <3>2, ScriptsLeft DEF Advances
    <3> QED BY <1>8, <3>1, <3>2
  <2>2. /\ (Judges(t) => Judges(s)) /\ (NoSendLeft(s) => NoSendLeft(t))
    BY <1>1, <2>1, RestRuns
  <2>3. ASSUME Judges(t)
        PROVE  \A k \in 1..m : ~Sending(s[k]) /\ (AckStep(s[k]) => id'[c] <= acked')
    <3>1. JudgesInTurn(s)
      BY <1>1, <2>2, <2>3 DEF ScriptOK
    <3>2. m = 1 /\ o = "go"
      BY <1>1, <2>1, <3>1 DEF JudgesInTurn, OutcomeOf
    <3>3. AckStep(s[1]) => o = Now(c).yes
      BY <1>1, <3>1, <3>2 DEF JudgesInTurn, OutcomeOf
    <3>4. \A k \in 1..m : k = 1
      BY <3>2
    <3> QED BY <1>1, <1>8, <3>3, <3>4
  <2>4. seen'[c] # {} => NoSendLeft(t)
    <3>1. CASE seen'[c] = seen[c]
      BY <1>5, <2>2, <3>1
    <3>2. CASE Now(c).do \in {"pumpUntil", "pump", "drain"}
      <4>1. \A k \in After(s, 1) : ~Sending(s[k])
        BY <1>1, <3>2 DEF ScriptOK, LooksLast
      <4>2. ~Sending(s[1])
        BY <1>1, <1>8
      <4> QED BY <1>3, <2>2, <4>1, <4>2
    <3> QED BY <3>1, <3>2
  <2>5. command'[c] = command[c] /\ report'[c] = report[c]
    BY <1>8 DEF Advances
  <2> QED BY <1>8, <2>1, <2>3, <2>4, <2>5, GoesOn
<1> QED BY <1>7, <1>8

(***************************************************************************)
(* Every step keeps the invariant                                          *)
(***************************************************************************)

\* Nothing happens on the wire.
LEMMA WireSame ==
  ASSUME WireInv, UNCHANGED wire
  PROVE  WireInv' /\ Lasts
<1>1. UNCHANGED <<latched, linkUp, adapter, expectedNext, log, active, queue, lastDone, toRobot,
                  toHost, nextId, acked, hostDone>>
  BY DEF wire
<1>2. nextId \in Nat /\ acked \in Nat /\ lastDone \in Nat
  BY DEF WireInv, WireTypes
<1>3. Lasts
  BY <1>1, <1>2 DEF Lasts, ErrOf, NeverExecuted, LineIsOf, LineIsStop
<1>4. WireInOrder' /\ MotionsInOrder' /\ StopEndsAll' /\ WireTypes'
  BY <1>1 DEF WireInv, WireInOrder, MotionsInOrder, StopEndsAll, WireTypes
<1>5. RepliesAreTrue'
  BY <1>1 DEF WireInv, RepliesAreTrue, ReplyIsTrue, ErrOf, NeverExecuted
<1> QED BY <1>3, <1>4, <1>5 DEF WireInv

\* A client that does nothing stays as it should be.
LEMMA ClientStays ==
  ASSUME WireInv, WireInv', Lasts, ClientTypes, NEW c \in Clients, ClientOK(c), StaysPut(c),
         id'[c] = id[c], seen'[c] = seen[c]
  PROVE  ClientOK(c)'
<1>1. todo[c] \in Seq(Steps)
  BY DEF ClientTypes
<1>2. Rest(todo'[c], todo[c], 0)
  BY <1>1 DEF Rest, StaysPut
<1>3. /\ seen[c] # {} => NoSendLeft(todo[c])
      /\ "err" \in seen[c] => ErrOf(id[c])
  BY DEF ClientOK, ScriptInStep
<1>4. "err" \in seen'[c] => ErrOf(id[c])'
  BY <1>3, OwnLineLasts DEF ClientOK
<1>5. \A k \in 1..0 : FALSE
  OBVIOUS
<1>6. seen'[c] # {} => NoSendLeft(todo'[c])
  BY <1>3 DEF StaysPut
<1> QED BY <1>2, <1>4, <1>5, <1>6, GoesOn DEF StaysPut

\* One that only looks at replies.
LEMMA ClientLooks ==
  ASSUME WireInv, WireInv', Lasts, ClientTypes, NEW c \in Clients, ClientOK(c), StaysPut(c),
         ~Idle(c), Now(c).do \in {"pumpUntil", "pump", "drain"},
         id'[c] = id[c], "err" \in seen'[c] => ErrOf(id[c])'
  PROVE  ClientOK(c)'
<1> DEFINE s == todo[c]
<1>1. /\ s \in Seq(Steps) /\ Now(c) = s[1] /\ 1 \in 1..Len(s) /\ ScriptOK(s) /\ Len(s) \in Nat
  BY FirstStep
<1>2. Rest(todo'[c], todo[c], 0)
  BY <1>1 DEF Rest, StaysPut
<1>3. NoSendLeft(s)
  <2>1. \A k \in After(s, 1) : ~Sending(s[k])
    BY <1>1 DEF ScriptOK, LooksLast
  <2>2. ~Sending(s[1])
    BY <1>1 DEF Sending
  <2>3. \A k \in 1..Len(s) : k = 1 \/ k \in After(s, 1)
    BY <1>1 DEF After
  <2> QED BY <2>1, <2>2, <2>3 DEF NoSendLeft
<1>4. \A k \in 1..0 : FALSE
  OBVIOUS
<1>5. NoSendLeft(todo'[c])
  BY <1>3 DEF StaysPut
<1> QED BY <1>2, <1>4, <1>5, GoesOn DEF StaysPut

\* The robot, the link and the worker move no client.
LEMMA NoClientMoves ==
  ASSUME RogoInv, WireInv', Lasts, UNCHANGED <<scriptVars, id, seen, abandoned, samples>>,
         held' \in Senders, HeldWaits'
  PROVE  RogoInv'
<1>1. \A c \in Clients : ClientOK(c)'
  BY ClientStays DEF RogoInv, StaysPut, scriptVars
<1>2. ClientTypes'
  BY DEF RogoInv, ClientTypes, scriptVars
<1> QED BY <1>1, <1>2 DEF RogoInv

\* The worker is where it was.
LEMMA HeldStays ==
  ASSUME RogoInv, held' = held,
         held \in Clients => StaysPut(held) /\ abandoned'[held] = abandoned[held]
  PROVE  HeldWaits' /\ held' \in Senders
BY DEF RogoInv, HeldWaits, ClientTypes, Senders, StaysPut, Idle, Now

\* Or with nobody.
LEMMA HeldByNobody ==
  ASSUME held' = Nobody
  PROVE  HeldWaits' /\ held' \in Senders
BY DEF HeldWaits, Senders

\* What a client does leaves the others as they are.
LEMMA OneClientMoves ==
  ASSUME RogoInv, WireInv', Lasts, NEW c \in Clients, ClientTypes', HeldWaits', ClientOK(c)',
         \A d \in Clients : d # c => StaysPut(d) /\ id'[d] = id[d] /\ seen'[d] = seen[d]
  PROVE  RogoInv'
<1>1. \A d \in Clients : ClientOK(d)'
  BY ClientStays DEF RogoInv
<1> QED BY <1>1 DEF RogoInv

\* What happens without the clients.
LEMMA OutsideKept ==
  ASSUME RogoInv, RobotTakes \/ RobotFinishes \/ LinkCloses \/ HeldPumps \/ HeldPolls
  PROVE  RogoInv'
<1>1. WireInv
  BY DEF RogoInv
<1>2. UNCHANGED <<scriptVars, id, seen, abandoned, samples, held>>
  BY DEF RobotTakes, RobotFinishes, LinkCloses, HeldPumps, HeldPolls, clientVars, fileVars
<1>3. HeldWaits' /\ held' \in Senders
  BY <1>2, HeldStays DEF StaysPut, scriptVars
<1>4. CASE RobotTakes
  BY <1>1, <1>2, <1>3, <1>4, RobotTakesKept, NoClientMoves
<1>5. CASE RobotFinishes
  <2>1. MotionCompletes /\ UNCHANGED <<latched, linkUp, adapter, expectedNext, log, toRobot, toHost, sessionVars>>
    BY <1>5 DEF RobotFinishes, wireVars
  <2> QED BY <1>1, <1>2, <1>3, <2>1, MotionCompletesKept, NoClientMoves
<1>6. CASE LinkCloses
  BY <1>1, <1>2, <1>3, <1>6, LinkClosesKept, NoClientMoves
<1>7. CASE HeldPumps
  <2>1. PICK k \in 0..Len(toHost) : Consume(k)
    BY <1>1, <1>7 DEF HeldPumps
  <2>2. UNCHANGED <<latched, linkUp, adapter, expectedNext, log, active, queue, lastDone>>
    BY <1>7 DEF HeldPumps, robotVars, adapterVars
  <2> QED BY <1>1, <1>2, <1>3, <2>1, <2>2, ConsumeKept, NoClientMoves
<1>8. CASE HeldPolls
  <2>1. /\ toRobot' = Append(toRobot, Line("STATUS", nextId, Nobody)) /\ nextId' = nextId + 1
        /\ UNCHANGED <<latched, linkUp, adapter, expectedNext, log, active, queue, lastDone,
                       toHost, acked, hostDone>>
    BY <1>8 DEF HeldPolls, Assign, robotVars, adapterVars
  <2>2. /\ "STATUS" \in Whats /\ "STATUS" \notin Unsequenced /\ nextId \in Nat /\ Nobody \in Senders
    BY <1>1 DEF Whats, Verbs, Unsequenced, WireInv, WireTypes, Senders
  <2>3. WireInv' /\ Lasts
    BY <1>1, <2>1, <2>2, LineSentKept
  <2> QED BY <1>2, <1>3, <2>3, NoClientMoves
<1> QED BY <1>4, <1>5, <1>6, <1>7, <1>8

\* One client proceeds.
LEMMA Proceeds ==
  ASSUME RogoInv, NEW c \in Clients, ~Idle(c), NEW o, OutcomeOf(Now(c), o), Proceed(c, o)
  PROVE  /\ Advances(c, o) /\ \A d \in Clients : d # c => StaysPut(d)
         /\ command' \in [Clients -> CommandNames \cup ToolNames \cup {"none"}]
         /\ todo' \in [Clients -> Seq(Steps)] /\ report' \in [Clients -> Outcomes]
<1> DEFINE result == [d \in {c} |-> o]
<1>1. DOMAIN result = {c} /\ result[c] = o
  OBVIOUS
<1>2. Moves(result)
  BY DEF Proceed
<1>3. ClientTypes /\ \A d \in Clients : ClientOK(d)
  BY DEF RogoInv
<1> HIDE DEF result
<1>4. \A d \in Clients : (d = c => Advances(c, o)) /\ (d # c => StaysPut(d))
  BY <1>1, <1>2, <1>3, MovesMoves
<1>5. \A d \in Clients \cap DOMAIN result : ~Idle(d) /\ OutcomeOf(Now(d), result[d])
  BY <1>1
<1>6. /\ command' \in [Clients -> CommandNames \cup ToolNames \cup {"none"}]
      /\ todo' \in [Clients -> Seq(Steps)] /\ report' \in [Clients -> Outcomes]
  BY <1>2, <1>3, <1>5, MovesTyped
<1> QED BY <1>4, <1>6

\* An ESTOP is said.
LEMMA EstopIsSaid ==
  ASSUME NEW s \in Steps, NEW after, StepOK(s, after), s.what = "ESTOP"
  PROVE  s.do = "say"
BY DEF StepOK, VerbOK, Unsequenced

\* A client that is served.
LEMMA Serving ==
  ASSUME RogoInv, NEW c \in Clients, NEW do, Serves(c, do)
  PROVE  /\ WireInv /\ ClientTypes /\ ClientOK(c) /\ ~Idle(c) /\ held = Nobody
         /\ Now(c).do = do /\ Now(c) \in Steps /\ StepOK(Now(c), Len(todo[c]) - 1)
         /\ Now(c).what \in Whats
         /\ (abandoned[c] = << >> \/ do = "say")
<1>1. /\ WireInv /\ ClientTypes /\ ClientOK(c) /\ ~Idle(c) /\ held = Nobody
      /\ Now(c).do = do
  BY DEF RogoInv, Serves
<1>2. Now(c) \in Steps /\ StepOK(Now(c), Len(todo[c]) - 1)
  BY <1>1, FirstStep
<1>3. Now(c).what \in Whats
  BY <1>2 DEF Steps
<1>4. abandoned[c] = << >> \/ do = "say"
  BY <1>1, <1>2, EstopIsSaid DEF Serves, InTurn
<1> QED BY <1>1, <1>2, <1>3, <1>4

\* A line is sent.
LEMMA SendKept ==
  ASSUME RogoInv, NEW c \in Clients, DoesSend(c) \/ DoesStream(c)
  PROVE  RogoInv'
<1>1. PICK do \in {"send", "stream"} : Serves(c, do)
  BY DEF DoesSend, DoesStream
<1>2. /\ Assign(Now(c).what, c) /\ id' = [id EXCEPT ![c] = nextId] /\ Proceed(c, "go")
      /\ UNCHANGED <<robotVars, linkUp, held, seen, abandoned, issued, fileVars>>
  BY DEF DoesSend, DoesStream
<1>3. /\ WireInv /\ ClientTypes /\ ClientOK(c) /\ ~Idle(c) /\ held = Nobody
      /\ Now(c).do = do /\ Now(c) \in Steps /\ StepOK(Now(c), Len(todo[c]) - 1)
      /\ Now(c).what \in Whats
  BY <1>1, Serving
<1>4. Now(c).what \notin Unsequenced /\ Now(c).yes = "go"
  BY <1>1, <1>3 DEF StepOK, VerbOK
<1>5. WireInv' /\ Lasts
  <2>1. /\ toRobot' = Append(toRobot, Line(Now(c).what, nextId, c)) /\ nextId' = nextId + 1
        /\ UNCHANGED <<latched, linkUp, adapter, expectedNext, log, active, queue, lastDone,
                       toHost, acked, hostDone>>
    BY <1>2 DEF Assign, robotVars, adapterVars
  <2>2. nextId \in Nat /\ c \in Senders
    BY <1>3 DEF WireInv, WireTypes, Senders
  <2>3. PICK v \in Whats : v = Now(c).what
    BY <1>3
  <2> QED BY <1>3, <1>4, <2>1, <2>2, <2>3, LineSentKept
<1>6. /\ Advances(c, "go") /\ \A d \in Clients : d # c => StaysPut(d)
      /\ command' \in [Clients -> CommandNames \cup ToolNames \cup {"none"}]
      /\ todo' \in [Clients -> Seq(Steps)] /\ report' \in [Clients -> Outcomes]
  BY <1>2, <1>3, <1>4, Proceeds DEF OutcomeOf
<1>7. /\ id' \in [Clients -> Nat] /\ id'[c] = nextId /\ \A d \in Clients : d # c => id'[d] = id[d]
  <2>1. id \in [Clients -> Nat] /\ nextId \in Nat
    BY <1>3 DEF ClientTypes, WireInv, WireTypes
  <2> QED BY <1>2, <2>1
<1>8. UNCHANGED <<held, seen, abandoned, samples, log>>
  BY <1>2 DEF fileVars, robotVars
<1>9. ClientTypes'
  BY <1>3, <1>6, <1>7, <1>8 DEF ClientTypes
<1>10. ClientOK(c)'
  <2>1. /\ todo'[c] = Tail(todo[c]) /\ command'[c] = command[c] /\ report'[c] = report[c]
    BY <1>6 DEF Advances
  <2> QED BY <1>1, <1>2, <1>3, <1>5, <1>7, <1>8, <2>1, SendsAndGoesOn
<1>11. HeldWaits'
  BY <1>3, <1>8, HeldByNobody
<1> QED BY <1>5, <1>6, <1>7, <1>8, <1>9, <1>10, <1>11, OneClientMoves

\* A line without an id is sent.
LEMMA SayKept ==
  ASSUME RogoInv, NEW c \in Clients, DoesSay(c)
  PROVE  RogoInv'
<1>1. /\ Serves(c, "say") /\ toRobot' = Append(toRobot, Line(Now(c).what, 0, c)) /\ Proceed(c, "go")
      /\ UNCHANGED <<robotVars, toHost, linkUp, sessionVars, held, clientVars, fileVars>>
  BY DEF DoesSay
<1>2. /\ WireInv /\ ClientTypes /\ ClientOK(c) /\ ~Idle(c) /\ held = Nobody
      /\ Now(c).do = "say" /\ Now(c) \in Steps /\ StepOK(Now(c), Len(todo[c]) - 1)
      /\ Now(c).what \in Whats
  BY <1>1, Serving
<1>3. Now(c).what \in Unsequenced /\ Now(c).yes = "go"
  BY <1>2 DEF StepOK, VerbOK
<1>4. WireInv' /\ Lasts
  <2>1. UNCHANGED <<latched, linkUp, adapter, expectedNext, log, active, queue, lastDone,
                    toHost, acked, hostDone, nextId>>
    BY <1>1 DEF robotVars, adapterVars, sessionVars
  <2>2. 0 \in Nat /\ c \in Senders
    BY DEF Senders
  <2>3. PICK v \in Whats : v = Now(c).what
    BY <1>2
  <2> QED BY <1>1, <1>2, <1>3, <2>1, <2>2, <2>3, LineSentKept
<1>5. /\ Advances(c, "go") /\ \A d \in Clients : d # c => StaysPut(d)
      /\ command' \in [Clients -> CommandNames \cup ToolNames \cup {"none"}]
      /\ todo' \in [Clients -> Seq(Steps)] /\ report' \in [Clients -> Outcomes]
  BY <1>1, <1>2, <1>3, Proceeds DEF OutcomeOf
<1>6. UNCHANGED <<held, id, seen, abandoned, samples>>
  BY <1>1 DEF clientVars, fileVars
<1>7. ClientTypes'
  BY <1>2, <1>5, <1>6 DEF ClientTypes
<1>8. ClientOK(c)'
  <2>1. ~Sending(Now(c)) /\ ~AckStep(Now(c))
    BY <1>2 DEF Sending, AckStep
  <2>2. "err" \in seen[c] => ErrOf(id[c])
    BY <1>2 DEF ClientOK, ScriptInStep
  <2>3. "err" \in seen'[c] => ErrOf(id[c])'
    BY <1>2, <1>4, <1>6, <2>2, OwnLineLasts DEF ClientOK
  <2> QED BY <1>2, <1>3, <1>4, <1>5, <1>6, <2>1, <2>3, StepDone DEF OutcomeOf
<1>9. HeldWaits'
  BY <1>2, <1>6, HeldByNobody
<1> QED BY <1>4, <1>5, <1>6, <1>7, <1>8, <1>9, OneClientMoves

\* One client does a step, sending nothing; what it looked at is in looked.
LEMMA StepKept ==
  ASSUME RogoInv, WireInv', Lasts, NEW c \in Clients, ~Idle(c),
         NEW o, Proceed(c, o), OutcomeOf(Now(c), o), id' = id, samples' \in [Clients -> Nat],
         NEW looked, seen' = [seen EXCEPT ![c] = @ \cup looked], looked \subseteq Kinds,
         looked # {} => Now(c).do \in {"pumpUntil", "pump", "drain"},
         "err" \in looked => ErrOf(id[c]),
         abandoned' \in [Clients -> Seq(Calls)], HeldWaits', held' \in Senders,
         o \in {"go", "skip"} => ~Sending(Now(c)),
         o = Now(c).yes /\ AckStep(Now(c)) => id[c] <= acked',
         o \in {"warned", "refused"} => "err" \in seen[c] \cup looked,
         o = "done" => id[c] <= hostDone
  PROVE  RogoInv'
<1>1. WireInv /\ ClientTypes /\ ClientOK(c)
  BY DEF RogoInv
<1>2. /\ Advances(c, o) /\ \A d \in Clients : d # c => StaysPut(d)
      /\ command' \in [Clients -> CommandNames \cup ToolNames \cup {"none"}]
      /\ todo' \in [Clients -> Seq(Steps)] /\ report' \in [Clients -> Outcomes]
  BY Proceeds
<1>3. /\ seen' \in [Clients -> SUBSET Kinds] /\ seen'[c] = seen[c] \cup looked
      /\ \A d \in Clients : d # c => seen'[d] = seen[d]
  <2>1. seen \in [Clients -> SUBSET Kinds]
    BY <1>1 DEF ClientTypes
  <2> QED BY <2>1
<1>4. ClientTypes'
  BY <1>1, <1>2, <1>3 DEF ClientTypes
<1>5. "err" \in seen'[c] => ErrOf(id[c])'
  <2>1. "err" \in seen[c] => ErrOf(id[c])
    BY <1>1 DEF ClientOK, ScriptInStep
  <2> QED BY <1>1, <1>3, <2>1, OwnLineLasts DEF ClientOK
<1>6. ClientOK(c)'
  <2>1. seen'[c] = seen[c] \/ Now(c).do \in {"pumpUntil", "pump", "drain"}
    BY <1>3
  <2>2. o \in {"warned", "refused"} => "err" \in seen'[c]
    BY <1>3
  <2>3. /\ id'[c] = id[c] /\ (o \in {"go", "skip"} => ~Sending(Now(c)))
        /\ o = Now(c).yes /\ AckStep(Now(c)) => id'[c] <= acked'
    OBVIOUS
  <2> QED BY <1>1, <1>2, <1>5, <2>1, <2>2, <2>3, StepDone
<1> QED BY <1>2, <1>3, <1>4, <1>6, OneClientMoves

\* Nobody's script moves, and calls left behind are served.
LEMMA StayKept ==
  ASSUME RogoInv, WireInv', Lasts, UNCHANGED <<scriptVars, id, seen, samples>>,
         abandoned' \in [Clients -> Seq(Calls)], held' \in Senders, HeldWaits'
  PROVE  RogoInv'
<1>1. \A c \in Clients : ClientOK(c)'
  BY ClientStays DEF RogoInv, StaysPut, scriptVars
<1>2. ClientTypes'
  BY DEF RogoInv, ClientTypes, scriptVars
<1> QED BY <1>1, <1>2 DEF RogoInv

\* A client that may be served, or has a step to do by itself.
LEMMA Ready ==
  ASSUME RogoInv, NEW c \in Clients, ~Idle(c)
  PROVE  /\ WireInv /\ ClientTypes /\ ClientOK(c)
         /\ Now(c) \in Steps /\ StepOK(Now(c), Len(todo[c]) - 1) /\ VerbOK(Now(c))
         /\ seen = [seen EXCEPT ![c] = @ \cup {}] /\ samples \in [Clients -> Nat]
         /\ abandoned \in [Clients -> Seq(Calls)]
<1>1. WireInv /\ ClientTypes /\ ClientOK(c)
  BY DEF RogoInv
<1>2. Now(c) \in Steps /\ StepOK(Now(c), Len(todo[c]) - 1)
  BY <1>1, FirstStep
<1>3. seen = [seen EXCEPT ![c] = @ \cup {}]
  BY <1>1 DEF ClientTypes
<1>4. VerbOK(Now(c))
  BY <1>2 DEF StepOK
<1> QED BY <1>1, <1>2, <1>3, <1>4 DEF ClientTypes

\* A call that is given up on goes to the end of its client's, and one that is
\* served is the first of them.
LEMMA LeftBehind ==
  ASSUME NEW calls \in Seq(Calls), NEW call \in Calls
  PROVE  /\ Append(calls, call) \in Seq(Calls) /\ Append(calls, call) # << >>
         /\ calls # << >> => Head(Append(calls, call)) = Head(calls)
OBVIOUS

LEMMA OneLess ==
  ASSUME abandoned \in [Clients -> Seq(Calls)], NEW c \in Clients, abandoned[c] # << >>
  PROVE  /\ [abandoned EXCEPT ![c] = Tail(@)] \in [Clients -> Seq(Calls)]
         /\ Head(abandoned[c]) \in Calls
<1>1. Tail(abandoned[c]) \in Seq(Calls) /\ Head(abandoned[c]) \in Calls
  OBVIOUS
<1> QED BY <1>1

\* What a client does by itself leaves the wire alone, and the worker where it was.
LEMMA ByItself ==
  ASSUME RogoInv, UNCHANGED <<robotVars, wireVars, sessionVars>>
  PROVE  WireInv' /\ Lasts
<1>1. UNCHANGED wire
  BY DEF robotVars, wireVars, sessionVars, adapterVars, wire
<1> QED BY <1>1, WireSame DEF RogoInv

\* The worker goes on with another client's wait, with one that the client gave
\* up on, or with none.
LEMMA HeldByAnother ==
  ASSUME RogoInv, NEW c \in Clients, held' = held, held = c => abandoned[c] # << >>,
         abandoned'[c] = abandoned[c] \/ \E call \in Calls : abandoned'[c] = Append(abandoned[c], call),
         \A d \in Clients : d # c => StaysPut(d) /\ abandoned'[d] = abandoned[d]
  PROVE  HeldWaits' /\ held' \in Senders
<1>1. CASE held # c
  <2>1. held \in Clients => StaysPut(held) /\ abandoned'[held] = abandoned[held]
    BY <1>1
  <2> QED BY <2>1, HeldStays
<1>2. CASE held = c
  <2>1. /\ abandoned[c] \in Seq(Calls) /\ abandoned[c] # << >> /\ Head(abandoned[c]).do = "wait"
        /\ held \in Senders
    BY <1>2, CommandsAssumption DEF RogoInv, ClientTypes, HeldWaits
  <2>2. abandoned'[c] # << >> /\ Head(abandoned'[c]) = Head(abandoned[c])
    BY <2>1, LeftBehind
  <2> QED BY <1>2, <2>1, <2>2 DEF HeldWaits
<1> QED BY <1>1, <1>2

\* A client that is not waiting is held, if at all, for a call it gave up on.
LEMMA NotHeld ==
  ASSUME RogoInv, NEW c \in Clients, Idle(c) \/ Now(c).do # "wait"
  PROVE  held = c => abandoned[c] # << >>
<1>1. c # Nobody
  BY CommandsAssumption
<1> QED BY <1>1 DEF RogoInv, HeldWaits

\* A command begins.
LEMMA BeginKept ==
  ASSUME RogoInv, NEW c \in Clients, NEW name \in Offered(c), Begin(c, name)
  PROVE  RogoInv'
<1>1. /\ Idle(c)
      /\ command' = [command EXCEPT ![c] = name] /\ todo' = [todo EXCEPT ![c] = ScriptOf(c, name)]
      /\ report' = [report EXCEPT ![c] = "none"] /\ id' = [id EXCEPT ![c] = 0]
      /\ seen' = [seen EXCEPT ![c] = {}] /\ samples' = [samples EXCEPT ![c] = 0]
      /\ UNCHANGED <<robotVars, wireVars, sessionVars, held, abandoned>>
  BY DEF Begin
<1>2. WireInv /\ ClientTypes /\ ClientOK(c) /\ WireInv' /\ Lasts
  BY <1>1, ByItself DEF RogoInv
<1>3. Runs(ScriptOf(c, name)) /\ ScriptOf(c, name) \in Seq(Steps)
  BY EveryScriptRuns DEF Runs
<1>4. name \in CommandNames \cup ToolNames /\ name # "none"
  BY CommandsAssumption DEF Offered, CommandNames, ToolNames
<1>5. /\ command \in [Clients -> CommandNames \cup ToolNames \cup {"none"}]
      /\ todo \in [Clients -> Seq(Steps)] /\ report \in [Clients -> Outcomes]
      /\ id \in [Clients -> Nat] /\ seen \in [Clients -> SUBSET Kinds] /\ samples \in [Clients -> Nat]
      /\ abandoned \in [Clients -> Seq(Calls)] /\ held \in Senders
  BY <1>2 DEF ClientTypes
<1>6. /\ command'[c] = name /\ todo'[c] = ScriptOf(c, name) /\ report'[c] = "none"
      /\ id'[c] = 0 /\ seen'[c] = {} /\ abandoned'[c] = abandoned[c]
  BY <1>1, <1>5
<1>7. \A d \in Clients : d # c =>
        StaysPut(d) /\ id'[d] = id[d] /\ seen'[d] = seen[d] /\ abandoned'[d] = abandoned[d]
  BY <1>1, <1>5 DEF StaysPut
<1>8. ClientTypes'
  <2>1. "none" \in Outcomes
    BY DEF Outcomes
  <2>2. command' \in [Clients -> CommandNames \cup ToolNames \cup {"none"}]
    BY <1>1, <1>4, <1>5
  <2>3. todo' \in [Clients -> Seq(Steps)] /\ report' \in [Clients -> Outcomes]
    BY <1>1, <1>3, <1>5, <2>1
  <2>4. id' \in [Clients -> Nat] /\ samples' \in [Clients -> Nat]
    BY <1>1, <1>5
  <2>5. seen' \in [Clients -> SUBSET Kinds]
    BY <1>1, <1>5
  <2> QED BY <1>1, <1>5, <2>2, <2>3, <2>4, <2>5 DEF ClientTypes
<1>9. ClientOK(c)'
  BY <1>2, <1>3, <1>4, <1>6, Begins
<1>10. HeldWaits'
  <2>1. held = c => abandoned[c] # << >>
    BY <1>1, NotHeld
  <2> QED BY <1>1, <1>6, <1>7, <2>1, HeldByAnother
<1> QED BY <1>2, <1>7, <1>8, <1>9, <1>10, OneClientMoves

\* A command is given a script that runs from its start.
LEMMA RestartKept ==
  ASSUME RogoInv, WireInv', Lasts, NEW c \in Clients, ~Idle(c), Now(c).do \in {"stream", "pace"},
         NEW t, Runs(t), todo' = [todo EXCEPT ![c] = t],
         UNCHANGED <<command, report, held, clientVars, samples>>
  PROVE  RogoInv'
<1>1. /\ WireInv /\ ClientTypes /\ ClientOK(c) /\ t \in Seq(Steps) /\ todo \in [Clients -> Seq(Steps)]
      /\ id'[c] = id[c] /\ UNCHANGED <<id, seen, abandoned>>
  BY DEF RogoInv, Runs, ClientTypes, clientVars
<1>2. report'[c] = "none" /\ command'[c] # "none" /\ todo'[c] = t
  BY <1>1 DEF ClientOK, ClientShape, Idle
<1>3. seen'[c] = {}
  <2>1. /\ Now(c) = todo[c][1] /\ 1 \in 1..Len(todo[c])
    BY <1>1, FirstStep
  <2> QED BY <1>1, <2>1 DEF ClientOK, ScriptInStep, NoSendLeft, Sending
<1>4. ClientOK(c)'
  BY <1>1, <1>2, <1>3, Begins
<1>5. \A d \in Clients : d # c =>
        StaysPut(d) /\ id'[d] = id[d] /\ seen'[d] = seen[d] /\ abandoned'[d] = abandoned[d]
  BY <1>1 DEF StaysPut
<1>6. ClientTypes'
  BY <1>1 DEF ClientTypes
<1>7. HeldWaits'
  <2>1. held = c => abandoned[c] # << >>
    BY NotHeld
  <2> QED BY <1>1, <1>5, <2>1, HeldByAnother
<1> QED BY <1>4, <1>5, <1>6, <1>7, OneClientMoves

\* A stream goes round again, or is interrupted.
LEMMA StreamKept ==
  ASSUME RogoInv, NEW c \in Clients, DoesPace(c) \/ Interrupted(c)
  PROVE  RogoInv'
<1>1. CASE DoesPace(c)
  <2>1. /\ Serves(c, "pace") /\ todo' = [todo EXCEPT ![c] = CmdDriveStream]
        /\ UNCHANGED <<command, report, held, clientVars, samples>>
        /\ UNCHANGED <<latched, linkUp, adapter, expectedNext, log, active, queue, lastDone>>
    BY <1>1 DEF DoesPace, fileVars, robotVars, adapterVars
  <2>2. PICK k \in 0..Len(toHost) : Consume(k)
    BY <1>1 DEF DoesPace
  <2>3. WireInv' /\ Lasts
    BY <2>1, <2>2, ConsumeKept DEF RogoInv
  <2>4. ~Idle(c) /\ Now(c).do = "pace"
    BY <2>1 DEF Serves
  <2>5. Runs(CmdDriveStream)
    BY StreamRuns
  <2> HIDE DEF CmdDriveStream
  <2> QED BY <2>1, <2>3, <2>4, <2>5, RestartKept
<1>2. CASE Interrupted(c)
  <2>1. /\ command[c] = "stream" /\ Now(c).do \in {"stream", "pace"}
        /\ todo' = [todo EXCEPT ![c] = RunStop]
        /\ UNCHANGED <<command, report, held, clientVars, samples>>
    BY <1>2 DEF Interrupted, fileVars
  <2>2. WireInv' /\ Lasts
    BY <1>2, ByItself DEF Interrupted
  <2>3. ~Idle(c)
    BY <2>1 DEF Idle
  <2> QED BY <2>1, <2>2, <2>3, StopRuns, RestartKept
<1> QED BY <1>1, <1>2

\* Replies are read by a client that looks for something.
LEMMA LooksKept ==
  ASSUME RogoInv, NEW c \in Clients, Now(c).do \in {"pumpUntil", "pump", "drain"}, ~Idle(c),
         held = Nobody, NEW k \in 0..Len(toHost), Consume(k),
         seen' = [seen EXCEPT ![c] = @ \cup Noticed(k, c)],
         UNCHANGED <<robotVars, linkUp, held, id, abandoned, samples>>,
         \/ Stay
         \/ \E o : /\ Proceed(c, o) /\ OutcomeOf(Now(c), o) /\ o # "done"
                   /\ o = Now(c).yes /\ AckStep(Now(c)) => id[c] <= acked'
                   /\ o \in {"warned", "refused"} => "err" \in seen'[c]
  PROVE  RogoInv'
<1>1. UNCHANGED <<latched, linkUp, adapter, expectedNext, log, active, queue, lastDone>>
  BY DEF robotVars, adapterVars
<1>2. /\ WireInv /\ WireInv' /\ Lasts /\ ClientTypes /\ ClientOK(c)
      /\ Noticed(k, c) \subseteq Kinds /\ ("err" \in Noticed(k, c) => ErrOf(id[c]))
  BY <1>1, ConsumeKept DEF RogoInv
<1>3. HeldWaits' /\ held' \in Senders
  BY HeldByNobody
<1> DEFINE looked == Noticed(k, c)
<1>4. seen' = [seen EXCEPT ![c] = @ \cup looked] /\ seen'[c] = seen[c] \cup looked
  BY <1>2 DEF ClientTypes
<1>5. looked \subseteq Kinds /\ ("err" \in looked => ErrOf(id[c]))
  BY <1>2
<1> HIDE DEF looked
<1>6. CASE Stay
  <2>1. \A d \in Clients : StaysPut(d)
    BY <1>6 DEF Stay, StaysPut, scriptVars
  <2>2. "err" \in seen[c] => ErrOf(id[c])
    BY <1>2 DEF ClientOK, ScriptInStep
  <2>3. "err" \in seen'[c] => ErrOf(id[c])'
    BY <1>2, <1>4, <1>5, <2>2, OwnLineLasts DEF ClientOK
  <2>4. ClientOK(c)'
    BY <1>2, <2>1, <2>3, ClientLooks
  <2>5. seen' \in [Clients -> SUBSET Kinds] /\ \A d \in Clients : d # c => seen'[d] = seen[d]
    BY <1>2, <1>4, <1>5 DEF ClientTypes
  <2>6. ClientTypes'
    BY <1>2, <1>6, <2>5 DEF ClientTypes, Stay, scriptVars
  <2> QED BY <1>2, <1>3, <2>1, <2>4, <2>5, <2>6, OneClientMoves
<1>7. ASSUME NEW o, Proceed(c, o), OutcomeOf(Now(c), o), o # "done",
             o = Now(c).yes /\ AckStep(Now(c)) => id[c] <= acked',
             o \in {"warned", "refused"} => "err" \in seen'[c]
      PROVE  RogoInv'
  <2>1. abandoned' \in [Clients -> Seq(Calls)] /\ samples' \in [Clients -> Nat]
    BY Ready
  <2>2. ~Sending(Now(c))
    BY DEF Sending
  <2>3. o \in {"warned", "refused"} => "err" \in seen[c] \cup looked
    BY <1>4, <1>7
  <2> QED BY <1>2, <1>3, <1>4, <1>5, <1>7, <2>1, <2>2, <2>3, StepKept
<1> QED BY <1>6, <1>7

\* A client pumps until it has what it looks for, once more, or until silence.
LEMMA PumpsKept ==
  ASSUME RogoInv, NEW c \in Clients, DoesPumpUntil(c) \/ DoesPump(c) \/ DoesDrain(c)
  PROVE  RogoInv'
<1>1. PICK do \in {"pumpUntil", "pump", "drain"} : Serves(c, do)
  BY DEF DoesPumpUntil, DoesPump, DoesDrain
<1>2. /\ WireInv /\ ClientTypes /\ ClientOK(c) /\ ~Idle(c) /\ held = Nobody
      /\ Now(c).do = do /\ Now(c) \in Steps /\ StepOK(Now(c), Len(todo[c]) - 1)
  BY <1>1, Serving
<1>3. UNCHANGED <<robotVars, linkUp, held, id, abandoned, samples>>
  BY DEF DoesPumpUntil, DoesPump, DoesDrain, fileVars
<1>4. Len(toHost) \in Nat
  BY <1>2 DEF WireInv, WireTypes
<1>5. \A k \in Chunks \cup {0} : k \in 0..Len(toHost)
  BY <1>4 DEF Chunks
<1>6. /\ acked' \in Nat \/ ~\E k \in 0..Len(toHost) : Consume(k)
      /\ id[c] \in Nat
  <2>1. ASSUME NEW k \in 0..Len(toHost), Consume(k) PROVE acked' \in Nat
    <3>1. UNCHANGED <<latched, linkUp, adapter, expectedNext, log, active, queue, lastDone>>
      BY <1>3 DEF robotVars, adapterVars
    <3>2. WireInv'
      BY <1>2, <2>1, <3>1, ConsumeKept
    <3> QED BY <3>2 DEF WireInv, WireTypes
  <2> QED BY <1>2, <2>1 DEF ClientTypes
<1>7. CASE DoesPumpUntil(c)
  <2>1. Now(c).do = "pumpUntil"
    BY <1>7 DEF DoesPumpUntil, Serves
  <2>2. PICK k \in Chunks \cup (IF delayed[c] THEN {0} ELSE {}) :
          /\ Consume(k)
          /\ seen' = [seen EXCEPT ![c] = @ \cup Noticed(k, c)]
          /\ IF IF Now(c).what = "ack" THEN Acknowledged(c) ELSE Now(c).what \in seen'[c]
               THEN Proceed(c, Now(c).yes)
               ELSE IF k = 0 THEN Proceed(c, Now(c).no) ELSE Stay
    BY <1>7 DEF DoesPumpUntil
  <2>3. k \in 0..Len(toHost)
    BY <1>5, <2>2
  <2>4. Now(c).yes \notin {"warned", "refused", "done"} /\ Now(c).no \notin {"warned", "refused", "done"}
    BY <1>2, <2>1 DEF StepOK
  <2>5. AckStep(Now(c)) => Now(c).what = "ack" /\ Now(c).no # Now(c).yes
    BY <1>2 DEF StepOK, AckStep
  <2>6. Acknowledged(c) => id[c] <= acked'
    BY <1>6, <2>2, <2>3 DEF Acknowledged
  <2>7. CASE Proceed(c, Now(c).yes) /\ (Now(c).what = "ack" => Acknowledged(c))
    <3>1. PICK o : o = Now(c).yes
      OBVIOUS
    <3>2. /\ Proceed(c, o) /\ OutcomeOf(Now(c), o) /\ o # "done"
          /\ o = Now(c).yes /\ AckStep(Now(c)) => id[c] <= acked'
          /\ o \in {"warned", "refused"} => "err" \in seen'[c]
      BY <2>4, <2>5, <2>6, <2>7, <3>1 DEF OutcomeOf
    <3> QED BY <1>1, <1>2, <1>3, <2>2, <2>3, <3>2, LooksKept
  <2>8. CASE Proceed(c, Now(c).no)
    <3>1. PICK o : o = Now(c).no
      OBVIOUS
    <3>2. /\ Proceed(c, o) /\ OutcomeOf(Now(c), o) /\ o # "done"
          /\ o = Now(c).yes /\ AckStep(Now(c)) => id[c] <= acked'
          /\ o \in {"warned", "refused"} => "err" \in seen'[c]
      BY <2>4, <2>5, <2>8, <3>1 DEF OutcomeOf
    <3> QED BY <1>1, <1>2, <1>3, <2>2, <2>3, <3>2, LooksKept
  <2>9. CASE Stay
    BY <1>1, <1>2, <1>3, <2>2, <2>3, <2>9, LooksKept
  <2> QED BY <2>2, <2>7, <2>8, <2>9
<1>8. CASE DoesPump(c)
  <2>1. Now(c).do = "pump"
    BY <1>8 DEF DoesPump, Serves
  <2>2. PICK k \in Chunks :
          /\ Consume(k)
          /\ seen' = [seen EXCEPT ![c] = @ \cup Noticed(k, c)]
          /\ Proceed(c, IF Now(c).what \in seen'[c] THEN Now(c).yes ELSE Now(c).no)
    BY <1>8 DEF DoesPump
  <2>3. k \in 0..Len(toHost)
    BY <1>5, <2>2
  <2>4. PICK o : o = IF Now(c).what \in seen'[c] THEN Now(c).yes ELSE Now(c).no
    OBVIOUS
  <2>5. ~AckStep(Now(c))
    BY <2>1 DEF AckStep
  <2>6. o # "done" /\ (o \in {"warned", "refused"} => "err" \in seen'[c])
    BY <1>2, <2>1, <2>4 DEF StepOK
  <2>7. Proceed(c, o) /\ OutcomeOf(Now(c), o)
    BY <2>2, <2>4 DEF OutcomeOf
  <2> QED BY <1>1, <1>2, <1>3, <2>2, <2>3, <2>5, <2>6, <2>7, LooksKept
<1>9. CASE DoesDrain(c)
  <2>1. Now(c).do = "drain"
    BY <1>9 DEF DoesDrain, Serves
  <2>2. PICK k \in Chunks :
          /\ Consume(k)
          /\ seen' = [seen EXCEPT ![c] = @ \cup Noticed(k, c)]
          /\ \/ Stay
             \/ Proceed(c, IF "get" \in seen'[c] THEN Now(c).yes ELSE Now(c).no)
    BY <1>9 DEF DoesDrain
  <2>3. k \in 0..Len(toHost)
    BY <1>5, <2>2
  <2>4. PICK o : o = IF "get" \in seen'[c] THEN Now(c).yes ELSE Now(c).no
    OBVIOUS
  <2>5. ~AckStep(Now(c)) /\ OutcomeOf(Now(c), o)
    BY <2>1, <2>4 DEF AckStep, OutcomeOf
  <2>6. o # "done" /\ o \notin {"warned", "refused"}
    BY <1>2, <2>1, <2>4 DEF StepOK
  <2>7. Proceed(c, o) \/ Stay
    BY <2>2, <2>4
  <2> QED BY <1>1, <1>2, <1>3, <2>2, <2>3, <2>5, <2>6, <2>7, LooksKept
<1> QED BY <1>7, <1>8, <1>9

\* A call fails, or its client gives up on it.
LEMMA FailsKept ==
  ASSUME RogoInv, NEW c \in Clients, FailsClosed(c) \/ GivesUp(c)
  PROVE  RogoInv'
<1>1. /\ ~Idle(c) /\ (held = c => abandoned[c] # << >>) /\ Now(c).do \in SessionCalls
      /\ UNCHANGED <<robotVars, wireVars, sessionVars, held, id, seen, samples>>
  <2>1. c # Nobody
    BY CommandsAssumption
  <2> QED BY <2>1 DEF FailsClosed, GivesUp, KeptWaiting, clientVars, fileVars
<1>2. WireInv' /\ Lasts
  BY <1>1, ByItself
<1>3. /\ Now(c) \in Steps /\ StepOK(Now(c), Len(todo[c]) - 1) /\ VerbOK(Now(c))
      /\ seen' = [seen EXCEPT ![c] = @ \cup {}] /\ samples' \in [Clients -> Nat]
      /\ abandoned \in [Clients -> Seq(Calls)] /\ id[c] \in Nat
  BY <1>1, Ready DEF ClientTypes
<1>4. AckStep(Now(c)) => Now(c).yes \notin {"closed", "raised"}
  BY <1>3 DEF StepOK
<1>5. PICK o \in {"closed", "raised"} : Proceed(c, o)
  BY DEF FailsClosed, GivesUp
<1>6. \/ abandoned' = abandoned
      \/ Call(c) \in Calls /\ abandoned' = [abandoned EXCEPT ![c] = Append(@, Call(c))]
  <2>1. CASE FailsClosed(c)
    BY <2>1 DEF FailsClosed, clientVars
  <2>2. CASE GivesUp(c)
    <3>1. Call(c) \in Calls
      <4>1. Call(c) \in [do : Does, what : Whats, id : Nat]
        BY <1>3 DEF Call, Steps
      <4>2. Call(c).do = Now(c).do /\ Call(c).what = Now(c).what
        BY DEF Call
      <4> QED BY <1>1, <1>3, <2>2, <4>1, <4>2 DEF Calls, VerbOK, GivesUp
    <3> QED BY <2>2, <3>1 DEF GivesUp
  <2> QED BY <2>1, <2>2
<1>7. /\ abandoned' \in [Clients -> Seq(Calls)]
      /\ abandoned'[c] = abandoned[c] \/ \E call \in Calls : abandoned'[c] = Append(abandoned[c], call)
      /\ \A d \in Clients : d # c => abandoned'[d] = abandoned[d]
  <2>1. CASE abandoned' = abandoned
    BY <1>3, <2>1
  <2>2. CASE Call(c) \in Calls /\ abandoned' = [abandoned EXCEPT ![c] = Append(@, Call(c))]
    <3>1. PICK call \in Calls : call = Call(c)
      BY <2>2
    <3>2. Append(abandoned[c], call) \in Seq(Calls)
      BY <1>3
    <3> QED BY <1>3, <2>2, <3>1, <3>2
  <2> QED BY <1>6, <2>1, <2>2
<1>8. OutcomeOf(Now(c), o)
  BY <1>5 DEF OutcomeOf
<1>9. HeldWaits' /\ held' \in Senders
  <2>1. \A d \in Clients : d # c => StaysPut(d) /\ abandoned'[d] = abandoned[d]
    BY <1>1, <1>5, <1>7, <1>8, Proceeds
  <2> QED BY <1>1, <1>7, <2>1, HeldByAnother
<1> DEFINE looked == {}
<1>10. /\ seen' = [seen EXCEPT ![c] = @ \cup looked] /\ looked \subseteq Kinds
       /\ (looked # {} => Now(c).do \in {"pumpUntil", "pump", "drain"})
       /\ ("err" \in looked => ErrOf(id[c]))
       /\ id' = id
       /\ (o \in {"go", "skip"} => ~Sending(Now(c)))
       /\ (o = Now(c).yes /\ AckStep(Now(c)) => id[c] <= acked')
       /\ (o \in {"warned", "refused"} => "err" \in seen[c] \cup looked)
       /\ (o = "done" => id[c] <= hostDone)
  BY <1>1, <1>3, <1>4, <1>5
<1> HIDE DEF looked
<1> QED BY <1>1, <1>2, <1>3, <1>5, <1>7, <1>8, <1>9, <1>10, StepKept

\* The worker begins to wait for a client.
LEMMA WaitsKept ==
  ASSUME RogoInv, NEW c \in Clients, Waits(c)
  PROVE  RogoInv'
<1>1. /\ Serves(c, "wait") /\ held' = c
      /\ UNCHANGED <<robotVars, wireVars, sessionVars, scriptVars, id, seen, abandoned, samples>>
  BY DEF Waits, clientVars, fileVars
<1>2. ~Idle(c) /\ abandoned[c] = << >> /\ Now(c).do = "wait"
  BY <1>1, Serving
<1>3. HeldWaits' /\ held' \in Senders
  BY <1>1, <1>2 DEF HeldWaits, Senders, scriptVars, Idle, Now
<1>4. WireInv' /\ Lasts
  BY <1>1, ByItself
<1> QED BY <1>1, <1>3, <1>4, NoClientMoves

\* The wait ends, for the client or for nobody.
LEMMA WaitEndsKept ==
  ASSUME RogoInv, HeldReturns \/ HeldTimesOut \/ HeldCloses
  PROVE  RogoInv'
<1>1. PICK outcome : /\ WaitEnds(outcome) /\ outcome \in {Now(held).yes, Now(held).no, "closed"}
                     /\ outcome = Now(held).yes => HeldIsOver \/ outcome \in {Now(held).no, "closed"}
  BY DEF HeldReturns, HeldTimesOut, HeldCloses
<1>2. held \in Clients /\ held # Nobody
  BY DEF HeldReturns, HeldTimesOut, HeldCloses, Holds, RogoInv, ClientTypes, Senders
<1>3. /\ held' = Nobody /\ UNCHANGED <<robotVars, wireVars, sessionVars, id, seen, samples>>
  BY <1>1 DEF WaitEnds, fileVars
<1>4. WireInv' /\ Lasts /\ WireInv /\ ClientTypes
  BY <1>3, ByItself DEF RogoInv
<1>5. HeldWaits' /\ held' \in Senders
  BY <1>3, HeldByNobody
<1>6. abandoned \in [Clients -> Seq(Calls)] /\ samples \in [Clients -> Nat]
  BY <1>4 DEF ClientTypes
<1>7. CASE abandoned[held] # << >>
  <2>1. abandoned' = [abandoned EXCEPT ![held] = Tail(@)] /\ UNCHANGED scriptVars
    BY <1>1, <1>7 DEF WaitEnds, Stay
  <2>2. abandoned' \in [Clients -> Seq(Calls)]
    BY <1>2, <1>6, <1>7, <2>1, OneLess
  <2> QED BY <1>3, <1>4, <1>5, <2>1, <2>2, StayKept
<1>8. CASE abandoned[held] = << >>
  <2>1. PICK c \in Clients : c = held
    BY <1>2
  <2>2. PICK o : o = outcome
    OBVIOUS
  <2>3. /\ ~Idle(c) /\ Now(c).do = "wait" /\ HeldCall.what = Now(c).what /\ HeldCall.id = id[c]
    BY <1>2, <1>8, <2>1 DEF RogoInv, HeldWaits, HeldCall, Call
  <2>4. /\ Now(c) \in Steps /\ StepOK(Now(c), Len(todo[c]) - 1)
        /\ seen' = [seen EXCEPT ![c] = @ \cup {}] /\ samples' \in [Clients -> Nat]
    BY <1>3, <2>3, Ready
  <2>5. /\ Proceed(c, o) /\ abandoned' \in [Clients -> Seq(Calls)]
        /\ OutcomeOf(Now(c), o) /\ (o = Now(c).yes => HeldIsOver \/ o \in {Now(c).no, "closed"})
    BY <1>1, <1>6, <1>8, <2>1, <2>2, <2>3, <2>4 DEF WaitEnds, OutcomeOf
  <2>6. /\ acked \in Nat /\ hostDone \in Nat /\ id[c] \in Nat /\ acked' = acked
    BY <1>3, <1>4 DEF WireInv, WireTypes, ClientTypes, sessionVars
  <2>7. ASSUME o = Now(c).yes, AckStep(Now(c)) PROVE id[c] <= acked'
    <3>1. HeldIsOver /\ HeldCall.what = "ack"
      BY <2>3, <2>4, <2>5, <2>7 DEF StepOK, AckStep
    <3> QED BY <2>3, <2>6, <3>1 DEF HeldIsOver
  <2>8. ASSUME o = "done" PROVE id[c] <= hostDone
    <3>1. o = Now(c).yes /\ Now(c).what = "done" /\ Now(c).no # "done"
      BY <2>4, <2>5, <2>8 DEF StepOK, OutcomeOf
    <3>2. HeldIsOver /\ HeldCall.what = "done"
      BY <2>3, <2>5, <2>8, <3>1
    <3> QED BY <2>3, <2>6, <3>2 DEF HeldIsOver
  <2>9. o \notin {"warned", "refused"}
    BY <2>3, <2>4, <2>5 DEF StepOK, OutcomeOf
  <2> DEFINE looked == {}
  <2>10. /\ seen' = [seen EXCEPT ![c] = @ \cup looked] /\ looked \subseteq Kinds
         /\ (looked # {} => Now(c).do \in {"pumpUntil", "pump", "drain"})
         /\ ("err" \in looked => ErrOf(id[c])) /\ id' = id
         /\ (o \in {"go", "skip"} => ~Sending(Now(c)))
         /\ (o \in {"warned", "refused"} => "err" \in seen[c] \cup looked)
    BY <1>3, <2>3, <2>4, <2>9 DEF Sending
  <2> HIDE DEF looked
  <2> QED BY <1>4, <1>5, <2>3, <2>4, <2>5, <2>7, <2>8, <2>10, StepKept
<1> QED BY <1>7, <1>8

\* An ESTOP barges in on a wait.
LEMMA BargesKept ==
  ASSUME RogoInv, NEW c \in Clients, BargesIn(c)
  PROVE  RogoInv'
<1>1. /\ ~Idle(c) /\ Now(c).do = "say" /\ Now(c).what = "ESTOP"
      /\ held # Nobody /\ held' = Nobody
      /\ toRobot' = Append(toRobot, Line("ESTOP", 0, c))
      /\ UNCHANGED <<robotVars, toHost, linkUp, sessionVars, id, seen, samples>>
  BY DEF BargesIn, fileVars
<1>2. /\ WireInv /\ ClientTypes /\ ClientOK(c) /\ Now(c) \in Steps
      /\ StepOK(Now(c), Len(todo[c]) - 1)
  BY <1>1, Ready
<1>3. PICK h \in Clients : h = held
  BY <1>1 DEF RogoInv, ClientTypes, Senders
<1>4. (h = c => abandoned[held] # << >>) /\ ClientOK(h)
  BY <1>1, <1>3, NotHeld DEF RogoInv
<1>5. WireInv' /\ Lasts
  <2>1. UNCHANGED <<latched, linkUp, adapter, expectedNext, log, active, queue, lastDone,
                    toHost, acked, hostDone, nextId>>
    BY <1>1 DEF robotVars, adapterVars, sessionVars
  <2>2. 0 \in Nat /\ c \in Senders /\ "ESTOP" \in Whats /\ "ESTOP" \in Unsequenced
    BY DEF Senders, Whats, Verbs, Unsequenced
  <2> QED BY <1>1, <1>2, <2>1, <2>2, LineSentKept
<1>6. abandoned \in [Clients -> Seq(Calls)]
  BY <1>2 DEF ClientTypes
<1>7. abandoned' \in [Clients -> Seq(Calls)]
  BY <1>1, <1>2, <1>3, <1>6, OneLess DEF BargesIn
<1>8. Now(c).yes = "go" /\ ~Sending(Now(c)) /\ ~AckStep(Now(c))
  BY <1>1, <1>2 DEF StepOK, Sending, AckStep
<1>9. \A d \in Clients : "err" \in seen'[d] => ErrOf(id[d])'
  <2> TAKE d \in Clients
  <2>1. ClientOK(d)
    BY DEF RogoInv
  <2>2. "err" \in seen[d] => ErrOf(id[d])
    BY <2>1 DEF ClientOK, ScriptInStep
  <2> QED BY <1>1, <1>2, <1>5, <2>1, <2>2, OwnLineLasts DEF ClientOK
<1>10. ASSUME Advances(c, "go") PROVE ClientOK(c)'
  <2> QED BY <1>1, <1>2, <1>5, <1>8, <1>9, <1>10, StepDone DEF OutcomeOf
<1>11. CASE abandoned[held] = << >>
  <2> DEFINE o == Now(h).no  result == [d \in {c, h} |-> IF d = c THEN "go" ELSE o]
  <2>1. ~Idle(h) /\ Now(h).do = "wait"
    BY <1>1, <1>3, <1>11 DEF RogoInv, HeldWaits
  <2>2. Now(h) \in Steps /\ StepOK(Now(h), Len(todo[h]) - 1)
    BY <2>1, Ready
  <2>3. /\ o \notin {"warned", "refused", "done"} /\ (AckStep(Now(h)) => o # Now(h).yes)
        /\ OutcomeOf(Now(h), o) /\ OutcomeOf(Now(c), "go") /\ ~Sending(Now(h))
    BY <1>8, <2>1, <2>2 DEF StepOK, OutcomeOf, Sending
  <2>4. Moves(result)
    BY <1>3, <1>11 DEF BargesIn
  <2>5. DOMAIN result = {c, h} /\ result[c] = "go" /\ result[h] = o
    BY <1>4, <1>11
  <2>6. ClientTypes /\ \A d \in Clients : ClientOK(d)
    BY DEF RogoInv
  <2> HIDE DEF result, o
  <2>7. /\ Advances(c, "go") /\ Advances(h, o)
        /\ \A d \in Clients : d \notin {c, h} => StaysPut(d)
    BY <2>4, <2>5, <2>6, MovesMoves
  <2>8. \A d \in Clients \cap DOMAIN result : ~Idle(d) /\ OutcomeOf(Now(d), result[d])
    BY <1>1, <2>1, <2>3, <2>5
  <2>9. /\ command' \in [Clients -> CommandNames \cup ToolNames \cup {"none"}]
        /\ todo' \in [Clients -> Seq(Steps)] /\ report' \in [Clients -> Outcomes]
    BY <2>4, <2>6, <2>8, MovesTyped
  <2>10. ClientOK(h)'
    <3>1. /\ (o \in {"go", "skip"} => ~Sending(Now(h)))
          /\ id'[h] = id[h] /\ seen'[h] = seen[h]
          /\ (o = Now(h).yes /\ AckStep(Now(h)) => id'[h] <= acked')
          /\ (o \in {"warned", "refused"} => "err" \in seen'[h])
          /\ (o = "done" => id[h] <= hostDone)
      BY <1>1, <1>2, <1>7, <2>3
    <3> QED BY <1>2, <1>4, <1>5, <1>9, <2>1, <2>3, <2>7, <3>1, StepDone
  <2>11. \A d \in Clients : ClientOK(d)'
    <3> TAKE d \in Clients
    <3>1. CASE d \notin {c, h}
      <4>1. id'[d] = id[d] /\ seen'[d] = seen[d]
        BY <1>1
      <4> QED BY <1>2, <1>5, <2>6, <2>7, <3>1, <4>1, ClientStays
    <3> QED BY <1>10, <2>7, <2>10, <3>1
  <2>12. HeldWaits' /\ held' \in Senders
    BY <1>1, HeldByNobody
  <2>13. ClientTypes'
    BY <1>1, <1>2, <1>7, <2>9, <2>12 DEF ClientTypes
  <2> QED BY <1>5, <2>11, <2>12, <2>13 DEF RogoInv
<1>12. CASE abandoned[held] # << >>
  <2>1. Proceed(c, "go")
    BY <1>12 DEF BargesIn
  <2>2. /\ Advances(c, "go") /\ \A d \in Clients : d # c => StaysPut(d)
        /\ command' \in [Clients -> CommandNames \cup ToolNames \cup {"none"}]
        /\ todo' \in [Clients -> Seq(Steps)] /\ report' \in [Clients -> Outcomes]
    BY <1>1, <1>8, <2>1, Proceeds DEF OutcomeOf
  <2>3. \A d \in Clients : ClientOK(d)'
    <3> TAKE d \in Clients
    <3>1. CASE d # c
      <4>1. id'[d] = id[d] /\ seen'[d] = seen[d]
        BY <1>1
      <4>2. ClientOK(d)
        BY DEF RogoInv
      <4> QED BY <1>2, <1>5, <2>2, <3>1, <4>1, <4>2, ClientStays
    <3> QED BY <1>10, <2>2, <3>1
  <2>4. HeldWaits' /\ held' \in Senders
    BY <1>1, HeldByNobody
  <2>5. ClientTypes'
    BY <1>1, <1>2, <1>7, <2>2, <2>4 DEF ClientTypes
  <2> QED BY <1>5, <2>3, <2>4, <2>5 DEF RogoInv
<1> QED BY <1>11, <1>12

\* The worker serves a call that its client gave up on.
LEMMA LeftServedKept ==
  ASSUME RogoInv, NEW c \in Clients, LeftServed(c)
  PROVE  RogoInv'
<1>1. /\ abandoned[c] # << >> /\ held = Nobody
      /\ abandoned' = IF held' = c THEN abandoned ELSE [abandoned EXCEPT ![c] = Tail(@)]
      /\ UNCHANGED <<robotVars, scriptVars, id, seen, samples>>
  BY DEF LeftServed, fileVars
<1>2. /\ WireInv /\ ClientTypes /\ abandoned \in [Clients -> Seq(Calls)] /\ nextId \in Nat
  BY DEF RogoInv, ClientTypes, WireInv, WireTypes
<1>3. c # Nobody /\ c \in Senders
  BY CommandsAssumption DEF Senders
<1> DEFINE call == Head(abandoned[c])  do == call.do
<1>4. call \in Calls /\ VerbOK(call) /\ \E v \in Whats : v = call.what
  BY <1>1, <1>2, OneLess DEF Calls
<1> PICK v \in Whats : v = call.what
  BY <1>4
<1>5. abandoned' \in [Clients -> Seq(Calls)]
  BY <1>1, <1>2, OneLess
<1>6. UNCHANGED <<latched, adapter, expectedNext, log, active, queue, lastDone>>
  BY <1>1 DEF robotVars, adapterVars
<1>7. ASSUME do \in {"send", "stream"}, Assign(v, c), UNCHANGED <<linkUp, held>>
      PROVE  RogoInv'
  <2>1. /\ toRobot' = Append(toRobot, Line(v, nextId, c)) /\ nextId' = nextId + 1
        /\ UNCHANGED <<toHost, acked, hostDone>>
    BY <1>7 DEF Assign
  <2>2. v \notin Unsequenced
    BY <1>4, <1>7 DEF VerbOK
  <2>3. WireInv' /\ Lasts
    BY <1>2, <1>3, <1>6, <1>7, <2>1, <2>2, LineSentKept
  <2>4. HeldWaits' /\ held' \in Senders
    BY <1>1, <1>7, HeldByNobody
  <2> QED BY <1>1, <1>5, <2>3, <2>4, StayKept
<1>8. ASSUME do = "say", toRobot' = Append(toRobot, Line(v, 0, c)),
             UNCHANGED <<toHost, linkUp, held, sessionVars>>
      PROVE  RogoInv'
  <2>1. v \in Unsequenced /\ UNCHANGED <<nextId, acked, hostDone>> /\ 0 \in Nat
    BY <1>4, <1>8 DEF VerbOK, sessionVars
  <2>2. WireInv' /\ Lasts
    BY <1>2, <1>3, <1>6, <1>8, <2>1, LineSentKept
  <2>3. HeldWaits' /\ held' \in Senders
    BY <1>1, <1>8, HeldByNobody
  <2> QED BY <1>1, <1>5, <2>2, <2>3, StayKept
<1>9. ASSUME NEW k \in 0..Len(toHost), Consume(k), UNCHANGED <<linkUp, held>>
      PROVE  RogoInv'
  <2>1. WireInv' /\ Lasts
    BY <1>2, <1>6, <1>9, ConsumeKept
  <2>2. HeldWaits' /\ held' \in Senders
    BY <1>1, <1>9, HeldByNobody
  <2> QED BY <1>1, <1>5, <2>1, <2>2, StayKept
<1>10. ASSUME do = "wait", held' = c, UNCHANGED <<wireVars, sessionVars>>
       PROVE  RogoInv'
  <2>1. WireInv' /\ Lasts
    BY <1>1, <1>10, ByItself
  <2>2. HeldWaits' /\ held' \in Senders
    BY <1>1, <1>3, <1>10 DEF HeldWaits
  <2> QED BY <1>1, <1>5, <2>1, <2>2, StayKept
<1>11. ASSUME UNCHANGED <<wireVars, sessionVars, held>>
       PROVE  RogoInv'
  <2>1. WireInv' /\ Lasts
    BY <1>1, <1>11, ByItself
  <2>2. HeldWaits' /\ held' \in Senders
    BY <1>1, <1>11, HeldByNobody
  <2> QED BY <1>1, <1>5, <2>1, <2>2, StayKept
<1>12. \/ do \in {"send", "stream"} /\ Assign(v, c) /\ UNCHANGED <<linkUp, held>>
       \/ /\ do = "say" /\ toRobot' = Append(toRobot, Line(v, 0, c))
          /\ UNCHANGED <<toHost, linkUp, held, sessionVars>>
       \/ (\E k \in 0..Len(toHost) : Consume(k)) /\ UNCHANGED <<linkUp, held>>
       \/ do = "wait" /\ held' = c /\ UNCHANGED <<wireVars, sessionVars>>
       \/ UNCHANGED <<wireVars, sessionVars, held>>
  BY DEF LeftServed
<1> HIDE DEF do, call
<1> QED BY <1>7, <1>8, <1>9, <1>10, <1>11, <1>12

\* A step that moves no script and nothing its invariant tells of.
LEMMA NothingMoves ==
  ASSUME RogoInv,
         UNCHANGED <<robotVars, wireVars, sessionVars, scriptVars, id, seen, abandoned, samples, held>>
  PROVE  RogoInv'
<1>1. WireInv' /\ Lasts
  BY ByItself
<1>2. HeldWaits' /\ held' \in Senders
  BY HeldStays DEF StaysPut, scriptVars
<1> QED BY <1>1, <1>2, NoClientMoves

\* What a command does by itself: it loads, asks and saves.
LEMMA LocalKept ==
  ASSUME RogoInv, NEW c \in Clients, Loads(c) \/ Asks(c) \/ Saves(c) \/ Writes(c)
  PROVE  RogoInv'
<1>1. /\ ~Idle(c) /\ Now(c).do \in {"load", "ask", "save"}
      /\ UNCHANGED <<robotVars, wireVars, sessionVars, held, id, seen, abandoned>>
  BY DEF Loads, Asks, Saves, Writes, LocalUnchanged, clientVars
<1>2. WireInv' /\ Lasts /\ WireInv /\ ClientTypes /\ ClientOK(c)
  BY <1>1, ByItself DEF RogoInv
<1>4. /\ Now(c) \in Steps /\ StepOK(Now(c), Len(todo[c]) - 1)
      /\ seen' = [seen EXCEPT ![c] = @ \cup {}] /\ samples \in [Clients -> Nat]
      /\ abandoned' \in [Clients -> Seq(Calls)]
  BY <1>1, <1>2, Ready DEF ClientTypes
<1>5. held = c => abandoned[c] # << >>
  BY <1>1, NotHeld
<1>6. samples' \in [Clients -> Nat]
  <2>1. MinTrials \in Nat
    BY ModelsAssumption
  <2>2. \/ samples' = samples \/ samples' = [samples EXCEPT ![c] = @ + 1]
        \/ \E n \in 0..MinTrials : samples' = [samples EXCEPT ![c] = n]
    BY DEF Loads, Asks, Saves, Writes
  <2>3. \A n \in 0..MinTrials : n \in Nat
    BY <2>1
  <2>4. samples[c] + 1 \in Nat
    BY <1>4
  <2> QED BY <1>4, <2>2, <2>3, <2>4
<1>7. ASSUME NEW o \in {"go", Now(c).yes, Now(c).no, "outOfRange", "tooFew"},
             Proceed(c, o), OutcomeOf(Now(c), o)
      PROVE  RogoInv'
  <2>1. /\ ~Sending(Now(c)) /\ ~AckStep(Now(c)) /\ o \notin {"warned", "refused", "done"}
    BY <1>1, <1>4, <1>7 DEF StepOK, Sending, AckStep
  <2>2. HeldWaits' /\ held' \in Senders
    <3>1. \A d \in Clients : d # c => StaysPut(d) /\ abandoned'[d] = abandoned[d]
      BY <1>1, <1>7, Proceeds
    <3>2. abandoned'[c] = abandoned[c]
      BY <1>1
    <3> QED BY <1>1, <1>5, <3>1, <3>2, HeldByAnother
  <2> DEFINE looked == {}
  <2>3. /\ seen' = [seen EXCEPT ![c] = @ \cup looked] /\ looked \subseteq Kinds
        /\ (looked # {} => Now(c).do \in {"pumpUntil", "pump", "drain"})
        /\ ("err" \in looked => ErrOf(id[c])) /\ id' = id
    BY <1>1, <1>4
  <2> HIDE DEF looked
  <2> QED BY <1>1, <1>2, <1>4, <1>6, <1>7, <2>1, <2>2, <2>3, StepKept
<1>8. ASSUME ToTheEnd(c), Now(c).do = "ask" PROVE RogoInv'
  <2> DEFINE s == todo[c]
  <2>1. /\ s \in Seq(Steps) /\ s # << >> /\ Now(c) = s[1] /\ 1 \in 1..Len(s) /\ ScriptOK(s)
        /\ Len(s) \in Nat
    BY <1>1, <1>2, FirstStep
  <2>2. todo' = [todo EXCEPT ![c] = <<Last(s)>>] /\ UNCHANGED <<command, report>>
    BY <1>8 DEF ToTheEnd
  <2>3. Rest(<<Last(s)>>, s, Len(s) - 1) /\ <<Last(s)>> # << >> /\ <<Last(s)>> \in Seq(Steps)
    BY <2>1, Rests DEF Rest
  <2>4. /\ todo' \in [Clients -> Seq(Steps)] /\ todo'[c] = <<Last(s)>>
        /\ \A d \in Clients : d # c => todo'[d] = todo[d]
    <3>1. PICK t \in Seq(Steps) : t = <<Last(s)>>
      BY <2>3
    <3> QED BY <1>2, <2>2, <3>1 DEF ClientTypes
  <2>5. Rest(todo'[c], s, Len(s) - 1) /\ todo'[c] # << >>
    BY <2>3, <2>4
  <2>6. ~Judges(s)
    BY <1>8, <2>1 DEF ScriptOK, JudgesInTurn
  <2>7. ~Judges(todo'[c]) /\ (NoSendLeft(s) => NoSendLeft(todo'[c]))
    BY <2>1, <2>5, <2>6, RestRuns
  <2>8. seen'[c] # {} => NoSendLeft(todo'[c])
    BY <1>1, <1>2, <2>7 DEF ClientOK, ScriptInStep
  <2>9. "err" \in seen'[c] => ErrOf(id[c])'
    <3>1. "err" \in seen[c] => ErrOf(id[c])
      BY <1>2 DEF ClientOK, ScriptInStep
    <3> QED BY <1>1, <1>2, <3>1, OwnLineLasts DEF ClientOK
  <2>10. ClientOK(c)'
    <3>1. PICK m : m = Len(s) - 1
      OBVIOUS
    <3> HIDE DEF s
    <3>2. Rest(todo'[c], todo[c], m)
      BY <2>5, <3>1 DEF s
    <3> QED BY <1>1, <1>2, <2>2, <2>5, <2>7, <2>8, <2>9, <3>2, GoesOn
  <2>11. \A d \in Clients : d # c =>
          StaysPut(d) /\ id'[d] = id[d] /\ seen'[d] = seen[d] /\ abandoned'[d] = abandoned[d]
    BY <1>1, <2>2, <2>4 DEF StaysPut
  <2>12. HeldWaits' /\ held' \in Senders
    <3>1. abandoned'[c] = abandoned[c]
      BY <1>1
    <3> QED BY <1>1, <1>5, <2>11, <3>1, HeldByAnother
  <2>13. ClientTypes'
    BY <1>1, <1>2, <1>4, <1>6, <2>2, <2>4, <2>12 DEF ClientTypes
  <2> QED BY <1>2, <2>10, <2>11, <2>12, <2>13, OneClientMoves
<1>9. CASE Loads(c)
  <2>1. PICK o \in {"go", Now(c).no} : Proceed(c, o)
    BY <1>9 DEF Loads
  <2>2. OutcomeOf(Now(c), o)
    BY <1>4, <1>9, <2>1 DEF Loads, OutcomeOf, StepOK
  <2> QED BY <1>7, <2>1, <2>2
<1>10. CASE Asks(c)
  <2>1. Now(c).do = "ask" /\ (Proceed(c, "go") \/ ToTheEnd(c))
    BY <1>10 DEF Asks
  <2>2. OutcomeOf(Now(c), "go")
    BY <1>4, <2>1 DEF OutcomeOf, StepOK
  <2> QED BY <1>7, <1>8, <2>1, <2>2
<1>11. CASE Saves(c) \/ Writes(c)
  <2>1. CASE Stay
    <3>1. samples' = samples
      BY <1>11 DEF Saves, Writes
    <3> QED BY <1>1, <2>1, <3>1, NothingMoves DEF Stay
  <2>2. CASE \E o \in {Now(c).yes, Now(c).no, "outOfRange", "tooFew"} : Proceed(c, o)
    BY <1>7, <2>2 DEF OutcomeOf
  <2> QED BY <1>11, <2>1, <2>2 DEF Saves, Writes
<1> QED BY <1>9, <1>10, <1>11

\* A save empties the file.
LEMMA TruncatesKept ==
  ASSUME RogoInv, NEW c \in Clients, Truncates(c)
  PROVE  RogoInv'
<1>1. UNCHANGED <<robotVars, wireVars, sessionVars, scriptVars, id, seen, abandoned, samples, held>>
  BY DEF Truncates, LocalUnchanged, clientVars
<1> QED BY <1>1, NothingMoves

\* It holds at first.
LEMMA RogoInvInitially ==
  ASSUME RogoInit
  PROVE  RogoInv
<1>1. /\ active = 0 /\ queue = << >> /\ lastDone = 0 /\ latched = FALSE /\ linkUp = TRUE
      /\ expectedNext = 1 /\ log = << >> /\ toRobot = << >> /\ toHost = << >>
      /\ nextId = 1 /\ acked = 0 /\ hostDone = 0 /\ held = Nobody
  BY DEF RogoInit, AdapterInit
<1>2. Len(log) = 0 /\ Len(toRobot) = 0 /\ Len(toHost) = 0 /\ Len(queue) = 0
  BY <1>1
<1>3. WireTypes
  <2>1. << >> \in Seq(LogSet) /\ << >> \in Seq(Nat) /\ << >> \in Seq(LineSet) /\ << >> \in Seq(ReplySet)
    OBVIOUS
  <2>2. log \in Seq(LogSet) /\ queue \in Seq(Nat) /\ toRobot \in Seq(LineSet) /\ toHost \in Seq(ReplySet)
    BY <1>1, <2>1, Zenon
  <2>3. /\ active \in Nat /\ lastDone \in Nat /\ expectedNext \in Nat \ {0}
        /\ nextId \in Nat \ {0} /\ acked \in Nat /\ hostDone \in Nat
    BY <1>1
  <2>4. latched \in BOOLEAN /\ linkUp \in BOOLEAN
    BY <1>1, Zenon
  <2> QED BY <2>2, <2>3, <2>4 DEF WireTypes
<1>4. WireInOrder /\ MotionsInOrder /\ StopEndsAll /\ RepliesAreTrue
  BY <1>1, <1>2 DEF WireInOrder, MotionsInOrder, StopEndsAll, RepliesAreTrue
<1>5. ClientTypes
  <2>1. /\ "none" \in CommandNames \cup ToolNames \cup {"none"} /\ << >> \in Seq(Steps)
        /\ "none" \in Outcomes /\ 0 \in Nat /\ {} \in SUBSET Kinds /\ << >> \in Seq(Calls)
    BY DEF Outcomes
  <2>2. /\ command = [c \in Clients |-> "none"] /\ todo = [c \in Clients |-> << >>]
        /\ report = [c \in Clients |-> "none"] /\ id = [c \in Clients |-> 0]
        /\ seen = [c \in Clients |-> {}] /\ abandoned = [c \in Clients |-> << >>]
        /\ samples = [c \in Clients |-> 0]
    BY DEF RogoInit
  <2>3. /\ command \in [Clients -> CommandNames \cup ToolNames \cup {"none"}]
        /\ todo \in [Clients -> Seq(Steps)] /\ report \in [Clients -> Outcomes]
    BY <2>1, <2>2
  <2>4. id \in [Clients -> Nat] /\ samples \in [Clients -> Nat] /\ seen \in [Clients -> SUBSET Kinds]
    BY <2>1, <2>2
  <2>5. abandoned \in [Clients -> Seq(Calls)] /\ held \in Senders
    BY <1>1, <2>1, <2>2 DEF Senders
  <2> QED BY <2>3, <2>4, <2>5 DEF ClientTypes
<1>6. HeldWaits
  BY <1>1 DEF HeldWaits
<1>7. ASSUME NEW c \in Clients PROVE ClientOK(c)
  <2>1. /\ command[c] = "none" /\ todo[c] = << >> /\ report[c] = "none" /\ id[c] = 0
        /\ seen[c] = {}
    BY DEF RogoInit
  <2> DEFINE t == todo[c]
  <2>2. t = << >> /\ Len(t) = 0
    BY <2>1
  <2>3. ScriptOK(t) /\ ~Judges(t) /\ ~Stops(t)
    <3> HIDE DEF t
    <3>1. \A k \in 1..Len(t) : FALSE
      BY <2>2
    <3> QED BY <3>1 DEF ScriptOK, Judges, Stops, LooksLast
  <2>5. ClientShape(c)
    BY <1>1, <2>1, <2>3 DEF ClientShape, Idle
  <2>6. ScriptInStep(c)
    BY <2>1, <2>3 DEF ScriptInStep
  <2>7. ReportHolds(c)
    BY <2>1 DEF ReportHolds, SuccessReports
  <2> QED BY <2>5, <2>6, <2>7 DEF ClientOK
<1> QED BY <1>3, <1>4, <1>5, <1>6, <1>7 DEF RogoInv, WireInv

\* And after every step.
LEMMA RogoInvKept ==
  ASSUME RogoInv, [RogoNext]_rogoVars
  PROVE  RogoInv'
<1>1. CASE RogoNext
  <2>1. CASE RobotTakes \/ RobotFinishes \/ LinkCloses
    BY <2>1, OutsideKept
  <2>2. CASE WorkerWaits
    BY <2>2, OutsideKept, WaitEndsKept DEF WorkerWaits
  <2>3. ASSUME NEW c \in Clients, NEW name \in Offered(c), Begin(c, name) PROVE RogoInv'
    BY <2>3, BeginKept
  <2>4. ASSUME NEW c \in Clients, CallsSession(c) PROVE RogoInv'
    BY <2>4, SendKept, SayKept, BargesKept, PumpsKept, StreamKept, WaitsKept, FailsKept
       DEF CallsSession
  <2>5. ASSUME NEW c \in Clients, DoesStream(c) \/ Interrupted(c) \/ GivesUp(c) \/ LeftServed(c)
        PROVE  RogoInv'
    BY <2>5, SendKept, StreamKept, FailsKept, LeftServedKept
  <2>6. ASSUME NEW c \in Clients, Loads(c) \/ Asks(c) \/ Saves(c) \/ Truncates(c) \/ Writes(c)
        PROVE  RogoInv'
    BY <2>6, LocalKept, TruncatesKept
  <2> QED BY <1>1, <2>1, <2>2, <2>3, <2>4, <2>5, <2>6 DEF RogoNext
<1>2. CASE UNCHANGED rogoVars
  <2>1. /\ UNCHANGED <<robotVars, wireVars, sessionVars>>
        /\ UNCHANGED <<scriptVars, id, seen, abandoned, samples, held>>
    BY <1>2 DEF rogoVars, clientVars, fileVars
  <2> QED BY <2>1, NothingMoves
<1> QED BY <1>1, <1>2

\* So it always holds.
THEOREM RogoInvariant == RogoSpec => []RogoInv
<1>1. RogoInit => RogoInv
  BY RogoInvInitially
<1>2. RogoInv /\ [RogoNext]_rogoVars => RogoInv'
  BY RogoInvKept
<1> QED BY <1>1, <1>2, PTL DEF RogoSpec

(***************************************************************************)
(* What follows from it                                                    *)
(***************************************************************************)

\* A command leaves at most one call behind, and a call is about a line sent before.
LeftBehindInv ==
  /\ issued \in [Clients -> Nat]
  /\ \A c \in Clients :
       /\ Len(abandoned[c]) + (IF Idle(c) THEN 0 ELSE 1) <= issued[c]
       /\ \A k \in 1..Len(abandoned[c]) : abandoned[c][k].id < nextId

\* What a client leaves behind: nothing more, one call less, or the call that its
\* command gives up on.
Leaves(c) ==
  /\ Idle(c) => Idle(c)'
  /\ \/ abandoned'[c] = abandoned[c]
     \/ abandoned[c] # << >> /\ abandoned'[c] = Tail(abandoned[c])
     \/ ~Idle(c) /\ Idle(c)' /\ abandoned'[c] = Append(abandoned[c], Call(c))

\* The queue of a client changes at its ends.
LEMMA QueueChanges ==
  ASSUME NEW calls \in Seq(Calls), NEW call \in Calls
  PROVE  /\ Len(calls) \in Nat /\ Len(Append(calls, call)) = Len(calls) + 1
         /\ \A k \in 1..(Len(calls) + 1) :
              Append(calls, call)[k] = IF k <= Len(calls) THEN calls[k] ELSE call
         /\ calls # << >> =>
              /\ Len(Tail(calls)) = Len(calls) - 1
              /\ \A k \in 1..(Len(calls) - 1) : Tail(calls)[k] = calls[k + 1]
OBVIOUS

\* So they stay as they should be.
LEMMA LeftBehindKept ==
  ASSUME RogoInv, LeftBehindInv, issued' = issued, nextId' \in Nat, nextId <= nextId',
         \A c \in Clients : Leaves(c)
  PROVE  LeftBehindInv'
<1>1. ASSUME NEW c \in Clients
      PROVE  /\ Len(abandoned'[c]) + (IF Idle(c)' THEN 0 ELSE 1) <= issued[c]
             /\ \A k \in 1..Len(abandoned'[c]) : abandoned'[c][k].id < nextId'
  <2>1. /\ abandoned[c] \in Seq(Calls) /\ id[c] < nextId /\ nextId \in Nat
        /\ issued[c] \in Nat /\ Len(abandoned[c]) \in Nat
        /\ Len(abandoned[c]) + (IF Idle(c) THEN 0 ELSE 1) <= issued[c]
        /\ \A k \in 1..Len(abandoned[c]) : abandoned[c][k].id < nextId
    BY DEF RogoInv, ClientTypes, ClientOK, ClientShape, WireInv, WireTypes, LeftBehindInv
  <2>2. \A n \in Nat : n < nextId => n < nextId'
    BY <2>1
  <2>3. \A k \in 1..Len(abandoned[c]) : abandoned[c][k].id \in Nat
    BY <2>1 DEF Calls
  <2>4. /\ (IF Idle(c)' THEN 0 ELSE 1) \in {0, 1} /\ (IF Idle(c) THEN 0 ELSE 1) \in {0, 1}
        /\ (IF Idle(c)' THEN 0 ELSE 1) <= (IF Idle(c) THEN 0 ELSE 1)
    BY DEF Leaves, Idle
  <2>5. CASE abandoned'[c] = abandoned[c]
    <3>1. Len(abandoned'[c]) + (IF Idle(c)' THEN 0 ELSE 1) <= issued[c]
      <4>1. PICK before \in {0, 1}, after \in {0, 1} :
              before = (IF Idle(c) THEN 0 ELSE 1) /\ after = (IF Idle(c)' THEN 0 ELSE 1)
        BY <2>4
      <4>2. after <= before /\ Len(abandoned[c]) + before <= issued[c]
        BY <2>1, <2>4, <4>1
      <4>3. Len(abandoned[c]) + after <= issued[c]
        BY <2>1, <4>2
      <4> QED BY <2>5, <4>1, <4>3
    <3> QED BY <2>1, <2>2, <2>3, <2>5, <3>1
  <2>6. CASE abandoned[c] # << >> /\ abandoned'[c] = Tail(abandoned[c])
    <3>1. PICK call \in Calls : call = Head(abandoned[c])
      BY <2>1, <2>6
    <3>2. /\ Len(abandoned'[c]) = Len(abandoned[c]) - 1
          /\ \A k \in 1..(Len(abandoned[c]) - 1) : abandoned'[c][k] = abandoned[c][k + 1]
      BY <2>1, <2>6, <3>1, QueueChanges
    <3>3. \A k \in 1..(Len(abandoned[c]) - 1) : k + 1 \in 1..Len(abandoned[c])
      BY <2>1
    <3>4. Len(abandoned'[c]) + (IF Idle(c)' THEN 0 ELSE 1) <= issued[c]
      <4>1. PICK before \in {0, 1}, after \in {0, 1} :
              before = (IF Idle(c) THEN 0 ELSE 1) /\ after = (IF Idle(c)' THEN 0 ELSE 1)
        BY <2>4
      <4>2. after <= before /\ Len(abandoned[c]) + before <= issued[c]
        BY <2>1, <2>4, <4>1
      <4>3. (Len(abandoned[c]) - 1) + after <= issued[c]
        BY <2>1, <4>2
      <4> QED BY <3>2, <4>1, <4>3
    <3> QED BY <2>1, <2>2, <2>3, <3>2, <3>3, <3>4
  <2>7. CASE ~Idle(c) /\ Idle(c)' /\ abandoned'[c] = Append(abandoned[c], Call(c))
    <3>1. Call(c).id = id[c] /\ id[c] \in Nat /\ id[c] < nextId'
      BY <2>1, <2>2 DEF Call, RogoInv, ClientTypes
    <3>2. Len(Append(abandoned[c], Call(c))) = Len(abandoned[c]) + 1
      BY <2>1
    <3>3. \A k \in 1..(Len(abandoned[c]) + 1) :
            Append(abandoned[c], Call(c))[k] = IF k <= Len(abandoned[c]) THEN abandoned[c][k] ELSE Call(c)
      BY <2>1
    <3>4. Len(abandoned'[c]) + (IF Idle(c)' THEN 0 ELSE 1) <= issued[c]
      <4>1. (IF Idle(c)' THEN 0 ELSE 1) = 0 /\ (IF Idle(c) THEN 0 ELSE 1) = 1
        BY <2>7
      <4> QED BY <2>1, <2>7, <3>2, <4>1
    <3> QED BY <2>1, <2>2, <2>3, <2>7, <3>1, <3>2, <3>3, <3>4
  <2> QED BY <2>5, <2>6, <2>7 DEF Leaves
<1> QED BY <1>1 DEF LeftBehindInv

\* Moves() takes no command up again.
LEMMA IdleStays ==
  ASSUME NEW result, Moves(result), NEW c \in Clients, Idle(c)
  PROVE  Idle(c)'
BY DEF Moves, Idle

\* The robot, the link and the worker leave the queues alone, but for a call whose
\* wait ends.
LEMMA OutsideLeaves ==
  ASSUME RogoInv, RobotTakes \/ RobotFinishes \/ LinkCloses \/ WorkerWaits, NEW c \in Clients
  PROVE  Leaves(c) /\ issued' = issued /\ nextId' \in {nextId, nextId + 1}
<1>1. CASE RobotTakes \/ RobotFinishes \/ LinkCloses \/ HeldPumps \/ HeldPolls
  <2>1. UNCHANGED <<scriptVars, abandoned, issued>>
    BY <1>1 DEF RobotTakes, RobotFinishes, LinkCloses, HeldPumps, HeldPolls, clientVars
  <2>2. nextId' \in {nextId, nextId + 1}
    BY <1>1 DEF RobotTakes, RobotFinishes, LinkCloses, HeldPumps, HeldPolls, sessionVars, Consume,
       Assign
  <2> QED BY <2>1, <2>2 DEF Leaves, Idle, scriptVars
<1>2. CASE HeldReturns \/ HeldTimesOut \/ HeldCloses
  <2>1. PICK o : WaitEnds(o)
    BY <1>2 DEF HeldReturns, HeldTimesOut, HeldCloses
  <2>2. issued' = issued /\ nextId' = nextId /\ DOMAIN abandoned = Clients
    BY <2>1 DEF WaitEnds, sessionVars, RogoInv, ClientTypes
  <2>3. CASE abandoned[held] = << >>
    <3>1. abandoned' = abandoned /\ \E result : Moves(result)
      BY <2>1, <2>3 DEF WaitEnds, Proceed
    <3> QED BY <2>2, <3>1, IdleStays DEF Leaves
  <2>4. CASE abandoned[held] # << >>
    <3>1. abandoned' = [abandoned EXCEPT ![held] = Tail(abandoned[held])] /\ command' = command
      BY <2>1, <2>4 DEF WaitEnds, Stay, scriptVars
    <3>2. /\ c = held => abandoned'[c] = Tail(abandoned[c])
          /\ c # held => abandoned'[c] = abandoned[c]
      BY <2>2, <3>1
    <3> QED BY <2>2, <2>4, <3>1, <3>2 DEF Leaves, Idle
  <2> QED BY <2>3, <2>4
<1> QED BY <1>1, <1>2 DEF WorkerWaits

\* So does a client, but for a call that it gives up on or that is served at last.
LEMMA ClientLeaves ==
  ASSUME RogoInv, NEW d \in Clients, NEW c \in Clients,
         \/ CallsSession(d) \/ DoesStream(d) \/ Interrupted(d) \/ GivesUp(d) \/ LeftServed(d)
         \/ Loads(d) \/ Asks(d) \/ Saves(d) \/ Truncates(d) \/ Writes(d)
  PROVE  Leaves(c) /\ issued' = issued /\ nextId' \in {nextId, nextId + 1}
<1>1. DOMAIN abandoned = Clients
  BY DEF RogoInv, ClientTypes
<1>2. CASE Loads(d) \/ Asks(d) \/ Saves(d) \/ Truncates(d) \/ Writes(d)
  <2>1. UNCHANGED <<abandoned, issued, nextId>>
    BY <1>2 DEF Loads, Asks, Saves, Truncates, Writes, LocalUnchanged, clientVars, sessionVars
  <2>2. command' = command \/ \E result : Moves(result)
    BY <1>2 DEF Loads, Asks, Saves, Truncates, Writes, Proceed, Stay, ToTheEnd, scriptVars
  <2> QED BY <2>1, <2>2, IdleStays DEF Leaves, Idle
<1>3. CASE \/ DoesSend(d) \/ DoesSay(d) \/ DoesPumpUntil(d) \/ DoesPump(d) \/ DoesDrain(d)
           \/ DoesPace(d) \/ Waits(d) \/ FailsClosed(d) \/ DoesStream(d) \/ Interrupted(d)
  <2>1. abandoned' = abandoned /\ issued' = issued
    BY <1>3 DEF DoesSend, DoesSay, DoesPumpUntil, DoesPump, DoesDrain, DoesPace, Waits, FailsClosed,
       DoesStream, Interrupted, clientVars
  <2>2. nextId' \in {nextId, nextId + 1}
    BY <1>3 DEF DoesSend, DoesSay, DoesPumpUntil, DoesPump, DoesDrain, DoesPace, Waits, FailsClosed,
       DoesStream, Interrupted, sessionVars, Consume, Assign
  <2>3. command' = command \/ \E result : Moves(result)
    BY <1>3 DEF DoesSend, DoesSay, DoesPumpUntil, DoesPump, DoesDrain, DoesPace, Waits, FailsClosed,
       DoesStream, Interrupted, Proceed, Stay, scriptVars
  <2> QED BY <2>1, <2>2, <2>3, IdleStays DEF Leaves, Idle
<1>4. CASE BargesIn(d)
  <2>1. issued' = issued /\ nextId' = nextId /\ \E result : Moves(result)
    BY <1>4 DEF BargesIn, sessionVars, Proceed
  <2>2. \/ abandoned' = abandoned
        \/ /\ abandoned[held] # << >>
           /\ abandoned' = [abandoned EXCEPT ![held] = Tail(abandoned[held])]
    BY <1>4 DEF BargesIn
  <2>3. \/ abandoned'[c] = abandoned[c]
        \/ abandoned[c] # << >> /\ abandoned'[c] = Tail(abandoned[c])
    BY <1>1, <2>2
  <2> QED BY <2>1, <2>3, IdleStays DEF Leaves
<1>5. CASE GivesUp(d)
  <2>1. /\ issued' = issued /\ nextId' = nextId /\ ~Idle(d) /\ Proceed(d, "raised")
        /\ abandoned' = [abandoned EXCEPT ![d] = Append(abandoned[d], Call(d))]
    BY <1>5 DEF GivesUp, sessionVars
  <2>2. Advances(d, "raised")
    <3>1. PICK o : o = "raised"
      OBVIOUS
    <3> QED BY <2>1, <3>1, Proceeds DEF OutcomeOf
  <2>3. Idle(d)'
    BY <2>2 DEF Advances, Idle
  <2>4. /\ c = d => abandoned'[c] = Append(abandoned[c], Call(c))
        /\ c # d => abandoned'[c] = abandoned[c]
    BY <1>1, <2>1
  <2>5. Idle(c) => Idle(c)'
    BY <2>1, IdleStays DEF Proceed
  <2> QED BY <2>1, <2>3, <2>4, <2>5 DEF Leaves
<1>6. CASE LeftServed(d)
  <2>1. issued' = issued /\ command' = command /\ abandoned[d] # << >>
    BY <1>6 DEF LeftServed, scriptVars
  <2>2. abandoned' = abandoned \/ abandoned' = [abandoned EXCEPT ![d] = Tail(abandoned[d])]
    BY <1>6 DEF LeftServed
  <2>3. nextId' \in {nextId, nextId + 1}
    BY <1>6 DEF LeftServed, sessionVars, Consume, Assign
  <2>4. abandoned'[c] = abandoned[c] \/ (c = d /\ abandoned'[c] = Tail(abandoned[c]))
    BY <1>1, <2>2
  <2> QED BY <2>1, <2>3, <2>4 DEF Leaves, Idle
<1> QED BY <1>2, <1>3, <1>4, <1>5, <1>6 DEF CallsSession

\* A command begins, and is one more that may leave a call behind.
LEMMA BeginLeaves ==
  ASSUME RogoInv, LeftBehindInv, NEW c \in Clients, NEW name \in Offered(c), Begin(c, name)
  PROVE  LeftBehindInv'
<1>1. /\ Idle(c) /\ issued' = [issued EXCEPT ![c] = issued[c] + 1]
      /\ abandoned' = abandoned /\ nextId' = nextId /\ command' = [command EXCEPT ![c] = name]
  BY DEF Begin, sessionVars
<1>2. /\ issued \in [Clients -> Nat] /\ DOMAIN command = Clients
      /\ abandoned \in [Clients -> Seq(Calls)]
  BY DEF LeftBehindInv, RogoInv, ClientTypes
<1>3. ASSUME NEW d \in Clients
      PROVE  /\ issued[d] \in Nat /\ Len(abandoned[d]) \in Nat
             /\ Len(abandoned[d]) + (IF Idle(d) THEN 0 ELSE 1) <= issued[d]
  BY <1>2 DEF LeftBehindInv
<1>4. ASSUME NEW d \in Clients
      PROVE  Len(abandoned'[d]) + (IF Idle(d)' THEN 0 ELSE 1) <= issued'[d]
  <2>1. CASE d = c
    <3>1. issued'[d] = issued[d] + 1 /\ Len(abandoned'[d]) <= issued[d]
      <4>1. PICK before \in {0, 1} : before = (IF Idle(d) THEN 0 ELSE 1)
        BY DEF Idle
      <4>2. Len(abandoned[d]) + before <= issued[d]
        BY <1>3, <4>1
      <4>3. Len(abandoned[d]) \in Nat /\ issued[d] \in Nat
        BY <1>3
      <4>4. Len(abandoned[d]) <= issued[d]
        BY <4>2, <4>3
      <4>5. issued'[d] = issued[d] + 1 /\ abandoned'[d] = abandoned[d]
        BY <1>1, <1>2, <2>1
      <4> QED BY <4>4, <4>5
    <3>2. (IF Idle(d)' THEN 0 ELSE 1) \in {0, 1}
      BY DEF Idle
    <3>3. PICK after \in {0, 1} : after = (IF Idle(d)' THEN 0 ELSE 1)
      BY <3>2
    <3>4. abandoned'[d] = abandoned[d]
      BY <1>1
    <3>5. Len(abandoned[d]) <= issued[d] /\ issued[d] \in Nat /\ Len(abandoned[d]) \in Nat
      BY <1>3, <3>1, <3>4
    <3>6. Len(abandoned[d]) + after <= issued[d] + 1
      BY <3>5
    <3> QED BY <3>1, <3>3, <3>4, <3>6
  <2>2. CASE d # c
    <3>1. issued'[d] = issued[d] /\ command'[d] = command[d]
      BY <1>1, <1>2, <2>2
    <3> QED BY <1>1, <1>3, <3>1 DEF Idle
  <2> QED BY <2>1, <2>2
<1>5. issued' \in [Clients -> Nat]
  BY <1>1, <1>2, <1>3
<1> QED BY <1>1, <1>4, <1>5 DEF LeftBehindInv

\* Every variable stays within its type, whoever shares the Session; the worker only
\* ever stays in a wait; and the calls still queued of the commands that gave up are
\* one of each at most, none an ESTOP (cli.py:130-160, daemon_client.py:295-365).
THEOREM RogoTypeCorrect == RogoSpec => []SharedTypeOK
<1>1. ASSUME RogoInv, LeftBehindInv PROVE SharedTypeOK
  <2>1. WireInv /\ ClientTypes
    BY <1>1 DEF RogoInv
  <2>2. /\ nextId \in Nat \ {0} /\ acked \in Nat /\ hostDone \in Nat /\ lastDone \in Nat
        /\ Len(log) \in Nat /\ Len(log) < nextId /\ acked <= Len(log) /\ hostDone <= lastDone
        /\ lastDone <= Len(log) /\ expectedNext \in {1, Len(log) + 1}
        /\ latched \in BOOLEAN /\ linkUp \in BOOLEAN
    BY <2>1 DEF WireInv, WireTypes, WireInOrder, MotionsInOrder, RepliesAreTrue
  <2>3. acked < nextId /\ hostDone < nextId /\ expectedNext \in 1..nextId
    BY <2>2
  <2>4. ASSUME NEW c \in Clients
        PROVE  /\ Idle(c) <=> todo[c] = << >>
               /\ id[c] \in 0..(nextId - 1) /\ samples[c] \in Nat
               /\ Len(abandoned[c]) + (IF Idle(c) THEN 0 ELSE 1) <= issued[c]
               /\ \A k \in 1..Len(abandoned[c]) :
                    /\ abandoned[c][k].do \in SessionCalls /\ abandoned[c][k].what # "ESTOP"
                    /\ abandoned[c][k].id < nextId
    <3>1. ClientShape(c)
      BY <1>1 DEF RogoInv, ClientOK
    <3>2. id[c] \in Nat /\ samples[c] \in Nat /\ abandoned[c] \in Seq(Calls)
      BY <2>1 DEF ClientTypes
    <3>3. id[c] < nextId
      BY <3>1 DEF ClientShape
    <3>4. id[c] \in 0..(nextId - 1)
      BY <2>2, <3>2, <3>3
    <3>5. \A k \in 1..Len(abandoned[c]) : abandoned[c][k] \in Calls
      BY <3>2
    <3>6. \A k \in 1..Len(abandoned[c]) :
            abandoned[c][k].do \in SessionCalls /\ abandoned[c][k].what # "ESTOP"
      BY <3>5 DEF Calls
    <3> QED BY <1>1, <3>1, <3>2, <3>4, <3>6 DEF ClientShape, LeftBehindInv
  <2>5. held \in Clients \cup {Nobody}
    BY <2>1 DEF ClientTypes, Senders
  <2>6. held # Nobody => HeldCall.do = "wait"
    BY <1>1 DEF RogoInv, HeldWaits, HeldCall, Call
  <2> QED BY <2>2, <2>3, <2>4, <2>5, <2>6 DEF SharedTypeOK
<1>2. RogoInit => LeftBehindInv
  <2> SUFFICES ASSUME RogoInit PROVE LeftBehindInv
    OBVIOUS
  <2>1. /\ issued = [c \in Clients |-> 0] /\ abandoned = [c \in Clients |-> << >>]
        /\ command = [c \in Clients |-> "none"] /\ nextId = 1
    BY DEF RogoInit
  <2>2. Len(<< >>) = 0
    OBVIOUS
  <2> QED BY <2>1, <2>2 DEF LeftBehindInv, Idle
<1>3. RogoInv /\ LeftBehindInv /\ [RogoNext]_rogoVars => LeftBehindInv'
  <2> SUFFICES ASSUME RogoInv, LeftBehindInv, [RogoNext]_rogoVars PROVE LeftBehindInv'
    OBVIOUS
  <2>1. nextId \in Nat
    BY DEF RogoInv, WireInv, WireTypes
  <2>2. ASSUME \A c \in Clients : Leaves(c), issued' = issued, nextId' \in {nextId, nextId + 1}
        PROVE  LeftBehindInv'
    BY <2>1, <2>2, LeftBehindKept
  <2>3. CASE RobotTakes \/ RobotFinishes \/ LinkCloses \/ WorkerWaits
    <3>1. CASE Clients = {}
      <4>1. issued' = issued
        BY <2>3 DEF RobotTakes, RobotFinishes, LinkCloses, WorkerWaits, HeldReturns, HeldPumps,
           HeldPolls, HeldTimesOut, HeldCloses, WaitEnds, clientVars
      <4> QED BY <3>1, <4>1 DEF LeftBehindInv
    <3>2. CASE Clients # {}
      BY <2>2, <2>3, <3>2, OutsideLeaves
    <3> QED BY <3>1, <3>2
  <2>4. ASSUME NEW c \in Clients, NEW name \in Offered(c), Begin(c, name) PROVE LeftBehindInv'
    BY <2>4, BeginLeaves
  <2>5. ASSUME NEW c \in Clients,
               \/ CallsSession(c) \/ DoesStream(c) \/ Interrupted(c) \/ GivesUp(c) \/ LeftServed(c)
               \/ Loads(c) \/ Asks(c) \/ Saves(c) \/ Truncates(c) \/ Writes(c)
        PROVE  LeftBehindInv'
    BY <2>2, <2>5, ClientLeaves
  <2>6. CASE UNCHANGED rogoVars
    <3>1. UNCHANGED <<issued, abandoned, command, nextId>>
      BY <2>6 DEF rogoVars, clientVars, scriptVars, sessionVars
    <3> QED BY <3>1 DEF LeftBehindInv, Idle
  <2> QED BY <2>3, <2>4, <2>5, <2>6 DEF RogoNext
<1> QED BY <1>1, <1>2, <1>3, RogoInvariant, PTL DEF RogoSpec

\* A command tells its user that the robot took its line only if the robot
\* executed that very line, and that it was rejected only if it was, whoever
\* pumped the replies (cli.py:167-201, 241-258, mcp_server.py:171-236).
THEOREM ReportsCorrect == RogoSpec => []ReportsAreTrue
<1>1. ASSUME RogoInv PROVE ReportsAreTrue
  <2> SUFFICES ASSUME NEW c \in Clients, report[c] \in SuccessReports
               PROVE  /\ id[c] \in 1..Len(log) /\ log[id[c]].by = c
                      /\ report[c] \in {"warned", "refused"} => log[id[c]].verdict = "rejected"
    BY DEF ReportsAreTrue
  <2>1. /\ acked \in Nat /\ Len(log) \in Nat /\ acked <= Len(log) /\ id[c] \in Nat
    BY <1>1 DEF RogoInv, WireInv, WireTypes, RepliesAreTrue, ClientTypes
  <2>2. /\ id[c] # 0 /\ id[c] <= acked /\ LineIsOf(c, id[c])
        /\ (report[c] \in {"warned", "refused"} => ErrOf(id[c]))
    BY <1>1 DEF RogoInv, ClientOK, ReportHolds, ClientShape
  <2>3. id[c] \in 1..Len(log)
    BY <2>1, <2>2
  <2>4. ~NeverExecuted(id[c])
    BY <2>1, <2>3 DEF NeverExecuted
  <2> QED BY <2>2, <2>3, <2>4 DEF LineIsOf, ErrOf
<1> QED BY <1>1, RogoInvariant, PTL

\* When a drive reports done, neither it nor anything sent before it is still to
\* be driven; when a stop is acknowledged, nothing sent before it is
\* (cli.py:300-311, 433-452, reliability.py:335-373).
THEOREM EndedIsOver == RogoSpec => []WhatEndedIsOver
<1>1. ASSUME RogoInv PROVE WhatEndedIsOver
  <2> SUFFICES ASSUME NEW c \in Clients, NEW n \in {active} \cup Range(queue),
                      report[c] \in {"done", "stopped"}, n # 0
               PROVE  n > id[c]
    BY DEF WhatEndedIsOver
  <2>1. WireInv /\ ClientTypes /\ ClientOK(c)
    BY <1>1 DEF RogoInv
  <2>2. /\ active \in Nat /\ queue \in Seq(Nat) /\ Len(queue) \in Nat /\ lastDone \in Nat
        /\ acked \in Nat /\ Len(log) \in Nat /\ acked <= Len(log)
    BY <2>1 DEF WireInv, WireTypes, RepliesAreTrue
  <2>3. \A k \in 1..Len(queue) : queue[k] \in Nat
    BY <2>2
  <2>4. n = active \/ \E k \in 1..Len(queue) : n = queue[k]
    BY <2>2 DEF Range
  <2>5. active # 0
    BY <2>1, <2>2, <2>4 DEF WireInv, MotionsInOrder
  <2>6. id[c] \in Nat /\ id[c] # 0 /\ id[c] <= acked
    BY <2>1 DEF ClientTypes, ClientOK, ReportHolds, SuccessReports
  <2>7. CASE report[c] = "done"
    <3>1. id[c] <= lastDone /\ lastDone < active /\ \A k \in 1..Len(queue) : active < queue[k]
      BY <2>1, <2>5, <2>7 DEF ClientOK, ReportHolds, WireInv, MotionsInOrder
    <3> QED BY <2>2, <2>3, <2>4, <2>6, <3>1
  <2>8. CASE report[c] = "stopped"
    <3>1. id[c] \in 1..Len(log)
      BY <2>2, <2>6
    <3>2. log[id[c]].verb = "STOP"
      BY <2>1, <2>8, <3>1 DEF ClientOK, ReportHolds, LineIsStop
    <3>3. id[c] < active /\ \A k \in 1..Len(queue) : id[c] < queue[k]
      BY <2>1, <2>5, <3>1, <3>2 DEF WireInv, StopEndsAll
    <3> QED BY <2>2, <2>3, <2>4, <2>6, <3>3
  <2> QED BY <2>7, <2>8
<1> QED BY <1>1, RogoInvariant, PTL

(***************************************************************************)
(* What goes unacknowledged has a cause                                    *)
(***************************************************************************)

\* What NothingIsLost is about.
lines == <<linkUp, spoiled, expectedNext, log, nextId, toRobot, toHost, acked>>

\* A line sent is under way.
LEMMA SentIsNotLost ==
  ASSUME WireInv, NothingIsLost, NEW v, NEW n, NEW c,
         toRobot' = Append(toRobot, Line(v, n, c)),
         \/ nextId' = nextId + 1 /\ n = nextId
         \/ nextId' = nextId,
         UNCHANGED <<linkUp, spoiled, expectedNext, log, toHost, acked>>
  PROVE  NothingIsLost'
<1> SUFFICES ASSUME linkUp, spoiled = {}
             PROVE  /\ expectedNext = Len(log) + 1
                    /\ \A m \in (Len(log) + 1)..(nextId' - 1) :
                         \E k \in 1..Len(toRobot') : toRobot'[k].id = m
                    /\ \/ acked = Len(log)
                       \/ \E k \in 1..Len(toHost) : toHost[k].kind = "ack" /\ toHost[k].n = Len(log)
  BY DEF NothingIsLost
<1>1. nextId \in Nat /\ toRobot \in Seq(LineSet) /\ Len(toRobot) \in Nat /\ Len(log) \in Nat
  BY DEF WireInv, WireTypes
<1> DEFINE l == Line(v, n, c)
<1>2. /\ Len(toRobot') = Len(toRobot) + 1 /\ toRobot'[Len(toRobot) + 1].id = n
      /\ \A k \in 1..Len(toRobot) : toRobot'[k] = toRobot[k]
  <2>1. l.id = n /\ toRobot' = Append(toRobot, l)
    BY DEF Line
  <2> HIDE DEF l
  <2> QED BY <1>1, <2>1
<1>3. ASSUME NEW m \in (Len(log) + 1)..(nextId' - 1)
      PROVE  \E k \in 1..Len(toRobot') : toRobot'[k].id = m
  <2>1. CASE m \in (Len(log) + 1)..(nextId - 1)
    <3>1. PICK k \in 1..Len(toRobot) : toRobot[k].id = m
      BY <2>1 DEF NothingIsLost
    <3>2. k \in 1..Len(toRobot')
      BY <1>1, <1>2
    <3> QED BY <1>2, <3>1, <3>2
  <2>2. CASE m \notin (Len(log) + 1)..(nextId - 1)
    <3>1. m = n
      BY <1>1, <2>2
    <3>2. Len(toRobot) + 1 \in 1..Len(toRobot')
      BY <1>1, <1>2
    <3> QED BY <1>2, <3>1, <3>2
  <2> QED BY <2>1, <2>2
<1> QED BY <1>3 DEF NothingIsLost

\* An ack read is the Session's, one not read is still to be.
LEMMA ReadIsNotLost ==
  ASSUME WireInv, WireInv', NothingIsLost, NEW k \in 0..Len(toHost), Consume(k),
         UNCHANGED <<linkUp, spoiled, expectedNext, log>>
  PROVE  NothingIsLost'
<1> SUFFICES ASSUME linkUp, spoiled = {}
             PROVE  /\ expectedNext = Len(log) + 1
                    /\ \A n \in (Len(log) + 1)..(nextId - 1) :
                         \E i \in 1..Len(toRobot) : toRobot[i].id = n
                    /\ \/ acked' = Len(log)
                       \/ \E i \in 1..Len(toHost') : toHost'[i].kind = "ack" /\ toHost'[i].n = Len(log)
  BY DEF NothingIsLost, Consume
<1>1. /\ acked \in Nat /\ acked' \in Nat /\ Len(log) \in Nat /\ acked' <= Len(log)
      /\ toHost \in Seq(ReplySet) /\ Len(toHost) \in Nat
  BY DEF WireInv, WireTypes, RepliesAreTrue
<1>2. toHost' = SubSeq(toHost, k + 1, Len(toHost)) /\ Handles(k)
  BY DEF Consume
<1>3. acked <= acked' /\ \A i \in 1..k : toHost[i].kind = "ack" => toHost[i].n <= acked'
  BY <1>2 DEF Handles
<1>4. /\ Len(toHost') = Len(toHost) - k
      /\ \A j \in 1..(Len(toHost) - k) : k + j \in 1..Len(toHost) /\ toHost'[j] = toHost[k + j]
  BY <1>1, <1>2, RepliesLeft
<1>5. CASE acked = Len(log)
  BY <1>1, <1>3, <1>5 DEF NothingIsLost
<1>6. ASSUME NEW i \in 1..Len(toHost), toHost[i].kind = "ack", toHost[i].n = Len(log)
      PROVE  \/ acked' = Len(log)
             \/ \E j \in 1..Len(toHost') : toHost'[j].kind = "ack" /\ toHost'[j].n = Len(log)
  <2>1. CASE i \in 1..k
    BY <1>1, <1>3, <1>6, <2>1
  <2>2. CASE i \notin 1..k
    <3>1. i - k \in 1..(Len(toHost) - k) /\ k + (i - k) = i /\ i - k \in 1..Len(toHost')
      BY <1>1, <1>4, <2>2
    <3> QED BY <1>4, <1>6, <3>1
  <2> QED BY <2>1, <2>2
<1> QED BY <1>5, <1>6 DEF NothingIsLost

\* What is said first comes right after what was said before.
LEMMA FirstOfTheRest ==
  ASSUME NEW s \in Seq(ReplySet), NEW a \in ReplySet, NEW t \in Seq(ReplySet)
  PROVE  /\ Len(s) + 1 \in 1..Len(s \o (<<a>> \o t)) /\ (s \o (<<a>> \o t))[Len(s) + 1] = a
<1> DEFINE u == <<a>> \o t
<1>1. u \in Seq(ReplySet) /\ Len(u) = 1 + Len(t) /\ u[1] = a /\ Len(t) \in Nat /\ Len(s) \in Nat
  OBVIOUS
<1> HIDE DEF u
<1>2. Len(s \o u) = Len(s) + Len(u) /\ (s \o u)[Len(s) + 1] = u[1]
  BY <1>1
<1>3. Len(s) + 1 \in 1..Len(s \o u) /\ (s \o u)[Len(s) + 1] = a
  BY <1>1, <1>2
<1> QED BY <1>3 DEF u

\* The robot takes the next line, which is never one too far, and acknowledges it.
LEMMA TakenIsNotLost ==
  ASSUME WireInv, NothingIsLost, RobotTakes
  PROVE  NothingIsLost'
<1> SUFFICES ASSUME linkUp, spoiled' = {}
             PROVE  /\ expectedNext' = Len(log') + 1
                    /\ \A n \in (Len(log') + 1)..(nextId - 1) :
                         \E k \in 1..Len(toRobot') : toRobot'[k].id = n
                    /\ \/ acked = Len(log')
                       \/ \E k \in 1..Len(toHost') : toHost'[k].kind = "ack" /\ toHost'[k].n = Len(log')
  BY DEF NothingIsLost, RobotTakes, sessionVars
<1> DEFINE line == Head(toRobot)
<1>1. /\ toRobot \in Seq(LineSet) /\ toRobot # << >> /\ toRobot' = Tail(toRobot)
      /\ nextId \in Nat /\ acked \in Nat /\ log \in Seq(LogSet) /\ Len(log) \in Nat
      /\ toHost \in Seq(ReplySet) /\ Len(toHost) \in Nat /\ Len(log) < nextId
  BY DEF WireInv, WireTypes, WireInOrder, RobotTakes
<1>2. /\ Len(toRobot) \in Nat \ {0} /\ Len(toRobot') = Len(toRobot) - 1 /\ line = toRobot[1]
      /\ \A k \in 1..Len(toRobot') : k + 1 \in 1..Len(toRobot) /\ toRobot'[k] = toRobot[k + 1]
      /\ 1 \in 1..Len(toRobot)
  BY <1>1, FewerLines
<1>3. \A k \in 2..Len(toRobot) : k - 1 \in 1..Len(toRobot') /\ toRobot'[k - 1] = toRobot[k]
  <2> TAKE k \in 2..Len(toRobot)
  <2>1. k - 1 \in 1..Len(toRobot') /\ (k - 1) + 1 = k
    BY <1>2
  <2> QED BY <1>2, <2>1
<1>4. /\ line.id < nextId /\ (line.id # 0 => Len(log) < line.id) /\ line.id \in Nat
      /\ \A k \in 2..Len(toRobot) : toRobot[k].id # 0 => line.id < toRobot[k].id
      /\ (line.id = 0 <=> line.verb \in Unsequenced)
  <2>1. line \in LineSet
    BY <1>1, <1>2
  <2>2. \A k \in 2..Len(toRobot) : k \in 1..Len(toRobot) /\ 1 \in 1..(k - 1)
    BY <1>2
  <2> QED BY <1>2, <2>1, <2>2 DEF WireInv, WireInOrder, LineSet
<1> HIDE DEF line
<1>5. spoiled = {}
  BY DEF RobotTakes, TakesEstop, TakesHello, TakesGap, TakesUndecodable, TakesNext, SimMoves,
         KernelMoves, RobotStops, RobotConfigures, RobotTellsStatus, Executes
<1>6. /\ expectedNext = Len(log) + 1
      /\ \A n \in (Len(log) + 1)..(nextId - 1) : \E k \in 1..Len(toRobot) : toRobot[k].id = n
      /\ acked = Len(log) \/ \E k \in 1..Len(toHost) : toHost[k].kind = "ack" /\ toHost[k].n = Len(log)
  BY <1>5 DEF NothingIsLost
<1>7. ASSUME line.id = 0 \/ line.id = Len(log) + 1,
             NEW n \in (Len(log) + 1)..(nextId - 1), n # line.id
      PROVE  \E k \in 1..Len(toRobot') : toRobot'[k].id = n
  <2>1. PICK k \in 1..Len(toRobot) : toRobot[k].id = n
    BY <1>6
  <2>2. k \in 2..Len(toRobot)
    BY <1>2, <1>7, <2>1 DEF line
  <2> QED BY <1>3, <2>1, <2>2
<1>8. ASSUME NEW r \in ReplySet, toHost' = toHost \o <<r>>, log' = log, line.id = 0,
             expectedNext' = Len(log) + 1
      PROVE  /\ expectedNext' = Len(log') + 1
             /\ \A n \in (Len(log') + 1)..(nextId - 1) :
                  \E k \in 1..Len(toRobot') : toRobot'[k].id = n
             /\ \/ acked = Len(log')
                \/ \E k \in 1..Len(toHost') : toHost'[k].kind = "ack" /\ toHost'[k].n = Len(log')
  <2>1. \A n \in (Len(log) + 1)..(nextId - 1) : n # line.id
    BY <1>1, <1>8
  <2>2. \A k \in 1..Len(toHost) : k \in 1..Len(toHost') /\ toHost'[k] = toHost[k]
    BY <1>1, <1>8
  <2> QED BY <1>6, <1>7, <1>8, <2>1, <2>2
<1>9. CASE TakesEstop(line)
  <2>1. "estop" \in Kinds /\ Nobody \in Senders /\ 0 \in Nat
    BY DEF Kinds, Senders
  <2> DEFINE r == Reply("estop", 0, 0, Nobody)
  <2>2. r \in ReplySet
    BY <2>1, ReplyShape
  <2>3. toHost' = toHost \o <<r>> /\ log' = log /\ line.id = 0 /\ expectedNext' = Len(log) + 1
    BY <1>4, <1>6, <1>9 DEF TakesEstop, Answer, Unsequenced
  <2> HIDE DEF r
  <2> QED BY <1>8, <2>2, <2>3
<1>10. CASE TakesHello(line)
  <2>1. "device" \in Kinds /\ Nobody \in Senders /\ 0 \in Nat
    BY DEF Kinds, Senders
  <2> DEFINE r == Reply("device", 0, 0, Nobody)
  <2>2. r \in ReplySet
    BY <2>1, ReplyShape
  <2>3. ~(nextId > 1)
    BY <1>10 DEF TakesHello
  <2>4. Len(log) = 0
    BY <1>1, <2>3
  <2>5. toHost' = toHost \o <<r>> /\ log' = log /\ line.id = 0 /\ expectedNext' = Len(log) + 1
    BY <1>4, <1>10, <2>4 DEF TakesHello, Answer, Unsequenced
  <2> HIDE DEF r
  <2> QED BY <1>8, <2>2, <2>5
<1>11. ~TakesGap(line)
  <2> SUFFICES ASSUME TakesGap(line) PROVE FALSE
    OBVIOUS
  <2>1. line.id > Len(log) + 1
    BY <1>6 DEF TakesGap
  <2>2. Len(log) + 1 \in (Len(log) + 1)..(nextId - 1)
    BY <1>1, <1>4, <2>1
  <2>3. PICK k \in 1..Len(toRobot) : toRobot[k].id = Len(log) + 1
    BY <1>6, <2>2
  <2>4. k \in 2..Len(toRobot) /\ toRobot[k].id # 0
    BY <1>1, <1>2, <2>1, <2>3 DEF line
  <2> QED BY <1>1, <1>4, <2>1, <2>3, <2>4
<1>12. ~TakesUndecodable(line)
  BY DEF TakesUndecodable
<1>13. CASE TakesNext(line)
  <2>1. line.by \in Senders /\ lastDone \in Nat /\ line.verb \in Whats
    <3>1. line \in LineSet
      BY <1>1, <1>2 DEF line
    <3> QED BY <3>1 DEF LineSet, WireInv, WireTypes
  <2>2. "err" \in Kinds /\ "get" \in Kinds /\ "ack" \in Kinds /\ 0 \in Nat
    BY DEF Kinds
  <2>3. /\ << >> \in Seq(ReplySet) /\ Err(line) \in Seq(ReplySet)
        /\ <<Reply("get", 0, 0, line.by)>> \in Seq(ReplySet)
        /\ Reply("ack", line.id, lastDone, line.by) \in ReplySet
    <3>1. /\ Reply("err", line.id, 0, line.by) \in ReplySet /\ Reply("get", 0, 0, line.by) \in ReplySet
          /\ Reply("ack", line.id, lastDone, line.by) \in ReplySet
      BY <1>4, <2>1, <2>2, ReplyShape
    <3> HIDE DEF line
    <3>2. /\ <<Reply("err", line.id, 0, line.by)>> \in Seq(ReplySet)
          /\ <<Reply("get", 0, 0, line.by)>> \in Seq(ReplySet)
      BY <3>1, OneOrTwo
    <3> QED BY <3>1, <3>2 DEF Err
  <2>4. PICK more \in Seq(ReplySet), verdict \in Verdicts : Executes(line, verdict, more)
    <3>1. CASE SimMoves(line)
      BY <2>3, <3>1 DEF SimMoves, Verdicts
    <3>2. CASE KernelMoves(line)
      BY <2>3, <3>2 DEF KernelMoves, Verdicts
    <3>3. CASE RobotStops(line)
      BY <2>3, <3>3 DEF RobotStops, Verdicts
    <3>4. CASE RobotConfigures(line)
      <4>1. PICK more \in {<<Reply("get", 0, 0, line.by)>>, << >>, Err(line)},
                 verdict \in {"ok", "nothing", "rejected"} : Executes(line, verdict, more)
        BY <3>4 DEF RobotConfigures
      <4> QED BY <2>3, <4>1 DEF Verdicts
    <3>5. CASE RobotTellsStatus(line)
      BY <2>3, <3>5 DEF RobotTellsStatus, Verdicts
    <3> QED BY <1>13, <3>1, <3>2, <3>3, <3>4, <3>5 DEF TakesNext
  <2> DEFINE ack == Reply("ack", line.id, lastDone, line.by)
             e == [verb |-> line.verb, by |-> line.by, verdict |-> verdict]
  <2>5. /\ expectedNext' = line.id + 1 /\ log' = Append(log, e)
        /\ toHost' = toHost \o (<<ack>> \o more) /\ line.id = Len(log) + 1
    BY <1>6, <1>13, <2>4 DEF Executes, Answer, TakesNext
  <2>6. ack \in ReplySet /\ ack.kind = "ack" /\ ack.n = line.id
    BY <1>4, <2>1, <2>2, ReplyShape
  <2> HIDE DEF e, ack
  <2>7. Len(log') = Len(log) + 1
    BY <1>1, <2>5
  <2>8. Len(toHost) + 1 \in 1..Len(toHost') /\ toHost'[Len(toHost) + 1] = ack
    BY <1>1, <2>5, <2>6, FirstOfTheRest
  <2>9. \A n \in (Len(log') + 1)..(nextId - 1) :
          n \in (Len(log) + 1)..(nextId - 1) /\ n # line.id
    BY <1>1, <2>5, <2>7
  <2> QED BY <1>7, <2>5, <2>6, <2>7, <2>8, <2>9
<1> QED BY <1>9, <1>10, <1>11, <1>12, <1>13 DEF RobotTakes, line

\* What a step does to the lines and their acks.
LEMMA LinesMove ==
  ASSUME RogoInv, [RogoNext]_rogoVars
  PROVE  \/ UNCHANGED lines
         \/ RobotTakes
         \/ linkUp' = FALSE
         \/ /\ \E v, n, c : /\ toRobot' = Append(toRobot, Line(v, n, c))
                            /\ (nextId' = nextId + 1 /\ n = nextId) \/ nextId' = nextId
            /\ UNCHANGED <<linkUp, spoiled, expectedNext, log, toHost, acked>>
         \/ /\ \E k \in 0..Len(toHost) : Consume(k)
            /\ UNCHANGED <<linkUp, spoiled, expectedNext, log>>
<1> DEFINE Sent == /\ \E v, n, c : /\ toRobot' = Append(toRobot, Line(v, n, c))
                                   /\ (nextId' = nextId + 1 /\ n = nextId) \/ nextId' = nextId
                   /\ UNCHANGED <<linkUp, spoiled, expectedNext, log, toHost, acked>>
           Read == /\ \E k \in 0..Len(toHost) : Consume(k)
                   /\ UNCHANGED <<linkUp, spoiled, expectedNext, log>>
           Moved == UNCHANGED lines \/ RobotTakes \/ linkUp' = FALSE \/ Sent \/ Read
<1>1. Len(toHost) \in Nat
  BY DEF RogoInv, WireInv, WireTypes
<1>2. \A k \in Chunks \cup {0} : k \in 0..Len(toHost)
  BY <1>1 DEF Chunks
<1>3. \A k \in 1..Len(toHost) : k \in 0..Len(toHost)
  BY <1>1
<1>4. ASSUME NEW v, NEW c, Assign(v, c), UNCHANGED <<linkUp, spoiled, expectedNext, log>> PROVE Sent
  BY <1>4 DEF Assign
<1>5. ASSUME NEW v, NEW c, toRobot' = Append(toRobot, Line(v, 0, c)),
             UNCHANGED <<linkUp, spoiled, expectedNext, log, toHost, sessionVars>>
      PROVE  Sent
  BY <1>5 DEF sessionVars
<1>6. ASSUME RobotFinishes \/ LinkCloses PROVE Moved
  BY <1>6 DEF RobotFinishes, LinkCloses, lines, wireVars, sessionVars
<1>7. ASSUME HeldReturns \/ HeldTimesOut \/ HeldCloses PROVE Moved
  <2>1. UNCHANGED <<robotVars, wireVars, sessionVars>>
    BY <1>7 DEF HeldReturns, HeldTimesOut, HeldCloses, WaitEnds
  <2> QED BY <2>1 DEF robotVars, wireVars, sessionVars, lines
<1>8. ASSUME HeldPumps PROVE Moved
  BY <1>3, <1>8 DEF HeldPumps, robotVars
<1>9. ASSUME HeldPolls PROVE Moved
  BY <1>4, <1>9 DEF HeldPolls, robotVars
<1>10. ASSUME NEW c \in Clients, NEW name \in Offered(c), Begin(c, name) PROVE UNCHANGED lines
  BY <1>10 DEF Begin, robotVars, wireVars, sessionVars, lines
<1>11. ASSUME NEW c \in Clients,
              Waits(c) \/ FailsClosed(c) \/ Interrupted(c) \/ GivesUp(c)
       PROVE  UNCHANGED lines
  BY <1>11 DEF Waits, FailsClosed, Interrupted, GivesUp, robotVars, wireVars, sessionVars, lines
<1>12. ASSUME NEW c \in Clients,
              Loads(c) \/ Asks(c) \/ Saves(c) \/ Truncates(c) \/ Writes(c)
       PROVE  UNCHANGED lines
  BY <1>12 DEF Loads, Asks, Saves, Truncates, Writes, LocalUnchanged, robotVars, wireVars, sessionVars, lines
<1>13. ASSUME NEW c \in Clients, DoesSend(c) \/ DoesStream(c) PROVE Sent
  BY <1>4, <1>13 DEF DoesSend, DoesStream, robotVars
<1>14. ASSUME NEW c \in Clients, DoesSay(c) \/ BargesIn(c) PROVE Sent
  BY <1>5, <1>14 DEF DoesSay, BargesIn, robotVars
<1>15. ASSUME NEW c \in Clients, DoesPumpUntil(c) \/ DoesPump(c) \/ DoesDrain(c) \/ DoesPace(c)
       PROVE  Read
  <2>1. UNCHANGED <<linkUp, spoiled, expectedNext, log>>
    BY <1>15 DEF DoesPumpUntil, DoesPump, DoesDrain, DoesPace, robotVars
  <2>2. \E k \in Chunks \cup {0} \cup (0..Len(toHost)) : Consume(k)
    BY <1>15 DEF DoesPumpUntil, DoesPump, DoesDrain, DoesPace
  <2> QED BY <1>2, <2>1, <2>2
<1>16. ASSUME NEW c \in Clients, LeftServed(c) PROVE UNCHANGED lines \/ Sent \/ Read
  <2>1. UNCHANGED <<spoiled, expectedNext, log>>
    BY <1>16 DEF LeftServed, robotVars
  <2>2. \/ Assign(Head(abandoned[c]).what, c) /\ UNCHANGED linkUp
        \/ /\ toRobot' = Append(toRobot, Line(Head(abandoned[c]).what, 0, c))
           /\ UNCHANGED <<toHost, linkUp, sessionVars>>
        \/ (\E k \in 0..Len(toHost) : Consume(k)) /\ UNCHANGED linkUp
        \/ UNCHANGED <<wireVars, sessionVars>>
    BY <1>16 DEF LeftServed
  <2>3. CASE UNCHANGED <<wireVars, sessionVars>>
    BY <2>1, <2>3 DEF wireVars, sessionVars, lines
  <2> QED BY <1>4, <1>5, <2>1, <2>2, <2>3
<1>17. ASSUME UNCHANGED rogoVars PROVE Moved
  BY <1>17 DEF rogoVars, robotVars, wireVars, sessionVars, lines
<1> HIDE DEF Sent, Read
<1>18. ASSUME NEW c \in Clients, CallsSession(c) PROVE UNCHANGED lines \/ Sent \/ Read
  BY <1>11, <1>13, <1>14, <1>15, <1>18 DEF CallsSession
<1>19. ASSUME NEW c \in Clients,
              \/ DoesStream(c) \/ Interrupted(c) \/ GivesUp(c) \/ LeftServed(c)
              \/ Loads(c) \/ Asks(c) \/ Saves(c) \/ Truncates(c) \/ Writes(c)
       PROVE  UNCHANGED lines \/ Sent \/ Read
  BY <1>11, <1>12, <1>13, <1>16, <1>19
<1>20. ASSUME WorkerWaits PROVE Moved
  BY <1>7, <1>8, <1>9, <1>20 DEF WorkerWaits
<1>21. ASSUME RogoNext PROVE Moved
  BY <1>6, <1>10, <1>18, <1>19, <1>20, <1>21 DEF RogoNext
<1>22. Moved
  BY <1>17, <1>21
<1> QED BY <1>22 DEF Sent, Read

\* Nothing is lost by any step.
LEMMA NothingIsLostKept ==
  ASSUME RogoInv, NothingIsLost, [RogoNext]_rogoVars
  PROVE  NothingIsLost'
<1>1. WireInv /\ WireInv'
  BY RogoInvKept DEF RogoInv
<1>2. CASE UNCHANGED lines
  BY <1>2 DEF lines, NothingIsLost
<1>3. CASE RobotTakes
  BY <1>1, <1>3, TakenIsNotLost
<1>4. CASE linkUp' = FALSE
  BY <1>4 DEF NothingIsLost
<1>5. ASSUME NEW v, NEW n, NEW c, toRobot' = Append(toRobot, Line(v, n, c)),
             (nextId' = nextId + 1 /\ n = nextId) \/ nextId' = nextId,
             UNCHANGED <<linkUp, spoiled, expectedNext, log, toHost, acked>>
      PROVE  NothingIsLost'
  BY <1>1, <1>5, SentIsNotLost
<1>6. ASSUME NEW k \in 0..Len(toHost), Consume(k), UNCHANGED <<linkUp, spoiled, expectedNext, log>>
      PROVE  NothingIsLost'
  BY <1>1, <1>6, ReadIsNotLost
<1> QED BY <1>2, <1>3, <1>4, <1>5, <1>6, LinesMove

\* Once all is quiet everything sent is acknowledged.
LEMMA AllAcknowledged ==
  ASSUME RogoInv, NothingIsLost, Quiet, linkUp, spoiled = {}, NEW c \in Clients
  PROVE  id[c] <= acked
<1>1. /\ nextId \in Nat /\ acked \in Nat /\ Len(log) \in Nat /\ Len(log) < nextId
      /\ id[c] \in Nat /\ id[c] < nextId
  BY DEF RogoInv, WireInv, WireTypes, WireInOrder, ClientTypes, ClientOK, ClientShape
<1>2. Len(toRobot) = 0 /\ Len(toHost) = 0
  BY DEF Quiet
<1>3. \A n \in (Len(log) + 1)..(nextId - 1) : FALSE
  BY <1>2 DEF NothingIsLost
<1>4. acked = Len(log)
  BY <1>2 DEF NothingIsLost
<1>5. Len(log) = nextId - 1
  <2>1. ~(Len(log) + 1 \in (Len(log) + 1)..(nextId - 1))
    BY <1>3
  <2> QED BY <1>1, <2>1
<1> QED BY <1>1, <1>4, <1>5

\* A client whose line may go unacknowledged.
Excused(c) == spoiled # {} \/ delayed[c] \/ aborted[c]
ExcusesLast == \A c \in Clients : Excused(c) => Excused(c)'

\* Nobody reports anything.
LEMMA NobodyReports ==
  ASSUME UnackedHasCause, ExcusesLast, report' = report
  PROVE  UnackedHasCause'
BY DEF UnackedHasCause, ExcusesLast, Excused

\* One client may.
LEMMA OneReports ==
  ASSUME RogoInv, UnackedHasCause, ExcusesLast, NEW c \in Clients, ~Idle(c),
         NEW o, OutcomeOf(Now(c), o), Proceed(c, o), o = "unacked" => Excused(c)'
  PROVE  UnackedHasCause'
<1>1. Advances(c, o) /\ \A d \in Clients : d # c => StaysPut(d)
  BY Proceeds
<1>2. report[c] = "none"
  BY DEF RogoInv, ClientOK, ClientShape
<1>3. report'[c] = "unacked" => Excused(c)'
  BY <1>1, <1>2 DEF Advances
<1>4. \A d \in Clients : d # c /\ report'[d] = "unacked" => Excused(d)'
  BY <1>1 DEF StaysPut, UnackedHasCause, ExcusesLast, Excused
<1> QED BY <1>3, <1>4 DEF UnackedHasCause, Excused

\* No excuse is ever taken back but when a command begins.
LEMMA ExcusesKept ==
  ASSUME UNCHANGED <<delayed, aborted>>, spoiled \subseteq spoiled'
  PROVE  ExcusesLast
BY DEF ExcusesLast, Excused

\* A step of a script that is no wait for an ack never goes unacknowledged.
LEMMA OnlyAcksMiss ==
  ASSUME RogoInv, NEW c \in Clients, ~Idle(c)
  PROVE  /\ Now(c).yes # "unacked"
         /\ Now(c).no = "unacked" => AckStep(Now(c))
         /\ Now(c).do \in {"send", "say", "stream", "load", "ask"} =>
              OutcomeOf(Now(c), "go")
BY Ready DEF StepOK, OutcomeOf

\* The robot, the link and the worker report nothing.
LEMMA OutsideExcused ==
  ASSUME UnackedInv, RobotTakes \/ RobotFinishes \/ LinkCloses \/ HeldPumps \/ HeldPolls
  PROVE  UnackedHasCause' /\ UNCHANGED <<delayed, aborted>>
<1>1. UNCHANGED <<report, delayed, aborted>>
  BY DEF RobotTakes, RobotFinishes, LinkCloses, HeldPumps, HeldPolls, scriptVars, ghostVars
<1>2. spoiled \subseteq spoiled'
  BY DEF RobotTakes, RobotFinishes, LinkCloses, HeldPumps, HeldPolls, robotVars, TakesEstop,
         TakesHello, TakesGap, TakesUndecodable, TakesNext, SimMoves, KernelMoves, RobotStops,
         RobotConfigures, RobotTellsStatus, Executes
<1> QED BY <1>1, <1>2, ExcusesKept, NobodyReports DEF UnackedInv

\* A wait that ends unacknowledged ends when all is quiet.
LEMMA WaitEndsExcused ==
  ASSUME RogoInv, UnackedInv, HeldReturns \/ HeldTimesOut \/ HeldCloses
  PROVE  UnackedHasCause' /\ UNCHANGED <<delayed, aborted>>
<1>1. PICK outcome : /\ WaitEnds(outcome)
                     /\ outcome \in {Now(held).yes, Now(held).no, "closed"}
                     /\ \/ outcome # Now(held).no \/ Now(held).no = Now(held).yes
                        \/ outcome = "closed"
                        \/ linkUp /\ ~HeldIsOver /\ Quiet
  BY DEF HeldReturns, HeldTimesOut, HeldCloses, Holds
<1>2. held \in Clients
  BY DEF HeldReturns, HeldTimesOut, HeldCloses, Holds, RogoInv, ClientTypes, Senders
<1>3. UNCHANGED <<spoiled, delayed, aborted, id>>
  BY <1>1 DEF WaitEnds, robotVars, ghostVars
<1>4. ExcusesLast
  BY <1>3, ExcusesKept
<1>5. CASE abandoned[held] # << >>
  BY <1>1, <1>3, <1>4, <1>5, NobodyReports DEF WaitEnds, Stay, scriptVars, UnackedInv
<1>6. CASE abandoned[held] = << >>
  <2>1. PICK c \in Clients : c = held
    BY <1>2
  <2>2. PICK o : o = outcome
    OBVIOUS
  <2>3. /\ ~Idle(c) /\ Now(c).do = "wait" /\ HeldCall = Call(c)
    BY <1>6, <2>1, CommandsAssumption DEF RogoInv, HeldWaits, HeldCall
  <2>4. Proceed(c, o) /\ OutcomeOf(Now(c), o)
    BY <1>1, <1>6, <2>1, <2>2, <2>3 DEF WaitEnds, OutcomeOf
  <2>5. ASSUME o = "unacked" PROVE Excused(c)'
    <3>1. Now(c).yes # "unacked" /\ (Now(c).no = "unacked" => AckStep(Now(c)))
      BY <2>3, OnlyAcksMiss
    <3>2. /\ o = Now(c).no /\ AckStep(Now(c)) /\ Now(c).no # Now(c).yes
          /\ linkUp /\ ~HeldIsOver /\ Quiet
      BY <1>1, <2>1, <2>2, <2>3, <2>5, <3>1
    <3>3. ~(acked >= id[c])
      BY <2>1, <2>3, <3>2 DEF HeldIsOver, AckStep, Call
    <3>4. acked \in Nat /\ id[c] \in Nat
      BY DEF RogoInv, WireInv, WireTypes, ClientTypes
    <3>5. ~(id[c] <= acked)
      BY <3>3, <3>4
    <3>6. spoiled # {}
      BY <3>2, <3>5, AllAcknowledged DEF UnackedInv
    <3> QED BY <1>3, <3>6 DEF Excused
  <2> QED BY <1>3, <1>4, <2>3, <2>4, <2>5, OneReports DEF UnackedInv
<1> QED BY <1>5, <1>6

\* So does a pump for the ack, unless another's wait came first.
LEMMA PumpsExcused ==
  ASSUME RogoInv, UnackedInv, NEW c \in Clients,
         DoesPumpUntil(c) \/ DoesPump(c) \/ DoesDrain(c)
  PROVE  UnackedHasCause' /\ UNCHANGED <<delayed, aborted>>
<1>1. /\ ~Idle(c) /\ linkUp /\ UNCHANGED <<spoiled, delayed, aborted, id>>
  BY DEF DoesPumpUntil, DoesPump, DoesDrain, Serves, Intrudes, robotVars
<1>2. ExcusesLast
  BY <1>1, ExcusesKept
<1>3. Now(c).yes # "unacked" /\ (Now(c).no = "unacked" => AckStep(Now(c)))
  BY <1>1, OnlyAcksMiss
<1>4. CASE Stay
  BY <1>1, <1>2, <1>4, NobodyReports DEF Stay, scriptVars, UnackedInv
<1>5. ASSUME NEW o \in {Now(c).yes, Now(c).no}, Proceed(c, o), o = "unacked" => Excused(c)'
      PROVE  UnackedHasCause'
  BY <1>1, <1>2, <1>5, OneReports DEF UnackedInv, OutcomeOf
<1>6. CASE DoesPump(c) \/ DoesDrain(c)
  <2>1. Now(c).do \in {"pump", "drain"}
    BY <1>6 DEF DoesPump, DoesDrain, Serves
  <2>2. Now(c).no # "unacked"
    BY <1>3, <2>1 DEF AckStep
  <2>3. Stay \/ \E o \in {Now(c).yes, Now(c).no} : Proceed(c, o)
    BY <1>6 DEF DoesPump, DoesDrain
  <2> QED BY <1>1, <1>3, <1>4, <1>5, <2>2, <2>3
<1>7. CASE DoesPumpUntil(c)
  <2>1. PICK k \in Chunks \cup (IF delayed[c] THEN {0} ELSE {}) :
          /\ Consume(k)
          /\ IF IF Now(c).what = "ack" THEN Acknowledged(c) ELSE Now(c).what \in seen'[c]
               THEN Proceed(c, Now(c).yes)
               ELSE IF k = 0 THEN Proceed(c, Now(c).no) ELSE Stay
    BY <1>7 DEF DoesPumpUntil
  <2>2. ASSUME Now(c).no = "unacked", k = 0, ~Acknowledged(c) PROVE Excused(c)'
    <3>1. CASE delayed[c]
      BY <1>1, <3>1 DEF Excused
    <3>2. CASE ~delayed[c]
      <4>1. k \in Chunks
        BY <2>1, <3>2
      <4>2. Len(toHost) \in Nat
        BY DEF RogoInv, WireInv, WireTypes
      <4>3. Quiet
        BY <2>2, <4>1, <4>2 DEF Chunks
      <4>4. acked' = acked
        BY <2>1, <2>2 DEF Consume, Handles
      <4>5. acked \in Nat /\ id[c] \in Nat /\ ~(acked >= id[c])
        BY <2>2, <4>4 DEF RogoInv, WireInv, WireTypes, ClientTypes, Acknowledged
      <4>6. ~(id[c] <= acked)
        BY <4>5
      <4>7. spoiled # {}
        BY <1>1, <4>3, <4>6, AllAcknowledged DEF UnackedInv
      <4> QED BY <1>1, <4>7 DEF Excused
    <3> QED BY <3>1, <3>2
  <2>3. CASE Proceed(c, Now(c).yes)
    BY <1>1, <1>3, <1>5, <2>3
  <2>4. CASE Stay
    BY <1>1, <1>4, <2>4
  <2>5. ASSUME Proceed(c, Now(c).no), k = 0, Now(c).what = "ack" => ~Acknowledged(c)
        PROVE  UnackedHasCause'
    <3>1. Now(c).no = "unacked" => Now(c).what = "ack"
      BY <1>3 DEF AckStep
    <3> QED BY <1>5, <2>2, <2>5, <3>1
  <2> QED BY <1>1, <2>1, <2>3, <2>4, <2>5
<1> QED BY <1>1, <1>6, <1>7

\* An ESTOP that barges in is the excuse of the wait it cut short.
LEMMA BargesExcused ==
  ASSUME RogoInv, UnackedInv, NEW c \in Clients, BargesIn(c)
  PROVE  UnackedHasCause' /\ delayed' = delayed /\ aborted' \in [Clients -> BOOLEAN]
<1>1. /\ ~Idle(c) /\ Now(c).do = "say" /\ held # Nobody
      /\ UNCHANGED <<spoiled, delayed>>
  BY DEF BargesIn, robotVars
<1>2. PICK h \in Clients : h = held
  BY <1>1 DEF RogoInv, ClientTypes, Senders
<1>3. aborted \in [Clients -> BOOLEAN] /\ UnackedHasCause /\ OutcomeOf(Now(c), "go")
  BY <1>1, OnlyAcksMiss DEF UnackedInv
<1>4. CASE abandoned[held] # << >>
  <2>1. Proceed(c, "go") /\ aborted' = aborted
    BY <1>4 DEF BargesIn
  <2>2. ExcusesLast
    BY <1>1, <2>1, ExcusesKept
  <2>3. PICK o : o = "go"
    OBVIOUS
  <2>4. UnackedHasCause'
    BY <1>1, <1>3, <2>1, <2>2, <2>3, OneReports
  <2> QED BY <1>1, <1>3, <2>1, <2>4
<1>5. CASE abandoned[held] = << >>
  <2> DEFINE result == [d \in {c, h} |-> IF d = c THEN "go" ELSE Now(h).no]
  <2>1. Moves(result) /\ aborted' = [aborted EXCEPT ![h] = TRUE]
    BY <1>2, <1>5 DEF BargesIn
  <2>2. aborted' \in [Clients -> BOOLEAN] /\ aborted'[h] = TRUE
    BY <1>3, <2>1, Zenon
  <2>3. \A d \in Clients : d # h => aborted'[d] = aborted[d]
    BY <1>3, <2>1, Zenon
  <2>4. h # c
    BY <1>1, <1>2, <1>5, NotHeld
  <2>5. DOMAIN result = {c, h} /\ result[c] = "go" /\ ClientTypes
    BY DEF RogoInv
  <2> HIDE DEF result
  <2>6. Advances(c, "go") /\ \A d \in Clients : d \notin {c, h} => StaysPut(d)
    BY <2>1, <2>5, MovesMoves
  <2>7. report'[c] = report[c]
    BY <2>6 DEF Advances
  <2>8. \A d \in Clients : d # h => (Excused(d) => Excused(d)')
    BY <1>1, <2>3 DEF Excused
  <2>9. \A d \in Clients : d # h => report'[d] = report[d]
    BY <2>6, <2>7 DEF StaysPut
  <2>10. UnackedHasCause'
    <3>1. \A d \in Clients : d # h /\ report'[d] = "unacked" => Excused(d)'
      BY <1>3, <2>8, <2>9 DEF UnackedHasCause, Excused
    <3>2. Excused(h)'
      BY <2>2 DEF Excused
    <3> QED BY <3>1, <3>2 DEF UnackedHasCause, Excused
  <2> QED BY <1>1, <2>2, <2>10
<1> QED BY <1>4, <1>5

\* A command begins, and has no excuse but a wait the worker is in.
LEMMA BeginExcused ==
  ASSUME RogoInv, UnackedInv, NEW c \in Clients, NEW name \in Offered(c), Begin(c, name)
  PROVE  UnackedInv'
<1>1. /\ report' = [report EXCEPT ![c] = "none"] /\ UNCHANGED robotVars
      /\ delayed' = [delayed EXCEPT ![c] = held # Nobody]
      /\ aborted' = [aborted EXCEPT ![c] = FALSE]
  BY DEF Begin
<1>2. /\ delayed \in [Clients -> BOOLEAN] /\ aborted \in [Clients -> BOOLEAN] /\ UnackedHasCause
      /\ report \in [Clients -> Outcomes]
  BY DEF UnackedInv, RogoInv, ClientTypes
<1>3. delayed' \in [Clients -> BOOLEAN] /\ \A d \in Clients : d # c => delayed'[d] = delayed[d]
  <2>1. (held # Nobody) \in BOOLEAN
    BY Zenon
  <2> QED BY <1>1, <1>2, <2>1, Zenon
<1>4. aborted' \in [Clients -> BOOLEAN] /\ \A d \in Clients : d # c => aborted'[d] = aborted[d]
  BY <1>1, <1>2, Zenon
<1>5. report'[c] = "none" /\ \A d \in Clients : d # c => report'[d] = report[d]
  BY <1>1, <1>2
<1>6. UnackedHasCause'
  BY <1>1, <1>2, <1>3, <1>4, <1>5 DEF UnackedHasCause, robotVars
<1>7. NothingIsLost'
  <2>1. UNCHANGED lines
    BY DEF Begin, robotVars, wireVars, sessionVars, lines
  <2> QED BY <2>1 DEF UnackedInv, NothingIsLost, lines
<1> QED BY <1>3, <1>4, <1>6, <1>7 DEF UnackedInv

\* A wait that begins delays the commands of the others.
LEMMA WaitsExcused ==
  ASSUME UnackedInv, NEW c \in Clients, Waits(c) \/ LeftServed(c)
  PROVE  UnackedHasCause' /\ aborted' = aborted /\ delayed' \in [Clients -> BOOLEAN]
<1>1. /\ UNCHANGED <<report, aborted, spoiled>>
      /\ \/ delayed' = [d \in Clients |-> delayed[d] \/ (d # c /\ ~Idle(d))]
         \/ delayed' = [d \in Clients |-> delayed[d] \/ ~Idle(d)]
         \/ delayed' = delayed
  BY DEF Waits, LeftServed, scriptVars, robotVars
<1>2. delayed \in [Clients -> BOOLEAN] /\ UnackedHasCause
  BY DEF UnackedInv
<1>3. delayed' \in [Clients -> BOOLEAN]
  <2>1. \A d \in Clients : (delayed[d] \/ (d # c /\ ~Idle(d))) \in BOOLEAN
    BY Zenon
  <2>2. \A d \in Clients : (delayed[d] \/ ~Idle(d)) \in BOOLEAN
    BY Zenon
  <2> QED BY <1>1, <1>2, <2>1, <2>2, Zenon
<1>4. \A d \in Clients : delayed[d] => delayed'[d]
  <2>1. CASE delayed' = [d \in Clients |-> delayed[d] \/ (d # c /\ ~Idle(d))]
    BY <2>1
  <2>2. CASE delayed' = [d \in Clients |-> delayed[d] \/ ~Idle(d)]
    BY <2>2
  <2> QED BY <1>1, <2>1, <2>2
<1>5. ExcusesLast
  BY <1>1, <1>4 DEF ExcusesLast, Excused
<1> QED BY <1>1, <1>2, <1>3, <1>5, NobodyReports

\* The rest of what clients do never goes unacknowledged.
LEMMA OthersExcused ==
  ASSUME RogoInv, UnackedInv, NEW c \in Clients,
         \/ DoesSend(c) \/ DoesSay(c) \/ DoesStream(c) \/ DoesPace(c) \/ Interrupted(c)
         \/ FailsClosed(c) \/ GivesUp(c) \/ Loads(c) \/ Asks(c) \/ Saves(c)
         \/ Truncates(c) \/ Writes(c)
  PROVE  UnackedHasCause' /\ UNCHANGED <<delayed, aborted>>
<1>1. UNCHANGED <<delayed, aborted, spoiled>>
  BY DEF DoesSend, DoesSay, DoesStream, DoesPace, Interrupted, FailsClosed, GivesUp, Loads, Asks,
         Saves, Truncates, Writes, LocalUnchanged, Intrudes, ghostVars, robotVars
<1>2. ExcusesLast
  BY <1>1, ExcusesKept
<1>3. ASSUME report' = report PROVE UnackedHasCause'
  BY <1>2, <1>3, NobodyReports DEF UnackedInv
<1>4. ASSUME NEW o, ~Idle(c), Proceed(c, o), OutcomeOf(Now(c), o), o # "unacked"
      PROVE  UnackedHasCause'
  BY <1>2, <1>4, OneReports DEF UnackedInv
<1>5. CASE DoesSend(c) \/ DoesSay(c) \/ DoesStream(c) \/ Loads(c)
  <2>1. /\ ~Idle(c) /\ Now(c).do \in {"send", "say", "stream", "load"}
        /\ Proceed(c, "go") \/ (Now(c).do = "load" /\ Proceed(c, Now(c).no))
    BY <1>5 DEF DoesSend, DoesSay, DoesStream, Loads, Serves
  <2>2. OutcomeOf(Now(c), "go") /\ (Now(c).do = "load" => Now(c).no # "unacked")
    BY <2>1, OnlyAcksMiss DEF AckStep
  <2> QED BY <1>1, <1>4, <2>1, <2>2 DEF OutcomeOf
<1>6. CASE DoesPace(c) \/ Interrupted(c)
  BY <1>1, <1>3, <1>6 DEF DoesPace, Interrupted
<1>7. CASE FailsClosed(c) \/ GivesUp(c)
  <2>1. ~Idle(c) /\ (Proceed(c, "closed") \/ Proceed(c, "raised"))
    BY <1>7 DEF FailsClosed, GivesUp
  <2> QED BY <1>1, <1>4, <2>1 DEF OutcomeOf
<1>8. CASE Asks(c)
  <2>1. /\ ~Idle(c) /\ Now(c).do = "ask" /\ (Proceed(c, "go") \/ report' = report)
    BY <1>8 DEF Asks, ToTheEnd
  <2>2. OutcomeOf(Now(c), "go")
    BY <2>1, OnlyAcksMiss
  <2> QED BY <1>1, <1>3, <1>4, <2>1, <2>2
<1>9. CASE Saves(c) \/ Writes(c)
  <2>1. ~Idle(c) /\ Now(c).do = "save"
    BY <1>9 DEF Saves, Writes
  <2>2. CASE Stay
    BY <1>1, <1>3, <2>2 DEF Stay, scriptVars
  <2>3. ASSUME NEW o \in {Now(c).yes, Now(c).no, "outOfRange", "tooFew"}, Proceed(c, o)
        PROVE  UnackedHasCause'
    <3>1. o # "unacked"
      BY <2>1, OnlyAcksMiss DEF AckStep
    <3> QED BY <1>4, <2>1, <2>3, <3>1 DEF OutcomeOf
  <2> QED BY <1>1, <1>9, <2>2, <2>3 DEF Saves, Writes
<1>10. CASE Truncates(c)
  BY <1>1, <1>3, <1>10 DEF Truncates, scriptVars
<1> QED BY <1>5, <1>6, <1>7, <1>8, <1>9, <1>10

\* So every step keeps it.
LEMMA UnackedInvKept ==
  ASSUME RogoInv, UnackedInv, [RogoNext]_rogoVars
  PROVE  UnackedInv'
<1>1. NothingIsLost'
  BY NothingIsLostKept DEF UnackedInv
<1>2. ASSUME UnackedHasCause', UNCHANGED <<delayed, aborted>> PROVE UnackedInv'
  BY <1>1, <1>2 DEF UnackedInv
<1>3. CASE RogoNext
  <2>1. CASE RobotTakes \/ RobotFinishes \/ LinkCloses
    BY <1>2, <2>1, OutsideExcused
  <2>2. CASE WorkerWaits
    BY <1>2, <2>2, OutsideExcused, WaitEndsExcused DEF WorkerWaits
  <2>3. ASSUME NEW c \in Clients, NEW name \in Offered(c), Begin(c, name) PROVE UnackedInv'
    BY <2>3, BeginExcused
  <2>4. ASSUME NEW c \in Clients, BargesIn(c) PROVE UnackedInv'
    BY <1>1, <2>4, BargesExcused DEF UnackedInv
  <2>5. ASSUME NEW c \in Clients, Waits(c) \/ LeftServed(c) PROVE UnackedInv'
    BY <1>1, <2>5, WaitsExcused DEF UnackedInv
  <2>6. ASSUME NEW c \in Clients, DoesPumpUntil(c) \/ DoesPump(c) \/ DoesDrain(c)
        PROVE  UnackedInv'
    BY <1>2, <2>6, PumpsExcused
  <2>7. ASSUME NEW c \in Clients,
               \/ DoesSend(c) \/ DoesSay(c) \/ DoesStream(c) \/ DoesPace(c) \/ Interrupted(c)
               \/ FailsClosed(c) \/ GivesUp(c) \/ Loads(c) \/ Asks(c) \/ Saves(c)
               \/ Truncates(c) \/ Writes(c)
        PROVE  UnackedInv'
    BY <1>2, <2>7, OthersExcused
  <2>8. ASSUME NEW c \in Clients, CallsSession(c) PROVE UnackedInv'
    BY <2>4, <2>5, <2>6, <2>7, <2>8 DEF CallsSession
  <2> QED BY <1>3, <2>1, <2>2, <2>3, <2>5, <2>7, <2>8 DEF RogoNext
<1>4. CASE UNCHANGED rogoVars
  <2>1. UNCHANGED <<report, spoiled, delayed, aborted>>
    BY <1>4 DEF rogoVars, robotVars, scriptVars, ghostVars
  <2>2. UnackedHasCause'
    BY <2>1, ExcusesKept, NobodyReports DEF UnackedInv
  <2> QED BY <1>2, <2>1, <2>2
<1> QED BY <1>3, <1>4

\* On a link that loses nothing a command goes unacknowledged only when the robot
\* can no longer accept a line, another client's wait came first, or an ESTOP cut
\* it short (cli.py:151-164, reliability.py:313-333).
THEOREM UnackedCorrect == RogoSpec => []UnackedHasCause
<1>1. RogoInit => UnackedInv
  <2> SUFFICES ASSUME RogoInit PROVE UnackedInv
    OBVIOUS
  <2>1. /\ expectedNext = 1 /\ log = << >> /\ nextId = 1 /\ acked = 0
        /\ report = [c \in Clients |-> "none"]
        /\ delayed = [c \in Clients |-> FALSE] /\ aborted = [c \in Clients |-> FALSE]
    BY DEF RogoInit
  <2>2. Len(log) = 0 /\ \A n \in (0 + 1)..(1 - 1) : FALSE
    BY <2>1
  <2>3. NothingIsLost
    BY <2>1, <2>2 DEF NothingIsLost
  <2>4. UnackedHasCause
    BY <2>1 DEF UnackedHasCause
  <2>5. delayed \in [Clients -> BOOLEAN] /\ aborted \in [Clients -> BOOLEAN]
    BY <2>1, Zenon
  <2> QED BY <2>3, <2>4, <2>5 DEF UnackedInv
<1>2. RogoInv /\ UnackedInv /\ [RogoNext]_rogoVars => UnackedInv'
  BY UnackedInvKept
<1>3. UnackedInv => UnackedHasCause
  BY DEF UnackedInv
<1> QED BY <1>1, <1>2, <1>3, RogoInvariant, PTL DEF RogoSpec


(***************************************************************************)
(* What a calibration saves                                                *)
(***************************************************************************)

\* What has no group that would win over geometry, and what SavedIsKept says of
\* the file.
IsFile(x) ==
  x = [calibration |-> [f \in Fields |-> None], geometry |-> x.geometry, others |-> x.others]
Keeps(x) ==
  /\ \A f \in Fields \ mislaid : x.geometry[f] = saved[f]
  /\ "others" \notin mislaid => x.others

\* Configurations and what is read of the file are so, and a save reads before it
\* writes.
SaveShape ==
  /\ IsFile(file) /\ saved = [f \in Fields |-> saved[f]]
  /\ contents = [c \in Clients |-> contents[c]] /\ \A c \in Saving : IsFile(contents[c])
  /\ writing \subseteq Saving
ConfigShape ==
  /\ config = [c \in Clients |-> config[c]]
  /\ \A c \in Clients : config[c] = [f \in Fields |-> config[c][f]]

\* Of saves that overlap, each is told so; what any other has read is what was saved
\* last, and the file is empty while it writes.
SavesApart   == \A c, d \in Saving : c # d => raced[c]
SavesKeep    == \A c \in Saving : ~raced[c] => Keeps(contents[c])
WritesAnew   == \A c \in writing : ~raced[c] => file = Unreadable

SaveInv ==
  SaveShape /\ ConfigShape /\ SavesApart /\ SavesKeep /\ WritesAnew /\ SavedIsKept

\* Only a calibration saves, and only one that starts, or a turn, loads the file.
LEMMA FileUntouched ==
  ASSUME [RogoNext]_rogoVars,
         \A c \in Clients : ~Saves(c) /\ ~Truncates(c) /\ ~Writes(c)
  PROVE  /\ UNCHANGED <<file, saveVars>>
         /\ config' = config \/ \E c \in Clients : config' = [config EXCEPT ![c] = ParseRobotConfig(file)]
<1> DEFINE Same == UNCHANGED <<file, saveVars>> /\ config' = config
<1>1. RobotTakes \/ RobotFinishes \/ LinkCloses => Same
  BY DEF RobotTakes, RobotFinishes, LinkCloses, fileVars
<1>2. WorkerWaits => Same
  BY DEF WorkerWaits, HeldReturns, HeldPumps, HeldPolls, HeldTimesOut, HeldCloses, WaitEnds, fileVars
<1>3. ASSUME NEW c \in Clients, NEW name \in Offered(c), Begin(c, name) PROVE Same
  BY <1>3 DEF Begin
<1>4. ASSUME NEW c \in Clients, CallsSession(c) PROVE Same
  BY <1>4 DEF CallsSession, DoesSend, DoesSay, BargesIn, DoesPumpUntil, DoesPump, DoesDrain,
              DoesPace, Waits, FailsClosed, fileVars
<1>5. ASSUME NEW c \in Clients, DoesStream(c) \/ Interrupted(c) \/ GivesUp(c) \/ LeftServed(c)
      PROVE  Same
  BY <1>5 DEF DoesStream, Interrupted, GivesUp, LeftServed, fileVars
<1>6. ASSUME NEW c \in Clients, Asks(c) PROVE Same
  BY <1>6 DEF Asks
<1>7. UNCHANGED rogoVars => Same
  BY DEF rogoVars, fileVars
<1>8. ASSUME NEW c \in Clients, Loads(c)
      PROVE  /\ UNCHANGED <<file, saveVars>>
             /\ config' = config \/ config' = [config EXCEPT ![c] = ParseRobotConfig(file)]
  BY <1>8 DEF Loads
<1> QED BY <1>1, <1>2, <1>3, <1>4, <1>5, <1>6, <1>7, <1>8 DEF RogoNext

\* Where nothing is read or written, saves are as they were.
LEMMA SavesStay ==
  ASSUME SaveInv, ConfigShape', UNCHANGED <<file, saveVars>>
  PROVE  SaveInv'
<1>1. UNCHANGED <<file, contents, writing, raced, saved, mislaid, Saving>>
  BY DEF saveVars, Saving
<1>2. SaveShape'
  BY <1>1 DEF SaveInv, SaveShape, IsFile
<1>3. SavesApart' /\ WritesAnew' /\ SavedIsKept'
  BY <1>1 DEF SaveInv, SavesApart, WritesAnew, SavedIsKept
<1>4. SavesKeep'
  BY <1>1 DEF SaveInv, SavesKeep, Keeps
<1> QED BY <1>2, <1>3, <1>4 DEF SaveInv

\* So they are whatever else happens.
LEMMA SaveInvUntouched ==
  ASSUME SaveInv, [RogoNext]_rogoVars,
         \A c \in Clients : ~Saves(c) /\ ~Truncates(c) /\ ~Writes(c)
  PROVE  SaveInv'
<1>1. /\ UNCHANGED <<file, saveVars>>
      /\ config' = config \/ \E c \in Clients : config' = [config EXCEPT ![c] = ParseRobotConfig(file)]
  BY FileUntouched
<1>2. PICK parsed : parsed = ParseRobotConfig(file)
  OBVIOUS
<1>3. parsed = [f \in Fields |-> parsed[f]]
  BY <1>2 DEF ParseRobotConfig
<1>4. /\ config' = [d \in Clients |-> config'[d]]
      /\ \A d \in Clients : config'[d] = config[d] \/ config'[d] = parsed
  BY <1>1, <1>2 DEF SaveInv, ConfigShape
<1>5. ConfigShape'
  BY <1>3, <1>4 DEF SaveInv, ConfigShape
<1> QED BY <1>1, <1>5, SavesStay

\* A save reads what was saved last, unless another is in the middle of its own.
LEMMA ReadIsKept ==
  ASSUME SaveInv, NEW c \in Clients, contents[c] = None, ReadsToSave(c), UNCHANGED <<file, config>>
  PROVE  SaveInv'
<1>1. /\ contents' = [contents EXCEPT ![c] = file] /\ UNCHANGED <<writing, saved, mislaid, file, config>>
      /\ raced' = [d \in Clients |-> IF d = c THEN Saving # {} ELSE raced[d] \/ d \in Saving]
  BY DEF ReadsToSave
<1>2. /\ contents' = [d \in Clients |-> contents'[d]]
      /\ contents'[c] = file /\ \A d \in Clients : d # c => contents'[d] = contents[d]
  BY <1>1 DEF SaveInv, SaveShape
<1>3. /\ c \notin Saving /\ Saving \subseteq Saving' /\ Saving' \subseteq Saving \cup {c}
      /\ Saving \subseteq Clients
  BY <1>2 DEF Saving
<1>4. /\ \A d \in Saving : raced'[d]
      /\ Saving # {} => raced'[c]
  BY <1>1, <1>3
<1>5. writing \subseteq Saving'
  BY <1>3 DEF SaveInv, SaveShape
<1>6. ASSUME NEW d \in Saving'
      PROVE  IsFile(contents'[d])
  BY <1>2, <1>3, <1>6 DEF SaveInv, SaveShape
<1>7. ASSUME NEW d \in Saving', NEW e \in Saving', d # e
      PROVE  raced'[d]
  BY <1>3, <1>4, <1>7
<1>8. ASSUME NEW d \in Saving', ~raced'[d]
      PROVE  Keeps(contents[d])'
  <2>1. d = c /\ Saving = {}
    BY <1>3, <1>4, <1>8
  <2>2. Keeps(file)
    BY <2>1 DEF SaveInv, SaveShape, SavedIsKept, Keeps
  <2> QED BY <1>1, <1>2, <2>1, <2>2 DEF Keeps
<1>9. WritesAnew'
  BY <1>1, <1>4 DEF SaveInv, SaveShape, WritesAnew
<1>10. SavedIsKept' /\ ConfigShape'
  BY <1>1 DEF SaveInv, SavedIsKept, ConfigShape
<1>11. SaveShape'
  <2>1. IsFile(file)' /\ (saved = [f \in Fields |-> saved[f]])' /\ writing' = writing
    BY <1>1 DEF SaveInv, SaveShape, IsFile
  <2>2. (\A d \in Saving : IsFile(contents[d]))'
    BY <1>6 DEF IsFile
  <2> QED BY <1>2, <1>5, <2>1, <2>2 DEF SaveShape
<1>12. SavesApart'
  BY <1>7 DEF SavesApart
<1>13. SavesKeep'
  BY <1>8 DEF SavesKeep
<1> QED BY <1>9, <1>10, <1>11, <1>12, <1>13 DEF SaveInv

\* What it writes is what it read, but for what its client knows otherwise.
LEMMA SavedFile ==
  ASSUME NEW read, IsFile(read), NEW given, given = [f \in Fields |-> given[f]]
  PROVE  /\ IsFile(SaveRobotConfig(read, given))
         /\ SaveRobotConfig(read, given).others = read.others
         /\ \A f \in Fields : SaveRobotConfig(read, given).geometry[f] =
                                IF given[f] # None THEN given[f] ELSE read.geometry[f]
         /\ \A f \in Fields : ParseRobotConfig(read)[f] = read.geometry[f]
<1> DEFINE none == [f \in Fields |-> None]
           written == [f \in Fields |-> IF given[f] # None THEN given[f] ELSE read.geometry[f]]
<1>1. PICK g, o : read = [calibration |-> none, geometry |-> g, others |-> o]
  BY DEF IsFile
<1>2. SaveRobotConfig(read, given) = [read EXCEPT !.geometry = written]
  BY DEF SaveRobotConfig
<1>3. \A f \in Fields : /\ none[f] = None
                        /\ written[f] = IF given[f] # None THEN given[f] ELSE read.geometry[f]
  OBVIOUS
<1>4. \A f \in Fields : ParseRobotConfig(read)[f] = IF read.calibration[f] # None
                          THEN read.calibration[f] ELSE read.geometry[f]
  BY DEF ParseRobotConfig
<1> HIDE DEF none, written
<1>5. SaveRobotConfig(read, given) = [calibration |-> none, geometry |-> written, others |-> o]
  BY <1>1, <1>2
<1>6. read.calibration = none /\ read.others = o
  BY <1>1
<1>7. IsFile(SaveRobotConfig(read, given))
  BY <1>5 DEF IsFile, none
<1> QED BY <1>3, <1>4, <1>5, <1>6, <1>7

\* A save that ends leaves its field, and the others unless it may undo them.
LEMMA WriteIsKept ==
  ASSUME RogoInv, SaveInv, NEW c \in Clients, Writes(c)
  PROVE  SaveInv'
<1> DEFINE what == Now(c).what
           given == [config[c] EXCEPT ![what] = c]
<1>1. /\ ~Idle(c) /\ Now(c).do = "save" /\ c \in writing /\ UNCHANGED <<config, raced>>
      /\ file' = SaveRobotConfig(contents[c], given) \/ (file # Unreadable /\ file' = Unreadable)
      /\ saved' = [saved EXCEPT ![what] = c] /\ mislaid' = Undone(c)
      /\ writing' = writing \ {c} /\ contents' = [contents EXCEPT ![c] = None]
  BY DEF Writes
<1>2. what \in Fields
  BY <1>1, Ready DEF StepOK
<1>14. saved' = [f \in Fields |-> saved'[f]] /\ saved'[what] = c
       /\ \A f \in Fields : f # what => saved'[f] = saved[f]
  BY <1>1, <1>2 DEF SaveInv, SaveShape
<1>3. c \in Saving /\ IsFile(contents[c]) /\ c # None
  BY <1>1, CommandsAssumption DEF SaveInv, SaveShape
<1>4. /\ contents' = [d \in Clients |-> contents'[d]] /\ contents'[c] = None
      /\ \A d \in Clients : d # c => contents'[d] = contents[d]
  BY <1>1 DEF SaveInv, SaveShape
<1>5. Saving' = Saving \ {c}
  BY <1>4 DEF Saving
<1>6. \A d \in Saving' : raced'[d]
  BY <1>1, <1>3, <1>5 DEF SaveInv, SavesApart
<1>7. /\ given = [f \in Fields |-> given[f]] /\ given[what] = c
      /\ \A f \in Fields : f # what => given[f] = config[c][f]
  <2>1. config[c] = [f \in Fields |-> config[c][f]]
    BY DEF SaveInv, ConfigShape
  <2> QED BY <1>2, <2>1
<1> HIDE DEF given
<1>8. IsFile(file')
  <2>1. IsFile(SaveRobotConfig(contents[c], given))
    BY <1>3, <1>7, SavedFile
  <2>2. IsFile(Unreadable)
    BY DEF IsFile, Unreadable
  <2> QED BY <1>1, <2>1, <2>2
<1>9. SavedIsKept'
  <2>1. CASE raced[c]
    <3>1. mislaid' = Fields \cup {"others"}
      BY <1>1, <2>1 DEF Undone
    <3> QED BY <3>1 DEF SavedIsKept
  <2>2. CASE ~raced[c]
    <3>1. file' = SaveRobotConfig(contents[c], given) /\ Keeps(contents[c])
      BY <1>1, <1>3, <2>2 DEF SaveInv, SavesKeep, WritesAnew
    <3>2. mislaid' = (mislaid \ {what}) \cup
                       {f \in Fields \ {what} :
                          config[c][f] \notin {None, ParseRobotConfig(contents[c])[f]}}
      BY <1>1, <2>2 DEF Undone
    <3>3. /\ file'.others = contents[c].others
          /\ \A f \in Fields : file'.geometry[f] =
                               IF given[f] # None THEN given[f] ELSE contents[c].geometry[f]
          /\ \A f \in Fields : ParseRobotConfig(contents[c])[f] = contents[c].geometry[f]
      BY <1>3, <1>7, <3>1, SavedFile
    <3>4. ASSUME NEW f \in Fields, f \notin mislaid' PROVE file'.geometry[f] = saved'[f]
      <4>1. CASE f = what
        <5>1. file'.geometry[f] = c
          BY <1>3, <1>7, <3>3, <4>1
        <5> QED BY <1>14, <4>1, <5>1
      <4>2. CASE f # what
        <5>1. f \notin mislaid /\ config[c][f] \in {None, contents[c].geometry[f]}
          BY <3>2, <3>3, <3>4, <4>2
        <5>2. file'.geometry[f] = contents[c].geometry[f]
          BY <1>7, <3>3, <4>2, <5>1
        <5>3. contents[c].geometry[f] = saved[f] /\ saved'[f] = saved[f]
          BY <1>14, <3>1, <4>2, <5>1 DEF Keeps
        <5> QED BY <5>2, <5>3
      <4> QED BY <4>1, <4>2
    <3>5. "others" \notin mislaid' => file'.others
      <4>1. what # "others"
        BY <1>2 DEF Fields
      <4> QED BY <3>1, <3>2, <3>3, <4>1 DEF Keeps
    <3> QED BY <3>4, <3>5 DEF SavedIsKept
  <2> QED BY <2>1, <2>2
<1>10. writing' \subseteq Saving'
  BY <1>1, <1>5 DEF SaveInv, SaveShape
<1>11. ASSUME NEW d \in Saving' PROVE IsFile(contents'[d])
  <2>1. d \in Saving /\ d # c /\ d \in Clients
    BY <1>5, <1>11 DEF Saving
  <2> QED BY <1>4, <2>1 DEF SaveInv, SaveShape
<1>12. (\A d \in Saving : IsFile(contents[d]))' /\ IsFile(file)'
  BY <1>8, <1>11 DEF IsFile
<1>13. SaveShape'
  BY <1>4, <1>10, <1>12, <1>14 DEF SaveShape
<1>15. SavesApart' /\ SavesKeep' /\ WritesAnew'
  BY <1>6, <1>10 DEF SavesApart, SavesKeep, WritesAnew
<1>16. ConfigShape'
  BY <1>1 DEF SaveInv, ConfigShape
<1> QED BY <1>9, <1>13, <1>15, <1>16 DEF SaveInv

\* Every step keeps it.
LEMMA SaveInvKept ==
  ASSUME RogoInv, SaveInv, [RogoNext]_rogoVars
  PROVE  SaveInv'
<1>1. ASSUME NEW c \in Clients, Saves(c) PROVE SaveInv'
  <2>1. contents[c] = None /\ UNCHANGED <<file, config>>
    BY <1>1 DEF Saves
  <2>2. CASE ReadsToSave(c)
    BY <2>1, <2>2, ReadIsKept
  <2>3. CASE UNCHANGED saveVars
    <3>1. ConfigShape'
      BY <2>1 DEF SaveInv, ConfigShape
    <3> QED BY <2>1, <2>3, <3>1, SavesStay
  <2> QED BY <1>1, <2>2, <2>3 DEF Saves
<1>2. ASSUME NEW c \in Clients, Truncates(c) PROVE SaveInv'
  <2>1. /\ c \in Saving /\ writing' = writing \cup {c} /\ file' = Unreadable
        /\ UNCHANGED <<config, contents, raced, saved, mislaid>>
    BY <1>2 DEF Truncates
  <2>2. Saving' = Saving /\ IsFile(file') /\ writing' # {}
    BY <2>1 DEF Saving, IsFile, Unreadable
  <2>3. SaveShape'
    <3>1. (\A d \in Saving : IsFile(contents[d]))' /\ IsFile(file)'
      BY <2>1, <2>2 DEF SaveInv, SaveShape, IsFile
    <3> QED BY <2>1, <2>2, <3>1 DEF SaveInv, SaveShape
  <2>4. SavesApart' /\ ConfigShape'
    BY <2>1, <2>2 DEF SaveInv, SavesApart, ConfigShape
  <2>5. SavesKeep'
    BY <2>1, <2>2 DEF SaveInv, SavesKeep, Keeps
  <2>6. WritesAnew' /\ SavedIsKept'
    BY <2>1, <2>2 DEF WritesAnew, SavedIsKept
  <2> QED BY <2>3, <2>4, <2>5, <2>6 DEF SaveInv
<1>3. ASSUME NEW c \in Clients, Writes(c) PROVE SaveInv'
  BY <1>3, WriteIsKept
<1>4. CASE \A c \in Clients : ~Saves(c) /\ ~Truncates(c) /\ ~Writes(c)
  BY <1>4, SaveInvUntouched
<1> QED BY <1>1, <1>2, <1>3, <1>4

\* While no save is writing it, the robot's file has of each field what was last
\* saved into it, and everything else it had, but for what a save may have undone
\* that another overlapped or whose client held an old value (config.py:174-205,
\* calibrate.py:286-337).
THEOREM SavesAreKept == RogoSpec => []SavedIsKept
<1>1. RogoInit => SaveInv
  <2> SUFFICES ASSUME RogoInit PROVE SaveInv
    OBVIOUS
  <2>1. /\ file = [calibration |-> [f \in Fields |-> None], geometry |-> Measured, others |-> TRUE]
        /\ config = [c \in Clients |-> [f \in Fields |-> None]]
        /\ contents = [c \in Clients |-> None] /\ writing = {}
        /\ raced = [c \in Clients |-> FALSE] /\ saved = Measured
    BY DEF RogoInit
  <2>2. IsFile(file) /\ file.geometry = saved /\ file.others
    BY <2>1 DEF IsFile
  <2>3. SavedIsKept
    BY <2>2 DEF SavedIsKept
  <2>4. Saving = {}
    BY <2>1 DEF Saving
  <2>5. SaveShape
    <3>1. saved = [f \in Fields |-> saved[f]]
      BY <2>1 DEF Measured
    <3> QED BY <2>1, <2>2, <2>4, <3>1 DEF SaveShape
  <2>6. ConfigShape
    BY <2>1 DEF ConfigShape
  <2> QED BY <2>1, <2>3, <2>4, <2>5, <2>6 DEF SaveInv, SavesApart, SavesKeep, WritesAnew
<1>2. RogoInv /\ SaveInv /\ [RogoNext]_rogoVars => SaveInv'
  BY SaveInvKept
<1>3. SaveInv => SavedIsKept
  BY DEF SaveInv
<1> QED BY <1>1, <1>2, <1>3, RogoInvariant, PTL DEF RogoSpec


(***************************************************************************)
(* A command that has the Session to itself                                *)
(***************************************************************************)

\* What a command says of how the robot took its line.
Assessments == {"set", "done", "late", "fields", "noFields"}

Silent(t) == \A k \in 1..Len(t) : t[k].yes \notin Assessments /\ t[k].no \notin Assessments

\* The stages of a command that says it: prepare, send, await the ack, look for
\* what follows it, which is get lines for a get and an err for any other, and
\* wait for the end.
Completing(t) == t # << >> /\ Head(t) = DoneOrLate

Looking(t, gets) ==
  /\ t # << >>
  /\ \/ ~gets /\ Head(t) = ErrIs("warned", "go") /\ Completing(Tail(t))
     \/ ~gets /\ Head(t) = ErrIs("refused", "set")
     \/ gets /\ Head(t) = GetsFields

Awaiting(t, gets) == t # << >> /\ Head(t) = AckOrUnacked /\ Looking(Tail(t), gets)

Sends(t, gets) ==
  /\ t # << >> /\ Head(t).do = "send" /\ Head(t).yes = "go" /\ Head(t).no = "go"
  /\ gets => Head(t).what = "GET"
  /\ Awaiting(Tail(t), gets)

Prepares(t, gets) ==
  /\ t # << >> /\ Head(t).do = "load" /\ Head(t).yes = "go" /\ Head(t).no = "noConfig"
  /\ Sends(Tail(t), gets)

Gets(c) == command[c] = "config_get"

\* What a client was told, or is about to be.
Told(c) == seen[c] \cup {toHost[k].kind : k \in 1..Len(toHost)}

\* Its line was executed, and the ack is the first it is told.
Answered(c, n) ==
  /\ n \in 1..Len(log) /\ toRobot = << >>
  /\ Len(toHost) <= 2 /\ (n <= acked => Len(toHost) <= 1)
  /\ ~(n <= acked) => Len(toHost) >= 1 /\ toHost[1].kind = "ack" /\ toHost[1].n = n
  /\ \A k \in 1..Len(toHost) : toHost[k].kind = "err" => toHost[k].n = n
  /\ log[n].verdict = "rejected" => "err" \in Told(c)
  /\ Gets(c) => /\ log[n].verdict \in {"ok", "nothing"}
                /\ log[n].verdict = "ok" <=> "get" \in Told(c)

\* Its line is the only one under way, or will never be executed.
Unanswered(c, n) ==
  /\ Len(log) < n
  /\ \/ toRobot = << >>
     \/ /\ Len(toRobot) = 1 /\ toRobot[1].id = n /\ toHost = << >> /\ seen[c] = {}
        /\ Gets(c) => toRobot[1].verb = "GET"

\* How far the exchange is, at each stage.
Exchange(c) ==
  \/ Silent(todo[c])
  \/ /\ Prepares(todo[c], Gets(c)) \/ Sends(todo[c], Gets(c))
     /\ alone[c] /\ linkUp => Quiet /\ seen[c] = {}
  \/ /\ Awaiting(todo[c], Gets(c))
     /\ alone[c] /\ linkUp => Answered(c, id[c]) \/ Unanswered(c, id[c])
  \/ /\ Looking(todo[c], Gets(c))
     /\ alone[c] /\ linkUp => Answered(c, id[c]) /\ id[c] <= acked
  \/ /\ Completing(todo[c])
     /\ alone[c] => id[c] \in 1..Len(log) /\ log[id[c]].verdict # "rejected"

Truthful(c) ==
  /\ report[c] \in Assessments => id[c] \in 1..Len(log)
  /\ report[c] \in {"set", "done", "late"} => log[id[c]].verdict # "rejected"
  /\ report[c] = "fields" => log[id[c]].verdict = "ok"
  /\ report[c] = "noFields" => log[id[c]].verdict = "nothing"

AloneOK(c) ==
  /\ Exchange(c)
  /\ alone[c] => IF Idle(c) THEN Truthful(c) ELSE held \in {Nobody, c}

AloneInv == alone \in [Clients -> BOOLEAN] /\ \A c \in Clients : AloneOK(c)

\* No call its client gave up on comes before those of a command alone.
NothingBefore == \A c \in Clients : alone[c] /\ ~Idle(c) => abandoned[c] = << >>

(***************************************************************************)
(* Every script begins in a stage, and goes through them                   *)
(***************************************************************************)

\* A motion is sent, looked after and waited for, whether or not it is prepared.
LEMMA MotionStages ==
  ASSUME NEW v, SendsVerb(v), NEW gets, ~gets
  PROVE  /\ Sends(<<v>> \o AwaitCompletion, gets)
         /\ Prepares(<<PrepareTurn, v>> \o AwaitCompletion, gets)
<1> DEFINE e0 == PrepareTurn
           e1 == v
           e2 == AckOrUnacked
           e3 == ErrIs("warned", "go")
           e4 == DoneOrLate
           t == <<e1, e2, e3, e4>>
           u == <<e0, e1, e2, e3, e4>>
<1>1. /\ e0 \in Steps /\ e1 \in Steps /\ e2 \in Steps /\ e3 \in Steps /\ e4 \in Steps
  BY Parts DEF SendsVerb
<1>2. /\ <<v>> \o AwaitCompletion = <<e1>> \o <<e2, e3, e4>>
      /\ <<PrepareTurn, v>> \o AwaitCompletion = <<e0, e1>> \o <<e2, e3, e4>>
  BY Parts
<1>3. /\ e1.do = "send" /\ e1.yes = "go" /\ e1.no = "go"
      /\ e0.do = "load" /\ e0.yes = "go" /\ e0.no = "noConfig"
  BY DEF SendsVerb, PrepareTurn, Step
<1>4. e2 = AckOrUnacked /\ e3 = ErrIs("warned", "go") /\ e4 = DoneOrLate
  OBVIOUS
<1> HIDE DEF e0, e1, e2, e3, e4
<1>5. <<e1>> \o <<e2, e3, e4>> = t /\ <<e0, e1>> \o <<e2, e3, e4>> = u
  BY <1>1, LongerScripts
<1>6. /\ t # << >> /\ Head(t) = e1 /\ Tail(t) = <<e2, e3, e4>>
      /\ u # << >> /\ Head(u) = e0 /\ Tail(u) = t
      /\ <<e2, e3, e4>> # << >> /\ Head(<<e2, e3, e4>>) = e2 /\ Tail(<<e2, e3, e4>>) = <<e3, e4>>
      /\ <<e3, e4>> # << >> /\ Head(<<e3, e4>>) = e3 /\ Tail(<<e3, e4>>) = <<e4>>
      /\ <<e4>> # << >> /\ Head(<<e4>>) = e4
  OBVIOUS
<1> HIDE DEF t, u
<1>7. Looking(<<e3, e4>>, gets)
  BY <1>4, <1>6 DEF Looking, Completing
<1>8. Awaiting(<<e2, e3, e4>>, gets)
  BY <1>4, <1>6, <1>7 DEF Awaiting
<1>9. Sends(t, gets)
  BY <1>3, <1>6, <1>8 DEF Sends
<1>10. Prepares(u, gets)
  BY <1>3, <1>6, <1>9 DEF Prepares
<1> QED BY <1>2, <1>5, <1>9, <1>10

\* A GET and a SET are sent and looked after.
LEMMA ConfigStages ==
  ASSUME NEW gets
  PROVE  /\ gets => Sends(<<GetField>> \o AwaitAckAndGetLines, gets)
         /\ ~gets => Sends(<<SetField>> \o AwaitAckAndErr(ConfigSetError, "set"), gets)
<1> DEFINE a == GetField
           b == SetField
           e2 == AckOrUnacked
           e3 == GetsFields
           e4 == ErrIs("refused", "set")
           t == <<a, e2, e3>>
           u == <<b, e2, e4>>
<1>1. a \in Steps /\ b \in Steps /\ e2 \in Steps /\ e3 \in Steps /\ e4 \in Steps
  BY Parts, SentVerbs DEF SendsVerb
<1>2. /\ <<GetField>> \o AwaitAckAndGetLines = <<a>> \o <<e2, e3>>
      /\ <<SetField>> \o AwaitAckAndErr(ConfigSetError, "set") = <<b>> \o <<e2, e4>>
  BY Parts
<1>3. /\ a.do = "send" /\ a.yes = "go" /\ a.no = "go" /\ a.what = "GET"
      /\ b.do = "send" /\ b.yes = "go" /\ b.no = "go"
  BY DEF GetField, SetField, Send, Step
<1>4. e2 = AckOrUnacked /\ e3 = GetsFields /\ e4 = ErrIs("refused", "set")
  OBVIOUS
<1> HIDE DEF a, b, e2, e3, e4
<1>10. \A x, y, z \in Steps : <<x>> \o <<y, z>> = <<x, y, z>>
  BY LongerScripts
<1>5. <<a>> \o <<e2, e3>> = t /\ <<b>> \o <<e2, e4>> = u
  BY <1>1, <1>10
<1>6. /\ t # << >> /\ Head(t) = a /\ Tail(t) = <<e2, e3>>
      /\ u # << >> /\ Head(u) = b /\ Tail(u) = <<e2, e4>>
      /\ <<e2, e3>> # << >> /\ Head(<<e2, e3>>) = e2 /\ Tail(<<e2, e3>>) = <<e3>>
      /\ <<e2, e4>> # << >> /\ Head(<<e2, e4>>) = e2 /\ Tail(<<e2, e4>>) = <<e4>>
      /\ <<e3>> # << >> /\ Head(<<e3>>) = e3 /\ <<e4>> # << >> /\ Head(<<e4>>) = e4
  OBVIOUS
<1> HIDE DEF t, u
<1>7. (gets => Looking(<<e3>>, gets)) /\ (~gets => Looking(<<e4>>, gets))
  BY <1>4, <1>6 DEF Looking
<1>8. (gets => Awaiting(<<e2, e3>>, gets)) /\ (~gets => Awaiting(<<e2, e4>>, gets))
  BY <1>4, <1>6, <1>7 DEF Awaiting
<1>9. (gets => Sends(t, gets)) /\ (~gets => Sends(u, gets))
  BY <1>3, <1>6, <1>8 DEF Sends
<1> QED BY <1>2, <1>5, <1>9

\* The other scripts say nothing of the kind.
LEMMA SilentScripts ==
  /\ Silent(RunHello) /\ Silent(ToolHello) /\ Silent(RunEstop) /\ Silent(RunStop)
  /\ Silent(CmdDriveStream) /\ Silent(CalibrateTurns) /\ Silent(CalibrateDistance)
  /\ Silent(ToolCalibrateTurns) /\ Silent(<< >>)
<1>1. ASSUME NEW a, NEW b,
             a.yes \notin Assessments, a.no \notin Assessments,
             b.yes \notin Assessments, b.no \notin Assessments
      PROVE  Silent(<<a, b>>)
  <2> DEFINE t == <<a, b>>
  <2>1. Len(t) = 2 /\ t[1] = a /\ t[2] = b
    OBVIOUS
  <2> HIDE DEF t
  <2>2. \A k \in 1..Len(t) : k \in {1, 2}
    BY <2>1
  <2>3. Silent(t)
    BY <1>1, <2>1, <2>2 DEF Silent
  <2> QED BY <2>3 DEF t
<1>2. Silent(RunHello) /\ Silent(ToolHello) /\ Silent(RunEstop)
  <2> DEFINE hello == Step("say", "HELLO", "go", "go")
             estop == Step("say", "ESTOP", "go", "go")
             device == Step("pumpUntil", "device", "banner", "silent")
             heard == Step("pumpUntil", "estop", "confirmed", "unconfirmed")
  <2>1. /\ RunHello = <<hello, device>> /\ ToolHello = <<hello, device>>
        /\ RunEstop = <<estop, heard>>
    BY DEF RunHello, ToolHello, RunEstop, EstopVerb
  <2>2. /\ hello.yes \notin Assessments /\ hello.no \notin Assessments
        /\ estop.yes \notin Assessments /\ estop.no \notin Assessments
        /\ device.yes \notin Assessments /\ device.no \notin Assessments
        /\ heard.yes \notin Assessments /\ heard.no \notin Assessments
    BY DEF Step, Assessments
  <2> HIDE DEF hello, estop, device, heard
  <2>3. Silent(<<hello, device>>) /\ Silent(<<estop, heard>>)
    BY <1>1, <2>2
  <2> QED BY <2>1, <2>3
<1>3. /\ StopVerb.yes \notin Assessments /\ StopVerb.no \notin Assessments
      /\ AckIsStopped.yes \notin Assessments /\ AckIsStopped.no \notin Assessments
  BY DEF StopVerb, AckIsStopped, Send, Step, Assessments
<1>4. Silent(RunStop)
  <2>1. Silent(<<StopVerb, AckIsStopped>>)
    BY <1>1, <1>3
  <2> QED BY <2>1, Parts
<1>5. Silent(CmdDriveStream)
  <2> DEFINE e1 == Step("stream", "WHEELS_V", "go", "go")
             e2 == Step("pace", "any", "go", "go")
             e3 == StopVerb
             e4 == AckIsStopped
             t == <<e1, e2, e3, e4>>
  <2>1. e1 \in Steps /\ e2 \in Steps /\ e3 \in Steps /\ e4 \in Steps
    BY Parts DEF Step, Steps, Does, Verbs, Kinds, Whats, Outcomes, SuccessReports
  <2>2. CmdDriveStream = <<e1, e2>> \o <<e3, e4>>
    BY Parts DEF CmdDriveStream
  <2>3. /\ e1.yes \notin Assessments /\ e1.no \notin Assessments
        /\ e2.yes \notin Assessments /\ e2.no \notin Assessments
        /\ e3.yes \notin Assessments /\ e3.no \notin Assessments
        /\ e4.yes \notin Assessments /\ e4.no \notin Assessments
    BY <1>3 DEF Step, Assessments
  <2> HIDE DEF e1, e2, e3, e4
  <2>4. <<e1, e2>> \o <<e3, e4>> = t
    BY <2>1, LongerScripts
  <2>5. Len(t) = 4 /\ t[1] = e1 /\ t[2] = e2 /\ t[3] = e3 /\ t[4] = e4
    OBVIOUS
  <2> HIDE DEF t
  <2>6. \A k \in 1..Len(t) : k \in {1, 2, 3, 4}
    BY <2>5
  <2>7. Silent(t)
    BY <2>3, <2>5, <2>6 DEF Silent
  <2> QED BY <2>2, <2>4, <2>7
<1>6. \A t : (\A k \in 1..Len(t) : Calibrates(t[k])) => Silent(t)
  BY DEF Silent, Calibrates, Succeeds, SuccessReports, Assessments
<1>7. Silent(CalibrateTurns) /\ Silent(CalibrateDistance) /\ Silent(ToolCalibrateTurns)
  <2>1. Silent(Calibrate("trackwidth", "slip")) /\ Silent(Calibrate("config", "scale"))
    BY <1>6, CalibrateRuns
  <2> QED BY <1>6, <2>1, ToolCalibrateRuns DEF CalibrateTurns, CalibrateDistance
<1>8. Silent(<< >>)
  BY DEF Silent
<1> QED BY <1>2, <1>4, <1>5, <1>7, <1>8

\* So a command begins in one of these stages.
LEMMA EveryScriptIsStaged ==
  ASSUME NEW c \in Clients, NEW name \in Offered(c)
  PROVE  \/ Silent(ScriptOf(c, name))
         \/ Prepares(ScriptOf(c, name), name = "config_get")
         \/ Sends(ScriptOf(c, name), name = "config_get")
<1> DEFINE Staged(t, n) ==
      Silent(t) \/ Prepares(t, n = "config_get") \/ Sends(t, n = "config_get")
<1>1. \A n : n # "config_get" =>
        /\ Sends(CmdDriveMs, n = "config_get") /\ Sends(CmdDriveMm, n = "config_get")
        /\ Sends(CmdDriveNegative, n = "config_get") /\ Sends(RunGoto, n = "config_get")
        /\ Prepares(RunTurn, n = "config_get") /\ Sends(RunConfigSet, n = "config_get")
  BY MotionStages, ConfigStages, SentVerbs, NegativeDrive
     DEF CmdDriveMs, CmdDriveMm, RunGoto, RunTurn, RunConfigSet
<1>2. \A n : n = "config_get" => Sends(RunConfigGet, n = "config_get")
  BY ConfigStages DEF RunConfigGet
<1>3. /\ ToolStop = RunStop /\ ToolDrive = CmdDriveMs /\ ToolTurn = RunTurn
      /\ ToolGoto = RunGoto /\ ToolConfigGet = RunConfigGet /\ ToolConfigSet = RunConfigSet
  BY DEF ToolStop, RunStop, ToolDrive, CmdDriveMs, ToolTurn, RunTurn, ToolGoto, RunGoto,
         ToolConfigGet, RunConfigGet, ToolConfigSet, RunConfigSet
<1>4. \A n \in CommandNames : Staged(Commands[n], n)
  BY <1>1, <1>2, SilentScripts DEF Commands, CommandNames
<1>5. \A n \in ToolNames : Staged(Tools[n], n)
  BY <1>1, <1>2, <1>3, SilentScripts DEF Tools, ToolNames
<1> QED BY <1>4, <1>5, CommandsAssumption DEF ScriptOf, Offered

\* Each stage has its step first.
LEMMA StageStarts ==
  ASSUME NEW t, NEW gets
  PROVE  /\ Prepares(t, gets) =>
              Head(t).do = "load" /\ Head(t).yes = "go" /\ Head(t).no = "noConfig"
         /\ Sends(t, gets) => Head(t).do = "send" /\ Head(t).yes = "go" /\ Head(t).no = "go"
         /\ Awaiting(t, gets) => Head(t) = Step("pumpUntil", "ack", "go", "unacked")
         /\ Looking(t, gets) => Head(t).do \in {"pump", "drain"}
         /\ Completing(t) => Head(t) = Step("wait", "done", "done", "late")
BY DEF Prepares, Sends, Awaiting, Looking, Completing, AckOrUnacked, ErrIs, GetsFields, DoneOrLate,
       Step

\* And the step a client is at tells the stage.
LEMMA StageOfStep ==
  ASSUME NEW c \in Clients, Exchange(c)
  PROVE  \/ Silent(todo[c])
         \/ /\ Now(c).do = "load" /\ Prepares(todo[c], Gets(c))
            /\ alone[c] /\ linkUp => Quiet /\ seen[c] = {}
         \/ /\ Now(c).do = "send" /\ Sends(todo[c], Gets(c))
            /\ alone[c] /\ linkUp => Quiet /\ seen[c] = {}
         \/ /\ Now(c).do = "pumpUntil" /\ Awaiting(todo[c], Gets(c))
            /\ alone[c] /\ linkUp => Answered(c, id[c]) \/ Unanswered(c, id[c])
         \/ /\ Now(c).do \in {"pump", "drain"} /\ Looking(todo[c], Gets(c))
            /\ alone[c] /\ linkUp => Answered(c, id[c]) /\ id[c] <= acked
         \/ /\ Now(c).do = "wait" /\ Completing(todo[c])
            /\ alone[c] => id[c] \in 1..Len(log) /\ log[id[c]].verdict # "rejected"
<1>1. PICK gets : gets = Gets(c)
  OBVIOUS
<1>2. /\ Prepares(todo[c], Gets(c)) => Now(c).do = "load"
      /\ Sends(todo[c], Gets(c)) => Now(c).do = "send"
      /\ Awaiting(todo[c], Gets(c)) => Now(c).do = "pumpUntil"
      /\ Looking(todo[c], Gets(c)) => Now(c).do \in {"pump", "drain"}
      /\ Completing(todo[c]) => Now(c).do = "wait"
  BY StageStarts DEF Now, Step
<1> QED BY <1>2 DEF Exchange

\* A script that says nothing of the kind goes on saying nothing of the kind.
LEMMA StaysSilent ==
  ASSUME RogoInv, NEW c \in Clients, ~Idle(c), Silent(todo[c]),
         NEW o, OutcomeOf(Now(c), o), Advances(c, o)
  PROVE  Silent(todo'[c]) /\ report'[c] \notin Assessments
<1>1. /\ todo[c] \in Seq(Steps) /\ 1 \in 1..Len(todo[c]) /\ Now(c) = todo[c][1]
      /\ report[c] = "none" /\ Len(todo[c]) \in Nat
  BY FirstStep DEF RogoInv
<1>2. o \notin Assessments
  BY <1>1 DEF Silent, OutcomeOf, Assessments
<1>3. ASSUME NEW t, NEW m, Rest(t, todo[c], m) PROVE Silent(t)
  <2>1. \A k \in 1..Len(t) : k + m \in 1..Len(todo[c]) /\ t[k] = todo[c][k + m]
    <3>1. Len(t) \in Nat /\ m \in Nat
      BY <1>3, LenProperties DEF Rest
    <3> QED BY <1>1, <1>3, <3>1 DEF Rest
  <2> QED BY <2>1 DEF Silent
<1>4. /\ o = "go" => Rest(Tail(todo[c]), todo[c], 1)
      /\ o = "skip" => Rest(Tail(Tail(todo[c])), todo[c], 2)
  BY ScriptsLeft DEF RogoInv
<1>5. Silent(todo'[c])
  BY <1>3, <1>4, SilentScripts DEF Advances
<1> QED BY <1>1, <1>2, <1>5 DEF Advances, Assessments

\* A client that says nothing of the kind is right.
LEMMA SilentIsRight ==
  ASSUME NEW c \in Clients, Silent(todo'[c]), report'[c] \notin Assessments,
         alone'[c] => held' \in {Nobody, c}
  PROVE  AloneOK(c)'
<1>1. Exchange(c)'
  BY DEF Exchange
<1>2. Truthful(c)'
  BY DEF Truthful, Assessments
<1> QED BY <1>1, <1>2 DEF AloneOK

\* And so is one whose command ends with the truth.
LEMMA EndsRight ==
  ASSUME NEW c \in Clients, NEW o, o \notin {"go", "skip"}, Advances(c, o),
         alone'[c] => Truthful(c)'
  PROVE  AloneOK(c)'
<1>1. todo'[c] = << >> /\ command'[c] = "none"
  BY DEF Advances
<1>2. Exchange(c)'
  BY <1>1, SilentScripts DEF Exchange
<1>3. Idle(c)'
  BY <1>1 DEF Idle
<1> QED BY <1>2, <1>3 DEF AloneOK

\* What a step of others does to a client.  The exchange is left as it is, or the
\* link is closed, or the client waits, or it is no longer alone.
talk == <<toRobot, toHost, acked>>

LeavesAlone(c) ==
  /\ StaysPut(c) /\ id'[c] = id[c] /\ seen'[c] = seen[c] /\ log' = log
  /\ alone'[c] => alone[c]
  /\ alone'[c] /\ ~Idle(c) =>
       /\ held' \in {Nobody, c}
       /\ ~linkUp' \/ (linkUp' = linkUp /\ UNCHANGED talk) \/ Now(c).do = "wait"

\* It goes on being right.
LEMMA LeftAlone ==
  ASSUME RogoInv, NEW c \in Clients, AloneOK(c), LeavesAlone(c)
  PROVE  AloneOK(c)'
<1>1. /\ todo'[c] = todo[c] /\ command'[c] = command[c] /\ report'[c] = report[c]
      /\ id'[c] = id[c] /\ seen'[c] = seen[c] /\ log' = log
      /\ alone'[c] => alone[c]
  BY DEF LeavesAlone, StaysPut
<1>2. (Gets(c)' <=> Gets(c)) /\ (Idle(c)' <=> Idle(c))
  BY <1>1 DEF Gets, Idle
<1>3. CASE Idle(c)
  <2>1. todo[c] = << >>
    BY <1>3 DEF RogoInv, ClientOK, ClientShape
  <2>2. Exchange(c)'
    BY <1>1, <2>1, SilentScripts DEF Exchange
  <2>3. alone'[c] => Truthful(c)'
    BY <1>1, <1>3 DEF AloneOK, Truthful
  <2> QED BY <1>2, <1>3, <2>2, <2>3 DEF AloneOK
<1>4. CASE ~Idle(c)
  <2>1. alone'[c] => held' \in {Nobody, c}
    BY <1>4 DEF LeavesAlone
  <2>2. ASSUME alone'[c], linkUp', Now(c).do # "wait"
        PROVE  alone[c] /\ linkUp /\ toRobot' = toRobot /\ toHost' = toHost /\ acked' = acked
    BY <1>1, <1>4, <2>2 DEF LeavesAlone, talk
  <2>3. Exchange(c)'
    <3>1. Exchange(c)
      BY DEF AloneOK
    <3>2. CASE Silent(todo[c])
      BY <1>1, <3>2 DEF Exchange
    <3>3. CASE /\ Now(c).do \in {"load", "send"}
               /\ Prepares(todo[c], Gets(c)) \/ Sends(todo[c], Gets(c))
               /\ alone[c] /\ linkUp => Quiet /\ seen[c] = {}
      <4>1. Prepares(todo[c], Gets(c))' \/ Sends(todo[c], Gets(c))'
        BY <1>1, <3>3 DEF Gets
      <4>2. (alone[c] /\ linkUp => Quiet /\ seen[c] = {})'
        BY <1>1, <2>2, <3>3 DEF Quiet
      <4> QED BY <4>1, <4>2 DEF Exchange
    <3>4. CASE /\ Now(c).do = "pumpUntil" /\ Awaiting(todo[c], Gets(c))
               /\ alone[c] /\ linkUp => Answered(c, id[c]) \/ Unanswered(c, id[c])
      <4>1. Awaiting(todo[c], Gets(c))'
        BY <1>1, <3>4 DEF Gets
      <4>2. (alone[c] /\ linkUp => Answered(c, id[c]) \/ Unanswered(c, id[c]))'
        BY <1>1, <2>2, <3>4 DEF Answered, Unanswered, Told, Gets
      <4> QED BY <4>1, <4>2 DEF Exchange
    <3>5. CASE /\ Now(c).do \in {"pump", "drain"} /\ Looking(todo[c], Gets(c))
               /\ alone[c] /\ linkUp => Answered(c, id[c]) /\ id[c] <= acked
      <4>1. Looking(todo[c], Gets(c))'
        BY <1>1, <3>5 DEF Gets
      <4>2. (alone[c] /\ linkUp => Answered(c, id[c]) /\ id[c] <= acked)'
        BY <1>1, <2>2, <3>5 DEF Answered, Told, Gets
      <4> QED BY <4>1, <4>2 DEF Exchange
    <3>6. CASE /\ Now(c).do = "wait" /\ Completing(todo[c])
               /\ alone[c] => id[c] \in 1..Len(log) /\ log[id[c]].verdict # "rejected"
      BY <1>1, <3>6 DEF Exchange
    <3> QED BY <3>1, <3>2, <3>3, <3>4, <3>5, <3>6, StageOfStep
  <2> QED BY <1>2, <1>4, <2>1, <2>3 DEF AloneOK
<1> QED BY <1>3, <1>4

(***************************************************************************)
(* The robot takes its line                                                *)
(***************************************************************************)

\* What the robot makes of the next line: an err follows the ack of what it
\* rejects, a get line that of a GET it can answer.
LEMMA NextIsTaken ==
  ASSUME NEW line, TakesNext(line)
  PROVE  \E verdict, more :
           /\ Executes(line, verdict, more)
           /\ (line.verb = "GET" => verdict \in {"ok", "nothing"})
           /\ \/ verdict = "rejected" /\ more = Err(line)
              \/ /\ verdict # "rejected" /\ more = << >>
                 /\ (line.verb = "GET" => verdict = "nothing")
              \/ /\ line.verb = "GET" /\ verdict = "ok"
                 /\ more = <<Reply("get", 0, 0, line.by)>>
<1>1. CASE SimMoves(line)
  BY <1>1 DEF SimMoves, Motions
<1>2. CASE KernelMoves(line)
  BY <1>2 DEF KernelMoves, Motions
<1>3. CASE RobotStops(line)
  BY <1>3 DEF RobotStops
<1>4. CASE RobotConfigures(line)
  BY <1>4 DEF RobotConfigures
<1>5. CASE RobotTellsStatus(line)
  BY <1>5 DEF RobotTellsStatus
<1> QED BY <1>1, <1>2, <1>3, <1>4, <1>5 DEF TakesNext

\* What the robot executed it does not take back.
LEMMA LogGrows ==
  ASSUME RogoInv, RobotTakes
  PROVE  \A n \in 1..Len(log) : n \in 1..Len(log') /\ log'[n] = log[n]
<1>1. log \in Seq(LogSet) /\ Len(log) \in Nat
  BY DEF RogoInv, WireInv, WireTypes
<1> DEFINE line == Head(toRobot)
<1>2. CASE TakesEstop(line) \/ TakesHello(line) \/ TakesGap(line) \/ TakesUndecodable(line)
  BY <1>2 DEF TakesEstop, TakesHello, TakesGap, TakesUndecodable
<1>3. CASE TakesNext(line)
  <2>1. PICK verdict, more : Executes(line, verdict, more)
    BY <1>3, NextIsTaken
  <2>2. PICK e : log' = Append(log, e)
    BY <2>1 DEF Executes
  <2> QED BY <1>1, <2>2
<1> QED BY <1>2, <1>3 DEF RobotTakes

\* The one line under way is executed and answered, or never will be.
LEMMA LineIsAnswered ==
  ASSUME RogoInv, RobotTakes, NEW c \in Clients, NEW n \in Nat, Unanswered(c, n)
  PROVE  Answered(c, n)' \/ Unanswered(c, n)'
<1> DEFINE line == Head(toRobot)
<1>1. /\ Len(log) < n /\ Len(toRobot) = 1 /\ toRobot[1].id = n /\ toHost = << >>
      /\ seen[c] = {} /\ (Gets(c) => toRobot[1].verb = "GET")
  BY DEF Unanswered, RobotTakes
<1>2. /\ log \in Seq(LogSet) /\ Len(log) \in Nat /\ acked \in Nat /\ acked <= Len(log)
      /\ lastDone \in Nat /\ toRobot \in Seq(LineSet) /\ toRobot # << >>
  BY DEF RogoInv, WireInv, WireTypes, RepliesAreTrue, RobotTakes
<1>3. /\ line = toRobot[1] /\ line.id = n /\ n # 0 /\ line.verb \notin Unsequenced
      /\ (n = expectedNext => n = Len(log) + 1) /\ line.by \in Senders
  BY <1>1, <1>2, FrontLine DEF RogoInv
<1>4. toRobot' = << >>
  <2>1. toRobot' = Tail(toRobot)
    BY DEF RobotTakes
  <2> QED BY <1>1, <1>2, <2>1
<1>5. /\ acked' = acked /\ seen' = seen /\ command' = command
  BY DEF RobotTakes, sessionVars, clientVars, scriptVars
<1> HIDE DEF line
<1>6. ~TakesEstop(line) /\ ~TakesHello(line)
  BY <1>3 DEF TakesEstop, TakesHello, Unsequenced
<1>7. CASE TakesGap(line) \/ TakesUndecodable(line)
  <2>1. log' = log
    BY <1>7 DEF TakesGap, TakesUndecodable
  <2> QED BY <1>1, <1>4, <2>1 DEF Unanswered
<1>8. CASE TakesNext(line)
  <2>1. PICK verdict, more :
           /\ Executes(line, verdict, more)
           /\ (line.verb = "GET" => verdict \in {"ok", "nothing"})
           /\ \/ verdict = "rejected" /\ more = Err(line)
              \/ /\ verdict # "rejected" /\ more = << >>
                 /\ (line.verb = "GET" => verdict = "nothing")
              \/ /\ line.verb = "GET" /\ verdict = "ok"
                 /\ more = <<Reply("get", 0, 0, line.by)>>
    BY <1>8, NextIsTaken
  <2> DEFINE e == [verb |-> line.verb, by |-> line.by, verdict |-> verdict]
             ack == Reply("ack", line.id, lastDone, line.by)
             err == Reply("err", line.id, 0, line.by)
             get == Reply("get", 0, 0, line.by)
  <2>2. /\ log' = Append(log, e) /\ toHost' = toHost \o (<<ack>> \o more)
        /\ n = Len(log) + 1
    BY <1>3, <1>8, <2>1 DEF Executes, Answer, TakesNext
  <2>3. /\ ack.kind = "ack" /\ ack.n = n /\ err.kind = "err" /\ err.n = n /\ get.kind = "get"
        /\ e.verdict = verdict
    BY <1>3 DEF Reply
  <2>4. more = Err(line) => more = <<err>>
    BY DEF Err
  <2> HIDE DEF e, ack, err, get
  <2>5. n \in 1..Len(log') /\ log'[n] = e
    BY <1>2, <2>2
  <2>6. ~(n <= acked')
    BY <1>1, <1>2, <1>5
  <2>7. Gets(c)' => verdict \in {"ok", "nothing"} /\ line.verb = "GET"
    BY <1>1, <1>3, <1>5, <2>1 DEF Gets
  <2>8. CASE more = << >>
    <3>1. toHost' = <<ack>>
      BY <1>1, <2>2, <2>8
    <3>2. Len(toHost') = 1 /\ toHost'[1] = ack /\ \A k \in 1..Len(toHost') : k = 1
      BY <3>1
    <3>3. Told(c)' = {"ack"}
      BY <1>1, <1>5, <2>3, <3>2 DEF Told
    <3>4. verdict # "rejected" /\ (Gets(c)' => verdict = "nothing")
      <4>1. << >> # <<err>> /\ << >> # <<get>>
        OBVIOUS
      <4> QED BY <2>1, <2>4, <2>7, <2>8, <4>1 DEF get
    <3> QED BY <1>4, <2>3, <2>5, <2>6, <3>2, <3>3, <3>4 DEF Answered
  <2>9. ASSUME NEW r, more = <<r>>, r.kind \in {"err", "get"}, r.kind = "err" => r.n = n,
               verdict = "rejected" <=> r.kind = "err", Gets(c)' => verdict = "ok" /\ r.kind = "get"
        PROVE  Answered(c, n)'
    <3>1. /\ toHost' = <<ack>> \o <<r>> /\ Len(<<ack>> \o <<r>>) = 2
          /\ (<<ack>> \o <<r>>)[1] = ack /\ (<<ack>> \o <<r>>)[2] = r
      <4> DEFINE S == {ack, r}
      <4>1. /\ <<ack>> \in Seq(S) /\ Len(<<ack>>) = 1 /\ <<ack>>[1] = ack
            /\ <<r>> \in Seq(S) /\ Len(<<r>>) = 1 /\ <<r>>[1] = r
        OBVIOUS
      <4>2. << >> \o (<<ack>> \o <<r>>) = <<ack>> \o <<r>>
        BY <4>1, ConcatProperties, ConcatEmptySeq
      <4>3. /\ Len(<<ack>> \o <<r>>) = 1 + 1
            /\ \A i \in 1..(1 + 1) :
                 (<<ack>> \o <<r>>)[i] = IF i <= 1 THEN <<ack>>[i] ELSE <<r>>[i - 1]
        BY <4>1, ConcatProperties
      <4> QED BY <1>1, <2>2, <2>9, <4>1, <4>2, <4>3
    <3>2. /\ Len(toHost') = 2 /\ toHost'[1] = ack /\ toHost'[2] = r
          /\ \A k \in 1..Len(toHost') : k = 1 \/ k = 2
      BY <3>1
    <3>3. Told(c)' = {"ack", r.kind}
      <4>1. {toHost'[k].kind : k \in 1..Len(toHost')} = {"ack", r.kind}
        BY <2>3, <3>2
      <4> QED BY <1>1, <1>5, <4>1 DEF Told
    <3> QED BY <1>4, <2>3, <2>5, <2>6, <2>9, <3>2, <3>3 DEF Answered
  <2>10. CASE verdict = "rejected" /\ more = Err(line)
    BY <2>3, <2>4, <2>7, <2>9, <2>10
  <2>11. CASE line.verb = "GET" /\ verdict = "ok" /\ more = <<Reply("get", 0, 0, line.by)>>
    BY <2>3, <2>9, <2>11 DEF get
  <2> QED BY <2>1, <2>8, <2>10, <2>11
<1> QED BY <1>6, <1>7, <1>8 DEF RobotTakes, line

\* So what a client alone waits for is what the robot does.
LEMMA TakesAlone ==
  ASSUME RogoInv, RobotTakes, NEW c \in Clients, AloneOK(c)
  PROVE  AloneOK(c)'
<1>1. /\ todo' = todo /\ command' = command /\ report' = report /\ id' = id /\ seen' = seen
      /\ alone' = alone /\ held' = held /\ linkUp' = linkUp /\ acked' = acked
      /\ toRobot # << >>
  BY DEF RobotTakes, scriptVars, clientVars, ghostVars, sessionVars
<1>2. (Gets(c)' <=> Gets(c)) /\ (Idle(c)' <=> Idle(c))
  BY <1>1 DEF Gets, Idle
<1>3. PICK n \in Nat : n = id[c]
  BY DEF RogoInv, ClientTypes
<1>4. n \in 1..Len(log) => n \in 1..Len(log') /\ log'[n] = log[n]
  BY LogGrows
<1>5. ASSUME Truthful(c) PROVE Truthful(c)'
  BY <1>1, <1>3, <1>4, <1>5 DEF Truthful, Assessments
<1>6. Exchange(c)'
  <2>1. Exchange(c)
    BY DEF AloneOK
  <2>2. CASE Silent(todo[c])
    BY <1>1, <2>2 DEF Exchange
  <2>3. CASE /\ Prepares(todo[c], Gets(c)) \/ Sends(todo[c], Gets(c))
             /\ alone[c] /\ linkUp => Quiet /\ seen[c] = {}
    <3>1. Prepares(todo[c], Gets(c))' \/ Sends(todo[c], Gets(c))'
      BY <1>1, <2>3 DEF Gets
    <3>2. ~(alone'[c] /\ linkUp')
      BY <1>1, <2>3 DEF Quiet
    <3> QED BY <3>1, <3>2 DEF Exchange
  <2>4. CASE /\ Awaiting(todo[c], Gets(c))
             /\ alone[c] /\ linkUp => Answered(c, id[c]) \/ Unanswered(c, id[c])
    <3>1. Awaiting(todo[c], Gets(c))'
      BY <1>1, <2>4 DEF Gets
    <3>2. alone[c] /\ linkUp => Unanswered(c, n)
      BY <1>1, <1>3, <2>4 DEF Answered
    <3>3. alone[c] /\ linkUp => Answered(c, n)' \/ Unanswered(c, n)'
      BY <3>2, LineIsAnswered
    <3>4. (alone[c] /\ linkUp => Answered(c, id[c]) \/ Unanswered(c, id[c]))'
      BY <1>1, <1>3, <3>3 DEF Answered, Unanswered, Told, Gets
    <3> QED BY <3>1, <3>4 DEF Exchange
  <2>5. CASE /\ Looking(todo[c], Gets(c))
             /\ alone[c] /\ linkUp => Answered(c, id[c]) /\ id[c] <= acked
    <3>1. Looking(todo[c], Gets(c))'
      BY <1>1, <2>5 DEF Gets
    <3>2. ~(alone'[c] /\ linkUp')
      BY <1>1, <2>5 DEF Answered
    <3> QED BY <3>1, <3>2 DEF Exchange
  <2>6. CASE /\ Completing(todo[c])
             /\ alone[c] => id[c] \in 1..Len(log) /\ log[id[c]].verdict # "rejected"
    BY <1>1, <1>3, <1>4, <2>6 DEF Exchange
  <2> QED BY <2>1, <2>2, <2>3, <2>4, <2>5, <2>6 DEF Exchange
<1> QED BY <1>1, <1>2, <1>5, <1>6 DEF AloneOK

(***************************************************************************)
(* A client reads what it is told                                          *)
(***************************************************************************)

\* Whoever reads the answer to its line is told as much as before.
LEMMA AnswerIsRead ==
  ASSUME RogoInv, NEW c \in Clients, NEW n \in Nat, id[c] = n, Answered(c, n),
         NEW k \in 0..Len(toHost), Consume(k), log' = log,
         seen'[c] = seen[c] \cup Noticed(k, c)
  PROVE  /\ toRobot' = << >> /\ Len(toHost') = Len(toHost) - k
         /\ n <= acked => n <= acked' /\ Len(toHost) <= 1
         /\ k >= 1 => n <= acked'
         /\ "err" \in Told(c)' <=> "err" \in Told(c)
         /\ "get" \in Told(c)' <=> "get" \in Told(c)
         /\ command'[c] = command[c] => Answered(c, n)'
<1>1. /\ toHost \in Seq(ReplySet) /\ Len(toHost) \in Nat /\ acked \in Nat /\ k \in Nat
      /\ k <= Len(toHost) /\ toRobot' = toRobot /\ Handles(k)
      /\ toHost' = SubSeq(toHost, k + 1, Len(toHost))
  BY DEF RogoInv, WireInv, WireTypes, Consume
<1>2. /\ n \in 1..Len(log) /\ toRobot = << >> /\ Len(toHost) <= 2
      /\ (n <= acked => Len(toHost) <= 1)
      /\ ~(n <= acked) => Len(toHost) >= 1 /\ toHost[1].kind = "ack" /\ toHost[1].n = n
      /\ \A j \in 1..Len(toHost) : toHost[j].kind = "err" => toHost[j].n = n
  BY DEF Answered
<1>3. /\ Len(toHost') = Len(toHost) - k
      /\ \A j \in 1..Len(toHost') : k + j \in 1..Len(toHost) /\ toHost'[j] = toHost[k + j]
  BY <1>1, RepliesLeft
<1>4. \A j \in 1..Len(toHost) : toHost[j].n \in Nat
  <2>1. \A j \in 1..Len(toHost) : toHost[j] \in ReplySet
    BY <1>1
  <2> QED BY <2>1 DEF ReplySet
<1>5. /\ acked' = acked \/ \E i \in 1..k : toHost[i].kind = "ack" /\ acked' = toHost[i].n
      /\ acked <= acked'
      /\ \A i \in 1..k : toHost[i].kind = "ack" => toHost[i].n <= acked'
  BY <1>1 DEF Handles
<1>6. acked' \in Nat
  BY <1>1, <1>4, <1>5
<1>7. n <= acked => n <= acked'
  BY <1>1, <1>5, <1>6
<1>8. k >= 1 => n <= acked'
  <2>1. CASE k >= 1 /\ ~(n <= acked)
    <3>1. 1 \in 1..k
      BY <1>1, <2>1
    <3> QED BY <1>2, <1>5, <2>1, <3>1
  <2> QED BY <1>7, <2>1
<1>9. ASSUME NEW kind \in {"err", "get"}
      PROVE  kind \in Told(c)' <=> kind \in Told(c)
  <2>1. kind \in Told(c) <=> kind \in seen[c] \/ \E j \in 1..Len(toHost) : toHost[j].kind = kind
    BY DEF Told
  <2>2. kind \in Told(c)' <=> kind \in seen'[c] \/ \E j \in 1..Len(toHost') : toHost'[j].kind = kind
    BY DEF Told
  <2>3. kind \in Noticed(k, c) <=> \E j \in 1..k : toHost[j].kind = kind
    <3>1. \A j \in 1..k : j \in 1..Len(toHost)
      BY <1>1
    <3> QED BY <1>2, <3>1 DEF Noticed
  <2>4. ASSUME NEW j \in 1..Len(toHost), toHost[j].kind = kind
        PROVE  kind \in Noticed(k, c) \/ \E i \in 1..Len(toHost') : toHost'[i].kind = kind
    <3>1. CASE j <= k
      <4>1. j \in 1..k
        BY <1>1, <3>1
      <4> QED BY <2>3, <2>4, <4>1
    <3>2. CASE ~(j <= k)
      <4>1. j - k \in 1..Len(toHost') /\ k + (j - k) = j
        BY <1>1, <1>3, <3>2
      <4> QED BY <1>3, <2>4, <4>1
    <3> QED BY <3>1, <3>2
  <2>5. \A i \in 1..k : i \in 1..Len(toHost)
    BY <1>1
  <2> QED BY <1>3, <2>1, <2>2, <2>3, <2>4, <2>5
<1>10. ASSUME command'[c] = command[c] PROVE Answered(c, n)'
  <2>1. n \in 1..Len(log') /\ toRobot' = << >> /\ log'[n] = log[n]
    BY <1>1, <1>2
  <2>2. Len(toHost') <= 2 /\ (n <= acked' => Len(toHost') <= 1)
    <3>1. CASE k >= 1
      BY <1>1, <1>2, <1>3, <3>1
    <3>2. CASE ~(k >= 1) /\ n <= acked
      BY <1>1, <1>2, <1>3, <3>2
    <3>3. CASE ~(k >= 1) /\ ~(n <= acked)
      <4>1. acked' = acked
        BY <1>1, <1>5, <3>3
      <4> QED BY <1>1, <1>2, <1>3, <3>3, <4>1
    <3> QED BY <3>1, <3>2, <3>3
  <2>3. ~(n <= acked') => Len(toHost') >= 1 /\ toHost'[1].kind = "ack" /\ toHost'[1].n = n
    <3> SUFFICES ASSUME ~(n <= acked')
                 PROVE  Len(toHost') >= 1 /\ toHost'[1].kind = "ack" /\ toHost'[1].n = n
      OBVIOUS
    <3>1. k = 0 /\ ~(n <= acked)
      BY <1>1, <1>7, <1>8
    <3>2. Len(toHost') >= 1 /\ toHost'[1] = toHost[1]
      <4>1. Len(toHost') = Len(toHost) /\ Len(toHost) >= 1
        BY <1>1, <1>2, <1>3, <3>1
      <4>2. 1 \in 1..Len(toHost') /\ k + 1 = 1
        BY <1>1, <3>1, <4>1
      <4> QED BY <1>3, <4>1, <4>2
    <3> QED BY <1>2, <3>1, <3>2
  <2>4. \A j \in 1..Len(toHost') : toHost'[j].kind = "err" => toHost'[j].n = n
    BY <1>2, <1>3
  <2>5. /\ log[n].verdict = "rejected" => "err" \in Told(c)
        /\ Gets(c) => /\ log[n].verdict \in {"ok", "nothing"}
                      /\ log[n].verdict = "ok" <=> "get" \in Told(c)
    BY DEF Answered
  <2>6. Gets(c)' <=> Gets(c)
    BY <1>10 DEF Gets
  <2>7. /\ log'[n].verdict = "rejected" => "err" \in Told(c)'
        /\ Gets(c)' => /\ log'[n].verdict \in {"ok", "nothing"}
                       /\ log'[n].verdict = "ok" <=> "get" \in Told(c)'
    BY <1>9, <2>1, <2>5, <2>6
  <2> QED BY <2>1, <2>2, <2>3, <2>4, <2>7 DEF Answered
<1> QED BY <1>1, <1>2, <1>3, <1>7, <1>8, <1>9, <1>10

\* After the ack it reads all there is.
LEMMA AllIsRead ==
  ASSUME RogoInv, NEW c \in Clients, NEW n \in Nat, id[c] = n, Answered(c, n), n <= acked,
         NEW k \in Chunks, Consume(k), log' = log, seen'[c] = seen[c] \cup Noticed(k, c)
  PROVE  /\ log[n].verdict = "rejected" => "err" \in seen'[c]
         /\ Gets(c) => /\ log[n].verdict \in {"ok", "nothing"}
                       /\ log[n].verdict = "ok" <=> "get" \in seen'[c]
<1>1. toHost \in Seq(ReplySet) /\ Len(toHost) \in Nat
  BY DEF RogoInv, WireInv, WireTypes
<1>2. k \in 0..Len(toHost) /\ (toHost # << >> => k >= 1)
  BY <1>1 DEF Chunks, Quiet
<1>3. /\ Len(toHost') = Len(toHost) - k /\ Len(toHost) <= 1
      /\ "err" \in Told(c)' <=> "err" \in Told(c)
      /\ "get" \in Told(c)' <=> "get" \in Told(c)
  BY <1>2, AnswerIsRead
<1>4. Len(toHost') = 0
  <2>1. Len(toHost) = 0 \/ toHost # << >>
    BY <1>1
  <2> QED BY <1>1, <1>2, <1>3, <2>1
<1>5. Told(c)' = seen'[c]
  <2>1. \A j \in 1..Len(toHost') : FALSE
    BY <1>4
  <2> QED BY <2>1 DEF Told
<1>6. /\ log[n].verdict = "rejected" => "err" \in Told(c)
      /\ Gets(c) => /\ log[n].verdict \in {"ok", "nothing"}
                    /\ log[n].verdict = "ok" <=> "get" \in Told(c)
  BY DEF Answered
<1> QED BY <1>3, <1>5, <1>6

\* A line that is not executed is not acknowledged.
LEMMA NoAnswerIsRead ==
  ASSUME RogoInv, RogoInv', NEW c \in Clients, NEW n \in Nat, id[c] = n, Unanswered(c, n),
         NEW k, Consume(k), k # 0 => toHost # << >>, log' = log
  PROVE  ~(n <= acked') /\ (k # 0 => Unanswered(c, n)')
<1>1. acked' <= Len(log') /\ acked' \in Nat /\ Len(log') \in Nat
  BY DEF RogoInv, WireInv, WireTypes, RepliesAreTrue
<1>2. ~(n <= acked')
  BY <1>1 DEF Unanswered
<1>3. toRobot' = toRobot
  BY DEF Consume
<1> QED BY <1>2, <1>3 DEF Unanswered

\* A client that pumps, and nobody else meanwhile.
LEMMA Pumping ==
  ASSUME RogoInv, NEW c \in Clients, DoesPumpUntil(c) \/ DoesPump(c) \/ DoesDrain(c)
  PROVE  /\ ~Idle(c) /\ linkUp /\ linkUp' /\ held' = Nobody
         /\ log' = log /\ id'[c] = id[c] /\ id[c] \in Nat
         /\ alone'[c] => alone[c]
<1>1. /\ ~Idle(c) /\ linkUp /\ held = Nobody
  BY DEF DoesPumpUntil, DoesPump, DoesDrain, Serves
<1>2. /\ linkUp' = linkUp /\ held' = held /\ log' = log /\ id' = id /\ Intrudes(c)
  BY DEF DoesPumpUntil, DoesPump, DoesDrain, robotVars
<1>3. alone'[c] => alone[c]
  BY <1>2 DEF Intrudes
<1>4. id[c] \in Nat
  BY DEF RogoInv, ClientTypes
<1> QED BY <1>1, <1>2, <1>3, <1>4

\* What the proofs below need of the types.
LEMMA Typed ==
  ASSUME RogoInv
  PROVE  WireTypes /\ ClientTypes
BY DEF RogoInv, WireInv

\* It awaits the ack, and has it if its line was executed.
LEMMA PumpUntilAlone ==
  ASSUME RogoInv, RogoInv', NEW c \in Clients, AloneOK(c), DoesPumpUntil(c)
  PROVE  AloneOK(c)'
<1>1. /\ ~Idle(c) /\ linkUp /\ linkUp' /\ held' = Nobody /\ log' = log
      /\ id'[c] = id[c] /\ id[c] \in Nat /\ (alone'[c] => alone[c])
  BY Pumping
<1>2. PICK k : /\ k \in Chunks \cup {0} /\ Consume(k)
               /\ seen' = [seen EXCEPT ![c] = @ \cup Noticed(k, c)]
               /\ IF IF Now(c).what = "ack" THEN Acknowledged(c) ELSE Now(c).what \in seen'[c]
                    THEN Proceed(c, Now(c).yes)
                    ELSE IF k = 0 THEN Proceed(c, Now(c).no) ELSE Stay
  BY DEF DoesPumpUntil
<1>3. /\ toHost \in Seq(ReplySet) /\ Len(toHost) \in Nat /\ seen \in [Clients -> SUBSET Kinds]
  <2>1. WireTypes /\ ClientTypes
    BY Typed
  <2> QED BY <2>1 DEF WireTypes, ClientTypes
<1>4. /\ k \in 0..Len(toHost) /\ (k # 0 => toHost # << >>)
      /\ seen'[c] = seen[c] \cup Noticed(k, c)
  BY <1>2, <1>3 DEF Chunks
<1>5. Stay => todo'[c] = todo[c] /\ report'[c] = "none" /\ command'[c] = command[c]
  <2>1. report[c] = "none"
    BY <1>1 DEF RogoInv, ClientOK, ClientShape
  <2> QED BY <2>1 DEF Stay, scriptVars
<1>6. Now(c).do = "pumpUntil" /\ Exchange(c)
  BY DEF DoesPumpUntil, Serves, AloneOK
<1>7. CASE Silent(todo[c])
  <2>1. ASSUME NEW o, OutcomeOf(Now(c), o), Proceed(c, o) PROVE AloneOK(c)'
    <3>1. Advances(c, o)
      BY <1>1, <2>1, Proceeds
    <3>2. Silent(todo'[c]) /\ report'[c] \notin Assessments
      BY <1>1, <1>7, <2>1, <3>1, StaysSilent
    <3> QED BY <1>1, <3>2, SilentIsRight
  <2>2. CASE Stay
    <3>1. Silent(todo'[c]) /\ report'[c] \notin Assessments
      BY <1>5, <1>7, <2>2 DEF Assessments
    <3> QED BY <1>1, <3>1, SilentIsRight
  <2>3. OutcomeOf(Now(c), Now(c).yes) /\ OutcomeOf(Now(c), Now(c).no)
    BY DEF OutcomeOf
  <2> QED BY <1>2, <2>1, <2>2, <2>3
<1>8. CASE /\ Awaiting(todo[c], Gets(c))
           /\ alone[c] /\ linkUp => Answered(c, id[c]) \/ Unanswered(c, id[c])
  <2>1. /\ Now(c) = Step("pumpUntil", "ack", "go", "unacked") /\ Looking(Tail(todo[c]), Gets(c))
    BY <1>8, StageStarts DEF Now, Awaiting
  <2>2. PICK n \in Nat : n = id[c]
    BY <1>1
  <2>3. /\ Now(c).what = "ack" /\ Now(c).yes = "go" /\ Now(c).no = "unacked"
        /\ Acknowledged(c) <=> acked' >= n
    BY <1>1, <2>1, <2>2 DEF Step, Acknowledged
  <2>4. acked' \in Nat
    BY DEF RogoInv, WireInv, WireTypes
  <2>5. OutcomeOf(Now(c), "go") /\ OutcomeOf(Now(c), "unacked")
    BY <2>3 DEF OutcomeOf
  <2>6. CASE Acknowledged(c)
    <3>1. Advances(c, "go")
      BY <1>1, <1>2, <2>3, <2>5, <2>6, Proceeds
    <3>2. todo'[c] = Tail(todo[c]) /\ command'[c] = command[c]
      BY <3>1 DEF Advances
    <3>3. Looking(todo[c], Gets(c))'
      BY <2>1, <3>2 DEF Gets
    <3>4. ASSUME alone'[c] PROVE Answered(c, n)' /\ n <= acked'
      <4>1. Answered(c, n)
        BY <1>1, <1>2, <1>4, <1>8, <2>2, <2>3, <2>4, <2>6, <3>4, NoAnswerIsRead
      <4> QED BY <1>1, <1>2, <1>4, <2>2, <2>3, <2>4, <2>6, <3>2, <4>1, AnswerIsRead
    <3>5. (alone[c] /\ linkUp => Answered(c, id[c]) /\ id[c] <= acked)'
      BY <1>1, <2>2, <3>4 DEF Answered
    <3>6. ~Idle(c)'
      BY <1>1, <3>2 DEF Idle
    <3>7. Exchange(c)'
      BY <3>3, <3>5 DEF Exchange
    <3> QED BY <1>1, <3>6, <3>7 DEF AloneOK
  <2>7. CASE ~Acknowledged(c) /\ k = 0
    <3>1. Advances(c, "unacked")
      BY <1>1, <1>2, <2>3, <2>5, <2>7, Proceeds
    <3>2. Truthful(c)'
      BY <3>1 DEF Advances, Truthful, Assessments
    <3> QED BY <3>1, <3>2, EndsRight
  <2>8. CASE ~Acknowledged(c) /\ k # 0
    <3>1. Stay
      BY <1>2, <2>3, <2>8
    <3>2. todo'[c] = todo[c] /\ command'[c] = command[c]
      BY <1>5, <3>1
    <3>3. Awaiting(todo[c], Gets(c))'
      BY <1>8, <3>2 DEF Gets
    <3>4. ASSUME alone'[c] PROVE Answered(c, n)' \/ Unanswered(c, n)'
      <4>1. Answered(c, n) \/ Unanswered(c, n)
        BY <1>1, <1>8, <2>2, <3>4
      <4>2. CASE Answered(c, n)
        BY <1>1, <1>2, <1>4, <2>2, <3>2, <4>2, AnswerIsRead
      <4>3. CASE Unanswered(c, n)
        BY <1>1, <1>2, <1>4, <2>2, <2>8, <4>3, NoAnswerIsRead
      <4> QED BY <4>1, <4>2, <4>3
    <3>5. (alone[c] /\ linkUp => Answered(c, id[c]) \/ Unanswered(c, id[c]))'
      BY <1>1, <2>2, <3>4 DEF Answered, Unanswered
    <3>6. ~Idle(c)'
      BY <1>1, <3>2 DEF Idle
    <3>7. Exchange(c)'
      BY <3>3, <3>5 DEF Exchange
    <3> QED BY <1>1, <3>6, <3>7 DEF AloneOK
  <2> QED BY <2>6, <2>7, <2>8
<1> QED BY <1>6, <1>7, <1>8, StageOfStep

\* The grace pump after the ack finds the err of a line that was rejected.
LEMMA PumpAlone ==
  ASSUME RogoInv, NEW c \in Clients, AloneOK(c), DoesPump(c)
  PROVE  AloneOK(c)'
<1>1. /\ ~Idle(c) /\ linkUp /\ linkUp' /\ held' = Nobody /\ log' = log
      /\ id'[c] = id[c] /\ id[c] \in Nat /\ (alone'[c] => alone[c])
  BY Pumping
<1>2. PICK k \in Chunks :
         /\ Consume(k) /\ seen' = [seen EXCEPT ![c] = @ \cup Noticed(k, c)]
         /\ Proceed(c, IF Now(c).what \in seen'[c] THEN Now(c).yes ELSE Now(c).no)
  BY DEF DoesPump
<1>3. seen'[c] = seen[c] \cup Noticed(k, c)
  BY <1>2 DEF RogoInv, ClientTypes
<1>4. Now(c).do = "pump" /\ Exchange(c)
  BY DEF DoesPump, Serves, AloneOK
<1>5. PICK o : o = IF Now(c).what \in seen'[c] THEN Now(c).yes ELSE Now(c).no
  OBVIOUS
<1>6. Proceed(c, o) /\ OutcomeOf(Now(c), o)
  BY <1>2, <1>5 DEF OutcomeOf
<1>7. Advances(c, o)
  BY <1>1, <1>6, Proceeds
<1>8. CASE Silent(todo[c])
  <2>1. Silent(todo'[c]) /\ report'[c] \notin Assessments
    BY <1>1, <1>6, <1>7, <1>8, StaysSilent
  <2> QED BY <1>1, <2>1, SilentIsRight
<1>9. CASE /\ Looking(todo[c], Gets(c))
           /\ alone[c] /\ linkUp => Answered(c, id[c]) /\ id[c] <= acked
  <2>1. /\ Now(c) = ErrIs("warned", "go") /\ Completing(Tail(todo[c]))
        \/ Now(c) = ErrIs("refused", "set")
    BY <1>4, <1>9 DEF Looking, Now, GetsFields, Step
  <2>2. PICK n \in Nat : n = id[c]
    BY <1>1
  <2>3. ASSUME alone'[c], "err" \notin seen'[c] PROVE n \in 1..Len(log) /\ log[n].verdict # "rejected"
    <3>1. Answered(c, n) /\ n <= acked
      BY <1>1, <1>9, <2>2, <2>3
    <3>2. log[n].verdict # "rejected"
      BY <1>1, <1>2, <1>3, <2>2, <2>3, <3>1, AllIsRead
    <3> QED BY <3>1, <3>2 DEF Answered
  <2>4. CASE "err" \in seen'[c]
    <3>1. o \in {"warned", "refused"}
      BY <1>5, <2>1, <2>4 DEF ErrIs, Step
    <3>2. Truthful(c)'
      BY <1>7, <3>1 DEF Advances, Truthful, Assessments
    <3> QED BY <1>7, <3>1, <3>2, EndsRight
  <2>5. CASE "err" \notin seen'[c] /\ Now(c) = ErrIs("refused", "set")
    <3>1. o = "set"
      BY <1>5, <2>5 DEF ErrIs, Step
    <3>2. alone'[c] => Truthful(c)'
      BY <1>1, <1>7, <2>2, <2>3, <2>5, <3>1 DEF Advances, Truthful, Assessments
    <3> QED BY <1>7, <3>1, <3>2, EndsRight
  <2>6. CASE "err" \notin seen'[c] /\ Now(c) = ErrIs("warned", "go") /\ Completing(Tail(todo[c]))
    <3>1. o = "go"
      BY <1>5, <2>6 DEF ErrIs, Step
    <3>2. todo'[c] = Tail(todo[c]) /\ command'[c] = command[c]
      BY <1>7, <3>1 DEF Advances
    <3>3. Exchange(c)'
      BY <1>1, <2>2, <2>3, <2>6, <3>2 DEF Exchange
    <3>4. ~Idle(c)'
      BY <1>1, <3>2 DEF Idle
    <3> QED BY <1>1, <3>3, <3>4 DEF AloneOK
  <2> QED BY <2>1, <2>4, <2>5, <2>6
<1> QED BY <1>4, <1>8, <1>9, StageOfStep

\* The drain after the ack finds the get line of a GET the robot can answer.
LEMMA DrainAlone ==
  ASSUME RogoInv, NEW c \in Clients, AloneOK(c), DoesDrain(c)
  PROVE  AloneOK(c)'
<1>1. /\ ~Idle(c) /\ linkUp /\ linkUp' /\ held' = Nobody /\ log' = log
      /\ id'[c] = id[c] /\ id[c] \in Nat /\ (alone'[c] => alone[c])
  BY Pumping
<1>2. PICK k \in Chunks :
         /\ Consume(k) /\ seen' = [seen EXCEPT ![c] = @ \cup Noticed(k, c)]
         /\ \/ k > 0 /\ Stay
            \/ "get" \notin Noticed(k, c)
               /\ Proceed(c, IF "get" \in seen'[c] THEN Now(c).yes ELSE Now(c).no)
  BY DEF DoesDrain
<1>3. seen'[c] = seen[c] \cup Noticed(k, c)
  BY <1>2 DEF RogoInv, ClientTypes
<1>4. Now(c).do = "drain" /\ Exchange(c)
  BY DEF DoesDrain, Serves, AloneOK
<1>5. PICK o : o = IF "get" \in seen'[c] THEN Now(c).yes ELSE Now(c).no
  OBVIOUS
<1>6. Stay \/ (Proceed(c, o) /\ OutcomeOf(Now(c), o))
  BY <1>2, <1>5 DEF OutcomeOf
<1>7. Stay => todo'[c] = todo[c] /\ report'[c] = "none" /\ command'[c] = command[c]
  <2>1. report[c] = "none"
    BY <1>1 DEF RogoInv, ClientOK, ClientShape
  <2> QED BY <2>1 DEF Stay, scriptVars
<1>8. Proceed(c, o) /\ OutcomeOf(Now(c), o) => Advances(c, o)
  BY <1>1, Proceeds
<1>9. CASE Silent(todo[c])
  <2>1. Silent(todo'[c]) /\ report'[c] \notin Assessments
    <3>1. CASE Stay
      BY <1>7, <1>9, <3>1 DEF Assessments
    <3>2. CASE Proceed(c, o) /\ OutcomeOf(Now(c), o)
      BY <1>1, <1>8, <1>9, <3>2, StaysSilent
    <3> QED BY <1>6, <3>1, <3>2
  <2> QED BY <1>1, <2>1, SilentIsRight
<1>10. CASE /\ Looking(todo[c], Gets(c))
            /\ alone[c] /\ linkUp => Answered(c, id[c]) /\ id[c] <= acked
  <2>1. Now(c) = GetsFields /\ Gets(c)
    BY <1>4, <1>10 DEF Looking, Now, ErrIs, Step
  <2>2. PICK n \in Nat : n = id[c]
    BY <1>1
  <2>3. alone'[c] => Answered(c, n) /\ n <= acked
    BY <1>1, <1>10, <2>2
  <2>4. k \in 0..Len(toHost)
    BY DEF Chunks, RogoInv, WireInv, WireTypes
  <2>5. CASE Stay
    <3>1. Looking(todo[c], Gets(c))'
      BY <1>7, <1>10, <2>5 DEF Gets
    <3>2. alone'[c] => Answered(c, n)' /\ n <= acked'
      BY <1>1, <1>2, <1>3, <1>7, <2>2, <2>3, <2>4, <2>5, AnswerIsRead
    <3>3. (alone[c] /\ linkUp => Answered(c, id[c]) /\ id[c] <= acked)'
      BY <1>1, <2>2, <3>2 DEF Answered
    <3>4. Exchange(c)'
      BY <3>1, <3>3 DEF Exchange
    <3>5. ~Idle(c)'
      BY <1>1, <1>7, <2>5 DEF Idle
    <3> QED BY <1>1, <3>4, <3>5 DEF AloneOK
  <2>6. CASE Proceed(c, o) /\ OutcomeOf(Now(c), o)
    <3>1. o = (IF "get" \in seen'[c] THEN "fields" ELSE "noFields") /\ Advances(c, o)
      BY <1>5, <1>8, <2>1, <2>6 DEF GetsFields, Step
    <3>2. ASSUME alone'[c]
          PROVE  /\ n \in 1..Len(log) /\ log[n].verdict \in {"ok", "nothing"}
                 /\ log[n].verdict = "ok" <=> "get" \in seen'[c]
      <4>1. n \in 1..Len(log)
        BY <2>3, <3>2 DEF Answered
      <4> QED BY <1>1, <1>2, <1>3, <2>1, <2>2, <2>3, <3>2, <4>1, AllIsRead
    <3>3. alone'[c] => Truthful(c)'
      BY <1>1, <2>2, <3>1, <3>2 DEF Advances, Truthful, Assessments
    <3> QED BY <3>1, <3>3, EndsRight
  <2> QED BY <1>6, <2>5, <2>6
<1> QED BY <1>4, <1>9, <1>10, StageOfStep

(***************************************************************************)
(* Every step leaves what a client alone knows                             *)
(***************************************************************************)

\* A client nobody disturbs.
LEMMA NotDisturbed ==
  ASSUME RogoInv, NEW d \in Clients, AloneOK(d), StaysPut(d), id'[d] = id[d], seen'[d] = seen[d],
         log' = log, alone'[d] => alone[d], linkUp' = linkUp, UNCHANGED talk, held' \in {held, Nobody}
  PROVE  AloneOK(d)'
<1>1. alone[d] /\ ~Idle(d) => held \in {Nobody, d}
  BY DEF AloneOK
<1>2. LeavesAlone(d)
  BY <1>1 DEF LeavesAlone
<1> QED BY <1>2, LeftAlone

\* One whose command is no longer alone.
LEMMA NoLongerAlone ==
  ASSUME RogoInv, NEW d \in Clients, AloneOK(d), StaysPut(d), id'[d] = id[d], seen'[d] = seen[d],
         log' = log, alone'[d] => alone[d] /\ Idle(d)
  PROVE  AloneOK(d)'
<1>1. LeavesAlone(d)
  BY DEF LeavesAlone
<1> QED BY <1>1, LeftAlone

\* What a call does to the others.
LEMMA OthersIntrudedOn ==
  ASSUME RogoInv, AloneInv, NEW c \in Clients, AloneOK(c)',
         alone' = [d \in Clients |-> alone[d] /\ (d = c \/ Idle(d))],
         log' = log,
         \A d \in Clients : d # c => StaysPut(d) /\ id'[d] = id[d] /\ seen'[d] = seen[d]
  PROVE  AloneInv'
<1>1. alone' \in [Clients -> BOOLEAN]
  BY Zenon
<1>2. ASSUME NEW d \in Clients, d # c PROVE AloneOK(d)'
  <2>1. alone'[d] => alone[d] /\ Idle(d)
    BY <1>2
  <2> QED BY <1>2, <2>1, NoLongerAlone DEF AloneInv
<1>3. \A d \in Clients : AloneOK(d)'
  BY <1>2
<1> QED BY <1>1, <1>3 DEF AloneInv

\* What a client does by itself does nothing to the others.
LEMMA OthersNotDisturbed ==
  ASSUME RogoInv, AloneInv, NEW c \in Clients, AloneOK(c)', alone' = alone,
         log' = log, linkUp' = linkUp, UNCHANGED talk, held' \in {held, Nobody},
         \A d \in Clients : d # c => StaysPut(d) /\ id'[d] = id[d] /\ seen'[d] = seen[d]
  PROVE  AloneInv'
<1>1. ASSUME NEW d \in Clients, d # c PROVE AloneOK(d)'
  BY <1>1, NotDisturbed DEF AloneInv
<1>2. \A d \in Clients : AloneOK(d)'
  BY <1>1
<1> QED BY <1>2 DEF AloneInv

\* What disturbs nobody.
LEMMA AllUndisturbed ==
  ASSUME RogoInv, AloneInv, alone' = alone, held' = held, id' = id, seen' = seen, log' = log,
         linkUp' = linkUp, UNCHANGED talk, \A d \in Clients : StaysPut(d)
  PROVE  AloneInv'
<1>1. ASSUME NEW d \in Clients PROVE AloneOK(d)'
  BY NotDisturbed DEF AloneInv
<1> QED BY <1>1 DEF AloneInv

\* A script that says nothing of the kind proceeds.
LEMMA SilentProceeds ==
  ASSUME RogoInv, NEW c \in Clients, ~Idle(c), Silent(todo[c]),
         NEW o, OutcomeOf(Now(c), o), Proceed(c, o), alone'[c] => held' \in {Nobody, c}
  PROVE  AloneOK(c)'
<1>1. Advances(c, o)
  BY Proceeds
<1>2. Silent(todo'[c]) /\ report'[c] \notin Assessments
  BY <1>1, StaysSilent
<1> QED BY <1>2, SilentIsRight

\* Only a script of that kind says, streams, asks or saves.
LEMMA OthersAreSilent ==
  ASSUME NEW c \in Clients, AloneOK(c), Now(c).do \in {"say", "stream", "pace", "ask", "save"}
  PROVE  Silent(todo[c])
<1>1. Exchange(c)
  BY DEF AloneOK
<1> QED BY <1>1, StageOfStep

\* A command begins with nothing under way, if it is alone.
LEMMA BeginAlone ==
  ASSUME RogoInv, AloneInv, NEW c \in Clients, NEW name \in Offered(c), Begin(c, name)
  PROVE  AloneInv'
<1>1. /\ command' = [command EXCEPT ![c] = name] /\ todo' = [todo EXCEPT ![c] = ScriptOf(c, name)]
      /\ report' = [report EXCEPT ![c] = "none"] /\ id' = [id EXCEPT ![c] = 0]
      /\ seen' = [seen EXCEPT ![c] = {}]
      /\ alone' = [alone EXCEPT ![c] = /\ Quiet /\ held = Nobody
                                       /\ \A d \in Clients : abandoned[d] = << >>]
      /\ log' = log /\ linkUp' = linkUp /\ UNCHANGED talk /\ held' = held
  BY DEF Begin, robotVars, wireVars, sessionVars, talk
<1>2. /\ DOMAIN command = Clients /\ DOMAIN todo = Clients /\ DOMAIN report = Clients
      /\ DOMAIN id = Clients /\ DOMAIN seen = Clients
  <2>1. ClientTypes
    BY Typed
  <2> QED BY <2>1 DEF ClientTypes
<1>3. alone \in [Clients -> BOOLEAN]
  BY DEF AloneInv
<1>4. /\ command'[c] = name /\ todo'[c] = ScriptOf(c, name) /\ seen'[c] = {}
  BY <1>1, <1>2
<1>5. alone'[c] => Quiet /\ held = Nobody
  BY <1>1, <1>3
<1>6. alone' \in [Clients -> BOOLEAN]
  <2>1. (Quiet /\ held = Nobody /\ \A d \in Clients : abandoned[d] = << >>) \in BOOLEAN
    BY Zenon
  <2> QED BY <1>1, <1>3, <2>1, Zenon
<1>7. name # "none"
  BY CommandsAssumption DEF Offered, CommandNames, ToolNames
<1>8. AloneOK(c)'
  <2>1. (Gets(c) <=> name = "config_get")'
    BY <1>4 DEF Gets
  <2>2. \/ Silent(todo'[c])
        \/ Prepares(todo'[c], name = "config_get") \/ Sends(todo'[c], name = "config_get")
    BY <1>4, EveryScriptIsStaged
  <2>3. (alone[c] /\ linkUp => Quiet /\ seen[c] = {})'
    BY <1>1, <1>4, <1>5 DEF Quiet, talk
  <2>4. Exchange(c)'
    <3>1. CASE Silent(todo'[c])
      BY <3>1 DEF Exchange
    <3>2. CASE Prepares(todo'[c], name = "config_get") \/ Sends(todo'[c], name = "config_get")
      <4>1. (Prepares(todo[c], Gets(c)) \/ Sends(todo[c], Gets(c)))'
        BY <1>4, <3>2 DEF Gets
      <4> QED BY <2>3, <4>1 DEF Exchange
    <3> QED BY <2>2, <3>1, <3>2
  <2>5. ~Idle(c)'
    BY <1>4, <1>7 DEF Idle
  <2>6. alone'[c] => held' \in {Nobody, c}
    BY <1>1, <1>5
  <2> QED BY <2>4, <2>5, <2>6 DEF AloneOK
<1>9. ASSUME NEW d \in Clients, d # c PROVE AloneOK(d)'
  <2>1. StaysPut(d) /\ id'[d] = id[d] /\ seen'[d] = seen[d]
    BY <1>1, <1>2, <1>9 DEF StaysPut
  <2>2. alone'[d] = alone[d]
    BY <1>1, <1>3, <1>9
  <2> QED BY <1>1, <2>1, <2>2, NotDisturbed DEF AloneInv
<1>10. \A d \in Clients : AloneOK(d)'
  BY <1>8, <1>9
<1> QED BY <1>6, <1>10 DEF AloneInv

\* The line it sends is the only one under way.
LEMMA SendAlone ==
  ASSUME RogoInv, AloneInv, NEW c \in Clients, DoesSend(c)
  PROVE  AloneInv'
<1>1. /\ ~Idle(c) /\ linkUp /\ held = Nobody /\ Now(c).do = "send"
      /\ toRobot' = Append(toRobot, Line(Now(c).what, nextId, c)) /\ toHost' = toHost
      /\ id' = [id EXCEPT ![c] = nextId] /\ Proceed(c, "go")
      /\ log' = log /\ linkUp' = linkUp /\ held' = held /\ seen' = seen
      /\ alone' = [d \in Clients |-> alone[d] /\ (d = c \/ Idle(d))]
  BY DEF DoesSend, Serves, Assign, Intrudes, robotVars
<1>2. AloneOK(c) /\ Exchange(c)
  BY DEF AloneInv, AloneOK
<1>3. OutcomeOf(Now(c), "go")
  <2>1. StepOK(Now(c), Len(todo[c]) - 1)
    BY Serving DEF DoesSend
  <2> QED BY <1>1, <2>1 DEF StepOK, OutcomeOf
<1>4. Advances(c, "go") /\ \A d \in Clients : d # c => StaysPut(d)
  BY <1>1, <1>3, Proceeds
<1>5. /\ DOMAIN id = Clients /\ nextId \in Nat /\ Len(log) < nextId
  <2>1. WireTypes /\ ClientTypes /\ WireInOrder
    BY Typed DEF RogoInv, WireInv
  <2> QED BY <2>1 DEF WireTypes, ClientTypes, WireInOrder
<1>6. id'[c] = nextId /\ \A d \in Clients : d # c => id'[d] = id[d] /\ seen'[d] = seen[d]
  BY <1>1, <1>5
<1>7. alone'[c] => alone[c]
  BY <1>1
<1>8. PICK n \in Nat : n = nextId
  BY <1>5
<1>9. CASE Silent(todo[c])
  <2>1. AloneOK(c)'
    BY <1>1, <1>3, <1>9, SilentProceeds
  <2> QED BY <1>1, <1>4, <1>6, <2>1, OthersIntrudedOn
<1>10. CASE /\ Sends(todo[c], Gets(c))
            /\ alone[c] /\ linkUp => Quiet /\ seen[c] = {}
  <2>1. todo'[c] = Tail(todo[c]) /\ command'[c] = command[c]
    BY <1>4 DEF Advances
  <2>2. Awaiting(todo[c], Gets(c))'
    BY <1>10, <2>1 DEF Sends, Gets
  <2>3. ASSUME alone'[c] PROVE Unanswered(c, n)'
    <3>1. toRobot = << >> /\ toHost = << >> /\ seen[c] = {}
      BY <1>1, <1>7, <1>10, <2>3 DEF Quiet
    <3>2. toRobot' = <<Line(Now(c).what, nextId, c)>>
      BY <1>1, <3>1
    <3>3. /\ Len(toRobot') = 1 /\ toRobot'[1].id = n /\ toRobot'[1].verb = Now(c).what
      BY <1>8, <3>2 DEF Line
    <3>4. Gets(c)' => toRobot'[1].verb = "GET"
      BY <1>10, <2>1, <3>3 DEF Gets, Sends, Now
    <3> QED BY <1>1, <1>5, <1>8, <3>1, <3>3, <3>4 DEF Unanswered
  <2>4. (alone[c] /\ linkUp => Answered(c, id[c]) \/ Unanswered(c, id[c]))'
    BY <1>6, <1>8, <2>3 DEF Answered, Unanswered
  <2>5. Exchange(c)'
    BY <2>2, <2>4 DEF Exchange
  <2>6. ~Idle(c)'
    BY <1>1, <2>1 DEF Idle
  <2>7. AloneOK(c)'
    BY <1>1, <2>5, <2>6 DEF AloneOK
  <2> QED BY <1>1, <1>4, <1>6, <2>7, OthersIntrudedOn
<1> QED BY <1>1, <1>2, <1>9, <1>10, StageOfStep

\* A client that pumps disturbs the others.
LEMMA PumpsAlone ==
  ASSUME RogoInv, RogoInv', AloneInv, NEW c \in Clients,
         DoesPumpUntil(c) \/ DoesPump(c) \/ DoesDrain(c)
  PROVE  AloneInv'
<1>1. AloneOK(c)
  BY DEF AloneInv
<1>2. AloneOK(c)'
  BY <1>1, PumpUntilAlone, PumpAlone, DrainAlone
<1>3. /\ ~Idle(c) /\ Intrudes(c) /\ log' = log /\ id' = id
      /\ \E looked : seen' = [seen EXCEPT ![c] = @ \cup looked]
      /\ \E o \in {Now(c).yes, Now(c).no} : Proceed(c, o) \/ Stay
  BY DEF DoesPumpUntil, DoesPump, DoesDrain, Serves, robotVars
<1>4. DOMAIN seen = Clients
  <2>1. ClientTypes
    BY Typed
  <2> QED BY <2>1 DEF ClientTypes
<1>5. \A d \in Clients : d # c => id'[d] = id[d] /\ seen'[d] = seen[d]
  BY <1>3, <1>4
<1>6. \A d \in Clients : d # c => StaysPut(d)
  <2>1. PICK o \in {Now(c).yes, Now(c).no} : Proceed(c, o) \/ Stay
    BY <1>3
  <2>2. CASE Proceed(c, o)
    BY <1>3, <2>1, <2>2, Proceeds DEF OutcomeOf
  <2>3. CASE Stay
    BY <2>3 DEF Stay, scriptVars, StaysPut
  <2> QED BY <2>1, <2>2, <2>3
<1> QED BY <1>2, <1>3, <1>5, <1>6, OthersIntrudedOn DEF Intrudes

\* What is said or streamed says nothing of how a line was taken.
LEMMA SaysAlone ==
  ASSUME RogoInv, AloneInv, NEW c \in Clients, DoesSay(c) \/ DoesStream(c) \/ DoesPace(c)
  PROVE  AloneInv'
<1>1. /\ ~Idle(c) /\ held = Nobody /\ held' = held /\ log' = log
      /\ Now(c).do \in {"say", "stream", "pace"} /\ Intrudes(c)
      /\ seen' = seen /\ \A d \in Clients : d # c => id'[d] = id[d]
  <2>1. ClientTypes
    BY Typed
  <2> QED BY <2>1 DEF DoesSay, DoesStream, DoesPace, Serves, robotVars, clientVars, ClientTypes
<1>2. AloneOK(c) /\ Silent(todo[c])
  <2>1. AloneOK(c)
    BY DEF AloneInv
  <2> QED BY <1>1, <2>1, OthersAreSilent
<1>3. CASE DoesSay(c) \/ DoesStream(c)
  <2>1. Proceed(c, "go")
    BY <1>3 DEF DoesSay, DoesStream
  <2>2. OutcomeOf(Now(c), "go")
    <3>1. StepOK(Now(c), Len(todo[c]) - 1)
      BY <1>3, Serving DEF DoesSay, DoesStream
    <3> QED BY <1>1, <3>1 DEF StepOK, OutcomeOf
  <2>3. \A d \in Clients : d # c => StaysPut(d)
    BY <1>1, <2>1, <2>2, Proceeds
  <2>4. AloneOK(c)'
    BY <1>1, <1>2, <2>1, <2>2, SilentProceeds
  <2> QED BY <1>1, <2>3, <2>4, OthersIntrudedOn DEF Intrudes
<1>4. CASE DoesPace(c)
  <2> DEFINE t == CmdDriveStream
  <2>1. /\ todo' = [todo EXCEPT ![c] = t] /\ UNCHANGED <<command, report>>
    BY <1>4 DEF DoesPace
  <2>2. Silent(t)
    BY SilentScripts
  <2> HIDE DEF t
  <2>3. DOMAIN todo = Clients /\ report[c] = "none"
    <3>1. ClientTypes
      BY Typed
    <3> QED BY <1>1, <3>1 DEF RogoInv, ClientTypes, ClientOK, ClientShape
  <2>4. Silent(todo'[c]) /\ report'[c] \notin Assessments
    BY <2>1, <2>2, <2>3 DEF Assessments
  <2>5. AloneOK(c)'
    BY <1>1, <2>4, SilentIsRight
  <2>6. \A d \in Clients : d # c => StaysPut(d)
    BY <2>1, <2>3 DEF StaysPut
  <2> QED BY <1>1, <2>5, <2>6, OthersIntrudedOn DEF Intrudes
<1> QED BY <1>3, <1>4

\* What a client does by itself: it is interrupted, it loads, asks and saves.
LEMMA LocalAlone ==
  ASSUME RogoInv, AloneInv, NEW c \in Clients,
         Interrupted(c) \/ Loads(c) \/ Asks(c) \/ Saves(c) \/ Writes(c)
  PROVE  AloneInv'
<1>1. /\ ~Idle(c) /\ log' = log /\ linkUp' = linkUp /\ UNCHANGED talk /\ held' = held
      /\ alone' = alone /\ id' = id /\ seen' = seen
      /\ Now(c).do \in {"stream", "pace", "load", "ask", "save"}
  BY DEF Interrupted, Loads, Asks, Saves, Writes, LocalUnchanged, robotVars, wireVars, sessionVars,
         clientVars, ghostVars, talk, Idle
<1>2. AloneOK(c) /\ (alone'[c] => held' \in {Nobody, c})
  BY <1>1 DEF AloneInv, AloneOK
<1>3. DOMAIN todo = Clients /\ report[c] = "none"
  <2>1. ClientTypes
    BY Typed
  <2> QED BY <1>1, <2>1 DEF RogoInv, ClientTypes, ClientOK, ClientShape
<1>4. /\ Now(c).do \in {"load", "ask"} => Now(c).yes = "go"
  <2>1. StepOK(Now(c), Len(todo[c]) - 1)
    BY <1>1, <1>3, Ready
  <2> QED BY <2>1 DEF StepOK
<1>5. ASSUME NEW o, OutcomeOf(Now(c), o), Proceed(c, o), AloneOK(c)' PROVE AloneInv'
  <2>1. \A d \in Clients : d # c => StaysPut(d)
    BY <1>1, <1>5, Proceeds
  <2> QED BY <1>1, <1>5, <2>1, OthersNotDisturbed
<1>6. ASSUME NEW o, OutcomeOf(Now(c), o), Proceed(c, o), Silent(todo[c]) PROVE AloneInv'
  <2>1. AloneOK(c)'
    BY <1>1, <1>2, <1>6, SilentProceeds
  <2> QED BY <1>5, <1>6, <2>1
<1>7. ASSUME NEW t, Silent(t), todo' = [todo EXCEPT ![c] = t], UNCHANGED <<command, report>>
      PROVE  AloneInv'
  <2>1. Silent(todo'[c]) /\ report'[c] \notin Assessments
    BY <1>3, <1>7 DEF Assessments
  <2>2. AloneOK(c)'
    BY <1>2, <2>1, SilentIsRight
  <2>3. \A d \in Clients : d # c => StaysPut(d)
    BY <1>3, <1>7 DEF StaysPut
  <2> QED BY <1>1, <2>2, <2>3, OthersNotDisturbed
<1>8. CASE Interrupted(c)
  <2> DEFINE t == RunStop
  <2>1. Silent(t) /\ todo' = [todo EXCEPT ![c] = t] /\ UNCHANGED <<command, report>>
    BY <1>8, SilentScripts DEF Interrupted
  <2> HIDE DEF t
  <2> QED BY <1>7, <2>1
<1>9. CASE Loads(c)
  <2>1. /\ Now(c).do = "load" /\ OutcomeOf(Now(c), "go") /\ OutcomeOf(Now(c), Now(c).no)
        /\ Proceed(c, "go") \/ Proceed(c, Now(c).no)
    BY <1>4, <1>9 DEF Loads, OutcomeOf
  <2>2. CASE Silent(todo[c])
    BY <1>6, <2>1, <2>2
  <2>3. CASE /\ Prepares(todo[c], Gets(c))
             /\ alone[c] /\ linkUp => Quiet /\ seen[c] = {}
    <3>1. CASE Proceed(c, "go")
      <4>1. Advances(c, "go")
        BY <1>1, <2>1, <3>1, Proceeds
      <4>2. todo'[c] = Tail(todo[c]) /\ command'[c] = command[c]
        BY <4>1 DEF Advances
      <4>3. Sends(todo[c], Gets(c))'
        BY <2>3, <4>2 DEF Prepares, Gets
      <4>4. (alone[c] /\ linkUp => Quiet /\ seen[c] = {})'
        BY <1>1, <2>3 DEF Quiet, talk
      <4>5. Exchange(c)'
        BY <4>3, <4>4 DEF Exchange
      <4>6. ~Idle(c)'
        BY <1>1, <4>2 DEF Idle
      <4>7. AloneOK(c)'
        BY <1>2, <4>5, <4>6 DEF AloneOK
      <4> QED BY <1>5, <2>1, <3>1, <4>7
    <3>2. CASE Proceed(c, Now(c).no)
      <4>1. PICK o : o = "noConfig"
        OBVIOUS
      <4>2. Proceed(c, o) /\ OutcomeOf(Now(c), o)
        BY <2>1, <2>3, <3>2, <4>1, StageStarts DEF Now
      <4>3. Advances(c, o)
        BY <1>1, <4>2, Proceeds
      <4>4. Truthful(c)'
        BY <4>1, <4>3 DEF Advances, Truthful, Assessments
      <4>5. AloneOK(c)'
        BY <4>1, <4>3, <4>4, EndsRight
      <4> QED BY <1>5, <4>2, <4>5
    <3> QED BY <2>1, <3>1, <3>2
  <2> QED BY <1>2, <2>1, <2>2, <2>3, StageOfStep DEF AloneOK
<1>10. CASE Asks(c)
  <2>1. /\ Now(c).do = "ask" /\ Silent(todo[c]) /\ OutcomeOf(Now(c), "go")
    <3>1. Now(c).do = "ask"
      BY <1>10 DEF Asks
    <3> QED BY <1>2, <1>4, <3>1, OthersAreSilent DEF OutcomeOf
  <2>2. Proceed(c, "go") \/ ToTheEnd(c)
    BY <1>10 DEF Asks
  <2>3. CASE ToTheEnd(c)
    <3> DEFINE t == <<Last(todo[c])>>
    <3>1. todo' = [todo EXCEPT ![c] = t] /\ UNCHANGED <<command, report>>
      BY <2>3 DEF ToTheEnd
    <3>2. Silent(t)
      <4>1. Len(t) = 1 /\ t[1] = todo[c][Len(todo[c])]
        BY DEF Last
      <4>2. Len(todo[c]) \in 1..Len(todo[c])
        <5>1. WireInv /\ ClientTypes /\ ClientOK(c)
          BY <1>1, <1>3, Ready
        <5> QED BY <1>1, <5>1, FirstStep
      <4> HIDE DEF t
      <4>3. \A k \in 1..Len(t) : k = 1
        BY <4>1
      <4> QED BY <2>1, <4>1, <4>2, <4>3 DEF Silent
    <3> HIDE DEF t
    <3> QED BY <1>7, <3>1, <3>2
  <2> QED BY <1>6, <2>1, <2>2, <2>3
<1>11. CASE Saves(c) \/ Writes(c)
  <2>1. \/ Stay
        \/ \E o : Proceed(c, o) /\ OutcomeOf(Now(c), o)
    BY <1>11 DEF Saves, Writes, OutcomeOf
  <2>2. Silent(todo[c])
    <3>1. Now(c).do = "save"
      BY <1>11 DEF Saves, Writes
    <3> QED BY <1>2, <3>1, OthersAreSilent
  <2>3. CASE Stay
    <3>1. \A d \in Clients : StaysPut(d)
      BY <2>3 DEF Stay, scriptVars, StaysPut
    <3> QED BY <1>1, <3>1, AllUndisturbed
  <2> QED BY <1>6, <2>1, <2>2, <2>3
<1> QED BY <1>8, <1>9, <1>10, <1>11

\* A save that opens the file is not noticed.
LEMMA TruncatesAlone ==
  ASSUME RogoInv, AloneInv, NEW c \in Clients, Truncates(c)
  PROVE  AloneInv'
<1>1. /\ alone' = alone /\ held' = held /\ id' = id /\ seen' = seen /\ log' = log
      /\ linkUp' = linkUp /\ UNCHANGED talk /\ UNCHANGED scriptVars
  BY DEF Truncates, LocalUnchanged, robotVars, wireVars, sessionVars, clientVars, ghostVars, talk
<1>2. \A d \in Clients : StaysPut(d)
  BY <1>1 DEF StaysPut, scriptVars
<1> QED BY <1>1, <1>2, AllUndisturbed

\* A command that fails says so.
LEMMA FailsAlone ==
  ASSUME RogoInv, AloneInv, NEW c \in Clients, FailsClosed(c) \/ GivesUp(c)
  PROVE  AloneInv'
<1>1. /\ ~Idle(c) /\ log' = log /\ linkUp' = linkUp /\ UNCHANGED talk /\ held' = held
      /\ alone' = alone /\ id' = id /\ seen' = seen
  BY DEF FailsClosed, GivesUp, robotVars, wireVars, sessionVars, clientVars, ghostVars, talk
<1>2. PICK o \in {"closed", "raised"} : Proceed(c, o)
  BY DEF FailsClosed, GivesUp
<1>3. OutcomeOf(Now(c), o)
  BY <1>2 DEF OutcomeOf
<1>4. Advances(c, o) /\ \A d \in Clients : d # c => StaysPut(d)
  BY <1>1, <1>2, <1>3, Proceeds
<1>5. Truthful(c)'
  BY <1>2, <1>4 DEF Advances, Truthful, Assessments
<1>6. AloneOK(c)'
  BY <1>2, <1>4, <1>5, EndsRight
<1> QED BY <1>1, <1>4, <1>6, OthersNotDisturbed

\* The worker begins to wait for a client, and the others are no longer alone.
LEMMA WaitsAlone ==
  ASSUME RogoInv, AloneInv, NEW c \in Clients, Waits(c)
  PROVE  AloneInv'
<1>1. /\ ~Idle(c) /\ linkUp /\ Now(c).do = "wait" /\ held' = c /\ log' = log /\ id' = id
      /\ seen' = seen /\ UNCHANGED scriptVars /\ linkUp' = linkUp /\ UNCHANGED talk
      /\ alone' = [d \in Clients |-> alone[d] /\ (d = c \/ Idle(d))]
  BY DEF Waits, Serves, robotVars, wireVars, sessionVars, clientVars, talk
<1>2. \A d \in Clients : StaysPut(d)
  BY <1>1 DEF StaysPut, scriptVars
<1>3. LeavesAlone(c)
  <2>1. alone'[c] => alone[c]
    BY <1>1
  <2> QED BY <1>1, <1>2, <2>1 DEF LeavesAlone
<1>4. AloneOK(c)'
  BY <1>3, LeftAlone DEF AloneInv
<1> QED BY <1>1, <1>2, <1>4, OthersIntrudedOn

\* The wait ends, and what the client says of a line that was not rejected is true.
LEMMA WaitEndsAlone ==
  ASSUME RogoInv, AloneInv, HeldReturns \/ HeldTimesOut \/ HeldCloses
  PROVE  AloneInv'
<1>1. PICK outcome \in {Now(held).yes, Now(held).no, "closed"} : WaitEnds(outcome)
  BY DEF HeldReturns, HeldTimesOut, HeldCloses
<1>2. PICK c \in Clients : c = held /\ held # Nobody
  BY DEF HeldReturns, HeldTimesOut, HeldCloses, Holds, RogoInv, ClientTypes, Senders
<1>3. /\ held' = Nobody /\ log' = log /\ linkUp' = linkUp /\ UNCHANGED talk /\ alone' = alone
      /\ id' = id /\ seen' = seen
  BY <1>1 DEF WaitEnds, robotVars, wireVars, sessionVars, ghostVars, talk
<1>4. CASE abandoned[held] # << >>
  <2>1. \A d \in Clients : StaysPut(d)
    BY <1>1, <1>4 DEF WaitEnds, Stay, scriptVars, StaysPut
  <2>2. AloneOK(c)'
    BY <1>3, <2>1, NotDisturbed DEF AloneInv
  <2> QED BY <1>3, <2>1, <2>2, OthersNotDisturbed
<1>5. CASE abandoned[held] = << >>
  <2>1. ~Idle(c) /\ Now(c).do = "wait"
    BY <1>2, <1>5 DEF RogoInv, HeldWaits
  <2>2. PICK o : o = outcome
    OBVIOUS
  <2>3. Proceed(c, o) /\ OutcomeOf(Now(c), o) /\ o \in {Now(c).yes, Now(c).no, "closed"}
    BY <1>1, <1>2, <1>5, <2>1, <2>2 DEF WaitEnds, OutcomeOf
  <2>4. Advances(c, o) /\ \A d \in Clients : d # c => StaysPut(d)
    BY <2>1, <2>3, Proceeds
  <2>5. AloneOK(c)'
    <3>1. Exchange(c)
      BY DEF AloneInv, AloneOK
    <3>2. CASE Silent(todo[c])
      BY <1>3, <2>1, <2>3, <3>2, SilentProceeds
    <3>3. CASE /\ Completing(todo[c])
               /\ alone[c] => id[c] \in 1..Len(log) /\ log[id[c]].verdict # "rejected"
      <4>1. o \in {"done", "late", "closed"}
        <5>1. Now(c) = Step("wait", "done", "done", "late")
          BY <3>3, StageStarts DEF Now
        <5>2. Now(c).yes = "done" /\ Now(c).no = "late"
          BY <5>1 DEF Step
        <5> QED BY <2>3, <5>2
      <4>2. alone'[c] => Truthful(c)'
        BY <1>3, <2>4, <3>3, <4>1 DEF Advances, Truthful, Assessments
      <4> QED BY <2>4, <4>1, <4>2, EndsRight
    <3> QED BY <2>1, <3>1, <3>2, <3>3, StageOfStep
  <2> QED BY <1>3, <2>4, <2>5, OthersNotDisturbed
<1> QED BY <1>4, <1>5

\* An ESTOP ends a wait of which nobody can say any more that it was alone.
LEMMA BargesAlone ==
  ASSUME RogoInv, AloneInv, NEW c \in Clients, BargesIn(c)
  PROVE  AloneInv'
<1>1. /\ ~Idle(c) /\ Now(c).do = "say"
      /\ held # Nobody /\ held' = Nobody /\ log' = log /\ id' = id /\ seen' = seen
      /\ alone' = [d \in Clients |-> alone[d] /\ (d = c \/ Idle(d))]
  BY DEF BargesIn, robotVars
<1>2. PICK h \in Clients : h = held
  BY <1>1 DEF RogoInv, ClientTypes, Senders
<1>3. abandoned[held] = << >> => h # c
  BY <1>1, <1>2, NotHeld
<1>4. AloneOK(c) /\ Silent(todo[c])
  <2>1. AloneOK(c)
    BY DEF AloneInv
  <2> QED BY <1>1, <2>1, OthersAreSilent
<1>5. OutcomeOf(Now(c), "go")
  <2>1. StepOK(Now(c), Len(todo[c]) - 1)
    BY <1>1, Ready
  <2> QED BY <1>1, <2>1 DEF StepOK, OutcomeOf
<1>6. CASE abandoned[held] # << >>
  <2>1. Proceed(c, "go")
    BY <1>6 DEF BargesIn
  <2>2. \A d \in Clients : d # c => StaysPut(d)
    BY <1>1, <1>5, <2>1, Proceeds
  <2>3. AloneOK(c)'
    BY <1>1, <1>4, <1>5, <2>1, SilentProceeds
  <2> QED BY <1>1, <2>2, <2>3, OthersIntrudedOn
<1>7. CASE abandoned[held] = << >>
  <2> DEFINE o == Now(h).no  result == [d \in {c, h} |-> IF d = c THEN "go" ELSE o]
  <2>1. h # c /\ ~Idle(h) /\ Now(h).do = "wait" /\ OutcomeOf(Now(h), o)
    BY <1>1, <1>2, <1>3, <1>7 DEF RogoInv, HeldWaits, OutcomeOf
  <2>2. Moves(result)
    BY <1>2, <1>7 DEF BargesIn
  <2>3. DOMAIN result = {c, h} /\ result[c] = "go" /\ result[h] = o
    BY <2>1
  <2>4. ClientTypes
    BY DEF RogoInv
  <2> HIDE DEF result
  <2>5. /\ Advances(c, "go") /\ Advances(h, o)
        /\ \A d \in Clients : d \notin {c, h} => StaysPut(d)
    BY <2>2, <2>3, <2>4, MovesMoves
  <2>6. AloneOK(c)'
    <3>1. Silent(todo'[c]) /\ report'[c] \notin Assessments
      BY <1>1, <1>4, <1>5, <2>5, StaysSilent
    <3> QED BY <1>1, <3>1, SilentIsRight
  <2>7. ~alone'[h]
    BY <1>1, <2>1
  <2>8. AloneOK(h)'
    <3>1. Exchange(h)
      BY DEF AloneInv, AloneOK
    <3>2. CASE Silent(todo[h])
      <4>1. Silent(todo'[h]) /\ report'[h] \notin Assessments
        BY <2>1, <2>5, <3>2, StaysSilent
      <4> QED BY <2>7, <4>1, SilentIsRight
    <3>3. CASE Completing(todo[h])
      <4>1. o = "late"
        BY <3>3, StageStarts DEF Now, Step
      <4> QED BY <2>5, <2>7, <4>1, EndsRight
    <3> QED BY <2>1, <3>1, <3>2, <3>3, StageOfStep
  <2>9. ASSUME NEW d \in Clients, d \notin {c, h} PROVE AloneOK(d)'
    <3>1. alone'[d] => alone[d] /\ Idle(d)
      BY <1>1, <2>9
    <3> QED BY <1>1, <2>5, <2>9, <3>1, NoLongerAlone DEF AloneInv
  <2>10. \A d \in Clients : AloneOK(d)'
    BY <2>6, <2>8, <2>9
  <2>11. alone' \in [Clients -> BOOLEAN]
    BY <1>1, Zenon
  <2> QED BY <2>10, <2>11 DEF AloneInv
<1> QED BY <1>6, <1>7

\* So does a call that its client gave up on, for whoever runs a command.
LEMMA LeftServedAlone ==
  ASSUME RogoInv, AloneInv, NEW c \in Clients, LeftServed(c)
  PROVE  AloneInv'
<1>1. /\ alone' = [d \in Clients |-> alone[d] /\ Idle(d)] /\ log' = log /\ id' = id /\ seen' = seen
      /\ UNCHANGED scriptVars
  BY DEF LeftServed, robotVars
<1>2. alone' \in [Clients -> BOOLEAN]
  BY <1>1, Zenon
<1>3. ASSUME NEW d \in Clients PROVE AloneOK(d)'
  <2>1. StaysPut(d) /\ (alone'[d] => alone[d] /\ Idle(d))
    BY <1>1 DEF StaysPut, scriptVars
  <2> QED BY <1>1, <2>1, NoLongerAlone DEF AloneInv
<1> QED BY <1>2, <1>3 DEF AloneInv

\* A command begins alone, and then only ever ceases to be.
LEMMA AloneEnds ==
  ASSUME NEW c \in Clients,
         \/ RobotTakes \/ RobotFinishes \/ LinkCloses \/ WorkerWaits
         \/ \E d \in Clients :
              \/ CallsSession(d) \/ DoesStream(d) \/ Interrupted(d) \/ GivesUp(d) \/ LeftServed(d)
              \/ Loads(d) \/ Asks(d) \/ Saves(d) \/ Truncates(d) \/ Writes(d)
  PROVE  alone'[c] => alone[c]
<1>1. CASE RobotTakes \/ RobotFinishes \/ LinkCloses \/ WorkerWaits
  BY <1>1 DEF RobotTakes, RobotFinishes, LinkCloses, WorkerWaits, HeldReturns, HeldPumps, HeldPolls,
     HeldTimesOut, HeldCloses, WaitEnds, ghostVars
<1>2. ASSUME NEW d \in Clients,
             \/ Interrupted(d) \/ GivesUp(d) \/ FailsClosed(d)
             \/ Loads(d) \/ Asks(d) \/ Saves(d) \/ Truncates(d) \/ Writes(d)
      PROVE  alone' = alone
  BY <1>2 DEF Interrupted, GivesUp, FailsClosed, Loads, Asks, Saves, Truncates, Writes, LocalUnchanged,
     ghostVars
<1>3. ASSUME NEW d \in Clients,
             \/ DoesSend(d) \/ DoesSay(d) \/ BargesIn(d) \/ DoesPumpUntil(d) \/ DoesPump(d)
             \/ DoesDrain(d) \/ DoesPace(d) \/ DoesStream(d) \/ Waits(d)
      PROVE  alone' = [e \in Clients |-> alone[e] /\ (e = d \/ Idle(e))]
  BY <1>3 DEF DoesSend, DoesSay, BargesIn, DoesPumpUntil, DoesPump, DoesDrain, DoesPace, DoesStream,
     Waits, Intrudes
<1>4. ASSUME NEW d \in Clients, LeftServed(d) PROVE alone' = [e \in Clients |-> alone[e] /\ Idle(e)]
  BY <1>4 DEF LeftServed
<1> QED BY <1>1, <1>2, <1>3, <1>4 DEF CallsSession

\* So nothing ever comes before its calls.
LEMMA NothingBeforeKept ==
  ASSUME RogoInv, AloneInv, NothingBefore, [RogoNext]_rogoVars
  PROVE  NothingBefore'
<1>1. ASSUME NEW c \in Clients, Leaves(c), alone'[c] => alone[c]
      PROVE  alone'[c] /\ ~Idle(c)' => abandoned'[c] = << >>
  BY <1>1 DEF Leaves, NothingBefore
<1>2. CASE RobotTakes \/ RobotFinishes \/ LinkCloses \/ WorkerWaits
  BY <1>1, <1>2, OutsideLeaves, AloneEnds DEF NothingBefore
<1>3. ASSUME NEW d \in Clients,
             \/ CallsSession(d) \/ DoesStream(d) \/ Interrupted(d) \/ GivesUp(d) \/ LeftServed(d)
             \/ Loads(d) \/ Asks(d) \/ Saves(d) \/ Truncates(d) \/ Writes(d)
      PROVE  NothingBefore'
  BY <1>1, <1>3, ClientLeaves, AloneEnds DEF NothingBefore
<1>4. ASSUME NEW d \in Clients, NEW name \in Offered(d), Begin(d, name) PROVE NothingBefore'
  <2>1. /\ alone' = [alone EXCEPT ![d] = /\ Quiet /\ held = Nobody
                                        /\ \A e \in Clients : abandoned[e] = << >>]
        /\ command' = [command EXCEPT ![d] = name] /\ abandoned' = abandoned
    BY <1>4 DEF Begin
  <2>2. alone \in [Clients -> BOOLEAN] /\ DOMAIN command = Clients
    BY DEF AloneInv, RogoInv, ClientTypes
  <2>3. ASSUME NEW c \in Clients, alone'[c], ~Idle(c)' PROVE abandoned'[c] = << >>
    <3>1. CASE c = d
      BY <2>1, <2>2, <2>3, <3>1
    <3>2. CASE c # d
      BY <2>1, <2>2, <2>3, <3>2 DEF NothingBefore, Idle
    <3> QED BY <3>1, <3>2
  <2> QED BY <2>3 DEF NothingBefore
<1>5. CASE UNCHANGED rogoVars
  BY <1>5 DEF rogoVars, scriptVars, clientVars, ghostVars, NothingBefore, Idle
<1> QED BY <1>2, <1>3, <1>4, <1>5 DEF RogoNext

\* What the robot, the link and the worker do.
LEMMA OutsideAlone ==
  ASSUME RogoInv, AloneInv, NothingBefore,
         RobotTakes \/ RobotFinishes \/ LinkCloses \/ HeldPumps \/ HeldPolls
  PROVE  AloneInv'
<1>1. /\ alone' = alone /\ held' = held /\ id' = id /\ seen' = seen /\ UNCHANGED scriptVars
  BY DEF RobotTakes, RobotFinishes, LinkCloses, HeldPumps, HeldPolls, clientVars, ghostVars
<1>2. ASSUME NEW d \in Clients PROVE AloneOK(d)'
  <2>1. StaysPut(d) /\ AloneOK(d) /\ (alone[d] /\ ~Idle(d) => held \in {Nobody, d})
    BY <1>1 DEF StaysPut, scriptVars, AloneInv, AloneOK
  <2>2. CASE RobotTakes
    BY <2>1, <2>2, TakesAlone
  <2>3. CASE RobotFinishes
    <3>1. log' = log /\ linkUp' = linkUp /\ UNCHANGED talk
      BY <2>3 DEF RobotFinishes, wireVars, sessionVars, talk
    <3> QED BY <1>1, <2>1, <3>1, NotDisturbed
  <2>4. CASE LinkCloses
    <3>1. log' = log /\ ~linkUp'
      BY <2>4 DEF LinkCloses, robotVars
    <3>2. LeavesAlone(d)
      BY <1>1, <2>1, <3>1 DEF LeavesAlone
    <3> QED BY <2>1, <3>2, LeftAlone
  <2>5. CASE HeldPumps \/ HeldPolls
    <3>1. log' = log /\ held # Nobody
      BY <2>5 DEF HeldPumps, HeldPolls, Holds, robotVars
    <3>2. alone[d] /\ ~Idle(d) => Now(d).do = "wait"
      <4> SUFFICES ASSUME alone[d], ~Idle(d) PROVE Now(d).do = "wait"
        OBVIOUS
      <4>1. held = d
        BY <2>1, <3>1
      <4>2. abandoned[d] = << >>
        BY DEF NothingBefore
      <4> QED BY <3>1, <4>1, <4>2 DEF RogoInv, HeldWaits
    <3>3. LeavesAlone(d)
      BY <1>1, <2>1, <3>1, <3>2 DEF LeavesAlone
    <3> QED BY <2>1, <3>3, LeftAlone
  <2> QED BY <2>2, <2>3, <2>4, <2>5
<1> QED BY <1>1, <1>2 DEF AloneInv

\* So every step keeps it.
LEMMA AloneInvKept ==
  ASSUME RogoInv, AloneInv, NothingBefore, [RogoNext]_rogoVars
  PROVE  AloneInv'
<1>1. RogoInv'
  BY RogoInvKept
<1>2. CASE RogoNext
  <2>1. CASE RobotTakes \/ RobotFinishes \/ LinkCloses
    BY <2>1, OutsideAlone
  <2>2. CASE WorkerWaits
    BY <2>2, OutsideAlone, WaitEndsAlone DEF WorkerWaits
  <2>3. ASSUME NEW c \in Clients, NEW name \in Offered(c), Begin(c, name) PROVE AloneInv'
    BY <2>3, BeginAlone
  <2>4. ASSUME NEW c \in Clients, CallsSession(c) PROVE AloneInv'
    BY <1>1, <2>4, SendAlone, SaysAlone, BargesAlone, PumpsAlone, WaitsAlone, FailsAlone
       DEF CallsSession
  <2>5. ASSUME NEW c \in Clients, DoesStream(c) \/ Interrupted(c) \/ GivesUp(c) \/ LeftServed(c)
        PROVE  AloneInv'
    BY <2>5, SaysAlone, LocalAlone, FailsAlone, LeftServedAlone
  <2>6. ASSUME NEW c \in Clients,
               Loads(c) \/ Asks(c) \/ Saves(c) \/ Truncates(c) \/ Writes(c)
        PROVE  AloneInv'
    BY <2>6, LocalAlone, TruncatesAlone
  <2> QED BY <1>2, <2>1, <2>2, <2>3, <2>4, <2>5, <2>6 DEF RogoNext
<1>3. CASE UNCHANGED rogoVars
  <2>1. /\ alone' = alone /\ held' = held /\ id' = id /\ seen' = seen /\ UNCHANGED scriptVars
        /\ log' = log /\ linkUp' = linkUp /\ UNCHANGED talk
    BY <1>3 DEF rogoVars, robotVars, wireVars, sessionVars, clientVars, ghostVars, talk
  <2>2. \A d \in Clients : StaysPut(d)
    BY <2>1 DEF StaysPut, scriptVars
  <2> QED BY <2>1, <2>2, AllUndisturbed
<1> QED BY <1>2, <1>3

\* A command that had the Session to itself reports all there is: a rejection is
\* never missed, done is said only of a motion that was taken, and the fields are
\* those the adapter has (cli.py:167-184, 204-238, docs of both grace pumps).
THEOREM AloneTruthful == RogoSpec => []AloneIsTruthful
<1>1. RogoInit => AloneInv /\ NothingBefore
  <2> SUFFICES ASSUME RogoInit PROVE AloneInv /\ NothingBefore
    OBVIOUS
  <2>1. /\ todo = [c \in Clients |-> << >>] /\ command = [c \in Clients |-> "none"]
        /\ report = [c \in Clients |-> "none"] /\ alone = [c \in Clients |-> TRUE]
    BY DEF RogoInit
  <2>2. ASSUME NEW c \in Clients PROVE AloneOK(c)
    <3>1. todo[c] = << >> /\ Idle(c) /\ report[c] = "none"
      BY <2>1 DEF Idle
    <3>2. Exchange(c) /\ Truthful(c)
      BY <3>1, SilentScripts DEF Exchange, Truthful, Assessments
    <3> QED BY <3>1, <3>2 DEF AloneOK
  <2>3. alone \in [Clients -> BOOLEAN]
    BY <2>1, Zenon
  <2>4. \A c \in Clients : Idle(c)
    BY <2>1 DEF Idle
  <2> QED BY <2>2, <2>3, <2>4 DEF AloneInv, NothingBefore
<1>2. RogoInv /\ AloneInv /\ NothingBefore /\ [RogoNext]_rogoVars => AloneInv' /\ NothingBefore'
  BY AloneInvKept, NothingBeforeKept
<1>3. RogoInv /\ AloneInv => AloneIsTruthful
  <2> SUFFICES ASSUME RogoInv, AloneInv, NEW c \in Clients, alone[c]
               PROVE  /\ report[c] \in {"set", "done", "late"} => log[id[c]].verdict # "rejected"
                      /\ report[c] = "fields" => log[id[c]].verdict = "ok"
                      /\ report[c] = "noFields" => log[id[c]].verdict = "nothing"
    BY DEF AloneIsTruthful
  <2>1. CASE Idle(c)
    BY <2>1 DEF AloneInv, AloneOK, Truthful
  <2>2. CASE ~Idle(c)
    BY <2>2 DEF RogoInv, ClientOK, ClientShape
  <2> QED BY <2>1, <2>2
<1> QED BY <1>1, <1>2, <1>3, RogoInvariant, PTL DEF RogoSpec

(***************************************************************************)
(* The numbers of the motion verbs                                         *)
(***************************************************************************)

\* Rounding is off by half at most.
LEMMA RoundIsClose ==
  ASSUME NEW n \in Nat, NEW d \in Nat \ {0}
  PROVE  Round(n, d) \in Nat /\ 2 * (Round(n, d) * d) >= 2 * n - d
<1> DEFINE q == n \div d
           r == n % d
<1>1. q \in Nat /\ r \in 0..(d - 1) /\ n = d * q + r
  BY Z3
<1>2. d * q = q * d /\ (q + 1) * d = q * d + d
  BY <1>1
<1>3. q * d \in Nat
  BY <1>1
<1>4. Round(n, d) = IF 2 * r < d \/ (2 * r = d /\ q % 2 = 0) THEN q ELSE q + 1
  BY DEF Round
<1> HIDE DEF q, r
<1>5. CASE Round(n, d) = q /\ 2 * r <= d
  BY <1>1, <1>2, <1>3, <1>5
<1>6. CASE Round(n, d) = q + 1
  BY <1>1, <1>2, <1>3, <1>6
<1> QED
  BY <1>1, <1>4, <1>5, <1>6

\* The backstop comes after twice the time the motion takes.
LEMMA BackstopIsLate ==
  ASSUME NEW mm \in Nat, NEW speed \in Nat \ {0}
  PROVE  /\ Backstop(mm, speed) \in Nat /\ Backstop(mm, speed) >= 1000
         /\ Backstop(mm, speed) * speed >= 2000 * mm
<1> DEFINE r == Round(3 * 1000 * mm, speed)
           b == Backstop(mm, speed)
<1>1. 3 * 1000 * mm \in Nat /\ 3 * 1000 * mm = 3000 * mm
  OBVIOUS
<1>2. r \in Nat /\ 2 * (r * speed) >= 2 * (3000 * mm) - speed
  BY <1>1, RoundIsClose
<1>3. b \in Nat /\ b >= 1000 /\ b >= r
  BY <1>2 DEF Backstop, Largest
<1> HIDE DEF r, b
<1>4. \A a, c, s \in Nat : a >= c => a * s \in Nat /\ c * s \in Nat /\ a * s >= c * s
  OBVIOUS
<1>5. b * speed >= 1000 * speed /\ b * speed >= r * speed /\ r * speed \in Nat /\ b * speed \in Nat
  BY <1>2, <1>3, <1>4
<1>6. b * speed >= 2000 * mm
  BY <1>2, <1>5
<1> QED
  BY <1>3, <1>6 DEF b

\* Whatever speeds and distance `drive --mm` is given: one wheel cruises as the
\* user said, each goes its own way, and the backstop is no hindrance
\* (cli.py:388-430).
THEOREM WheelsXIsSound ==
  \A left, right, mm \in Int : SoundWheelsX(left, right, mm)
<1> SUFFICES ASSUME NEW left \in Int, NEW right \in Int, NEW mm \in Int
             PROVE  SoundWheelsX(left, right, mm)
  OBVIOUS
<1> DEFINE f == WheelsXFields(left, right, mm)
           cruise == Largest(Abs(left), Abs(right))
<1>1. /\ Abs(left) \in Nat /\ Abs(right) \in Nat /\ Abs(mm) \in Nat /\ cruise \in Nat
      /\ cruise \in {Abs(left), Abs(right)} /\ cruise >= Abs(left) /\ cruise >= Abs(right)
      /\ cruise = 0 <=> left = 0 /\ right = 0
  BY DEF Abs, Largest
<1>2. CASE left = 0 /\ right = 0
  BY <1>1, <1>2 DEF SoundWheelsX, WheelsXFields
<1>3. CASE ~(left = 0 /\ right = 0)
  <2>1. cruise \in Nat \ {0}
    BY <1>1, <1>3
  <2>2. f = [left |-> IF left >= 0 THEN mm ELSE -mm, right |-> IF right >= 0 THEN mm ELSE -mm,
             cruise |-> cruise, timeout |-> Backstop(Abs(mm), cruise)]
    BY <2>1 DEF WheelsXFields
  <2>3. Abs(f.left) = Abs(mm) /\ Abs(f.right) = Abs(mm)
    BY <2>2 DEF Abs
  <2>4. f.timeout >= 1000 /\ f.timeout * f.cruise >= 2000 * Abs(f.left)
    <3>1. f.timeout = Backstop(Abs(mm), cruise) /\ f.cruise = cruise
      BY <2>2
    <3> HIDE DEF f, cruise
    <3>2. /\ Backstop(Abs(mm), cruise) >= 1000
          /\ Backstop(Abs(mm), cruise) * cruise >= 2000 * Abs(mm)
      BY <1>1, <2>1, BackstopIsLate
    <3> QED
      BY <2>3, <3>1, <3>2
  <2>5. mm > 0 /\ left # 0 => (f.left > 0 <=> left > 0)
    BY <2>2
  <2>6. f.cruise = cruise /\ cruise > 0
    BY <2>1, <2>2
  <2> HIDE DEF f, cruise
  <2>7. /\ f.cruise > 0 /\ f.cruise \in {Abs(left), Abs(right)}
        /\ f.cruise >= Abs(left) /\ f.cruise >= Abs(right)
    BY <1>1, <2>6
  <2> QED
    BY <1>3, <2>3, <2>4, <2>5, <2>7 DEF SoundWheelsX, f
<1> QED
  BY <1>2, <1>3

\* Whatever distance, speed and timeout a goto is given: it is refused, or has a
\* timeout that leaves twice the time the way takes unless the user chose one
\* (cli.py:679-709).
THEOREM GotoIsSound ==
  \A distance \in Nat, speed \in Int, timeout \in Int \cup {None} :
    SoundGoto(distance, speed, timeout)
<1> SUFFICES ASSUME NEW distance \in Nat, NEW speed \in Int, NEW timeout \in Int \cup {None}
             PROVE  SoundGoto(distance, speed, timeout)
  OBVIOUS
<1>1. CASE speed <= 0
  BY <1>1 DEF SoundGoto, PrepareGoto
<1>2. CASE speed > 0 /\ timeout = None
  <2>1. /\ Backstop(distance, speed) \in Nat /\ Backstop(distance, speed) >= 1000
        /\ Backstop(distance, speed) * speed >= 2000 * distance
    BY <1>2, BackstopIsLate
  <2>2. PrepareGoto(distance, speed, timeout) = Backstop(distance, speed)
    BY <1>2, <2>1, ModelsAssumption DEF PrepareGoto
  <2>3. speed \notin {0} /\ ~(speed <= 0)
    BY <1>2
  <2> HIDE DEF Backstop
  <2> QED
    BY <1>2, <2>1, <2>2, <2>3 DEF SoundGoto
<1>3. CASE speed > 0 /\ timeout # None
  BY <1>3, ModelsAssumption DEF SoundGoto, PrepareGoto
<1> QED
  BY <1>1, <1>2, <1>3

\* Whatever the resend interval of a stream: it is refused, or its lease outlives
\* it as far as the ceiling lets it (cli.py:484-515, 533-554).
THEOREM StreamIsSound ==
  \A resend \in Int : SoundStream(resend)
  BY DEF SoundStream, StreamLease, Least, Largest

\* So the numbers of every motion that rogo prepares are sound, for the inputs
\* that are checked and all others.
THEOREM PreparedMotionCorrect == RogoSpec => []PreparedMotionIsSound
<1>1. \A mm \in Int : Abs(mm) \in Nat
  BY DEF Abs
<1>2. WheelsXSound
  BY WheelsXIsSound DEF WheelsXSound, Speeds, Lengths
<1>3. GotoSound
  <2>1. Speeds \subseteq Int /\ Lengths \subseteq Int /\ {None, -1, 0, 50} \subseteq Int \cup {None}
    BY DEF Speeds, Lengths
  <2> QED
    BY <1>1, <2>1, GotoIsSound DEF GotoSound
<1>4. StreamSound
  BY StreamIsSound DEF StreamSound
<1>5. PreparedMotionIsSound
  BY <1>2, <1>3, <1>4 DEF PreparedMotionIsSound
<1> QED
  BY <1>5, PTL
=============================================================================
