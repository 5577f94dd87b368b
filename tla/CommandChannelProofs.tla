------------------------ MODULE CommandChannelProofs ------------------------
(***************************************************************************)
(* Proofs about CommandChannel for every set of commands, every capacity   *)
(* of the response queue and of the debounce cache, and any number of      *)
(* deliveries and failures.                                                *)
(***************************************************************************)
EXTENDS CommandChannel, TLAPS

-----------------------------------------------------------------------------
(* Answers. *)

\* What a fresh answer holds.
LEMMA AnswerFields ==
  ASSUME NEW k \in 0..MaxDeliveries, NEW o \in Outcomes, NEW f \in Fates
  PROVE  /\ Answer(k, o, f) \in AnswerType
         /\ Answer(k, o, f).claim = k /\ Answer(k, o, f).outcome = o
         /\ Answer(k, o, f).fate = f /\ Answer(k, o, f).seq = None
         /\ Answer(k, o, f).stamp = None /\ ~ Answer(k, o, f).clears
  BY DEF Answer, AnswerType

\* Claiming the sequence and freezing the bytes changes nothing else.
LEMMA StampedFields ==
  ASSUME NEW r \in AnswerType, nextSeq \in Nat, fails \in Nat
  PROVE  /\ Stamped(r) \in AnswerType
         /\ Stamped(r).claim = r.claim /\ Stamped(r).outcome = r.outcome
         /\ Stamped(r).fate = r.fate /\ Stamped(r).clears = r.clears
         /\ Stamped(r).seq = IF r.seq = None THEN nextSeq ELSE r.seq
         /\ Stamped(r).stamp = IF r.stamp = None THEN fails ELSE r.stamp
  BY DEF Stamped, AnswerType

\* The substitute answers the same claim.
LEMMA SubstituteFields ==
  ASSUME NEW r \in AnswerType
  PROVE  /\ Substitute(r) \in AnswerType
         /\ Substitute(r).claim = r.claim /\ Substitute(r).outcome = "substitute"
         /\ Substitute(r).fate = "ok" /\ Substitute(r).seq = None
         /\ Substitute(r).clears = FALSE
         /\ [Substitute(r) EXCEPT !.clears = TRUE] \in AnswerType
         /\ [Substitute(r) EXCEPT !.clears = TRUE].claim = r.claim
         /\ [Substitute(r) EXCEPT !.clears = TRUE].outcome = "substitute"
         /\ [Substitute(r) EXCEPT !.clears = TRUE].fate = "ok"
         /\ [Substitute(r) EXCEPT !.clears = TRUE].seq = None
         /\ [Substitute(r) EXCEPT !.clears = TRUE].clears = TRUE
  BY DEF Substitute, Answer, AnswerType, Outcomes, Fates

\* The sequence alone.
LEMMA SequencedFields ==
  ASSUME NEW r \in AnswerType, NEW q \in Nat \cup {None}
  PROVE  /\ [r EXCEPT !.seq = q] \in AnswerType
         /\ [r EXCEPT !.seq = q].claim = r.claim /\ [r EXCEPT !.seq = q].outcome = r.outcome
         /\ [r EXCEPT !.seq = q].fate = r.fate /\ [r EXCEPT !.seq = q].stamp = r.stamp
         /\ [r EXCEPT !.seq = q].clears = r.clears /\ [r EXCEPT !.seq = q].seq = q
  BY DEF AnswerType

\* An outbound entry is stamped with its sequence only.
LEMMA EntryFields ==
  ASSUME NEW r \in AnswerType, nextSeq \in Nat, fails \in Nat
  PROVE  [Stamped(r) EXCEPT !.stamp = r.stamp]
           = [r EXCEPT !.seq = IF r.seq = None THEN nextSeq ELSE r.seq]
  BY DEF Stamped, AnswerType

\* Core 1 drops sections of an answer until it fits.
LEMMA ShrunkFields ==
  ASSUME NEW r \in AnswerType, NEW f \in Fates
  PROVE  /\ [r EXCEPT !.fate = f] \in AnswerType
         /\ [r EXCEPT !.fate = f].claim = r.claim /\ [r EXCEPT !.fate = f].outcome = r.outcome
         /\ [r EXCEPT !.fate = f].seq = r.seq /\ [r EXCEPT !.fate = f].stamp = r.stamp
         /\ [r EXCEPT !.fate = f].clears = r.clears /\ [r EXCEPT !.fate = f].fate = f
  BY DEF AnswerType

-----------------------------------------------------------------------------
(* Types. *)

\* While a PUBACK is awaited the loop stands at the publish, and the container that is
\* being sent stays where it is, stamped and publishable.
WaitOK ==
    /\ wire = "response" => /\ pc = "service" /\ pending # <<>>
                            /\ pending[1].fate = "ok" /\ pending[1].seq # None
    /\ wire = "reboot" => /\ pc \in {"reboot1", "reboot2"} /\ pendingReboot # None
                          /\ pendingReboot.fate = "ok" /\ pendingReboot.seq # None
                          /\ ~ answerQueued /\ inFlight = None
    /\ wire = "entry" => /\ pc = "publish" /\ inFlight # None
                         /\ inFlight.fate = "ok" /\ inFlight.seq # None

CountsOK ==
    /\ deliveries \in 0..MaxDeliveries
    /\ Len(claims) <= deliveries
    /\ fails \in Nat

TypeInv == TypeOK /\ CountsOK /\ WaitOK

\* An answer just made for claim k.
Fresh(x, k) ==
    /\ x \in AnswerType
    /\ x.claim = k /\ x.outcome \in {"success", "error"}
    /\ x.seq = None /\ x.stamp = None /\ ~ x.clears

\* What an inbound command does: nothing, or its ID is claimed and its answer is created
\* in one of three places, or never if it is silent.
Claim(c) ==
    /\ c \in Commands
    /\ c.id \notin ToSet(recent)
    /\ Len(pending) < MaxPending
    /\ Len(claims) + 1 \in 1..MaxDeliveries
    /\ RememberCommandId(c.id)
    /\ claims' = Append(claims, c)
    /\ \/ /\ UNCHANGED <<pending, pendingReboot, answerQueued, events>>
          /\ c.kind = "write-config" /\ c.broadcast
       \/ \E x : /\ Fresh(x, Len(claims) + 1)
                 /\ \/ /\ pending' = Append(pending, x)
                       /\ UNCHANGED <<pendingReboot, answerQueued, events>>
                    \/ /\ c.kind = "reboot" /\ x.outcome = "success"
                       /\ pendingReboot = None /\ pendingReboot' = x /\ answerQueued' = FALSE
                       /\ UNCHANGED <<pending, events>>
                    \/ /\ c.kind = "get-details" /\ x.fate = c.fate
                       /\ events' = Append(events, x)
                       /\ UNCHANGED <<pending, pendingReboot, answerQueued>>

\* An inbound message claims its command, or changes nothing.
LEMMA MessageEffect ==
  ASSUME TypeInv, NEW c \in Commands, OnMqttMessage(c)
  PROVE  /\ deliveries < MaxDeliveries /\ deliveries' = deliveries + 1
         /\ UNCHANGED <<nextSeq, core1Vars, lane, broker>>
         /\ \/ UNCHANGED <<pending, pendingReboot, answerQueued, recent, events, claims>>
            \/ Claim(c)
  <1> USE CommandAssumption
  <1>1. /\ deliveries < MaxDeliveries /\ deliveries' = deliveries + 1
        /\ UNCHANGED <<nextSeq, core1Vars, lane, broker>>
    BY DEF OnMqttMessage
  <1>2. CASE Dropped(c)
    BY <1>1, <1>2 DEF OnMqttMessage
  <1>3. CASE ~ Dropped(c)
    <2> DEFINE k == Len(claims) + 1
    <2>1. /\ c.id \notin ToSet(recent) /\ Len(pending) < MaxPending
          /\ RememberCommandId(c.id) /\ claims' = Append(claims, c) /\ Dispatch(c, k)
      <3>1. ~ (Len(pending) >= MaxPending) /\ Len(pending) \in Nat
        BY <1>3 DEF Dropped, TypeInv, TypeOK
      <3> QED BY <1>3, <3>1 DEF OnMqttMessage, Dropped
    <2>2. k \in 1..MaxDeliveries
      <3>1. Len(claims) \in Nat
        BY DEF TypeInv, TypeOK
      <3> QED BY <1>1, <3>1 DEF TypeInv, CountsOK
    <2>3. /\ Fresh(Answer(k, "success", c.fate), k) /\ Fresh(Answer(k, "error", c.fate), k)
          /\ Fresh(Answer(k, "success", "ok"), k) /\ Fresh(Answer(k, "error", "ok"), k)
          /\ Answer(k, "success", c.fate).fate = c.fate
          /\ Answer(k, "success", c.fate).outcome = "success"
      <3>1. k \in 0..MaxDeliveries /\ c.fate \in Fates /\ "ok" \in Fates
            /\ "success" \in Outcomes /\ "error" \in Outcomes
        BY <2>2 DEF Fates, Outcomes
      <3> HIDE DEF k
      <3>2. ASSUME NEW o \in {"success", "error"}, NEW f \in Fates
            PROVE  Fresh(Answer(k, o, f), k) /\ Answer(k, o, f).fate = f
                   /\ Answer(k, o, f).outcome = o
        <4>1. o \in Outcomes
          BY <3>1
        <4>2. /\ Answer(k, o, f) \in AnswerType
              /\ Answer(k, o, f).claim = k /\ Answer(k, o, f).outcome = o
              /\ Answer(k, o, f).fate = f /\ Answer(k, o, f).seq = None
              /\ Answer(k, o, f).stamp = None /\ ~ Answer(k, o, f).clears
          BY <3>1, <4>1, AnswerFields
        <4> QED BY <4>2 DEF Fresh
      <3> QED BY <3>1, <3>2
    <2> HIDE DEF k
    <2>4. \A x : QueueCore0Response(x) => pending' = Append(pending, x)
      BY <2>1 DEF QueueCore0Response, TypeInv, TypeOK
    <2>5. \/ /\ UNCHANGED <<pending, pendingReboot, answerQueued, events>>
             /\ c.kind = "write-config" /\ c.broadcast
          \/ \E x : /\ Fresh(x, k)
                    /\ \/ /\ pending' = Append(pending, x)
                          /\ UNCHANGED <<pendingReboot, answerQueued, events>>
                       \/ /\ c.kind = "reboot" /\ x.outcome = "success"
                          /\ pendingReboot = None /\ pendingReboot' = x /\ answerQueued' = FALSE
                          /\ UNCHANGED <<pending, events>>
                       \/ /\ c.kind = "get-details" /\ x.fate = c.fate
                          /\ events' = Append(events, x)
                          /\ UNCHANGED <<pending, pendingReboot, answerQueued>>
      BY <2>1, <2>3, <2>4 DEF Dispatch
    <2> QED BY <1>1, <2>1, <2>2, <2>5 DEF Claim, k
  <1> QED BY <1>2, <1>3

\* The initial state is of its type.
LEMMA TypeInvInit == Init => TypeInv
  <1> SUFFICES ASSUME Init
               PROVE  TypeInv
    OBVIOUS
  <1> USE CommandAssumption DEF Init
  <1>1. \A S : <<>> \in Seq(S)
    OBVIOUS
  <1>2. Len(<<>>) = 0
    OBVIOUS
  <1>3. TypeOK
    <2>1. /\ Len(pending) <= MaxPending /\ Len(recent) <= RecentCapacity
          /\ pending \in Seq(AnswerType) /\ events \in Seq(AnswerType)
          /\ outbound \in Seq(AnswerType) /\ claims \in Seq(Commands)
          /\ recent \in Seq({c.id : c \in Commands})
      BY <1>1, <1>2
    <2> QED BY <2>1 DEF TypeOK, LoopSteps
  <1>4. CountsOK /\ WaitOK
    BY <1>2 DEF CountsOK, WaitOK
  <1> QED BY <1>3, <1>4 DEF TypeInv

\* The link may fail with any step that touches the socket.
LEMMA LinkTypes ==
  ASSUME TypeInv, LinkFails \/ UNCHANGED <<up, fails>>
  PROVE  up' \in BOOLEAN /\ fails' \in Nat
  <1>1. up \in BOOLEAN /\ fails \in Nat
    BY DEF TypeInv, TypeOK, CountsOK
  <1>2. CASE LinkFails
    <2>1. up' = FALSE /\ fails' = fails + 1
      BY <1>2 DEF LinkFails
    <2>2. up' \in BOOLEAN
      BY <2>1
    <2>3. fails' \in Nat
      BY <1>1, <2>1
    <2> QED BY <2>2, <2>3
  <1>3. CASE UNCHANGED <<up, fails>>
    BY <1>1, <1>3
  <1> QED BY <1>2, <1>3

\* A claim keeps the types.
LEMMA ClaimTypes ==
  ASSUME TypeInv, NEW c, Claim(c)
  PROVE  /\ pending' \in Seq(AnswerType) /\ Len(pending') <= MaxPending
         /\ pending # <<>> => pending' # <<>> /\ pending'[1] = pending[1]
         /\ pendingReboot' \in AnswerType \cup {None} /\ answerQueued' \in BOOLEAN
         /\ pendingReboot # None => UNCHANGED <<pendingReboot, answerQueued>>
         /\ events' \in Seq(AnswerType)
         /\ recent' \in Seq({d.id : d \in Commands}) /\ Len(recent') <= RecentCapacity
         /\ claims' \in Seq(Commands) /\ Len(claims') = Len(claims) + 1
  <1> USE CommandAssumption
  <1>1. /\ pending \in Seq(AnswerType) /\ Len(pending) < MaxPending
        /\ events \in Seq(AnswerType) /\ claims \in Seq(Commands)
        /\ pendingReboot \in AnswerType \cup {None} /\ answerQueued \in BOOLEAN
        /\ recent \in Seq({d.id : d \in Commands}) /\ Len(recent) <= RecentCapacity
    BY DEF TypeInv, TypeOK, Claim
  <1>2. claims' \in Seq(Commands) /\ Len(claims') = Len(claims) + 1
    BY <1>1 DEF Claim
  <1>3. recent' \in Seq({d.id : d \in Commands}) /\ Len(recent') <= RecentCapacity
    <2> DEFINE I == {d.id : d \in Commands}
    <2>1. c.id \in I /\ recent \in Seq(I)
      BY <1>1 DEF Claim
    <2>2. recent' = IF Len(recent) + 1 > RecentCapacity THEN Append(Tail(recent), c.id)
                    ELSE Append(recent, c.id)
      BY DEF Claim, RememberCommandId
    <2> HIDE DEF I
    <2>3. recent' \in Seq(I) /\ Len(recent') <= RecentCapacity
      BY <1>1, <2>1, <2>2
    <2> QED BY <2>3 DEF I
  <1>4. \A x : Fresh(x, Len(claims) + 1) => x \in AnswerType
    BY DEF Fresh
  <1>5. CASE UNCHANGED <<pending, pendingReboot, answerQueued, events>>
    BY <1>1, <1>2, <1>3, <1>5
  <1>6. ASSUME NEW x, Fresh(x, Len(claims) + 1), pending' = Append(pending, x),
               UNCHANGED <<pendingReboot, answerQueued, events>>
        PROVE  pending' \in Seq(AnswerType) /\ Len(pending') <= MaxPending
               /\ (pending # <<>> => pending' # <<>> /\ pending'[1] = pending[1])
    <2>1. x \in AnswerType
      BY <1>4, <1>6
    <2>2. Len(pending) \in Nat /\ MaxPending \in Nat /\ Len(pending) + 1 <= MaxPending
      BY <1>1
    <2>3. pending' \in Seq(AnswerType) /\ Len(pending') = Len(pending) + 1
      BY <1>1, <1>6, <2>1
    <2>4. pending # <<>> => pending' # <<>> /\ pending'[1] = pending[1]
      BY <1>1, <1>6, <2>1
    <2> QED BY <2>2, <2>3, <2>4
  <1>7. ASSUME NEW x, Fresh(x, Len(claims) + 1), events' = Append(events, x)
        PROVE  events' \in Seq(AnswerType)
    BY <1>1, <1>4, <1>7
  <1>8. CASE ~ UNCHANGED <<pending, pendingReboot, answerQueued, events>>
    <2>1. PICK x : /\ Fresh(x, Len(claims) + 1)
                   /\ \/ /\ pending' = Append(pending, x)
                         /\ UNCHANGED <<pendingReboot, answerQueued, events>>
                      \/ /\ pendingReboot = None /\ pendingReboot' = x /\ answerQueued' = FALSE
                         /\ UNCHANGED <<pending, events>>
                      \/ /\ events' = Append(events, x)
                         /\ UNCHANGED <<pending, pendingReboot, answerQueued>>
      BY <1>8 DEF Claim
    <2>2. CASE pending' = Append(pending, x) /\ UNCHANGED <<pendingReboot, answerQueued, events>>
      BY <1>1, <1>2, <1>3, <1>6, <2>1, <2>2
    <2>3. CASE /\ pendingReboot = None /\ pendingReboot' = x /\ answerQueued' = FALSE
               /\ UNCHANGED <<pending, events>>
      <3>1. x \in AnswerType /\ answerQueued' \in BOOLEAN
        BY <2>1, <2>3, <1>4
      <3> QED BY <1>1, <1>2, <1>3, <2>3, <3>1
    <2>4. CASE /\ events' = Append(events, x)
               /\ UNCHANGED <<pending, pendingReboot, answerQueued>>
      BY <1>1, <1>2, <1>3, <1>7, <2>1, <2>4
    <2> QED BY <2>1, <2>2, <2>3, <2>4
  <1> QED BY <1>5, <1>8

\* Each step keeps the types.
LEMMA TypeInvNext == TypeInv /\ [Next]_vars => TypeInv'
  <1> SUFFICES ASSUME TypeInv, [Next]_vars
               PROVE  TypeInv'
    OBVIOUS
  <1> USE CommandAssumption
  <1>a. /\ nextSeq \in Nat /\ fails \in Nat /\ wire \in {None, "response", "reboot", "entry"}
        /\ pending \in Seq(AnswerType) /\ Len(pending) <= MaxPending
        /\ pendingReboot \in AnswerType \cup {None} /\ inFlight \in AnswerType \cup {None}
        /\ outbound \in Seq(AnswerType) /\ events \in Seq(AnswerType)
        /\ core1Pending \in AnswerType \cup {None}
    BY DEF TypeInv, TypeOK, CountsOK
  <1>b. \A r \in AnswerType : r.claim \in 0..MaxDeliveries
    BY DEF AnswerType
  <1>c. pending # <<>> => Head(pending) \in AnswerType /\ Head(pending) = pending[1]
    BY <1>a
  <1>d. PublishDue => Taken \in AnswerType /\ Untaken \in Seq(AnswerType)
    BY <1>a DEF PublishDue, Taken, Untaken
  <1>e. \A r \in AnswerType : SeqAfter(r) \in Nat
    BY <1>a DEF SeqAfter
  <1>f. \A x \in AnswerType : QueueCore0Response(x) =>
          /\ pending' \in Seq(AnswerType) /\ Len(pending') <= MaxPending
          /\ pending # <<>> => pending' # <<>> /\ pending'[1] = pending[1]
    BY <1>a DEF QueueCore0Response
  <1>1. CASE MessageInWait \/ PollMessage
    <2>1. PICK c \in Commands : OnMqttMessage(c)
      BY <1>1 DEF MessageInWait, PollMessage
    <2>2. /\ deliveries < MaxDeliveries /\ deliveries' = deliveries + 1
          /\ UNCHANGED <<nextSeq, core1, core1Pending, telemetry, outbound, inFlight, received,
                         acked>>
          /\ \/ UNCHANGED <<pending, pendingReboot, answerQueued, recent, events, claims>>
             \/ Claim(c)
      BY <2>1, MessageEffect DEF core1Vars, lane, broker
    <2>3. /\ wire' = wire /\ gate' = gate /\ up' \in BOOLEAN /\ fails' \in Nat
          /\ \/ pc' = pc
             \/ pc = "poll" /\ pc' = "reboot2"
      <3>1. CASE MessageInWait
        BY <3>1, <1>a DEF MessageInWait, loop, TypeInv, TypeOK
      <3>2. CASE PollMessage
        <4>1. LinkFails \/ UNCHANGED <<up, fails>>
          BY <3>2 DEF PollMessage
        <4>2. pc = "poll" /\ pc' = "reboot2" /\ UNCHANGED <<gate, wire>>
          BY <3>2 DEF PollMessage
        <4>3. up' \in BOOLEAN /\ fails' \in Nat
          BY <4>1, LinkTypes
        <4> QED BY <4>2, <4>3
      <3> QED BY <1>1, <3>1, <3>2
    <2>4. /\ pending' \in Seq(AnswerType) /\ Len(pending') <= MaxPending
          /\ pending # <<>> => pending' # <<>> /\ pending'[1] = pending[1]
          /\ pendingReboot' \in AnswerType \cup {None} /\ answerQueued' \in BOOLEAN
          /\ pendingReboot # None => UNCHANGED <<pendingReboot, answerQueued>>
          /\ events' \in Seq(AnswerType)
          /\ recent' \in Seq({d.id : d \in Commands}) /\ Len(recent') <= RecentCapacity
          /\ claims' \in Seq(Commands) /\ Len(claims') <= Len(claims) + 1
      <3>1. CASE UNCHANGED <<pending, pendingReboot, answerQueued, recent, events, claims>>
        BY <3>1 DEF TypeInv, TypeOK
      <3>2. CASE Claim(c)
        <4>1. claims \in Seq(Commands) /\ Len(claims') = Len(claims) + 1
          BY <3>2, ClaimTypes DEF TypeInv, TypeOK
        <4>2. Len(claims') <= Len(claims) + 1
          BY <4>1
        <4>3. /\ pending' \in Seq(AnswerType) /\ Len(pending') <= MaxPending
              /\ pending # <<>> => pending' # <<>> /\ pending'[1] = pending[1]
              /\ events' \in Seq(AnswerType)
          BY <3>2, ClaimTypes
        <4>4. /\ pendingReboot' \in AnswerType \cup {None} /\ answerQueued' \in BOOLEAN
              /\ pendingReboot # None => UNCHANGED <<pendingReboot, answerQueued>>
          BY <3>2, ClaimTypes
        <4>5. recent' \in Seq({d.id : d \in Commands}) /\ Len(recent') <= RecentCapacity
          BY <3>2, ClaimTypes
        <4>6. claims' \in Seq(Commands)
          BY <3>2, ClaimTypes
        <4> QED BY <4>2, <4>3, <4>4, <4>5, <4>6
      <3> QED BY <2>2, <3>1, <3>2
    <2>5. TypeOK'
      BY <2>2, <2>3, <2>4 DEF TypeInv, TypeOK, LoopSteps
    <2>6. CountsOK'
      <3>1. /\ deliveries \in 0..MaxDeliveries /\ MaxDeliveries \in Nat
            /\ Len(claims) <= deliveries /\ Len(claims) \in Nat
        BY DEF TypeInv, TypeOK, CountsOK
      <3>2. Len(claims') \in Nat
        BY <2>4
      <3>3. deliveries' \in 0..MaxDeliveries /\ Len(claims') <= deliveries'
        BY <2>2, <2>4, <3>1, <3>2
      <3> QED BY <2>3, <3>3 DEF CountsOK
    <2>7. WaitOK'
      BY <2>2, <2>3, <2>4 DEF TypeInv, WaitOK
    <2> QED BY <2>5, <2>6, <2>7 DEF TypeInv
  <1>2. CASE PollNothing \/ ServiceNothing \/ RebootNothing \/ MachineReset \/ PublishNothing
             \/ Top \/ Recover \/ HeartbeatReset \/ GateOpens
    <2>1. UNCHANGED <<answers, ingress, core1Vars, lane, broker>>
      BY <1>2 DEF PollNothing, ServiceNothing, RebootNothing, MachineReset, PublishNothing, Top,
         Recover, HeartbeatReset, GateOpens
    <2>2. /\ pc' \in LoopSteps /\ up' \in BOOLEAN /\ gate' \in BOOLEAN /\ fails' \in Nat
      <3>1. pc \in LoopSteps /\ up \in BOOLEAN /\ gate \in BOOLEAN
        BY DEF TypeInv, TypeOK
      <3>2. CASE PollNothing \/ PublishNothing
        <4>1. LinkFails \/ UNCHANGED <<up, fails>>
          BY <3>2 DEF PollNothing, PublishNothing
        <4>2. pc' \in {"reboot2", "top"} /\ gate' = gate
          BY <3>2 DEF PollNothing, PublishNothing
        <4>3. up' \in BOOLEAN /\ fails' \in Nat
          BY <4>1, LinkTypes
        <4> QED BY <4>2, <4>3, <3>1 DEF LoopSteps
      <3>3. CASE ServiceNothing \/ RebootNothing \/ MachineReset
        BY <3>1, <3>3, <1>a DEF ServiceNothing, RebootNothing, MachineReset, AfterReboot,
           LoopSteps
      <3>4. CASE Top \/ Recover \/ HeartbeatReset \/ GateOpens
        BY <3>1, <3>4, <1>a DEF Top, Recover, HeartbeatReset, GateOpens, LoopSteps
      <3> QED BY <1>2, <3>2, <3>3, <3>4
    <2>3. \/ wire' = None
          \/ wire' = wire /\ pc' = pc
      <3>1. CASE Top \/ Recover \/ PollNothing \/ MachineReset
        <4>1. wire' = wire /\ pc \in {"top", "recover", "poll", "grace"}
          BY <3>1 DEF Top, Recover, PollNothing, MachineReset
        <4>2. wire = None
          BY <4>1, <1>a DEF TypeInv, WaitOK
        <4> QED BY <4>1, <4>2
      <3>2. CASE ServiceNothing \/ RebootNothing \/ PublishNothing \/ HeartbeatReset \/ GateOpens
        BY <3>2 DEF ServiceNothing, RebootNothing, PublishNothing, HeartbeatReset, GateOpens
      <3> QED BY <1>2, <3>1, <3>2
    <2>4. TypeOK' /\ CountsOK'
      BY <2>1, <2>2, <2>3 DEF answers, ingress, core1Vars, lane, broker, TypeInv, TypeOK, CountsOK
    <2>5. WaitOK'
      BY <2>1, <2>3 DEF answers, lane, TypeInv, WaitOK
    <2> QED BY <2>4, <2>5 DEF TypeInv
  <1>3. CASE ServicePublish
    <2> DEFINE r == Head(pending)
    <2>1. /\ pc = "service" /\ pending # <<>> /\ r.fate = "ok"
          /\ pending' = [pending EXCEPT ![1] = Stamped(r)]
          /\ nextSeq' = SeqAfter(r) /\ wire' = "response"
          /\ UNCHANGED <<pc, up, gate, pendingReboot, answerQueued, ingress, core1Vars, lane,
                         broker, fails>>
      BY <1>3 DEF ServicePublish, ServiceDue
    <2>2. /\ Stamped(r) \in AnswerType /\ Stamped(r).fate = "ok" /\ Stamped(r).seq # None
          /\ SeqAfter(r) \in Nat
      <3>1. r \in AnswerType
        BY <2>1, <1>a
      <3> HIDE DEF r
      <3>2. Stamped(r) \in AnswerType /\ Stamped(r).fate = "ok"
        <4>1. nextSeq \in Nat /\ fails \in Nat
          BY <1>a
        <4>2. Stamped(r) \in AnswerType /\ Stamped(r).fate = r.fate
          BY <3>1, <4>1, StampedFields
        <4> QED BY <2>1, <4>2
      <3>3. Stamped(r).seq # None
        <4>1. nextSeq \in Nat /\ fails \in Nat
          BY <1>a
        <4>2. Stamped(r).seq = IF r.seq = None THEN nextSeq ELSE r.seq
          BY <3>1, <4>1, StampedFields
        <4> QED BY <4>1, <4>2
      <3> QED BY <3>1, <3>2, <3>3, <1>e
    <2> HIDE DEF r
    <2>3. pending' \in Seq(AnswerType) /\ Len(pending') = Len(pending) /\ pending' # <<>>
          /\ pending'[1] = Stamped(r)
      BY <2>1, <2>2, <1>a
    <2> QED BY <2>1, <2>2, <2>3
            DEF ingress, core1Vars, lane, broker, TypeInv, TypeOK, CountsOK, WaitOK, LoopSteps
  <1>4. CASE ServiceSubstitute
    <2> DEFINE r == Head(pending)
    <2>1. /\ pc = "service" /\ wire = None /\ pending # <<>>
          /\ pending' = [pending EXCEPT ![1] = Substitute(r)]
          /\ nextSeq' = SeqAfter(r) /\ pc' = "publish"
          /\ UNCHANGED <<up, gate, wire, pendingReboot, answerQueued, ingress, core1Vars, lane,
                         broker, fails>>
      BY <1>4 DEF ServiceSubstitute, ServiceDue
    <2>2. Substitute(r) \in AnswerType /\ SeqAfter(r) \in Nat
      BY <2>1, <1>a, <1>c, <1>e, SubstituteFields
    <2> HIDE DEF r
    <2>3. pending' \in Seq(AnswerType) /\ Len(pending') = Len(pending)
      BY <2>1, <2>2, <1>a
    <2> QED BY <2>1, <2>2, <2>3
            DEF ingress, core1Vars, lane, broker, TypeInv, TypeOK, CountsOK, WaitOK, LoopSteps
  <1>5. CASE ServiceDone
    <2> DEFINE r == Head(pending)
    <2>1. /\ wire = "response" /\ wire' = None /\ acked' = acked \cup {r.claim}
          /\ gate' \in BOOLEAN /\ up' = up /\ pending' = Tail(pending)
          /\ pendingReboot' \in {None, pendingReboot}
          /\ answerQueued' \in {FALSE, answerQueued} /\ pc' = "publish"
          /\ UNCHANGED <<nextSeq, ingress, core1Vars, lane, fails>>
      BY <1>5 DEF ServiceDone, Puback
    <2>2. pending # <<>>
      BY <2>1 DEF TypeInv, WaitOK
    <2>3. r.claim \in 0..MaxDeliveries
      BY <2>2, <1>b, <1>c
    <2>4. pending' \in Seq(AnswerType) /\ Len(pending') <= MaxPending
      BY <2>1, <2>2, <1>a
    <2> HIDE DEF r
    <2> QED BY <2>1, <2>3, <2>4
            DEF ingress, core1Vars, lane, TypeInv, TypeOK, CountsOK, WaitOK, LoopSteps
  <1>6. CASE ServiceFailed \/ RebootFailed \/ EntryFailed
    <2>1. /\ wire' = None /\ LinkFails /\ gate' = gate /\ acked' = acked
          /\ pc' \in {"publish", "recover", "service", "top"}
          /\ UNCHANGED <<answers, ingress, core1Vars, lane>>
      BY <1>6 DEF ServiceFailed, RebootFailed, EntryFailed, PublishFails, AfterReboot
    <2>2. up' \in BOOLEAN /\ fails' \in Nat
      BY <2>1, LinkTypes
    <2> QED BY <2>1, <2>2, <1>a
            DEF answers, ingress, core1Vars, lane, TypeInv, TypeOK, CountsOK, WaitOK, LoopSteps
  <1>7. CASE RebootPublish
    <2>1. /\ pc \in {"reboot1", "reboot2"} /\ pendingReboot # None /\ ~ answerQueued
          /\ inFlight = None /\ pendingReboot.fate = "ok"
          /\ pendingReboot' = Stamped(pendingReboot)
          /\ nextSeq' = SeqAfter(pendingReboot) /\ wire' = "reboot"
          /\ UNCHANGED <<pc, up, gate, pending, answerQueued, ingress, core1Vars, lane, broker,
                         fails>>
      BY <1>7 DEF RebootPublish, RebootDue
    <2>2. /\ pendingReboot' \in AnswerType /\ pendingReboot'.fate = "ok"
          /\ pendingReboot'.seq # None /\ nextSeq' \in Nat
      BY <2>1, <1>a, <1>e, StampedFields
    <2> QED BY <2>1, <2>2
            DEF ingress, core1Vars, lane, broker, TypeInv, TypeOK, CountsOK, WaitOK, LoopSteps
  <1>8. CASE RebootSubstitute
    <2> DEFINE x == [Substitute(pendingReboot) EXCEPT !.clears = TRUE]
    <2>1. /\ pc \in {"reboot1", "reboot2"} /\ wire = None /\ pendingReboot # None
          /\ nextSeq' = SeqAfter(pendingReboot) /\ QueueCore0Response(x)
          /\ answerQueued' \in BOOLEAN /\ pc' \in {"recover", "service"}
          /\ UNCHANGED <<up, gate, wire, ingress, core1Vars, lane, broker, fails>>
      BY <1>8 DEF RebootSubstitute, RebootDue, AfterReboot
    <2>2. pendingReboot' = [pendingReboot EXCEPT !.seq = IF pendingReboot.seq = None
                                                         THEN nextSeq ELSE pendingReboot.seq]
      BY <1>8 DEF RebootSubstitute
    <2>3. pendingReboot' \in AnswerType
      BY <2>1, <2>2, <1>a, SequencedFields DEF AnswerType
    <2>4. x \in AnswerType /\ nextSeq' \in Nat
      BY <2>1, <1>a, <1>e, SubstituteFields
    <2> HIDE DEF x
    <2>5. pending' \in Seq(AnswerType) /\ Len(pending') <= MaxPending
      BY <2>1, <2>4, <1>f
    <2> QED BY <2>1, <2>3, <2>4, <2>5
            DEF ingress, core1Vars, lane, broker, TypeInv, TypeOK, CountsOK, WaitOK, LoopSteps
  <1>9. CASE RebootAcknowledged
    <2>1. wire = "reboot" /\ acked' = acked \cup {pendingReboot.claim} /\ wire' = None
          /\ gate' \in BOOLEAN /\ up' = up /\ pendingReboot' = None /\ pc' = "grace"
          /\ UNCHANGED <<pending, answerQueued, nextSeq, ingress, core1Vars, lane, fails>>
      BY <1>9 DEF RebootAcknowledged, Puback
    <2>2. pendingReboot.claim \in 0..MaxDeliveries
      BY <2>1, <1>a, <1>b DEF TypeInv, WaitOK
    <2> QED BY <2>1, <2>2
            DEF ingress, core1Vars, lane, TypeInv, TypeOK, CountsOK, WaitOK, LoopSteps
  <1>10. CASE PublishEntry
    <2>1. /\ pc = "publish" /\ PublishDue /\ Taken.fate = "ok"
          /\ inFlight' = [Stamped(Taken) EXCEPT !.stamp = Taken.stamp]
          /\ outbound' = Untaken /\ nextSeq' = SeqAfter(Taken) /\ wire' = "entry"
          /\ UNCHANGED <<pc, up, gate, pending, pendingReboot, answerQueued, ingress, core1Vars,
                         broker, fails>>
      BY <1>10 DEF PublishEntry
    <2>2. Taken \in AnswerType /\ outbound' \in Seq(AnswerType) /\ nextSeq' \in Nat
      BY <2>1, <1>d, <1>e
    <2>3. inFlight' = [Taken EXCEPT !.seq = IF Taken.seq = None THEN nextSeq ELSE Taken.seq]
      BY <2>1, <2>2, <1>a, EntryFields
    <2> DEFINE q == IF Taken.seq = None THEN nextSeq ELSE Taken.seq
    <2>4. q \in Nat /\ inFlight' = [Taken EXCEPT !.seq = q]
      BY <2>2, <2>3, <1>a DEF AnswerType
    <2> HIDE DEF q
    <2>5. inFlight' \in AnswerType /\ inFlight'.fate = Taken.fate /\ inFlight'.seq = q
      <3>1. q \in Nat \cup {None}
        BY <2>4
      <3>2. /\ [Taken EXCEPT !.seq = q] \in AnswerType
            /\ [Taken EXCEPT !.seq = q].fate = Taken.fate
            /\ [Taken EXCEPT !.seq = q].seq = q
        BY <3>1, <2>2, SequencedFields
      <3> QED BY <3>2, <2>4
    <2>6. inFlight'.fate = "ok" /\ inFlight'.seq # None
      BY <2>1, <2>4, <2>5
    <2> QED BY <2>1, <2>2, <2>5, <2>6
            DEF ingress, core1Vars, broker, TypeInv, TypeOK, CountsOK, WaitOK, LoopSteps
  <1>11. CASE DiscardEntry
    <2>1. /\ pc = "publish" /\ wire = None /\ PublishDue /\ inFlight' = None
          /\ outbound' = Untaken /\ nextSeq' = SeqAfter(Taken) /\ pc' = "top"
          /\ pending' = pending \/ QueueCore0Response(Substitute(Taken))
          /\ UNCHANGED <<up, gate, wire, pendingReboot, answerQueued, ingress, core1Vars, broker,
                         fails>>
      BY <1>11 DEF DiscardEntry
    <2>2. Taken \in AnswerType /\ outbound' \in Seq(AnswerType) /\ nextSeq' \in Nat
      BY <2>1, <1>d, <1>e
    <2>3. pending' \in Seq(AnswerType) /\ Len(pending') <= MaxPending
      BY <2>1, <2>2, <1>a, <1>f, SubstituteFields
    <2> QED BY <2>1, <2>2, <2>3
            DEF ingress, core1Vars, broker, TypeInv, TypeOK, CountsOK, WaitOK, LoopSteps
  <1>12. CASE EntryDone
    <2>1. wire = "entry" /\ acked' = acked \cup {inFlight.claim} /\ wire' = None
          /\ gate' \in BOOLEAN /\ up' = up /\ inFlight' = None /\ pc' = "top"
          /\ UNCHANGED <<answers, ingress, core1Vars, outbound, fails>>
      BY <1>12 DEF EntryDone, Puback
    <2>2. inFlight.claim \in 0..MaxDeliveries
      BY <2>1, <1>a, <1>b DEF TypeInv, WaitOK
    <2> QED BY <2>1, <2>2
            DEF answers, ingress, core1Vars, lane, TypeInv, TypeOK, CountsOK, WaitOK, LoopSteps
  <1>13. CASE Core1TakeEvent
    BY <1>13, <1>a DEF Core1TakeEvent, loop, answers, lane, broker, TypeInv, TypeOK, CountsOK,
       WaitOK
  <1>14. CASE Core1Admit
    <2>1. outbound' \in Seq(AnswerType)
      BY <1>14, <1>a DEF Core1Admit
    <2> QED BY <1>14, <2>1 DEF Core1Admit, loop, answers, ingress, broker, TypeInv, TypeOK,
            CountsOK, WaitOK
  <1>19. CASE Core1Stops
    BY <1>19 DEF Core1Stops, loop, answers, ingress, lane, broker, TypeInv, TypeOK, CountsOK,
       WaitOK
  <1>15. CASE Core1Shrink
    <2>1. core1Pending' \in AnswerType
      BY <1>15, <1>a, ShrunkFields DEF Core1Shrink, Fates
    <2> QED BY <1>15, <2>1 DEF Core1Shrink, loop, answers, ingress, lane, broker, TypeInv,
            TypeOK, CountsOK, WaitOK
  <1>16. CASE Core1Refused \/ Core1MemoryError
    <2>1. core1Pending' \in AnswerType
      BY <1>16, <1>a, SubstituteFields DEF Core1Refused, Core1MemoryError
    <2>2. UNCHANGED <<loop, answers, ingress, core1, lane, broker, fails>>
      BY <1>16 DEF Core1Refused, Core1MemoryError
    <2> QED BY <2>1, <2>2 DEF loop, answers, ingress, lane, broker, TypeInv, TypeOK, CountsOK,
            WaitOK
  <1>17. CASE Core1Telemetry
    <2>1. PICK fate \in {"ok", "spliced"} : outbound' = Append(outbound, Answer(0, "telemetry", fate))
      BY <1>17 DEF Core1Telemetry
    <2>2. Answer(0, "telemetry", fate) \in AnswerType
      <3>1. 0 \in 0..MaxDeliveries /\ "telemetry" \in Outcomes /\ fate \in Fates
        BY DEF Outcomes, Fates
      <3> QED BY <3>1, AnswerFields
    <2>3. outbound' \in Seq(AnswerType)
      BY <2>1, <2>2, <1>a
    <2> QED BY <1>17, <2>3 DEF Core1Telemetry, loop, answers, ingress, broker, TypeInv, TypeOK,
            CountsOK, WaitOK
  <1>18. CASE UNCHANGED vars
    BY <1>18 DEF vars, loop, answers, ingress, core1Vars, lane, broker, TypeInv, TypeOK,
       CountsOK, WaitOK
  <1> QED BY <1>1, <1>2, <1>3, <1>4, <1>5, <1>6, <1>7, <1>8, <1>9, <1>10, <1>11, <1>12, <1>13,
             <1>14, <1>15, <1>16, <1>17, <1>18, <1>19
          DEF Next, Core0Step, Core1Step

-----------------------------------------------------------------------------
(* The debounce cache. *)

\* Commands are claimed on the way in and nowhere else.
LEMMA ClaimsOnlyByMessage ==
  ASSUME TypeInv, [Next]_vars
  PROVE  \/ UNCHANGED <<recent, claims>>
         \/ \E c \in Commands : Claim(c)
  <1>1. CASE MessageInWait \/ PollMessage
    <2>1. PICK c \in Commands : OnMqttMessage(c)
      BY <1>1 DEF MessageInWait, PollMessage
    <2> QED BY <2>1, MessageEffect
  <1>2. CASE ~ (MessageInWait \/ PollMessage)
    BY <1>2 DEF Next, Core0Step, Core1Step, PollNothing, ServiceNothing, ServicePublish,
       ServiceSubstitute, ServiceDone, ServiceFailed, RebootNothing, RebootPublish,
       RebootSubstitute, RebootAcknowledged, RebootFailed, MachineReset, HeartbeatReset,
       PublishNothing, PublishEntry, DiscardEntry, EntryDone, EntryFailed, Top, Recover,
       Core1TakeEvent, Core1Admit, Core1Shrink, Core1Refused, Core1MemoryError, Core1Stops,
       Core1Telemetry, GateOpens, vars, ingress
  <1> QED BY <1>1, <1>2

\* The cache holds the IDs of the last RecentCapacity claims, in their order.
Remembered ==
    /\ Len(recent) = IF Len(claims) < RecentCapacity THEN Len(claims) ELSE RecentCapacity
    /\ \A i \in 1..Len(recent) : recent[i] = claims[Len(claims) - Len(recent) + i].id

\* A claim keeps the cache a suffix of the claims, and the window.
LEMMA RememberedNext ==
  ASSUME TypeInv, Remembered, DebounceWindow, NEW c \in Commands, Claim(c)
  PROVE  Remembered' /\ DebounceWindow'
  <1> USE CommandAssumption
  <1> DEFINE n == Len(claims)
             m == Len(recent)
             I == {d.id : d \in Commands}
  <1>1. /\ claims \in Seq(Commands) /\ n \in Nat /\ recent \in Seq(I) /\ m \in Nat
        /\ c.id \in I /\ c.id \notin ToSet(recent)
        /\ claims' = Append(claims, c)
        /\ recent' = IF m + 1 > RecentCapacity THEN Append(Tail(recent), c.id)
                     ELSE Append(recent, c.id)
        /\ RecentCapacity \in Nat \ {0}
    BY DEF TypeInv, TypeOK, Claim, RememberCommandId
  <1>2. /\ m = IF n < RecentCapacity THEN n ELSE RecentCapacity
        /\ \A i \in 1..m : recent[i] = claims[n - m + i].id
    BY DEF Remembered
  <1>3. /\ claims' \in Seq(Commands) /\ Len(claims') = n + 1 /\ claims'[n + 1] = c
        /\ \A i \in 1..n : claims'[i] = claims[i]
    BY <1>1
  <1> HIDE DEF I
  <1>4. Remembered'
    <2>1. CASE m + 1 > RecentCapacity
      <3>1. recent' = Append(Tail(recent), c.id) /\ m = RecentCapacity /\ m >= 1 /\ n >= m
        BY <1>1, <1>2, <2>1
      <3>2. /\ Len(recent') = m /\ recent'[m] = c.id
            /\ \A i \in 1..(m - 1) : recent'[i] = recent[i + 1]
        BY <1>1, <3>1
      <3>3. ASSUME NEW i \in 1..m
            PROVE  recent'[i] = claims'[n + 1 - m + i].id
        <4>1. CASE i = m
          BY <1>1, <1>3, <3>1, <3>2, <4>1
        <4>2. CASE i \in 1..(m - 1)
          <5>1. recent'[i] = recent[i + 1] /\ i + 1 \in 1..m
            BY <3>2, <4>2, <1>1
          <5>2. recent[i + 1] = claims[n - m + (i + 1)].id
            BY <5>1, <1>2
          <5>3. n - m + (i + 1) \in 1..n /\ n - m + (i + 1) = n + 1 - m + i
            BY <4>2, <3>1, <1>1
          <5> QED BY <5>1, <5>2, <5>3, <1>3
        <4>3. i = m \/ i \in 1..(m - 1)
          BY <1>1
        <4> QED BY <4>1, <4>2, <4>3
      <3>4. Len(claims') - Len(recent') = n + 1 - m /\ ~ (n + 1 < RecentCapacity)
        <4>1. Len(claims') = n + 1 /\ Len(recent') = m
          BY <1>3, <3>2
        <4>2. n \in Nat /\ m \in Nat /\ m = RecentCapacity /\ n >= m
          BY <1>1, <3>1
        <4> HIDE DEF n, m
        <4> QED BY <4>1, <4>2
      <3>5. \A i \in 1..Len(recent') : recent'[i] = claims'[Len(claims') - Len(recent') + i].id
        BY <3>2, <3>3, <3>4
      <3> QED BY <1>3, <3>1, <3>2, <3>4, <3>5 DEF Remembered
    <2>2. CASE ~ (m + 1 > RecentCapacity)
      <3>1. recent' = Append(recent, c.id) /\ m = n /\ n < RecentCapacity
        BY <1>1, <1>2, <2>2
      <3>2. /\ Len(recent') = m + 1 /\ recent'[m + 1] = c.id
            /\ \A i \in 1..m : recent'[i] = recent[i]
        BY <1>1, <3>1
      <3>3. ASSUME NEW i \in 1..(m + 1)
            PROVE  recent'[i] = claims'[i].id
        <4>1. CASE i = m + 1
          BY <1>3, <3>1, <3>2, <4>1
        <4>2. CASE i \in 1..m
          <5>1. recent[i] = claims[n - m + i].id /\ n - m + i = i /\ i \in 1..n
            BY <1>1, <1>2, <3>1, <4>2
          <5> QED BY <5>1, <3>2, <4>2, <1>3
        <4>3. i = m + 1 \/ i \in 1..m
          BY <1>1
        <4> QED BY <4>1, <4>2, <4>3
      <3>4. Len(claims') - Len(recent') = 0
        BY <1>1, <1>3, <3>1, <3>2
      <3>5. \A i \in 1..Len(recent') : recent'[i] = claims'[Len(claims') - Len(recent') + i].id
        <4> SUFFICES ASSUME NEW i \in 1..Len(recent')
                     PROVE  recent'[i] = claims'[Len(claims') - Len(recent') + i].id
          OBVIOUS
        <4>1. Len(claims') - Len(recent') + i = i
          BY <3>4
        <4> QED BY <3>2, <3>3, <4>1
      <3>6. Len(recent') = IF Len(claims') < RecentCapacity THEN Len(claims') ELSE RecentCapacity
        BY <1>1, <1>3, <3>1, <3>2
      <3> QED BY <3>5, <3>6 DEF Remembered
    <2> QED BY <2>1, <2>2
  <1>5. DebounceWindow'
    <2> SUFFICES ASSUME NEW i \in DOMAIN claims', NEW j \in DOMAIN claims',
                        i < j, claims'[i].id = claims'[j].id
                 PROVE  j - i > RecentCapacity
      BY DEF DebounceWindow
    <2>1. i \in 1..n /\ j \in 1..(n + 1)
      BY <1>1, <1>3
    <2>2. CASE j \in 1..n
      BY <2>1, <2>2, <1>1, <1>3 DEF DebounceWindow
    <2>3. CASE j = n + 1
      <3>1. claims[i].id = c.id
        BY <2>1, <2>3, <1>3
      <3>2. i <= n - m
        <4> SUFFICES ASSUME i > n - m
                     PROVE  FALSE
          BY <2>1, <1>1
        <4>1. i - (n - m) \in 1..m /\ n - m + (i - (n - m)) = i
          BY <2>1, <1>1
        <4>2. recent[i - (n - m)] = c.id
          BY <4>1, <1>2, <3>1
        <4>3. \A k \in 1..m : recent[k] \in ToSet(recent)
          BY <1>1 DEF ToSet
        <4> QED BY <4>1, <4>2, <4>3, <1>1
      <3>3. m = RecentCapacity
        BY <3>2, <2>1, <1>1, <1>2
      <3> QED BY <2>3, <3>2, <3>3, <2>1, <1>1
    <2> QED BY <2>1, <2>2, <2>3, <1>1
  <1> QED BY <1>4, <1>5

\* An ID is processed again only after RecentCapacity other IDs, whatever is delivered.
THEOREM DuplicatesAreDropped == Spec => []DebounceWindow
  <1>1. Init => TypeInv /\ Remembered /\ DebounceWindow
    <2> SUFFICES ASSUME Init
                 PROVE  Remembered /\ DebounceWindow
      BY TypeInvInit
    <2>1. recent = <<>> /\ claims = <<>>
      BY DEF Init
    <2> QED BY <2>1, CommandAssumption DEF Remembered, DebounceWindow
  <1>2. TypeInv /\ Remembered /\ DebounceWindow /\ [Next]_vars
          => (TypeInv /\ Remembered /\ DebounceWindow)'
    <2> SUFFICES ASSUME TypeInv, Remembered, DebounceWindow, [Next]_vars
                 PROVE  (Remembered /\ DebounceWindow)'
      BY TypeInvNext
    <2>1. CASE UNCHANGED <<recent, claims>>
      BY <2>1 DEF Remembered, DebounceWindow
    <2>2. CASE \E c \in Commands : Claim(c)
      BY <2>2, RememberedNext
    <2> QED BY <2>1, <2>2, ClaimsOnlyByMessage
  <1> QED BY <1>1, <1>2, PTL DEF Spec

-----------------------------------------------------------------------------
(* A reboot that is held, and one that is acknowledged. *)

\* The reboot b is held (a) if and only if exactly one answer of p releases it, and that one
\* can be published.
Release(p, b, a) ==
    /\ a => b # None
    /\ a => \E i \in 1..Len(p) : p[i].clears
    /\ \A i \in 1..Len(p) : p[i].clears =>
         a /\ p[i].outcome = "substitute" /\ p[i].fate = "ok" /\ p[i].claim = b.claim
    /\ \A i, j \in 1..Len(p) : p[i].clears /\ p[j].clears => i = j

ReleaseOK == Release(pending, pendingReboot, answerQueued)

\* The reboot that waits answers a reboot command, and with success.
RebootOK ==
    pendingReboot # None =>
        /\ pendingReboot.outcome = "success"
        /\ pendingReboot.claim \in 1..Len(claims)
        /\ claims[pendingReboot.claim].kind = "reboot"

HeldInv == RebootOK /\ ReleaseOK

\* Another answer joins the queue.
LEMMA ReleaseAppend ==
  ASSUME NEW p \in Seq(AnswerType), NEW x \in AnswerType, ~ x.clears,
         NEW b, NEW a \in BOOLEAN, Release(p, b, a)
  PROVE  Release(Append(p, x), b, a)
  <1> DEFINE q == Append(p, x)
             n == Len(p)
  <1>1. /\ Len(q) = n + 1 /\ n \in Nat /\ q[n + 1] = x
        /\ \A i \in 1..n : q[i] = p[i]
    OBVIOUS
  <1> HIDE DEF q
  <1>2. \A i \in 1..Len(q) : q[i].clears => i \in 1..n /\ q[i] = p[i]
    BY <1>1
  <1>3. \A i \in 1..n : i \in 1..Len(q)
    BY <1>1
  <1>4. a => \E i \in 1..Len(q) : q[i].clears
    BY <1>1, <1>3 DEF Release
  <1>5. Release(q, b, a)
    <2> HIDE DEF n
    <2> QED BY <1>2, <1>4 DEF Release, n
  <1> QED BY <1>5 DEF q

\* The head is stamped, or replaced by an answer that releases nothing either.
LEMMA ReleaseRewrite ==
  ASSUME NEW p \in Seq(AnswerType), p # <<>>, NEW y, NEW b, NEW a \in BOOLEAN, Release(p, b, a),
         y.clears <=> p[1].clears,
         p[1].clears => y.outcome = p[1].outcome /\ y.fate = p[1].fate /\ y.claim = p[1].claim
  PROVE  Release([p EXCEPT ![1] = y], b, a)
  <1> DEFINE q == [p EXCEPT ![1] = y]
  <1>1. /\ Len(q) = Len(p) /\ 1 \in 1..Len(p) /\ q[1] = y
        /\ \A i \in 1..Len(p) : i # 1 => q[i] = p[i]
    OBVIOUS
  <1> HIDE DEF q
  <1>2. \A i \in 1..Len(p) :
          /\ q[i].clears <=> p[i].clears
          /\ p[i].clears => q[i].outcome = p[i].outcome /\ q[i].fate = p[i].fate
                            /\ q[i].claim = p[i].claim
    BY <1>1
  <1>3. Release(q, b, a)
    BY <1>1, <1>2 DEF Release
  <1> QED BY <1>3 DEF q

\* The head leaves; if it releases the reboot, the reboot is gone.
LEMMA ReleaseTail ==
  ASSUME NEW p \in Seq(AnswerType), p # <<>>, NEW b, NEW a \in BOOLEAN, Release(p, b, a)
  PROVE  /\ ~ p[1].clears => Release(Tail(p), b, a)
         /\ p[1].clears => Release(Tail(p), None, FALSE)
  <1> DEFINE q == Tail(p)
             n == Len(p)
  <1>1. /\ n \in Nat /\ n >= 1 /\ Len(q) = n - 1
        /\ \A i \in 1..(n - 1) : q[i] = p[i + 1]
    OBVIOUS
  <1> HIDE DEF q, n
  <1>2. \A i \in 1..Len(q) : i + 1 \in 1..n /\ i + 1 # 1 /\ q[i] = p[i + 1]
    BY <1>1
  <1>3. \A i, j \in 1..Len(q) : i + 1 = j + 1 => i = j
    OBVIOUS
  <1>4. 1 \in 1..n
    BY <1>1
  <1>5. ASSUME ~ p[1].clears
        PROVE  Release(q, b, a)
    <2>1. a => \E i \in 1..Len(q) : q[i].clears
      <3> SUFFICES ASSUME a
                   PROVE  \E i \in 1..Len(q) : q[i].clears
        OBVIOUS
      <3>1. PICK i \in 1..n : p[i].clears
        BY DEF Release, n
      <3>2. i # 1
        BY <1>5, <3>1
      <3>3. i - 1 \in 1..Len(q) /\ q[i - 1] = p[i]
        BY <1>1, <3>2
      <3> QED BY <3>1, <3>3
    <2>2. \A i \in 1..Len(q) : q[i].clears =>
             a /\ q[i].outcome = "substitute" /\ q[i].fate = "ok" /\ q[i].claim = b.claim
      BY <1>2 DEF Release, n
    <2>3. \A i, j \in 1..Len(q) : q[i].clears /\ q[j].clears => i = j
      <3> SUFFICES ASSUME NEW i \in 1..Len(q), NEW j \in 1..Len(q), q[i].clears, q[j].clears
                   PROVE  i + 1 = j + 1
        BY <1>3
      <3> QED BY <1>2 DEF Release, n
    <2>4. a => b # None
      BY DEF Release
    <2> QED BY <2>1, <2>2, <2>3, <2>4 DEF Release
  <1>6. ASSUME p[1].clears
        PROVE  Release(q, None, FALSE)
    <2>1. \A i \in 1..Len(q) : ~ q[i].clears
      BY <1>2, <1>4, <1>6 DEF Release, n
    <2> QED BY <2>1 DEF Release
  <1> QED BY <1>5, <1>6 DEF q

\* The answer that releases the reboot is queued.
LEMMA ReleaseHold ==
  ASSUME NEW p \in Seq(AnswerType), NEW x \in AnswerType, NEW b, NEW c, Release(p, b, FALSE),
         x.clears, x.outcome = "substitute", x.fate = "ok", x.claim = c.claim, c # None
  PROVE  Release(Append(p, x), c, TRUE)
  <1> DEFINE q == Append(p, x)
             n == Len(p)
  <1>1. /\ Len(q) = n + 1 /\ n \in Nat /\ q[n + 1] = x
        /\ \A i \in 1..n : q[i] = p[i]
    OBVIOUS
  <1> HIDE DEF q
  <1>2. \A i \in 1..n : ~ q[i].clears
    BY <1>1 DEF Release
  <1>3. \A i \in 1..Len(q) : q[i].clears => i = n + 1
    BY <1>1, <1>2
  <1>4. n + 1 \in 1..Len(q)
    BY <1>1
  <1>5. Release(q, c, TRUE)
    BY <1>1, <1>3, <1>4 DEF Release
  <1> QED BY <1>5 DEF q

\* A reboot that is not held may change: nothing in the queue refers to it.
LEMMA ReleaseFree ==
  ASSUME NEW p, NEW b, NEW c, Release(p, b, FALSE)
  PROVE  Release(p, c, FALSE)
  BY DEF Release

\* Each step keeps a held reboot and its queued answer together.
LEMMA HeldInvNext == TypeInv /\ HeldInv /\ [Next]_vars => HeldInv'
  <1> SUFFICES ASSUME TypeInv, RebootOK, ReleaseOK, [Next]_vars
               PROVE  RebootOK' /\ ReleaseOK'
    BY DEF HeldInv
  <1> USE CommandAssumption
  <1>a. /\ nextSeq \in Nat /\ fails \in Nat /\ answerQueued \in BOOLEAN
        /\ pending \in Seq(AnswerType) /\ inFlight \in AnswerType \cup {None}
        /\ pendingReboot \in AnswerType \cup {None} /\ outbound \in Seq(AnswerType)
        /\ claims \in Seq(Commands)
    BY DEF TypeInv, TypeOK, CountsOK
  <1>b. pending # <<>> => Head(pending) = pending[1] /\ pending[1] \in AnswerType
                          /\ 1 \in 1..Len(pending)
    BY <1>a
  <1>c. Release(pending, pendingReboot, answerQueued)
    BY DEF ReleaseOK
  <1>d. ~ answerQueued => Release(pending, pendingReboot, FALSE)
    BY <1>a, <1>c DEF Release
  <1>e. \A x \in AnswerType : ~ x.clears /\ QueueCore0Response(x) =>
          Release(pending', pendingReboot, answerQueued)
    BY <1>a, <1>c, ReleaseAppend DEF QueueCore0Response
  <1>1. CASE MessageInWait \/ PollMessage
    <2>1. PICK c \in Commands : OnMqttMessage(c)
      BY <1>1 DEF MessageInWait, PollMessage
    <2>2. CASE UNCHANGED <<pending, pendingReboot, answerQueued, recent, events, claims>>
      BY <2>2 DEF RebootOK, ReleaseOK
    <2>3. CASE Claim(c)
      <3>1. /\ Len(claims) \in Nat /\ Len(claims') = Len(claims) + 1
            /\ claims'[Len(claims) + 1] = c
            /\ \A k \in 1..Len(claims) : k \in 1..Len(claims') /\ claims'[k] = claims[k]
        BY <1>a, <2>3 DEF Claim
      <3>2. pendingReboot' = pendingReboot => RebootOK'
        BY <3>1 DEF RebootOK
      <3>3. CASE UNCHANGED <<pending, pendingReboot, answerQueued, events>>
        BY <3>2, <3>3 DEF ReleaseOK
      <3>4. ASSUME NEW x, Fresh(x, Len(claims) + 1), pending' = Append(pending, x),
                   UNCHANGED <<pendingReboot, answerQueued, events>>
            PROVE  RebootOK' /\ ReleaseOK'
        <4>1. x \in AnswerType /\ ~ x.clears
          BY <3>4 DEF Fresh
        <4>2. Release(pending', pendingReboot, answerQueued)
          BY <1>a, <1>c, <3>4, <4>1, ReleaseAppend
        <4> QED BY <3>2, <3>4, <4>2 DEF ReleaseOK
      <3>5. ASSUME NEW x, Fresh(x, Len(claims) + 1), c.kind = "reboot", x.outcome = "success",
                   pendingReboot = None, pendingReboot' = x, answerQueued' = FALSE,
                   UNCHANGED <<pending, events>>
            PROVE  RebootOK' /\ ReleaseOK'
        <4>1. ~ answerQueued
          BY <1>c, <3>5 DEF Release
        <4>2. Release(pending, x, FALSE)
          BY <1>d, <4>1, ReleaseFree
        <4>3. x.claim = Len(claims) + 1 /\ x.claim \in 1..Len(claims')
          BY <3>1, <3>5 DEF Fresh
        <4>4. RebootOK'
          BY <3>1, <3>5, <4>3 DEF RebootOK
        <4> QED BY <3>5, <4>2, <4>4 DEF ReleaseOK
      <3>6. CASE UNCHANGED <<pending, pendingReboot, answerQueued>>
        BY <3>2, <3>6 DEF ReleaseOK
      <3> QED BY <2>3, <3>3, <3>4, <3>5, <3>6 DEF Claim
    <2> QED BY <2>1, <2>2, <2>3, MessageEffect
  <1>2. CASE ServicePublish \/ ServiceSubstitute
    <2>1. /\ pending # <<>> /\ UNCHANGED <<pendingReboot, answerQueued, claims>>
          /\ \/ pending' = [pending EXCEPT ![1] = Stamped(pending[1])]
             \/ pending[1].fate # "ok" /\ pending' = [pending EXCEPT ![1] = Substitute(pending[1])]
      BY <1>2, <1>b DEF ServicePublish, ServiceSubstitute, ServiceDue, ingress
    <2>2. pending[1] \in AnswerType /\ 1 \in 1..Len(pending)
      BY <2>1, <1>b
    <2>3. CASE pending' = [pending EXCEPT ![1] = Stamped(pending[1])]
      <3> DEFINE y == Stamped(pending[1])
      <3>1. (y.clears <=> pending[1].clears) /\ y.outcome = pending[1].outcome
            /\ y.fate = pending[1].fate /\ y.claim = pending[1].claim
        BY <1>a, <2>2, StampedFields
      <3>2. pending' = [pending EXCEPT ![1] = y]
        BY <2>3
      <3> HIDE DEF y
      <3>3. Release([pending EXCEPT ![1] = y], pendingReboot, answerQueued)
        <4>1. /\ pending \in Seq(AnswerType) /\ pending # <<>> /\ answerQueued \in BOOLEAN
              /\ Release(pending, pendingReboot, answerQueued)
          BY <1>a, <1>c, <2>1
        <4>2. /\ y.clears <=> pending[1].clears
              /\ pending[1].clears => /\ y.outcome = pending[1].outcome
                                      /\ y.fate = pending[1].fate
                                      /\ y.claim = pending[1].claim
          BY <3>1
        <4> QED BY <4>1, <4>2, ReleaseRewrite
      <3> QED BY <2>1, <3>2, <3>3 DEF RebootOK, ReleaseOK
    <2>4. CASE pending[1].fate # "ok" /\ pending' = [pending EXCEPT ![1] = Substitute(pending[1])]
      <3>1. ~ pending[1].clears
        BY <1>c, <2>2, <2>4 DEF Release
      <3>2. ~ Substitute(pending[1]).clears
        BY <2>2, SubstituteFields
      <3> DEFINE y == Substitute(pending[1])
      <3>3. pending' = [pending EXCEPT ![1] = y] /\ ~ y.clears
        BY <2>4, <3>2
      <3> HIDE DEF y
      <3>4. Release([pending EXCEPT ![1] = y], pendingReboot, answerQueued)
        <4>1. /\ pending \in Seq(AnswerType) /\ pending # <<>> /\ answerQueued \in BOOLEAN
              /\ Release(pending, pendingReboot, answerQueued)
          BY <1>a, <1>c, <2>1
        <4>2. /\ y.clears <=> pending[1].clears
              /\ pending[1].clears => /\ y.outcome = pending[1].outcome
                                      /\ y.fate = pending[1].fate
                                      /\ y.claim = pending[1].claim
          BY <3>1, <3>3
        <4> QED BY <4>1, <4>2, ReleaseRewrite
      <3> QED BY <2>1, <3>3, <3>4 DEF RebootOK, ReleaseOK
    <2> QED BY <2>1, <2>3, <2>4
  <1>3. CASE ServiceDone
    <2>1. pending # <<>>
      BY <1>3 DEF ServiceDone, TypeInv, WaitOK
    <2>2. /\ pending' = Tail(pending) /\ claims' = claims
          /\ pendingReboot' = IF pending[1].clears THEN None ELSE pendingReboot
          /\ answerQueued' = IF pending[1].clears THEN FALSE ELSE answerQueued
      BY <1>3, <1>b, <2>1 DEF ServiceDone, ingress
    <2>3. CASE pending[1].clears
      <3>1. Release(Tail(pending), None, FALSE)
        BY <1>a, <1>c, <2>1, <2>3, ReleaseTail
      <3> QED BY <2>2, <2>3, <3>1 DEF RebootOK, ReleaseOK
    <2>4. CASE ~ pending[1].clears
      <3>1. Release(Tail(pending), pendingReboot, answerQueued)
        BY <1>a, <1>c, <2>1, <2>4, ReleaseTail
      <3> QED BY <2>2, <2>4, <3>1 DEF RebootOK, ReleaseOK
    <2> QED BY <2>3, <2>4
  <1>4. CASE RebootPublish
    <2>1. /\ pendingReboot # None /\ ~ answerQueued /\ pendingReboot' = Stamped(pendingReboot)
          /\ UNCHANGED <<pending, answerQueued, claims>>
      BY <1>4 DEF RebootPublish, RebootDue, ingress
    <2>2. /\ pendingReboot'.outcome = pendingReboot.outcome
          /\ pendingReboot'.claim = pendingReboot.claim
      BY <1>a, <2>1, StampedFields
    <2>3. Release(pending, pendingReboot', FALSE)
      BY <1>d, <2>1, ReleaseFree
    <2>4. answerQueued' = FALSE
      BY <1>a, <2>1
    <2> QED BY <2>1, <2>2, <2>3, <2>4 DEF RebootOK, ReleaseOK
  <1>5. CASE RebootSubstitute
    <2> DEFINE x == [Substitute(pendingReboot) EXCEPT !.clears = TRUE]
               q == IF pendingReboot.seq = None THEN nextSeq ELSE pendingReboot.seq
    <2>1. /\ pendingReboot # None /\ ~ answerQueued /\ pendingReboot \in AnswerType
          /\ pendingReboot' = [pendingReboot EXCEPT !.seq = q]
          /\ QueueCore0Response(x) /\ answerQueued' = (Len(pending) < MaxPending)
          /\ claims' = claims
      BY <1>5, <1>a DEF RebootSubstitute, RebootDue, ingress
    <2>2. /\ x \in AnswerType /\ x.clears /\ x.outcome = "substitute" /\ x.fate = "ok"
          /\ x.claim = pendingReboot.claim
      BY <2>1, SubstituteFields
    <2>3. /\ pendingReboot' \in AnswerType
          /\ pendingReboot'.outcome = pendingReboot.outcome
          /\ pendingReboot'.claim = pendingReboot.claim
      <3>1. q \in Nat \cup {None}
        BY <2>1, <1>a DEF AnswerType
      <3> HIDE DEF q
      <3> QED BY <2>1, <3>1, SequencedFields
    <2> HIDE DEF x, q
    <2>4. RebootOK'
      BY <2>1, <2>3 DEF RebootOK
    <2>5. CASE Len(pending) >= MaxPending
      <3>1. pending' = pending /\ answerQueued' = FALSE
        BY <2>1, <2>5, <1>a DEF QueueCore0Response
      <3>2. Release(pending, pendingReboot', FALSE)
        BY <1>d, <2>1, ReleaseFree
      <3> QED BY <2>4, <3>1, <3>2 DEF ReleaseOK
    <2>6. CASE ~ (Len(pending) >= MaxPending)
      <3>1. pending' = Append(pending, x) /\ answerQueued' = TRUE
        <4>1. Len(pending) < MaxPending
          BY <2>6, <1>a
        <4>2. pending' = Append(pending, x)
          BY <2>1, <2>6 DEF QueueCore0Response
        <4> QED BY <2>1, <4>1, <4>2
      <3>2. pendingReboot' # None
        BY <2>3
      <3>3. Release(pending, pendingReboot, FALSE)
        BY <1>d, <2>1
      <3>4. Release(Append(pending, x), pendingReboot', TRUE)
        BY <1>a, <2>2, <2>3, <3>2, <3>3, ReleaseHold
      <3> QED BY <2>4, <3>1, <3>4 DEF ReleaseOK
    <2> QED BY <2>5, <2>6
  <1>6. CASE RebootAcknowledged
    <2>1. ~ answerQueued /\ pendingReboot' = None /\ UNCHANGED <<pending, answerQueued>>
      BY <1>6 DEF RebootAcknowledged, TypeInv, WaitOK
    <2>2. answerQueued' = FALSE /\ Release(pending, None, FALSE)
      BY <1>a, <1>d, <2>1, ReleaseFree
    <2> QED BY <2>1, <2>2 DEF RebootOK, ReleaseOK
  <1>7. CASE DiscardEntry
    <2>1. /\ PublishDue /\ UNCHANGED <<pendingReboot, answerQueued, claims>>
          /\ pending' = pending \/ QueueCore0Response(Substitute(Taken))
      BY <1>7 DEF DiscardEntry, ingress
    <2>2. Taken \in AnswerType
      BY <1>a, <2>1 DEF PublishDue, Taken
    <2>3. Release(pending', pendingReboot, answerQueued)
      <3>1. CASE pending' = pending
        BY <1>c, <3>1
      <3>2. CASE QueueCore0Response(Substitute(Taken))
        BY <1>e, <2>2, <3>2, SubstituteFields
      <3> QED BY <2>1, <3>1, <3>2
    <2> QED BY <2>1, <2>3 DEF RebootOK, ReleaseOK
  <1>8. CASE UNCHANGED <<pending, pendingReboot, answerQueued, claims>>
    BY <1>8 DEF RebootOK, ReleaseOK
  <1>9. CASE \/ ServiceNothing \/ ServiceFailed \/ RebootNothing \/ RebootFailed \/ MachineReset
             \/ HeartbeatReset \/ PublishNothing \/ PublishEntry \/ EntryDone \/ EntryFailed
             \/ Top \/ Recover \/ PollNothing \/ GateOpens \/ Core1Step \/ UNCHANGED vars
    <2>1. UNCHANGED <<pending, pendingReboot, answerQueued, claims>>
      BY <1>9 DEF ServiceNothing, ServiceFailed, RebootNothing, RebootFailed, MachineReset,
           HeartbeatReset, PublishNothing, PublishEntry, EntryDone, EntryFailed, Top, Recover,
           PollNothing, GateOpens, Core1Step, Core1TakeEvent, Core1Admit, Core1Shrink,
           Core1Refused, Core1MemoryError, Core1Stops, Core1Telemetry, vars, answers, ingress
    <2> QED BY <2>1, <1>8
  <1> QED BY <1>1, <1>2, <1>3, <1>4, <1>5, <1>6, <1>7, <1>9 DEF Next, Core0Step

\* At first no reboot is held.
LEMMA HeldInvInit == Init => HeldInv
  BY DEF Init, HeldInv, RebootOK, ReleaseOK, Release

\* HeldRebootReleasable: a reboot is held exactly while the answer that releases it is queued.
THEOREM HeldRebootIsReleasable == Spec => []HeldRebootReleasable
  <1>1. TypeInv /\ HeldInv => HeldRebootReleasable
    <2> SUFFICES ASSUME TypeInv, HeldInv
                 PROVE  HeldRebootReleasable
      OBVIOUS
    <2>1. pending \in Seq(AnswerType) /\ ToSet(pending) = {pending[i] : i \in 1..Len(pending)}
      BY DEF TypeInv, TypeOK, ToSet
    <2> QED BY <2>1 DEF HeldInv, ReleaseOK, Release, HeldRebootReleasable
  <1> QED BY <1>1, TypeInvInit, TypeInvNext, HeldInvInit, HeldInvNext, PTL DEF Spec

\* Each step keeps the acknowledgement before the reset.
LEMMA ResetNext ==
  ASSUME TypeInv, RebootOK, ResetAcknowledged, [Next]_vars
  PROVE  ResetAcknowledged'
  <1>1. CASE RebootAcknowledged
    <2>1. /\ pendingReboot # None /\ inFlight = None
          /\ received' = received \cup {Document(pendingReboot)}
          /\ acked' = acked \cup {pendingReboot.claim}
          /\ UNCHANGED <<claims, inFlight>>
      BY <1>1 DEF RebootAcknowledged, Puback, TypeInv, WaitOK, ingress, lane
    <2> DEFINE d == Document(pendingReboot)
    <2>2. /\ d \in received' /\ d.claim \in acked' /\ d.outcome = "success"
          /\ claims'[d.claim].kind = "reboot"
      BY <2>1 DEF Document, RebootOK
    <2> HIDE DEF d
    <2> QED BY <2>1, <2>2 DEF ResetAcknowledged
  <1>2. CASE MachineReset
    BY <1>2 DEF MachineReset, ResetAcknowledged, ingress, lane, broker
  <1>3. CASE Core1Step
    <2>1. UNCHANGED <<pc, inFlight, received, acked, claims>> /\ Running
      BY <1>3 DEF Core1Step, Core1TakeEvent, Core1Admit, Core1Shrink, Core1Refused,
         Core1MemoryError, Core1Stops, Core1Telemetry, loop, ingress, lane, broker
    <2> QED BY <2>1 DEF Running, ResetAcknowledged
  <1>4. CASE GateOpens \/ UNCHANGED vars
    BY <1>4 DEF GateOpens, vars, loop, ingress, core1Vars, lane, broker, ResetAcknowledged
  <1>5. CASE MessageInWait
    <2>1. pc \notin {"grace", "reset"} /\ pc' = pc
      BY <1>5 DEF MessageInWait, loop, TypeInv, TypeOK, WaitOK
    <2> QED BY <2>1 DEF ResetAcknowledged
  <1>6. CASE HeartbeatReset
    <2>1. pc' = "reset" /\ core1' = "stopped"
      BY <1>6 DEF HeartbeatReset, core1Vars
    <2> QED BY <2>1 DEF ResetAcknowledged
  <1>7. CASE \/ Top \/ Recover \/ PollMessage \/ PollNothing
             \/ ServiceNothing \/ ServicePublish \/ ServiceSubstitute \/ ServiceDone
             \/ ServiceFailed \/ RebootNothing \/ RebootPublish \/ RebootSubstitute \/ RebootFailed
             \/ PublishNothing \/ PublishEntry \/ DiscardEntry \/ EntryDone \/ EntryFailed
    <2>1. pc' \notin {"grace", "reset"}
      BY <1>7 DEF Top, Recover, PollMessage, PollNothing, ServiceNothing, ServicePublish,
         ServiceSubstitute, ServiceDone, ServiceFailed, RebootNothing, RebootPublish,
         RebootSubstitute, RebootFailed, PublishNothing, PublishEntry, DiscardEntry, EntryDone,
         EntryFailed, AfterReboot
    <2> QED BY <2>1 DEF ResetAcknowledged
  <1> QED BY <1>1, <1>2, <1>3, <1>4, <1>5, <1>6, <1>7 DEF Next, Core0Step

\* ResetAcknowledged: the board resets on command only after the PUBACK of the success, and
\* with no entry in flight.
THEOREM ResetIsAcknowledged == Spec => []ResetAcknowledged
  <1>1. Init => ResetAcknowledged
    BY DEF Init, ResetAcknowledged
  <1>2. TypeInv /\ HeldInv /\ ResetAcknowledged /\ [Next]_vars => ResetAcknowledged'
    BY ResetNext DEF HeldInv
  <1> QED BY <1>1, <1>2, TypeInvInit, TypeInvNext, HeldInvInit, HeldInvNext, PTL DEF Spec

-----------------------------------------------------------------------------
(* Every answer is in one container. *)

Containers == {"pending", "reboot", "events", "core1", "outbound", "inflight"}

OneOf(x) == IF x = None THEN <<>> ELSE <<x>>

\* The containers as sequences.  A held reboot is represented by its queued substitute.
Lines ==
    [c \in Containers |->
        IF c = "pending" THEN pending
        ELSE IF c = "reboot" THEN (IF answerQueued THEN <<>> ELSE OneOf(pendingReboot))
        ELSE IF c = "events" THEN events
        ELSE IF c = "core1" THEN OneOf(core1Pending)
        ELSE IF c = "outbound" THEN outbound
        ELSE OneOf(inFlight)]

LineTypes == [Containers -> Seq(AnswerType)]

\* Two answers, or an answer and a document, that claim to be the same.
Clash(a, b) == (a.claim # 0 /\ a.claim = b.claim) \/ (a.seq # None /\ a.seq = b.seq)

Distinct(L) ==
    \A c, d \in Containers : \A i \in 1..Len(L[c]), j \in 1..Len(L[d]) :
        Clash(L[c][i], L[d][j]) => c = d /\ i = j

\* No answer has this sequence yet.
Unused(L, q) == \A c \in Containers : \A i \in 1..Len(L[c]) : L[c][i].seq # q

\* x stands where r stood, with r's sequence, none, or a new one.
Derived(L, r, x) ==
    /\ x.claim = r.claim
    /\ x.seq \in {None, r.seq} \/ Unused(L, x.seq)

\* The four ways in which the containers change.
Moved(L, M, c, d, x) ==
    /\ c \in Containers /\ d \in Containers /\ c # d
    /\ L[c] # <<>> /\ M[c] = Tail(L[c]) /\ M[d] = Append(L[d], x)
    /\ \A e \in Containers \ {c, d} : M[e] = L[e]

Dropped1(L, M, c) ==
    /\ c \in Containers
    /\ L[c] # <<>> /\ M[c] = Tail(L[c])
    /\ \A e \in Containers \ {c} : M[e] = L[e]

Rewritten(L, M, c, x) ==
    /\ c \in Containers
    /\ L[c] # <<>> /\ M[c] = [L[c] EXCEPT ![1] = x]
    /\ \A e \in Containers \ {c} : M[e] = L[e]

Added(L, M, c, x) ==
    /\ c \in Containers
    /\ M[c] = Append(L[c], x)
    /\ \A e \in Containers \ {c} : M[e] = L[e]

\* An answer that moves on stays the only one of its claim and sequence.
LEMMA MovedDistinct ==
  ASSUME NEW L \in LineTypes, NEW M \in LineTypes, NEW c, NEW d, NEW x,
         Distinct(L), Moved(L, M, c, d, x), Derived(L, L[c][1], x)
  PROVE  Distinct(M)
  <1> DEFINE IsNew(e, i) == e = d /\ i = Len(L[d]) + 1
             Se(e, i) == IF IsNew(e, i) THEN c ELSE e
             Si(e, i) == IF IsNew(e, i) THEN 1 ELSE IF e = c THEN i + 1 ELSE i
  <1>1. /\ c \in Containers /\ d \in Containers /\ c # d
        /\ \A e \in Containers : L[e] \in Seq(AnswerType) /\ Len(L[e]) \in Nat
        /\ Len(L[c]) >= 1 /\ Len(M[c]) = Len(L[c]) - 1 /\ Len(M[d]) = Len(L[d]) + 1
        /\ \A i \in 1..Len(M[c]) : M[c][i] = L[c][i + 1]
        /\ \A i \in 1..Len(L[d]) : M[d][i] = L[d][i]
        /\ M[d][Len(L[d]) + 1] = x
        /\ \A e \in Containers \ {c, d} : M[e] = L[e]
    <2>1. \A e \in Containers : L[e] \in Seq(AnswerType)
      BY DEF LineTypes
    <2> QED BY <2>1 DEF Moved
  <1>2. ASSUME NEW e \in Containers, NEW i \in 1..Len(M[e])
        PROVE  /\ Se(e, i) \in Containers /\ Si(e, i) \in 1..Len(L[Se(e, i)])
               /\ IsNew(e, i) => M[e][i] = x
               /\ ~ IsNew(e, i) => M[e][i] = L[Se(e, i)][Si(e, i)]
    <2>1. CASE e = c
      BY <1>1, <2>1
    <2>2. CASE e = d /\ i = Len(L[d]) + 1
      BY <1>1, <2>2
    <2>3. CASE e = d /\ i # Len(L[d]) + 1
      <3>1. i \in 1..Len(L[d])
        BY <1>1, <2>3
      <3> QED BY <1>1, <2>3, <3>1
    <2>4. CASE e \notin {c, d}
      BY <1>1, <2>4
    <2> QED BY <2>1, <2>2, <2>3, <2>4
  <1>3. ASSUME NEW e \in Containers, NEW i \in 1..Len(M[e]),
               NEW f \in Containers, NEW j \in 1..Len(M[f]),
               Se(e, i) = Se(f, j), Si(e, i) = Si(f, j)
        PROVE  e = f /\ i = j
    <2>1. i \in Nat \ {0} /\ j \in Nat \ {0}
      OBVIOUS
    <2>2. CASE IsNew(e, i) /\ IsNew(f, j)
      BY <2>2
    <2>3. CASE IsNew(e, i) /\ ~ IsNew(f, j)
      BY <1>1, <1>3, <2>1, <2>3
    <2>4. CASE ~ IsNew(e, i) /\ IsNew(f, j)
      BY <1>1, <1>3, <2>1, <2>4
    <2>5. CASE ~ IsNew(e, i) /\ ~ IsNew(f, j)
      BY <1>3, <2>1, <2>5
    <2> QED BY <2>2, <2>3, <2>4, <2>5
  <1> SUFFICES ASSUME NEW e \in Containers, NEW i \in 1..Len(M[e]),
                      NEW f \in Containers, NEW j \in 1..Len(M[f]),
                      Clash(M[e][i], M[f][j])
               PROVE  e = f /\ i = j
    BY DEF Distinct
  <1>4. CASE IsNew(e, i) /\ IsNew(f, j)
    BY <1>4
  <1>5. CASE ~ IsNew(e, i) /\ ~ IsNew(f, j)
    <2> HIDE DEF IsNew, Se, Si
    <2>1. /\ Se(e, i) \in Containers /\ Si(e, i) \in 1..Len(L[Se(e, i)])
          /\ Se(f, j) \in Containers /\ Si(f, j) \in 1..Len(L[Se(f, j)])
          /\ M[e][i] = L[Se(e, i)][Si(e, i)] /\ M[f][j] = L[Se(f, j)][Si(f, j)]
      BY <1>2, <1>5
    <2>2. Clash(L[Se(e, i)][Si(e, i)], L[Se(f, j)][Si(f, j)])
      BY <2>1
    <2>3. Se(e, i) = Se(f, j) /\ Si(e, i) = Si(f, j)
      BY <2>1, <2>2 DEF Distinct
    <2> QED BY <2>3, <1>3
  <1>6. ASSUME NEW a \in Containers, NEW k \in 1..Len(M[a]), NEW b \in Containers,
               NEW l \in 1..Len(M[b]), IsNew(a, k), ~ IsNew(b, l),
               Clash(M[a][k], M[b][l]) \/ Clash(M[b][l], M[a][k])
        PROVE  FALSE
    <2> DEFINE y == L[Se(b, l)][Si(b, l)]
    <2>1. M[a][k] = x /\ M[b][l] = y /\ Se(a, k) = c /\ Si(a, k) = 1
      BY <1>2, <1>6
    <2>2. Se(b, l) \in Containers /\ Si(b, l) \in 1..Len(L[Se(b, l)])
      BY <1>2
    <2>3. y.seq # x.seq \/ x.seq = None \/ x.seq = L[c][1].seq
      BY <2>2 DEF Derived, Unused
    <2>4. Clash(L[c][1], y)
      <3> HIDE DEF y
      <3> QED BY <1>6, <2>1, <2>3 DEF Clash, Derived
    <2>5. c = Se(b, l) /\ 1 = Si(b, l)
      BY <2>2, <2>4, <1>1 DEF Distinct
    <2>6. a = b /\ k = l
      BY <2>1, <2>5, <1>3
    <2> QED BY <2>6, <1>6
  <1> QED BY <1>4, <1>5, <1>6

\* An answer that leaves makes room for no other.
LEMMA DroppedDistinct ==
  ASSUME NEW L \in LineTypes, NEW M \in LineTypes, NEW c, Distinct(L), Dropped1(L, M, c)
  PROVE  Distinct(M)
  <1> DEFINE Si(e, i) == IF e = c THEN i + 1 ELSE i
  <1>1. /\ c \in Containers
        /\ Len(L[c]) \in Nat /\ Len(L[c]) >= 1 /\ Len(M[c]) = Len(L[c]) - 1
        /\ \A i \in 1..Len(M[c]) : M[c][i] = L[c][i + 1]
        /\ \A e \in Containers \ {c} : M[e] = L[e]
    <2>1. \A e \in Containers : L[e] \in Seq(AnswerType)
      BY DEF LineTypes
    <2> QED BY <2>1 DEF Dropped1
  <1>2. ASSUME NEW e \in Containers, NEW i \in 1..Len(M[e])
        PROVE  Si(e, i) \in 1..Len(L[e]) /\ M[e][i] = L[e][Si(e, i)]
    BY <1>1
  <1> SUFFICES ASSUME NEW e \in Containers, NEW i \in 1..Len(M[e]),
                      NEW f \in Containers, NEW j \in 1..Len(M[f]),
                      Clash(M[e][i], M[f][j])
               PROVE  e = f /\ i = j
    BY DEF Distinct
  <1>3. Clash(L[e][Si(e, i)], L[f][Si(f, j)])
    BY <1>2
  <1>4. e = f /\ Si(e, i) = Si(f, j)
    BY <1>2, <1>3 DEF Distinct
  <1> QED BY <1>4

\* Nor does one that is rewritten in place.
LEMMA RewrittenDistinct ==
  ASSUME NEW L \in LineTypes, NEW M \in LineTypes, NEW c, NEW x,
         Distinct(L), Rewritten(L, M, c, x), Derived(L, L[c][1], x)
  PROVE  Distinct(M)
  <1>1. /\ c \in Containers
        /\ Len(L[c]) \in Nat /\ Len(L[c]) >= 1 /\ Len(M[c]) = Len(L[c])
        /\ M[c][1] = x
        /\ \A i \in 1..Len(M[c]) : i # 1 => M[c][i] = L[c][i]
        /\ \A e \in Containers \ {c} : M[e] = L[e]
    <2>1. \A e \in Containers : L[e] \in Seq(AnswerType)
      BY DEF LineTypes
    <2> QED BY <2>1 DEF Rewritten
  <1>2. ASSUME NEW e \in Containers, NEW i \in 1..Len(M[e])
        PROVE  /\ i \in 1..Len(L[e])
               /\ ~ (e = c /\ i = 1) => M[e][i] = L[e][i]
    BY <1>1
  <1>3. ASSUME NEW b \in Containers, NEW l \in 1..Len(M[b]), ~ (b = c /\ l = 1),
               Clash(x, M[b][l]) \/ Clash(M[b][l], x)
        PROVE  FALSE
    <2>1. l \in 1..Len(L[b]) /\ M[b][l] = L[b][l]
      BY <1>2, <1>3
    <2>2. L[b][l].seq # x.seq \/ x.seq = None \/ x.seq = L[c][1].seq
      BY <2>1 DEF Derived, Unused
    <2>3. Clash(L[c][1], L[b][l])
      BY <1>3, <2>1, <2>2 DEF Clash, Derived
    <2> QED BY <2>1, <2>3, <1>1, <1>3 DEF Distinct
  <1> SUFFICES ASSUME NEW e \in Containers, NEW i \in 1..Len(M[e]),
                      NEW f \in Containers, NEW j \in 1..Len(M[f]),
                      Clash(M[e][i], M[f][j])
               PROVE  e = f /\ i = j
    BY DEF Distinct
  <1>4. CASE ~ (e = c /\ i = 1) /\ ~ (f = c /\ j = 1)
    BY <1>2, <1>4 DEF Distinct
  <1> QED BY <1>1, <1>3, <1>4

\* A new answer with a new claim, or telemetry, joins without a clash.
LEMMA AddedDistinct ==
  ASSUME NEW L \in LineTypes, NEW M \in LineTypes, NEW c, NEW x,
         Distinct(L), Added(L, M, c, x), x.seq = None,
         \A e \in Containers : \A i \in 1..Len(L[e]) : x.claim = 0 \/ L[e][i].claim # x.claim
  PROVE  Distinct(M)
  <1> DEFINE IsNew(e, i) == e = c /\ i = Len(L[c]) + 1
  <1>1. /\ c \in Containers
        /\ Len(L[c]) \in Nat /\ Len(M[c]) = Len(L[c]) + 1
        /\ M[c][Len(L[c]) + 1] = x
        /\ \A i \in 1..Len(L[c]) : M[c][i] = L[c][i]
        /\ \A e \in Containers \ {c} : M[e] = L[e]
    <2>1. \A e \in Containers : L[e] \in Seq(AnswerType)
      BY DEF LineTypes
    <2> QED BY <2>1 DEF Added
  <1>2. ASSUME NEW e \in Containers, NEW i \in 1..Len(M[e])
        PROVE  /\ IsNew(e, i) => M[e][i] = x
               /\ ~ IsNew(e, i) => i \in 1..Len(L[e]) /\ M[e][i] = L[e][i]
    <2>1. CASE e = c
      <3>1. i = Len(L[c]) + 1 \/ i \in 1..Len(L[c])
        BY <1>1, <2>1
      <3> QED BY <1>1, <2>1, <3>1
    <2>2. CASE e # c
      BY <1>1, <2>2
    <2> QED BY <2>1, <2>2
  <1>3. ASSUME NEW b \in Containers, NEW l \in 1..Len(M[b]), ~ IsNew(b, l),
               Clash(x, M[b][l]) \/ Clash(M[b][l], x)
        PROVE  FALSE
    <2>1. l \in 1..Len(L[b]) /\ M[b][l] = L[b][l]
      BY <1>2, <1>3
    <2> QED BY <1>3, <2>1 DEF Clash
  <1> SUFFICES ASSUME NEW e \in Containers, NEW i \in 1..Len(M[e]),
                      NEW f \in Containers, NEW j \in 1..Len(M[f]),
                      Clash(M[e][i], M[f][j])
               PROVE  e = f /\ i = j
    BY DEF Distinct
  <1>4. CASE ~ IsNew(e, i) /\ ~ IsNew(f, j)
    BY <1>2, <1>4 DEF Distinct
  <1>5. CASE IsNew(e, i) /\ ~ IsNew(f, j)
    BY <1>2, <1>3, <1>5
  <1>6. CASE ~ IsNew(e, i) /\ IsNew(f, j)
    BY <1>2, <1>3, <1>6
  <1> QED BY <1>4, <1>5, <1>6

\* What an answer may be in each container: n claims, and q sequences claimed so far.
EntryAt(c, r, n, q) ==
    /\ r.claim \in 0..n
    /\ r.outcome = "telemetry" <=> r.claim = 0
    /\ c \notin {"outbound", "inflight"} => r.claim # 0
    /\ c \in {"events", "core1", "outbound"} => r.seq = None
    /\ r.seq # None => r.seq \in Nat /\ r.seq < q
    /\ c \in {"pending", "reboot"} /\ r.fate = "ok" /\ r.seq # None => r.stamp # None

Entries ==
    \A c \in Containers : \A i \in 1..Len(Lines[c]) :
        EntryAt(c, Lines[c][i], Len(claims), nextSeq)

\* What a step may make of an answer r of container c when it stands as x in d next: its
\* document stays the same if it may have been sent.
LaneContainers == {"events", "core1", "outbound", "inflight"}

Derives(c, d, r, x) ==
    /\ x.claim = r.claim
    /\ x.seq \in {None, r.seq} \/ (x.seq = nextSeq /\ nextSeq' = nextSeq + 1)
    /\ r.seq # None /\ r.fate = "ok" =>
         x.seq = r.seq /\ x.fate = r.fate /\ Document(x) = Document(r)
    /\ EntryAt(d, x, Len(claims), nextSeq')
    /\ d \in LaneContainers => c \in LaneContainers /\ x.fate \in {r.fate, "ok"}
    /\ d \in {"outbound", "inflight"} => x.fate \in {"ok", "spliced"}

\* The kinds of steps, told by what they do to the answers and to the broker.
Quiet ==
    Lines' = Lines /\ UNCHANGED <<claims, received, acked, nextSeq>>

SilentClaim ==
    /\ Lines' = Lines /\ UNCHANGED <<received, acked, nextSeq>>
    /\ \E c \in Commands : /\ claims' = Append(claims, c)
                           /\ c.kind = "write-config" /\ c.broadcast

NewAnswer(d, x) ==
    /\ Added(Lines, Lines', d, x) /\ UNCHANGED <<received, acked, nextSeq>>
    /\ d \in {"pending", "reboot", "events"} /\ Fresh(x, Len(claims) + 1)
    /\ \E c \in Commands : /\ claims' = Append(claims, c)
                           /\ d = "events" => c.kind = "get-details" /\ x.fate = c.fate

NewTelemetry(x) ==
    /\ Added(Lines, Lines', "outbound", x) /\ UNCHANGED <<claims, received, acked, nextSeq>>
    /\ x.claim = 0 /\ x.outcome = "telemetry" /\ x.seq = None /\ x.fate \in {"ok", "spliced"}

Moves(c, d, x) ==
    /\ Moved(Lines, Lines', c, d, x) /\ UNCHANGED <<claims, received, acked>>
    /\ nextSeq' \in {nextSeq, nextSeq + 1}
    /\ Derives(c, d, Lines[c][1], x)

Rewrites(c, x) ==
    /\ Rewritten(Lines, Lines', c, x) /\ UNCHANGED <<claims, received, acked>>
    /\ nextSeq' \in {nextSeq, nextSeq + 1}
    /\ Derives(c, c, Lines[c][1], x)

Sent(c) ==
    /\ c \in Containers /\ Lines[c] # <<>>
    /\ Lines[c][1].fate = "ok" /\ Lines[c][1].seq # None
    /\ received' = received \cup {Document(Lines[c][1])}
    /\ UNCHANGED <<claims, nextSeq>>

Acknowledged(c) ==
    Sent(c) /\ Dropped1(Lines, Lines', c) /\ acked' = acked \cup {Lines[c][1].claim}

Ambiguous(c) ==
    Sent(c) /\ Lines' = Lines /\ acked' = acked

\* Telemetry is dropped, Core 1 stops, or the substitute of an entry finds no slot.
Loses(c) ==
    /\ Dropped1(Lines, Lines', c) /\ UNCHANGED <<claims, received, acked>>
    /\ nextSeq' \in {nextSeq, nextSeq + 1}
    /\ \/ Lines[c][1].claim = 0
       \/ core1' = "stopped"
       \/ c \in {"outbound", "inflight"} /\ Lines[c][1].fate # "ok"

Kinds ==
    \/ Quiet \/ SilentClaim
    \/ \E d, x : NewAnswer(d, x)
    \/ \E x : NewTelemetry(x)
    \/ \E c, d, x : Moves(c, d, x)
    \/ \E c, x : Rewrites(c, x)
    \/ \E c : Acknowledged(c)
    \/ \E c : Ambiguous(c)
    \/ \E c : Loses(c)

\* The containers one by one.
LEMMA LinesAt ==
  /\ Lines["pending"] = pending /\ Lines'["pending"] = pending'
  /\ Lines["reboot"] = (IF answerQueued THEN <<>> ELSE OneOf(pendingReboot))
  /\ Lines'["reboot"] = (IF answerQueued' THEN <<>> ELSE OneOf(pendingReboot'))
  /\ Lines["events"] = events /\ Lines'["events"] = events'
  /\ Lines["core1"] = OneOf(core1Pending) /\ Lines'["core1"] = OneOf(core1Pending')
  /\ Lines["outbound"] = outbound /\ Lines'["outbound"] = outbound'
  /\ Lines["inflight"] = OneOf(inFlight) /\ Lines'["inflight"] = OneOf(inFlight')
  BY DEF Lines, Containers, OneOf

\* They hold answers.
LEMMA LinesTyped == TypeInv => Lines \in LineTypes
  <1> SUFFICES ASSUME TypeInv, NEW c \in Containers
               PROVE  Lines[c] \in Seq(AnswerType)
    BY DEF Lines, LineTypes
  <1>1. /\ pending \in Seq(AnswerType) /\ events \in Seq(AnswerType)
        /\ outbound \in Seq(AnswerType)
        /\ pendingReboot \in AnswerType \cup {None}
        /\ core1Pending \in AnswerType \cup {None} /\ inFlight \in AnswerType \cup {None}
    BY DEF TypeInv, TypeOK
  <1>2. \A x \in AnswerType \cup {None} : OneOf(x) \in Seq(AnswerType)
    BY DEF OneOf
  <1>3. (IF answerQueued THEN <<>> ELSE OneOf(pendingReboot)) \in Seq(AnswerType)
    <2>1. CASE answerQueued
      BY <2>1
    <2>2. CASE ~ answerQueued
      BY <1>1, <1>2, <2>2
    <2> QED BY <2>1, <2>2
  <1> QED BY <1>1, <1>2, <1>3, LinesAt DEF Containers

\* And they do after a step.
LEMMA LinesTypedNext ==
  ASSUME TypeInv, TypeInv'
  PROVE  Lines \in LineTypes /\ Lines' \in LineTypes
  <1>1. Lines \in LineTypes
    BY LinesTyped
  <1>2. (Lines \in LineTypes)'
    BY LinesTyped, PTL
  <1> QED BY <1>1, <1>2 DEF LineTypes, Containers, AnswerType, Outcomes, Fates

\* What does not touch a container is quiet.
LEMMA QuietStep ==
  ASSUME UNCHANGED <<pending, pendingReboot, answerQueued, events, core1Pending, outbound,
                     inFlight, claims, received, acked, nextSeq>>
  PROVE  Quiet
  BY DEF Quiet, Lines

\* One answer, alone in its container.
LEMMA OneOfFacts ==
  ASSUME NEW x \in AnswerType
  PROVE  OneOf(x) = <<x>> /\ OneOf(x) # <<>> /\ OneOf(x)[1] = x /\ Len(OneOf(x)) = 1
         /\ Tail(OneOf(x)) = OneOf(None) /\ OneOf(None) = <<>>
         /\ Append(OneOf(None), x) = OneOf(x)
         /\ \A y \in AnswerType : [OneOf(x) EXCEPT ![1] = y] = OneOf(y)
  <1>1. x # None /\ \A y \in AnswerType : y # None
    BY CommandAssumption
  <1> QED BY <1>1 DEF OneOf

\* A failed attempt: the broker has the document or it has not.
LEMMA FailedKinds ==
  ASSUME NEW c \in Containers, Lines[c] # <<>>, Lines[c][1].fate = "ok",
         Lines[c][1].seq # None, Lines' = Lines, UNCHANGED <<claims, acked, nextSeq>>,
         received' \in {received, received \cup {Document(Lines[c][1])}}
  PROVE  Kinds
  <1>1. CASE received' = received
    BY <1>1 DEF Kinds, Quiet
  <1>2. CASE received' = received \cup {Document(Lines[c][1])}
    <2>1. Ambiguous(c)
      BY <1>2 DEF Ambiguous, Sent
    <2> QED BY <2>1 DEF Kinds
  <1> QED BY <1>1, <1>2

\* Every step is of one of these kinds.
LEMMA StepKinds ==
  ASSUME TypeInv, HeldInv, Entries, [Next]_vars
  PROVE  Kinds
  <1> USE CommandAssumption
  <1>a. /\ nextSeq \in Nat /\ fails \in Nat
        /\ pending \in Seq(AnswerType) /\ events \in Seq(AnswerType)
        /\ outbound \in Seq(AnswerType) /\ answerQueued \in BOOLEAN
        /\ pendingReboot \in AnswerType \cup {None} /\ inFlight \in AnswerType \cup {None}
        /\ core1Pending \in AnswerType \cup {None}
        /\ Len(claims) \in Nat
    BY DEF TypeInv, TypeOK, CountsOK
  <1>b. pending # <<>> => /\ pending[1] \in AnswerType /\ Head(pending) = pending[1]
                          /\ 1 \in 1..Len(pending)
                          /\ EntryAt("pending", pending[1], Len(claims), nextSeq)
    <2> SUFFICES ASSUME pending # <<>>
                 PROVE  /\ pending[1] \in AnswerType /\ Head(pending) = pending[1]
                        /\ 1 \in 1..Len(pending)
                        /\ EntryAt("pending", pending[1], Len(claims), nextSeq)
      OBVIOUS
    <2>1. pending[1] \in AnswerType /\ Head(pending) = pending[1] /\ 1 \in 1..Len(pending)
      BY <1>a
    <2> QED BY <2>1, LinesAt DEF Entries, Containers
  <1>c. pendingReboot # None /\ ~ answerQueued =>
          /\ pendingReboot \in AnswerType
          /\ Lines["reboot"] = OneOf(pendingReboot)
          /\ EntryAt("reboot", pendingReboot, Len(claims), nextSeq)
    <2> SUFFICES ASSUME pendingReboot # None, ~ answerQueued
                 PROVE  /\ pendingReboot \in AnswerType
                        /\ Lines["reboot"] = OneOf(pendingReboot)
                        /\ EntryAt("reboot", pendingReboot, Len(claims), nextSeq)
      OBVIOUS
    <2>1. pendingReboot \in AnswerType /\ Lines["reboot"] = OneOf(pendingReboot)
      BY <1>a, LinesAt
    <2>2. Len(Lines["reboot"]) = 1 /\ Lines["reboot"][1] = pendingReboot
      <3>1. \A x \in AnswerType : Len(OneOf(x)) = 1 /\ OneOf(x)[1] = x
        BY OneOfFacts
      <3> QED BY <2>1, <3>1
    <2>3. "reboot" \in Containers /\ 1 \in 1..Len(Lines["reboot"])
      BY <2>2 DEF Containers
    <2>4. EntryAt("reboot", Lines["reboot"][1], Len(claims), nextSeq)
      BY <2>3 DEF Entries
    <2> QED BY <2>1, <2>2, <2>4
  <1>d. inFlight # None =>
          /\ inFlight \in AnswerType /\ EntryAt("inflight", inFlight, Len(claims), nextSeq)
    <2> SUFFICES ASSUME inFlight # None
                 PROVE  /\ inFlight \in AnswerType
                        /\ EntryAt("inflight", inFlight, Len(claims), nextSeq)
      OBVIOUS
    <2>1. inFlight \in AnswerType
      BY <1>a
    <2>2. Len(Lines["inflight"]) = 1 /\ Lines["inflight"][1] = inFlight
      <3>1. \A x \in AnswerType : Len(OneOf(x)) = 1 /\ OneOf(x)[1] = x
        BY OneOfFacts
      <3> QED BY <2>1, <3>1, LinesAt
    <2>3. "inflight" \in Containers /\ 1 \in 1..Len(Lines["inflight"])
      BY <2>2 DEF Containers
    <2>4. EntryAt("inflight", Lines["inflight"][1], Len(claims), nextSeq)
      BY <2>3 DEF Entries
    <2> QED BY <2>1, <2>2, <2>4
  <1>e. core1Pending # None =>
          /\ core1Pending \in AnswerType /\ EntryAt("core1", core1Pending, Len(claims), nextSeq)
    <2> SUFFICES ASSUME core1Pending # None
                 PROVE  /\ core1Pending \in AnswerType
                        /\ EntryAt("core1", core1Pending, Len(claims), nextSeq)
      OBVIOUS
    <2>1. core1Pending \in AnswerType
      BY <1>a
    <2>2. Len(Lines["core1"]) = 1 /\ Lines["core1"][1] = core1Pending
      BY <2>1, OneOfFacts, LinesAt
    <2> QED BY <2>1, <2>2 DEF Entries, Containers
  <1>f. outbound # <<>> => /\ outbound[1] \in AnswerType /\ Head(outbound) = outbound[1]
                           /\ EntryAt("outbound", outbound[1], Len(claims), nextSeq)
    <2> SUFFICES ASSUME outbound # <<>>
                 PROVE  /\ outbound[1] \in AnswerType /\ Head(outbound) = outbound[1]
                        /\ EntryAt("outbound", outbound[1], Len(claims), nextSeq)
      OBVIOUS
    <2>1. outbound[1] \in AnswerType /\ Head(outbound) = outbound[1] /\ 1 \in 1..Len(outbound)
      BY <1>a
    <2> QED BY <2>1, LinesAt DEF Entries, Containers
  <1>g. events # <<>> => /\ events[1] \in AnswerType /\ Head(events) = events[1]
                         /\ EntryAt("events", events[1], Len(claims), nextSeq)
    <2> SUFFICES ASSUME events # <<>>
                 PROVE  /\ events[1] \in AnswerType /\ Head(events) = events[1]
                        /\ EntryAt("events", events[1], Len(claims), nextSeq)
      OBVIOUS
    <2>1. events[1] \in AnswerType /\ Head(events) = events[1] /\ 1 \in 1..Len(events)
      BY <1>a
    <2> QED BY <2>1, LinesAt DEF Entries, Containers
  <1>h. \A r \in AnswerType : r.seq # None => r.seq \in Nat
    BY DEF AnswerType
  <1>i. ASSUME PublishDue
        PROVE  /\ Taken \in AnswerType
               /\ inFlight # None => Taken = inFlight /\ Untaken = outbound
               /\ inFlight = None => /\ outbound # <<>> /\ Taken = outbound[1]
                                     /\ Untaken = Tail(outbound)
    BY <1>a, <1>i, <1>d, <1>f DEF PublishDue, Taken, Untaken
  <1>1. CASE MessageInWait \/ PollMessage
    <2>1. PICK c \in Commands : OnMqttMessage(c)
      BY <1>1 DEF MessageInWait, PollMessage
    <2>2. UNCHANGED <<nextSeq, core1Pending, outbound, inFlight, received, acked>>
      BY <2>1, MessageEffect DEF core1Vars, lane, broker
    <2>3. CASE UNCHANGED <<pending, pendingReboot, answerQueued, recent, events, claims>>
      BY <2>2, <2>3, QuietStep DEF Kinds
    <2>4. CASE Claim(c)
      <3>1. c \in Commands /\ claims' = Append(claims, c)
        BY <2>4 DEF Claim
      <3>2. CASE /\ UNCHANGED <<pending, pendingReboot, answerQueued, events>>
                 /\ c.kind = "write-config" /\ c.broadcast
        <4>1. Lines' = Lines
          BY <2>2, <3>2 DEF Lines
        <4>2. SilentClaim
          BY <2>2, <3>1, <3>2, <4>1 DEF SilentClaim
        <4> QED BY <4>2 DEF Kinds
      <3>3. ASSUME NEW x, Fresh(x, Len(claims) + 1), pending' = Append(pending, x),
                   UNCHANGED <<pendingReboot, answerQueued, events>>
            PROVE  Kinds
        <4>1. Added(Lines, Lines', "pending", x)
          BY <2>2, <3>3, LinesAt DEF Added, Containers
        <4>2. NewAnswer("pending", x)
          BY <2>2, <3>1, <3>3, <4>1 DEF NewAnswer
        <4> QED BY <4>2 DEF Kinds
      <3>4. ASSUME NEW x, Fresh(x, Len(claims) + 1),
                   pendingReboot = None, pendingReboot' = x, answerQueued' = FALSE,
                   UNCHANGED <<pending, events>>
            PROVE  Kinds
        <4>1. ~ answerQueued /\ x \in AnswerType
          BY <3>4 DEF HeldInv, ReleaseOK, Release, Fresh
        <4>2. Lines["reboot"] = OneOf(None) /\ Lines'["reboot"] = OneOf(x)
          BY <3>4, <4>1, LinesAt
        <4>3. Lines'["reboot"] = Append(Lines["reboot"], x)
          BY <4>1, <4>2, OneOfFacts
        <4>4. Added(Lines, Lines', "reboot", x)
          BY <2>2, <3>4, <4>3, LinesAt DEF Added, Containers
        <4>5. NewAnswer("reboot", x)
          BY <2>2, <3>1, <3>4, <4>4 DEF NewAnswer
        <4> QED BY <4>5 DEF Kinds
      <3>5. ASSUME NEW x, Fresh(x, Len(claims) + 1), c.kind = "get-details", x.fate = c.fate,
                   events' = Append(events, x),
                   UNCHANGED <<pending, pendingReboot, answerQueued>>
            PROVE  Kinds
        <4>1. Added(Lines, Lines', "events", x)
          BY <2>2, <3>5, LinesAt DEF Added, Containers
        <4>2. NewAnswer("events", x)
          BY <2>2, <3>1, <3>5, <4>1 DEF NewAnswer
        <4> QED BY <4>2 DEF Kinds
      <3> QED BY <2>4, <3>2, <3>3, <3>4, <3>5 DEF Claim
    <2> QED BY <2>1, <2>3, <2>4, MessageEffect
  <1>2. CASE ServicePublish
    <2> DEFINE r == pending[1]
               x == Stamped(r)
    <2>1. /\ pending # <<>> /\ r.fate = "ok" /\ pending' = [pending EXCEPT ![1] = x]
          /\ nextSeq' = SeqAfter(r)
          /\ UNCHANGED <<pendingReboot, answerQueued, claims, received, acked>>
          /\ UNCHANGED <<events, core1Pending, outbound, inFlight>>
      BY <1>2, <1>b DEF ServicePublish, ServiceDue, ingress, core1Vars, lane, broker
    <2>2. r \in AnswerType /\ EntryAt("pending", r, Len(claims), nextSeq)
      BY <2>1, <1>b
    <2>3. /\ x.claim = r.claim /\ x.outcome = r.outcome /\ x.fate = r.fate
          /\ x.seq = (IF r.seq = None THEN nextSeq ELSE r.seq)
          /\ x.stamp = (IF r.stamp = None THEN fails ELSE r.stamp)
      BY <2>2, <1>a, StampedFields
    <2> HIDE DEF x, r
    <2>4. nextSeq' = (IF r.seq = None THEN nextSeq + 1 ELSE nextSeq)
      BY <2>1 DEF SeqAfter
    <2>5. Derives("pending", "pending", r, x)
      <3>1. EntryAt("pending", x, Len(claims), nextSeq')
        BY <2>2, <2>3, <2>4, <1>a DEF EntryAt
      <3>2. r.seq # None => Document(x) = Document(r)
        BY <2>1, <2>2, <2>3 DEF EntryAt, Document
      <3> QED BY <2>1, <2>3, <2>4, <3>1, <3>2 DEF Derives, LaneContainers
    <2>6. Rewritten(Lines, Lines', "pending", x)
      BY <2>1, LinesAt DEF Rewritten, Containers
    <2>7. Rewrites("pending", x)
      BY <2>1, <2>4, <2>5, <2>6, LinesAt DEF Rewrites, r
    <2> QED BY <2>7 DEF Kinds
  <1>3. CASE ServiceSubstitute
    <2> DEFINE r == pending[1]
               x == Substitute(r)
    <2>1. /\ pending # <<>> /\ r.fate # "ok" /\ pending' = [pending EXCEPT ![1] = x]
          /\ nextSeq' = SeqAfter(r)
          /\ UNCHANGED <<pendingReboot, answerQueued, claims, received, acked>>
          /\ UNCHANGED <<events, core1Pending, outbound, inFlight>>
      BY <1>3, <1>b DEF ServiceSubstitute, ServiceDue, ingress, core1Vars, lane, broker
    <2>2. r \in AnswerType /\ EntryAt("pending", r, Len(claims), nextSeq)
      BY <2>1, <1>b
    <2>3. x.claim = r.claim /\ x.outcome = "substitute" /\ x.fate = "ok" /\ x.seq = None
      BY <2>2, SubstituteFields
    <2> HIDE DEF x, r
    <2>4. nextSeq' \in {nextSeq, nextSeq + 1}
      BY <2>1 DEF SeqAfter
    <2>5. Derives("pending", "pending", r, x)
      <3>1. EntryAt("pending", x, Len(claims), nextSeq')
        BY <2>2, <2>3 DEF EntryAt
      <3> QED BY <2>1, <2>3, <3>1 DEF Derives, LaneContainers
    <2>6. Rewritten(Lines, Lines', "pending", x)
      BY <2>1, LinesAt DEF Rewritten, Containers
    <2>7. Rewrites("pending", x)
      BY <2>1, <2>4, <2>5, <2>6, LinesAt DEF Rewrites, r
    <2> QED BY <2>7 DEF Kinds
  <1>4. CASE ServiceDone
    <2> DEFINE r == pending[1]
    <2>1. pending # <<>> /\ r.fate = "ok" /\ r.seq # None
      BY <1>4 DEF ServiceDone, TypeInv, WaitOK
    <2>2. /\ pending' = Tail(pending) /\ received' = received \cup {Document(r)}
          /\ acked' = acked \cup {r.claim}
          /\ pendingReboot' = IF r.clears THEN None ELSE pendingReboot
          /\ answerQueued' = IF r.clears THEN FALSE ELSE answerQueued
          /\ UNCHANGED <<claims, nextSeq, events, core1Pending, outbound, inFlight>>
      BY <1>4, <1>b, <2>1 DEF ServiceDone, Puback, ingress, core1Vars, lane
    <2>3. Lines'["reboot"] = Lines["reboot"]
      <3>1. CASE r.clears
        <4>1. answerQueued
          BY <1>b, <2>1, <3>1 DEF HeldInv, ReleaseOK, Release
        <4>2. ~ answerQueued' /\ pendingReboot' = None
          BY <2>2, <3>1
        <4> QED BY <4>1, <4>2, LinesAt DEF OneOf
      <3>2. CASE ~ r.clears
        BY <2>2, <3>2, LinesAt
      <3> QED BY <3>1, <3>2
    <2> HIDE DEF r
    <2>4. Dropped1(Lines, Lines', "pending")
      BY <2>1, <2>2, <2>3, LinesAt DEF Dropped1, Containers
    <2>5. Acknowledged("pending")
      BY <2>1, <2>2, <2>4, LinesAt DEF Acknowledged, Sent, Containers, r
    <2> QED BY <2>5 DEF Kinds
  <1>5. CASE ServiceFailed
    <2>1. /\ pending # <<>> /\ pending[1].fate = "ok" /\ pending[1].seq # None
          /\ received' \in {received, received \cup {Document(pending[1])}}
          /\ UNCHANGED <<pending, pendingReboot, answerQueued, events, core1Pending, outbound,
                         inFlight, claims, acked, nextSeq>>
      BY <1>5, <1>b DEF ServiceFailed, PublishFails, TypeInv, WaitOK, answers, ingress,
                        core1Vars, lane
    <2>2. Lines' = Lines
      BY <2>1 DEF Lines
    <2>3. Lines["pending"] = pending /\ "pending" \in Containers
      BY LinesAt DEF Containers
    <2> QED BY <2>1, <2>2, <2>3, FailedKinds
  <1>6. CASE RebootPublish
    <2> DEFINE r == pendingReboot
               x == Stamped(r)
    <2>1. /\ r # None /\ ~ answerQueued /\ r.fate = "ok" /\ pendingReboot' = x
          /\ nextSeq' = SeqAfter(r)
          /\ UNCHANGED <<pending, answerQueued, claims, received, acked>>
          /\ UNCHANGED <<events, core1Pending, outbound, inFlight>>
      BY <1>6, <1>a DEF RebootPublish, RebootDue, ingress, core1Vars, lane, broker
    <2>2. r \in AnswerType /\ EntryAt("reboot", r, Len(claims), nextSeq)
          /\ Lines["reboot"] = OneOf(r)
      BY <2>1, <1>c
    <2>3. /\ x.claim = r.claim /\ x.outcome = r.outcome /\ x.fate = r.fate
          /\ x.seq = (IF r.seq = None THEN nextSeq ELSE r.seq)
          /\ x.stamp = (IF r.stamp = None THEN fails ELSE r.stamp) /\ x \in AnswerType
      BY <2>2, <1>a, StampedFields
    <2>a. Lines'["reboot"] = OneOf(x)
      BY <2>1, LinesAt
    <2> HIDE DEF x, r
    <2>4. nextSeq' = (IF r.seq = None THEN nextSeq + 1 ELSE nextSeq)
      BY <2>1 DEF SeqAfter
    <2>5. Derives("reboot", "reboot", r, x)
      <3>1. EntryAt("reboot", x, Len(claims), nextSeq')
        BY <2>2, <2>3, <2>4, <1>a DEF EntryAt
      <3>2. r.seq # None => Document(x) = Document(r)
        BY <2>1, <2>2, <2>3 DEF EntryAt, Document
      <3> QED BY <2>1, <2>3, <2>4, <3>1, <3>2 DEF Derives, LaneContainers
    <2>6. Rewritten(Lines, Lines', "reboot", x) /\ Lines["reboot"][1] = r
      <3>1. Lines["reboot"] # <<>> /\ Lines["reboot"][1] = r
            /\ Lines'["reboot"] = [Lines["reboot"] EXCEPT ![1] = x]
        BY <2>2, <2>3, <2>a, OneOfFacts
      <3> QED BY <2>1, <3>1, LinesAt DEF Rewritten, Containers
    <2>7. Rewrites("reboot", x)
      BY <2>1, <2>4, <2>5, <2>6 DEF Rewrites
    <2> QED BY <2>7 DEF Kinds
  <1>7. CASE RebootSubstitute
    <2> DEFINE r == pendingReboot
               x == [Substitute(r) EXCEPT !.clears = TRUE]
               q == IF r.seq = None THEN nextSeq ELSE r.seq
               y == [r EXCEPT !.seq = q]
    <2>1. /\ r # None /\ ~ answerQueued /\ r.fate # "ok" /\ pendingReboot' = y
          /\ nextSeq' = SeqAfter(r) /\ QueueCore0Response(x)
          /\ answerQueued' = (Len(pending) < MaxPending)
          /\ UNCHANGED <<claims, received, acked, events, core1Pending, outbound, inFlight>>
      BY <1>7, <1>a DEF RebootSubstitute, RebootDue, ingress, core1Vars, lane, broker
    <2>2. r \in AnswerType /\ EntryAt("reboot", r, Len(claims), nextSeq)
          /\ Lines["reboot"] = OneOf(r)
      BY <2>1, <1>c
    <2>3. x.claim = r.claim /\ x.outcome = "substitute" /\ x.fate = "ok" /\ x.seq = None
      BY <2>2, SubstituteFields
    <2>4. /\ y.claim = r.claim /\ y.outcome = r.outcome /\ y.fate = r.fate /\ y.seq = q
          /\ y.stamp = r.stamp /\ y \in AnswerType
      <3>1. q \in Nat \cup {None}
        BY <2>2, <1>a, <1>h
      <3> HIDE DEF q
      <3> QED BY <2>2, <3>1, SequencedFields
    <2>5. nextSeq' = (IF r.seq = None THEN nextSeq + 1 ELSE nextSeq)
      BY <2>1 DEF SeqAfter
    <2>6. Lines["reboot"] # <<>> /\ Lines["reboot"][1] = r /\ Tail(Lines["reboot"]) = <<>>
      BY <2>2, OneOfFacts
    <2>7. CASE Len(pending) >= MaxPending
      <3>1. pending' = pending /\ ~ answerQueued'
        <4>1. ~ (Len(pending) < MaxPending)
          BY <2>7, <1>a
        <4> QED BY <2>1, <2>7, <4>1 DEF QueueCore0Response
      <3>2. Lines'["reboot"] = OneOf(y)
        BY <2>1, <3>1, LinesAt
      <3>3. Lines'["reboot"] = [Lines["reboot"] EXCEPT ![1] = y]
        <4> HIDE DEF y
        <4> QED BY <2>2, <2>4, <3>2, OneOfFacts
      <3> HIDE DEF x, y, r
      <3>4. Rewritten(Lines, Lines', "reboot", y)
        BY <2>1, <2>6, <3>1, <3>3, LinesAt DEF Rewritten, Containers
      <3>5. Derives("reboot", "reboot", r, y)
        <4>1. EntryAt("reboot", y, Len(claims), nextSeq')
          BY <2>1, <2>2, <2>4, <2>5, <1>a DEF EntryAt
        <4> QED BY <2>1, <2>4, <2>5, <4>1 DEF Derives, LaneContainers
      <3>6. Rewrites("reboot", y)
        BY <2>1, <2>5, <2>6, <3>4, <3>5 DEF Rewrites
      <3> QED BY <3>6 DEF Kinds
    <2>8. CASE Len(pending) < MaxPending
      <3>1. pending' = Append(pending, x) /\ answerQueued'
        <4>1. ~ (Len(pending) >= MaxPending)
          BY <2>8, <1>a, CommandAssumption
        <4> QED BY <2>1, <2>8, <4>1 DEF QueueCore0Response
      <3>2. Lines'["reboot"] = Tail(Lines["reboot"])
        BY <2>6, <3>1, LinesAt
      <3> HIDE DEF x, y, r
      <3>3. Moved(Lines, Lines', "reboot", "pending", x)
        BY <2>1, <2>6, <3>1, <3>2, LinesAt DEF Moved, Containers
      <3>4. Derives("reboot", "pending", r, x)
        <4>1. EntryAt("pending", x, Len(claims), nextSeq')
          BY <2>2, <2>3 DEF EntryAt
        <4> QED BY <2>1, <2>3, <4>1 DEF Derives, LaneContainers
      <3>5. Moves("reboot", "pending", x)
        BY <2>1, <2>5, <2>6, <3>3, <3>4 DEF Moves
      <3> QED BY <3>5 DEF Kinds
    <2>9. Len(pending) >= MaxPending \/ Len(pending) < MaxPending
      BY <1>a, CommandAssumption
    <2> QED BY <2>7, <2>8, <2>9
  <1>8. CASE RebootAcknowledged
    <2> DEFINE r == pendingReboot
    <2>1. r # None /\ ~ answerQueued /\ r.fate = "ok" /\ r.seq # None
      BY <1>8 DEF RebootAcknowledged, TypeInv, WaitOK
    <2>2. /\ pendingReboot' = None /\ received' = received \cup {Document(r)}
          /\ acked' = acked \cup {r.claim} /\ UNCHANGED <<pending, answerQueued>>
          /\ UNCHANGED <<claims, nextSeq, events, core1Pending, outbound, inFlight>>
      BY <1>8 DEF RebootAcknowledged, Puback, ingress, core1Vars, lane
    <2>3. r \in AnswerType /\ Lines["reboot"] = OneOf(r)
      BY <2>1, <1>c
    <2>4. Lines["reboot"] # <<>> /\ Lines["reboot"][1] = r
          /\ Tail(Lines["reboot"]) = OneOf(None)
      BY <2>3, OneOfFacts
    <2>5. Lines'["reboot"] = Tail(Lines["reboot"])
      BY <2>1, <2>2, <2>4, LinesAt
    <2> HIDE DEF r
    <2>6. Dropped1(Lines, Lines', "reboot")
      BY <2>2, <2>4, <2>5, LinesAt DEF Dropped1, Containers
    <2>7. Acknowledged("reboot")
      BY <2>1, <2>2, <2>4, <2>6 DEF Acknowledged, Sent, Containers
    <2> QED BY <2>7 DEF Kinds
  <1>9. CASE RebootFailed
    <2>1. /\ pendingReboot # None /\ ~ answerQueued
          /\ pendingReboot.fate = "ok" /\ pendingReboot.seq # None
          /\ received' \in {received, received \cup {Document(pendingReboot)}}
          /\ UNCHANGED <<pending, pendingReboot, answerQueued, events, core1Pending, outbound,
                         inFlight, claims, acked, nextSeq>>
      BY <1>9 DEF RebootFailed, PublishFails, TypeInv, WaitOK, answers, ingress,
                        core1Vars, lane
    <2>2. Lines' = Lines
      BY <2>1 DEF Lines
    <2>3. Lines["reboot"] # <<>> /\ Lines["reboot"][1] = pendingReboot
          /\ "reboot" \in Containers
      BY <2>1, <1>c, OneOfFacts DEF Containers
    <2> QED BY <2>1, <2>2, <2>3, FailedKinds
  <1>10. CASE PublishEntry
    <2> DEFINE r == Taken
               q == IF r.seq = None THEN nextSeq ELSE r.seq
               x == [r EXCEPT !.seq = q]
    <2>1. /\ PublishDue /\ r.fate = "ok" /\ outbound' = Untaken /\ nextSeq' = SeqAfter(r)
          /\ inFlight' = [Stamped(r) EXCEPT !.stamp = r.stamp]
          /\ UNCHANGED <<pending, pendingReboot, answerQueued>>
          /\ UNCHANGED <<claims, received, acked, events, core1Pending>>
      BY <1>10 DEF PublishEntry, ingress, core1Vars, broker
    <2>2. r \in AnswerType
      BY <2>1, <1>i
    <2>3. inFlight' = x
      BY <2>1, <2>2, <1>a, EntryFields
    <2>4. /\ x.claim = r.claim /\ x.outcome = r.outcome /\ x.fate = r.fate /\ x.seq = q
          /\ x.stamp = r.stamp /\ x \in AnswerType
      <3>1. q \in Nat \cup {None}
        BY <2>2, <1>a, <1>h
      <3> HIDE DEF q
      <3> QED BY <2>2, <3>1, SequencedFields
    <2>5. nextSeq' = (IF r.seq = None THEN nextSeq + 1 ELSE nextSeq)
      BY <2>1 DEF SeqAfter
    <2> HIDE DEF x
    <2>6. Lines'["inflight"] = OneOf(x)
      BY <2>3, LinesAt
    <2>7. CASE inFlight # None
      <3>1. r = inFlight /\ outbound' = outbound /\ EntryAt("inflight", r, Len(claims), nextSeq)
        BY <2>1, <2>7, <1>i, <1>d
      <3>2. Lines["inflight"] # <<>> /\ Lines["inflight"][1] = r
            /\ Lines'["inflight"] = [Lines["inflight"] EXCEPT ![1] = x]
        <4>1. Lines["inflight"] = OneOf(r)
          BY <3>1, LinesAt
        <4> QED BY <2>2, <2>4, <2>6, <4>1, OneOfFacts
      <3> HIDE DEF r
      <3>3. Rewritten(Lines, Lines', "inflight", x)
        BY <2>1, <3>1, <3>2, LinesAt DEF Rewritten, Containers
      <3>4. Derives("inflight", "inflight", r, x)
        <4>1. EntryAt("inflight", x, Len(claims), nextSeq')
          BY <3>1, <2>4, <2>5, <1>a DEF EntryAt
        <4>2. r.seq # None => Document(x) = Document(r)
          BY <2>4 DEF Document
        <4> QED BY <2>1, <2>4, <2>5, <4>1, <4>2 DEF Derives, LaneContainers
      <3>5. Rewrites("inflight", x)
        BY <2>1, <2>5, <3>2, <3>3, <3>4 DEF Rewrites
      <3> QED BY <3>5 DEF Kinds
    <2>8. CASE inFlight = None
      <3>1. /\ outbound # <<>> /\ r = outbound[1] /\ outbound' = Tail(outbound)
            /\ EntryAt("outbound", r, Len(claims), nextSeq)
        BY <2>1, <2>8, <1>i, <1>f
      <3>2. Lines'["inflight"] = Append(Lines["inflight"], x)
        <4>1. Lines["inflight"] = OneOf(None)
          BY <2>8, LinesAt
        <4> QED BY <2>4, <2>6, <4>1, OneOfFacts
      <3> HIDE DEF r
      <3>3. Moved(Lines, Lines', "outbound", "inflight", x)
        BY <2>1, <3>1, <3>2, LinesAt DEF Moved, Containers
      <3>4. Derives("outbound", "inflight", r, x)
        <4>1. EntryAt("inflight", x, Len(claims), nextSeq')
          BY <3>1, <2>4, <2>5, <1>a DEF EntryAt
        <4>2. r.seq = None
          BY <3>1 DEF EntryAt
        <4> QED BY <2>1, <2>4, <2>5, <4>1, <4>2 DEF Derives, LaneContainers
      <3>5. Moves("outbound", "inflight", x)
        BY <2>1, <2>5, <3>1, <3>3, <3>4, LinesAt DEF Moves
      <3> QED BY <3>5 DEF Kinds
    <2> QED BY <2>7, <2>8
  <1>11. CASE DiscardEntry
    <2> DEFINE r == Taken
               x == Substitute(r)
    <2>1. /\ PublishDue /\ r.fate # "ok" /\ outbound' = Untaken /\ nextSeq' = SeqAfter(r)
          /\ inFlight' = None
          /\ (IF r.outcome = "telemetry" THEN pending' = pending ELSE QueueCore0Response(x))
          /\ UNCHANGED <<pendingReboot, answerQueued>>
          /\ UNCHANGED <<claims, received, acked, events, core1Pending>>
      BY <1>11 DEF DiscardEntry, ingress, core1Vars, broker
    <2>2. r \in AnswerType
      BY <2>1, <1>i
    <2>3. x.claim = r.claim /\ x.outcome = "substitute" /\ x.fate = "ok" /\ x.seq = None
      BY <2>2, SubstituteFields
    <2>4. nextSeq' \in {nextSeq, nextSeq + 1}
      BY <2>1 DEF SeqAfter
    <2>5. PICK c \in {"outbound", "inflight"} :
            /\ Lines[c] # <<>> /\ Lines[c][1] = r /\ Lines'[c] = Tail(Lines[c])
            /\ \A e \in {"outbound", "inflight"} \ {c} : Lines'[e] = Lines[e]
            /\ EntryAt(c, r, Len(claims), nextSeq)
      <3>1. CASE inFlight # None
        <4>1. /\ r = inFlight /\ outbound' = outbound
              /\ EntryAt("inflight", r, Len(claims), nextSeq)
          BY <2>1, <3>1, <1>i, <1>d
        <4>2. /\ Lines["inflight"] # <<>> /\ Lines["inflight"][1] = r
              /\ Lines'["inflight"] = Tail(Lines["inflight"])
          <5>1. Lines["inflight"] = OneOf(r) /\ Lines'["inflight"] = OneOf(None)
            BY <2>1, <4>1, LinesAt
          <5> QED BY <2>2, <5>1, OneOfFacts
        <4> HIDE DEF r
        <4> QED BY <4>1, <4>2, LinesAt
      <3>2. CASE inFlight = None
        <4>1. /\ outbound # <<>> /\ r = outbound[1] /\ outbound' = Tail(outbound)
              /\ EntryAt("outbound", r, Len(claims), nextSeq)
          BY <2>1, <3>2, <1>i, <1>f
        <4>2. Lines'["inflight"] = Lines["inflight"]
          BY <2>1, <3>2, LinesAt
        <4> HIDE DEF r
        <4> QED BY <4>1, <4>2, LinesAt
      <3> QED BY <3>1, <3>2
    <2>6. CASE pending' = pending /\ (r.claim = 0 \/ Len(pending) >= MaxPending)
      <3> HIDE DEF r, x
      <3>1. Dropped1(Lines, Lines', c)
        BY <2>1, <2>5, <2>6, LinesAt DEF Dropped1, Containers
      <3>2. Loses(c)
        BY <2>1, <2>4, <2>5, <3>1 DEF Loses
      <3> QED BY <3>2 DEF Kinds
    <2>7. CASE r.claim # 0 /\ pending' = Append(pending, x)
      <3> HIDE DEF r, x
      <3>1. Moved(Lines, Lines', c, "pending", x)
        BY <2>1, <2>5, <2>7, LinesAt DEF Moved, Containers
      <3>2. Derives(c, "pending", r, x)
        <4>1. EntryAt("pending", x, Len(claims), nextSeq')
          BY <2>3, <2>5, <2>7 DEF EntryAt
        <4> QED BY <2>1, <2>3, <4>1 DEF Derives, LaneContainers
      <3>3. Moves(c, "pending", x)
        BY <2>1, <2>4, <2>5, <3>1, <3>2 DEF Moves
      <3> QED BY <3>3 DEF Kinds
    <2>8. r.outcome = "telemetry" <=> r.claim = 0
      BY <2>5 DEF EntryAt
    <2> QED BY <2>1, <2>6, <2>7, <2>8 DEF QueueCore0Response
  <1>12. CASE EntryDone
    <2> DEFINE r == inFlight
    <2>1. r # None /\ r.fate = "ok" /\ r.seq # None
      BY <1>12 DEF EntryDone, TypeInv, WaitOK
    <2>2. /\ inFlight' = None /\ received' = received \cup {Document(r)}
          /\ acked' = acked \cup {r.claim}
          /\ UNCHANGED <<pending, pendingReboot, answerQueued, nextSeq>>
          /\ UNCHANGED <<claims, events, core1Pending, outbound>>
      BY <1>12 DEF EntryDone, Puback, ingress, core1Vars, answers
    <2>3. Lines["inflight"] # <<>> /\ Lines["inflight"][1] = r
          /\ Lines'["inflight"] = Tail(Lines["inflight"])
      <3>1. Lines["inflight"] = OneOf(r) /\ Lines'["inflight"] = OneOf(None)
        BY <2>2, LinesAt
      <3> QED BY <2>1, <3>1, <1>d, OneOfFacts
    <2> HIDE DEF r
    <2>4. Dropped1(Lines, Lines', "inflight")
      BY <2>2, <2>3, LinesAt DEF Dropped1, Containers
    <2>5. Acknowledged("inflight")
      BY <2>1, <2>2, <2>3, <2>4 DEF Acknowledged, Sent, Containers
    <2> QED BY <2>5 DEF Kinds
  <1>13. CASE EntryFailed
    <2>1. /\ inFlight # None /\ inFlight.fate = "ok" /\ inFlight.seq # None
          /\ received' \in {received, received \cup {Document(inFlight)}}
          /\ UNCHANGED <<pending, pendingReboot, answerQueued, events, core1Pending, outbound,
                         inFlight, claims, acked, nextSeq>>
      BY <1>13 DEF EntryFailed, PublishFails, TypeInv, WaitOK, answers, ingress,
                        core1Vars, lane
    <2>2. Lines' = Lines
      BY <2>1 DEF Lines
    <2>3. Lines["inflight"] # <<>> /\ Lines["inflight"][1] = inFlight
          /\ "inflight" \in Containers
      BY <2>1, <1>d, OneOfFacts, LinesAt DEF Containers
    <2> QED BY <2>1, <2>2, <2>3, FailedKinds
  <1>14. CASE Core1TakeEvent
    <2> DEFINE r == events[1]
    <2>1. /\ events # <<>> /\ core1Pending = None /\ core1Pending' = r
          /\ events' = Tail(events)
          /\ UNCHANGED <<pending, pendingReboot, answerQueued, nextSeq>>
          /\ UNCHANGED <<claims, received, acked, outbound, inFlight>>
      BY <1>14, <1>g DEF Core1TakeEvent, answers, lane, broker
    <2>2. r \in AnswerType /\ EntryAt("events", r, Len(claims), nextSeq)
      BY <2>1, <1>g
    <2>3. Lines["events"] # <<>> /\ Lines["events"][1] = r
          /\ Lines'["events"] = Tail(Lines["events"])
      BY <2>1, LinesAt
    <2> HIDE DEF r
    <2>4. Lines'["core1"] = Append(Lines["core1"], r)
      <3>1. Lines["core1"] = OneOf(None) /\ Lines'["core1"] = OneOf(r)
        BY <2>1, LinesAt
      <3> QED BY <2>2, <3>1, OneOfFacts
    <2>5. Moved(Lines, Lines', "events", "core1", r)
      BY <2>1, <2>3, <2>4, LinesAt DEF Moved, Containers
    <2>6. Derives("events", "core1", r, r)
      <3>1. EntryAt("core1", r, Len(claims), nextSeq')
        BY <2>1, <2>2 DEF EntryAt
      <3> QED BY <2>2, <3>1 DEF Derives, LaneContainers
    <2>7. Moves("events", "core1", r)
      BY <2>1, <2>3, <2>5, <2>6 DEF Moves
    <2> QED BY <2>7 DEF Kinds
  <1>15. CASE Core1Admit
    <2> DEFINE r == core1Pending
    <2>1. /\ r # None /\ r.fate \in {"ok", "spliced"} /\ core1Pending' = None
          /\ outbound' = Append(outbound, r)
          /\ UNCHANGED <<pending, pendingReboot, answerQueued, nextSeq>>
          /\ UNCHANGED <<claims, received, acked, events, inFlight>>
      BY <1>15 DEF Core1Admit, answers, ingress, broker
    <2>2. r \in AnswerType /\ EntryAt("core1", r, Len(claims), nextSeq)
      BY <2>1, <1>e
    <2>3. Lines["core1"] # <<>> /\ Lines["core1"][1] = r
          /\ Lines'["core1"] = Tail(Lines["core1"])
      <3>1. Lines["core1"] = OneOf(r) /\ Lines'["core1"] = OneOf(None)
        BY <2>1, LinesAt
      <3> QED BY <2>2, <3>1, OneOfFacts
    <2> HIDE DEF r
    <2>5. Moved(Lines, Lines', "core1", "outbound", r)
      BY <2>1, <2>3, LinesAt DEF Moved, Containers
    <2>6. Derives("core1", "outbound", r, r)
      <3>1. EntryAt("outbound", r, Len(claims), nextSeq')
        BY <2>1, <2>2 DEF EntryAt
      <3> QED BY <2>1, <2>2, <3>1 DEF Derives, LaneContainers
    <2>7. Moves("core1", "outbound", r)
      BY <2>1, <2>3, <2>5, <2>6 DEF Moves
    <2> QED BY <2>7 DEF Kinds
  <1>16. CASE Core1Shrink \/ Core1Refused \/ Core1MemoryError
    <2> DEFINE r == core1Pending
    <2>1. /\ r # None
          /\ UNCHANGED <<pending, pendingReboot, answerQueued, nextSeq>>
          /\ UNCHANGED <<claims, received, acked, events, outbound, inFlight>>
      BY <1>16 DEF Core1Shrink, Core1Refused, Core1MemoryError, answers, ingress, lane, broker
    <2>2. r \in AnswerType /\ EntryAt("core1", r, Len(claims), nextSeq)
      BY <2>1, <1>e
    <2>3. /\ core1Pending' \in AnswerType /\ core1Pending'.claim = r.claim
          /\ core1Pending'.outcome \in {r.outcome, "substitute"}
          /\ r.outcome = "telemetry" => core1Pending'.claim = 0
          /\ core1Pending'.fate = "ok" /\ core1Pending'.seq = None
      <3>1. r.seq = None /\ (r.outcome = "telemetry" <=> r.claim = 0)
        BY <2>2 DEF EntryAt
      <3>2. CASE core1Pending' = [r EXCEPT !.fate = "ok"]
        <4>1. "ok" \in Fates
          BY DEF Fates
        <4> QED BY <2>2, <3>1, <3>2, <4>1, ShrunkFields
      <3>3. CASE core1Pending' = Substitute(r)
        BY <2>2, <3>1, <3>3, SubstituteFields
      <3> QED BY <1>16, <3>2, <3>3 DEF Core1Shrink, Core1Refused, Core1MemoryError
    <2> DEFINE x == core1Pending'
    <2>4. Lines["core1"] # <<>> /\ Lines["core1"][1] = r
          /\ Lines'["core1"] = [Lines["core1"] EXCEPT ![1] = x]
      <3>1. Lines["core1"] = OneOf(r) /\ Lines'["core1"] = OneOf(x)
        BY LinesAt
      <3> QED BY <2>2, <2>3, <3>1, OneOfFacts
    <2> HIDE DEF r, x
    <2>5. Rewritten(Lines, Lines', "core1", x)
      BY <2>1, <2>4, LinesAt DEF Rewritten, Containers
    <2>6. Derives("core1", "core1", r, x)
      <3>1. x.claim = r.claim /\ x.outcome \in {r.outcome, "substitute"} /\ x.fate = "ok"
            /\ x.seq = None /\ r.seq = None
        BY <2>2, <2>3 DEF EntryAt, x
      <3>2. EntryAt("core1", x, Len(claims), nextSeq')
        BY <2>1, <2>2, <3>1 DEF EntryAt
      <3> QED BY <3>1, <3>2 DEF Derives, LaneContainers
    <2>7. Rewrites("core1", x)
      BY <2>1, <2>4, <2>5, <2>6 DEF Rewrites
    <2> QED BY <2>7 DEF Kinds
  <1>17. CASE Core1Stops
    <2>1. /\ core1' = "stopped" /\ core1Pending' = None
          /\ UNCHANGED <<pending, pendingReboot, answerQueued, nextSeq>>
          /\ UNCHANGED <<claims, received, acked, events, outbound, inFlight>>
      BY <1>17 DEF Core1Stops, answers, ingress, lane, broker
    <2>2. CASE core1Pending = None
      BY <2>1, <2>2, QuietStep DEF Kinds
    <2>3. CASE core1Pending # None
      <3>1. Lines["core1"] # <<>> /\ Lines'["core1"] = Tail(Lines["core1"])
        <4>1. Lines["core1"] = OneOf(core1Pending) /\ Lines'["core1"] = OneOf(None)
          BY <2>1, LinesAt
        <4> QED BY <2>3, <4>1, <1>e, OneOfFacts
      <3>2. Dropped1(Lines, Lines', "core1")
        BY <2>1, <3>1, LinesAt DEF Dropped1, Containers
      <3>3. Loses("core1")
        BY <2>1, <3>2 DEF Loses
      <3> QED BY <3>3 DEF Kinds
    <2> QED BY <2>2, <2>3
  <1>18. CASE Core1Telemetry
    <2>1. PICK f \in {"ok", "spliced"} : outbound' = Append(outbound, Answer(0, "telemetry", f))
      BY <1>18 DEF Core1Telemetry
    <2> DEFINE x == Answer(0, "telemetry", f)
    <2>2. /\ UNCHANGED <<pending, pendingReboot, answerQueued, nextSeq>>
          /\ UNCHANGED <<claims, received, acked, events, core1Pending, inFlight>>
      BY <1>18 DEF Core1Telemetry, answers, ingress, broker
    <2>3. x.claim = 0 /\ x.outcome = "telemetry" /\ x.seq = None /\ x.fate = f
      BY DEF Answer
    <2>4. outbound' = Append(outbound, x)
      BY <2>1
    <2> HIDE DEF x
    <2>5. Added(Lines, Lines', "outbound", x)
      BY <2>2, <2>4, LinesAt DEF Added, Containers
    <2>6. NewTelemetry(x)
      BY <2>2, <2>3, <2>5 DEF NewTelemetry
    <2> QED BY <2>6 DEF Kinds
  <1>19. CASE \/ ServiceNothing \/ RebootNothing \/ MachineReset \/ PublishNothing \/ Top
              \/ Recover \/ PollNothing \/ HeartbeatReset \/ GateOpens \/ UNCHANGED vars
    BY <1>19, QuietStep DEF Kinds, ServiceNothing, RebootNothing, MachineReset, PublishNothing,
         Top, Recover, PollNothing, HeartbeatReset, GateOpens, vars, loop, answers, ingress,
         core1Vars, lane, broker
  <1> QED BY <1>1, <1>2, <1>3, <1>4, <1>5, <1>6, <1>7, <1>8, <1>9, <1>10, <1>11, <1>12, <1>13,
             <1>14, <1>15, <1>16, <1>17, <1>18, <1>19 DEF Next, Core0Step, Core1Step

\* The answers of a container.
At(L, c) == {L[c][i] : i \in 1..Len(L[c])}

\* What leaves a container and what comes to one.
Changes(L, M, out, in) ==
    \A e \in Containers :
        /\ \A y \in At(M, e) : y \in At(L, e) \/ <<e, y>> \in in
        /\ \A y \in At(L, e) : y \in At(M, e) \/ <<e, y>> \in out
        /\ \A y : <<e, y>> \in in => y \in At(M, e)

\* The four ways in these terms.  An answer moves on.
LEMMA MovedChanges ==
  ASSUME NEW L \in LineTypes, NEW M \in LineTypes, NEW c, NEW d, NEW x, Moved(L, M, c, d, x)
  PROVE  Changes(L, M, {<<c, L[c][1]>>}, {<<d, x>>}) /\ L[c][1] \in At(L, c)
  <1>1. /\ c \in Containers /\ d \in Containers /\ c # d
        /\ Len(L[c]) \in Nat /\ Len(L[d]) \in Nat
        /\ Len(L[c]) >= 1 /\ Len(M[c]) = Len(L[c]) - 1 /\ Len(M[d]) = Len(L[d]) + 1
        /\ \A i \in 1..Len(M[c]) : M[c][i] = L[c][i + 1]
        /\ \A i \in 1..Len(L[d]) : M[d][i] = L[d][i]
        /\ M[d][Len(L[d]) + 1] = x
        /\ \A e \in Containers \ {c, d} : M[e] = L[e]
    <2>1. \A e \in Containers : L[e] \in Seq(AnswerType)
      BY DEF LineTypes
    <2> QED BY <2>1 DEF Moved
  <1>2. x \in At(M, d) /\ L[c][1] \in At(L, c)
    BY <1>1 DEF At
  <1>3. ASSUME NEW i \in 1..Len(M[c])
        PROVE  M[c][i] \in At(L, c)
    BY <1>1 DEF At
  <1>4. ASSUME NEW i \in 1..Len(M[d]), M[d][i] # x
        PROVE  M[d][i] \in At(L, d)
    <2>1. i \in 1..Len(L[d])
      BY <1>1, <1>4
    <2> QED BY <1>1, <2>1 DEF At
  <1>5. ASSUME NEW i \in 1..Len(L[c]), L[c][i] # L[c][1]
        PROVE  L[c][i] \in At(M, c)
    <2>1. i - 1 \in 1..Len(M[c]) /\ M[c][i - 1] = L[c][i]
      BY <1>1, <1>5
    <2> QED BY <2>1 DEF At
  <1>6. ASSUME NEW i \in 1..Len(L[d])
        PROVE  L[d][i] \in At(M, d)
    BY <1>1 DEF At
  <1>7. \A e \in Containers \ {c, d} : At(M, e) = At(L, e)
    BY <1>1 DEF At
  <1> QED
    <2>1. \A y \in At(M, c) : y \in At(L, c)
      BY <1>3 DEF At
    <2>2. \A y \in At(M, d) : y \in At(L, d) \/ y = x
      BY <1>4 DEF At
    <2>3. \A y \in At(L, c) : y \in At(M, c) \/ y = L[c][1]
      BY <1>5 DEF At
    <2>4. \A y \in At(L, d) : y \in At(M, d)
      BY <1>6 DEF At
    <2> QED BY <1>1, <1>2, <1>7, <2>1, <2>2, <2>3, <2>4 DEF Changes

\* An answer is dropped.
LEMMA DroppedChanges ==
  ASSUME NEW L \in LineTypes, NEW M \in LineTypes, NEW c, Dropped1(L, M, c)
  PROVE  Changes(L, M, {<<c, L[c][1]>>}, {}) /\ L[c][1] \in At(L, c)
  <1>1. /\ c \in Containers /\ Len(L[c]) \in Nat
        /\ Len(L[c]) >= 1 /\ Len(M[c]) = Len(L[c]) - 1
        /\ \A i \in 1..Len(M[c]) : M[c][i] = L[c][i + 1]
        /\ \A e \in Containers \ {c} : M[e] = L[e]
    <2>1. \A e \in Containers : L[e] \in Seq(AnswerType)
      BY DEF LineTypes
    <2> QED BY <2>1 DEF Dropped1
  <1>2. L[c][1] \in At(L, c)
    BY <1>1 DEF At
  <1>3. ASSUME NEW i \in 1..Len(M[c])
        PROVE  M[c][i] \in At(L, c)
    BY <1>1 DEF At
  <1>4. ASSUME NEW i \in 1..Len(L[c]), L[c][i] # L[c][1]
        PROVE  L[c][i] \in At(M, c)
    <2>1. i - 1 \in 1..Len(M[c]) /\ M[c][i - 1] = L[c][i]
      BY <1>1, <1>4
    <2> QED BY <2>1 DEF At
  <1>5. \A e \in Containers \ {c} : At(M, e) = At(L, e)
    BY <1>1 DEF At
  <1> QED
    <2>1. \A y \in At(M, c) : y \in At(L, c)
      BY <1>3 DEF At
    <2>2. \A y \in At(L, c) : y \in At(M, c) \/ y = L[c][1]
      BY <1>4 DEF At
    <2> QED BY <1>1, <1>2, <1>5, <2>1, <2>2 DEF Changes

\* An answer is rewritten.
LEMMA RewrittenChanges ==
  ASSUME NEW L \in LineTypes, NEW M \in LineTypes, NEW c, NEW x, Rewritten(L, M, c, x)
  PROVE  Changes(L, M, {<<c, L[c][1]>>}, {<<c, x>>}) /\ L[c][1] \in At(L, c)
  <1>1. /\ c \in Containers
        /\ Len(L[c]) \in Nat /\ Len(L[c]) >= 1 /\ Len(M[c]) = Len(L[c])
        /\ M[c][1] = x
        /\ \A i \in 1..Len(M[c]) : i # 1 => M[c][i] = L[c][i]
        /\ \A e \in Containers \ {c} : M[e] = L[e]
    <2>1. \A e \in Containers : L[e] \in Seq(AnswerType)
      BY DEF LineTypes
    <2> QED BY <2>1 DEF Rewritten
  <1>2. L[c][1] \in At(L, c) /\ x \in At(M, c)
    BY <1>1 DEF At
  <1>3. \A y \in At(M, c) : y \in At(L, c) \/ y = x
    BY <1>1 DEF At
  <1>4. \A y \in At(L, c) : y \in At(M, c) \/ y = L[c][1]
    BY <1>1 DEF At
  <1>5. \A e \in Containers \ {c} : At(M, e) = At(L, e)
    BY <1>1 DEF At
  <1> QED BY <1>1, <1>2, <1>3, <1>4, <1>5 DEF Changes

\* An answer is added.
LEMMA AddedChanges ==
  ASSUME NEW L \in LineTypes, NEW M \in LineTypes, NEW c, NEW x, Added(L, M, c, x)
  PROVE  Changes(L, M, {}, {<<c, x>>})
  <1>1. /\ c \in Containers
        /\ Len(L[c]) \in Nat /\ Len(M[c]) = Len(L[c]) + 1
        /\ M[c][Len(L[c]) + 1] = x
        /\ \A i \in 1..Len(L[c]) : M[c][i] = L[c][i]
        /\ \A e \in Containers \ {c} : M[e] = L[e]
    <2>1. \A e \in Containers : L[e] \in Seq(AnswerType)
      BY DEF LineTypes
    <2> QED BY <2>1 DEF Added
  <1>2. x \in At(M, c)
    BY <1>1 DEF At
  <1>3. ASSUME NEW i \in 1..Len(M[c]), M[c][i] # x
        PROVE  M[c][i] \in At(L, c)
    <2>1. i \in 1..Len(L[c])
      BY <1>1, <1>3
    <2> QED BY <1>1, <2>1 DEF At
  <1>4. ASSUME NEW i \in 1..Len(L[c])
        PROVE  L[c][i] \in At(M, c)
    BY <1>1 DEF At
  <1>5. \A e \in Containers \ {c} : At(M, e) = At(L, e)
    BY <1>1 DEF At
  <1> QED
    <2>1. \A y \in At(M, c) : y \in At(L, c) \/ y = x
      BY <1>3 DEF At
    <2>2. \A y \in At(L, c) : y \in At(M, c)
      BY <1>4 DEF At
    <2> QED BY <1>1, <1>2, <1>5, <2>1, <2>2 DEF Changes

\* The answers where they are, and each only there.
PlaceInv == Entries /\ Distinct(Lines)

\* What is true of an answer stays true of it.
LEMMA EntryGrows ==
  ASSUME NEW c, NEW r, NEW n \in Nat, NEW q \in Nat, NEW m \in Nat, NEW p \in Nat,
         EntryAt(c, r, n, q), n <= m, q <= p
  PROVE  EntryAt(c, r, m, p)
  BY DEF EntryAt

\* Where an answer of the next state comes from.
Origin(e, y) ==
    \/ y \in At(Lines, e)
    \/ \E c \in Containers : \E r \in At(Lines, c) : Derives(c, e, r, y)
    \/ NewAnswer(e, y)
    \/ NewTelemetry(y) /\ e = "outbound"

\* Each answer comes from one of the last state or is new, and what was counted stays.
LEMMA Origins ==
  ASSUME TypeInv, TypeInv', Kinds
  PROVE  /\ \A e \in Containers : \A y \in At(Lines', e) : Origin(e, y)
         /\ Len(claims) <= Len(claims') /\ nextSeq <= nextSeq'
         /\ \A k \in DOMAIN claims : claims'[k] = claims[k]
         /\ claims' = claims \/ Len(claims') = Len(claims) + 1
  <1>1. Lines \in LineTypes /\ Lines' \in LineTypes
    BY LinesTypedNext
  <1>2. nextSeq \in Nat /\ claims \in Seq(Commands)
    BY DEF TypeInv, TypeOK
  <1>3. /\ Len(claims) <= Len(claims') /\ nextSeq <= nextSeq'
        /\ \A k \in DOMAIN claims : claims'[k] = claims[k]
        /\ claims' = claims \/ Len(claims') = Len(claims) + 1
    <2>1. nextSeq <= nextSeq'
      BY <1>2 DEF Kinds, Quiet, SilentClaim, NewAnswer, NewTelemetry, Moves, Rewrites,
           Acknowledged, Ambiguous, Sent, Loses
    <2>2. claims' = claims \/ \E c \in Commands : claims' = Append(claims, c)
      BY DEF Kinds, Quiet, SilentClaim, NewAnswer, NewTelemetry, Moves, Rewrites,
           Acknowledged, Ambiguous, Sent, Loses
    <2> QED BY <1>2, <2>1, <2>2
  <1>4. ASSUME NEW e \in Containers, NEW y \in At(Lines', e)
        PROVE  Origin(e, y)
    <2>1. CASE Lines' = Lines
      BY <2>1, <1>4 DEF Origin
    <2>2. CASE \E d, x : NewAnswer(d, x)
      <3>1. PICK d, x : NewAnswer(d, x)
        BY <2>2
      <3>2. Changes(Lines, Lines', {}, {<<d, x>>})
        BY <1>1, <3>1, AddedChanges DEF NewAnswer
      <3>3. y \in At(Lines, e) \/ (e = d /\ y = x)
        BY <1>4, <3>2 DEF Changes
      <3> QED BY <3>1, <3>3 DEF Origin
    <2>3. CASE \E x : NewTelemetry(x)
      <3>1. PICK x : NewTelemetry(x)
        BY <2>3
      <3>2. Changes(Lines, Lines', {}, {<<"outbound", x>>})
        BY <1>1, <3>1, AddedChanges DEF NewTelemetry
      <3>3. y \in At(Lines, e) \/ (e = "outbound" /\ y = x)
        BY <1>4, <3>2 DEF Changes
      <3> QED BY <3>1, <3>3 DEF Origin
    <2>4. CASE \E c, d, x : Moves(c, d, x)
      <3>1. PICK c, d, x : Moves(c, d, x)
        BY <2>4
      <3>2. Changes(Lines, Lines', {<<c, Lines[c][1]>>}, {<<d, x>>})
            /\ Lines[c][1] \in At(Lines, c) /\ c \in Containers
        BY <1>1, <3>1, MovedChanges DEF Moves, Moved
      <3>3. y \in At(Lines, e) \/ (e = d /\ y = x)
        BY <1>4, <3>2 DEF Changes
      <3> QED BY <3>1, <3>2, <3>3 DEF Origin, Moves
    <2>5. CASE \E c, x : Rewrites(c, x)
      <3>1. PICK c, x : Rewrites(c, x)
        BY <2>5
      <3>2. Changes(Lines, Lines', {<<c, Lines[c][1]>>}, {<<c, x>>})
            /\ Lines[c][1] \in At(Lines, c) /\ c \in Containers
        BY <1>1, <3>1, RewrittenChanges DEF Rewrites, Rewritten
      <3>3. y \in At(Lines, e) \/ (e = c /\ y = x)
        BY <1>4, <3>2 DEF Changes
      <3> QED BY <3>1, <3>2, <3>3 DEF Origin, Rewrites
    <2>6. CASE \E c : Dropped1(Lines, Lines', c)
      <3>1. PICK c : Dropped1(Lines, Lines', c)
        BY <2>6
      <3>2. Changes(Lines, Lines', {<<c, Lines[c][1]>>}, {})
        BY <1>1, <3>1, DroppedChanges
      <3> QED BY <1>4, <3>2 DEF Origin, Changes
    <2> QED BY <2>1, <2>2, <2>3, <2>4, <2>5, <2>6
          DEF Kinds, Quiet, SilentClaim, Acknowledged, Ambiguous, Loses
  <1> QED BY <1>3, <1>4

\* Each step keeps the answers in their places.
LEMMA PlaceNext ==
  ASSUME TypeInv, TypeInv', HeldInv, PlaceInv, [Next]_vars
  PROVE  PlaceInv'
  <1>1. Kinds
    BY StepKinds DEF PlaceInv
  <1>2. Lines \in LineTypes /\ Lines' \in LineTypes
    BY LinesTypedNext
  <1>3. /\ nextSeq \in Nat /\ nextSeq' \in Nat /\ Len(claims) \in Nat /\ Len(claims') \in Nat
    BY DEF TypeInv, TypeOK
  <1>4. /\ Len(claims) <= Len(claims') /\ nextSeq <= nextSeq'
        /\ \A e \in Containers : \A y \in At(Lines', e) : Origin(e, y)
    BY <1>1, Origins
  <1>5. ASSUME NEW e \in Containers, NEW y \in At(Lines', e)
        PROVE  EntryAt(e, y, Len(claims'), nextSeq')
    <2>1. CASE y \in At(Lines, e)
      <3>1. EntryAt(e, y, Len(claims), nextSeq)
        BY <2>1 DEF PlaceInv, Entries, At
      <3> QED BY <3>1, <1>3, <1>4, EntryGrows
    <2>2. CASE \E c \in Containers : \E r \in At(Lines, c) : Derives(c, e, r, y)
      <3>1. EntryAt(e, y, Len(claims), nextSeq')
        BY <2>2 DEF Derives
      <3> QED BY <3>1, <1>3, <1>4, EntryGrows
    <2>3. CASE NewAnswer(e, y)
      <3>1. Len(claims') = Len(claims) + 1
        <4>1. claims \in Seq(Commands)
          BY DEF TypeInv, TypeOK
        <4> QED BY <2>3, <4>1 DEF NewAnswer
      <3> QED BY <1>3, <2>3, <3>1 DEF NewAnswer, Fresh, EntryAt
    <2>4. CASE NewTelemetry(y) /\ e = "outbound"
      BY <1>3, <2>4 DEF NewTelemetry, EntryAt
    <2> QED BY <1>4, <2>1, <2>2, <2>3, <2>4 DEF Origin
  <1>6. Entries'
    BY <1>5 DEF Entries, At
  <1>7. \A e \in Containers : \A i \in 1..Len(Lines[e]) :
           /\ Lines[e][i].claim \in 0..Len(claims)
           /\ Lines[e][i].seq # None => Lines[e][i].seq \in Nat /\ Lines[e][i].seq < nextSeq
    BY DEF PlaceInv, Entries, EntryAt
  <1>8. ASSUME NEW c, NEW d, NEW r, NEW x, Derives(c, d, r, x)
        PROVE  Derived(Lines, r, x)
    <2>1. Unused(Lines, nextSeq)
      <3> SUFFICES ASSUME NEW e \in Containers, NEW i \in 1..Len(Lines[e]),
                          Lines[e][i].seq = nextSeq
                   PROVE  FALSE
        BY DEF Unused
      <3> QED BY <1>3, <1>7, CommandAssumption
    <2> QED BY <1>8, <2>1 DEF Derives, Derived
  <1>9. Distinct(Lines)'
    <2>a. Distinct(Lines) /\ (Distinct(Lines') => Distinct(Lines)')
      BY DEF PlaceInv, Distinct, Clash, Containers
    <2>1. CASE Lines' = Lines
      BY <2>a, <2>1
    <2>2. CASE \E d, x : NewAnswer(d, x)
      <3>1. PICK d, x : NewAnswer(d, x)
        BY <2>2
      <3>2. \A e \in Containers : \A i \in 1..Len(Lines[e]) : Lines[e][i].claim # x.claim
        BY <1>3, <1>7, <3>1 DEF NewAnswer, Fresh
      <3>3. x.seq = None
        BY <3>1 DEF NewAnswer, Fresh
      <3> QED BY <1>2, <2>a, <3>1, <3>2, <3>3, AddedDistinct DEF NewAnswer
    <2>3. CASE \E x : NewTelemetry(x)
      BY <1>2, <2>a, <2>3, AddedDistinct DEF NewTelemetry
    <2>4. CASE \E c, d, x : Moves(c, d, x)
      BY <1>2, <1>8, <2>a, <2>4, MovedDistinct DEF Moves
    <2>5. CASE \E c, x : Rewrites(c, x)
      BY <1>2, <1>8, <2>a, <2>5, RewrittenDistinct DEF Rewrites
    <2>6. CASE \E c : Dropped1(Lines, Lines', c)
      BY <1>2, <2>a, <2>6, DroppedDistinct
    <2> QED BY <1>1, <2>1, <2>2, <2>3, <2>4, <2>5, <2>6
          DEF Kinds, Quiet, SilentClaim, Acknowledged, Ambiguous, Loses
  <1> QED BY <1>6, <1>9 DEF PlaceInv

\* At first there are no answers.
LEMMA PlaceInit == Init => PlaceInv
  <1> SUFFICES ASSUME Init, NEW c \in Containers
               PROVE  Lines[c] = <<>>
    BY DEF PlaceInv, Entries, Distinct
  <1> QED BY LinesAt DEF Init, OneOf, Containers

-----------------------------------------------------------------------------
(* What the broker has received. *)

\* A document is the only one of its claim and of its sequence, and an answer that could
\* be sent again as another document does not exist.
DocumentsOK ==
    \A d \in received :
        /\ d.claim \in 0..Len(claims) /\ d.seq \in Nat /\ d.seq < nextSeq
        /\ \A e \in received : Clash(d, e) => d = e

Faithful ==
    \A c \in Containers : \A r \in At(Lines, c) : \A d \in received :
        Clash(r, d) => r.seq # None /\ r.fate = "ok" /\ d = Document(r)

IdentityInv == DocumentsOK /\ Faithful

\* Each step keeps documents and answers apart, or equal.
LEMMA IdentityNext ==
  ASSUME TypeInv, TypeInv', HeldInv, PlaceInv, IdentityInv, [Next]_vars
  PROVE  IdentityInv'
  <1> USE CommandAssumption
  <1>1. Kinds
    BY StepKinds DEF PlaceInv
  <1>2. /\ nextSeq \in Nat /\ nextSeq' \in Nat /\ Len(claims) \in Nat /\ Len(claims') \in Nat
    BY DEF TypeInv, TypeOK
  <1>3. /\ Len(claims) <= Len(claims') /\ nextSeq <= nextSeq'
        /\ \A e \in Containers : \A y \in At(Lines', e) : Origin(e, y)
    BY <1>1, Origins
  <1>4. \A c \in Containers : \A r \in At(Lines, c) : EntryAt(c, r, Len(claims), nextSeq)
    BY DEF PlaceInv, Entries, At
  <1>5. \A c, d \in Containers : \A r \in At(Lines, c), s \in At(Lines, d) :
           Clash(r, s) => r = s
    BY DEF PlaceInv, Distinct, At
  <1>6. \A r : Document(r).claim = r.claim /\ Document(r).seq = r.seq
    BY DEF Document
  <1>7. ASSUME received' = received
        PROVE  IdentityInv'
    <2>1. DocumentsOK'
      BY <1>2, <1>3, <1>7 DEF IdentityInv, DocumentsOK, Clash
    <2>2. ASSUME NEW e \in Containers, NEW y \in At(Lines', e), NEW d \in received, Clash(y, d)
          PROVE  y.seq # None /\ y.fate = "ok" /\ d = Document(y)
      <3>1. CASE y \in At(Lines, e)
        BY <2>2, <3>1 DEF IdentityInv, Faithful
      <3>2. CASE \E c \in Containers : \E r \in At(Lines, c) : Derives(c, e, r, y)
        <4>1. PICK c \in Containers : \E r \in At(Lines, c) : Derives(c, e, r, y)
          BY <3>2
        <4>2. PICK r \in At(Lines, c) : Derives(c, e, r, y)
          BY <4>1
        <4>3. d.seq \in Nat /\ d.seq < nextSeq
          BY DEF IdentityInv, DocumentsOK
        <4>4. d.seq # nextSeq /\ d.seq # None
          BY <1>2, <4>3
        <4>5. Clash(r, d)
          BY <2>2, <4>2, <4>4 DEF Derives, Clash
        <4>6. r.seq # None /\ r.fate = "ok" /\ d = Document(r)
          BY <4>5 DEF IdentityInv, Faithful
        <4> QED BY <4>2, <4>6 DEF Derives
      <3>3. CASE NewAnswer(e, y)
        <4>1. y.claim = Len(claims) + 1 /\ y.seq = None
          BY <3>3 DEF NewAnswer, Fresh
        <4>2. d.claim \in 0..Len(claims)
          BY DEF IdentityInv, DocumentsOK
        <4> QED BY <1>2, <2>2, <4>1, <4>2 DEF Clash
      <3>4. CASE NewTelemetry(y)
        BY <2>2, <3>4 DEF NewTelemetry, Clash
      <3> QED BY <1>3, <3>1, <3>2, <3>3, <3>4 DEF Origin
    <2>3. Faithful'
      BY <1>7, <2>2 DEF Faithful, At, Clash, Document
    <2> QED BY <2>1, <2>3 DEF IdentityInv
  <1>8. ASSUME NEW c, Sent(c), \A e \in Containers : At(Lines', e) \subseteq At(Lines, e)
        PROVE  IdentityInv'
    <2> DEFINE s == Lines[c][1]
    <2>1. /\ c \in Containers /\ s \in At(Lines, c) /\ s.fate = "ok" /\ s.seq # None
          /\ received' = received \cup {Document(s)} /\ UNCHANGED <<claims, nextSeq>>
      <3>1. Lines[c] \in Seq(AnswerType)
        BY <1>8, LinesTyped DEF LineTypes, Sent
      <3> QED BY <1>8, <3>1 DEF Sent, At
    <2>2. EntryAt(c, s, Len(claims), nextSeq)
      BY <1>4, <2>1
    <2> HIDE DEF s
    <2>3. \A d \in received : Clash(s, d) => d = Document(s)
      BY <2>1 DEF IdentityInv, Faithful
    <2>4. \A d : (Clash(Document(s), d) <=> Clash(s, d)) /\ (Clash(d, Document(s)) <=> Clash(d, s))
      BY <1>6 DEF Clash
    <2>5. DocumentsOK'
      <3> SUFFICES ASSUME NEW d \in received'
                   PROVE  /\ d.claim \in 0..Len(claims) /\ d.seq \in Nat /\ d.seq < nextSeq
                          /\ \A e \in received' : Clash(d, e) => d = e
        BY <2>1 DEF DocumentsOK, Clash
      <3>1. \A a, b : Clash(a, b) => Clash(b, a)
        BY DEF Clash
      <3>2. CASE d \in received
        BY <2>1, <2>3, <2>4, <3>1, <3>2 DEF IdentityInv, DocumentsOK
      <3>3. CASE d = Document(s)
        BY <1>6, <2>1, <2>2, <2>3, <2>4, <3>3 DEF EntryAt
      <3> QED BY <2>1, <3>2, <3>3
    <2>6. ASSUME NEW e \in Containers, NEW y \in At(Lines', e), NEW d \in received', Clash(y, d)
          PROVE  y.seq # None /\ y.fate = "ok" /\ d = Document(y)
      <3>1. y \in At(Lines, e)
        BY <1>8
      <3>2. CASE d \in received
        BY <2>6, <3>1, <3>2 DEF IdentityInv, Faithful
      <3>3. CASE d = Document(s)
        <4>1. y = s
          BY <1>5, <2>1, <2>4, <2>6, <3>1, <3>3
        <4> QED BY <2>1, <3>3, <4>1
      <3> QED BY <2>1, <3>2, <3>3
    <2>7. Faithful'
      BY <2>6 DEF Faithful, At, Clash, Document
    <2> QED BY <2>5, <2>7 DEF IdentityInv
  <1>9. CASE \E c : Acknowledged(c)
    <2>1. PICK c : Acknowledged(c)
      BY <1>9
    <2>2. Changes(Lines, Lines', {<<c, Lines[c][1]>>}, {})
      BY <2>1, LinesTypedNext, DroppedChanges DEF Acknowledged
    <2> QED BY <1>8, <2>1, <2>2 DEF Acknowledged, Changes
  <1>10. CASE \E c : Ambiguous(c)
    BY <1>8, <1>10 DEF Ambiguous
  <1>11. CASE received' = received
    BY <1>7, <1>11
  <1> QED BY <1>1, <1>9, <1>10, <1>11
        DEF Kinds, Quiet, SilentClaim, NewAnswer, NewTelemetry, Moves, Rewrites, Loses

\* AnswerIdentity: sequences, claims and documents correspond one to one at the broker,
\* over retries, substitutes and ambiguous failures.
THEOREM OneDocumentPerClaim == Spec => []AnswerIdentity
  <1>1. Init => IdentityInv
    BY DEF Init, IdentityInv, DocumentsOK, Faithful
  <1>2. TypeInv /\ TypeInv' /\ HeldInv /\ PlaceInv /\ IdentityInv /\ [Next]_vars => IdentityInv'
    BY IdentityNext
  <1>3. TypeInv /\ TypeInv' /\ HeldInv /\ PlaceInv /\ [Next]_vars => PlaceInv'
    BY PlaceNext
  <1>4. IdentityInv => AnswerIdentity
    BY CommandAssumption
       DEF IdentityInv, DocumentsOK, Clash, AnswerIdentity, SequenceIdentity, OneAnswer
  <1> QED BY <1>1, <1>2, <1>3, <1>4, PlaceInit, TypeInvInit, TypeInvNext, HeldInvInit,
             HeldInvNext, PTL DEF Spec

-----------------------------------------------------------------------------
(* No answer is lost. *)

\* No details answer fits the outbound lane and then not with its envelope.  Without this
\* the substitute that DiscardEntry queues for it can be refused (README, "Observed").
NoSplicedDetails == \A c \in Commands : c.kind = "get-details" => c.fate # "spliced"

\* So the answers on their way through Core 1 and the lane can be published in the end, or
\* are refused before they reach the lane.
LaneOK ==
    \A c \in LaneContainers : \A r \in At(Lines, c) :
        /\ r.claim # 0 => r.fate # "spliced"
        /\ c \in {"outbound", "inflight"} => r.fate \in {"ok", "spliced"}

OwedInv ==
    core1 = "running" =>
        \A k \in DOMAIN claims :
            Silent(k) \/ k \in acked \/ \E c \in Containers : \E r \in At(Lines, c) : r.claim = k

\* Core 1 does not start again.
LEMMA Core1Ends ==
  ASSUME TypeInv, [Next]_vars, core1' = "running"
  PROVE  core1 = "running"
  <1>1. CASE MessageInWait \/ PollMessage
    <2>1. PICK c \in Commands : OnMqttMessage(c)
      BY <1>1 DEF MessageInWait, PollMessage
    <2> QED BY <2>1 DEF OnMqttMessage, core1Vars
  <1>2. CASE \/ ServiceNothing \/ ServicePublish \/ ServiceSubstitute \/ ServiceDone
             \/ ServiceFailed \/ RebootNothing \/ RebootPublish \/ RebootSubstitute
             \/ RebootAcknowledged \/ RebootFailed \/ MachineReset \/ HeartbeatReset
             \/ PublishNothing \/ PublishEntry \/ DiscardEntry \/ EntryDone \/ EntryFailed
             \/ Top \/ Recover \/ PollNothing \/ GateOpens \/ UNCHANGED vars
    BY <1>2 DEF ServiceNothing, ServicePublish, ServiceSubstitute, ServiceDone, ServiceFailed,
         RebootNothing, RebootPublish, RebootSubstitute, RebootAcknowledged, RebootFailed,
         MachineReset, HeartbeatReset, PublishNothing, PublishEntry, DiscardEntry, EntryDone,
         EntryFailed, Top, Recover, PollNothing, GateOpens, vars, core1Vars
  <1>3. CASE Core1Step
    BY <1>3 DEF Core1Step, Core1TakeEvent, Core1Admit, Core1Shrink, Core1Refused,
         Core1MemoryError, Core1Stops, Core1Telemetry, Running
  <1> QED BY <1>1, <1>2, <1>3 DEF Next, Core0Step

\* The claims of the answers that a step keeps.
LEMMA ClaimsKept ==
  ASSUME TypeInv, TypeInv', NoSplicedDetails, LaneOK, Kinds, core1' = "running",
         NEW c \in Containers, NEW r \in At(Lines, c), r.claim # 0
  PROVE  \/ r.claim \in acked'
         \/ \E e \in Containers : \E y \in At(Lines', e) : y.claim = r.claim
  <1>1. Lines \in LineTypes /\ Lines' \in LineTypes
    BY LinesTypedNext
  <1>2. ASSUME NEW out, NEW in, Changes(Lines, Lines', out, in), <<c, r>> \notin out
        PROVE  \E e \in Containers : \E y \in At(Lines', e) : y.claim = r.claim
    BY <1>2 DEF Changes
  <1>3. CASE Lines' = Lines
    BY <1>3
  <1>4. CASE \E d, x : NewAnswer(d, x)
    <2>1. PICK d, x : NewAnswer(d, x)
      BY <1>4
    <2>2. Changes(Lines, Lines', {}, {<<d, x>>})
      BY <1>1, <2>1, AddedChanges DEF NewAnswer
    <2> QED BY <1>2, <2>2
  <1>5. CASE \E x : NewTelemetry(x)
    <2>1. PICK x : NewTelemetry(x)
      BY <1>5
    <2>2. Changes(Lines, Lines', {}, {<<"outbound", x>>})
      BY <1>1, <2>1, AddedChanges DEF NewTelemetry
    <2> QED BY <1>2, <2>2
  <1>6. CASE \E a, d, x : Moves(a, d, x)
    <2>1. PICK a, d, x : Moves(a, d, x)
      BY <1>6
    <2>2. Changes(Lines, Lines', {<<a, Lines[a][1]>>}, {<<d, x>>}) /\ d \in Containers
      BY <1>1, <2>1, MovedChanges DEF Moves, Moved
    <2>3. x \in At(Lines', d) /\ x.claim = Lines[a][1].claim
      BY <2>1, <2>2 DEF Changes, Moves, Derives
    <2> QED BY <1>2, <2>2, <2>3
  <1>7. CASE \E a, x : Rewrites(a, x)
    <2>1. PICK a, x : Rewrites(a, x)
      BY <1>7
    <2>2. Changes(Lines, Lines', {<<a, Lines[a][1]>>}, {<<a, x>>}) /\ a \in Containers
      BY <1>1, <2>1, RewrittenChanges DEF Rewrites, Rewritten
    <2>3. x \in At(Lines', a) /\ x.claim = Lines[a][1].claim
      BY <2>1, <2>2 DEF Changes, Rewrites, Derives
    <2> QED BY <1>2, <2>2, <2>3
  <1>8. CASE \E a : Acknowledged(a)
    <2>1. PICK a : Acknowledged(a)
      BY <1>8
    <2>2. Changes(Lines, Lines', {<<a, Lines[a][1]>>}, {})
          /\ acked' = acked \cup {Lines[a][1].claim}
      BY <1>1, <2>1, DroppedChanges DEF Acknowledged
    <2> QED BY <1>2, <2>2
  <1>9. CASE \E a : Loses(a)
    <2>1. PICK a : Loses(a)
      BY <1>9
    <2>2. Changes(Lines, Lines', {<<a, Lines[a][1]>>}, {}) /\ Lines[a][1] \in At(Lines, a)
      BY <1>1, <2>1, DroppedChanges DEF Loses
    <2>3. CASE c = a /\ r = Lines[a][1]
      <3>1. a \in {"outbound", "inflight"} /\ r.fate # "ok"
        BY <2>1, <2>3 DEF Loses
      <3>2. a \in LaneContainers
        BY <3>1 DEF LaneContainers
      <3> QED BY <2>2, <2>3, <3>1, <3>2 DEF LaneOK
    <2> QED BY <1>2, <2>2, <2>3
  <1> QED BY <1>3, <1>4, <1>5, <1>6, <1>7, <1>8, <1>9 DEF Kinds, Quiet, SilentClaim, Ambiguous

\* Each step keeps the lane publishable and every claim owed.
LEMMA OwedNext ==
  ASSUME NoSplicedDetails, TypeInv, TypeInv', HeldInv, PlaceInv, LaneOK, OwedInv, [Next]_vars
  PROVE  LaneOK' /\ OwedInv'
  <1>1. Kinds
    BY StepKinds DEF PlaceInv
  <1>2. /\ \A e \in Containers : \A y \in At(Lines', e) : Origin(e, y)
        /\ \A k \in DOMAIN claims : claims'[k] = claims[k]
        /\ claims' = claims \/ Len(claims') = Len(claims) + 1
    BY <1>1, Origins
  <1>3. claims \in Seq(Commands) /\ claims' \in Seq(Commands)
    BY DEF TypeInv, TypeOK
  <1>4. LaneOK'
    <2> SUFFICES ASSUME NEW e \in LaneContainers, NEW y \in At(Lines', e)
                 PROVE  /\ y.claim # 0 => y.fate # "spliced"
                        /\ e \in {"outbound", "inflight"} => y.fate \in {"ok", "spliced"}
      BY DEF LaneOK, At, LaneContainers
    <2>1. e \in Containers
      BY DEF Containers, LaneContainers
    <2>2. CASE y \in At(Lines, e)
      BY <2>2 DEF LaneOK
    <2>3. CASE \E c \in Containers : \E r \in At(Lines, c) : Derives(c, e, r, y)
      BY <2>3 DEF LaneOK, Derives
    <2>4. CASE NewAnswer(e, y)
      BY <2>4 DEF NewAnswer, NoSplicedDetails, LaneContainers
    <2>5. CASE NewTelemetry(y)
      BY <2>5 DEF NewTelemetry
    <2> QED BY <1>2, <2>1, <2>2, <2>3, <2>4, <2>5 DEF Origin
  <1>5. ASSUME core1' = "running", NEW k \in DOMAIN claims'
        PROVE  \/ Silent(k)' \/ k \in acked'
               \/ \E c \in Containers : \E y \in At(Lines', c) : y.claim = k
    <2>1. CASE k \in DOMAIN claims
      <3>1. core1 = "running"
        BY <1>5, Core1Ends
      <3>2. CASE Silent(k)
        BY <1>2, <2>1, <3>2 DEF Silent
      <3>3. CASE k \in acked
        <4>1. acked \subseteq acked'
          BY <1>1 DEF Kinds, Quiet, SilentClaim, NewAnswer, NewTelemetry, Moves, Rewrites,
             Acknowledged, Ambiguous, Loses
        <4> QED BY <3>3, <4>1
      <3>4. CASE \E c \in Containers : \E r \in At(Lines, c) : r.claim = k
        <4>1. k # 0
          BY <1>3, <2>1
        <4> QED BY <1>1, <1>5, <3>4, <4>1, ClaimsKept
      <3> QED BY <2>1, <3>1, <3>2, <3>3, <3>4 DEF OwedInv
    <2>2. CASE k \notin DOMAIN claims
      <3>1. k = Len(claims) + 1 /\ claims' # claims
        BY <1>2, <1>3, <1>5, <2>2
      <3>2. CASE SilentClaim
        <4>1. PICK c \in Commands : /\ claims' = Append(claims, c)
                                    /\ c.kind = "write-config" /\ c.broadcast
          BY <3>2 DEF SilentClaim
        <4>2. claims'[k] = c
          BY <1>3, <3>1, <4>1
        <4> QED BY <4>1, <4>2 DEF Silent
      <3>3. CASE \E d, x : NewAnswer(d, x)
        <4>1. PICK d, x : NewAnswer(d, x)
          BY <3>3
        <4>2. x.claim = k /\ d \in Containers /\ Added(Lines, Lines', d, x)
          BY <3>1, <4>1 DEF NewAnswer, Fresh, Added
        <4>3. x \in At(Lines', d)
          BY <4>2, LinesTypedNext, AddedChanges DEF Changes
        <4> QED BY <4>2, <4>3
      <3> QED BY <1>1, <3>1, <3>2, <3>3 DEF Kinds, Quiet, NewTelemetry, Moves, Rewrites,
               Acknowledged, Ambiguous, Sent, Loses
    <2> QED BY <2>1, <2>2
  <1>6. OwedInv'
    BY <1>5 DEF OwedInv, At
  <1> QED BY <1>4, <1>6

\* AnswerOwed: until a reset, every claimed command has its answer held or acknowledged.
THEOREM NoAnswerIsLost ==
  ASSUME NoSplicedDetails
  PROVE  Spec => []AnswerOwed
  <1>1. Init => LaneOK /\ OwedInv
    <2>1. Init => OwedInv
      BY DEF Init, OwedInv
    <2>2. Init => LaneOK
      <3> SUFFICES ASSUME Init, NEW c \in LaneContainers
                   PROVE  Lines[c] = <<>>
        BY DEF LaneOK, At
      <3> QED BY LinesAt DEF Init, OneOf, LaneContainers
    <2> QED BY <2>1, <2>2
  <1>2. TypeInv /\ TypeInv' /\ HeldInv /\ PlaceInv /\ LaneOK /\ OwedInv /\ [Next]_vars
          => LaneOK' /\ OwedInv'
    BY OwedNext
  <1>3. TypeInv /\ TypeInv' /\ HeldInv /\ PlaceInv /\ [Next]_vars => PlaceInv'
    BY PlaceNext
  <1>4. TypeInv /\ OwedInv => AnswerOwed
    <2> SUFFICES ASSUME TypeInv, NEW c \in Containers, NEW r \in At(Lines, c)
                 PROVE  r \in Held
      BY DEF OwedInv, AnswerOwed, Owed
    <2>1. Lines[c] \in Seq(AnswerType) /\ r \in AnswerType /\ r # None
      BY LinesTyped, CommandAssumption DEF LineTypes, At
    <2>2. r \in ToSet(Lines[c])
      BY <2>1 DEF At, ToSet
    <2>3. c \in {"pending", "events", "outbound"} => r \in Held
      BY <2>2, LinesAt DEF Held
    <2>4. \A x : r \in ToSet(OneOf(x)) => r = x
      BY <2>1 DEF OneOf, ToSet
    <2>5. c = "reboot" => r = pendingReboot
      <3>1. r \notin ToSet(<<>>)
        BY DEF ToSet
      <3> QED BY <2>2, <2>4, <3>1, LinesAt
    <2>6. (c = "core1" => r = core1Pending) /\ (c = "inflight" => r = inFlight)
      BY <2>2, <2>4, LinesAt
    <2> QED BY <2>1, <2>3, <2>5, <2>6 DEF Held, Containers
  <1> QED BY <1>1, <1>2, <1>3, <1>4, PlaceInit, TypeInvInit, TypeInvNext, HeldInvInit,
             HeldInvNext, PTL DEF Spec

=============================================================================
