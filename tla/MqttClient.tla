----------------------------- MODULE MqttClient -----------------------------
(***************************************************************************)
(* The MQTT 3.1.1 client (mqtt_client.py) under its owner (mqtt.py): one   *)
(* exchange at a time over one TCP stream, with the broker as the external *)
(* other end.                                                              *)
(*                                                                         *)
(* The stream to the client is a sequence of pieces.  wait_msg() takes a   *)
(* PUBLISH or PINGRESP whole, but of a PUBACK or SUBACK it takes only the  *)
(* first byte and leaves the body to the caller: those two are a "head" and*)
(* a "body" piece, and a body found where a frame should begin means that  *)
(* the stream is out of step.  What the broker may read is whole frames.   *)
(***************************************************************************)
EXTENDS Integers, Sequences, SequencesExt

CONSTANTS
    MaxPid,         \* the packet ID wraps to 1 after this (65535 in the code)
    MaxMessages,    \* bound: messages published
    MaxInbound,     \* bound: commands the broker sends in one session
    MaxSessions,    \* bound: connections opened
    MaxPings        \* bound: PINGREQs of one session

ASSUME BoundsAssumption ==
    /\ MaxPid \in Nat \ {0}
    /\ {MaxMessages, MaxInbound, MaxSessions, MaxPings} \subseteq Nat

Topics == <<"command", "info_response">>

VARIABLES
    pc,         \* the exchange under way, or "idle" (up) or "down"
    timeout,    \* the socket's mode: "finite" or "none" (blocks for ever)
    pid,        \* MQTTClient.pid
    waitPid,    \* packet ID the exchange waits for
    topic,      \* index in Topics of the subscription under way
    inbound,    \* PUBLISH handed to the callback and not yet acknowledged
    c2b,        \* frames on the way to the broker
    b2c,        \* pieces on the way to the client
    session,    \* Mqtt._connected: "up" or "down"
    cur,        \* number of the message being published
    received,   \* history: messages the broker received
    offered,    \* history: commands the broker sent in this session
    qos0,       \* those of them it sent at QoS 0
    delivered,  \* history: commands given to the callback in this session
    owed,       \* history: those of them that came at QoS 1
    acked,      \* history: commands the broker saw acknowledged
    opened,     \* connections opened so far
    pings       \* PINGREQs sent in this session

client == <<pc, timeout, pid, waitPid, topic, inbound, session, cur, delivered,
            owed, opened, pings>>
broker == <<received, offered, qos0, acked>>
vars == <<pc, timeout, pid, waitPid, topic, inbound, session, cur, delivered, owed,
          opened, pings, received, offered, qos0, acked, c2b, b2c>>

Init ==
    /\ pc = "down" /\ timeout = "none" /\ pid = 0 /\ waitPid = 0
    /\ topic = 1 /\ inbound = 0
    /\ c2b = <<>> /\ b2c = <<>>
    /\ session = "down" /\ cur = 1
    /\ received = <<>> /\ offered = <<>> /\ qos0 = {}
    /\ delivered = <<>> /\ owed = <<>> /\ acked = <<>>
    /\ opened = 0 /\ pings = 0

Frame(kind, id) == [kind |-> kind, id |-> id]
Whole(kind, id) == <<[kind |-> kind, part |-> "whole", id |-> id]>>
Split(kind, id) == <<[kind |-> kind, part |-> "head", id |-> 0],
                     [kind |-> kind, part |-> "body", id |-> id]>>

NextPid == IF pid = MaxPid THEN 1 ELSE pid + 1

Waiting == {"connack", "suback", "puback", "pingresp", "poll"}

(***************************************************************************)
(* Exchanges begin                                                         *)
(***************************************************************************)

(* Mqtt.connect(): the old socket is closed, a new client (packet IDs from *)
(* 0) opens a new one, and the whole handshake runs under the timeout.     *)
Connect ==
    /\ pc = "down" /\ opened < MaxSessions
    /\ pc' = "connack" /\ timeout' = "finite"
    /\ pid' = 0 /\ topic' = 1 /\ inbound' = 0 /\ pings' = 0
    /\ c2b' = <<Frame("connect", 0)>> /\ b2c' = <<>>
    /\ opened' = opened + 1
    /\ offered' = <<>> /\ qos0' = {} /\ delivered' = <<>> /\ owed' = <<>> /\ acked' = <<>>
    /\ UNCHANGED <<waitPid, session, cur, received>>

(* subscribe() of Topics[t], inside the handshake.                         *)
Subscribe(t) ==
    /\ topic' = t
    /\ pid' = NextPid /\ waitPid' = NextPid
    /\ c2b' = Append(c2b, Frame("subscribe", NextPid))
    /\ pc' = "suback"

(* publish(): a frame of several segments under one timeout; the broker    *)
(* sees it when its last segment is out.                                   *)
Publish ==
    /\ pc = "idle" /\ cur <= MaxMessages
    /\ timeout' = "finite"
    /\ pid' = NextPid /\ waitPid' = NextPid
    /\ c2b' = Append(c2b, [kind |-> "publish", id |-> NextPid, msg |-> cur])
    /\ pc' = "puback"
    /\ UNCHANGED <<topic, inbound, session, cur, delivered, owed, opened, pings,
                   broker, b2c>>

Ping ==
    /\ pc = "idle" /\ pings < MaxPings
    /\ timeout' = "finite"
    /\ c2b' = Append(c2b, Frame("pingreq", 0))
    /\ pc' = "pingresp" /\ pings' = pings + 1
    /\ UNCHANGED <<pid, waitPid, topic, inbound, session, cur, delivered, owed, opened,
                   broker, b2c>>

(* check_msg(): only once the first byte of a packet is there.             *)
Poll ==
    /\ pc = "idle" /\ b2c # <<>>
    /\ timeout' = "finite"
    /\ pc' = "poll"
    /\ UNCHANGED <<pid, waitPid, topic, inbound, session, cur, delivered, owed, opened,
                   pings, broker, c2b, b2c>>

(***************************************************************************)
(* wait_msg() and what its callers do with its answer                      *)
(***************************************************************************)

(* The exchange is over: the socket goes back to blocking mode.            *)
Finish == pc' = "idle" /\ timeout' = "none"

AtFrame(kind) == b2c # <<>> /\ Head(b2c).kind = kind /\ Head(b2c).part # "body"

(* CONNACK: the first of the two subscriptions goes out.                   *)
ConnackIn ==
    /\ pc = "connack" /\ AtFrame("connack")
    /\ b2c' = Tail(b2c)
    /\ Subscribe(1)
    /\ UNCHANGED <<timeout, inbound, session, cur, delivered, owed, opened, pings, broker>>

(* wait_msg() consumes a PINGRESP and returns None, which ends a ping and a*)
(* poll; the other waits go on.                                            *)
PingrespIn ==
    /\ pc \in Waiting \ {"connack"} /\ AtFrame("pingresp") /\ inbound = 0
    /\ b2c' = Tail(b2c)
    /\ IF pc \in {"pingresp", "poll"} THEN Finish ELSE UNCHANGED <<pc, timeout>>
    /\ UNCHANGED <<pid, waitPid, topic, inbound, session, cur, delivered, owed, opened,
                   pings, broker, c2b>>

(* A PUBLISH is read whole and given to the callback ...                   *)
\* mutant: a command that arrives inside a publish is acknowledged unseen
PublishInUnseen ==
    /\ pc \in Waiting \ {"connack"} /\ AtFrame("publish") /\ inbound = 0
    /\ Head(b2c).id \notin qos0
    /\ b2c' = Tail(b2c)
    /\ IF pc = "puback" THEN UNCHANGED <<delivered, owed>>
       ELSE /\ delivered' = Append(delivered, Head(b2c).id)
            /\ owed' = Append(owed, Head(b2c).id)
    /\ inbound' = Head(b2c).id
    /\ UNCHANGED <<pc, timeout, pid, waitPid, topic, session, cur, opened, pings,
                   broker, c2b>>

PublishIn ==
    /\ pc \in Waiting \ {"connack"} /\ AtFrame("publish") /\ inbound = 0
    /\ Head(b2c).id \notin qos0
    /\ b2c' = Tail(b2c)
    /\ delivered' = Append(delivered, Head(b2c).id)
    /\ owed' = Append(owed, Head(b2c).id)
    /\ inbound' = Head(b2c).id
    /\ UNCHANGED <<pc, timeout, pid, waitPid, topic, session, cur, opened, pings,
                   broker, c2b>>

(* ... one of QoS 0 and that is all of it, which ends a poll ...           *)
PublishInQos0 ==
    /\ pc \in Waiting \ {"connack"} /\ AtFrame("publish") /\ inbound = 0
    /\ Head(b2c).id \in qos0
    /\ b2c' = Tail(b2c)
    /\ delivered' = Append(delivered, Head(b2c).id)
    /\ IF pc = "poll" THEN Finish ELSE UNCHANGED <<pc, timeout>>
    /\ UNCHANGED <<pid, waitPid, topic, inbound, session, cur, owed, opened, pings,
                   broker, c2b>>

(* ... one of QoS 1 is acknowledged after the callback has returned.  Only *)
(* a poll is over then.                                                    *)
\* mutant: publish() returns at the first packet that wait_msg() hands back
AckInboundEndsPublish ==
    /\ inbound # 0
    /\ c2b' = Append(c2b, Frame("puback", inbound))
    /\ inbound' = 0
    /\ cur' = IF pc = "puback" THEN cur + 1 ELSE cur
    /\ IF pc \in {"poll", "puback"} THEN Finish ELSE UNCHANGED <<pc, timeout>>
    /\ UNCHANGED <<pid, waitPid, topic, session, delivered, owed, opened, pings,
                   broker, b2c>>

AckInbound ==
    /\ inbound # 0
    /\ c2b' = Append(c2b, Frame("puback", inbound))
    /\ inbound' = 0
    /\ IF pc = "poll" THEN Finish ELSE UNCHANGED <<pc, timeout>>
    /\ UNCHANGED <<pid, waitPid, topic, session, cur, delivered, owed, opened, pings,
                   broker, b2c>>

(* The head of a PUBACK or SUBACK is returned to the caller.  The one that *)
(* waits for it reads the body; a poll is over and the other waits go on,  *)
(* with the body still in the stream.                                      *)
AckHead ==
    /\ pc \in Waiting \ {"connack"} /\ inbound = 0
    /\ \E kind \in {"puback", "suback"} :
          /\ AtFrame(kind)
          /\ b2c' = Tail(b2c)
          /\ IF pc = kind
               THEN /\ pc' = IF kind = "puback" THEN "puback_body" ELSE "suback_body"
                    /\ UNCHANGED timeout
               ELSE IF pc = "poll" THEN Finish ELSE UNCHANGED <<pc, timeout>>
    /\ UNCHANGED <<pid, waitPid, topic, inbound, session, cur, delivered, owed, opened,
                   pings, broker, c2b>>

(* publish() returns at the PUBACK of its own packet ID and waits on at any*)
(* other.                                                                  *)
PubackBody ==
    /\ pc = "puback_body" /\ b2c # <<>>
    /\ b2c' = Tail(b2c)
    /\ IF Head(b2c).id = waitPid
         THEN Finish /\ cur' = cur + 1
         ELSE pc' = "puback" /\ UNCHANGED <<timeout, cur>>
    /\ UNCHANGED <<pid, waitPid, topic, inbound, session, delivered, owed, opened, pings,
                   broker, c2b>>

(* A grant for this subscription: the next one, or the session is up.      *)
\* mutant: blocking mode is restored after the first subscription
SubackBodyUnbounded ==
    /\ pc = "suback_body" /\ b2c # <<>>
    /\ Head(b2c).id = waitPid
    /\ b2c' = Tail(b2c)
    /\ timeout' = "none"
    /\ IF topic < Len(Topics)
         THEN Subscribe(topic + 1) /\ UNCHANGED session
         ELSE /\ pc' = "idle" /\ session' = "up"
              /\ UNCHANGED <<topic, pid, waitPid, c2b>>
    /\ UNCHANGED <<inbound, cur, delivered, owed, opened, pings, broker>>

SubackBody ==
    /\ pc = "suback_body" /\ b2c # <<>>
    /\ Head(b2c).id = waitPid
    /\ b2c' = Tail(b2c)
    /\ IF topic < Len(Topics)
         THEN Subscribe(topic + 1) /\ UNCHANGED <<timeout, session>>
         ELSE /\ Finish /\ session' = "up"
              /\ UNCHANGED <<topic, pid, waitPid, c2b>>
    /\ UNCHANGED <<inbound, cur, delivered, owed, opened, pings, broker>>

(* The exchange fails: a timeout, an EOF, a refused grant, a frame that is *)
(* not one the client takes (the socket is closed over it), or a write that*)
(* makes no progress.  The timeout is restored and the session marked down.*)
\* mutant: a failed publish leaves the session up
ExchangeFailsKept ==
    /\ pc \notin {"idle", "down"}
    /\ IF pc = "puback"
         THEN pc' = "idle" /\ UNCHANGED session
         ELSE pc' = "down" /\ session' = "down"
    /\ timeout' = "none"
    /\ inbound' = 0
    /\ UNCHANGED <<pid, waitPid, topic, cur, delivered, owed, opened, pings, broker,
                   c2b, b2c>>

ExchangeFails ==
    /\ pc \notin {"idle", "down"}
    /\ pc' = "down" /\ session' = "down" /\ timeout' = "none"
    /\ inbound' = 0
    /\ UNCHANGED <<pid, waitPid, topic, cur, delivered, owed, opened, pings, broker,
                   c2b, b2c>>

(* Core 0 sees that Wi-Fi is gone and marks the idle session down.         *)
WifiLost ==
    /\ pc = "idle"
    /\ pc' = "down" /\ session' = "down"
    /\ UNCHANGED <<timeout, pid, waitPid, topic, inbound, cur, delivered, owed, opened,
                   pings, broker, c2b, b2c>>

(***************************************************************************)
(* The broker, which conforms to MQTT 3.1.1.  It may still read what an    *)
(* abandoned connection has sent, until the next CONNECT takes it over.    *)
(***************************************************************************)
BrokerAnswers ==
    /\ c2b # <<>>
    /\ c2b' = Tail(c2b)
    /\ LET f == Head(c2b)
       IN  /\ b2c' = b2c \o
                CASE f.kind = "connect"   -> Whole("connack", 0)
                  [] f.kind = "subscribe" -> Split("suback", f.id)
                  [] f.kind = "publish"   -> Split("puback", f.id)
                  [] f.kind = "pingreq"   -> Whole("pingresp", 0)
                  [] f.kind = "puback"    -> <<>>
           /\ received' = IF f.kind = "publish" THEN Append(received, f.msg)
                          ELSE received
           /\ acked' = IF f.kind = "puback" THEN Append(acked, f.id) ELSE acked
    /\ UNCHANGED <<client, offered, qos0>>

(* A command may go out at QoS 0 or 1 from the moment the client has       *)
(* subscribed, also ahead of the SUBACK.                                   *)
Subscribed == pc \notin {"down", "connack"}

BrokerSends ==
    /\ Subscribed
    /\ Len(offered) < MaxInbound
    /\ offered' = Append(offered, Len(offered) + 1)
    /\ qos0' \in {qos0, qos0 \cup {Len(offered) + 1}}
    /\ b2c' = b2c \o Whole("publish", Len(offered) + 1)
    /\ UNCHANGED <<client, received, acked, c2b>>

Next ==
    \/ Connect \/ Publish \/ Ping \/ Poll
    \/ ConnackIn \/ PingrespIn \/ PublishIn \/ PublishInQos0 \/ AckInbound \/ AckHead
    \/ PubackBody \/ SubackBody \/ ExchangeFails \/ WifiLost
    \/ BrokerAnswers \/ BrokerSends

Spec == Init /\ [][Next]_vars

(***************************************************************************)
(* Properties                                                              *)
(***************************************************************************)

(* No exchange ever begins to read in the middle of a frame: whatever      *)
(* failed, timed out or arrived late before, the bodies wait_msg() leaves  *)
(* behind are read by the caller they were meant for.                      *)
StreamInSync ==
    pc \in Waiting \cup {"idle"} /\ b2c # <<>> => Head(b2c).part # "body"

(* Core 0 never blocks on a socket that would block for ever: every wait   *)
(* runs under a timeout, also the nested ones of a handshake, of a PUBLISH *)
(* taken inside another exchange, and of its PUBACK.                       *)
BoundedWaits == pc \notin {"idle", "down"} => timeout = "finite"

(* The broker never sees a command acknowledged that the callback has not  *)
(* been given, and sees those of QoS 1, and only those, acknowledged in    *)
(* the order it sent them, with none passed over.                          *)
AckedAfterCallback == IsPrefix(acked, owed)

(* The client implements the link the rest of Core 0 relies on.            *)
Link == INSTANCE MqttLink
ImplementsLink == Link!Spec

=============================================================================
