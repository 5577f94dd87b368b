------------------------------ MODULE MqttLink ------------------------------
(***************************************************************************)
(* What the MQTT client promises the rest of Core 0: messages reach the    *)
(* broker at least once and in the order they were published, a publish    *)
(* that returns has been received, and within one session the commands the *)
(* broker sends are handed to the callback once, in order, with none       *)
(* skipped.  A session that is lost takes what was under way with it.      *)
(***************************************************************************)
EXTENDS Naturals, Sequences, SequencesExt

VARIABLES
    session,    \* "up" or "down"
    cur,        \* number of the message being published, all before it are done
    received,   \* what the broker received, in order
    offered,    \* what the broker sent in this session
    delivered   \* what the callback was given in this session

vars == <<session, cur, received, offered, delivered>>

Init ==
    /\ session = "down"
    /\ cur = 1 /\ received = <<>>
    /\ offered = <<>> /\ delivered = <<>>

(* The message may be received several times before its publish returns.   *)
Receive ==
    /\ received' = Append(received, cur)
    /\ UNCHANGED <<session, cur, offered, delivered>>

PublishReturns ==
    /\ session = "up"
    /\ cur \in ToSet(received)
    /\ cur' = cur + 1
    /\ UNCHANGED <<session, received, offered, delivered>>

Offer ==
    /\ \E m \in {Len(offered) + 1} : offered' = Append(offered, m)
    /\ UNCHANGED <<session, cur, received, delivered>>

(* Commands may arrive while the session is still being set up.            *)
Deliver ==
    /\ Len(delivered) < Len(offered)
    /\ delivered' = Append(delivered, offered[Len(delivered) + 1])
    /\ UNCHANGED <<session, cur, received, offered>>

Up ==
    /\ session = "down" /\ session' = "up"
    /\ UNCHANGED <<cur, received, offered, delivered>>

Down ==
    /\ session' = "down"
    /\ UNCHANGED <<cur, received, offered, delivered>>

(* A new connection begins with nothing of the old one.                    *)
Renew ==
    /\ session = "down"
    /\ offered' = <<>> /\ delivered' = <<>>
    /\ UNCHANGED <<session, cur, received>>

Next == Receive \/ PublishReturns \/ Offer \/ Deliver \/ Up \/ Down \/ Renew

Spec == Init /\ [][Next]_vars

=============================================================================
