-------------------------- MODULE MqttClientProofs --------------------------
(***************************************************************************)
(* Proofs about MqttClient for any number of messages, commands, sessions  *)
(* and packet IDs: every wait is bounded, the stream stays in step, a      *)
(* command is acknowledged only after its callback, and the client         *)
(* implements MqttLink.  The invariant says what may be on its way in each *)
(* direction, position by position.                                        *)
(***************************************************************************)
EXTENDS MqttClient, SequenceTheorems, TLAPS

(* Nothing waits before the first connection.                              *)
LEMMA InitBounded == Init => BoundedWaits
  BY DEF Init, BoundedWaits

(* Every exchange starts by setting the timeout, and only its end, or the  *)
(* end of its session, sets the socket back.                               *)
LEMMA NextBounded == BoundedWaits /\ [Next]_vars => BoundedWaits'
  <1> SUFFICES ASSUME BoundedWaits, [Next]_vars
               PROVE  BoundedWaits'
    OBVIOUS
  <1> USE DEF BoundedWaits
  <1>1. CASE Connect \/ Publish \/ Ping \/ Poll
    BY <1>1 DEF Connect, Publish, Ping, Poll
  <1>2. CASE ConnackIn
    BY <1>2 DEF ConnackIn, Subscribe
  <1>3. CASE PingrespIn
    BY <1>3 DEF PingrespIn, Finish, Waiting
  <1>4. CASE PublishIn
    BY <1>4 DEF PublishIn, Waiting
  <1>5. CASE AckInbound
    BY <1>5 DEF AckInbound, Finish
  <1>6. CASE AckHead
    <2>1. pc \in Waiting
      BY <1>6 DEF AckHead
    <2>2. timeout = "finite"
      BY <2>1 DEF Waiting
    <2>3. UNCHANGED timeout \/ pc' = "idle"
      BY <1>6 DEF AckHead, Finish
    <2> QED BY <2>2, <2>3
  <1>7. CASE PubackBody
    BY <1>7 DEF PubackBody, Finish
  <1>8. CASE SubackBody
    BY <1>8 DEF SubackBody, Subscribe, Finish
  <1>9. CASE ExchangeFails \/ WifiLost
    BY <1>9 DEF ExchangeFails, WifiLost
  <1>10. CASE BrokerAnswers \/ BrokerSends
    BY <1>10 DEF BrokerAnswers, BrokerSends, client
  <1>11. CASE UNCHANGED vars
    BY <1>11 DEF vars
  <1>12. CASE PublishInQos0
    BY <1>12 DEF PublishInQos0, Finish, Waiting
  <1> QED BY <1>1, <1>2, <1>3, <1>4, <1>5, <1>6, <1>7, <1>8, <1>9, <1>10, <1>11, <1>12
          DEF Next

(* Core 0 never waits on a socket in blocking mode, however the exchanges  *)
(* nest: mqtt_client.py sets the timeout before each of them.              *)
THEOREM WaitsAreBounded == Spec => []BoundedWaits
  BY InitBounded, NextBounded, PTL DEF Spec
-----------------------------------------------------------------------------
(***************************************************************************)
(* What is on its way.  Between exchanges nothing solicited is under way;  *)
(* within one there is its request, its answer or neither, and the broker's*)
(* commands and the client's acknowledgements of them come in between, in  *)
(* order and without a gap.                                                *)
(***************************************************************************)
Frames ==
    [kind : {"connect", "subscribe", "pingreq", "puback"}, id : Nat]
        \cup [kind : {"publish"}, id : Nat, msg : Nat]

Pieces == [kind : {"connack", "suback", "puback", "pingresp", "publish"},
           part : {"whole", "head", "body"}, id : Nat]

\* PUBACK and SUBACK come in two pieces, everything else in one.
Piecewise(in) ==
    \A i \in 1..Len(in) :
        in[i].part \in {"head", "body"} <=> in[i].kind \in {"puback", "suback"}

\* A body follows every head, and nothing else.
Paired(in) ==
    /\ \A i \in 1..Len(in) - 1 : in[i].part = "head" <=> in[i + 1].part = "body"
    /\ in # <<>> => in[Len(in)].part # "head"

\* The stream begins with a body exactly where the caller reads one.
Bodies == {"puback_body", "suback_body"}
AtBody(p, in) == p \in Bodies <=> in # <<>> /\ in[1].part = "body"

AnswerTo(kind) ==
    CASE kind = "connect"   -> "connack"
      [] kind = "subscribe" -> "suback"
      [] kind = "publish"   -> "puback"
      [] kind = "pingreq"   -> "pingresp"
      [] OTHER              -> "none"

IsRequest(f) == f.kind # "puback"
IsAnswer(x) == x.kind # "publish" /\ x.part # "body"
NoRequest(out) == \A i \in 1..Len(out) : ~ IsRequest(out[i])
NoAnswer(in) == \A i \in 1..Len(in) : ~ IsAnswer(in[i])

\* One exchange at a time: its request is on its way, or its answer, or neither.
OneRequest(p, out) ==
    /\ \A i, j \in 1..Len(out) : IsRequest(out[i]) /\ IsRequest(out[j]) => i = j
    /\ \A i \in 1..Len(out) : IsRequest(out[i]) => AnswerTo(out[i].kind) = p
OneAnswer(p, in) ==
    /\ \A i, j \in 1..Len(in) : IsAnswer(in[i]) /\ IsAnswer(in[j]) => i = j
    /\ \A i \in 1..Len(in) : IsAnswer(in[i]) => in[i].kind = p
OneExchange(p, out, in) ==
    /\ OneRequest(p, out)
    /\ OneAnswer(p, in)
    /\ NoRequest(out) \/ NoAnswer(in)

\* The packets of this kind that are on their way are the m+1st to the nth of L, in order.
Carries(s, kind, L, m, n) ==
    /\ m <= n
    /\ \A i \in 1..Len(s) : s[i].kind = kind => \E k \in (m + 1)..n : s[i].id = L[k]
    /\ \A i, j \in 1..Len(s) :
          s[i].kind = kind /\ s[j].kind = kind /\ i < j => s[i].id < s[j].id
    /\ \A k \in (m + 1)..n : \E i \in 1..Len(s) : s[i].kind = kind /\ s[i].id = L[k]

Rising(L) == \A a, b \in 1..Len(L) : a < b => L[a] < L[b]
Counting(s) == \A i \in 1..Len(s) : s[i] = i

\* What an Append and a Tail do to a sequence, element by element.
LEMMA Appended ==
  ASSUME NEW S, NEW s \in Seq(S), NEW x \in S
  PROVE  /\ Append(s, x) \in Seq(S)
         /\ Len(Append(s, x)) = Len(s) + 1
         /\ \A i \in 1..Len(s) : Append(s, x)[i] = s[i]
         /\ Append(s, x)[Len(s) + 1] = x
         /\ Append(s, x) # <<>>
         /\ s \o <<x>> = Append(s, x)
  <1>1. s \o <<x>> = Append(s, x)
    BY AppendIsConcat
  <1> QED BY <1>1, AppendProperties

\* What a Tail does: every element moves up by one.
LEMMA Tailed ==
  ASSUME NEW S, NEW s \in Seq(S), s # <<>>
  PROVE  /\ Tail(s) \in Seq(S)
         /\ Len(s) \in Nat \ {0}
         /\ Len(Tail(s)) = Len(s) - 1
         /\ \A i \in 1..Len(s) - 1 : Tail(s)[i] = s[i + 1]
         /\ Head(s) = s[1] /\ Head(s) \in S
  BY HeadTailProperties, ElementOfSeq, LenProperties, EmptySeq

\* A packet of another kind changes nothing about the numbers on their way.
LEMMA CarriesOther ==
  ASSUME NEW S, NEW s \in Seq(S), NEW x \in S, NEW kind, NEW L, NEW m \in Nat, NEW n \in Nat,
         Carries(s, kind, L, m, n), x.kind # kind
  PROVE  Carries(Append(s, x), kind, L, m, n)
  <1> DEFINE t == Append(s, x)
  <1>1. Len(s) \in Nat /\ Len(t) = Len(s) + 1 /\ t[Len(s) + 1] = x
        /\ \A i \in 1..Len(s) : t[i] = s[i]
    BY Appended, LenProperties
  <1>2. \A i \in 1..Len(t) : t[i].kind = kind => i \in 1..Len(s)
    BY <1>1
  <1> HIDE DEF t
  <1>3. \A i \in 1..Len(s) : i \in 1..Len(t) /\ t[i] = s[i]
    BY <1>1
  <1>c. /\ m <= n
        /\ \A i \in 1..Len(s) : s[i].kind = kind => \E k \in (m + 1)..n : s[i].id = L[k]
        /\ \A i, j \in 1..Len(s) :
             s[i].kind = kind /\ s[j].kind = kind /\ i < j => s[i].id < s[j].id
        /\ \A k \in (m + 1)..n : \E i \in 1..Len(s) : s[i].kind = kind /\ s[i].id = L[k]
    BY DEF Carries
  <1>4. \A i \in 1..Len(t) : t[i].kind = kind => \E k \in (m + 1)..n : t[i].id = L[k]
    <2> SUFFICES ASSUME NEW i \in 1..Len(t), t[i].kind = kind
                 PROVE  \E k \in (m + 1)..n : t[i].id = L[k]
      OBVIOUS
    <2>1. i \in 1..Len(s) /\ t[i] = s[i]
      BY <1>2, <1>3
    <2> QED BY <1>c, <2>1
  <1>5. \A i, j \in 1..Len(t) :
          t[i].kind = kind /\ t[j].kind = kind /\ i < j => t[i].id < t[j].id
    <2> SUFFICES ASSUME NEW i \in 1..Len(t), NEW j \in 1..Len(t), i < j,
                        t[i].kind = kind, t[j].kind = kind
                 PROVE  t[i].id < t[j].id
      OBVIOUS
    <2>1. i \in 1..Len(s) /\ t[i] = s[i] /\ j \in 1..Len(s) /\ t[j] = s[j]
      BY <1>2, <1>3
    <2> QED BY <1>c, <2>1
  <1>6. \A k \in (m + 1)..n : \E i \in 1..Len(t) : t[i].kind = kind /\ t[i].id = L[k]
    BY <1>c, <1>3
  <1>7. Carries(t, kind, L, m, n)
    BY <1>c, <1>4, <1>5, <1>6 DEF Carries
  <1> QED BY <1>7 DEF t

\* What comes after the nth number does not matter.
LEMMA CarriesLonger ==
  ASSUME NEW s, NEW kind, NEW L \in Seq(Nat), NEW v \in Nat, NEW m \in Nat, NEW n \in Nat,
         n <= Len(L), Carries(s, kind, L, m, n)
  PROVE  Carries(s, kind, Append(L, v), m, n)
  <1>1. Len(L) \in Nat /\ \A k \in 1..Len(L) : Append(L, v)[k] = L[k]
    BY Appended, LenProperties
  <1>2. \A k \in (m + 1)..n : k \in 1..Len(L)
    BY <1>1
  <1>3. \A k \in (m + 1)..n : Append(L, v)[k] = L[k]
    BY <1>1, <1>2
  <1> QED BY <1>3 DEF Carries

\* The next one of this kind extends them.
LEMMA CarriesNext ==
  ASSUME NEW S, NEW s \in Seq(S), NEW x \in S, NEW kind, NEW L \in Seq(Nat),
         NEW m \in Nat, NEW n \in Nat, n + 1 <= Len(L), Rising(L),
         Carries(s, kind, L, m, n), x.kind = kind, x.id = L[n + 1]
  PROVE  Carries(Append(s, x), kind, L, m, n + 1)
  <1> DEFINE t == Append(s, x)
  <1>1. Len(s) \in Nat /\ Len(t) = Len(s) + 1 /\ t[Len(s) + 1] = x
        /\ \A i \in 1..Len(s) : t[i] = s[i]
    BY Appended, LenProperties
  <1>2. \A i \in 1..Len(t) : i \in 1..Len(s) \/ i = Len(s) + 1
    BY <1>1
  <1>3. \A i \in 1..Len(s) : s[i].kind = kind => \E k \in (m + 1)..n : s[i].id = L[k]
    BY DEF Carries
  <1>n. Len(L) \in Nat /\ m <= n
    BY LenProperties DEF Carries
  <1>r. \A k \in (m + 1)..n : L[k] < L[n + 1]
    BY <1>n DEF Rising
  <1> HIDE DEF t
  <1>5. \A i \in 1..Len(t) : t[i].kind = kind => \E k \in (m + 1)..(n + 1) : t[i].id = L[k]
    <2> SUFFICES ASSUME NEW i \in 1..Len(t), t[i].kind = kind
                 PROVE  \E k \in (m + 1)..(n + 1) : t[i].id = L[k]
      OBVIOUS
    <2>1. CASE i \in 1..Len(s)
      <3>1. PICK k \in (m + 1)..n : s[i].id = L[k]
        BY <1>1, <1>3, <2>1
      <3>2. k \in (m + 1)..(n + 1)
        BY <1>n
      <3> QED BY <1>1, <2>1, <3>1, <3>2
    <2>2. CASE i = Len(s) + 1
      <3>1. n + 1 \in (m + 1)..(n + 1)
        BY <1>n
      <3> QED BY <1>1, <2>2, <3>1
    <2> QED BY <1>2, <2>1, <2>2
  <1>6. \A i, j \in 1..Len(t) :
          t[i].kind = kind /\ t[j].kind = kind /\ i < j => t[i].id < t[j].id
    <2> SUFFICES ASSUME NEW i \in 1..Len(t), NEW j \in 1..Len(t), i < j,
                        t[i].kind = kind, t[j].kind = kind
                 PROVE  t[i].id < t[j].id
      OBVIOUS
    <2>0. i \in 1..Len(s) /\ (j \in 1..Len(s) \/ j = Len(s) + 1)
      BY <1>1
    <2>1. t[i] = s[i] /\ \E k \in (m + 1)..n : s[i].id = L[k]
      BY <1>1, <1>3, <2>0
    <2>2. CASE j \in 1..Len(s)
      BY <1>1, <2>0, <2>1, <2>2 DEF Carries
    <2>3. CASE j = Len(s) + 1
      <3>1. t[j].id = L[n + 1]
        BY <1>1, <2>3
      <3> QED BY <2>1, <3>1, <1>r
    <2> QED BY <2>0, <2>2, <2>3
  <1>7. \A k \in (m + 1)..(n + 1) : \E i \in 1..Len(t) : t[i].kind = kind /\ t[i].id = L[k]
    <2> SUFFICES ASSUME NEW k \in (m + 1)..(n + 1)
                 PROVE  \E i \in 1..Len(t) : t[i].kind = kind /\ t[i].id = L[k]
      OBVIOUS
    <2>1. CASE k = n + 1
      BY <1>1, <2>1
    <2>2. CASE k # n + 1
      <3>1. PICK i \in 1..Len(s) : s[i].kind = kind /\ s[i].id = L[k]
        BY <2>2 DEF Carries
      <3> QED BY <1>1, <3>1
    <2> QED BY <2>1, <2>2
  <1>8. Carries(t, kind, L, m, n + 1)
    BY <1>n, <1>5, <1>6, <1>7 DEF Carries
  <1> QED BY <1>8 DEF t

\* The first packet, if it is of another kind, may be taken.
LEMMA CarriesTail ==
  ASSUME NEW S, NEW s \in Seq(S), s # <<>>, NEW kind, NEW L, NEW m \in Nat, NEW n \in Nat,
         Carries(s, kind, L, m, n), Head(s).kind # kind
  PROVE  Carries(Tail(s), kind, L, m, n)
  <1> DEFINE t == Tail(s)
  <1>1. /\ Len(s) \in Nat \ {0} /\ Len(t) = Len(s) - 1 /\ Head(s) = s[1]
        /\ \A i \in 1..Len(s) - 1 : t[i] = s[i + 1]
    BY Tailed
  <1> HIDE DEF t
  <1>2. \A i \in 1..Len(t) : i + 1 \in 1..Len(s) /\ t[i] = s[i + 1]
    BY <1>1
  <1>3. \A i \in 1..Len(s) : s[i].kind = kind => i - 1 \in 1..Len(t) /\ t[i - 1] = s[i]
    BY <1>1
  <1>4. \A k \in (m + 1)..n : \E i \in 1..Len(t) : t[i].kind = kind /\ t[i].id = L[k]
    <2> SUFFICES ASSUME NEW k \in (m + 1)..n
                 PROVE  \E i \in 1..Len(t) : t[i].kind = kind /\ t[i].id = L[k]
      OBVIOUS
    <2>1. PICK i \in 1..Len(s) : s[i].kind = kind /\ s[i].id = L[k]
      BY DEF Carries
    <2>2. i - 1 \in 1..Len(t) /\ t[i - 1] = s[i]
      BY <1>3, <2>1
    <2> QED BY <2>1, <2>2
  <1>5. \A i, j \in 1..Len(t) :
          t[i].kind = kind /\ t[j].kind = kind /\ i < j => t[i].id < t[j].id
    <2> SUFFICES ASSUME NEW i \in 1..Len(t), NEW j \in 1..Len(t), i < j,
                        t[i].kind = kind, t[j].kind = kind
                 PROVE  t[i].id < t[j].id
      OBVIOUS
    <2>1. /\ i + 1 \in 1..Len(s) /\ t[i] = s[i + 1]
          /\ j + 1 \in 1..Len(s) /\ t[j] = s[j + 1]
      BY <1>2
    <2>i. i + 1 < j + 1
      BY <1>1
    <2>2. \A a, b \in 1..Len(s) :
            s[a].kind = kind /\ s[b].kind = kind /\ a < b => s[a].id < s[b].id
      BY DEF Carries
    <2> QED BY <2>1, <2>i, <2>2
  <1>6. \A i \in 1..Len(t) : t[i].kind = kind => \E k \in (m + 1)..n : t[i].id = L[k]
    BY <1>2 DEF Carries
  <1>7. Carries(t, kind, L, m, n)
    <2>1. m <= n
      BY DEF Carries
    <2> QED BY <1>4, <1>5, <1>6, <2>1 DEF Carries
  <1> QED BY <1>7 DEF t

\* The first packet of the kind is the next one.
LEMMA CarriesHead ==
  ASSUME NEW S, NEW s \in Seq(S), s # <<>>, NEW kind, NEW L \in Seq(Nat),
         NEW m \in Nat, NEW n \in Nat, n <= Len(L), Rising(L),
         Carries(s, kind, L, m, n), Head(s).kind = kind
  PROVE  Head(s).id = L[m + 1] /\ m + 1 <= n /\ Carries(Tail(s), kind, L, m + 1, n)
  <1> DEFINE t == Tail(s)
  <1>1. /\ Len(s) \in Nat \ {0} /\ Len(t) = Len(s) - 1 /\ Head(s) = s[1]
        /\ \A i \in 1..Len(s) - 1 : t[i] = s[i + 1]
    BY Tailed
  <1> HIDE DEF t
  <1>2. \A i \in 1..Len(t) : i + 1 \in 1..Len(s) /\ t[i] = s[i + 1]
    BY <1>1
  <1>3. \A i \in 1..Len(s) : i # 1 => i - 1 \in 1..Len(t) /\ t[i - 1] = s[i]
    BY <1>1
  <1>4. s[1].kind = kind /\ 1 \in 1..Len(s)
    BY <1>1
  <1>n. Len(L) \in Nat /\ \A k \in (m + 1)..n : k \in 1..Len(L) /\ L[k] \in Nat
    BY LenProperties, ElementOfSeq
  <1>r. \A k \in (m + 1)..n : k # m + 1 => L[m + 1] < L[k]
    <2> SUFFICES ASSUME NEW k \in (m + 1)..n, k # m + 1
                 PROVE  L[m + 1] < L[k]
      OBVIOUS
    <2>1. m + 1 \in 1..Len(L) /\ k \in 1..Len(L) /\ m + 1 < k
      BY <1>n
    <2> QED BY <2>1 DEF Rising
  <1>h. PICK h \in (m + 1)..n : s[1].id = L[h]
    BY <1>4 DEF Carries
  <1>5. m + 1 <= n /\ m + 1 \in (m + 1)..n
    BY <1>h
  <1>6. \A i \in 1..Len(s) : s[i].kind = kind /\ i # 1 => s[1].id < s[i].id
    BY <1>1, <1>4 DEF Carries
  <1>7. s[1].id = L[m + 1]
    <2>1. PICK i \in 1..Len(s) : s[i].kind = kind /\ s[i].id = L[m + 1]
      BY <1>5 DEF Carries
    <2>2. CASE i = 1
      BY <2>1, <2>2
    <2>3. CASE i # 1
      <3>1. L[h] < L[m + 1]
        BY <1>h, <1>6, <2>1, <2>3
      <3>2. L[h] \in Nat /\ L[m + 1] \in Nat /\ (h = m + 1 \/ L[m + 1] < L[h])
        BY <1>n, <1>r, <1>5
      <3> QED BY <3>1, <3>2
    <2> QED BY <2>2, <2>3
  <1>8. \A i \in 1..Len(t) : t[i].kind = kind => \E k \in (m + 1 + 1)..n : t[i].id = L[k]
    <2> SUFFICES ASSUME NEW i \in 1..Len(t), t[i].kind = kind
                 PROVE  \E k \in (m + 1 + 1)..n : t[i].id = L[k]
      OBVIOUS
    <2>1. i + 1 \in 1..Len(s) /\ t[i] = s[i + 1] /\ i + 1 # 1
      BY <1>1, <1>2
    <2>2. PICK k \in (m + 1)..n : s[i + 1].id = L[k]
      BY <2>1 DEF Carries
    <2>3. L[m + 1] < L[k] /\ L[m + 1] \in Nat
      BY <1>5, <1>6, <1>7, <1>n, <2>1, <2>2
    <2>4. k # m + 1
      BY <2>3
    <2>5. k \in (m + 1 + 1)..n
      BY <2>4
    <2> QED BY <2>1, <2>2, <2>5
  <1>9. \A i, j \in 1..Len(t) :
          t[i].kind = kind /\ t[j].kind = kind /\ i < j => t[i].id < t[j].id
    <2> SUFFICES ASSUME NEW i \in 1..Len(t), NEW j \in 1..Len(t), i < j,
                        t[i].kind = kind, t[j].kind = kind
                 PROVE  t[i].id < t[j].id
      OBVIOUS
    <2>1. /\ i + 1 \in 1..Len(s) /\ t[i] = s[i + 1]
          /\ j + 1 \in 1..Len(s) /\ t[j] = s[j + 1]
      BY <1>2
    <2>i. i + 1 < j + 1
      BY <1>1
    <2>2. \A a, b \in 1..Len(s) :
            s[a].kind = kind /\ s[b].kind = kind /\ a < b => s[a].id < s[b].id
      BY DEF Carries
    <2> QED BY <2>1, <2>i, <2>2
  <1>10. \A k \in (m + 1 + 1)..n : \E i \in 1..Len(t) : t[i].kind = kind /\ t[i].id = L[k]
    <2> SUFFICES ASSUME NEW k \in (m + 1 + 1)..n
                 PROVE  \E i \in 1..Len(t) : t[i].kind = kind /\ t[i].id = L[k]
      OBVIOUS
    <2>1. k \in (m + 1)..n /\ k # m + 1
      OBVIOUS
    <2>2. PICK i \in 1..Len(s) : s[i].kind = kind /\ s[i].id = L[k]
      BY <2>1 DEF Carries
    <2>3. L[m + 1] < L[k] /\ L[m + 1] \in Nat
      BY <1>5, <1>n, <1>r, <2>1
    <2>4. i # 1
      BY <1>7, <2>2, <2>3
    <2>5. i - 1 \in 1..Len(t) /\ t[i - 1] = s[i]
      BY <1>3, <2>4
    <2> QED BY <2>2, <2>5
  <1>11. Carries(t, kind, L, m + 1, n)
    BY <1>5, <1>8, <1>9, <1>10 DEF Carries
  <1> QED BY <1>1, <1>5, <1>7, <1>11 DEF t

\* Nothing is under way in an empty stream.
LEMMA CarriesNothing ==
  ASSUME NEW kind, NEW L, NEW n \in Nat
  PROVE  Carries(<<>>, kind, L, n, n)
  BY DEF Carries

\* A rising sequence goes on rising with a number above all of it.
LEMMA RisingNext ==
  ASSUME NEW L \in Seq(Nat), NEW v \in Nat, Rising(L), \A i \in 1..Len(L) : L[i] < v
  PROVE  Rising(Append(L, v))
  <1>1. /\ Len(L) \in Nat /\ Len(Append(L, v)) = Len(L) + 1
        /\ \A i \in 1..Len(L) : Append(L, v)[i] = L[i]
        /\ Append(L, v)[Len(L) + 1] = v
    BY Appended, LenProperties
  <1> SUFFICES ASSUME NEW a \in 1..Len(L) + 1, NEW b \in 1..Len(L) + 1, a < b
               PROVE  Append(L, v)[a] < Append(L, v)[b]
    BY <1>1 DEF Rising
  <1>2. a \in 1..Len(L) /\ (b \in 1..Len(L) \/ b = Len(L) + 1)
    BY <1>1
  <1> QED BY <1>1, <1>2 DEF Rising

\* A count rises.
LEMMA CountingRises ==
  ASSUME NEW s \in Seq(Nat), Counting(s)
  PROVE  Rising(s)
  <1>1. Len(s) \in Nat
    BY LenProperties
  <1> QED BY <1>1 DEF Counting, Rising

\* A count goes on.
LEMMA CountingNext ==
  ASSUME NEW s \in Seq(Nat), Counting(s)
  PROVE  Counting(Append(s, Len(s) + 1)) /\ Append(s, Len(s) + 1) \in Seq(Nat)
         /\ Len(Append(s, Len(s) + 1)) = Len(s) + 1
  <1>1. Len(s) + 1 \in Nat
    BY LenProperties
  <1> QED BY <1>1, Appended, LenProperties DEF Counting

\* All of s is at the beginning of t.
Begins(s, t) == Len(s) <= Len(t) /\ \A i \in 1..Len(s) : s[i] = t[i]

\* That makes it a prefix.
LEMMA BeginsIsPrefix ==
  ASSUME NEW s \in Seq(Nat), NEW t \in Seq(Nat), Begins(s, t)
  PROVE  IsPrefix(s, t)
  <1> DEFINE n == Len(s)
  <1>1. n \in Nat /\ Len(t) \in Nat /\ n <= Len(t) /\ n <= Len(s)
    BY LenProperties DEF Begins
  <1>2. SubSeq(s, 1, n) = SubSeq(t, 1, n)
    <2>1. /\ SubSeq(s, 1, n) \in Seq(Nat) /\ SubSeq(t, 1, n) \in Seq(Nat)
          /\ Len(SubSeq(s, 1, n)) = n /\ Len(SubSeq(t, 1, n)) = n
          /\ \A i \in 1..n : SubSeq(s, 1, n)[i] = s[i] /\ SubSeq(t, 1, n)[i] = t[i]
      BY <1>1
    <2>2. \A i \in 1..n : s[i] = t[i]
      BY <1>1 DEF Begins
    <2> QED BY <2>1, <2>2, SeqEqual
  <1> QED BY <1>1, <1>2 DEF IsPrefix

\* It grows by t's next element, and stays there when t grows.
LEMMA BeginsNext ==
  ASSUME NEW s \in Seq(Nat), NEW t \in Seq(Nat), Begins(s, t)
  PROVE  /\ \A v \in Nat : Begins(s, Append(t, v))
         /\ Len(s) < Len(t) => Begins(Append(s, t[Len(s) + 1]), t)
  <1>0. Len(s) \in Nat /\ Len(t) \in Nat
    BY LenProperties
  <1>1. ASSUME NEW v \in Nat PROVE Begins(s, Append(t, v))
    BY <1>0, Appended DEF Begins
  <1>2. ASSUME Len(s) < Len(t) PROVE Begins(Append(s, t[Len(s) + 1]), t)
    <2> DEFINE v == t[Len(s) + 1]
    <2>1. v \in Nat
      BY <1>0, <1>2, ElementOfSeq
    <2>2. /\ Len(Append(s, v)) = Len(s) + 1 /\ Append(s, v)[Len(s) + 1] = v
          /\ \A i \in 1..Len(s) : Append(s, v)[i] = s[i]
      BY <2>1, Appended
    <2> QED BY <1>0, <1>2, <2>2 DEF Begins
  <1> QED BY <1>1, <1>2
-----------------------------------------------------------------------------
(* The pieces on the way to the client.                                    *)

\* What conforms to Piecewise, Paired and AtBody at p is in step at p.
InStep(p, in) == Piecewise(in) /\ Paired(in) /\ AtBody(p, in)

\* A packet that is one piece keeps the stream in step.
LEMMA WholeInStep ==
  ASSUME NEW in \in Seq(Pieces), NEW p, NEW x \in Pieces, InStep(p, in),
         x.part = "whole", x.kind \notin {"puback", "suback"}
  PROVE  InStep(p, Append(in, x))
  <1> DEFINE t == Append(in, x)
              n == Len(in)
  <1>1. n \in Nat /\ Len(t) = n + 1 /\ t[n + 1] = x /\ t # <<>>
        /\ \A i \in 1..n : t[i] = in[i]
    BY Appended, LenProperties
  <1>2. in = <<>> <=> n = 0
    BY EmptySeq, LenProperties
  <1> HIDE DEF t, n
  <1>3. \A i \in 1..Len(t) : i \in 1..n \/ i = n + 1
    BY <1>1
  <1>4. Piecewise(t)
    <2>1. \A i \in 1..n : in[i].part \in {"head", "body"} <=> in[i].kind \in {"puback", "suback"}
      BY DEF InStep, Piecewise, n
    <2> QED BY <1>1, <1>3, <2>1 DEF Piecewise
  <1>5. Paired(t)
    <2>1. /\ \A i \in 1..n - 1 : in[i].part = "head" <=> in[i + 1].part = "body"
          /\ n # 0 => in[n].part # "head"
      BY <1>2 DEF InStep, Paired, n
    <2>2. \A i \in 1..n : t[i].part = "head" <=> t[i + 1].part = "body"
      <3> SUFFICES ASSUME NEW i \in 1..n
                   PROVE  t[i].part = "head" <=> t[i + 1].part = "body"
        OBVIOUS
      <3>1. CASE i = n
        BY <1>1, <2>1, <3>1
      <3>2. CASE i # n
        <4>1. i \in 1..n - 1 /\ i + 1 \in 1..n
          BY <1>1, <3>2
        <4> QED BY <1>1, <2>1, <4>1
      <3> QED BY <3>1, <3>2
    <2> QED BY <1>1, <2>2 DEF Paired
  <1>6. AtBody(p, t)
    <2>1. p \in Bodies <=> n # 0 /\ in[1].part = "body"
      BY <1>2 DEF InStep, AtBody
    <2>2. CASE n = 0
      <3>1. t[1] = x
        BY <1>1, <2>2
      <3> QED BY <1>1, <2>1, <2>2, <3>1 DEF AtBody
    <2>3. CASE n # 0
      <3>1. 1 \in 1..n
        BY <1>1, <2>3
      <3>2. t[1] = in[1]
        BY <1>1, <3>1
      <3> QED BY <1>1, <2>1, <2>3, <3>2 DEF AtBody
    <2> QED BY <2>2, <2>3
  <1>7. InStep(p, t)
    BY <1>4, <1>5, <1>6 DEF InStep
  <1> QED BY <1>7 DEF t

\* So does one that is a head and its body.
LEMMA SplitInStep ==
  ASSUME NEW in \in Seq(Pieces), NEW p, NEW x \in Pieces, NEW y \in Pieces, InStep(p, in),
         x.part = "head", x.kind \in {"puback", "suback"},
         y.part = "body", y.kind \in {"puback", "suback"}
  PROVE  InStep(p, Append(Append(in, x), y))
  <1> DEFINE s == Append(in, x)
              t == Append(s, y)
              n == Len(in)
  <1>1. /\ s \in Seq(Pieces) /\ n \in Nat /\ Len(s) = n + 1 /\ s[n + 1] = x
        /\ \A i \in 1..n : s[i] = in[i]
    BY Appended, LenProperties
  <1>2. in = <<>> <=> n = 0
    BY EmptySeq, LenProperties
  <1> HIDE DEF s
  <1>3. /\ Len(t) = n + 2 /\ t[n + 2] = y /\ t # <<>>
        /\ \A i \in 1..n + 1 : t[i] = s[i]
    <2>1. /\ Len(t) = Len(s) + 1 /\ t[Len(s) + 1] = y /\ t # <<>>
          /\ \A i \in 1..Len(s) : t[i] = s[i]
      BY <1>1, Appended
    <2> HIDE DEF t, n
    <2> QED BY <1>1, <2>1
  <1> HIDE DEF t, n
  <1>4. /\ \A i \in 1..Len(t) : i \in 1..n \/ i = n + 1 \/ i = n + 2
        /\ \A i \in 1..n : t[i] = in[i]
        /\ t[n + 1] = x
    BY <1>1, <1>3
  <1>5. Piecewise(t)
    <2>1. \A i \in 1..n : in[i].part \in {"head", "body"} <=> in[i].kind \in {"puback", "suback"}
      BY DEF InStep, Piecewise, n
    <2> QED BY <1>3, <1>4, <2>1 DEF Piecewise
  <1>6. Paired(t)
    <2>1. /\ \A i \in 1..n - 1 : in[i].part = "head" <=> in[i + 1].part = "body"
          /\ n # 0 => in[n].part # "head"
      BY <1>2 DEF InStep, Paired, n
    <2>2. \A i \in 1..n + 1 : t[i].part = "head" <=> t[i + 1].part = "body"
      <3> SUFFICES ASSUME NEW i \in 1..n + 1
                   PROVE  t[i].part = "head" <=> t[i + 1].part = "body"
        OBVIOUS
      <3>1. CASE i = n
        <4>1. n # 0 /\ i \in 1..n /\ t[i] = in[n] /\ t[i + 1] = x
          BY <1>1, <1>4, <3>1
        <4> QED BY <2>1, <4>1
      <3>2. CASE i = n + 1
        <4>1. t[i] = x /\ t[i + 1] = y
          <5>1. i + 1 = n + 2
            BY <1>1, <3>2
          <5> QED BY <1>3, <1>4, <3>2, <5>1
        <4> QED BY <4>1
      <3>3. CASE i # n /\ i # n + 1
        <4>1. i \in 1..n - 1 /\ i \in 1..n /\ i + 1 \in 1..n
          BY <1>1, <3>3
        <4> QED BY <1>4, <2>1, <4>1
      <3> QED BY <3>1, <3>2, <3>3
    <2>3. Len(t) - 1 = n + 1
      BY <1>1, <1>3
    <2> QED BY <1>3, <2>2, <2>3 DEF Paired
  <1>7. AtBody(p, t)
    <2>1. p \in Bodies <=> n # 0 /\ in[1].part = "body"
      BY <1>2 DEF InStep, AtBody
    <2>2. CASE n = 0
      <3>1. t[1] = x
        BY <1>4, <2>2
      <3> QED BY <1>3, <2>1, <2>2, <3>1 DEF AtBody
    <2>3. CASE n # 0
      <3>1. 1 \in 1..n
        BY <1>1, <2>3
      <3>2. t[1] = in[1]
        BY <1>4, <3>1
      <3> QED BY <1>3, <2>1, <2>3, <3>2 DEF AtBody
    <2> QED BY <2>2, <2>3
  <1>8. InStep(p, t)
    BY <1>5, <1>6, <1>7 DEF InStep
  <1> QED BY <1>8 DEF s, t

\* What is read leaves the stream in step where the reader goes: at the body of a head,
\* and otherwise where a packet begins.
LEMMA TakenInStep ==
  ASSUME NEW in \in Seq(Pieces), in # <<>>, NEW p, NEW q, InStep(p, in),
         q \in Bodies <=> Head(in).part = "head"
  PROVE  InStep(q, Tail(in))
  <1> DEFINE t == Tail(in)
              n == Len(in)
  <1>1. /\ t \in Seq(Pieces) /\ n \in Nat \ {0} /\ Len(t) = n - 1 /\ Head(in) = in[1]
        /\ \A i \in 1..n - 1 : t[i] = in[i + 1]
    BY Tailed
  <1>2. t = <<>> <=> n = 1
    BY <1>1, EmptySeq, LenProperties
  <1> HIDE DEF t
  <1>3. Piecewise(t)
    <2>1. \A i \in 1..n : in[i].part \in {"head", "body"} <=> in[i].kind \in {"puback", "suback"}
      BY DEF InStep, Piecewise
    <2> HIDE DEF n
    <2>2. \A i \in 1..Len(t) : t[i] = in[i + 1] /\ i + 1 \in 1..n
      BY <1>1
    <2> QED BY <2>1, <2>2 DEF Piecewise
  <1>4. /\ \A i \in 1..n - 1 : in[i].part = "head" <=> in[i + 1].part = "body"
        /\ in[n].part # "head"
    BY DEF InStep, Paired
  <1> HIDE DEF n
  <1>5. Paired(t)
    <2>1. \A i \in 1..Len(t) - 1 : /\ t[i] = in[i + 1] /\ t[i + 1] = in[i + 1 + 1]
                                   /\ i + 1 \in 1..n - 1
      BY <1>1
    <2>2. n # 1 => t[Len(t)] = in[n]
      <3> SUFFICES ASSUME n # 1
                   PROVE  t[Len(t)] = in[n]
        OBVIOUS
      <3>1. n - 1 \in 1..n - 1 /\ n - 1 + 1 = n
        BY <1>1
      <3> QED BY <1>1, <3>1
    <2> QED BY <1>2, <1>4, <2>1, <2>2 DEF Paired
  <1>6. AtBody(q, t)
    <2>1. CASE n = 1
      BY <1>1, <1>2, <1>4, <2>1 DEF AtBody
    <2>2. CASE n # 1
      <3>1. 1 \in 1..n - 1
        BY <1>1, <2>2
      <3>2. t[1] = in[1 + 1] /\ (in[1].part = "head" <=> in[1 + 1].part = "body")
        BY <1>1, <1>4, <3>1
      <3> QED BY <1>1, <1>2, <2>2, <3>2 DEF AtBody
    <2> QED BY <2>1, <2>2
  <1>7. InStep(q, t)
    BY <1>3, <1>5, <1>6 DEF InStep
  <1> QED BY <1>7 DEF t

\* The first piece is a body where one is read, and elsewhere the head of a PUBACK or of a
\* SUBACK or a whole packet of another kind.
LEMMA FirstPiece ==
  ASSUME NEW in \in Seq(Pieces), in # <<>>, NEW p, InStep(p, in)
  PROVE  /\ p \in Bodies <=> Head(in).part = "body"
         /\ Head(in).part \in {"head", "body"} <=> Head(in).kind \in {"puback", "suback"}
  <1>1. Head(in) = in[1] /\ 1 \in 1..Len(in)
    BY Tailed
  <1> QED BY <1>1 DEF InStep, AtBody, Piecewise

-----------------------------------------------------------------------------
(* One exchange at a time.                                                 *)

\* Outside of the exchanges, and where the answer's body is read, nothing is under way.
LEMMA NothingUnderWay ==
  ASSUME NEW p, NEW out, NEW in, OneExchange(p, out, in), p \in {"idle", "poll"} \cup Bodies,
         out \in Seq(Frames), in \in Seq(Pieces)
  PROVE  NoRequest(out) /\ NoAnswer(in)
  <1>1. \A i \in 1..Len(in) : in[i].kind \in {"connack", "suback", "puback", "pingresp", "publish"}
    <2> SUFFICES ASSUME NEW i \in 1..Len(in)
                 PROVE  in[i] \in Pieces
      BY DEF Pieces
    <2> QED BY ElementOfSeq
  <1>2. p \notin {"connack", "suback", "puback", "pingresp", "publish", "none"}
    BY DEF Bodies
  <1>3. \A i \in 1..Len(out) : AnswerTo(out[i].kind) \in {"connack", "suback", "puback", "pingresp", "none"}
    BY DEF AnswerTo
  <1> QED BY <1>1, <1>2, <1>3 DEF OneExchange, OneRequest, OneAnswer, NoRequest, NoAnswer, IsAnswer

\* And when nothing is, it does not matter for whom.
LEMMA NothingForAny ==
  ASSUME NEW p, NEW out, NEW in, NoRequest(out), NoAnswer(in)
  PROVE  OneExchange(p, out, in)
  BY DEF OneExchange, OneRequest, OneAnswer, NoRequest, NoAnswer

\* A request begins an exchange.
LEMMA RequestSent ==
  ASSUME NEW p, NEW out \in Seq(Frames), NEW in, NEW f \in Frames, NoRequest(out), NoAnswer(in),
         AnswerTo(f.kind) = p
  PROVE  OneExchange(p, Append(out, f), in)
  <1> DEFINE t == Append(out, f)
  <1>1. /\ Len(out) \in Nat /\ Len(t) = Len(out) + 1 /\ t[Len(out) + 1] = f
        /\ \A i \in 1..Len(out) : t[i] = out[i]
    BY Appended, LenProperties
  <1> HIDE DEF t
  <1>2. \A i \in 1..Len(t) : i \in 1..Len(out) \/ i = Len(out) + 1
    BY <1>1
  <1>3. \A i \in 1..Len(t) : IsRequest(t[i]) => i = Len(out) + 1
    BY <1>1, <1>2 DEF NoRequest
  <1>4. OneRequest(p, t)
    BY <1>1, <1>3 DEF OneRequest
  <1>5. OneAnswer(p, in)
    BY DEF OneAnswer, NoAnswer
  <1>6. OneExchange(p, t, in)
    BY <1>4, <1>5 DEF OneExchange
  <1> QED BY <1>6 DEF t

\* An acknowledgement of a command is no request.
LEMMA AckSent ==
  ASSUME NEW p, NEW out \in Seq(Frames), NEW in, NEW f \in Frames, OneExchange(p, out, in),
         f.kind = "puback"
  PROVE  OneExchange(p, Append(out, f), in)
  <1> DEFINE t == Append(out, f)
  <1>1. /\ Len(out) \in Nat /\ Len(t) = Len(out) + 1 /\ t[Len(out) + 1] = f
        /\ \A i \in 1..Len(out) : t[i] = out[i]
    BY Appended, LenProperties
  <1> HIDE DEF t
  <1>2. \A i \in 1..Len(t) : IsRequest(t[i]) => i \in 1..Len(out) /\ t[i] = out[i]
    <2>1. \A i \in 1..Len(t) : i \in 1..Len(out) \/ i = Len(out) + 1
      BY <1>1
    <2>2. ~ IsRequest(t[Len(out) + 1])
      BY <1>1 DEF IsRequest
    <2> QED BY <1>1, <2>1, <2>2
  <1>3. OneRequest(p, t)
    BY <1>2 DEF OneExchange, OneRequest
  <1>4. NoRequest(out) => NoRequest(t)
    BY <1>2 DEF NoRequest
  <1>5. OneExchange(p, t, in)
    BY <1>3, <1>4 DEF OneExchange
  <1> QED BY <1>5 DEF t
\* The request is answered when the broker has read it.
LEMMA RequestAnswered ==
  ASSUME NEW p, NEW out \in Seq(Frames), out # <<>>, NEW in \in Seq(Pieces), NEW x \in Pieces,
         OneExchange(p, out, in), IsRequest(Head(out)), IsAnswer(x),
         x.kind = AnswerTo(Head(out).kind)
  PROVE  OneExchange(p, Tail(out), Append(in, x))
  <1> DEFINE s == Tail(out)
              t == Append(in, x)
  <1>1. /\ Len(out) \in Nat \ {0} /\ Len(s) = Len(out) - 1 /\ Head(out) = out[1]
        /\ \A i \in 1..Len(out) - 1 : s[i] = out[i + 1]
    BY Tailed
  <1>2. /\ Len(in) \in Nat /\ Len(t) = Len(in) + 1 /\ t[Len(in) + 1] = x
        /\ \A i \in 1..Len(in) : t[i] = in[i]
    BY Appended, LenProperties
  <1> HIDE DEF s, t
  <1>3. 1 \in 1..Len(out) /\ IsRequest(out[1])
    BY <1>1
  <1>4. AnswerTo(out[1].kind) = p /\ \A i \in 1..Len(out) : IsRequest(out[i]) => i = 1
    BY <1>3 DEF OneExchange, OneRequest
  <1>5. NoRequest(s)
    <2>1. \A i \in 1..Len(s) : i + 1 \in 1..Len(out) /\ i + 1 # 1 /\ s[i] = out[i + 1]
      BY <1>1
    <2> QED BY <1>4, <2>1 DEF NoRequest
  <1>6. NoAnswer(in)
    BY <1>3 DEF OneExchange, NoRequest
  <1>7. \A i \in 1..Len(t) : IsAnswer(t[i]) => i = Len(in) + 1
    <2>1. \A i \in 1..Len(t) : i \in 1..Len(in) \/ i = Len(in) + 1
      BY <1>2
    <2> QED BY <1>2, <1>6, <2>1 DEF NoAnswer
  <1>8. OneAnswer(p, t)
    BY <1>1, <1>2, <1>4, <1>7 DEF OneAnswer
  <1>9. OneRequest(p, s)
    BY <1>5 DEF OneRequest, NoRequest
  <1>10. OneExchange(p, s, t)
    BY <1>5, <1>8, <1>9 DEF OneExchange
  <1> QED BY <1>10 DEF s, t

\* What is not an answer's beginning does not belong to an exchange.
LEMMA PassivePiece ==
  ASSUME NEW p, NEW out, NEW in \in Seq(Pieces), NEW x \in Pieces, OneExchange(p, out, in),
         ~ IsAnswer(x)
  PROVE  OneExchange(p, out, Append(in, x))
  <1> DEFINE t == Append(in, x)
  <1>1. /\ Len(in) \in Nat /\ Len(t) = Len(in) + 1 /\ t[Len(in) + 1] = x
        /\ \A i \in 1..Len(in) : t[i] = in[i]
    BY Appended, LenProperties
  <1> HIDE DEF t
  <1>2. \A i \in 1..Len(t) : IsAnswer(t[i]) => i \in 1..Len(in) /\ t[i] = in[i]
    <2>1. \A i \in 1..Len(t) : i \in 1..Len(in) \/ i = Len(in) + 1
      BY <1>1
    <2> QED BY <1>1, <2>1
  <1>3. OneAnswer(p, t)
    BY <1>2 DEF OneExchange, OneAnswer
  <1>4. NoAnswer(in) => NoAnswer(t)
    BY <1>2 DEF NoAnswer
  <1>5. OneExchange(p, out, t)
    BY <1>3, <1>4 DEF OneExchange
  <1> QED BY <1>5 DEF t

\* Nor does an acknowledgement that the broker reads.
LEMMA AckTaken ==
  ASSUME NEW p, NEW out \in Seq(Frames), out # <<>>, NEW in, OneExchange(p, out, in)
  PROVE  OneExchange(p, Tail(out), in)
  <1> DEFINE s == Tail(out)
  <1>1. /\ Len(out) \in Nat \ {0} /\ Len(s) = Len(out) - 1
        /\ \A i \in 1..Len(out) - 1 : s[i] = out[i + 1]
    BY Tailed
  <1> HIDE DEF s
  <1>2. \A i \in 1..Len(s) : i \in Nat /\ i + 1 \in 1..Len(out) /\ s[i] = out[i + 1]
    BY <1>1
  <1>3. OneRequest(p, s)
    <2>1. \A i, j \in 1..Len(s) : IsRequest(s[i]) /\ IsRequest(s[j]) => i + 1 = j + 1
      BY <1>2 DEF OneExchange, OneRequest
    <2>2. \A i, j \in 1..Len(s) : IsRequest(s[i]) /\ IsRequest(s[j]) => i = j
      <3> SUFFICES ASSUME NEW i \in 1..Len(s), NEW j \in 1..Len(s), i + 1 = j + 1
                   PROVE  i = j
        BY <2>1
      <3> QED OBVIOUS
    <2> QED BY <1>2, <2>2 DEF OneExchange, OneRequest
  <1>4. NoRequest(out) => NoRequest(s)
    BY <1>2 DEF NoRequest
  <1>5. OneExchange(p, s, in)
    BY <1>3, <1>4 DEF OneExchange
  <1> QED BY <1>5 DEF s

\* A piece that is read was the answer, or leaves the exchange as it was.
LEMMA PieceTaken ==
  ASSUME NEW p, NEW out, NEW in \in Seq(Pieces), in # <<>>, OneExchange(p, out, in)
  PROVE  /\ OneExchange(p, out, Tail(in))
         /\ IsAnswer(Head(in)) => NoRequest(out) /\ NoAnswer(Tail(in)) /\ Head(in).kind = p
  <1> DEFINE t == Tail(in)
  <1>1. /\ Len(in) \in Nat \ {0} /\ Len(t) = Len(in) - 1 /\ Head(in) = in[1]
        /\ \A i \in 1..Len(in) - 1 : t[i] = in[i + 1]
    BY Tailed
  <1> HIDE DEF t
  <1>2. \A i \in 1..Len(t) : i \in Nat /\ i + 1 \in 1..Len(in) /\ i + 1 # 1 /\ t[i] = in[i + 1]
    BY <1>1
  <1>3. OneAnswer(p, t)
    <2>1. \A i, j \in 1..Len(t) : IsAnswer(t[i]) /\ IsAnswer(t[j]) => i + 1 = j + 1
      BY <1>2 DEF OneExchange, OneAnswer
    <2>2. \A i, j \in 1..Len(t) : IsAnswer(t[i]) /\ IsAnswer(t[j]) => i = j
      <3> SUFFICES ASSUME NEW i \in 1..Len(t), NEW j \in 1..Len(t), i + 1 = j + 1
                   PROVE  i = j
        BY <2>1
      <3> QED OBVIOUS
    <2> QED BY <1>2, <2>2 DEF OneExchange, OneAnswer
  <1>4. NoAnswer(in) => NoAnswer(t)
    BY <1>2 DEF NoAnswer
  <1>5. OneExchange(p, out, t)
    BY <1>3, <1>4 DEF OneExchange
  <1>6. ASSUME IsAnswer(in[1])
        PROVE  NoRequest(out) /\ NoAnswer(t) /\ in[1].kind = p
    <2>1. 1 \in 1..Len(in)
      BY <1>1
    <2>2. in[1].kind = p /\ \A i \in 1..Len(in) : IsAnswer(in[i]) => i = 1
      BY <1>6, <2>1 DEF OneExchange, OneAnswer
    <2>3. NoRequest(out)
      BY <1>6, <2>1 DEF OneExchange, NoAnswer
    <2>4. NoAnswer(t)
      BY <1>2, <2>2 DEF NoAnswer
    <2> QED BY <2>2, <2>3, <2>4
  <1> QED BY <1>1, <1>5, <1>6 DEF t
-----------------------------------------------------------------------------
(***************************************************************************)
(* The invariants.  A session is up outside of its handshake; as long as   *)
(* there is one, the stream is in step and one exchange at most is under   *)
(* way; the commands in the stream are those offered and not delivered; the*)
(* acknowledgements on their way are those of QoS 1 commands delivered and *)
(* not seen acknowledged; and a message under way is the current one.      *)
(***************************************************************************)
Handshake == {"connack", "suback", "suback_body"}
InSession == {"idle", "puback", "puback_body", "pingresp", "poll"}

ClientTypeOK ==
    /\ pc \in Handshake \cup InSession \cup {"down"}
    /\ session = IF pc \in InSession THEN "up" ELSE "down"
    /\ c2b \in Seq(Frames) /\ b2c \in Seq(Pieces)
    /\ pid \in Nat /\ waitPid \in Nat /\ topic \in {1, 2} /\ inbound \in Nat
    /\ cur \in Nat /\ received \in Seq(Nat)
    /\ offered \in Seq(Nat) /\ delivered \in Seq(Nat)
    /\ owed \in Seq(Nat) /\ acked \in Seq(Nat)

SyncInv == pc # "down" => InStep(pc, b2c) /\ OneExchange(pc, c2b, b2c)

Underway ==
    /\ Counting(offered) /\ Counting(delivered)
    /\ Carries(b2c, "publish", offered, Len(delivered), Len(offered))
    /\ Rising(owed) /\ \A i \in 1..Len(owed) : owed[i] \in 1..Len(delivered)

\* What the client has acknowledged: all it owes, but the one in its hands.
Confirmed == IF inbound = 0 THEN Len(owed) ELSE Len(owed) - 1

AckInv ==
    /\ Begins(acked, owed)
    /\ inbound # 0 => owed # <<>> /\ inbound = owed[Len(owed)] /\ pc \in Waiting \ {"connack"}
    /\ \E n \in Nat : /\ n <= Len(owed)
                      /\ Carries(c2b, "puback", owed, Len(acked), n)
                      /\ pc # "down" => n = Confirmed

PublishInv ==
    /\ \A i \in 1..Len(c2b) : c2b[i].kind = "publish" => c2b[i].msg = cur
    /\ pc = "puback_body" \/ (pc = "puback" /\ ~ NoAnswer(b2c)) => cur \in ToSet(received)

Piece(kind, part, id) == [kind |-> kind, part |-> part, id |-> id]

\* A frame that the client writes.
LEMMA FramesWritten ==
  ASSUME NEW kind \in {"connect", "subscribe", "pingreq", "puback"}, NEW id \in Nat
  PROVE  Frame(kind, id) \in Frames /\ Frame(kind, id).kind = kind /\ Frame(kind, id).id = id
  BY DEF Frame, Frames

\* What the broker makes of the frame it reads.
LEMMA Replies ==
  ASSUME ClientTypeOK, BrokerAnswers
  PROVE  LET f == Head(c2b)
         IN  /\ f \in Frames /\ c2b # <<>> /\ c2b' = Tail(c2b)
             /\ f.kind \in {"connect", "subscribe", "publish", "pingreq", "puback"}
             /\ f.kind = "connect" => b2c' = Append(b2c, Piece("connack", "whole", 0))
             /\ f.kind = "pingreq" => b2c' = Append(b2c, Piece("pingresp", "whole", 0))
             /\ f.kind = "subscribe" =>
                  b2c' = Append(Append(b2c, Piece("suback", "head", 0)),
                                Piece("suback", "body", f.id))
             /\ f.kind = "publish" =>
                  b2c' = Append(Append(b2c, Piece("puback", "head", 0)),
                                Piece("puback", "body", f.id))
             /\ f.kind = "puback" => b2c' = b2c
  <1> DEFINE f == Head(c2b)
  <1>1. c2b \in Seq(Frames) /\ b2c \in Seq(Pieces) /\ c2b # <<>>
    BY DEF ClientTypeOK, BrokerAnswers
  <1>2. f \in Frames
    BY <1>1, Tailed
  <1>3. f.kind \in {"connect", "subscribe", "publish", "pingreq", "puback"} /\ f.id \in Nat
    BY <1>2 DEF Frames
  <1>4. c2b' = Tail(c2b)
    BY DEF BrokerAnswers
  <1> DEFINE reply == CASE f.kind = "connect"   -> Whole("connack", 0)
                        [] f.kind = "subscribe" -> Split("suback", f.id)
                        [] f.kind = "publish"   -> Split("puback", f.id)
                        [] f.kind = "pingreq"   -> Whole("pingresp", 0)
                        [] f.kind = "puback"    -> <<>>
  <1>5. b2c' = b2c \o reply
    BY DEF BrokerAnswers
  <1>6. /\ f.kind = "connect" => reply = Whole("connack", 0)
        /\ f.kind = "subscribe" => reply = Split("suback", f.id)
        /\ f.kind = "publish" => reply = Split("puback", f.id)
        /\ f.kind = "pingreq" => reply = Whole("pingresp", 0)
        /\ f.kind = "puback" => reply = <<>>
    OBVIOUS
  <1> HIDE DEF f, reply
  <1>7. \A kind \in {"connack", "pingresp"} :
          b2c \o Whole(kind, 0) = Append(b2c, Piece(kind, "whole", 0))
    <2> SUFFICES ASSUME NEW kind \in {"connack", "pingresp"}
                 PROVE  b2c \o Whole(kind, 0) = Append(b2c, Piece(kind, "whole", 0))
      OBVIOUS
    <2>1. Piece(kind, "whole", 0) \in Pieces
      BY DEF Piece, Pieces
    <2>2. Whole(kind, 0) = <<Piece(kind, "whole", 0)>>
      BY DEF Whole, Piece
    <2> QED BY <1>1, <2>1, <2>2, Appended
  <1>8. \A kind \in {"puback", "suback"} : \A id \in Nat :
          b2c \o Split(kind, id) = Append(Append(b2c, Piece(kind, "head", 0)),
                                          Piece(kind, "body", id))
    <2> SUFFICES ASSUME NEW kind \in {"puback", "suback"}, NEW id \in Nat
                 PROVE  b2c \o Split(kind, id) = Append(Append(b2c, Piece(kind, "head", 0)),
                                                        Piece(kind, "body", id))
      OBVIOUS
    <2>1. Piece(kind, "head", 0) \in Pieces /\ Piece(kind, "body", id) \in Pieces
      BY DEF Piece, Pieces
    <2>2. Split(kind, id) = <<Piece(kind, "head", 0), Piece(kind, "body", id)>>
      BY DEF Split, Piece
    <2> QED BY <1>1, <2>1, <2>2
  <1>9. b2c \o <<>> = b2c
    BY <1>1, ConcatEmptySeq
  <1>10. f.kind = "connect" => b2c' = Append(b2c, Piece("connack", "whole", 0))
    BY <1>5, <1>6, <1>7
  <1>11. f.kind = "pingreq" => b2c' = Append(b2c, Piece("pingresp", "whole", 0))
    BY <1>5, <1>6, <1>7
  <1>12. f.kind = "subscribe" =>
           b2c' = Append(Append(b2c, Piece("suback", "head", 0)), Piece("suback", "body", f.id))
    BY <1>3, <1>5, <1>6, <1>8
  <1>13. f.kind = "publish" =>
           b2c' = Append(Append(b2c, Piece("puback", "head", 0)), Piece("puback", "body", f.id))
    BY <1>3, <1>5, <1>6, <1>8
  <1>14. f.kind = "puback" => b2c' = b2c
    BY <1>5, <1>6, <1>9
  <1> QED BY <1>1, <1>2, <1>3, <1>4, <1>10, <1>11, <1>12, <1>13, <1>14 DEF f

\* Typed pieces of each kind.
LEMMA TypedPieces ==
  ASSUME NEW kind \in {"connack", "suback", "puback", "pingresp", "publish"},
         NEW part \in {"whole", "head", "body"}, NEW id \in Nat
  PROVE  /\ Piece(kind, part, id) \in Pieces
         /\ Piece(kind, part, id).kind = kind
         /\ Piece(kind, part, id).part = part
         /\ Piece(kind, part, id).id = id
  BY DEF Piece, Pieces

\* What the broker sends of its own is one whole PUBLISH, numbered on.
LEMMA CommandSent ==
  ASSUME ClientTypeOK, BrokerSends
  PROVE  /\ b2c' = Append(b2c, Piece("publish", "whole", Len(offered) + 1))
         /\ Len(offered) + 1 \in Nat
         /\ Piece("publish", "whole", Len(offered) + 1) \in Pieces
  <1>1. b2c \in Seq(Pieces) /\ Len(offered) \in Nat /\ Len(offered) + 1 \in Nat
    BY LenProperties DEF ClientTypeOK
  <1>2. Piece("publish", "whole", Len(offered) + 1) \in Pieces
    BY <1>1, TypedPieces
  <1>3. Whole("publish", Len(offered) + 1) = <<Piece("publish", "whole", Len(offered) + 1)>>
    BY DEF Whole, Piece
  <1>4. b2c' = b2c \o Whole("publish", Len(offered) + 1)
    BY DEF BrokerSends
  <1> QED BY <1>1, <1>2, <1>3, <1>4, Appended
\* Nothing is connected at the beginning.
LEMMA InitClient == Init => ClientTypeOK /\ SyncInv /\ Underway /\ AckInv /\ PublishInv
  <1> SUFFICES ASSUME Init
               PROVE  ClientTypeOK /\ SyncInv /\ Underway /\ AckInv /\ PublishInv
    OBVIOUS
  <1> USE DEF Init
  <1>1. ClientTypeOK
    BY DEF ClientTypeOK, InSession
  <1>2. Underway
    BY CarriesNothing DEF Underway, Counting, Rising
  <1>3. AckInv
    <2>1. Carries(c2b, "puback", owed, Len(acked), 0)
      BY CarriesNothing
    <2> QED BY <2>1 DEF AckInv, Begins, Confirmed
  <1> QED BY <1>1, <1>2, <1>3 DEF SyncInv, PublishInv

\* The identifier of the next packet.
LEMMA NextPidTyped == pid \in Nat => NextPid \in Nat
  BY DEF NextPid

\* The variables stay in their domains.
LEMMA TypeNext == ClientTypeOK /\ [Next]_vars => ClientTypeOK'
  <1> SUFFICES ASSUME ClientTypeOK, [Next]_vars
               PROVE  ClientTypeOK'
    OBVIOUS
  <1>0. /\ c2b \in Seq(Frames) /\ b2c \in Seq(Pieces) /\ NextPid \in Nat
        /\ b2c # <<>> => Tail(b2c) \in Seq(Pieces) /\ Head(b2c) \in Pieces /\ Head(b2c).id \in Nat
    <2>1. NextPid \in Nat
      BY NextPidTyped DEF ClientTypeOK
    <2>2. \A x \in Pieces : x.id \in Nat
      BY DEF Pieces
    <2> QED BY <2>1, <2>2, Tailed DEF ClientTypeOK
  <1>1. CASE Connect
    <2>1. c2b' \in Seq(Frames) /\ b2c' \in Seq(Pieces)
      BY <1>1, FramesWritten, EmptySeq DEF Connect
    <2> QED BY <1>1, <2>1, EmptySeq DEF Connect, ClientTypeOK, InSession, Handshake
  <1>2. CASE Publish
    <2>1. [kind |-> "publish", id |-> NextPid, msg |-> cur] \in Frames
      BY <1>0 DEF Frames, ClientTypeOK
    <2>2. c2b' \in Seq(Frames)
      BY <1>0, <1>2, <2>1, Appended DEF Publish
    <2> QED BY <1>0, <1>2, <2>2 DEF Publish, ClientTypeOK, InSession, broker
  <1>3. CASE Ping
    <2>1. c2b' \in Seq(Frames)
      BY <1>0, <1>3, FramesWritten, Appended DEF Ping
    <2> QED BY <1>3, <2>1 DEF Ping, ClientTypeOK, InSession, broker
  <1>4. CASE Poll
    BY <1>4 DEF Poll, ClientTypeOK, InSession, broker
  <1>5. CASE ConnackIn
    <2>1. c2b' \in Seq(Frames) /\ b2c' \in Seq(Pieces)
      BY <1>0, <1>5, FramesWritten, Appended DEF ConnackIn, Subscribe, AtFrame
    <2> QED BY <1>0, <1>5, <2>1
            DEF ConnackIn, Subscribe, ClientTypeOK, InSession, Handshake, broker
  <1>6. CASE PingrespIn
    <2>1. b2c' \in Seq(Pieces)
      BY <1>0, <1>6 DEF PingrespIn, AtFrame
    <2>2. /\ (pc' = pc \/ (pc \in InSession /\ pc' = "idle"))
          /\ UNCHANGED <<pid, waitPid, topic, inbound, session, cur, delivered, owed, broker, c2b>>
      BY <1>6 DEF PingrespIn, Finish, InSession
    <2> QED BY <2>1, <2>2 DEF ClientTypeOK, InSession, broker
  <1>7. CASE PublishIn
    <2>1. b2c' \in Seq(Pieces) /\ Head(b2c).id \in Nat
      BY <1>0, <1>7 DEF PublishIn, AtFrame
    <2>2. delivered' \in Seq(Nat) /\ owed' \in Seq(Nat)
      BY <1>7, <2>1, Appended DEF PublishIn, ClientTypeOK
    <2> QED BY <1>7, <2>1, <2>2 DEF PublishIn, ClientTypeOK, broker
  <1>8. CASE AckInbound
    <2>1. c2b' \in Seq(Frames)
      BY <1>0, <1>8, FramesWritten, Appended DEF AckInbound, ClientTypeOK
    <2>2. /\ (pc' = pc \/ (pc = "poll" /\ pc' = "idle"))
          /\ inbound' = 0
          /\ UNCHANGED <<pid, waitPid, topic, session, cur, delivered, owed, broker, b2c>>
      BY <1>8 DEF AckInbound, Finish
    <2> QED BY <2>1, <2>2 DEF ClientTypeOK, InSession, broker
  <1>9. CASE AckHead
    <2>1. b2c' \in Seq(Pieces)
      BY <1>0, <1>9 DEF AckHead, AtFrame
    <2>2. /\ \/ pc' = pc
             \/ pc = "poll" /\ pc' = "idle"
             \/ pc = "puback" /\ pc' = "puback_body"
             \/ pc = "suback" /\ pc' = "suback_body"
          /\ UNCHANGED <<pid, waitPid, topic, inbound, session, cur, delivered, owed, broker, c2b>>
      BY <1>9 DEF AckHead, Finish
    <2> QED BY <2>1, <2>2 DEF ClientTypeOK, InSession, Handshake, broker
  <1>10. CASE PubackBody
    <2>1. b2c' \in Seq(Pieces)
      BY <1>0, <1>10 DEF PubackBody
    <2>2. /\ pc = "puback_body" /\ pc' \in {"idle", "puback"} /\ cur' \in {cur, cur + 1}
          /\ UNCHANGED <<pid, waitPid, topic, inbound, session, delivered, owed, broker, c2b>>
      BY <1>10 DEF PubackBody, Finish
    <2> QED BY <2>1, <2>2 DEF ClientTypeOK, InSession, broker
  <1>11. CASE SubackBody
    <2>1. b2c' \in Seq(Pieces)
      BY <1>0, <1>11 DEF SubackBody
    <2>2. Len(Topics) = 2
      BY DEF Topics
    <2>3. CASE topic < Len(Topics)
      <3>1. c2b' \in Seq(Frames)
        <4>1. c2b' = Append(c2b, Frame("subscribe", NextPid))
          BY <1>11, <2>3 DEF SubackBody, Subscribe
        <4> QED BY <1>0, <4>1, FramesWritten, Appended
      <3>2. topic' \in {1, 2}
        BY <1>11, <2>2, <2>3 DEF SubackBody, Subscribe, ClientTypeOK
      <3> QED BY <1>0, <1>11, <2>1, <2>3, <3>1, <3>2
              DEF SubackBody, Subscribe, ClientTypeOK, InSession, Handshake, broker
    <2>4. CASE ~ (topic < Len(Topics))
      BY <1>11, <2>1, <2>4 DEF SubackBody, Finish, ClientTypeOK, InSession, broker
    <2> QED BY <2>3, <2>4
  <1>12. CASE ExchangeFails
    BY <1>12 DEF ExchangeFails, ClientTypeOK, InSession, broker
  <1>13. CASE WifiLost
    BY <1>13 DEF WifiLost, ClientTypeOK, InSession, broker
  <1>14. CASE BrokerAnswers
    <2> DEFINE f == Head(c2b)
    <2>1. f \in Frames /\ f.id \in Nat /\ (f.kind = "publish" => f.msg \in Nat)
      <3>1. f \in Frames
        BY <1>14, Replies
      <3> QED BY <3>1 DEF Frames
    <2>2. b2c' \in Seq(Pieces)
      <3>1. /\ Piece("connack", "whole", 0) \in Pieces /\ Piece("pingresp", "whole", 0) \in Pieces
            /\ Piece("suback", "head", 0) \in Pieces /\ Piece("suback", "body", f.id) \in Pieces
            /\ Piece("puback", "head", 0) \in Pieces /\ Piece("puback", "body", f.id) \in Pieces
        BY <2>1, TypedPieces
      <3>2. Append(b2c, Piece("suback", "head", 0)) \in Seq(Pieces)
        BY <1>0, <3>1, Appended
      <3>3. Append(b2c, Piece("puback", "head", 0)) \in Seq(Pieces)
        BY <1>0, <3>1, Appended
      <3>4. /\ Append(b2c, Piece("connack", "whole", 0)) \in Seq(Pieces)
            /\ Append(b2c, Piece("pingresp", "whole", 0)) \in Seq(Pieces)
            /\ Append(Append(b2c, Piece("suback", "head", 0)), Piece("suback", "body", f.id))
                  \in Seq(Pieces)
            /\ Append(Append(b2c, Piece("puback", "head", 0)), Piece("puback", "body", f.id))
                  \in Seq(Pieces)
        BY <1>0, <3>1, <3>2, <3>3, Appended
      <3> QED BY <1>0, <1>14, <3>4, Replies
    <2>3. c2b' \in Seq(Frames)
      BY <1>0, <1>14, Replies, Tailed
    <2>4. received' \in Seq(Nat) /\ acked' \in Seq(Nat)
      BY <1>14, <2>1, Appended DEF BrokerAnswers, ClientTypeOK
    <2>5. UNCHANGED <<client, offered>>
      BY <1>14 DEF BrokerAnswers
    <2> QED BY <2>2, <2>3, <2>4, <2>5 DEF ClientTypeOK, InSession, client
  <1>15. CASE BrokerSends
    <2>1. b2c' \in Seq(Pieces)
      BY <1>0, <1>15, CommandSent, Appended
    <2>2. offered' \in Seq(Nat)
      BY <1>15, CommandSent, Appended DEF BrokerSends, ClientTypeOK
    <2>3. UNCHANGED <<client, received, acked, c2b>>
      BY <1>15 DEF BrokerSends
    <2> QED BY <2>1, <2>2, <2>3 DEF ClientTypeOK, InSession, client
  <1>16. CASE UNCHANGED vars
    BY <1>16 DEF vars, ClientTypeOK, InSession
  <1>17. CASE PublishInQos0
    <2>1. b2c' \in Seq(Pieces) /\ Head(b2c).id \in Nat
      BY <1>0, <1>17 DEF PublishInQos0, AtFrame
    <2>2. delivered' \in Seq(Nat)
      BY <1>17, <2>1, Appended DEF PublishInQos0, ClientTypeOK
    <2>3. /\ (pc' = pc \/ (pc \in InSession /\ pc' = "idle"))
          /\ UNCHANGED <<pid, waitPid, topic, inbound, session, cur, owed, broker, c2b>>
      BY <1>17 DEF PublishInQos0, Finish, InSession
    <2> QED BY <2>1, <2>2, <2>3 DEF ClientTypeOK, InSession, broker
  <1> QED BY <1>1, <1>2, <1>3, <1>4, <1>5, <1>6, <1>7, <1>8, <1>9, <1>10, <1>11, <1>12,
             <1>13, <1>14, <1>15, <1>16, <1>17 DEF Next
\* Where bodies are not read, one place is as good as another.
LEMMA InStepFor ==
  ASSUME NEW p, NEW q, NEW in, InStep(p, in), p \in Bodies <=> q \in Bodies
  PROVE  InStep(q, in)
  BY DEF InStep, AtBody

\* A new connection has an empty stream.
LEMMA EmptyStream ==
  /\ NoRequest(<<>>) /\ NoAnswer(<<>>)
  /\ \A p : p \notin Bodies => InStep(p, <<>>)
  BY DEF NoRequest, NoAnswer, InStep, Piecewise, Paired, AtBody

\* A whole packet at the head of the stream: what is read, and what is left.
LEMMA WholeTaken ==
  ASSUME ClientTypeOK, SyncInv, pc \in Waiting, NEW kind \in {"connack", "pingresp", "publish"},
         AtFrame(kind), NEW q, q \notin Bodies
  PROVE  /\ InStep(q, Tail(b2c)) /\ OneExchange(pc, c2b, Tail(b2c))
         /\ kind # "publish" => NoRequest(c2b) /\ NoAnswer(Tail(b2c))
  <1>1. b2c \in Seq(Pieces) /\ b2c # <<>> /\ Head(b2c).kind = kind /\ Head(b2c).part # "body"
    BY DEF ClientTypeOK, AtFrame
  <1>2. InStep(pc, b2c) /\ OneExchange(pc, c2b, b2c)
    BY DEF SyncInv, Waiting
  <1>3. Head(b2c).part # "head"
    BY <1>1, <1>2, FirstPiece
  <1>4. InStep(q, Tail(b2c))
    BY <1>1, <1>2, <1>3, TakenInStep
  <1>5. kind # "publish" => IsAnswer(Head(b2c))
    BY <1>1 DEF IsAnswer
  <1> QED BY <1>1, <1>2, <1>4, <1>5, PieceTaken

\* The head of a PUBACK or SUBACK is only ever read by the caller that waits for it.
LEMMA HeadTaken ==
  ASSUME ClientTypeOK, SyncInv, pc \in Waiting, NEW kind \in {"puback", "suback"}, AtFrame(kind)
  PROVE  /\ pc = kind
         /\ NoRequest(c2b) /\ NoAnswer(Tail(b2c)) /\ ~ NoAnswer(b2c)
         /\ \A q \in Bodies : InStep(q, Tail(b2c))
  <1>1. b2c \in Seq(Pieces) /\ b2c # <<>> /\ Head(b2c).kind = kind /\ Head(b2c).part # "body"
    BY DEF ClientTypeOK, AtFrame
  <1>2. InStep(pc, b2c) /\ OneExchange(pc, c2b, b2c)
    BY DEF SyncInv, Waiting
  <1>3. Head(b2c).part = "head"
    BY <1>1, <1>2, FirstPiece
  <1>4. \A q \in Bodies : InStep(q, Tail(b2c))
    BY <1>1, <1>2, <1>3, TakenInStep
  <1>5. IsAnswer(Head(b2c))
    BY <1>1 DEF IsAnswer
  <1>6. ~ NoAnswer(b2c)
    <2>1. 1 \in 1..Len(b2c) /\ Head(b2c) = b2c[1]
      BY <1>1, Tailed
    <2> QED BY <1>5, <2>1 DEF NoAnswer
  <1> QED BY <1>1, <1>2, <1>4, <1>5, <1>6, PieceTaken

\* A body is read after its head, and nothing is under way then.
LEMMA BodyTaken ==
  ASSUME ClientTypeOK, SyncInv, pc \in Bodies, b2c # <<>>
  PROVE  /\ NoRequest(c2b) /\ NoAnswer(Tail(b2c)) /\ Head(b2c).kind \in {"puback", "suback"}
         /\ \A q : q \notin Bodies => InStep(q, Tail(b2c))
  <1>1. b2c \in Seq(Pieces) /\ c2b \in Seq(Frames) /\ Tail(b2c) \in Seq(Pieces)
    BY Tailed DEF ClientTypeOK
  <1>2. InStep(pc, b2c) /\ OneExchange(pc, c2b, b2c)
    BY DEF SyncInv, Bodies
  <1>3. Head(b2c).part = "body" /\ Head(b2c).kind \in {"puback", "suback"}
    BY <1>1, <1>2, FirstPiece
  <1>4. \A q : q \notin Bodies => InStep(q, Tail(b2c))
    BY <1>1, <1>2, <1>3, TakenInStep
  <1>5. OneExchange(pc, c2b, Tail(b2c))
    BY <1>1, <1>2, PieceTaken
  <1>6. NoRequest(c2b) /\ NoAnswer(Tail(b2c))
    BY <1>1, <1>5, NothingUnderWay
  <1> QED BY <1>3, <1>4, <1>6

\* The broker's answer keeps the stream in step and the exchange one.
LEMMA AnswerInSync ==
  ASSUME ClientTypeOK, SyncInv, BrokerAnswers
  PROVE  SyncInv'
  <1> DEFINE f == Head(c2b)
  <1>1. pc' = pc
    BY DEF BrokerAnswers, client
  <1> SUFFICES ASSUME pc # "down"
               PROVE  InStep(pc, b2c') /\ OneExchange(pc, c2b', b2c')
    BY <1>1 DEF SyncInv
  <1>2. InStep(pc, b2c) /\ OneExchange(pc, c2b, b2c)
    BY DEF SyncInv
  <1>3. b2c \in Seq(Pieces) /\ c2b \in Seq(Frames) /\ c2b # <<>> /\ c2b' = Tail(c2b)
    BY Replies DEF ClientTypeOK
  <1>4. f \in Frames /\ f.kind \in {"connect", "subscribe", "publish", "pingreq", "puback"}
    BY Replies
  <1>5. f.id \in Nat
    BY <1>4 DEF Frames
  <1>6. CASE f.kind \in {"connect", "pingreq"}
    <2>1. PICK x \in Pieces : /\ b2c' = Append(b2c, x) /\ x.part = "whole"
                              /\ x.kind \in {"connack", "pingresp"} /\ x.kind = AnswerTo(f.kind)
      <3>1. CASE f.kind = "connect"
        <4>1. b2c' = Append(b2c, Piece("connack", "whole", 0))
          BY <3>1, Replies
        <4> QED BY <3>1, <4>1, TypedPieces DEF AnswerTo
      <3>2. CASE f.kind = "pingreq"
        <4>1. b2c' = Append(b2c, Piece("pingresp", "whole", 0))
          BY <3>2, Replies
        <4> QED BY <3>2, <4>1, TypedPieces DEF AnswerTo
      <3> QED BY <1>6, <3>1, <3>2
    <2>2. InStep(pc, b2c')
      BY <1>2, <1>3, <2>1, WholeInStep
    <2>3. IsRequest(f) /\ IsAnswer(x)
      BY <1>6, <2>1 DEF IsRequest, IsAnswer
    <2> HIDE DEF f
    <2>4. OneExchange(pc, Tail(c2b), Append(b2c, x))
      BY <1>2, <1>3, <2>1, <2>3, RequestAnswered DEF f
    <2> QED BY <1>3, <2>1, <2>2, <2>4
  <1>7. CASE f.kind \in {"subscribe", "publish"}
    <2>1. PICK x \in Pieces, y \in Pieces :
              /\ b2c' = Append(Append(b2c, x), y)
              /\ x.part = "head" /\ x.kind \in {"puback", "suback"} /\ x.kind = AnswerTo(f.kind)
              /\ y.part = "body" /\ y.kind \in {"puback", "suback"}
      <3>1. CASE f.kind = "subscribe"
        <4>1. b2c' = Append(Append(b2c, Piece("suback", "head", 0)), Piece("suback", "body", f.id))
          BY <3>1, Replies
        <4>2. /\ Piece("suback", "head", 0) \in Pieces /\ Piece("suback", "body", f.id) \in Pieces
              /\ Piece("suback", "head", 0).kind = "suback"
              /\ Piece("suback", "head", 0).part = "head"
              /\ Piece("suback", "body", f.id).kind = "suback"
              /\ Piece("suback", "body", f.id).part = "body"
          BY <1>5, TypedPieces
        <4>3. AnswerTo(f.kind) = "suback"
          BY <3>1 DEF AnswerTo
        <4> QED BY <4>1, <4>2, <4>3
      <3>2. CASE f.kind = "publish"
        <4>1. b2c' = Append(Append(b2c, Piece("puback", "head", 0)), Piece("puback", "body", f.id))
          BY <3>2, Replies
        <4>2. /\ Piece("puback", "head", 0) \in Pieces /\ Piece("puback", "body", f.id) \in Pieces
              /\ Piece("puback", "head", 0).kind = "puback"
              /\ Piece("puback", "head", 0).part = "head"
              /\ Piece("puback", "body", f.id).kind = "puback"
              /\ Piece("puback", "body", f.id).part = "body"
          BY <1>5, TypedPieces
        <4>3. AnswerTo(f.kind) = "puback"
          BY <3>2 DEF AnswerTo
        <4> QED BY <4>1, <4>2, <4>3
      <3> QED BY <1>7, <3>1, <3>2
    <2>2. InStep(pc, b2c')
      BY <1>2, <1>3, <2>1, SplitInStep
    <2>3. IsRequest(f) /\ IsAnswer(x) /\ ~ IsAnswer(y)
      BY <1>7, <2>1 DEF IsRequest, IsAnswer
    <2> HIDE DEF f
    <2>4. OneExchange(pc, Tail(c2b), Append(b2c, x))
      BY <1>2, <1>3, <2>1, <2>3, RequestAnswered DEF f
    <2>5. Append(b2c, x) \in Seq(Pieces)
      BY <1>3, <2>1, Appended
    <2>6. OneExchange(pc, Tail(c2b), Append(Append(b2c, x), y))
      BY <2>1, <2>3, <2>4, <2>5, PassivePiece
    <2> QED BY <1>3, <2>1, <2>2, <2>6
  <1>8. CASE f.kind = "puback"
    <2>1. b2c' = b2c
      BY <1>8, Replies
    <2>2. OneExchange(pc, Tail(c2b), b2c)
      BY <1>2, <1>3, AckTaken
    <2> QED BY <1>2, <1>3, <2>1, <2>2
  <1> QED BY <1>4, <1>6, <1>7, <1>8

\* Every step keeps the stream in step.
LEMMA SyncNext == ClientTypeOK /\ SyncInv /\ AckInv /\ [Next]_vars => SyncInv'
  <1> SUFFICES ASSUME ClientTypeOK, SyncInv, AckInv, [Next]_vars
               PROVE  SyncInv'
    OBVIOUS
  <1>0. c2b \in Seq(Frames) /\ b2c \in Seq(Pieces) /\ NextPid \in Nat
    BY NextPidTyped DEF ClientTypeOK
  <1>1. CASE Connect
    <2>1. pc' = "connack" /\ c2b' = <<Frame("connect", 0)>> /\ b2c' = <<>>
      BY <1>1 DEF Connect
    <2>2. <<>> \in Seq(Frames) /\ Append(<<>>, Frame("connect", 0)) = <<Frame("connect", 0)>>
      BY EmptySeq
    <2>3. AnswerTo(Frame("connect", 0).kind) = "connack" /\ Frame("connect", 0) \in Frames
      BY FramesWritten DEF AnswerTo
    <2>4. OneExchange("connack", c2b', b2c')
      BY <2>1, <2>2, <2>3, EmptyStream, RequestSent
    <2>5. InStep("connack", b2c')
      BY <2>1, EmptyStream DEF Bodies
    <2> QED BY <2>1, <2>4, <2>5 DEF SyncInv
  <1>2. ASSUME pc = "idle", NEW f \in Frames, NEW q, q \notin Bodies, AnswerTo(f.kind) = q,
               c2b' = Append(c2b, f), b2c' = b2c, pc' = q
        PROVE  SyncInv'
    <2>1. InStep(pc, b2c) /\ OneExchange(pc, c2b, b2c)
      BY <1>2 DEF SyncInv
    <2>2. NoRequest(c2b) /\ NoAnswer(b2c)
      BY <1>0, <1>2, <2>1, NothingUnderWay
    <2>3. OneExchange(q, Append(c2b, f), b2c)
      BY <1>0, <1>2, <2>2, RequestSent
    <2>4. InStep(q, b2c)
      BY <1>2, <2>1, InStepFor DEF Bodies
    <2> QED BY <1>2, <2>3, <2>4 DEF SyncInv
  <1>3. CASE Publish
    <2> DEFINE f == [kind |-> "publish", id |-> NextPid, msg |-> cur]
    <2>1. f \in Frames /\ AnswerTo(f.kind) = "puback"
      BY <1>0 DEF Frames, AnswerTo, ClientTypeOK
    <2>2. pc = "idle" /\ c2b' = Append(c2b, f) /\ b2c' = b2c /\ pc' = "puback"
      BY <1>3 DEF Publish
    <2> HIDE DEF f
    <2> QED BY <1>2, <2>1, <2>2 DEF Bodies
  <1>4. CASE Ping
    <2>1. Frame("pingreq", 0) \in Frames /\ AnswerTo(Frame("pingreq", 0).kind) = "pingresp"
      BY FramesWritten DEF AnswerTo
    <2>2. pc = "idle" /\ c2b' = Append(c2b, Frame("pingreq", 0)) /\ b2c' = b2c /\ pc' = "pingresp"
      BY <1>4 DEF Ping
    <2> QED BY <1>2, <2>1, <2>2 DEF Bodies
  <1>5. CASE Poll
    <2>1. pc = "idle" /\ pc' = "poll" /\ c2b' = c2b /\ b2c' = b2c
      BY <1>5 DEF Poll
    <2>2. InStep(pc, b2c) /\ OneExchange(pc, c2b, b2c)
      BY <2>1 DEF SyncInv
    <2>3. NoRequest(c2b) /\ NoAnswer(b2c)
      BY <1>0, <2>1, <2>2, NothingUnderWay
    <2>4. OneExchange("poll", c2b, b2c)
      BY <2>3, NothingForAny
    <2>5. InStep("poll", b2c)
      BY <2>1, <2>2, InStepFor DEF Bodies
    <2> QED BY <2>1, <2>4, <2>5 DEF SyncInv
  <1>6. CASE ConnackIn
    <2>1. /\ pc = "connack" /\ AtFrame("connack") /\ b2c' = Tail(b2c) /\ pc' = "suback"
          /\ c2b' = Append(c2b, Frame("subscribe", NextPid))
      BY <1>6 DEF ConnackIn, Subscribe
    <2>2. NoRequest(c2b) /\ NoAnswer(Tail(b2c)) /\ InStep("suback", Tail(b2c))
      BY <2>1, WholeTaken DEF Waiting, Bodies
    <2>3. Frame("subscribe", NextPid) \in Frames
          /\ AnswerTo(Frame("subscribe", NextPid).kind) = "suback"
      BY <1>0, FramesWritten DEF AnswerTo
    <2>4. OneExchange("suback", Append(c2b, Frame("subscribe", NextPid)), Tail(b2c))
      BY <1>0, <2>2, <2>3, RequestSent
    <2> QED BY <2>1, <2>2, <2>4 DEF SyncInv
  <1>7. CASE PingrespIn
    <2>1. /\ pc \in Waiting /\ AtFrame("pingresp") /\ b2c' = Tail(b2c) /\ c2b' = c2b
          /\ pc' \in {pc, "idle"}
      BY <1>7 DEF PingrespIn, Finish
    <2>2. pc' \notin Bodies
      BY <2>1 DEF Waiting, Bodies
    <2>3. NoRequest(c2b) /\ NoAnswer(Tail(b2c)) /\ InStep(pc', Tail(b2c))
      BY <2>1, <2>2, WholeTaken
    <2>4. OneExchange(pc', c2b, Tail(b2c))
      BY <2>3, NothingForAny
    <2> QED BY <2>1, <2>3, <2>4 DEF SyncInv
  <1>8. CASE PublishIn
    <2>1. /\ pc \in Waiting /\ AtFrame("publish") /\ b2c' = Tail(b2c) /\ c2b' = c2b /\ pc' = pc
      BY <1>8 DEF PublishIn
    <2>2. pc \notin Bodies
      BY <2>1 DEF Waiting, Bodies
    <2>3. InStep(pc, Tail(b2c)) /\ OneExchange(pc, c2b, Tail(b2c))
      BY <2>1, <2>2, WholeTaken
    <2> QED BY <2>1, <2>3 DEF SyncInv
  <1>9. CASE AckInbound
    <2>1. /\ inbound # 0 /\ c2b' = Append(c2b, Frame("puback", inbound)) /\ b2c' = b2c
          /\ (pc' = pc \/ (pc = "poll" /\ pc' = "idle"))
      BY <1>9 DEF AckInbound, Finish
    <2>2. pc \in Waiting /\ inbound \in Nat
      BY <2>1 DEF AckInv, ClientTypeOK
    <2>3. InStep(pc, b2c) /\ OneExchange(pc, c2b, b2c)
      BY <2>2 DEF SyncInv, Waiting
    <2>4. Frame("puback", inbound) \in Frames /\ Frame("puback", inbound).kind = "puback"
      BY <2>2, FramesWritten
    <2>5. OneExchange(pc, c2b', b2c) /\ c2b' \in Seq(Frames)
      BY <1>0, <2>1, <2>3, <2>4, AckSent, Appended
    <2>6. CASE pc' = pc
      BY <2>1, <2>3, <2>5, <2>6 DEF SyncInv
    <2>7. CASE pc = "poll" /\ pc' = "idle"
      <3>1. NoRequest(c2b') /\ NoAnswer(b2c)
        BY <1>0, <2>5, <2>7, NothingUnderWay
      <3>2. OneExchange(pc', c2b', b2c)
        BY <3>1, NothingForAny
      <3>3. InStep(pc', b2c)
        BY <2>3, <2>7, InStepFor DEF Bodies
      <3> QED BY <2>1, <3>2, <3>3 DEF SyncInv
    <2> QED BY <2>1, <2>6, <2>7
  <1>10. CASE AckHead
    <2>1. PICK kind \in {"puback", "suback"} : AtFrame(kind) /\ (pc = kind => pc' \in Bodies)
      BY <1>10 DEF AckHead, Bodies
    <2>2. pc \in Waiting /\ b2c' = Tail(b2c) /\ c2b' = c2b
      BY <1>10 DEF AckHead
    <2>3. /\ pc = kind /\ NoRequest(c2b) /\ NoAnswer(Tail(b2c))
          /\ \A q \in Bodies : InStep(q, Tail(b2c))
      BY <2>1, <2>2, HeadTaken
    <2>4. OneExchange(pc', c2b, Tail(b2c))
      BY <2>3, NothingForAny
    <2> QED BY <2>1, <2>2, <2>3, <2>4 DEF SyncInv
  <1>11. CASE PubackBody
    <2>1. /\ pc \in Bodies /\ b2c # <<>> /\ b2c' = Tail(b2c) /\ c2b' = c2b
          /\ pc' \in {"idle", "puback"}
      BY <1>11 DEF PubackBody, Finish, Bodies
    <2>2. NoRequest(c2b) /\ NoAnswer(Tail(b2c)) /\ InStep(pc', Tail(b2c))
      BY <2>1, BodyTaken DEF Bodies
    <2>3. OneExchange(pc', c2b, Tail(b2c))
      BY <2>2, NothingForAny
    <2> QED BY <2>1, <2>2, <2>3 DEF SyncInv
  <1>12. CASE SubackBody
    <2>1. /\ pc \in Bodies /\ b2c # <<>> /\ b2c' = Tail(b2c)
          /\ \/ pc' = "suback" /\ c2b' = Append(c2b, Frame("subscribe", NextPid))
             \/ pc' = "idle" /\ c2b' = c2b
      BY <1>12 DEF SubackBody, Subscribe, Finish, Bodies
    <2>2. NoRequest(c2b) /\ NoAnswer(Tail(b2c)) /\ InStep(pc', Tail(b2c))
      BY <2>1, BodyTaken DEF Bodies
    <2>3. Frame("subscribe", NextPid) \in Frames
          /\ AnswerTo(Frame("subscribe", NextPid).kind) = "suback"
      BY <1>0, FramesWritten DEF AnswerTo
    <2>4. OneExchange("suback", Append(c2b, Frame("subscribe", NextPid)), Tail(b2c))
      BY <1>0, <2>2, <2>3, RequestSent
    <2>5. OneExchange("idle", c2b, Tail(b2c))
      BY <2>2, NothingForAny
    <2> QED BY <2>1, <2>2, <2>4, <2>5 DEF SyncInv
  <1>13. CASE ExchangeFails \/ WifiLost
    BY <1>13 DEF ExchangeFails, WifiLost, SyncInv
  <1>14. CASE BrokerAnswers
    BY <1>14, AnswerInSync
  <1>15. CASE BrokerSends
    <2> DEFINE x == Piece("publish", "whole", Len(offered) + 1)
    <2>1. /\ pc # "down" /\ pc' = pc /\ c2b' = c2b
          /\ b2c' = Append(b2c, x) /\ x \in Pieces
          /\ x.kind = "publish" /\ x.part = "whole"
      BY <1>15, CommandSent, TypedPieces DEF BrokerSends, Subscribed, client
    <2> HIDE DEF x
    <2>2. InStep(pc, b2c) /\ OneExchange(pc, c2b, b2c)
      BY <2>1 DEF SyncInv
    <2>3. InStep(pc, Append(b2c, x))
      BY <1>0, <2>1, <2>2, WholeInStep
    <2>4. OneExchange(pc, c2b, Append(b2c, x))
      BY <1>0, <2>1, <2>2, PassivePiece DEF IsAnswer
    <2> QED BY <2>1, <2>3, <2>4 DEF SyncInv
  <1>16. CASE UNCHANGED vars
    BY <1>16 DEF vars, SyncInv
  <1>17. CASE PublishInQos0
    <2>1. /\ pc \in Waiting /\ AtFrame("publish") /\ b2c' = Tail(b2c) /\ c2b' = c2b
          /\ pc' = pc \/ (pc = "poll" /\ pc' = "idle")
      BY <1>17 DEF PublishInQos0, Finish
    <2>2. pc \notin Bodies /\ pc' \notin Bodies
      BY <2>1 DEF Waiting, Bodies
    <2>3. InStep(pc', Tail(b2c)) /\ OneExchange(pc, c2b, Tail(b2c))
      BY <2>1, <2>2, WholeTaken
    <2>4. CASE pc' = pc
      BY <2>1, <2>3, <2>4 DEF SyncInv
    <2>5. CASE pc = "poll" /\ pc' = "idle"
      <3>1. Tail(b2c) \in Seq(Pieces)
        BY <1>0, <2>1, Tailed DEF AtFrame
      <3>2. NoRequest(c2b) /\ NoAnswer(Tail(b2c))
        BY <1>0, <2>3, <2>5, <3>1, NothingUnderWay
      <3>3. OneExchange(pc', c2b, Tail(b2c))
        BY <3>2, NothingForAny
      <3> QED BY <2>1, <2>3, <3>3 DEF SyncInv
    <2> QED BY <2>1, <2>4, <2>5
  <1> QED BY <1>1, <1>3, <1>4, <1>5, <1>6, <1>7, <1>8, <1>9, <1>10, <1>11, <1>12, <1>13,
             <1>14, <1>15, <1>16, <1>17 DEF Next
-----------------------------------------------------------------------------
(* The commands and their acknowledgements.                                *)

\* Taking a packet of another kind, or sending one, leaves the commands as they are.
LEMMA CommandsKept ==
  ASSUME ClientTypeOK, Underway, UNCHANGED <<offered, delivered, owed>>,
         \/ b2c' = b2c
         \/ b2c # <<>> /\ Head(b2c).kind # "publish" /\ b2c' = Tail(b2c)
  PROVE  Underway'
  <1>1. Len(offered) \in Nat /\ Len(delivered) \in Nat /\ b2c \in Seq(Pieces)
    BY LenProperties DEF ClientTypeOK
  <1>2. Carries(b2c', "publish", offered, Len(delivered), Len(offered))
    <2>1. CASE b2c' = b2c
      BY <2>1 DEF Underway
    <2>2. CASE b2c # <<>> /\ Head(b2c).kind # "publish" /\ b2c' = Tail(b2c)
      BY <1>1, <2>2, CarriesTail DEF Underway
    <2> QED BY <2>1, <2>2
  <1> QED BY <1>2 DEF Underway

\* The next command in the stream is the next one to be delivered.
LEMMA NextCommand ==
  ASSUME ClientTypeOK, Underway, b2c # <<>>, Head(b2c).kind = "publish"
  PROVE  /\ Head(b2c).id = Len(delivered) + 1
         /\ Len(delivered) + 1 \in Nat /\ Len(delivered) + 1 <= Len(offered)
         /\ Carries(Tail(b2c), "publish", offered, Len(delivered) + 1, Len(offered))
  <1>1. /\ Len(offered) \in Nat /\ Len(delivered) \in Nat /\ b2c \in Seq(Pieces)
        /\ offered \in Seq(Nat) /\ Counting(offered)
        /\ Carries(b2c, "publish", offered, Len(delivered), Len(offered))
    BY LenProperties DEF ClientTypeOK, Underway
  <1>2. Rising(offered)
    BY <1>1, CountingRises
  <1>3. /\ Head(b2c).id = offered[Len(delivered) + 1] /\ Len(delivered) + 1 <= Len(offered)
        /\ Carries(Tail(b2c), "publish", offered, Len(delivered) + 1, Len(offered))
    BY <1>1, <1>2, CarriesHead
  <1>4. offered[Len(delivered) + 1] = Len(delivered) + 1
    BY <1>1, <1>3 DEF Counting
  <1> QED BY <1>1, <1>3, <1>4

\* Commands are delivered in the order in which they were offered.
LEMMA UnderwayNext == ClientTypeOK /\ SyncInv /\ Underway /\ [Next]_vars => Underway'
  <1> SUFFICES ASSUME ClientTypeOK, SyncInv, Underway, [Next]_vars
               PROVE  Underway'
    OBVIOUS
  <1>0. /\ Len(offered) \in Nat /\ Len(delivered) \in Nat
        /\ b2c \in Seq(Pieces) /\ c2b \in Seq(Frames)
    BY LenProperties DEF ClientTypeOK
  <1>1. CASE Connect
    <2>1. offered' = <<>> /\ delivered' = <<>> /\ owed' = <<>> /\ b2c' = <<>>
      BY <1>1 DEF Connect
    <2>2. Carries(<<>>, "publish", <<>>, 0, 0) /\ Len(<<>>) = 0 /\ Counting(<<>>) /\ Rising(<<>>)
      BY CarriesNothing DEF Counting, Rising
    <2> QED BY <2>1, <2>2 DEF Underway
  <1>2. CASE Publish \/ Ping \/ Poll \/ AckInbound \/ ExchangeFails \/ WifiLost \/ UNCHANGED vars
    <2>1. UNCHANGED <<offered, delivered, owed, b2c>>
      BY <1>2 DEF Publish, Ping, Poll, AckInbound, ExchangeFails, WifiLost, vars, broker
    <2> QED BY <2>1, CommandsKept
  <1>3. CASE ConnackIn \/ PingrespIn
    <2>1. /\ UNCHANGED <<offered, delivered, owed>>
          /\ b2c # <<>> /\ Head(b2c).kind # "publish" /\ b2c' = Tail(b2c)
      BY <1>3 DEF ConnackIn, PingrespIn, AtFrame, broker
    <2> QED BY <2>1, CommandsKept
  <1>4. CASE AckHead
    <2>1. /\ UNCHANGED <<offered, delivered, owed>>
          /\ b2c # <<>> /\ Head(b2c).kind # "publish" /\ b2c' = Tail(b2c)
      BY <1>4 DEF AckHead, AtFrame, broker
    <2> QED BY <2>1, CommandsKept
  <1>5. CASE PubackBody \/ SubackBody
    <2>1. pc \in Bodies /\ b2c # <<>> /\ b2c' = Tail(b2c) /\ UNCHANGED <<offered, delivered, owed>>
      BY <1>5 DEF PubackBody, SubackBody, Bodies, broker
    <2>2. Head(b2c).kind # "publish"
      BY <2>1, BodyTaken
    <2> QED BY <2>1, <2>2, CommandsKept
  <1>6. CASE PublishIn \/ PublishInQos0
    <2> DEFINE v == Head(b2c).id
    <2>1. /\ b2c # <<>> /\ Head(b2c).kind = "publish" /\ b2c' = Tail(b2c) /\ offered' = offered
          /\ delivered' = Append(delivered, v)
          /\ owed' \in {owed, Append(owed, v)}
      BY <1>6 DEF PublishIn, PublishInQos0, AtFrame, broker
    <2>2. /\ v = Len(delivered) + 1 /\ Len(delivered) + 1 \in Nat
          /\ Carries(Tail(b2c), "publish", offered, Len(delivered) + 1, Len(offered))
      BY <1>0, <2>1, NextCommand
    <2> HIDE DEF v
    <2>3. Counting(delivered') /\ Len(delivered') = Len(delivered) + 1
      BY <2>1, <2>2, CountingNext DEF Underway, ClientTypeOK
    <2>4. Rising(owed') /\ \A i \in 1..Len(owed') : owed'[i] \in 1..Len(delivered')
      <3>1. /\ owed \in Seq(Nat) /\ Len(owed) \in Nat /\ Rising(owed)
            /\ \A i \in 1..Len(owed) : owed[i] \in 1..Len(delivered)
        BY LenProperties DEF ClientTypeOK, Underway
      <3>2. CASE owed' = owed
        BY <1>0, <2>3, <3>1, <3>2
      <3>3. CASE owed' = Append(owed, v)
        <4>1. \A i \in 1..Len(owed) : owed[i] < v
          BY <1>0, <2>2, <3>1
        <4>2. Rising(owed')
          BY <2>2, <3>1, <3>3, <4>1, RisingNext
        <4>3. /\ Len(owed') = Len(owed) + 1 /\ owed'[Len(owed) + 1] = v
              /\ \A i \in 1..Len(owed) : owed'[i] = owed[i]
          BY <2>2, <3>1, <3>3, Appended
        <4>4. \A i \in 1..Len(owed') : i \in 1..Len(owed) \/ i = Len(owed) + 1
          BY <3>1, <4>3
        <4>5. \A i \in 1..Len(owed') : owed'[i] \in 1..Len(delivered')
          <5> TAKE i \in 1..Len(owed')
          <5>1. v \in 1..Len(delivered')
            BY <1>0, <2>2, <2>3
          <5>2. 1..Len(delivered) \subseteq 1..Len(delivered')
            BY <1>0, <2>3
          <5>3. CASE i \in 1..Len(owed)
            BY <3>1, <4>3, <5>2, <5>3
          <5>4. CASE i = Len(owed) + 1
            BY <4>3, <5>1, <5>4
          <5> QED BY <4>4, <5>3, <5>4
        <4> QED BY <4>2, <4>5
      <3> QED BY <2>1, <3>2, <3>3
    <2> QED BY <2>1, <2>2, <2>3, <2>4 DEF Underway
  <1>7. CASE BrokerAnswers
    <2> DEFINE f == Head(c2b)
    <2>1. UNCHANGED <<offered, delivered, owed>>
      BY <1>7 DEF BrokerAnswers, client
    <2>2. f.id \in Nat /\ f.kind \in {"connect", "subscribe", "publish", "pingreq", "puback"}
      <3>1. f \in Frames
        BY <1>7, Replies
      <3> QED BY <3>1 DEF Frames
    <2>3. Carries(b2c, "publish", offered, Len(delivered), Len(offered))
      BY DEF Underway
    <2>4. \A kind \in {"connack", "suback", "puback", "pingresp"} :
            \A part \in {"whole", "head", "body"} : \A id \in Nat :
              Piece(kind, part, id) \in Pieces /\ Piece(kind, part, id).kind # "publish"
      BY TypedPieces
    <2>5. CASE f.kind = "puback"
      BY <1>7, <2>1, <2>5, Replies, CommandsKept
    <2>6. CASE f.kind \in {"connect", "pingreq"}
      <3>1. PICK x \in Pieces : b2c' = Append(b2c, x) /\ x.kind # "publish"
        BY <1>7, <2>4, <2>6, Replies
      <3>2. Carries(b2c', "publish", offered, Len(delivered), Len(offered))
        BY <1>0, <2>3, <3>1, CarriesOther
      <3> QED BY <2>1, <3>2 DEF Underway
    <2>7. CASE f.kind \in {"subscribe", "publish"}
      <3>1. PICK x \in Pieces, y \in Pieces : /\ b2c' = Append(Append(b2c, x), y)
                                             /\ x.kind # "publish" /\ y.kind # "publish"
        <4>1. CASE f.kind = "subscribe"
          <5>1. b2c' = Append(Append(b2c, Piece("suback", "head", 0)),
                              Piece("suback", "body", f.id))
            BY <1>7, <4>1, Replies
          <5>2. /\ Piece("suback", "head", 0) \in Pieces
                /\ Piece("suback", "body", f.id) \in Pieces
                /\ Piece("suback", "head", 0).kind # "publish"
                /\ Piece("suback", "body", f.id).kind # "publish"
            BY <2>2, <2>4
          <5> QED BY <5>1, <5>2
        <4>2. CASE f.kind = "publish"
          <5>1. b2c' = Append(Append(b2c, Piece("puback", "head", 0)),
                              Piece("puback", "body", f.id))
            BY <1>7, <4>2, Replies
          <5>2. /\ Piece("puback", "head", 0) \in Pieces
                /\ Piece("puback", "body", f.id) \in Pieces
                /\ Piece("puback", "head", 0).kind # "publish"
                /\ Piece("puback", "body", f.id).kind # "publish"
            BY <2>2, <2>4
          <5> QED BY <5>1, <5>2
        <4> QED BY <2>7, <4>1, <4>2
      <3>2. Append(b2c, x) \in Seq(Pieces)
        BY <1>0, Appended
      <3>3. Carries(Append(b2c, x), "publish", offered, Len(delivered), Len(offered))
        BY <1>0, <2>3, <3>1, CarriesOther
      <3>4. Carries(b2c', "publish", offered, Len(delivered), Len(offered))
        BY <1>0, <3>1, <3>2, <3>3, CarriesOther
      <3> QED BY <2>1, <3>4 DEF Underway
    <2> QED BY <2>2, <2>5, <2>6, <2>7
  <1>8. CASE BrokerSends
    <2> DEFINE x == Piece("publish", "whole", Len(offered) + 1)
    <2>1. /\ b2c' = Append(b2c, x) /\ x \in Pieces /\ x.kind = "publish"
          /\ x.id = Len(offered) + 1
      BY <1>8, CommandSent, TypedPieces
    <2> HIDE DEF x
    <2>2. /\ offered' = Append(offered, Len(offered) + 1)
          /\ UNCHANGED <<delivered, owed>>
      BY <1>8 DEF BrokerSends, client
    <2>3. /\ Counting(offered') /\ Len(offered') = Len(offered) + 1 /\ offered' \in Seq(Nat)
          /\ offered'[Len(offered) + 1] = Len(offered) + 1
      <3>1. offered \in Seq(Nat) /\ Len(offered) + 1 \in Nat
        BY <1>0 DEF ClientTypeOK
      <3> QED BY <2>2, <3>1, CountingNext, Appended DEF Underway
    <2>4. Rising(offered')
      BY <2>3, CountingRises
    <2>5. Carries(b2c, "publish", offered', Len(delivered), Len(offered))
      <3>1. /\ offered \in Seq(Nat) /\ Len(offered) \in Nat /\ Len(delivered) \in Nat
            /\ Len(offered) + 1 \in Nat /\ Len(offered) <= Len(offered)
        BY <1>0 DEF ClientTypeOK
      <3>2. Carries(b2c, "publish", offered, Len(delivered), Len(offered))
        BY DEF Underway
      <3> QED BY <2>2, <3>1, <3>2, CarriesLonger
    <2>6. Carries(b2c', "publish", offered', Len(delivered), Len(offered) + 1)
      <3>1. Len(offered) + 1 <= Len(offered')
        BY <1>0, <2>3
      <3>2. offered' \in Seq(Nat) /\ x.id = offered'[Len(offered) + 1]
        BY <2>1, <2>3
      <3>3. Carries(Append(b2c, x), "publish", offered', Len(delivered), Len(offered) + 1)
        BY <1>0, <2>1, <2>4, <2>5, <3>1, <3>2, CarriesNext
      <3> QED BY <2>1, <3>3
    <2> QED BY <2>2, <2>3, <2>6 DEF Underway
  <1> QED BY <1>1, <1>2, <1>3, <1>4, <1>5, <1>6, <1>7, <1>8 DEF Next

\* A step that neither acknowledges nor owes more keeps the acknowledgements.
LEMMA AcksKept ==
  ASSUME ClientTypeOK, AckInv, UNCHANGED <<acked, owed>>, pc # "down",
         \/ c2b' = c2b
         \/ \E f \in Frames : f.kind # "puback" /\ c2b' = Append(c2b, f),
         \/ inbound' = 0 /\ pc' = "down"
         \/ inbound' = inbound /\ (inbound = 0 \/ pc' = pc)
  PROVE  AckInv'
  <1>1. Len(acked) \in Nat /\ Len(owed) \in Nat /\ c2b \in Seq(Frames)
    BY LenProperties DEF ClientTypeOK
  <1>2. PICK n \in Nat : /\ n <= Len(owed) /\ Carries(c2b, "puback", owed, Len(acked), n)
                         /\ n = Confirmed
    BY DEF AckInv
  <1>3. Carries(c2b', "puback", owed, Len(acked), n)
    <2>1. CASE c2b' = c2b
      BY <1>2, <2>1
    <2>2. CASE \E f \in Frames : f.kind # "puback" /\ c2b' = Append(c2b, f)
      BY <1>1, <1>2, <2>2, CarriesOther
    <2> QED BY <2>1, <2>2
  <1>4. pc' # "down" => n = Confirmed'
    BY <1>2 DEF Confirmed
  <1>5. /\ Begins(acked', owed')
        /\ inbound' # 0 =>
             owed' # <<>> /\ inbound' = owed'[Len(owed')] /\ pc' \in Waiting \ {"connack"}
    BY DEF AckInv
  <1>6. n <= Len(owed') /\ Carries(c2b', "puback", owed', Len(acked'), n)
    BY <1>2, <1>3
  <1> QED BY <1>4, <1>5, <1>6 DEF AckInv

\* Acknowledgements go out after their deliveries, in order.
LEMMA AckNext == ClientTypeOK /\ SyncInv /\ Underway /\ AckInv /\ [Next]_vars => AckInv'
  <1> SUFFICES ASSUME ClientTypeOK, SyncInv, Underway, AckInv, [Next]_vars
               PROVE  AckInv'
    OBVIOUS
  <1>0. /\ Len(acked) \in Nat /\ Len(owed) \in Nat
        /\ acked \in Seq(Nat) /\ owed \in Seq(Nat)
        /\ c2b \in Seq(Frames) /\ b2c \in Seq(Pieces) /\ inbound \in Nat /\ NextPid \in Nat
    BY LenProperties, NextPidTyped DEF ClientTypeOK
  <1>1. pc \notin Waiting \ {"connack"} => inbound = 0
    BY DEF AckInv
  <1>2. CASE Connect
    <2>1. /\ acked' = <<>> /\ owed' = <<>> /\ inbound' = 0 /\ pc' = "connack"
          /\ c2b' = <<Frame("connect", 0)>>
      BY <1>2 DEF Connect
    <2>2. <<>> \in Seq(Frames) /\ Append(<<>>, Frame("connect", 0)) = <<Frame("connect", 0)>>
      BY EmptySeq
    <2>3. Frame("connect", 0) \in Frames /\ Frame("connect", 0).kind # "puback"
      BY FramesWritten
    <2>4. Carries(<<>>, "puback", <<>>, 0, 0) /\ Len(<<>>) = 0 /\ Begins(<<>>, <<>>)
      BY CarriesNothing DEF Begins
    <2>5. Carries(c2b', "puback", <<>>, 0, 0)
      BY <2>1, <2>2, <2>3, <2>4, CarriesOther
    <2> QED BY <2>1, <2>4, <2>5 DEF AckInv, Confirmed
  <1>3. CASE Publish
    <2> DEFINE f == [kind |-> "publish", id |-> NextPid, msg |-> cur]
    <2>1. f \in Frames /\ f.kind # "puback"
      BY <1>0 DEF Frames, ClientTypeOK
    <2>2. pc = "idle" /\ c2b' = Append(c2b, f) /\ UNCHANGED <<inbound, acked, owed>>
      BY <1>3 DEF Publish, broker
    <2> HIDE DEF f
    <2>3. inbound = 0
      BY <1>1, <2>2 DEF Waiting
    <2> QED BY <2>1, <2>2, <2>3, AcksKept
  <1>4. CASE Ping
    <2>1. Frame("pingreq", 0) \in Frames /\ Frame("pingreq", 0).kind # "puback"
      BY FramesWritten
    <2>2. /\ pc = "idle" /\ c2b' = Append(c2b, Frame("pingreq", 0))
          /\ UNCHANGED <<inbound, acked, owed>>
      BY <1>4 DEF Ping, broker
    <2>3. inbound = 0
      BY <1>1, <2>2 DEF Waiting
    <2> QED BY <2>1, <2>2, <2>3, AcksKept
  <1>5. CASE Poll \/ PubackBody \/ WifiLost
    <2>1. /\ pc \in {"idle", "puback_body"} /\ c2b' = c2b /\ UNCHANGED <<inbound, acked, owed>>
      BY <1>5 DEF Poll, PubackBody, WifiLost, broker
    <2>2. inbound = 0 /\ pc # "down"
      BY <1>1, <2>1 DEF Waiting
    <2> QED BY <2>1, <2>2, AcksKept
  <1>6. CASE ConnackIn \/ SubackBody
    <2>1. /\ pc \in {"connack", "suback_body"} /\ UNCHANGED <<inbound, acked, owed>>
          /\ c2b' \in {c2b, Append(c2b, Frame("subscribe", NextPid))}
      BY <1>6 DEF ConnackIn, SubackBody, Subscribe, broker
    <2>2. inbound = 0 /\ pc # "down"
      BY <1>1, <2>1 DEF Waiting
    <2>3. Frame("subscribe", NextPid) \in Frames /\ Frame("subscribe", NextPid).kind # "puback"
      BY <1>0, FramesWritten
    <2> QED BY <2>1, <2>2, <2>3, AcksKept
  <1>7. CASE PingrespIn \/ PublishInQos0 \/ AckHead
    <2>1. /\ pc \in Waiting /\ inbound = 0 /\ c2b' = c2b /\ UNCHANGED <<inbound, acked, owed>>
      BY <1>7 DEF PingrespIn, PublishInQos0, AckHead, broker
    <2>2. pc # "down"
      BY <2>1 DEF Waiting
    <2> QED BY <2>1, <2>2, AcksKept
  <1>8. CASE ExchangeFails
    <2>1. /\ pc # "down" /\ pc' = "down" /\ inbound' = 0 /\ c2b' = c2b
          /\ UNCHANGED <<acked, owed>>
      BY <1>8 DEF ExchangeFails, broker
    <2> QED BY <2>1, AcksKept
  <1>9. CASE BrokerSends
    <2>1. pc # "down" /\ c2b' = c2b /\ pc' = pc /\ UNCHANGED <<inbound, acked, owed>>
      BY <1>9 DEF BrokerSends, Subscribed, client
    <2> QED BY <2>1, AcksKept
  <1>10. CASE PublishIn
    <2> DEFINE v == Head(b2c).id
    <2>1. /\ pc \in Waiting \ {"connack"} /\ inbound = 0 /\ pc' = pc /\ UNCHANGED <<c2b, acked>>
          /\ b2c # <<>> /\ Head(b2c).kind = "publish" /\ inbound' = v
          /\ owed' = Append(owed, v)
      BY <1>10 DEF PublishIn, AtFrame, broker
    <2>2. v \in Nat
      BY <2>1, NextCommand
    <2> HIDE DEF v
    <2>3. Len(owed') = Len(owed) + 1 /\ owed'[Len(owed) + 1] = v /\ owed' # <<>>
      <3>1. owed \in Seq(Nat) /\ owed' = Append(owed, v)
        BY <1>0, <2>1
      <3> QED BY <2>2, <3>1, Appended
    <2>4. PICK n \in Nat : /\ n <= Len(owed) /\ Carries(c2b, "puback", owed, Len(acked), n)
                           /\ n = Confirmed
      BY <2>1 DEF AckInv, Waiting
    <2>5. n = Len(owed)
      BY <2>1, <2>4 DEF Confirmed
    <2>6. Carries(c2b', "puback", owed', Len(acked'), n)
      BY <1>0, <2>1, <2>2, <2>4, CarriesLonger
    <2>7. Begins(acked', owed')
      BY <1>0, <2>1, <2>2, BeginsNext DEF AckInv
    <2>8. n <= Len(owed') /\ (pc' # "down" => n = Confirmed')
      <3>1. CASE v = 0
        BY <2>1, <2>2, <3>1, NextCommand, LenProperties DEF v, ClientTypeOK
      <3>2. CASE v # 0
        BY <1>0, <2>1, <2>3, <2>5, <3>2 DEF Confirmed
      <3> QED BY <3>1, <3>2
    <2>9. inbound' = owed'[Len(owed')] /\ pc' \in Waiting \ {"connack"}
      BY <2>1, <2>3
    <2> QED BY <2>3, <2>6, <2>7, <2>8, <2>9 DEF AckInv
  <1>11. CASE AckInbound
    <2>1. /\ inbound # 0 /\ inbound' = 0 /\ c2b' = Append(c2b, Frame("puback", inbound))
          /\ UNCHANGED <<acked, owed>>
      BY <1>11 DEF AckInbound, broker
    <2>2. pc # "down" /\ inbound = owed[Len(owed)]
      BY <2>1 DEF AckInv, Waiting
    <2>3. PICK n \in Nat : /\ n <= Len(owed) /\ Carries(c2b, "puback", owed, Len(acked), n)
                           /\ n = Confirmed
      BY <2>2 DEF AckInv
    <2>4. n + 1 = Len(owed) /\ inbound = owed[n + 1]
      BY <1>0, <2>1, <2>2, <2>3 DEF Confirmed
    <2>5. /\ Frame("puback", inbound) \in Frames /\ Frame("puback", inbound).kind = "puback"
          /\ Frame("puback", inbound).id = inbound
      BY <1>0, FramesWritten
    <2>6. Carries(c2b', "puback", owed, Len(acked), n + 1)
      BY <1>0, <2>1, <2>3, <2>4, <2>5, CarriesNext DEF Underway
    <2>7. Confirmed' = n + 1 /\ n + 1 \in Nat /\ n + 1 <= Len(owed')
      BY <1>0, <2>1, <2>4 DEF Confirmed
    <2>8. Begins(acked', owed')
      BY <2>1 DEF AckInv
    <2> QED BY <2>1, <2>6, <2>7, <2>8 DEF AckInv
  <1>12. CASE BrokerAnswers
    <2> DEFINE f == Head(c2b)
    <2>1. /\ c2b # <<>> /\ c2b' = Tail(c2b)
          /\ UNCHANGED <<pc, inbound, owed>>
          /\ acked' = IF f.kind = "puback" THEN Append(acked, f.id) ELSE acked
      BY <1>12 DEF BrokerAnswers, client
    <2> HIDE DEF f
    <2>2. PICK n \in Nat : /\ n <= Len(owed) /\ Carries(c2b, "puback", owed, Len(acked), n)
                           /\ pc # "down" => n = Confirmed
      BY DEF AckInv
    <2>3. Begins(acked', owed') /\ Carries(c2b', "puback", owed', Len(acked'), n)
      <3>1. CASE f.kind = "puback"
        <4>1. /\ f.id = owed[Len(acked) + 1] /\ Len(acked) + 1 <= n
              /\ Carries(Tail(c2b), "puback", owed, Len(acked) + 1, n)
          BY <1>0, <2>1, <2>2, <3>1, CarriesHead DEF f, Underway
        <4>2. Begins(acked', owed')
          BY <1>0, <2>1, <2>2, <3>1, <4>1, BeginsNext DEF AckInv
        <4>3. f.id \in Nat
          BY <1>0, <2>2, <4>1, ElementOfSeq
        <4>4. Len(acked') = Len(acked) + 1
          BY <1>0, <2>1, <3>1, <4>3, Appended
        <4> QED BY <2>1, <4>1, <4>2, <4>4
      <3>2. CASE f.kind # "puback"
        <4>1. Carries(Tail(c2b), "puback", owed, Len(acked), n)
          BY <1>0, <2>1, <2>2, <3>2, CarriesTail DEF f
        <4> QED BY <2>1, <3>2, <4>1 DEF AckInv
      <3> QED BY <3>1, <3>2
    <2>4. (pc' # "down" => n = Confirmed') /\ n <= Len(owed')
      BY <2>1, <2>2 DEF Confirmed
    <2>5. inbound' # 0 =>
            owed' # <<>> /\ inbound' = owed'[Len(owed')] /\ pc' \in Waiting \ {"connack"}
      BY <2>1 DEF AckInv
    <2> QED BY <2>3, <2>4, <2>5 DEF AckInv
  <1>13. CASE UNCHANGED vars
    BY <1>13 DEF vars, AckInv, Confirmed
  <1> QED BY <1>2, <1>3, <1>4, <1>5, <1>6, <1>7, <1>8, <1>9, <1>10, <1>11, <1>12, <1>13
          DEF Next
-----------------------------------------------------------------------------
(* The message being published.                                            *)

\* What has been received stays received.
LEMMA ReceivedStays ==
  ASSUME NEW s \in Seq(Nat), NEW x \in Nat
  PROVE  x \in ToSet(Append(s, x)) /\ ToSet(s) \subseteq ToSet(Append(s, x))
  <1> DEFINE t == Append(s, x)
  <1>1. /\ t \in Seq(Nat) /\ Len(s) \in Nat /\ Len(t) = Len(s) + 1 /\ t[Len(s) + 1] = x
        /\ \A i \in 1..Len(s) : t[i] = s[i]
    BY Appended, LenProperties
  <1>2. DOMAIN s = 1..Len(s) /\ DOMAIN t = 1..Len(t)
    BY <1>1, LenProperties
  <1> HIDE DEF t
  <1>3. Len(s) + 1 \in DOMAIN t /\ \A i \in DOMAIN s : i \in DOMAIN t /\ t[i] = s[i]
    BY <1>1, <1>2
  <1>4. x \in ToSet(t)
    BY <1>1, <1>3 DEF ToSet
  <1>5. ToSet(s) \subseteq ToSet(t)
    BY <1>3 DEF ToSet
  <1> QED BY <1>4, <1>5 DEF t

\* A stream without an answer has none after its first piece, nor with a PUBLISH added.
LEMMA NoAnswerStays ==
  ASSUME NEW in \in Seq(Pieces), NoAnswer(in)
  PROVE  /\ in # <<>> => NoAnswer(Tail(in))
         /\ \A x \in Pieces : x.kind = "publish" => NoAnswer(Append(in, x))
  <1>1. ASSUME in # <<>>
        PROVE  NoAnswer(Tail(in))
    <2> DEFINE t == Tail(in)
    <2>1. /\ Len(in) \in Nat \ {0} /\ Len(t) = Len(in) - 1
          /\ \A i \in 1..Len(in) - 1 : t[i] = in[i + 1]
      BY <1>1, Tailed
    <2> HIDE DEF t
    <2>2. \A i \in 1..Len(t) : i + 1 \in 1..Len(in) /\ t[i] = in[i + 1]
      BY <2>1
    <2>3. NoAnswer(t)
      BY <2>2 DEF NoAnswer
    <2> QED BY <2>3 DEF t
  <1>2. ASSUME NEW x \in Pieces, x.kind = "publish"
        PROVE  NoAnswer(Append(in, x))
    <2> DEFINE t == Append(in, x)
    <2>1. /\ Len(in) \in Nat /\ Len(t) = Len(in) + 1 /\ t[Len(in) + 1] = x
          /\ \A i \in 1..Len(in) : t[i] = in[i]
      BY Appended, LenProperties
    <2> HIDE DEF t
    <2>2. \A i \in 1..Len(t) : i \in 1..Len(in) \/ i = Len(in) + 1
      BY <2>1
    <2>3. NoAnswer(t)
      BY <1>2, <2>1, <2>2 DEF NoAnswer, IsAnswer
    <2> QED BY <2>3 DEF t
  <1> QED BY <1>1, <1>2

\* Every message under way is the current one.
CurrentOnly(out, n) == \A i \in 1..Len(out) : out[i].kind = "publish" => out[i].msg = n

\* A frame sent of another kind, or of the current message, leaves it so; so does a frame read.
LEMMA CurrentKept ==
  ASSUME NEW out \in Seq(Frames), NEW n, CurrentOnly(out, n)
  PROVE  /\ \A f \in Frames : (f.kind = "publish" => f.msg = n) => CurrentOnly(Append(out, f), n)
         /\ out # <<>> => CurrentOnly(Tail(out), n) /\ (Head(out).kind = "publish" => Head(out).msg = n)
  <1>1. ASSUME NEW f \in Frames, f.kind = "publish" => f.msg = n
        PROVE  CurrentOnly(Append(out, f), n)
    <2> DEFINE t == Append(out, f)
    <2>1. /\ Len(out) \in Nat /\ Len(t) = Len(out) + 1 /\ t[Len(out) + 1] = f
          /\ \A i \in 1..Len(out) : t[i] = out[i]
      BY Appended, LenProperties
    <2> HIDE DEF t
    <2>2. \A i \in 1..Len(t) : i \in 1..Len(out) \/ i = Len(out) + 1
      BY <2>1
    <2>3. CurrentOnly(t, n)
      BY <1>1, <2>1, <2>2 DEF CurrentOnly
    <2> QED BY <2>3 DEF t
  <1>2. ASSUME out # <<>>
        PROVE  CurrentOnly(Tail(out), n) /\ (Head(out).kind = "publish" => Head(out).msg = n)
    <2> DEFINE t == Tail(out)
    <2>1. /\ Len(out) \in Nat \ {0} /\ Len(t) = Len(out) - 1 /\ Head(out) = out[1]
          /\ \A i \in 1..Len(out) - 1 : t[i] = out[i + 1]
      BY <1>2, Tailed
    <2> HIDE DEF t
    <2>2. 1 \in 1..Len(out) /\ \A i \in 1..Len(t) : i + 1 \in 1..Len(out) /\ t[i] = out[i + 1]
      BY <2>1
    <2>3. CurrentOnly(t, n)
      BY <2>2 DEF CurrentOnly
    <2>4. Head(out).kind = "publish" => Head(out).msg = n
      BY <2>1, <2>2 DEF CurrentOnly
    <2> QED BY <2>3, <2>4 DEF t
  <1> QED BY <1>1, <1>2

\* publish() has its answer, or the beginning of it, only of a message that was received.
LEMMA PublishNext ==
  ClientTypeOK /\ SyncInv /\ AckInv /\ PublishInv /\ [Next]_vars => PublishInv'
  <1> SUFFICES ASSUME ClientTypeOK, SyncInv, AckInv, PublishInv, [Next]_vars
               PROVE  PublishInv'
    OBVIOUS
  <1>0. /\ c2b \in Seq(Frames) /\ b2c \in Seq(Pieces) /\ NextPid \in Nat /\ cur \in Nat
        /\ received \in Seq(Nat) /\ inbound \in Nat
    BY NextPidTyped DEF ClientTypeOK
  <1>1. CurrentOnly(c2b, cur)
    BY DEF PublishInv, CurrentOnly
  <1>2. ASSUME NEW f \in Frames, f.kind # "publish", c2b' = Append(c2b, f), cur' = cur
        PROVE  CurrentOnly(c2b', cur')
    BY <1>0, <1>1, <1>2, CurrentKept
  <1>3. ASSUME CurrentOnly(c2b', cur'),
               pc' = "puback_body" \/ (pc' = "puback" /\ ~ NoAnswer(b2c')) =>
                 cur' \in ToSet(received')
        PROVE  PublishInv'
    BY <1>3 DEF PublishInv, CurrentOnly
  <1>4. CASE Connect
    <2>1. pc' = "connack" /\ c2b' = <<Frame("connect", 0)>>
      BY <1>4 DEF Connect
    <2>2. Append(<<>>, Frame("connect", 0)) = <<Frame("connect", 0)>> /\ <<>> \in Seq(Frames)
      BY EmptySeq
    <2>3. CurrentOnly(<<>>, cur')
      BY DEF CurrentOnly
    <2>4. Frame("connect", 0) \in Frames /\ Frame("connect", 0).kind # "publish"
      BY FramesWritten
    <2>5. CurrentOnly(c2b', cur')
      BY <2>1, <2>2, <2>3, <2>4, CurrentKept
    <2> QED BY <1>3, <2>1, <2>5
  <1>5. CASE Publish
    <2> DEFINE f == [kind |-> "publish", id |-> NextPid, msg |-> cur]
    <2>1. f \in Frames /\ f.msg = cur
      BY <1>0 DEF Frames
    <2>2. pc = "idle" /\ c2b' = Append(c2b, f) /\ UNCHANGED <<cur, b2c>>
      BY <1>5 DEF Publish
    <2> HIDE DEF f
    <2>3. CurrentOnly(c2b', cur')
      BY <1>0, <1>1, <2>1, <2>2, CurrentKept
    <2>4. OneExchange(pc, c2b, b2c)
      BY <2>2 DEF SyncInv
    <2>5. NoAnswer(b2c)
      BY <1>0, <2>2, <2>4, NothingUnderWay
    <2>6. NoAnswer(b2c') /\ pc' = "puback"
      BY <1>5, <2>2, <2>5 DEF Publish
    <2> QED BY <1>3, <2>3, <2>6
  <1>6. CASE Ping
    <2>1. Frame("pingreq", 0) \in Frames /\ Frame("pingreq", 0).kind # "publish"
      BY FramesWritten
    <2>2. pc' = "pingresp" /\ c2b' = Append(c2b, Frame("pingreq", 0)) /\ cur' = cur
      BY <1>6 DEF Ping
    <2> QED BY <1>2, <1>3, <2>1, <2>2
  <1>7. CASE Poll \/ ExchangeFails \/ WifiLost
    <2>1. pc' \notin {"puback", "puback_body"} /\ c2b' = c2b /\ cur' = cur
      BY <1>7 DEF Poll, ExchangeFails, WifiLost
    <2> QED BY <1>1, <1>3, <2>1
  <1>8. CASE ConnackIn
    <2>1. Frame("subscribe", NextPid) \in Frames /\ Frame("subscribe", NextPid).kind # "publish"
      BY <1>0, FramesWritten
    <2>2. pc' = "suback" /\ c2b' = Append(c2b, Frame("subscribe", NextPid)) /\ cur' = cur
      BY <1>8 DEF ConnackIn, Subscribe
    <2> QED BY <1>2, <1>3, <2>1, <2>2
  <1>9. CASE PingrespIn
    <2>1. /\ pc \in Waiting /\ AtFrame("pingresp") /\ b2c' = Tail(b2c) /\ UNCHANGED <<c2b, cur>>
          /\ pc' \in {pc, "idle"}
      BY <1>9 DEF PingrespIn, Finish
    <2>2. pc' \notin Bodies
      BY <2>1 DEF Waiting, Bodies
    <2>3. NoAnswer(Tail(b2c))
      BY <2>1, <2>2, WholeTaken
    <2> QED BY <1>1, <1>3, <2>1, <2>2, <2>3 DEF Bodies
  <1>10. CASE PublishIn
    <2>1. /\ pc \in Waiting /\ b2c # <<>> /\ b2c' = Tail(b2c) /\ pc' = pc
          /\ UNCHANGED <<c2b, cur, received>>
      BY <1>10 DEF PublishIn, AtFrame, broker
    <2>2. NoAnswer(b2c) => NoAnswer(b2c')
      BY <1>0, <2>1, NoAnswerStays
    <2> QED BY <1>1, <1>3, <2>1, <2>2 DEF PublishInv
  <1>11. CASE AckInbound
    <2>1. Frame("puback", inbound) \in Frames /\ Frame("puback", inbound).kind # "publish"
      BY <1>0, FramesWritten
    <2>2. /\ c2b' = Append(c2b, Frame("puback", inbound)) /\ pc' \in {pc, "idle"}
          /\ UNCHANGED <<cur, b2c, received>>
      BY <1>11 DEF AckInbound, Finish, broker
    <2>3. CurrentOnly(c2b', cur')
      BY <1>2, <2>1, <2>2
    <2> QED BY <1>3, <2>2, <2>3 DEF PublishInv
  <1>12. CASE AckHead
    <2>1. PICK kind \in {"puback", "suback"} :
              /\ AtFrame(kind)
              /\ pc = kind => pc' = IF kind = "puback" THEN "puback_body" ELSE "suback_body"
      BY <1>12 DEF AckHead
    <2>2. pc \in Waiting /\ UNCHANGED <<c2b, cur, received>>
      BY <1>12 DEF AckHead, broker
    <2>3. pc = kind /\ ~ NoAnswer(b2c)
      BY <2>1, <2>2, HeadTaken
    <2> QED BY <1>1, <1>3, <2>1, <2>2, <2>3 DEF PublishInv
  <1>13. CASE PubackBody
    <2>1. /\ pc \in Bodies /\ b2c # <<>> /\ b2c' = Tail(b2c) /\ c2b' = c2b
          /\ pc' \in {"idle", "puback"}
      BY <1>13 DEF PubackBody, Finish, Bodies
    <2>2. NoRequest(c2b) /\ NoAnswer(Tail(b2c))
      BY <2>1, BodyTaken
    <2>3. CurrentOnly(c2b', cur')
      BY <2>1, <2>2 DEF NoRequest, IsRequest, CurrentOnly
    <2> QED BY <1>3, <2>1, <2>2, <2>3
  <1>14. CASE SubackBody
    <2>1. /\ pc' \in {"suback", "idle"} /\ cur' = cur
          /\ c2b' \in {c2b, Append(c2b, Frame("subscribe", NextPid))}
      BY <1>14 DEF SubackBody, Subscribe, Finish
    <2>2. Frame("subscribe", NextPid) \in Frames /\ Frame("subscribe", NextPid).kind # "publish"
      BY <1>0, FramesWritten
    <2>3. CurrentOnly(c2b', cur')
      BY <1>1, <1>2, <2>1, <2>2
    <2> QED BY <1>3, <2>1, <2>3
  <1>15. CASE BrokerAnswers
    <2> DEFINE f == Head(c2b)
    <2>1. /\ c2b # <<>> /\ c2b' = Tail(c2b) /\ f \in Frames
          /\ f.kind \in {"connect", "subscribe", "publish", "pingreq", "puback"}
          /\ f.kind = "puback" => b2c' = b2c
      BY <1>15, Replies
    <2>2. /\ UNCHANGED <<pc, cur>>
          /\ received' = IF f.kind = "publish" THEN Append(received, f.msg) ELSE received
      BY <1>15 DEF BrokerAnswers, client
    <2>3. CurrentOnly(c2b', cur') /\ (f.kind = "publish" => f.msg = cur)
      BY <1>0, <1>1, <2>1, <2>2, CurrentKept
    <2>4. ToSet(received) \subseteq ToSet(received') /\ (f.kind = "publish" => cur \in ToSet(received'))
      BY <1>0, <2>2, <2>3, ReceivedStays
    <2>5. pc = "puback" /\ f.kind # "puback" => f.kind = "publish"
      <3> SUFFICES ASSUME pc = "puback", f.kind # "puback"
                   PROVE  f.kind = "publish"
        OBVIOUS
      <3>1. OneRequest(pc, c2b)
        BY DEF SyncInv, OneExchange
      <3>2. 1 \in 1..Len(c2b) /\ f = c2b[1]
        BY <1>0, <2>1, Tailed
      <3>3. AnswerTo(f.kind) = "puback"
        BY <3>1, <3>2 DEF OneRequest, IsRequest
      <3> QED BY <2>1, <3>3 DEF AnswerTo
    <2> HIDE DEF f
    <2>6. pc' = "puback_body" => cur' \in ToSet(received')
      BY <2>2, <2>4 DEF PublishInv
    <2>7. ASSUME pc' = "puback", ~ NoAnswer(b2c')
          PROVE  cur' \in ToSet(received')
      <3>1. CASE f.kind = "puback"
        BY <2>1, <2>2, <2>4, <2>7, <3>1 DEF PublishInv
      <3>2. CASE f.kind # "puback"
        BY <2>2, <2>4, <2>5, <2>7, <3>2
      <3> QED BY <3>1, <3>2
    <2> QED BY <1>3, <2>3, <2>6, <2>7
  <1>16. CASE BrokerSends
    <2> DEFINE x == Piece("publish", "whole", Len(offered) + 1)
    <2>1. b2c' = Append(b2c, x) /\ x \in Pieces /\ x.kind = "publish"
      BY <1>16, CommandSent, TypedPieces
    <2> HIDE DEF x
    <2>2. UNCHANGED <<pc, cur, received, c2b>>
      BY <1>16 DEF BrokerSends, client
    <2>3. NoAnswer(b2c) => NoAnswer(b2c')
      BY <1>0, <2>1, NoAnswerStays
    <2> QED BY <1>1, <1>3, <2>2, <2>3 DEF PublishInv
  <1>17. CASE UNCHANGED vars
    BY <1>17 DEF vars, PublishInv
  <1>18. CASE PublishInQos0
    <2>1. /\ b2c # <<>> /\ b2c' = Tail(b2c) /\ pc' \in {pc, "idle"}
          /\ UNCHANGED <<c2b, cur, received>>
      BY <1>18 DEF PublishInQos0, AtFrame, Finish, broker
    <2>2. NoAnswer(b2c) => NoAnswer(b2c')
      BY <1>0, <2>1, NoAnswerStays
    <2> QED BY <1>1, <1>3, <2>1, <2>2 DEF PublishInv
  <1> QED BY <1>4, <1>5, <1>6, <1>7, <1>8, <1>9, <1>10, <1>11, <1>12, <1>13, <1>14, <1>15,
             <1>16, <1>17, <1>18 DEF Next

-----------------------------------------------------------------------------
ClientInv == ClientTypeOK /\ SyncInv /\ Underway /\ AckInv /\ PublishInv

\* The invariant of the client and its stream.
LEMMA ClientInvariant == Spec => []ClientInv
  <1>1. Init => ClientInv
    BY InitClient DEF ClientInv
  <1>2. ClientInv /\ [Next]_vars => ClientInv'
    BY TypeNext, SyncNext, UnderwayNext, AckNext, PublishNext DEF ClientInv
  <1> QED BY <1>1, <1>2, PTL DEF Spec

\* No exchange begins to read in the middle of a packet: of a PUBACK or a SUBACK wait_msg()
\* leaves the body to its caller, and the caller is always the one that waits for it,
\* whatever failed, timed out or arrived in between.
THEOREM StreamStaysInSync == Spec => []StreamInSync
  <1>1. ClientInv => StreamInSync
    <2> SUFFICES ASSUME ClientInv, pc \in Waiting \cup {"idle"}, b2c # <<>>
                 PROVE  Head(b2c).part # "body"
      BY DEF StreamInSync
    <2>1. b2c \in Seq(Pieces) /\ InStep(pc, b2c) /\ pc \notin Bodies
      BY DEF ClientInv, ClientTypeOK, SyncInv, Waiting, Bodies
    <2> QED BY <2>1, FirstPiece
  <1> QED BY <1>1, ClientInvariant, PTL

\* The broker sees the commands of QoS 1 acknowledged only after the callback has had them,
\* in the order in which it sent them and with none passed over, and no other command
\* acknowledged: the PUBACK is written when the callback has returned.
THEOREM AcksFollowCallbacks == Spec => []AckedAfterCallback
  <1>1. ClientInv => AckedAfterCallback
    <2> SUFFICES ASSUME ClientInv
                 PROVE  IsPrefix(acked, owed)
      BY DEF AckedAfterCallback
    <2>1. acked \in Seq(Nat) /\ owed \in Seq(Nat) /\ Begins(acked, owed)
      BY DEF ClientInv, ClientTypeOK, AckInv
    <2> QED BY <2>1, BeginsIsPrefix
  <1> QED BY <1>1, ClientInvariant, PTL

\* Each step of the client, the broker or the connection is one of the link, or none.
LEMMA LinkStep ==
  ClientInv /\ [Next]_vars =>
    [Link!Next]_<<session, cur, received, offered, delivered>>
  <1> DEFINE link == <<session, cur, received, offered, delivered>>
  <1> SUFFICES ASSUME ClientInv, [Next]_vars
               PROVE  Link!Next \/ UNCHANGED link
    OBVIOUS
  <1>0. /\ ClientTypeOK /\ SyncInv /\ Underway /\ AckInv /\ PublishInv
        /\ c2b \in Seq(Frames) /\ b2c \in Seq(Pieces)
        /\ Len(offered) \in Nat /\ Len(delivered) \in Nat
    BY LenProperties DEF ClientInv, ClientTypeOK
  <1>1. CASE Connect
    <2>1. session = "down" /\ offered' = <<>> /\ delivered' = <<>> /\ UNCHANGED <<session, cur, received>>
      BY <1>0, <1>1 DEF Connect, ClientTypeOK, InSession
    <2> QED BY <2>1 DEF Link!Next, Link!Renew
  <1>2. CASE Publish \/ Ping \/ Poll \/ ConnackIn \/ PingrespIn \/ AckInbound \/ AckHead \/ UNCHANGED vars
    BY <1>2 DEF Publish, Ping, Poll, ConnackIn, PingrespIn, AckInbound, AckHead, broker, vars
  <1>3. CASE PublishIn \/ PublishInQos0
    <2>1. /\ b2c # <<>> /\ Head(b2c).kind = "publish" /\ delivered' = Append(delivered, Head(b2c).id)
          /\ UNCHANGED <<session, cur, received, offered>>
      BY <1>3 DEF PublishIn, PublishInQos0, AtFrame, broker
    <2>2. Head(b2c).id = Len(delivered) + 1 /\ Len(delivered) + 1 <= Len(offered)
      BY <1>0, <2>1, NextCommand
    <2>3. Len(delivered) < Len(offered) /\ offered[Len(delivered) + 1] = Len(delivered) + 1
      BY <1>0, <2>2 DEF Underway, Counting
    <2> QED BY <2>1, <2>2, <2>3 DEF Link!Next, Link!Deliver
  <1>4. CASE PubackBody
    <2>1. /\ pc = "puback_body" /\ UNCHANGED <<session, received, offered, delivered>>
          /\ cur' \in {cur, cur + 1}
      BY <1>4 DEF PubackBody, broker
    <2>2. session = "up" /\ cur \in ToSet(received)
      BY <1>0, <2>1 DEF ClientTypeOK, InSession, PublishInv
    <2> QED BY <2>1, <2>2 DEF Link!Next, Link!PublishReturns, ToSet, Link!ToSet
  <1>5. CASE SubackBody
    <2>1. /\ pc = "suback_body" /\ UNCHANGED <<cur, received, offered, delivered>>
          /\ session' \in {session, "up"}
      BY <1>5 DEF SubackBody, broker
    <2>2. session = "down"
      BY <1>0, <2>1 DEF ClientTypeOK, InSession
    <2> QED BY <2>1, <2>2 DEF Link!Next, Link!Up
  <1>6. CASE ExchangeFails \/ WifiLost
    <2>1. session' = "down" /\ UNCHANGED <<cur, received, offered, delivered>>
      BY <1>6 DEF ExchangeFails, WifiLost, broker
    <2> QED BY <2>1 DEF Link!Next, Link!Down
  <1>7. CASE BrokerAnswers
    <2> DEFINE f == Head(c2b)
    <2>1. /\ UNCHANGED <<session, cur, offered, delivered>>
          /\ received' = IF f.kind = "publish" THEN Append(received, f.msg) ELSE received
          /\ c2b # <<>>
      BY <1>7 DEF BrokerAnswers, client
    <2>2. CurrentOnly(c2b, cur)
      BY <1>0 DEF PublishInv, CurrentOnly
    <2>3. f.kind = "publish" => f.msg = cur
      BY <1>0, <2>1, <2>2, CurrentKept
    <2> HIDE DEF f
    <2> QED BY <2>1, <2>3 DEF Link!Next, Link!Receive
  <1>8. CASE BrokerSends
    <2>1. /\ offered' = Append(offered, Len(offered) + 1)
          /\ UNCHANGED <<session, cur, received, delivered>>
      BY <1>8 DEF BrokerSends, client
    <2> QED BY <2>1 DEF Link!Next, Link!Offer
  <1> QED BY <1>1, <1>2, <1>3, <1>4, <1>5, <1>6, <1>7, <1>8 DEF Next

\* The client over its byte stream implements the link that the rest of Core 0 relies on:
\* a publish that returns has been received, and the commands of a session reach the
\* callback once, in order, with none skipped.
THEOREM ClientImplementsLink == Spec => ImplementsLink
  <1>1. Init => Link!Init
    BY DEF Init, Link!Init
  <1>2. ClientInv /\ [Next]_vars =>
          [Link!Next]_<<session, cur, received, offered, delivered>>
    BY LinkStep
  <1> QED BY <1>1, <1>2, ClientInvariant, PTL DEF Spec, ImplementsLink, Link!Spec, Link!vars
=============================================================================
