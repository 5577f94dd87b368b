---------------------------- MODULE NetworkProofs ----------------------------
(***************************************************************************)
(* Proofs about Network for every delay list, timeout and attempt count    *)
(* that satisfies the named assumptions.  IInv is the inductive invariant: *)
(* where Core 0 may be in each phase (Places), what a startup pass has     *)
(* verified so far (Evident, Contract), what the counters account for      *)
(* (Balance), what the mailbox may say in an outage (Silence), and how     *)
(* long ago the watchdog was fed at each place (Feeding).  Noticing adds   *)
(* how long a dead worker may have gone unnoticed at each place.           *)
(***************************************************************************)
EXTENDS Network, SequenceTheorems, TLAPS

Establishing == {"wifi", "wifi_try", "window", "sleep", "mqtt", "connect"}
StartPcs == {"begin", "probe1", "settled", "probe2", "utc_begin", "utc", "utc_wait",
             "utc_check", "failed", "drop", "publish_utc", "set_ready", "announce",
             "arm"}
RunPcs == {"restored", "announce_again", "top", "recover", "outage", "report",
           "begin_poll", "poll", "begin_publish", "publish", "idle", "ping",
           "periodic", "begin_utc", "run_utc", "end"}

Numbers == attempt \in Nat \ {0} /\ left \in Nat /\ io \in Nat /\ unfed \in Nat

(* A place belongs to a phase; a delay list is never overrun, and an       *)
(* exchange of the run loop begins on a session.                           *)
Places ==
    /\ phase \in {"startup", "run"}
    /\ \/ pc \in Establishing
       \/ phase = "startup" /\ pc \in StartPcs
       \/ phase = "run" /\ pc \in RunPcs
    /\ pc = "sleep" => \/ then \in {"wifi", "wifi_try", "mqtt", "connect"}
                       \/ (then = "drop" /\ phase = "startup")
    /\ pc \in {"wifi_try", "window"} \/ (pc = "sleep" /\ then = "wifi_try")
          => attempt <= Len(WifiDelays)
    /\ pc = "connect" \/ (pc = "sleep" /\ then = "connect")
          => attempt <= Len(MqttDelays) /\ ~up
    /\ pc \in Exchanges \ {"connect"} /\ io = 0 => up \/ phase = "startup"

Evident == evidence \subseteq AllEvidence

(* start() tells nobody before it is through, and its evidence is complete *)
(* from then on: nothing but a startup pass clears it.                     *)
Contract ==
    /\ phase = "startup" /\ pc \notin {"announce", "arm"} => ~ready
    /\ phase = "startup" /\ pc # "arm" => box = None /\ worker # "running"
    /\ phase = "run" \/ pc \in {"set_ready", "announce", "arm"}
          => utcBox /\ evidence = AllEvidence
    /\ pc = "publish_utc" => utc /\ evidence = AllEvidence
    /\ pc \in {"utc_begin", "utc", "utc_wait", "utc_check"}
          => {"probe1", "probe2"} \subseteq evidence
    /\ pc \in {"settled", "probe2"} => "probe1" \in evidence

(* The counters follow the state each object remembers, not the link.      *)
Balance ==
    /\ wifiBalance = IF wasConnected THEN 1 ELSE 0
    /\ mqttBalance = IF up THEN 1 ELSE 0
    /\ SnapshotBalanced

(* Recovery begins after ready was cleared and that was published.         *)
Silence ==
    /\ pc \in Establishing => box = None \/ ~box.ready
    /\ phase = "run" /\ pc \in Establishing \cup {"outage", "report"} => ~ready

(* There is room for one computation more before the watchdog fires.       *)
Room == unfed + Work < WdtTimeout

(* What attempts that fail at once, with delays of 0, have spent by the    *)
(* n-th of them, after a last slice.                                       *)
Spent(n) == 1 + (n - 1) * Work

Feeding ==
    /\ phase = "startup" => ~armed
    /\ ~armed => unfed = 0
    /\ pc = "wifi" \/ pc \in {"recover", "outage", "report"} => unfed <= 1
    /\ pc = "sleep" /\ then = "wifi" /\ left = 0 => unfed <= 1
    /\ pc \in {"wifi_try", "window"} \/ (pc = "sleep" /\ then = "wifi_try")
          => unfed <= Spent(attempt)
    /\ pc = "sleep" /\ then \notin {"wifi", "wifi_try"} => Room
    /\ pc \notin {"top", "sleep"} /\ ~(pc \in Exchanges \ {"connect"} /\ io = 0)
          => Room
    /\ unfed < WdtTimeout

IInv == Numbers /\ Places /\ Evident /\ Contract /\ Balance /\ Silence /\ Feeding


-----------------------------------------------------------------------------
(* The assumptions, one constant at a time.                                *)
LEMMA Constants ==
  /\ Window \in Nat \ {0} /\ MaxOps \in Nat \ {0} /\ OpTime \in Nat \ {0}
  /\ Work \in Nat \ {0} /\ UtcAttempts \in Nat \ {0} /\ PingPasses \in Nat \ {0}
  /\ PublishDelay \in Nat /\ SettleTime \in Nat
  /\ UtcWait \in Nat /\ UtcPause \in Nat
  /\ StaleTimeout \in Nat \ {0} /\ WdtTimeout \in Nat
  /\ OpTime + Work < WdtTimeout
  BY BudgetAssumption

(* Delay lists are not empty, and their last delay is not 0.               *)
LEMMA Delays ==
  /\ Len(WifiDelays) \in Nat \ {0} /\ Len(MqttDelays) \in Nat \ {0}
  /\ \A n \in 1 .. Len(WifiDelays) : WifiDelays[n] \in Nat
  /\ \A n \in 1 .. Len(MqttDelays) : MqttDelays[n] \in Nat
  /\ WifiDelays[Len(WifiDelays)] > 0 /\ MqttDelays[Len(MqttDelays)] > 0
  <1>1. Len(WifiDelays) \in Nat \ {0} /\ Len(MqttDelays) \in Nat \ {0}
    BY DelaysAssumption, EmptySeq
  <1>2. /\ \A n \in 1 .. Len(WifiDelays) : WifiDelays[n] \in Nat
        /\ \A n \in 1 .. Len(MqttDelays) : MqttDelays[n] \in Nat
    BY DelaysAssumption
  <1> QED BY <1>1, <1>2, DelaysAssumption

(* A multiple of more is more.                                             *)
LEMMA MultipleGrows ==
  ASSUME NEW m \in Nat, NEW n \in Nat, NEW w \in Nat, m <= n
  PROVE  /\ m * w \in Nat /\ n * w \in Nat
         /\ m * w <= n * w
  <1>1. PICK k \in Nat : n = m + k
    <2>1. n - m \in Nat /\ n = m + (n - m)
      OBVIOUS
    <2> QED BY <2>1
  <1>2. m * w \in Nat /\ k * w \in Nat /\ n * w = m * w + k * w
    BY <1>1
  <1> QED BY <1>2

(* A whole list of attempts leaves room for one computation more.          *)
LEMMA SpentGrows ==
  ASSUME NEW n \in Nat \ {0}
  PROVE  /\ Spent(n) \in Nat \ {0}
         /\ Spent(n) + Work = Spent(n + 1)
         /\ n <= Len(WifiDelays) => Spent(n) + Work < WdtTimeout
  <1>1. n - 1 \in Nat /\ Work \in Nat
    BY Constants
  <1>2. (n - 1) * Work \in Nat
    BY <1>1
  <1>3. (n - 1) * Work + Work = n * Work
    BY <1>1
  <1>4. ASSUME n <= Len(WifiDelays)
        PROVE  n * Work <= Len(WifiDelays) * Work
    <2>1. n \in Nat /\ Len(WifiDelays) \in Nat /\ Work \in Nat
      BY <1>1, Delays
    <2> QED BY <1>4, <2>1, MultipleGrows
  <1>5. n * Work \in Nat /\ Len(WifiDelays) * Work \in Nat
    BY <1>1, Delays
  <1> QED BY <1>1, <1>2, <1>3, <1>4, <1>5, AttemptsAssumption, Constants DEF Spent

(* SpentGrows for the first attempt.                                       *)
LEMMA FirstAttempt == Spent(1) \in Nat \ {0} /\ Spent(1) + Work < WdtTimeout
  <1>1. 1 \in Nat \ {0} /\ 1 <= Len(WifiDelays)
    BY Delays
  <1> QED BY <1>1, SpentGrows

(* Counters stay natural numbers; a backoff takes a delay of its list.     *)
LEMMA NumbersKept ==
  ASSUME IInv, [Next]_vars
  PROVE  Numbers'
  <1> USE Constants, Delays DEF IInv, Numbers, Exchanges, AllEvidence,
                                Establishing, StartPcs, RunPcs, control, link,
                                session, wlan, shared, dogs
  <1>1. CASE SleepSlice
    BY <1>1 DEF SleepSlice, ServiceThen
  <1>2. CASE SleepEnd
    BY <1>2 DEF SleepEnd
  <1>3. CASE WifiHead
    BY <1>3 DEF WifiHead, Goto
  <1>4. CASE WifiTry \/ WifiObserve \/ WifiUp
    BY <1>4 DEF WifiTry, WifiObserve, WifiUp, Goto, Age, ServiceThen
  <1>5. CASE WifiAttemptFails
    <2>1. attempt \in 1 .. Len(WifiDelays)
      BY <1>5 DEF WifiAttemptFails, Places
    <2>2. WifiDelays[attempt] \in Nat
      BY <2>1
    <2> QED BY <1>5, <2>1, <2>2 DEF WifiAttemptFails, Age, SleepThen
  <1>6. CASE MqttHead
    BY <1>6 DEF MqttHead, Goto
  <1>7. CASE SocketOp \/ Connected
    BY <1>7 DEF SocketOp, Connected, Goto, ServiceThen, ExchangeDone
  <1>8. CASE ConnectFails
    <2>1. attempt \in 1 .. Len(MqttDelays)
      BY <1>8 DEF ConnectFails, Places
    <2>2. MqttDelays[attempt] \in Nat
      BY <2>1
    <2> QED BY <1>8, <2>1, <2>2 DEF ConnectFails, SleepThen
  <1>9. CASE BeginPass \/ FirstProbeDone \/ SecondProbe \/ SecondProbeDone \/
             ProbeFails
    BY <1>9 DEF BeginPass, FirstProbeDone, SecondProbe, SecondProbeDone, ProbeFails,
                Paced, Age, ExchangeDone, ExchangeFailed, MarkDisconnected, Goto
  <1>10. CASE UtcSent
    BY <1>10 DEF UtcSent, ExchangeDone, Goto
  <1>11. CASE UtcWaited
    BY <1>11 DEF UtcWaited, Age, MarkDisconnected, Goto
  <1>12. CASE UtcBegin
    BY <1>12 DEF UtcBegin, Paced, Age
  <1>13. CASE UtcSendFails
    BY <1>13 DEF UtcSendFails, ExchangeFailed, MarkDisconnected, Goto
  <1>14. CASE UtcCheck
    BY <1>14 DEF UtcCheck, Age, Goto
  <1>15. CASE PassFailed \/ DropSession \/ PublishUtc \/ SetReady \/ Arm
    BY <1>15 DEF PassFailed, DropSession, PublishUtc, SetReady, Arm, SleepThen,
                 MarkDisconnected, Goto
  <1>16. CASE Announce
    BY <1>16 DEF Announce, Goto, Snapshot
  <1>17. CASE Report
    BY <1>17 DEF Report, Goto, Snapshot
  <1>18. CASE Periodic
    BY <1>18 DEF Periodic, Goto, Snapshot
  <1>19. CASE TopOfPass
    BY <1>19 DEF TopOfPass, ServiceThen, Goto
  <1>20. CASE Recover
    BY <1>20 DEF Recover, Goto
  <1>21. CASE Outage
    BY <1>21 DEF Outage,  MarkDisconnected, Goto
  <1>22. CASE BeginPoll \/ BeginPublish \/ BeginUtc \/ Idle
    BY <1>22 DEF BeginPoll, BeginPublish, BeginUtc, Idle, BeginExchange, Age
  <1>23. CASE RunExchangeDone
    BY <1>23 DEF RunExchangeDone, ExchangeDone, After, Goto
  <1>24. CASE RunExchangeFails
    BY <1>24 DEF RunExchangeFails, ExchangeFailed, MarkDisconnected, After, Goto
  <1>25. CASE EndOfPass
    BY <1>25 DEF EndOfPass, Age, Goto
  <1>26. CASE HeartbeatReset \/ Fault
    BY <1>26 DEF HeartbeatReset, Fault, Reboot
  <1>27. CASE WorkerStarts \/ WorkerDies \/ Associate \/ LoseWifi \/ LoseBroker \/
              Heal
    BY <1>27 DEF WorkerStarts, WorkerDies, Associate, LoseWifi, LoseBroker, Heal
  <1>28. CASE UNCHANGED vars
    BY <1>28 DEF vars
  <1> QED BY <1>1, <1>2, <1>3, <1>4, <1>5, <1>6, <1>7, <1>8, <1>9, <1>10, <1>11,
             <1>12, <1>13, <1>14, <1>15, <1>16, <1>17, <1>18, <1>19, <1>20, <1>21,
             <1>22, <1>23, <1>24, <1>25, <1>26, <1>27, <1>28
          DEF Next, Core0Step, Establish, Startup, Run, Environment

(* Every step leads to a place of its phase.                               *)
LEMMA PlacesKept ==
  ASSUME IInv, [Next]_vars
  PROVE  Places'
  <1> USE Constants, Delays DEF IInv, Numbers, Places, Exchanges, AllEvidence,
                                Establishing, StartPcs, RunPcs, control, link,
                                session, wlan, shared, dogs
  <1>1. CASE SleepSlice
    BY <1>1 DEF SleepSlice, ServiceThen
  <1>2. CASE SleepEnd
    BY <1>2 DEF SleepEnd
  <1>3. CASE WifiHead
    BY <1>3 DEF WifiHead, Goto
  <1>4. CASE WifiTry \/ WifiObserve \/ WifiUp
    BY <1>4 DEF WifiTry, WifiObserve, WifiUp, Goto, Age, ServiceThen
  <1>5. CASE WifiAttemptFails
    BY <1>5 DEF WifiAttemptFails, Age, SleepThen
  <1>6. CASE MqttHead
    BY <1>6 DEF MqttHead, Goto
  <1>7. CASE SocketOp \/ Connected
    BY <1>7 DEF SocketOp, Connected, Goto, ServiceThen, ExchangeDone
  <1>8. CASE ConnectFails
    BY <1>8 DEF ConnectFails, ExchangeFailed, SleepThen
  <1>9. CASE BeginPass \/ FirstProbeDone \/ SecondProbe \/ SecondProbeDone \/
             ProbeFails
    BY <1>9 DEF BeginPass, FirstProbeDone, SecondProbe, SecondProbeDone, ProbeFails,
                Paced, Age, ExchangeDone, ExchangeFailed, MarkDisconnected, Goto
  <1>10. CASE UtcSent
    BY <1>10 DEF UtcSent, ExchangeDone, Goto
  <1>11. CASE UtcWaited
    BY <1>11 DEF UtcWaited, Age, MarkDisconnected, Goto
  <1>12. CASE UtcBegin
    BY <1>12 DEF UtcBegin, Paced, Age
  <1>13. CASE UtcSendFails
    BY <1>13 DEF UtcSendFails, ExchangeFailed, MarkDisconnected, Goto
  <1>14. CASE UtcCheck
    BY <1>14 DEF UtcCheck, Age, Goto
  <1>15. CASE PassFailed \/ DropSession \/ PublishUtc \/ SetReady \/ Arm
    BY <1>15 DEF PassFailed, DropSession, PublishUtc, SetReady, Arm, SleepThen,
                 MarkDisconnected, Goto
  <1>16. CASE Announce
    BY <1>16 DEF Announce, Goto, Snapshot
  <1>17. CASE Report
    BY <1>17 DEF Report, Goto, Snapshot
  <1>18. CASE Periodic
    BY <1>18 DEF Periodic, Goto, Snapshot
  <1>19. CASE TopOfPass
    BY <1>19 DEF TopOfPass, ServiceThen, Goto
  <1>20. CASE Recover
    BY <1>20 DEF Recover, Goto
  <1>21. CASE Outage
    BY <1>21 DEF Outage,  MarkDisconnected, Goto
  <1>22. CASE BeginPoll \/ BeginPublish \/ BeginUtc \/ Idle
    BY <1>22 DEF BeginPoll, BeginPublish, BeginUtc, Idle, BeginExchange, Age
  <1>23. CASE RunExchangeDone
    BY <1>23 DEF RunExchangeDone, ExchangeDone, After, Goto
  <1>24. CASE RunExchangeFails
    BY <1>24 DEF RunExchangeFails, ExchangeFailed, MarkDisconnected, After, Goto
  <1>25. CASE EndOfPass
    BY <1>25 DEF EndOfPass, Age, Goto
  <1>26. CASE HeartbeatReset \/ Fault
    BY <1>26 DEF HeartbeatReset, Fault, Reboot
  <1>27. CASE WorkerStarts \/ WorkerDies \/ Associate \/ LoseWifi \/ LoseBroker \/
              Heal
    BY <1>27 DEF WorkerStarts, WorkerDies, Associate, LoseWifi, LoseBroker, Heal
  <1>28. CASE UNCHANGED vars
    BY <1>28 DEF vars
  <1> QED BY <1>1, <1>2, <1>3, <1>4, <1>5, <1>6, <1>7, <1>8, <1>9, <1>10, <1>11,
             <1>12, <1>13, <1>14, <1>15, <1>16, <1>17, <1>18, <1>19, <1>20, <1>21,
             <1>22, <1>23, <1>24, <1>25, <1>26, <1>27, <1>28
          DEF Next, Core0Step, Establish, Startup, Run, Environment

(* Only the three verifications are evidence.                              *)
LEMMA EvidentKept ==
  ASSUME IInv, [Next]_vars
  PROVE  Evident'
  <1> USE Constants, Delays DEF IInv, Evident, Exchanges, AllEvidence,
                                Establishing, StartPcs, RunPcs, control, link,
                                session, wlan, shared, dogs
  <1>1. CASE SleepSlice
    BY <1>1 DEF SleepSlice, ServiceThen
  <1>2. CASE SleepEnd
    BY <1>2 DEF SleepEnd
  <1>3. CASE WifiHead
    BY <1>3 DEF WifiHead, Goto
  <1>4. CASE WifiTry \/ WifiObserve \/ WifiUp
    BY <1>4 DEF WifiTry, WifiObserve, WifiUp, Goto, Age, ServiceThen
  <1>5. CASE WifiAttemptFails
    BY <1>5 DEF WifiAttemptFails, Age, SleepThen
  <1>6. CASE MqttHead
    BY <1>6 DEF MqttHead, Goto
  <1>7. CASE SocketOp \/ Connected
    BY <1>7 DEF SocketOp, Connected, Goto, ServiceThen, ExchangeDone
  <1>8. CASE ConnectFails
    BY <1>8 DEF ConnectFails, ExchangeFailed, SleepThen
  <1>9. CASE BeginPass \/ FirstProbeDone \/ SecondProbe \/ SecondProbeDone \/
             ProbeFails
    BY <1>9 DEF BeginPass, FirstProbeDone, SecondProbe, SecondProbeDone, ProbeFails,
                Paced, Age, ExchangeDone, ExchangeFailed, MarkDisconnected, Goto
  <1>10. CASE UtcSent
    BY <1>10 DEF UtcSent, ExchangeDone, Goto
  <1>11. CASE UtcWaited
    BY <1>11 DEF UtcWaited, Age, MarkDisconnected, Goto
  <1>12. CASE UtcBegin
    BY <1>12 DEF UtcBegin, Paced, Age
  <1>13. CASE UtcSendFails
    BY <1>13 DEF UtcSendFails, ExchangeFailed, MarkDisconnected, Goto
  <1>14. CASE UtcCheck
    BY <1>14 DEF UtcCheck, Age, Goto
  <1>15. CASE PassFailed \/ DropSession \/ PublishUtc \/ SetReady \/ Arm
    BY <1>15 DEF PassFailed, DropSession, PublishUtc, SetReady, Arm, SleepThen,
                 MarkDisconnected, Goto
  <1>16. CASE Announce
    BY <1>16 DEF Announce, Goto, Snapshot
  <1>17. CASE Report
    BY <1>17 DEF Report, Goto, Snapshot
  <1>18. CASE Periodic
    BY <1>18 DEF Periodic, Goto, Snapshot
  <1>19. CASE TopOfPass
    BY <1>19 DEF TopOfPass, ServiceThen, Goto
  <1>20. CASE Recover
    BY <1>20 DEF Recover, Goto
  <1>21. CASE Outage
    BY <1>21 DEF Outage,  MarkDisconnected, Goto
  <1>22. CASE BeginPoll \/ BeginPublish \/ BeginUtc \/ Idle
    BY <1>22 DEF BeginPoll, BeginPublish, BeginUtc, Idle, BeginExchange, Age
  <1>23. CASE RunExchangeDone
    BY <1>23 DEF RunExchangeDone, ExchangeDone, After, Goto
  <1>24. CASE RunExchangeFails
    BY <1>24 DEF RunExchangeFails, ExchangeFailed, MarkDisconnected, After, Goto
  <1>25. CASE EndOfPass
    BY <1>25 DEF EndOfPass, Age, Goto
  <1>26. CASE HeartbeatReset \/ Fault
    BY <1>26 DEF HeartbeatReset, Fault, Reboot
  <1>27. CASE WorkerStarts \/ WorkerDies \/ Associate \/ LoseWifi \/ LoseBroker \/
              Heal
    BY <1>27 DEF WorkerStarts, WorkerDies, Associate, LoseWifi, LoseBroker, Heal
  <1>28. CASE UNCHANGED vars
    BY <1>28 DEF vars
  <1> QED BY <1>1, <1>2, <1>3, <1>4, <1>5, <1>6, <1>7, <1>8, <1>9, <1>10, <1>11,
             <1>12, <1>13, <1>14, <1>15, <1>16, <1>17, <1>18, <1>19, <1>20, <1>21,
             <1>22, <1>23, <1>24, <1>25, <1>26, <1>27, <1>28
          DEF Next, Core0Step, Establish, Startup, Run, Environment

(* The startup contract, step by step.                                     *)
LEMMA ContractKept ==
  ASSUME IInv, [Next]_vars
  PROVE  Contract'
  <1> USE Constants, Delays DEF IInv, Numbers, Places, Evident, Contract,
                                Exchanges, AllEvidence, Establishing, StartPcs,
                                RunPcs, control, link, session, wlan, shared, dogs
  <1>1. CASE SleepSlice
    BY <1>1 DEF SleepSlice, ServiceThen
  <1>2. CASE SleepEnd
    BY <1>2 DEF SleepEnd
  <1>3. CASE WifiHead
    BY <1>3 DEF WifiHead, Goto
  <1>4. CASE WifiTry \/ WifiObserve \/ WifiUp
    BY <1>4 DEF WifiTry, WifiObserve, WifiUp, Goto, Age, ServiceThen
  <1>5. CASE WifiAttemptFails
    BY <1>5 DEF WifiAttemptFails, Age, SleepThen
  <1>6. CASE MqttHead
    BY <1>6 DEF MqttHead, Goto
  <1>7. CASE SocketOp \/ Connected
    BY <1>7 DEF SocketOp, Connected, Goto, ServiceThen, ExchangeDone
  <1>8. CASE ConnectFails
    BY <1>8 DEF ConnectFails, ExchangeFailed, SleepThen
  <1>9. CASE BeginPass \/ FirstProbeDone \/ SecondProbe \/ SecondProbeDone \/
             ProbeFails
    BY <1>9 DEF BeginPass, FirstProbeDone, SecondProbe, SecondProbeDone, ProbeFails,
                Paced, Age, ExchangeDone, ExchangeFailed, MarkDisconnected, Goto
  <1>10. CASE UtcSent
    BY <1>10 DEF UtcSent, ExchangeDone, Goto
  <1>11. CASE UtcWaited
    BY <1>11 DEF UtcWaited, Age, MarkDisconnected, Goto
  <1>12. CASE UtcBegin
    BY <1>12 DEF UtcBegin, Paced, Age
  <1>13. CASE UtcSendFails
    BY <1>13 DEF UtcSendFails, ExchangeFailed, MarkDisconnected, Goto
  <1>14. CASE UtcCheck
    BY <1>14 DEF UtcCheck, Age, Goto
  <1>15. CASE PassFailed \/ DropSession \/ PublishUtc \/ SetReady \/ Arm
    BY <1>15 DEF PassFailed, DropSession, PublishUtc, SetReady, Arm, SleepThen,
                 MarkDisconnected, Goto
  <1>16. CASE Announce
    BY <1>16 DEF Announce, Goto, Snapshot
  <1>17. CASE Report
    BY <1>17 DEF Report, Goto, Snapshot
  <1>18. CASE Periodic
    BY <1>18 DEF Periodic, Goto, Snapshot
  <1>19. CASE TopOfPass
    BY <1>19 DEF TopOfPass, ServiceThen, Goto
  <1>20. CASE Recover
    BY <1>20 DEF Recover, Goto
  <1>21. CASE Outage
    BY <1>21 DEF Outage,  MarkDisconnected, Goto
  <1>22. CASE BeginPoll \/ BeginPublish \/ BeginUtc \/ Idle
    BY <1>22 DEF BeginPoll, BeginPublish, BeginUtc, Idle, BeginExchange, Age
  <1>23. CASE RunExchangeDone
    BY <1>23 DEF RunExchangeDone, ExchangeDone, After, Goto
  <1>24. CASE RunExchangeFails
    BY <1>24 DEF RunExchangeFails, ExchangeFailed, MarkDisconnected, After, Goto
  <1>25. CASE EndOfPass
    BY <1>25 DEF EndOfPass, Age, Goto
  <1>26. CASE HeartbeatReset \/ Fault
    BY <1>26 DEF HeartbeatReset, Fault, Reboot
  <1>27. CASE WorkerStarts \/ WorkerDies \/ Associate \/ LoseWifi \/ LoseBroker \/
              Heal
    BY <1>27 DEF WorkerStarts, WorkerDies, Associate, LoseWifi, LoseBroker, Heal
  <1>28. CASE UNCHANGED vars
    BY <1>28 DEF vars
  <1> QED BY <1>1, <1>2, <1>3, <1>4, <1>5, <1>6, <1>7, <1>8, <1>9, <1>10, <1>11,
             <1>12, <1>13, <1>14, <1>15, <1>16, <1>17, <1>18, <1>19, <1>20, <1>21,
             <1>22, <1>23, <1>24, <1>25, <1>26, <1>27, <1>28
          DEF Next, Core0Step, Establish, Startup, Run, Environment

(* Every path that changes a state changes its counter.                    *)
LEMMA BalanceKept ==
  ASSUME IInv, [Next]_vars
  PROVE  Balance'
  <1> USE Constants, Delays DEF IInv, Numbers, Places, Balance, SnapshotBalanced,
                                Exchanges, AllEvidence, Establishing, StartPcs,
                                RunPcs, control, link, session, wlan, shared, dogs
  <1>1. CASE SleepSlice
    BY <1>1 DEF SleepSlice, ServiceThen
  <1>2. CASE SleepEnd
    BY <1>2 DEF SleepEnd
  <1>3. CASE WifiHead
    BY <1>3 DEF WifiHead, Goto
  <1>4. CASE WifiTry \/ WifiObserve \/ WifiUp
    BY <1>4 DEF WifiTry, WifiObserve, WifiUp, Goto, Age, ServiceThen
  <1>5. CASE WifiAttemptFails
    BY <1>5 DEF WifiAttemptFails, Age, SleepThen
  <1>6. CASE MqttHead
    BY <1>6 DEF MqttHead, Goto
  <1>7. CASE SocketOp \/ Connected
    BY <1>7 DEF SocketOp, Connected, Goto, ServiceThen, ExchangeDone
  <1>8. CASE ConnectFails
    BY <1>8 DEF ConnectFails, ExchangeFailed, SleepThen
  <1>9. CASE BeginPass \/ FirstProbeDone \/ SecondProbe \/ SecondProbeDone \/
             ProbeFails
    BY <1>9 DEF BeginPass, FirstProbeDone, SecondProbe, SecondProbeDone, ProbeFails,
                Paced, Age, ExchangeDone, ExchangeFailed, MarkDisconnected, Goto
  <1>10. CASE UtcSent
    BY <1>10 DEF UtcSent, ExchangeDone, Goto
  <1>11. CASE UtcWaited
    BY <1>11 DEF UtcWaited, Age, MarkDisconnected, Goto
  <1>12. CASE UtcBegin
    BY <1>12 DEF UtcBegin, Paced, Age
  <1>13. CASE UtcSendFails
    BY <1>13 DEF UtcSendFails, ExchangeFailed, MarkDisconnected, Goto
  <1>14. CASE UtcCheck
    BY <1>14 DEF UtcCheck, Age, Goto
  <1>15. CASE PassFailed \/ DropSession \/ PublishUtc \/ SetReady \/ Arm
    BY <1>15 DEF PassFailed, DropSession, PublishUtc, SetReady, Arm, SleepThen,
                 MarkDisconnected, Goto
  <1>16. CASE Announce
    BY <1>16 DEF Announce, Goto, Snapshot
  <1>17. CASE Report
    BY <1>17 DEF Report, Goto, Snapshot
  <1>18. CASE Periodic
    BY <1>18 DEF Periodic, Goto, Snapshot
  <1>19. CASE TopOfPass
    BY <1>19 DEF TopOfPass, ServiceThen, Goto
  <1>20. CASE Recover
    BY <1>20 DEF Recover, Goto
  <1>21. CASE Outage
    BY <1>21 DEF Outage,  MarkDisconnected, Goto
  <1>22. CASE BeginPoll \/ BeginPublish \/ BeginUtc \/ Idle
    BY <1>22 DEF BeginPoll, BeginPublish, BeginUtc, Idle, BeginExchange, Age
  <1>23. CASE RunExchangeDone
    BY <1>23 DEF RunExchangeDone, ExchangeDone, After, Goto
  <1>24. CASE RunExchangeFails
    BY <1>24 DEF RunExchangeFails, ExchangeFailed, MarkDisconnected, After, Goto
  <1>25. CASE EndOfPass
    BY <1>25 DEF EndOfPass, Age, Goto
  <1>26. CASE HeartbeatReset \/ Fault
    BY <1>26 DEF HeartbeatReset, Fault, Reboot
  <1>27. CASE WorkerStarts \/ WorkerDies \/ Associate \/ LoseWifi \/ LoseBroker \/
              Heal
    BY <1>27 DEF WorkerStarts, WorkerDies, Associate, LoseWifi, LoseBroker, Heal
  <1>28. CASE UNCHANGED vars
    BY <1>28 DEF vars
  <1> QED BY <1>1, <1>2, <1>3, <1>4, <1>5, <1>6, <1>7, <1>8, <1>9, <1>10, <1>11,
             <1>12, <1>13, <1>14, <1>15, <1>16, <1>17, <1>18, <1>19, <1>20, <1>21,
             <1>22, <1>23, <1>24, <1>25, <1>26, <1>27, <1>28
          DEF Next, Core0Step, Establish, Startup, Run, Environment

(* The mailbox is silent in an outage.                                     *)
LEMMA SilenceKept ==
  ASSUME IInv, [Next]_vars
  PROVE  Silence'
  <1> USE Constants, Delays DEF IInv, Numbers, Places, Contract, Silence,
                                Exchanges, AllEvidence, Establishing, StartPcs,
                                RunPcs, control, link, session, wlan, shared, dogs
  <1>1. CASE SleepSlice
    BY <1>1 DEF SleepSlice, ServiceThen
  <1>2. CASE SleepEnd
    BY <1>2 DEF SleepEnd
  <1>3. CASE WifiHead
    BY <1>3 DEF WifiHead, Goto
  <1>4. CASE WifiTry \/ WifiObserve \/ WifiUp
    BY <1>4 DEF WifiTry, WifiObserve, WifiUp, Goto, Age, ServiceThen
  <1>5. CASE WifiAttemptFails
    BY <1>5 DEF WifiAttemptFails, Age, SleepThen
  <1>6. CASE MqttHead
    BY <1>6 DEF MqttHead, Goto
  <1>7. CASE SocketOp \/ Connected
    BY <1>7 DEF SocketOp, Connected, Goto, ServiceThen, ExchangeDone
  <1>8. CASE ConnectFails
    BY <1>8 DEF ConnectFails, ExchangeFailed, SleepThen
  <1>9. CASE BeginPass \/ FirstProbeDone \/ SecondProbe \/ SecondProbeDone \/
             ProbeFails
    BY <1>9 DEF BeginPass, FirstProbeDone, SecondProbe, SecondProbeDone, ProbeFails,
                Paced, Age, ExchangeDone, ExchangeFailed, MarkDisconnected, Goto
  <1>10. CASE UtcSent
    BY <1>10 DEF UtcSent, ExchangeDone, Goto
  <1>11. CASE UtcWaited
    BY <1>11 DEF UtcWaited, Age, MarkDisconnected, Goto
  <1>12. CASE UtcBegin
    BY <1>12 DEF UtcBegin, Paced, Age
  <1>13. CASE UtcSendFails
    BY <1>13 DEF UtcSendFails, ExchangeFailed, MarkDisconnected, Goto
  <1>14. CASE UtcCheck
    BY <1>14 DEF UtcCheck, Age, Goto
  <1>15. CASE PassFailed \/ DropSession \/ PublishUtc \/ SetReady \/ Arm
    BY <1>15 DEF PassFailed, DropSession, PublishUtc, SetReady, Arm, SleepThen,
                 MarkDisconnected, Goto
  <1>16. CASE Announce
    BY <1>16 DEF Announce, Goto, Snapshot
  <1>17. CASE Report
    BY <1>17 DEF Report, Goto, Snapshot
  <1>18. CASE Periodic
    BY <1>18 DEF Periodic, Goto, Snapshot
  <1>19. CASE TopOfPass
    BY <1>19 DEF TopOfPass, ServiceThen, Goto
  <1>20. CASE Recover
    BY <1>20 DEF Recover, Goto
  <1>21. CASE Outage
    BY <1>21 DEF Outage,  MarkDisconnected, Goto
  <1>22. CASE BeginPoll \/ BeginPublish \/ BeginUtc \/ Idle
    BY <1>22 DEF BeginPoll, BeginPublish, BeginUtc, Idle, BeginExchange, Age
  <1>23. CASE RunExchangeDone
    BY <1>23 DEF RunExchangeDone, ExchangeDone, After, Goto
  <1>24. CASE RunExchangeFails
    BY <1>24 DEF RunExchangeFails, ExchangeFailed, MarkDisconnected, After, Goto
  <1>25. CASE EndOfPass
    BY <1>25 DEF EndOfPass, Age, Goto
  <1>26. CASE HeartbeatReset \/ Fault
    BY <1>26 DEF HeartbeatReset, Fault, Reboot
  <1>27. CASE WorkerStarts \/ WorkerDies \/ Associate \/ LoseWifi \/ LoseBroker \/
              Heal
    BY <1>27 DEF WorkerStarts, WorkerDies, Associate, LoseWifi, LoseBroker, Heal
  <1>28. CASE UNCHANGED vars
    BY <1>28 DEF vars
  <1> QED BY <1>1, <1>2, <1>3, <1>4, <1>5, <1>6, <1>7, <1>8, <1>9, <1>10, <1>11,
             <1>12, <1>13, <1>14, <1>15, <1>16, <1>17, <1>18, <1>19, <1>20, <1>21,
             <1>22, <1>23, <1>24, <1>25, <1>26, <1>27, <1>28
          DEF Next, Core0Step, Establish, Startup, Run, Environment

(* The watchdog is fed in time at every place of the run loop.             *)
LEMMA FeedingKept ==
  ASSUME IInv, [Next]_vars
  PROVE  Feeding'
  <1> USE Constants, Delays DEF IInv, Numbers, Places, Feeding, Room, Exchanges,
                                AllEvidence, Establishing, StartPcs, RunPcs,
                                control, link, session, wlan, shared, dogs
  <1>1. CASE SleepSlice
    <2>1. Spent(attempt) \in Nat \ {0}
      BY SpentGrows
    <2> QED BY <1>1, <2>1 DEF SleepSlice, ServiceThen
  <1>2. CASE SleepEnd
    <2>1. /\ Spent(attempt) \in Nat \ {0}
          /\ then = "wifi_try" => Spent(attempt) + Work < WdtTimeout
      BY <1>2, SpentGrows DEF SleepEnd
    <2> QED BY <1>2, <2>1 DEF SleepEnd
  <1>3. CASE WifiHead
    BY <1>3, FirstAttempt DEF WifiHead, Goto
  <1>4. CASE WifiTry \/ WifiObserve \/ WifiUp
    <2>1. /\ Spent(attempt) \in Nat \ {0}
          /\ pc \in {"wifi_try", "window"} => Spent(attempt) + Work < WdtTimeout
      BY SpentGrows
    <2>2. CASE WifiTry
      BY <2>1, <2>2 DEF WifiTry, Age
    <2>3. CASE WifiObserve
      BY <2>1, <2>3 DEF WifiObserve, ServiceThen
    <2>4. CASE WifiUp
      BY <2>1, <2>4 DEF WifiUp, Goto
    <2> QED BY <1>4, <2>2, <2>3, <2>4
  <1>5. CASE WifiAttemptFails
    <2>1. attempt \in 1 .. Len(WifiDelays)
      BY <1>5 DEF WifiAttemptFails
    <2>2. /\ Spent(attempt) \in Nat \ {0}
          /\ Spent(attempt) + Work = Spent(attempt + 1)
          /\ Spent(attempt) + Work < WdtTimeout
      BY <2>1, SpentGrows
    <2>3. unfed <= Spent(attempt) /\ (~armed => unfed = 0)
      BY <1>5 DEF WifiAttemptFails
    <2>4. /\ unfed' <= Spent(attempt) + Work
          /\ ~armed => unfed' = 0
          /\ armed' = armed /\ phase' = phase
      BY <1>5, <2>2, <2>3 DEF WifiAttemptFails, Age
    <2>5. CASE attempt < Len(WifiDelays)
      <3>1. pc' = "sleep" /\ then' = "wifi_try" /\ attempt' = attempt + 1
        BY <1>5, <2>5 DEF WifiAttemptFails, SleepThen
      <3> QED BY <2>2, <2>4, <3>1, NumbersKept
    <2>6. CASE ~ (attempt < Len(WifiDelays))
      <3>1. pc' = "sleep" /\ then' = "wifi" /\ left' = WifiDelays[Len(WifiDelays)]
        BY <1>5, <2>1, <2>6 DEF WifiAttemptFails, SleepThen
      <3> QED BY <2>2, <2>4, <3>1, NumbersKept
    <2> QED BY <2>5, <2>6
  <1>6. CASE MqttHead
    BY <1>6 DEF MqttHead, Goto
  <1>7. CASE SocketOp \/ Connected
    <2>1. CASE SocketOp
      BY <2>1 DEF SocketOp, ServiceThen
    <2>2. CASE Connected
      BY <2>2 DEF Connected, Goto, ExchangeDone
    <2> QED BY <1>7, <2>1, <2>2
  <1>8. CASE ConnectFails
    BY <1>8 DEF ConnectFails, ExchangeFailed, SleepThen
  <1>9. CASE BeginPass \/ FirstProbeDone \/ SecondProbe \/ SecondProbeDone \/
             ProbeFails
    <2>1. CASE BeginPass
      BY <2>1 DEF BeginPass, Paced, Age
    <2>2. CASE FirstProbeDone
      BY <2>2 DEF FirstProbeDone, Age, ExchangeDone, Goto
    <2>3. CASE SecondProbe
      BY <2>3 DEF SecondProbe, Paced, Age
    <2>4. CASE SecondProbeDone
      BY <2>4 DEF SecondProbeDone, ExchangeDone, Goto
    <2>5. CASE ProbeFails
      BY <2>5 DEF ProbeFails, ExchangeFailed, MarkDisconnected, Goto
    <2> QED BY <1>9, <2>1, <2>2, <2>3, <2>4, <2>5
  <1>10. CASE UtcSent
    BY <1>10 DEF UtcSent, ExchangeDone, Goto
  <1>11. CASE UtcWaited
    BY <1>11 DEF UtcWaited, Age, MarkDisconnected, Goto
  <1>12. CASE UtcBegin
    BY <1>12 DEF UtcBegin, Paced, Age
  <1>13. CASE UtcSendFails
    BY <1>13 DEF UtcSendFails, ExchangeFailed, MarkDisconnected, Goto
  <1>14. CASE UtcCheck
    BY <1>14 DEF UtcCheck, Age, Goto
  <1>15. CASE PassFailed \/ DropSession \/ PublishUtc \/ SetReady \/ Arm
    <2>1. CASE PassFailed
      BY <2>1 DEF PassFailed, SleepThen
    <2>2. CASE DropSession
      BY <2>2 DEF DropSession, MarkDisconnected, Goto
    <2>3. CASE PublishUtc \/ SetReady
      BY <2>3 DEF PublishUtc, SetReady, Goto
    <2>4. CASE Arm
      BY <2>4 DEF Arm
    <2> QED BY <1>15, <2>1, <2>2, <2>3, <2>4
  <1>16. CASE Announce
    BY <1>16 DEF Announce, Goto, Snapshot
  <1>17. CASE Report
    BY <1>17 DEF Report, Goto, Snapshot
  <1>18. CASE Periodic
    BY <1>18 DEF Periodic, Goto, Snapshot
  <1>19. CASE TopOfPass
    BY <1>19 DEF TopOfPass, ServiceThen, Goto
  <1>20. CASE Recover
    BY <1>20 DEF Recover, Goto
  <1>21. CASE Outage
    BY <1>21 DEF Outage,  MarkDisconnected, Goto
  <1>22. CASE BeginPoll \/ BeginPublish \/ BeginUtc \/ Idle
    BY <1>22 DEF BeginPoll, BeginPublish, BeginUtc, Idle, BeginExchange, Age
  <1>23. CASE RunExchangeDone
    <2>1. /\ pc \in {"poll", "publish", "ping", "run_utc"} /\ io > 0
          /\ phase = "run" /\ UNCHANGED <<armed, unfed, phase>>
      BY <1>23 DEF RunExchangeDone, ExchangeDone, Goto
    <2>2. pc' \in {"begin_publish", "periodic", "end"}
      BY <1>23, <2>1 DEF RunExchangeDone, After, Goto
    <2> QED BY <2>1, <2>2
  <1>24. CASE RunExchangeFails
    <2>1. /\ pc \in {"poll", "publish", "ping", "run_utc"} /\ io > 0
          /\ phase = "run" /\ UNCHANGED <<armed, unfed, phase>>
      BY <1>24 DEF RunExchangeFails, ExchangeFailed, Goto
    <2>2. pc' \in {"begin_publish", "periodic", "end"}
      BY <1>24, <2>1 DEF RunExchangeFails, After, Goto
    <2> QED BY <2>1, <2>2
  <1>25. CASE EndOfPass
    BY <1>25 DEF EndOfPass, Age, Goto
  <1>26. CASE HeartbeatReset \/ Fault
    BY <1>26 DEF HeartbeatReset, Fault, Reboot
  <1>27. CASE WorkerStarts \/ WorkerDies \/ Associate \/ LoseWifi \/ LoseBroker \/
              Heal
    BY <1>27 DEF WorkerStarts, WorkerDies, Associate, LoseWifi, LoseBroker, Heal
  <1>28. CASE UNCHANGED vars
    BY <1>28 DEF vars
  <1> QED BY <1>1, <1>2, <1>3, <1>4, <1>5, <1>6, <1>7, <1>8, <1>9, <1>10, <1>11,
             <1>12, <1>13, <1>14, <1>15, <1>16, <1>17, <1>18, <1>19, <1>20, <1>21,
             <1>22, <1>23, <1>24, <1>25, <1>26, <1>27, <1>28
          DEF Next, Core0Step, Establish, Startup, Run, Environment

-----------------------------------------------------------------------------
(* The specification.                                                      *)

(* Every part of the invariant holds at boot.                              *)
LEMMA InitIInv == Init => IInv
  BY Constants DEF Init, IInv, Numbers, Places, Evident, Contract, Balance, Silence,
     Feeding, Room, SnapshotBalanced, Establishing, Exchanges

(* Every step keeps every part of it.                                      *)
LEMMA NextIInv == IInv /\ [Next]_vars => IInv'
  BY NumbersKept, PlacesKept, EvidentKept, ContractKept, BalanceKept, SilenceKept,
     FeedingKept DEF IInv

(* The inductive invariant holds in every reachable state.                 *)
THEOREM Invariant == Spec => []IInv
  BY InitIInv, NextIInv, PTL DEF Spec

(* Core 1's gate opens only behind two probes and a UTC answer of one      *)
(* startup pass (start(), _core1_thread_entry), after any number of failed *)
(* passes and lost sessions, and whenever the worker looks at the mailbox. *)
THEOREM GateIsVerified == Spec => []ReadyVerified
  <1>1. IInv => ReadyVerified
    BY DEF IInv, Places, Contract, Establishing, StartPcs, RunPcs, ReadyVerified
  <1> QED BY <1>1, Invariant, PTL

(* The counters of a snapshot account for the state it reports, and the    *)
(* mailbox says not ready for as long as the network is being established  *)
(* (_publish_network_snapshot, _recover_network_if_needed).                *)
THEOREM SnapshotsAreHonest == Spec => []SnapshotsHonest
  <1>1. IInv => SnapshotsHonest
    BY DEF IInv, Balance, Silence, SnapshotsHonest, OutageReported, Establishing
  <1> QED BY <1>1, Invariant, PTL

(* The hardware watchdog of a living Core 0 never fires: one socket        *)
(* operation and the computation after it, or one list of WLAN attempts    *)
(* that fail at once, is the longest it goes unfed once it is armed.       *)
THEOREM WatchdogIsFed == Spec => []NoSpuriousReset
  <1>1. IInv => NoSpuriousReset
    BY DEF IInv, Feeding, NoSpuriousReset
  <1> QED BY <1>1, Invariant, PTL

-----------------------------------------------------------------------------
(* How long a dead Core 1 goes unnoticed.                                  *)

(* A heartbeat of that age is younger than the limit and n.                *)
Lag(age, n) == age < StaleTimeout + n

(* What a whole delay list of failing attempts has spent, before the last. *)
AllSpent == Spent(Len(WifiDelays))

(* What n - 1 UTC attempts on a session that is gone have spent, and all.  *)
UtcSpent(n) == OpTime + UtcWait + (n - 1) * (UtcPause + PublishDelay)
UtcPass == UtcSpent(UtcAttempts + 1)

Settling == OpTime + SettleTime + PublishDelay

(* Time since the last service point, at each place: while a network is    *)
(* established, in the startup contract, and in the run loop.              *)
LagConnecting ==
    /\ pc \in {"wifi", "drop", "recover", "outage", "report"} => Lag(stampAge, 1)
    /\ pc = "sleep" /\ left = 0 /\ then \in {"wifi", "mqtt", "drop"} => Lag(stampAge, 1)
    /\ pc \in {"wifi_try", "window"} \/ (pc = "sleep" /\ then = "wifi_try")
          => Lag(stampAge, Spent(attempt))
    /\ pc = "sleep" /\ then = "wifi" => Lag(stampAge, AllSpent + Work)
    /\ pc = "mqtt" => Lag(stampAge, AllSpent)
    /\ pc = "sleep" /\ then \in {"connect", "mqtt"} => Lag(stampAge, OpTime)
    /\ pc = "connect" => Lag(stampAge, OpTime) \/ Lag(stampAge, AllSpent)

LagStarting ==
    /\ pc \in {"begin", "utc_wait"} => Lag(stampAge, OpTime)
    /\ pc = "probe1" => Lag(stampAge, OpTime + PublishDelay)
    /\ pc = "settled" => Lag(stampAge, OpTime + SettleTime)
    /\ pc = "probe2" => Lag(stampAge, Settling)
    /\ pc = "utc_begin" => Lag(stampAge, UtcSpent(attempt))
    /\ pc \in {"utc", "utc_check"} => Lag(stampAge, UtcSpent(attempt) + PublishDelay)
    /\ pc \in {"publish_utc", "set_ready", "announce", "arm"} => Lag(stampAge, UtcPass)
    /\ pc = "failed" \/ (pc = "sleep" /\ then = "drop")
          => Lag(stampAge, Settling) \/ Lag(stampAge, UtcPass)

LagRunning ==
    /\ pc \in Exchanges /\ io > 0 => Lag(stampAge, OpTime)
    /\ pc \in RunPcs \ {"top", "poll", "publish", "run_utc"}
          => Lag(stampAge, OpTime) \/ Lag(stampAge, AllSpent)
    /\ pc \in {"poll", "publish", "run_utc"}
          => Lag(stampAge, OpTime + Work) \/ Lag(stampAge, AllSpent + Work)
    /\ pc = "top" => \/ Lag(stampAge, OpTime + Work) \/ Lag(stampAge, AllSpent + Work)
                     \/ Lag(stampAge, UtcPass)

(* A startup connects from scratch; a UTC pass has its bounded attempts.   *)
Fresh ==
    /\ phase = "startup" /\ pc \in Establishing \ {"sleep"} => ~up
    /\ phase = "startup" /\ pc = "sleep" /\ then # "drop" => ~up
    /\ pc \in {"utc_begin", "utc", "utc_wait", "utc_check"} => attempt <= UtcAttempts

Noticing == stampAge \in Nat /\ Fresh /\ LagConnecting /\ LagStarting /\ LagRunning

(* UtcSpent for the first attempts and for one more.                       *)
LEMMA UtcSpentGrows ==
  ASSUME NEW n \in Nat \ {0}
  PROVE  /\ UtcSpent(n) \in Nat /\ OpTime <= UtcSpent(n) /\ OpTime + UtcWait <= UtcSpent(n)
         /\ UtcSpent(n) + PublishDelay + UtcPause = UtcSpent(n + 1)
         /\ n <= UtcAttempts => UtcSpent(n + 1) <= UtcSpent(UtcAttempts + 1)
  <1> DEFINE lap == UtcPause + PublishDelay
  <1>1. /\ lap \in Nat /\ n - 1 \in Nat /\ OpTime \in Nat /\ UtcWait \in Nat
        /\ UtcAttempts \in Nat
    BY Constants
  <1>2. (n - 1) * lap \in Nat /\ n * lap \in Nat /\ UtcAttempts * lap \in Nat
    BY <1>1
  <1>3. (n - 1) * lap + lap = n * lap
    BY <1>1
  <1>4. n <= UtcAttempts => n * lap <= UtcAttempts * lap
    BY <1>1, MultipleGrows
  <1>5. /\ UtcSpent(n) = OpTime + UtcWait + (n - 1) * lap
        /\ UtcSpent(n + 1) = OpTime + UtcWait + n * lap
        /\ UtcSpent(UtcAttempts + 1) = OpTime + UtcWait + UtcAttempts * lap
    BY <1>1 DEF UtcSpent
  <1>6. UtcSpent(n) + PublishDelay + UtcPause = UtcSpent(n) + lap
    BY <1>1, <1>2, <1>5, Constants
  <1> HIDE DEF lap
  <1> QED BY <1>1, <1>2, <1>3, <1>4, <1>5, <1>6

(* Spent for every attempt of the list.                                    *)
LEMMA SpentBounded ==
  ASSUME NEW n \in Nat \ {0}, n <= Len(WifiDelays)
  PROVE  /\ Spent(n) \in Nat \ {0} /\ Spent(n) <= Spent(Len(WifiDelays))
         /\ Spent(Len(WifiDelays)) \in Nat \ {0}
         /\ Spent(Len(WifiDelays)) + Work = 1 + Len(WifiDelays) * Work
  <1>1. n - 1 \in Nat /\ Work \in Nat /\ Len(WifiDelays) - 1 \in Nat
        /\ n - 1 <= Len(WifiDelays) - 1
    BY Constants, Delays
  <1>2. (n - 1) * Work <= (Len(WifiDelays) - 1) * Work
    BY <1>1, MultipleGrows
  <1>3. (Len(WifiDelays) - 1) * Work + Work = Len(WifiDelays) * Work
    BY <1>1, Delays
  <1>4. /\ (n - 1) * Work \in Nat /\ (Len(WifiDelays) - 1) * Work \in Nat
        /\ Len(WifiDelays) * Work \in Nat
    BY <1>1, Delays
  <1> QED BY <1>1, <1>2, <1>3, <1>4 DEF Spent

(* Every constant of these bounds.                                         *)
LEMMA LagConstants ==
  /\ Work \in Nat \ {0} /\ OpTime \in Nat \ {0} /\ UtcAttempts \in Nat \ {0}
  /\ PublishDelay \in Nat /\ SettleTime \in Nat /\ UtcWait \in Nat /\ UtcPause \in Nat
  /\ StaleTimeout \in Nat \ {0} /\ Len(WifiDelays) \in Nat \ {0}
  /\ AllSpent \in Nat \ {0} /\ UtcPass \in Nat /\ Settling \in Nat
  /\ AllSpent + Work = 1 + Len(WifiDelays) * Work /\ OpTime <= UtcPass
  <1>1. Len(WifiDelays) \in Nat \ {0} /\ UtcAttempts + 1 \in Nat \ {0}
    BY Constants, Delays
  <1>2. AllSpent \in Nat \ {0} /\ AllSpent + Work = 1 + Len(WifiDelays) * Work
    BY <1>1, SpentBounded DEF AllSpent
  <1>3. UtcPass \in Nat /\ OpTime <= UtcPass
    BY <1>1, UtcSpentGrows DEF UtcPass
  <1> QED BY <1>1, <1>2, <1>3, Constants DEF Settling

(* A younger heartbeat is within a longer stretch.                         *)
LEMMA LagGrows ==
  ASSUME NEW age \in Nat, NEW m \in Nat, NEW n \in Nat, m <= n, Lag(age, m)
  PROVE  Lag(age, n)
  BY Constants DEF Lag

(* A service point finds the heartbeat younger than the limit.             *)
LEMMA LagServiced ==
  ASSUME NEW d \in Nat, ServiceThen(d), stampAge \in Nat
  PROVE  stampAge' \in Nat /\ \A n \in Nat : d <= n => Lag(stampAge', n)
  BY Constants DEF ServiceThen, Lag

(* Time without one is added.                                              *)
LEMMA LagAdds ==
  ASSUME NEW d \in Nat, Age(d), stampAge \in Nat
  PROVE  stampAge' \in Nat /\ \A n \in Nat : Lag(stampAge, n) => Lag(stampAge', n + d)
  BY Constants DEF Age, Lag

(* The bounds at a startup's or a backoff's own attempt.                   *)
LEMMA LagAttempts ==
  ASSUME IInv
  PROVE  /\ Spent(attempt) \in Nat \ {0} /\ Spent(attempt) + Work = Spent(attempt + 1)
         /\ attempt <= Len(WifiDelays) => Spent(attempt) <= AllSpent
         /\ Spent(1) \in Nat \ {0}
         /\ UtcSpent(1) \in Nat /\ OpTime <= UtcSpent(1)
         /\ UtcSpent(attempt) \in Nat /\ OpTime <= UtcSpent(attempt)
         /\ OpTime + UtcWait <= UtcSpent(attempt)
         /\ UtcSpent(attempt) + PublishDelay + UtcPause = UtcSpent(attempt + 1)
         /\ attempt <= UtcAttempts =>
              /\ UtcSpent(attempt + 1) <= UtcPass
              /\ UtcSpent(attempt) + PublishDelay <= UtcPass
  <1>1. attempt \in Nat \ {0} /\ 1 \in Nat \ {0}
    BY DEF IInv, Numbers
  <1>2. /\ Spent(attempt) \in Nat \ {0} /\ Spent(attempt) + Work = Spent(attempt + 1)
        /\ Spent(1) \in Nat \ {0}
        /\ UtcSpent(attempt) \in Nat /\ OpTime <= UtcSpent(attempt)
        /\ OpTime + UtcWait <= UtcSpent(attempt)
        /\ UtcSpent(attempt) + PublishDelay + UtcPause = UtcSpent(attempt + 1)
        /\ attempt <= UtcAttempts => UtcSpent(attempt + 1) <= UtcPass
        /\ UtcSpent(1) \in Nat /\ OpTime <= UtcSpent(1)
    BY <1>1, SpentGrows, UtcSpentGrows DEF UtcPass
  <1>3. attempt <= Len(WifiDelays) => Spent(attempt) <= AllSpent
    BY <1>1, SpentBounded DEF AllSpent
  <1>4. attempt <= UtcAttempts => UtcSpent(attempt) + PublishDelay <= UtcPass
    <2> DEFINE u == UtcSpent(attempt)
               v == UtcSpent(attempt + 1)
    <2>1. u \in Nat /\ v = u + PublishDelay + UtcPause
          /\ (attempt <= UtcAttempts => v <= UtcPass)
      BY <1>2
    <2>2. PublishDelay \in Nat /\ UtcPause \in Nat /\ UtcPass \in Nat
      BY LagConstants
    <2> HIDE DEF u, v
    <2>3. u + PublishDelay \in Nat /\ v \in Nat /\ u + PublishDelay <= v
      BY <2>1, <2>2
    <2>4. attempt <= UtcAttempts => u + PublishDelay <= UtcPass
      BY <2>1, <2>2, <2>3
    <2> QED BY <2>4 DEF u
  <1> QED BY <1>2, <1>3, <1>4

(* How these bounds compare.                                               *)
LEMMA LagCompares ==
  ASSUME IInv
  PROVE  /\ Spent(attempt) \in Nat /\ Spent(attempt) + Work \in Nat
         /\ AllSpent + Work \in Nat /\ Spent(attempt) <= Spent(attempt) + Work
         /\ attempt <= Len(WifiDelays) =>
              Spent(attempt) + Work <= AllSpent + Work /\ Spent(attempt) <= AllSpent + Work
         /\ OpTime + PublishDelay \in Nat /\ OpTime <= OpTime + PublishDelay
         /\ OpTime + Work \in Nat /\ OpTime <= OpTime + Work
         /\ Settling \in Nat /\ OpTime <= Settling /\ OpTime + PublishDelay <= Settling
         /\ UtcSpent(attempt) + PublishDelay \in Nat
         /\ OpTime <= UtcSpent(attempt) + PublishDelay
         /\ OpTime + UtcWait \in Nat
         /\ OpTime + UtcWait <= UtcSpent(attempt) + PublishDelay
         /\ 1 <= OpTime /\ 1 <= Settling /\ 1 <= Spent(attempt)
         /\ UtcSpent(attempt + 1) \in Nat
  <1> DEFINE s == Spent(attempt)
             u == UtcSpent(attempt)
             v == UtcSpent(attempt + 1)
             in == attempt <= Len(WifiDelays)
  <1>1. s \in Nat \ {0} /\ (in => s <= AllSpent)
    BY LagAttempts
  <1>2. u \in Nat /\ OpTime <= u /\ OpTime + UtcWait <= u /\ v = u + PublishDelay + UtcPause
    BY LagAttempts
  <1>3. /\ AllSpent \in Nat /\ Work \in Nat /\ OpTime \in Nat \ {0}
        /\ PublishDelay \in Nat /\ SettleTime \in Nat /\ UtcWait \in Nat /\ UtcPause \in Nat
    BY LagConstants
  <1> HIDE DEF s, u, v, in
  <1>4. /\ s \in Nat /\ s + Work \in Nat /\ AllSpent + Work \in Nat
        /\ 1 <= s /\ s <= s + Work
        /\ in => s + Work <= AllSpent + Work /\ s <= AllSpent + Work
    BY <1>1, <1>3
  <1>5. /\ Settling \in Nat /\ OpTime <= Settling /\ OpTime + PublishDelay <= Settling
        /\ 1 <= OpTime /\ 1 <= Settling
    BY <1>3 DEF Settling
  <1>6. /\ OpTime + PublishDelay \in Nat /\ OpTime <= OpTime + PublishDelay
        /\ OpTime + Work \in Nat /\ OpTime <= OpTime + Work /\ OpTime + UtcWait \in Nat
    BY <1>3
  <1>7. /\ u + PublishDelay \in Nat /\ v \in Nat
        /\ OpTime <= u + PublishDelay /\ OpTime + UtcWait <= u + PublishDelay
    BY <1>2, <1>3
  <1> QED BY <1>4, <1>5, <1>6, <1>7 DEF s, u, v, in

(* Every step but a service point only adds what it takes.                 *)
LEMMA NextNoticing ==
  ASSUME IInv, Noticing, [Next]_vars
  PROVE  Noticing'
  <1>a. Numbers /\ Places /\ stampAge \in Nat
    BY DEF IInv, Noticing
  <1> USE <1>a
      DEF Numbers, Places, Noticing, Fresh, LagConnecting, LagStarting, LagRunning,
          Exchanges, Establishing, RunPcs
  <1>1. CASE SleepSlice
    <2>1. ServiceThen(1) /\ UNCHANGED <<pc, then, phase, attempt, io, up>> /\ pc = "sleep"
      BY <1>1 DEF SleepSlice, session
    <2>2. stampAge' \in Nat /\ \A n \in Nat : 1 <= n => Lag(stampAge', n)
      BY <2>1, LagServiced
    <2>3. 1 <= AllSpent + Work
      BY LagConstants
    <2>4. /\ Lag(stampAge', 1) /\ Lag(stampAge', Spent(attempt))
          /\ Lag(stampAge', AllSpent + Work) /\ Lag(stampAge', OpTime)
          /\ Lag(stampAge', Settling)
      BY <2>2, <2>3, LagCompares, LagConstants
    <2> QED BY <2>1, <2>2, <2>4
  <1>2. CASE SleepEnd
    <2>1. /\ UNCHANGED <<then, phase, attempt, left, io, up, stampAge>>
          /\ pc = "sleep" /\ pc' = then /\ left = 0
      BY <1>2 DEF SleepEnd, session, dogs
    <2>2. Lag(stampAge, 1) => Lag(stampAge, AllSpent)
      BY LagGrows, LagConstants
    <2> QED BY <2>1, <2>2
  <1>3. CASE WifiHead
    <2>1. /\ UNCHANGED <<then, phase, left, io, up, stampAge>> /\ pc = "wifi"
          /\ \/ pc' = "mqtt" /\ attempt' = attempt
             \/ pc' = "wifi_try" /\ attempt' = 1
      BY <1>3 DEF WifiHead, Goto, session, dogs
    <2>2. Lag(stampAge, AllSpent) /\ Lag(stampAge, Spent(1))
      <3>1. Lag(stampAge, 1)
        BY <2>1
      <3>2. AllSpent \in Nat /\ 1 <= AllSpent
        BY LagConstants
      <3>3. Spent(1) \in Nat /\ 1 <= Spent(1)
        BY LagAttempts
      <3> QED BY <3>1, <3>2, <3>3, LagGrows
    <2> QED BY <2>1, <2>2
  <1>4. CASE WifiTry \/ WifiObserve
    <2>1. /\ UNCHANGED <<then, phase, attempt, io, up>> /\ pc \in {"wifi_try", "window"}
          /\ pc' = "window" /\ (Age(0) \/ ServiceThen(1))
      BY <1>4 DEF WifiTry, WifiObserve, session
    <2>2. stampAge' \in Nat /\ Lag(stampAge', Spent(attempt))
      BY <2>1, LagAdds, LagServiced, LagAttempts
    <2> QED BY <2>1, <2>2
  <1>5. CASE WifiUp
    <2>1. /\ UNCHANGED <<then, phase, attempt, io, up, stampAge>> /\ pc = "window"
          /\ pc' = "mqtt"
      BY <1>5 DEF WifiUp, session, dogs, Goto
    <2>2. Lag(stampAge, AllSpent)
      BY <2>1, LagGrows, LagConstants, LagAttempts
    <2> QED BY <2>1, <2>2
  <1>6. CASE WifiAttemptFails
    <2>1. /\ UNCHANGED <<phase, io, up>> /\ pc \in {"wifi_try", "window"}
          /\ pc' = "sleep" /\ (Age(0) \/ Age(Work))
          /\ \/ then' = "wifi_try" /\ attempt' = attempt + 1
             \/ then' = "wifi" /\ attempt' = attempt /\ left' = WifiDelays[Len(WifiDelays)]
      BY <1>6 DEF WifiAttemptFails, SleepThen, session
    <2>2. /\ attempt <= Len(WifiDelays) /\ Lag(stampAge, Spent(attempt))
          /\ Spent(attempt + 1) = Spent(attempt) + Work
      BY <2>1, LagAttempts
    <2>3. stampAge' \in Nat /\ Lag(stampAge', Spent(attempt) + Work)
      <3>1. CASE Age(0)
        <4>1. stampAge' \in Nat /\ Lag(stampAge', Spent(attempt) + 0)
          BY <2>2, <3>1, LagAdds, LagCompares
        <4>2. Spent(attempt) + 0 = Spent(attempt)
          BY LagCompares
        <4> QED BY <4>1, <4>2, LagGrows, LagCompares
      <3>2. CASE Age(Work)
        BY <2>2, <3>2, LagAdds, LagCompares, LagConstants
      <3> QED BY <2>1, <3>1, <3>2
    <2>5. Lag(stampAge', Spent(attempt + 1)) /\ Lag(stampAge', AllSpent + Work)
      BY <2>2, <2>3, LagGrows, LagCompares
    <2>4. left' = WifiDelays[Len(WifiDelays)] => left' # 0
      BY Delays
    <2> QED BY <2>1, <2>3, <2>4, <2>5
  <1>7. CASE MqttHead
    <2>1. /\ UNCHANGED <<then, phase, left, up, stampAge>> /\ pc = "mqtt"
          /\ \/ up /\ phase = "run" /\ pc' = "restored" /\ attempt' = attempt
             \/ ~ up /\ pc' = "connect" /\ io' = 0
      BY <1>7 DEF MqttHead, Goto, session, dogs
    <2> QED BY <2>1
  <1>8. CASE SocketOp
    <2>1. PICK d \in 1 .. OpTime : ServiceThen(d)
      BY <1>8 DEF SocketOp
    <2>2. UNCHANGED <<pc, then, phase, attempt, left, up>> /\ pc \in Exchanges
      BY <1>8 DEF SocketOp, session
    <2>3. d \in Nat /\ d <= OpTime
      BY <2>1, LagConstants
    <2>4. stampAge' \in Nat /\ \A n \in Nat : d <= n => Lag(stampAge', n)
      BY <2>1, <2>3, LagServiced
    <2>5. OpTime \in Nat /\ Lag(stampAge', OpTime)
      BY <2>3, <2>4, LagConstants
    <2>6. /\ Lag(stampAge', OpTime) /\ Lag(stampAge', OpTime + PublishDelay)
          /\ Lag(stampAge', OpTime + Work) /\ Lag(stampAge', Settling)
          /\ Lag(stampAge', UtcSpent(attempt) + PublishDelay)
      BY <2>4, <2>5, LagGrows, LagCompares
    <2> QED BY <2>2, <2>4, <2>6
  <1>9. CASE Connected
    <2>1. /\ UNCHANGED <<then, phase, attempt, left, io, stampAge>> /\ pc = "connect" /\ io > 0
          /\ pc' = IF phase = "startup" THEN "begin" ELSE "restored"
      BY <1>9 DEF Connected, ExchangeDone, Goto, dogs
    <2> QED BY <2>1
  <1>10. CASE ConnectFails
    <2>1. /\ UNCHANGED <<phase, up, stampAge>> /\ pc = "connect" /\ io > 0 /\ pc' = "sleep"
          /\ then' = "connect" \/ (then' = "mqtt" /\ left' = MqttDelays[Len(MqttDelays)])
      BY <1>10, Delays DEF ConnectFails, ExchangeFailed, SleepThen, session, dogs
    <2>2. left' = MqttDelays[Len(MqttDelays)] => left' # 0
      BY Delays
    <2> QED BY <2>1, <2>2
  <1>11. CASE BeginPass \/ SecondProbe \/ UtcBegin
    <2>1. PICK d \in {0, PublishDelay} : Age(d)
      BY <1>11 DEF BeginPass, SecondProbe, UtcBegin, Paced
    <2>2. /\ UNCHANGED <<then, phase, attempt, left, up>> /\ io' = 0
          /\ \/ pc = "begin" /\ pc' = "probe1"
             \/ pc = "settled" /\ pc' = "probe2"
             \/ pc = "utc_begin" /\ pc' = "utc"
      BY <1>11 DEF BeginPass, SecondProbe, UtcBegin, Paced, session
    <2>3. /\ OpTime \in Nat /\ OpTime + SettleTime \in Nat /\ UtcSpent(attempt) \in Nat
          /\ PublishDelay \in Nat /\ d \in Nat /\ d <= PublishDelay
      <3>1. UtcSpent(attempt) \in Nat
        BY LagAttempts
      <3> QED BY <3>1, LagConstants
    <2>4. /\ stampAge' \in Nat
          /\ \A n \in Nat : Lag(stampAge, n) => Lag(stampAge', n + PublishDelay)
      <3>1. /\ stampAge' \in Nat
            /\ \A n \in Nat : Lag(stampAge, n) => Lag(stampAge', n + d)
        BY <2>1, <2>3, LagAdds
      <3>2. \A n \in Nat : Lag(stampAge', n + d) => Lag(stampAge', n + PublishDelay)
        BY <2>3, <3>1, LagGrows
      <3> QED BY <3>1, <3>2
    <2>5. /\ pc = "begin" => Lag(stampAge', OpTime + PublishDelay)
          /\ pc = "settled" => Lag(stampAge', OpTime + SettleTime + PublishDelay)
          /\ pc = "utc_begin" => Lag(stampAge', UtcSpent(attempt) + PublishDelay)
      BY <2>3, <2>4
    <2> QED BY <2>2, <2>4, <2>5 DEF Settling
  <1>12. CASE FirstProbeDone
    <2>1. /\ UNCHANGED <<then, phase, attempt, left, io, up>> /\ pc = "probe1" /\ io > 0
          /\ pc' = "settled" /\ Age(SettleTime)
      BY <1>12 DEF FirstProbeDone, ExchangeDone, Goto
    <2>2. stampAge' \in Nat /\ Lag(stampAge', OpTime + SettleTime)
      BY <2>1, LagAdds, LagConstants
    <2> QED BY <2>1, <2>2
  <1>13. CASE SecondProbeDone
    <2>1. /\ UNCHANGED <<then, phase, left, io, up, stampAge>> /\ pc = "probe2" /\ io > 0
          /\ pc' = "utc_begin" /\ attempt' = 1
      BY <1>13 DEF SecondProbeDone, ExchangeDone, dogs
    <2>2. 1 <= UtcAttempts /\ Lag(stampAge, UtcSpent(1))
      <3>1. Lag(stampAge, OpTime)
        BY <2>1
      <3>2. UtcSpent(1) \in Nat /\ OpTime <= UtcSpent(1)
        BY LagAttempts
      <3>3. OpTime \in Nat /\ 1 <= UtcAttempts
        BY LagConstants
      <3> QED BY <3>1, <3>2, <3>3, LagGrows
    <2> QED BY <2>1, <2>2
  <1>14. CASE ProbeFails
    <2>1. /\ UNCHANGED <<then, phase, attempt, left, io, stampAge>>
          /\ pc \in {"probe1", "probe2"} /\ pc' = "failed"
      BY <1>14 DEF ProbeFails, Goto, dogs
    <2>2. OpTime + PublishDelay <= Settling /\ OpTime + PublishDelay \in Nat
      BY LagConstants DEF Settling
    <2>3. Lag(stampAge, Settling)
      BY <2>1, <2>2, LagConstants, LagGrows
    <2> QED BY <2>1, <2>3
  <1>15. CASE UtcSent \/ UtcSendFails
    <2>1. /\ UNCHANGED <<then, phase, attempt, left, io, stampAge>> /\ pc = "utc"
          /\ pc' = "utc_check" \/ (pc' = "utc_wait" /\ io > 0)
      BY <1>15 DEF UtcSent, UtcSendFails, ExchangeDone, Goto, dogs
    <2> QED BY <2>1
  <1>16. CASE UtcWaited
    <2>1. PICK d \in {0, UtcWait} : Age(d)
      BY <1>16 DEF UtcWaited
    <2>2. UNCHANGED <<then, phase, attempt, left, io>> /\ pc = "utc_wait" /\ pc' = "utc_check"
      BY <1>16 DEF UtcWaited, Goto
    <2>3. d \in Nat /\ d <= UtcWait
      BY LagConstants
    <2>4. stampAge' \in Nat /\ Lag(stampAge', OpTime + d)
      BY <2>1, <2>2, <2>3, LagAdds, LagConstants
    <2>5. OpTime + d <= OpTime + UtcWait /\ OpTime + d \in Nat
      BY <2>3, LagConstants
    <2>6. Lag(stampAge', UtcSpent(attempt) + PublishDelay)
      <3>1. Lag(stampAge', OpTime + UtcWait)
        BY <2>4, <2>5, LagGrows, LagCompares
      <3> QED BY <2>4, <3>1, LagGrows, LagCompares
    <2> QED BY <2>2, <2>4, <2>6
  <1>17. CASE UtcCheck
    <2>1. /\ UNCHANGED <<then, phase, left, io, up>> /\ pc = "utc_check"
          /\ \/ pc' = "publish_utc" /\ stampAge' = stampAge
             \/ pc' = "utc_begin" /\ attempt' = attempt + 1 /\ attempt < UtcAttempts
                  /\ Age(UtcPause)
             \/ pc' = "failed" /\ Age(UtcPause)
      BY <1>17 DEF UtcCheck, Goto, session, dogs
    <2>2. /\ UtcSpent(attempt) + PublishDelay \in Nat /\ UtcPause \in Nat /\ UtcPass \in Nat
          /\ attempt <= UtcAttempts /\ UtcAttempts \in Nat
          /\ UtcSpent(attempt) + PublishDelay + UtcPause = UtcSpent(attempt + 1)
          /\ UtcSpent(attempt) + PublishDelay <= UtcPass /\ UtcSpent(attempt + 1) <= UtcPass
          /\ UtcSpent(attempt + 1) \in Nat
      <3>1. attempt <= UtcAttempts
        BY <2>1
      <3>2. /\ UtcSpent(attempt) + PublishDelay \in Nat /\ UtcSpent(attempt + 1) \in Nat
        BY LagCompares
      <3>3. UtcPause \in Nat /\ UtcPass \in Nat /\ UtcAttempts \in Nat
        BY LagConstants
      <3> QED BY <3>1, <3>2, <3>3, LagAttempts
    <2>3. Age(UtcPause) => stampAge' \in Nat /\ Lag(stampAge', UtcSpent(attempt + 1))
      BY <2>1, <2>2, LagAdds
    <2>4. Age(UtcPause) => Lag(stampAge', UtcPass)
      BY <2>2, <2>3, LagGrows
    <2>5. Lag(stampAge, UtcPass)
      BY <2>1, <2>2, LagGrows
    <2> QED BY <2>1, <2>2, <2>3, <2>4, <2>5
  <1>18. CASE PassFailed
    <2>1. /\ UNCHANGED <<phase, attempt, io, up, stampAge>> /\ pc = "failed" /\ pc' = "sleep"
          /\ then' = "drop" /\ left' = MqttDelays[Len(MqttDelays)]
      BY <1>18 DEF PassFailed, SleepThen, session, dogs
    <2>2. left' # 0
      BY <2>1, Delays
    <2> QED BY <2>1, <2>2
  <1>19. CASE DropSession \/ PublishUtc \/ SetReady
    <2>1. /\ UNCHANGED <<then, phase, attempt, left, io, stampAge>>
          /\ \/ pc = "drop" /\ pc' = "wifi" /\ up' = FALSE
             \/ pc = "publish_utc" /\ pc' = "set_ready"
             \/ pc = "set_ready" /\ pc' = "announce"
             \/ pc = "restored" /\ pc' = "announce_again"
      BY <1>19 DEF DropSession, PublishUtc, SetReady, MarkDisconnected, Goto, dogs
    <2> QED BY <2>1
  <1>20. CASE Announce \/ Arm
    <2>1. /\ UNCHANGED <<then, attempt, left, io, stampAge>>
          /\ \/ pc = "announce" /\ pc' = "arm"
             \/ pc = "announce_again" /\ pc' = "begin_poll"
             \/ pc = "arm" /\ pc' = "top"
      BY <1>20 DEF Announce, Arm, Goto, dogs
    <2> QED BY <2>1
  <1>21. CASE TopOfPass
    <2>1. UNCHANGED <<then, phase, attempt, left, io>> /\ pc' = "recover" /\ ServiceThen(0)
      BY <1>21 DEF TopOfPass, Goto
    <2>2. /\ stampAge' \in Nat /\ Lag(stampAge', 1) /\ Lag(stampAge', OpTime)
          /\ pc = "top" /\ phase = "run"
      BY <1>21, <2>1, LagServiced, LagConstants DEF TopOfPass, StartPcs
    <2> QED BY <2>1, <2>2
  <1>22. CASE Recover \/ Outage \/ Report
    <2>1. /\ UNCHANGED <<then, phase, attempt, left, io, stampAge>>
          /\ pc \in {"recover", "outage", "report"} /\ phase = "run"
          /\ pc' \in {"begin_poll", "outage", "report", "wifi"}
      BY <1>22 DEF Recover, Outage, Report, Goto, dogs, StartPcs
    <2>2. Lag(stampAge, OpTime)
      BY <2>1, LagGrows, LagConstants
    <2> QED BY <2>1, <2>2
  <1>23. CASE BeginPoll \/ BeginPublish \/ BeginUtc
    <2>1. /\ UNCHANGED <<then, phase, attempt, left>>
          /\ pc \in {"begin_poll", "begin_publish", "begin_utc"}
          /\ \/ Age(Work) /\ io' = 0 /\ pc' \in {"poll", "publish", "run_utc"}
             \/ UNCHANGED stampAge /\ pc' \in {"begin_publish", "idle", "end"}
      BY <1>23 DEF BeginPoll, BeginPublish, BeginUtc, BeginExchange, dogs
    <2>2. phase = "run"
      BY <2>1 DEF StartPcs
    <2>3. Age(Work) => /\ stampAge' \in Nat
                       /\ Lag(stampAge', OpTime + Work) \/ Lag(stampAge', AllSpent + Work)
      BY <2>1, LagAdds, LagConstants
    <2> QED BY <2>1, <2>2, <2>3
  <1>24. CASE Idle
    <2>1. /\ UNCHANGED <<then, phase, attempt, left, stampAge>> /\ pc = "idle"
          /\ pc' = "periodic" \/ (pc' = "ping" /\ io' = 0)
      BY <1>24 DEF Idle, dogs
    <2> QED BY <2>1 DEF StartPcs
  <1>25. CASE RunExchangeDone \/ RunExchangeFails
    <2>1. /\ pc \in {"poll", "publish", "ping", "run_utc"} /\ io > 0 /\ phase = "run"
          /\ UNCHANGED <<then, phase, attempt, left, io, stampAge>>
      BY <1>25 DEF RunExchangeDone, ExchangeDone, RunExchangeFails, ExchangeFailed, Goto, dogs,
                   StartPcs
    <2>2. pc' \in {"begin_publish", "periodic", "end"}
      BY <1>25, <2>1 DEF RunExchangeDone, RunExchangeFails, After, Goto
    <2> QED BY <2>1, <2>2
  <1>26. CASE Periodic
    <2>1. /\ UNCHANGED <<then, phase, attempt, left, io, stampAge>> /\ pc = "periodic"
          /\ pc' = "begin_utc"
      BY <1>26 DEF Periodic, Goto, dogs
    <2> QED BY <2>1
  <1>27. CASE EndOfPass
    <2>1. UNCHANGED <<then, phase, attempt, left, io>> /\ pc = "end" /\ pc' = "top" /\ Age(Work)
      BY <1>27 DEF EndOfPass, Goto
    <2>2. /\ stampAge' \in Nat
          /\ Lag(stampAge', OpTime + Work) \/ Lag(stampAge', AllSpent + Work)
      BY <2>1, LagAdds, LagConstants
    <2> QED BY <2>1, <2>2 DEF StartPcs
  <1>28. CASE HeartbeatReset \/ Fault
    <2>1. /\ pc' = "wifi" /\ stampAge' = 0 /\ ~ up'
      BY <1>28 DEF HeartbeatReset, Fault, Reboot
    <2>2. Lag(0, 1)
      BY LagConstants DEF Lag
    <2> QED BY <2>1, <2>2
  <1>29. CASE \/ WorkerStarts \/ WorkerDies \/ Associate \/ LoseWifi \/ LoseBroker \/ Heal
              \/ UNCHANGED vars
    <2>1. UNCHANGED <<pc, then, phase, attempt, left, io, up, stampAge>>
      BY <1>29 DEF WorkerStarts, WorkerDies, Associate, LoseWifi, LoseBroker, Heal, vars,
                   control, session, dogs
    <2> QED BY <2>1
  <1> QED BY <1>1, <1>2, <1>3, <1>4, <1>5, <1>6, <1>7, <1>8, <1>9, <1>10, <1>11,
             <1>12, <1>13, <1>14, <1>15, <1>16, <1>17, <1>18, <1>19, <1>20, <1>21,
             <1>22, <1>23, <1>24, <1>25, <1>26, <1>27, <1>28, <1>29
          DEF Next, Core0Step, Establish, Startup, Run, Environment

(* A dead Core 1 is noticed within the heartbeat limit and one stretch     *)
(* without a service point (_watch_core_1_heartbeat), for every delay list,*)
(* timeout and number of attempts: in startup's loops, in every backoff and*)
(* exchange, and in the run loop.                                          *)
THEOREM DeadWorkerIsNoticed == Spec => []DeadWorkerNoticed
  <1>1. Init => Noticing
    BY LagConstants DEF Init, Noticing, Fresh, LagConnecting, LagStarting, LagRunning, Lag,
                        Exchanges, RunPcs
  <1>2. IInv /\ Noticing /\ [Next]_vars => Noticing'
    BY NextNoticing
  <1>3. IInv /\ Noticing => DeadWorkerNoticed
    <2> SUFFICES ASSUME IInv, Noticing
                 PROVE  \E stretch \in Stretches : stampAge < StaleTimeout + stretch
      BY DEF DeadWorkerNoticed
    <2> DEFINE round == OpTime + Work
               list  == 1 + Len(WifiDelays) * Work
               pass  == OpTime + UtcWait + UtcAttempts * (UtcPause + PublishDelay)
    <2>0. /\ {round, list} \subseteq Stretches
          /\ ~ (phase = "run" /\ pc # "top") => {Settling, pass} \subseteq Stretches
      BY DEF Stretches, Settling
    <2>1. pass = UtcPass /\ list = AllSpent + Work /\ {list, round, pass} \subseteq Nat
      BY LagConstants DEF UtcPass, UtcSpent
    <2>2. \/ Lag(stampAge, round) \/ Lag(stampAge, list)
          \/ /\ ~ (phase = "run" /\ pc # "top")
             /\ Lag(stampAge, Settling) \/ Lag(stampAge, UtcPass)
      <3> HIDE DEF round, list, pass
      <3> USE DEF Noticing, Places, Exchanges, Establishing, RunPcs, StartPcs
      <3>1. Places /\ attempt \in Nat \ {0} /\ stampAge \in Nat
        BY DEF IInv, Numbers
      <3>2. /\ Lag(stampAge, 1) \/ Lag(stampAge, OpTime) => Lag(stampAge, round)
            /\ Lag(stampAge, AllSpent) \/ Lag(stampAge, AllSpent + Work) => Lag(stampAge, list)
        BY <2>1, <3>1, LagConstants, LagGrows DEF round
      <3>3. CASE pc \in Establishing \cup {"drop", "recover", "outage", "report"}
        <4>1. attempt <= Len(WifiDelays) /\ Lag(stampAge, Spent(attempt))
                => Lag(stampAge, AllSpent)
          BY <3>1, LagAttempts, LagConstants, LagGrows
        <4> QED BY <3>1, <3>2, <3>3, <4>1 DEF LagConnecting, LagStarting
      <3>4. CASE pc \in StartPcs \ {"drop"}
        <4>1. /\ Lag(stampAge, OpTime + PublishDelay) => Lag(stampAge, Settling)
              /\ Lag(stampAge, OpTime + SettleTime) => Lag(stampAge, Settling)
          BY <3>1, LagConstants, LagGrows DEF Settling
        <4>2. /\ attempt <= UtcAttempts /\ Lag(stampAge, UtcSpent(attempt))
                   => Lag(stampAge, UtcPass)
              /\ attempt <= UtcAttempts /\ Lag(stampAge, UtcSpent(attempt) + PublishDelay)
                   => Lag(stampAge, UtcPass)
          <5>1. /\ UtcSpent(attempt) \in Nat /\ UtcSpent(attempt) + PublishDelay \in Nat
                /\ UtcPass \in Nat /\ UtcSpent(attempt) <= UtcSpent(attempt) + PublishDelay
                /\ attempt <= UtcAttempts => UtcSpent(attempt) + PublishDelay <= UtcPass
            <6> DEFINE u == UtcSpent(attempt)
                       in == attempt <= UtcAttempts
            <6>1. u \in Nat /\ (in => u + PublishDelay <= UtcPass)
              BY LagAttempts
            <6>2. PublishDelay \in Nat /\ UtcPass \in Nat
              BY LagConstants
            <6> HIDE DEF u, in
            <6>3. /\ u \in Nat /\ u + PublishDelay \in Nat /\ UtcPass \in Nat
                  /\ u <= u + PublishDelay /\ (in => u + PublishDelay <= UtcPass)
              BY <6>1, <6>2
            <6> QED BY <6>3 DEF u, in
          <5> QED BY <3>1, <5>1, LagGrows
        <4>3. phase = "startup"
          BY <3>1, <3>4
        <4> QED BY <3>1, <3>2, <3>4, <4>1, <4>2, <4>3 DEF LagStarting, Fresh
      <3>5. CASE pc \in RunPcs \ {"recover", "outage", "report"}
        BY <3>1, <3>2, <3>5, <2>1 DEF LagRunning, round
      <3> QED BY <3>1, <3>3, <3>4, <3>5
    <2> QED BY <2>0, <2>1, <2>2 DEF Lag
  <1> QED BY <1>1, <1>2, <1>3, Invariant, PTL DEF Spec
=============================================================================
