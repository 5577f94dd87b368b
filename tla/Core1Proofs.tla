----------------------------- MODULE Core1Proofs -----------------------------
(***************************************************************************)
(* Proofs about Core1 for every list of devices, every interval and bound  *)
(* that satisfies the named assumptions.                                   *)
(***************************************************************************)
EXTENDS Core1, SequenceTheorems, TLAPS

-----------------------------------------------------------------------------
(* The heartbeat. *)

\* How old the stamp may be at each place: one driver call and the startup log behind it,
\* or what the loop adds to the activity interval before it looks again.
Stamped ==
    /\ stampAge \in Nat /\ nextActivity \in Int
    /\ pc = "create" => attempt = 1
    /\ pc \in {"create", "init"} => stampAge <= MaxCall
    /\ pc = "log" => \/ attempt = 1 /\ stampAge <= MaxCall + MaxWork
                     \/ attempt = 2 /\ stampAge <= MaxCall + 2 * MaxWork
    /\ pc = "log_bounded" => \/ attempt = 1 /\ stampAge <= MaxCall + 2 * MaxWork
                             \/ attempt = 2 /\ stampAge <= MaxCall + 3 * MaxWork
    /\ pc = "anchor" => stampAge <= MaxCall + 4 * MaxWork
    /\ pc \in BootSteps \cup LoopSteps \cup {"stopped"}
    /\ pc \in LoopSteps => stampAge + nextActivity <= ActivityInterval
    /\ pc \in LoopSteps /\ initial => pc \in {"read", "health", "top"}
    /\ pc \in {"read", "health"} /\ initial => stampAge <= MaxCall
    /\ pc = "health" /\ ~ initial => nextActivity >= 1
    /\ pc = "top" => \/ stampAge <= MaxCall + MaxWork
                     \/ stampAge <= ActivityInterval - 1 + MaxWork
    /\ pc \in {"check_read", "read", "check_retry", "retry", "activity"} =>
         \/ stampAge <= MaxCall + 2 * MaxWork + 1
         \/ stampAge <= ActivityInterval + 2 * MaxWork

\* Core 1 stamps as it starts.
LEMMA StampedInit == Init => Stamped
  BY Core1Assumption DEF Init, Stamped, BootSteps, LoopSteps

\* What is known of the deadline of the next activity in a read pass.
LEMMA StampedReads ==
  ASSUME Stamped, pc = "read"
  PROVE  nextActivity \in Int /\ nextActivity <= ActivityInterval
  <1>1. /\ stampAge \in Nat /\ nextActivity \in Int
        /\ stampAge + nextActivity <= ActivityInterval
    BY DEF Stamped, LoopSteps
  <1> QED BY <1>1, Core1Assumption

\* A driver call of a read pass leaves a stamp as old as that call at most.
LEMMA ReadsStamped ==
  ASSUME pc = "read", UNCHANGED <<pc, initial>>, stampAge' \in 0..MaxCall,
         nextActivity' \in Int, stampAge' + nextActivity' <= ActivityInterval
  PROVE  Stamped'
  <1>1. pc' = "read"
    OBVIOUS
  <1>2. stampAge' \in Nat /\ stampAge' <= MaxCall /\ stampAge' <= MaxCall + 2 * MaxWork + 1
    BY Core1Assumption
  <1> QED BY <1>1, <1>2 DEF Stamped, BootSteps, LoopSteps

\* No step lets the stamp grow older than its place allows.
LEMMA StampedNext == Stamped /\ [Next]_vars => Stamped'
  <1> SUFFICES ASSUME Stamped, [Next]_vars
               PROVE  Stamped'
    OBVIOUS
  <1> USE Core1Assumption DEF Stamped, BootSteps, LoopSteps
  <1>1. CASE CreateDriver
    BY <1>1 DEF CreateDriver, StampsThen, NextDevice, timers
  <1>2. CASE InitDriver
    BY <1>2 DEF InitDriver, StampsThen, NextDevice, timers
  <1>3. CASE DevicesDone
    BY <1>3 DEF DevicesDone, Ages, timers
  <1>4. CASE LogAdmitted
    BY <1>4 DEF LogAdmitted, Ages, timers
  <1>5. CASE LogRetried
    BY <1>5 DEF LogRetried, Ages, timers
  <1>6. CASE LogBounded
    BY <1>6 DEF LogBounded, timers
  <1>7. CASE Anchor
    BY <1>7 DEF Anchor, StampsThen
  <1>8. CASE Top
    BY <1>8 DEF Top, Elapse
  <1>9. CASE CheckRead
    BY <1>9 DEF CheckRead, timers
  <1>10. CASE ReadDevice
    <2> HIDE DEF Stamped
    <2>1. pc = "read"
      BY <1>10 DEF ReadDevice, InReadPass
    <2>2. PICK w \in 0..MaxCall : /\ stampAge' = w /\ nextActivity' = nextActivity - w
                                 /\ UNCHANGED <<pc, initial>>
      BY <1>10 DEF ReadDevice, Runs, Elapse, StampsThen
    <2>3. nextActivity \in Int /\ nextActivity <= ActivityInterval
      BY <2>1, StampedReads
    <2>4. /\ stampAge' \in 0..MaxCall /\ nextActivity' \in Int
          /\ stampAge' + nextActivity' <= ActivityInterval
      BY <2>2, <2>3
    <2> QED BY <2>1, <2>2, <2>4, ReadsStamped
  <1>11. CASE ReinitDevice
    <2> HIDE DEF Stamped
    <2>1. pc = "read"
      BY <1>11 DEF ReinitDevice, InReadPass
    <2>2. PICK w \in 0..MaxCall :
             /\ UNCHANGED <<pc, initial>>
             /\ \/ stampAge' = w /\ nextActivity' = nextActivity - w
                \/ /\ stampAge' = IF RetryDelay > 0 THEN 0 ELSE w
                   /\ nextActivity' = nextActivity - (w + RetryDelay)
      BY <1>11 DEF ReinitDevice, Runs, Elapse, StampsThen
    <2>3. nextActivity \in Int /\ nextActivity <= ActivityInterval
      BY <2>1, StampedReads
    <2>4. w \in Nat /\ w <= MaxCall
      OBVIOUS
    <2>5. /\ stampAge' \in 0..MaxCall /\ nextActivity' \in Int
          /\ stampAge' + nextActivity' <= ActivityInterval
      <3>1. CASE stampAge' = w /\ nextActivity' = nextActivity - w
        BY <2>3, <2>4, <3>1
      <3>2. CASE /\ stampAge' = IF RetryDelay > 0 THEN 0 ELSE w
                 /\ nextActivity' = nextActivity - (w + RetryDelay)
        BY <2>3, <2>4, <3>2
      <3> QED BY <2>2, <3>1, <3>2
    <2> QED BY <2>1, <2>2, <2>5, ReadsStamped
  <1>12. CASE ReadPassEnds
    BY <1>12 DEF ReadPassEnds, Skip, timers
  <1>13. CASE CheckRetry
    BY <1>13 DEF CheckRetry, timers
  <1>14. CASE RetryDevice
    BY <1>14 DEF RetryDevice, StampsThen, Runs, Elapse
  <1>15. CASE RetrySkipped
    BY <1>15 DEF RetrySkipped, timers
  <1>16. CASE RetryPassEnds
    BY <1>16 DEF RetryPassEnds, Skip
  <1>17. CASE Activity
    BY <1>17 DEF Activity, StampsThen
  <1>18. CASE HealthReports
    BY <1>18 DEF HealthReports, ReportTakes
  <1>19. CASE HealthNotDue
    BY <1>19 DEF HealthNotDue
  <1>20. CASE Silence
    BY <1>20 DEF Silence, place, timers
  <1>21. CASE HeartbeatReset
    BY <1>21 DEF HeartbeatReset
  <1>22. CASE Core1Stops \/ Repaired
    BY <1>22 DEF Core1Stops, Repaired, place, timers
  <1>23. CASE UNCHANGED vars
    BY <1>23 DEF vars, place, timers
  <1> QED BY <1>1, <1>2, <1>3, <1>4, <1>5, <1>6, <1>7, <1>8, <1>9, <1>10, <1>11,
             <1>12, <1>13, <1>14, <1>15, <1>16, <1>17, <1>18, <1>19, <1>20, <1>21,
             <1>22, <1>23
          DEF Next, Step

\* Whatever the number of devices, attempts and retries, and however they fail, a Core 1
\* that still runs stamps its heartbeat before Core 0 resets the board over it.
THEOREM HeartbeatIsFresh == Spec => []HeartbeatFresh
  <1>1. Stamped => HeartbeatFresh
    BY Core1Assumption, TimingAssumption DEF Stamped, HeartbeatFresh, BootSteps, LoopSteps
  <1> QED BY <1>1, StampedInit, StampedNext, PTL DEF Spec

-----------------------------------------------------------------------------
(* The device record. *)

\* What the manager keeps of the devices: each is active or failed, or neither yet, and
\* its counter, flags and warnings agree.
ActiveOK ==
    /\ active \in Seq(Devices)
    /\ IsInjective(active)
    /\ ToSet(active) = DOMAIN managed
    /\ DOMAIN managed \cap DOMAIN failed = {}
    /\ DOMAIN failed \subseteq Devices

SoundRecord(r) ==
    /\ r \in [failures : Nat, pending : BOOLEAN, logged : BOOLEAN]
    /\ r.pending <=> r.failures >= Threshold
    /\ r.logged => r.pending

ManagedOK == \A d \in DOMAIN managed : SoundRecord(managed[d])

WarnedOK ==
    /\ DOMAIN warned = Devices
    /\ \A d \in Devices : warned[d] \in 0..1
    /\ \A d \in DOMAIN managed : ~ managed[d].logged => warned[d] = 0
    /\ \A d \in DOMAIN failed : ~ failed[d] => warned[d] = 0
    /\ \A d \in Devices \ (DOMAIN managed \cup DOMAIN failed) : warned[d] = 0

RecordOK == ActiveOK /\ ManagedOK /\ WarnedOK

\* What is known of the devices at each place.
Known == DOMAIN managed \cup DOMAIN failed
Tried == {DevicesConfig[k] : k \in 1..(idx - 1)}

KnownOK ==
    /\ pc \in BootSteps \cup LoopSteps \cup {"stopped"}
    /\ idx \in Nat \ {0}
    /\ pc \in {"create", "init"} => Known = Tried
    /\ pc = "create" => idx <= Len(DevicesConfig) + 1
    /\ pc = "init" => idx <= Len(DevicesConfig)
    /\ pc \in LoopSteps \cup {"log", "log_bounded", "anchor"} => Known = Devices

DeviceInv == RecordOK /\ KnownOK

\* A device that is not active yet is added.
LEMMA AppendActive ==
  ASSUME NEW s \in Seq(Devices), IsInjective(s), NEW d \in Devices, d \notin ToSet(s)
  PROVE  /\ Append(s, d) \in Seq(Devices)
         /\ IsInjective(Append(s, d))
         /\ ToSet(Append(s, d)) = ToSet(s) \cup {d}
  <1>1. /\ Append(s, d) \in Seq(Devices) /\ Len(Append(s, d)) = Len(s) + 1
        /\ \A i \in 1..Len(s) : Append(s, d)[i] = s[i]
        /\ Append(s, d)[Len(s) + 1] = d
    OBVIOUS
  <1>2. DOMAIN s = 1..Len(s) /\ DOMAIN Append(s, d) = 1..(Len(s) + 1) /\ Len(s) \in Nat
    BY <1>1
  <1>3. \A i \in 1..Len(s) : s[i] \in ToSet(s)
    BY <1>2 DEF ToSet
  <1>4. \A i \in 1..(Len(s) + 1) : i \in 1..Len(s) \/ i = Len(s) + 1
    BY <1>2
  <1>5. IsInjective(Append(s, d))
    <2> SUFFICES ASSUME NEW i \in 1..(Len(s) + 1), NEW j \in 1..(Len(s) + 1),
                        Append(s, d)[i] = Append(s, d)[j]
                 PROVE  i = j
      BY <1>2 DEF IsInjective
    <2>1. CASE i \in 1..Len(s) /\ j \in 1..Len(s)
      BY <1>1, <1>2, <2>1 DEF IsInjective
    <2>2. CASE i = Len(s) + 1 /\ j \in 1..Len(s)
      BY <1>1, <1>3, <2>2
    <2>3. CASE j = Len(s) + 1 /\ i \in 1..Len(s)
      BY <1>1, <1>3, <2>3
    <2> QED BY <1>4, <2>1, <2>2, <2>3
  <1>6. ToSet(Append(s, d)) = ToSet(s) \cup {d}
    <2>1. \A x \in ToSet(s) : x \in ToSet(Append(s, d))
      BY <1>1, <1>2 DEF ToSet
    <2>2. d \in ToSet(Append(s, d))
      BY <1>1, <1>2 DEF ToSet
    <2>3. \A x \in ToSet(Append(s, d)) : x \in ToSet(s) \cup {d}
      BY <1>1, <1>2, <1>3, <1>4 DEF ToSet
    <2> QED BY <2>1, <2>2, <2>3
  <1> QED BY <1>1, <1>5, <1>6

\* What reads and reinitializations do to one sound record leaves it sound.
LEMMA RecordSteps ==
    /\ SoundRecord(NewManaged) /\ ~ NewManaged.logged
    /\ \A r : SoundRecord(r) =>
         LET failing == [r EXCEPT !.failures = @ + 1, !.pending = r.failures + 1 >= Threshold]
         IN  /\ ~ r.pending => SoundRecord(failing) /\ failing.logged = r.logged
             /\ ~ r.pending => SoundRecord([r EXCEPT !.failures = 0])
             /\ r.pending => SoundRecord([r EXCEPT !.logged = TRUE])
  <1>1. ~ (0 >= Threshold)
    BY DeviceAssumption
  <1>2. SoundRecord(NewManaged) /\ ~ NewManaged.logged
    BY <1>1 DEF SoundRecord, NewManaged
  <1>3. ASSUME NEW r, SoundRecord(r), ~ r.pending
        PROVE  LET failing == [r EXCEPT !.failures = @ + 1,
                                        !.pending = r.failures + 1 >= Threshold]
               IN  SoundRecord(failing) /\ failing.logged = r.logged
    <2>1. (r.failures + 1 >= Threshold) \in BOOLEAN /\ r.failures + 1 \in Nat
      BY <1>3 DEF SoundRecord
    <2> QED BY <1>3, <2>1 DEF SoundRecord
  <1>4. ASSUME NEW r, SoundRecord(r), ~ r.pending
        PROVE  SoundRecord([r EXCEPT !.failures = 0])
    BY <1>1, <1>4 DEF SoundRecord
  <1>5. ASSUME NEW r, SoundRecord(r), r.pending
        PROVE  SoundRecord([r EXCEPT !.logged = TRUE])
    BY <1>5 DEF SoundRecord
  <1> QED BY <1>2, <1>3, <1>4, <1>5

\* A device joins the read pass, at boot or by a late retry.
LEMMA Joins ==
  ASSUME RecordOK, NEW d \in Devices, d \notin DOMAIN managed,
         \/ RecordSuccess(d) /\ d \notin DOMAIN failed
         \/ RetrySucceeds(d)
  PROVE  RecordOK' /\ Known' = Known \cup {d}
  <1>1. /\ active' = Append(active, d)
        /\ managed' = With(managed, d, NewManaged)
        /\ DOMAIN failed' = DOMAIN failed \ {d}
        /\ \A x \in DOMAIN failed' : failed'[x] = failed[x]
        /\ DOMAIN warned' = Devices
        /\ warned'[d] = 0 /\ \A x \in Devices \ {d} : warned'[x] = warned[x]
    BY DEF RecordSuccess, RetrySucceeds, RecordOK, WarnedOK, Without
  <1>2. /\ DOMAIN managed' = DOMAIN managed \cup {d}
        /\ managed'[d] = NewManaged
        /\ \A x \in DOMAIN managed : managed'[x] = managed[x]
    BY <1>1 DEF With
  <1>3. ActiveOK'
    <2>1. d \notin ToSet(active)
      BY DEF RecordOK, ActiveOK
    <2>2. /\ active' \in Seq(Devices) /\ IsInjective(active')
          /\ ToSet(active') = ToSet(active) \cup {d}
      BY <1>1, <2>1, AppendActive DEF RecordOK, ActiveOK
    <2> QED BY <1>1, <1>2, <2>2 DEF RecordOK, ActiveOK
  <1>4. ManagedOK'
    <2>1. \A x \in DOMAIN managed' : x = d \/ (x \in DOMAIN managed /\ managed'[x] = managed[x])
      BY <1>2
    <2> QED BY <1>2, <2>1, RecordSteps DEF RecordOK, ManagedOK
  <1>5. WarnedOK'
    <2>1. \A x \in Devices : warned'[x] \in 0..1
      BY <1>1 DEF RecordOK, WarnedOK
    <2>2. \A x \in DOMAIN managed' : ~ managed'[x].logged => warned'[x] = 0
      <3> SUFFICES ASSUME NEW x \in DOMAIN managed', ~ managed'[x].logged
                   PROVE  warned'[x] = 0
        OBVIOUS
      <3>1. CASE x = d
        BY <1>1, <3>1
      <3>2. CASE x # d
        BY <1>1, <1>2, <3>2 DEF RecordOK, ActiveOK, WarnedOK, ToSet
      <3> QED BY <3>1, <3>2
    <2>3. \A x \in DOMAIN failed' : ~ failed'[x] => warned'[x] = 0
      BY <1>1 DEF RecordOK, ActiveOK, WarnedOK
    <2>4. \A x \in Devices \ (DOMAIN managed' \cup DOMAIN failed') : warned'[x] = 0
      BY <1>1, <1>2 DEF RecordOK, WarnedOK
    <2> QED BY <1>1, <2>1, <2>2, <2>3, <2>4 DEF WarnedOK
  <1> QED BY <1>1, <1>2, <1>3, <1>4, <1>5 DEF RecordOK, Known

\* A device that failed at boot is recorded.
LEMMA Fails ==
  ASSUME RecordOK, NEW d \in Devices, d \notin Known, RecordFailure(d)
  PROVE  RecordOK' /\ Known' = Known \cup {d}
  BY DEF RecordFailure, With, RecordOK, ActiveOK, ManagedOK, WarnedOK, Known

\* A late retry that fails warns once.
LEMMA FailsAgain ==
  ASSUME RecordOK, NEW d \in DOMAIN failed, RetryFails(d)
  PROVE  RecordOK' /\ Known' = Known
  BY DEF RetryFails, Warn, RecordOK, ActiveOK, ManagedOK, WarnedOK, Known

\* A step that touches the record of one active device keeps the records sound when it
\* leaves a sound record, with a warning outstanding only if it has been logged.
LEMMA OneRecord ==
  ASSUME RecordOK, NEW d \in DOMAIN managed,
         UNCHANGED <<active, failed>>,
         DOMAIN managed' = DOMAIN managed,
         \A x \in DOMAIN managed \ {d} : managed'[x] = managed[x],
         SoundRecord(managed'[d]),
         DOMAIN warned' = Devices,
         \A x \in Devices \ {d} : warned'[x] = warned[x],
         warned'[d] \in 0..1,
         ~ managed'[d].logged => warned'[d] = 0
  PROVE  RecordOK' /\ Known' = Known
  <1>1. ActiveOK'
    BY DEF RecordOK, ActiveOK
  <1>2. ManagedOK'
    BY DEF RecordOK, ManagedOK
  <1>3. d \in Devices /\ DOMAIN managed \subseteq Devices /\ d \notin DOMAIN failed
    BY DEF RecordOK, ActiveOK, ToSet
  <1>4. WarnedOK'
    <2>1. \A x \in Devices : warned'[x] \in 0..1
      BY DEF RecordOK, WarnedOK
    <2>2. \A x \in DOMAIN managed' : ~ managed'[x].logged => warned'[x] = 0
      BY <1>3 DEF RecordOK, WarnedOK
    <2>3. \A x \in DOMAIN failed' : ~ failed'[x] => warned'[x] = 0
      BY <1>3 DEF RecordOK, ActiveOK, WarnedOK
    <2>4. \A x \in Devices \ (DOMAIN managed' \cup DOMAIN failed') : warned'[x] = 0
      BY <1>3 DEF RecordOK, WarnedOK
    <2> QED BY <2>1, <2>2, <2>3, <2>4 DEF WarnedOK
  <1> QED BY <1>1, <1>2, <1>4 DEF RecordOK, Known

\* Reads and reinitializations touch the record of one active device.
LEMMA Reads ==
  ASSUME RecordOK, NEW d \in DOMAIN managed,
         \/ ~ managed[d].pending /\ (ReadSucceeds(d) \/ ReadFails(d))
         \/ managed[d].pending /\ (ReinitSucceeds(d) \/ ReinitExhausted(d))
  PROVE  RecordOK' /\ Known' = Known
  <1>1. /\ DOMAIN managed' = DOMAIN managed
        /\ UNCHANGED <<active, failed>>
        /\ \A x \in DOMAIN managed \ {d} : managed'[x] = managed[x]
    BY DEF ReadSucceeds, ReadFails, ReinitSucceeds, ReinitExhausted
  <1>2. d \in Devices
    BY DEF RecordOK, ActiveOK, ToSet
  <1>3. SoundRecord(managed[d]) /\ (managed[d].logged => managed[d].pending)
    BY DEF RecordOK, ManagedOK, SoundRecord
  <1>4. /\ DOMAIN warned = Devices /\ warned[d] \in 0..1
        /\ ~ managed[d].logged => warned[d] = 0
    BY <1>2 DEF RecordOK, WarnedOK
  <1>5. CASE ReadSucceeds(d) /\ ~ managed[d].pending
    <2>1. managed'[d] = [managed[d] EXCEPT !.failures = 0]
          /\ warned' = [warned EXCEPT ![d] = 0]
      BY <1>5 DEF ReadSucceeds
    <2>2. SoundRecord(managed'[d])
      BY <1>3, <1>5, <2>1, RecordSteps
    <2>3. /\ DOMAIN warned' = Devices /\ warned'[d] = 0
          /\ \A x \in Devices \ {d} : warned'[x] = warned[x]
      BY <1>2, <1>4, <2>1
    <2> QED BY <1>1, <2>2, <2>3, OneRecord
  <1>6. CASE ReadFails(d) /\ ~ managed[d].pending
    <2>1. managed'[d] = [managed[d] EXCEPT
                            !.failures = @ + 1,
                            !.pending = managed[d].failures + 1 >= Threshold]
          /\ warned' = warned
      BY <1>6 DEF ReadFails
    <2>2. SoundRecord(managed'[d]) /\ managed'[d].logged = managed[d].logged
      BY <1>3, <1>6, <2>1, RecordSteps
    <2> QED BY <1>1, <1>4, <2>1, <2>2, OneRecord
  <1>7. CASE ReinitSucceeds(d)
    <2>1. managed'[d] = NewManaged /\ warned' = [warned EXCEPT ![d] = 0]
      BY <1>7 DEF ReinitSucceeds
    <2>2. SoundRecord(managed'[d])
      BY <2>1, RecordSteps
    <2>3. /\ DOMAIN warned' = Devices /\ warned'[d] = 0
          /\ \A x \in Devices \ {d} : warned'[x] = warned[x]
      BY <1>2, <1>4, <2>1
    <2> QED BY <1>1, <2>2, <2>3, OneRecord
  <1>8. CASE ReinitExhausted(d) /\ managed[d].pending
    <2>1. managed'[d] = [managed[d] EXCEPT !.logged = TRUE]
      BY <1>8 DEF ReinitExhausted
    <2>2. SoundRecord(managed'[d]) /\ managed'[d].logged
      <3>1. managed'[d].logged
        BY <1>3, <2>1 DEF SoundRecord
      <3> QED BY <1>3, <1>8, <2>1, <3>1, RecordSteps
    <2>3. /\ DOMAIN warned' = Devices /\ warned'[d] \in 0..1
          /\ \A x \in Devices \ {d} : warned'[x] = warned[x]
      BY <1>2, <1>4, <1>8 DEF ReinitExhausted, Warn
    <2> QED BY <1>1, <2>2, <2>3, OneRecord
  <1> QED BY <1>5, <1>6, <1>7, <1>8

\* The next device of the configuration is one that nothing is known of.
LEMMA NextUntried ==
  ASSUME KnownOK, pc \in {"create", "init"}, idx <= Len(DevicesConfig)
  PROVE  /\ Device \in Devices /\ Device \notin Known
         /\ Known \cup {Device} = {DevicesConfig[k] : k \in 1..idx}
  <1>1. idx \in DOMAIN DevicesConfig /\ \A k \in 1..(idx - 1) : k \in DOMAIN DevicesConfig
    BY DeviceAssumption DEF KnownOK
  <1>2. \A k \in 1..(idx - 1) : DevicesConfig[k] # DevicesConfig[idx]
    BY <1>1, DeviceAssumption DEF IsInjective
  <1>3. \A k \in 1..idx : k = idx \/ k \in 1..(idx - 1)
    BY DEF KnownOK
  <1> QED BY <1>1, <1>2, <1>3 DEF KnownOK, Tried, Device, Devices, ToSet

\* At boot nothing is known of any device.
LEMMA DeviceInvInit == Init => DeviceInv
  <1> SUFFICES ASSUME Init PROVE DeviceInv
    OBVIOUS
  <1>1. active = <<>> /\ DOMAIN managed = {} /\ DOMAIN failed = {}
        /\ warned = [d \in Devices |-> 0]
    BY DEF Init, DeviceInit
  <1>2. RecordOK
    BY <1>1 DEF RecordOK, ActiveOK, ManagedOK, WarnedOK, IsInjective, ToSet
  <1>3. KnownOK
    BY <1>1, DeviceAssumption DEF Init, KnownOK, Known, Tried, BootSteps, LoopSteps
  <1> QED BY <1>2, <1>3 DEF DeviceInv

\* Startup records each device once, in order.
LEMMA BootKept ==
  ASSUME DeviceInv, CreateDriver \/ InitDriver \/ DevicesDone
  PROVE  DeviceInv'
  <1>1. CASE UNCHANGED deviceVars /\ UNCHANGED idx /\ (CreateDriver \/ InitDriver)
    <2>1. pc' = "init" /\ pc \in {"create", "init"} /\ idx <= Len(DevicesConfig)
      BY <1>1 DEF CreateDriver, InitDriver, NextDevice, DeviceInv, KnownOK
    <2>2. UNCHANGED <<active, managed, failed, warned, idx>>
      BY <1>1 DEF deviceVars
    <2> QED BY <2>1, <2>2 DEF DeviceInv, RecordOK, ActiveOK, ManagedOK, WarnedOK,
               KnownOK, Known, Tried, BootSteps, LoopSteps
  <1>2. CASE NextDevice /\ (RecordSuccess(Device) \/ RecordFailure(Device))
             /\ pc \in {"create", "init"} /\ idx <= Len(DevicesConfig)
    <2>1. /\ Device \in Devices /\ Device \notin Known
          /\ Known \cup {Device} = {DevicesConfig[k] : k \in 1..idx}
      BY <1>2, NextUntried DEF DeviceInv
    <2>2. RecordOK' /\ Known' = Known \cup {Device}
      BY <1>2, <2>1, Joins, Fails DEF DeviceInv, Known
    <2>3. pc' = "create" /\ idx' = idx + 1 /\ idx \in Nat \ {0}
      BY <1>2 DEF NextDevice, DeviceInv, KnownOK
    <2>4. Tried' = {DevicesConfig[k] : k \in 1..idx}
      BY <2>3 DEF Tried
    <2> QED BY <1>2, <2>1, <2>2, <2>3, <2>4, DeviceAssumption
            DEF DeviceInv, KnownOK, BootSteps, LoopSteps
  <1>3. CASE DevicesDone
    <2>1. idx = Len(DevicesConfig) + 1 /\ pc = "create" /\ pc' = "log" /\ idx' = idx
      BY <1>3, DeviceAssumption DEF DevicesDone, DeviceInv, KnownOK
    <2>2. Known = Devices
      BY <2>1, DeviceAssumption DEF DeviceInv, KnownOK, Tried, Devices, ToSet
    <2>3. UNCHANGED <<active, managed, failed, warned>>
      BY <1>3 DEF DevicesDone, deviceVars
    <2> QED BY <2>1, <2>2, <2>3 DEF DeviceInv, RecordOK, ActiveOK, ManagedOK, WarnedOK,
               KnownOK, Known, BootSteps, LoopSteps
  <1>4. CASE CreateDriver
    BY <1>1, <1>2, <1>4 DEF CreateDriver, deviceVars
  <1>5. CASE InitDriver
    BY <1>1, <1>2, <1>5 DEF InitDriver, deviceVars, DeviceInv, KnownOK
  <1> QED BY <1>3, <1>4, <1>5

\* The two passes of the loop that change the record.
LEMMA PassesKept ==
  ASSUME DeviceInv, ReadDevice \/ ReinitDevice \/ RetryDevice
  PROVE  DeviceInv'
  <1>1. CASE ReadDevice \/ ReinitDevice
    <2>1. pc = "read" /\ pc' = pc /\ idx \in 1..Len(active) /\ idx' \in Nat \ {0}
      BY <1>1 DEF ReadDevice, ReinitDevice, InReadPass, NextManaged, DeviceInv, KnownOK
    <2>2. Managed \in DOMAIN managed
      BY <2>1 DEF Managed, DeviceInv, RecordOK, ActiveOK, ToSet
    <2>3. \/ ~ managed[Managed].pending /\ (ReadSucceeds(Managed) \/ ReadFails(Managed))
          \/ managed[Managed].pending
               /\ (ReinitSucceeds(Managed) \/ ReinitExhausted(Managed))
          \/ UNCHANGED deviceVars
      BY <1>1 DEF ReadDevice, ReinitDevice
    <2>4. RecordOK' /\ Known' = Known
      BY <2>2, <2>3, Reads DEF DeviceInv, deviceVars, RecordOK, ActiveOK, ManagedOK,
         WarnedOK, Known
    <2> QED BY <2>1, <2>4 DEF DeviceInv, KnownOK, BootSteps, LoopSteps
  <1>2. CASE RetryDevice
    <2>1. /\ pc = "retry" /\ pc' = pc /\ idx' \in Nat \ {0}
          /\ Device \in DOMAIN failed
          /\ RetrySucceeds(Device) \/ RetryFails(Device)
      BY <1>2 DEF RetryDevice, FailedDevices, DeviceInv, KnownOK
    <2>2. Device \in Devices /\ Device \notin DOMAIN managed
      BY <2>1 DEF DeviceInv, RecordOK, ActiveOK
    <2>3. RecordOK' /\ Known' = Known
      BY <2>1, <2>2, Joins, FailsAgain DEF DeviceInv, Known
    <2> QED BY <2>1, <2>3 DEF DeviceInv, KnownOK, BootSteps, LoopSteps
  <1> QED BY <1>1, <1>2

\* Every other step of startup and loop leaves the record alone.
LEMMA OthersKept ==
  ASSUME DeviceInv,
         \/ LogAdmitted \/ LogRetried \/ LogBounded \/ Anchor \/ Top \/ CheckRead
         \/ ReadPassEnds \/ CheckRetry \/ RetrySkipped \/ RetryPassEnds \/ Activity
         \/ HealthReports \/ HealthNotDue \/ Silence \/ Core1Stops \/ Repaired
         \/ UNCHANGED vars
  PROVE  DeviceInv'
  <1>1. UNCHANGED <<active, managed, failed, warned>>
    BY DEF LogAdmitted, LogRetried, LogBounded, Anchor, Top, CheckRead, ReadPassEnds,
       CheckRetry, RetrySkipped, RetryPassEnds, Activity, HealthReports, HealthNotDue,
       Silence, Core1Stops, Repaired, vars, deviceVars
  <1>2. /\ idx' \in Nat \ {0}
        /\ \/ /\ pc \in LoopSteps \cup {"log", "log_bounded", "anchor"}
              /\ pc' \in LoopSteps \cup {"log", "log_bounded", "anchor"}
           \/ pc' = "stopped"
           \/ pc' = pc /\ idx' = idx
    BY DEF LogAdmitted, LogRetried, LogBounded, Anchor, Top, CheckRead, ReadPassEnds,
       CheckRetry, RetrySkipped, RetryPassEnds, Activity, HealthReports, HealthNotDue,
       Silence, Core1Stops, Repaired, vars, place, DeviceInv, KnownOK, BootSteps, LoopSteps
  <1>3. RecordOK' /\ Known' = Known
    BY <1>1 DEF DeviceInv, RecordOK, ActiveOK, ManagedOK, WarnedOK, Known
  <1>4. KnownOK'
    BY <1>2, <1>3 DEF DeviceInv, KnownOK, Tried, BootSteps, LoopSteps
  <1> QED BY <1>3, <1>4 DEF DeviceInv

\* Startup, passes and resets keep the record.
LEMMA DeviceInvNext == DeviceInv /\ [Next]_vars => DeviceInv'
  <1> SUFFICES ASSUME DeviceInv, [Next]_vars
               PROVE  DeviceInv'
    OBVIOUS
  <1>1. CASE HeartbeatReset
    <2>1. /\ active' = <<>> /\ DOMAIN managed' = {} /\ DOMAIN failed' = {}
          /\ warned' = [d \in Devices |-> 0]
          /\ pc' = "create" /\ idx' = 1
      BY <1>1 DEF HeartbeatReset, DeviceReset
    <2>2. RecordOK'
      BY <2>1 DEF RecordOK, ActiveOK, ManagedOK, WarnedOK, IsInjective, ToSet
    <2>3. KnownOK'
      BY <2>1, DeviceAssumption DEF KnownOK, Known, Tried, BootSteps, LoopSteps
    <2> QED BY <2>2, <2>3 DEF DeviceInv
  <1> QED BY <1>1, BootKept, PassesKept, OthersKept DEF Next, Step

\* For every list of devices, attempts and threshold, and whatever fails and recovers:
\* each device is active exactly once or recorded as failed, waits for reinitialization
\* exactly at the threshold, and is warned about at most once between two successes
\* (device_manager.py).
THEOREM RecordIsSound == Spec => []DeviceRecordSound
  <1>1. ManagedOK => PendingAtThreshold
    BY DEF ManagedOK, SoundRecord, PendingAtThreshold
  <1>2. DeviceInv => DeviceRecordSound
    BY <1>1 DEF DeviceInv, RecordOK, ActiveOK, ManagedOK, WarnedOK, KnownOK, Known,
       DeviceRecordSound, EveryDeviceKept, WarnedOnce, FailedDevices,
       LoopSteps
  <1> QED BY <1>2, DeviceInvInit, DeviceInvNext, PTL DEF Spec
-----------------------------------------------------------------------------
(***************************************************************************)
(* The schedulers.  A deadline and the phase of its grid add up to a       *)
(* multiple of the interval; the deadline is at most an interval ahead;    *)
(* and it lies in the past only once a boundary has passed that no pass    *)
(* has served.                                                             *)
(***************************************************************************)

\* Every integer is a multiple and a remainder.
LEMMA DivSplit ==
  ASSUME NEW i \in Nat \ {0}, NEW x \in Int
  PROVE  \E q \in Int, r \in 0..(i - 1) : x \div i = q /\ x % i = r /\ x = i * q + r
  <1>1. x \div i \in Int /\ x % i \in 0..(i - 1)
    OBVIOUS
  <1>2. x % i = x - i * (x \div i)
    BY SMTT(60)
  <1>3. PICK q \in Int, r \in 0..(i - 1) : q = x \div i /\ r = x % i
    BY <1>1
  <1>4. r = x - i * q /\ i * q \in Int /\ r \in Int
    BY <1>2, <1>3
  <1>5. x = i * q + r
    BY <1>4
  <1> QED BY <1>3, <1>5

\* The remainder is the only one.
LEMMA ModUnique ==
  ASSUME NEW i \in Nat \ {0}, NEW q \in Int, NEW r \in 0..(i - 1)
  PROVE  (i * q + r) % i = r
  OBVIOUS

\* A number below the interval is its own remainder.
LEMMA ModSmall ==
  ASSUME NEW i \in Nat \ {0}, NEW r \in 0..(i - 1)
  PROVE  r % i = r
  <1>1. i * 0 + r = r
    OBVIOUS
  <1> QED BY <1>1, ModUnique

\* A multiple stays one when whole intervals are added.
LEMMA MultipleShift ==
  ASSUME NEW i \in Nat \ {0}, NEW x \in Int, NEW m \in Int, x % i = 0
  PROVE  (x + i * m) % i = 0
  <1>1. PICK q \in Int, r \in 0..(i - 1) : x % i = r /\ x = i * q + r
    BY DivSplit
  <1>2. q + m \in Int /\ i * (q + m) = i * q + i * m
    OBVIOUS
  <1>3. PICK a \in Int, b \in Int : a = i * q /\ b = i * m
    OBVIOUS
  <1>4. x + i * m = i * (q + m) + 0
    <2>1. x = a /\ i * (q + m) = a + b
      BY <1>1, <1>2, <1>3
    <2> QED BY <1>3, <2>1
  <1>5. (i * (q + m) + 0) % i = 0
    <2>1. 0 \in 0..(i - 1) /\ q + m \in Int
      OBVIOUS
    <2> QED BY <2>1, ModUnique
  <1> QED BY <1>4, <1>5

OnSchedule(i, deadline, offset) ==
    /\ offset \in 0..(i - 1)
    /\ (deadline + offset) % i = 0
    /\ deadline <= i

\* Time that passes moves both along the grid.
LEMMA Waits ==
  ASSUME NEW i \in Nat \ {0}, NEW n \in Int, NEW p \in Int, NEW d \in Nat, OnSchedule(i, n, p)
  PROVE  /\ OnSchedule(i, n - d, (p + d) % i)
         /\ n > 0 /\ ~ (p + d >= i) => n - d > 0
  <1>1. p \in 0..(i - 1) /\ (n + p) % i = 0 /\ n <= i
    BY DEF OnSchedule
  <1>2. PICK q \in Int, r \in 0..(i - 1) :
           (p + d) \div i = q /\ (p + d) % i = r /\ p + d = i * q + r
    <2>1. p + d \in Int
      OBVIOUS
    <2> QED BY <2>1, DivSplit
  <1>3. r \in Int /\ - q \in Int /\ i * (- q) = - (i * q) /\ i * q \in Int
    OBVIOUS
  <1>4. (n - d) + r = (n + p) + i * (- q)
    <2>1. PICK a \in Int : a = i * q
      BY <1>3
    <2>2. p + d = a + r /\ i * (- q) = - a
      BY <1>2, <1>3, <2>1
    <2> QED BY <1>3, <2>2
  <1>5. ((n - d) + r) % i = 0
    <2>1. n + p \in Int
      OBVIOUS
    <2>2. ((n + p) + i * (- q)) % i = 0
      BY <1>1, <1>3, <2>1, MultipleShift
    <2> QED BY <1>4, <2>2
  <1>6. OnSchedule(i, n - d, (p + d) % i)
    BY <1>1, <1>2, <1>5 DEF OnSchedule
  <1>7. ASSUME n > 0, ~ (p + d >= i)
        PROVE  n - d > 0
    <2>1. ~ (n + p < i)
      <3>1. ASSUME n + p < i
            PROVE  FALSE
        <4>1. n + p \in 0..(i - 1) /\ n + p # 0
          BY <1>1, <1>7, <3>1
        <4> QED BY <1>1, <4>1, ModSmall
      <3> QED BY <3>1
    <2> QED BY <1>1, <1>7, <2>1
  <1> QED BY <1>6, <1>7

\* The skip loop leaves the grid alone and ends at the first deadline after its clock.
LEMMA Skips ==
  ASSUME NEW s \in Schedulers, Interval[s] \in Nat \ {0}, NEW n \in Int, NEW p \in Int,
         NEW lag \in Nat, OnSchedule(Interval[s], n, p)
  PROVE  /\ Advanced(s, n, lag) \in Int
         /\ OnSchedule(Interval[s], Advanced(s, n, lag), p)
         /\ Advanced(s, n, lag) + lag > 0
  <1> DEFINE i == Interval[s]
  <1>0. i \in Nat \ {0} /\ p \in 0..(i - 1) /\ (n + p) % i = 0 /\ n <= i
    BY DEF OnSchedule
  <1>1. CASE n + lag > 0
    BY <1>1 DEF Advanced
  <1>2. CASE ~ (n + lag > 0)
    <2> DEFINE x == - (n + lag)
    <2>1. x \in Int /\ x = - n - lag
      OBVIOUS
    <2>2. Advanced(s, n, lag) = n + i * (x \div i + 1)
      BY <1>2 DEF Advanced
    <2> HIDE DEF i, x
    <2>i. i \in Nat \ {0} /\ x \in Int
      BY <1>0, <2>1
    <2>3. PICK q \in Int, r \in 0..(i - 1) : x \div i = q /\ x % i = r /\ x = i * q + r
      BY <2>i, DivSplit
    <2>4. PICK a \in Int : a = i * q /\ i * (q + 1) = a + i /\ r \in Int /\ i * (q + 1) \in Int
      BY <1>0
    <2>5. Advanced(s, n, lag) = n + (a + i) /\ x = a + r
      <3>1. Advanced(s, n, lag) = n + i * (q + 1)
        BY <2>2, <2>3
      <3> QED BY <2>3, <2>4, <3>1
    <2>6. Advanced(s, n, lag) = i - r - lag
      BY <1>0, <2>1, <2>4, <2>5
    <2>7. (Advanced(s, n, lag) + p) % i = 0
      <3>1. ((n + p) + i * (q + 1)) % i = 0
        <4>1. n + p \in Int /\ q + 1 \in Int
          OBVIOUS
        <4> QED BY <1>0, <4>1, MultipleShift
      <3>2. Advanced(s, n, lag) + p = (n + p) + i * (q + 1)
        BY <1>0, <2>4, <2>5
      <3> QED BY <3>1, <3>2
    <2>8. /\ Advanced(s, n, lag) \in Int /\ Advanced(s, n, lag) <= i
          /\ Advanced(s, n, lag) + lag > 0
      BY <1>0, <2>4, <2>6
    <2>9. OnSchedule(i, Advanced(s, n, lag), p)
      BY <1>0, <2>7, <2>8 DEF OnSchedule
    <2> QED BY <2>8, <2>9 DEF i
  <1> QED BY <1>1, <1>2

\* The anchor is on every grid.
LEMMA Anchors ==
  ASSUME NEW i \in Nat \ {0}, NEW w \in Nat
  PROVE  OnSchedule(i, i - (w % i), w % i) /\ i - (w % i) > 0 /\ w % i \in Int
  <1>1. w % i \in 0..(i - 1)
    OBVIOUS
  <1>2. PICK r \in 0..(i - 1) : r = w % i
    BY <1>1
  <1>3. r \in Int /\ (i - r) + r = i * 1 + 0 /\ i - r > 0 /\ i - r <= i
    OBVIOUS
  <1>4. ((i - r) + r) % i = 0
    BY <1>3, ModUnique
  <1> QED BY <1>2, <1>3, <1>4 DEF OnSchedule

-----------------------------------------------------------------------------
(* The grids of the loop. *)

\* The retry deadline counts only as long as a device is failed.
Counts(s) == s = "retry" => FailedDevices # {}

Timed ==
    /\ next \in [Schedulers -> Int] /\ phase \in [Schedulers -> Int]
    /\ passed \in [Schedulers -> BOOLEAN] /\ nowAge \in Nat

\* Reports are advanced by an older clock: they keep the grid, not the second conjunct.
Scheduled ==
    \A s \in Schedulers : Counts(s) =>
        /\ OnSchedule(Interval[s], next[s], phase[s])
        /\ s # "health" /\ ~ passed[s] => next[s] > 0

TimerInv == Timed /\ (pc \in LoopSteps => Scheduled)

\* The intervals are positive.
LEMMA Intervals == \A s \in Schedulers : Interval[s] \in Nat \ {0}
  BY Core1Assumption DEF Schedulers, Interval

\* Time that passes in the loop.
LEMMA ElapseKept ==
  ASSUME Timed, Scheduled, NEW d \in Nat, Elapse(d), FailedDevices' # {} => FailedDevices # {}
  PROVE  /\ next' \in [Schedulers -> Int] /\ phase' \in [Schedulers -> Int]
         /\ passed' \in [Schedulers -> BOOLEAN]
         /\ Scheduled'
  <1>1. /\ next' = [s \in Schedulers |-> Deadline(s, next[s] - d)]
        /\ phase' = [s \in Schedulers |-> (phase[s] + d) % Interval[s]]
        /\ passed' = [s \in Schedulers |-> passed[s] \/ Crosses(s, d)]
    BY DEF Elapse, Grids
  <1>2. next' \in [Schedulers -> Int]
    BY <1>1 DEF Deadline, Timed
  <1>3. phase' \in [Schedulers -> Int]
    <2> SUFFICES ASSUME NEW s \in Schedulers
                 PROVE  (phase[s] + d) % Interval[s] \in Int
      BY <1>1
    <2>1. phase[s] + d \in Int /\ Interval[s] \in Nat \ {0}
      BY Intervals DEF Timed
    <2> QED BY <2>1
  <1>4. passed' \in [Schedulers -> BOOLEAN]
    BY <1>1 DEF Crosses
  <1>5. Scheduled'
    <2> SUFFICES ASSUME NEW s \in Schedulers, Counts(s)'
                 PROVE  /\ OnSchedule(Interval[s], next'[s], phase'[s])
                        /\ s # "health" /\ ~ passed'[s] => next'[s] > 0
      BY DEF Scheduled
    <2>1. Counts(s)
      BY DEF Counts
    <2>2. next[s] \in Int /\ phase[s] \in Int /\ Interval[s] \in Nat \ {0}
      BY Intervals DEF Timed
    <2>3. next'[s] = next[s] - d
      BY <1>1 DEF Deadline, Counts
    <2>4. phase'[s] = (phase[s] + d) % Interval[s]
      BY <1>1
    <2>5. ~ passed'[s] => ~ passed[s] /\ ~ (phase[s] + d >= Interval[s])
      BY <1>1 DEF Crosses
    <2>6. /\ OnSchedule(Interval[s], next[s], phase[s])
          /\ s # "health" /\ ~ passed[s] => next[s] > 0
      BY <2>1 DEF Scheduled
    <2>7. /\ OnSchedule(Interval[s], next[s] - d, (phase[s] + d) % Interval[s])
          /\ next[s] > 0 /\ ~ (phase[s] + d >= Interval[s]) => next[s] - d > 0
      BY <2>2, <2>6, Waits
    <2> QED BY <2>3, <2>4, <2>5, <2>6, <2>7
  <1> QED BY <1>2, <1>3, <1>4, <1>5

\* The end of a pass.
LEMMA SkipKept ==
  ASSUME Timed, Scheduled, NEW t \in Schedulers, Skip(t), UNCHANGED failed
  PROVE  Timed' /\ Scheduled'
  <1>1. /\ next' = [next EXCEPT ![t] = Deadline(t, Advanced(t, next[t], 0))]
        /\ passed' = [passed EXCEPT ![t] = FALSE]
        /\ UNCHANGED <<nowAge, phase>>
    BY DEF Skip
  <1>2. next[t] \in Int /\ phase[t] \in Int /\ Interval[t] \in Nat \ {0}
    BY Intervals DEF Timed
  <1>3. Counts(t) => /\ Advanced(t, next[t], 0) \in Int
                     /\ OnSchedule(Interval[t], Advanced(t, next[t], 0), phase[t])
                     /\ Advanced(t, next[t], 0) > 0
    <2> SUFFICES ASSUME Counts(t)
                 PROVE  /\ Advanced(t, next[t], 0) \in Int
                        /\ OnSchedule(Interval[t], Advanced(t, next[t], 0), phase[t])
                        /\ Advanced(t, next[t], 0) > 0
      OBVIOUS
    <2>1. OnSchedule(Interval[t], next[t], phase[t])
      BY DEF Scheduled
    <2>2. /\ Advanced(t, next[t], 0) \in Int
          /\ OnSchedule(Interval[t], Advanced(t, next[t], 0), phase[t])
          /\ Advanced(t, next[t], 0) + 0 > 0
      BY <1>2, <2>1, Skips
    <2> QED BY <2>2
  <1>4. FailedDevices' = FailedDevices
    BY DEF FailedDevices
  <1>5. Deadline(t, Advanced(t, next[t], 0)) =
          IF Counts(t) THEN Advanced(t, next[t], 0) ELSE 0
    BY <1>4 DEF Deadline, Counts
  <1>6. Timed'
    BY <1>1, <1>3, <1>5 DEF Timed
  <1>7. Scheduled'
    <2> SUFFICES ASSUME NEW s \in Schedulers, Counts(s)
                 PROVE  /\ OnSchedule(Interval[s], next'[s], phase'[s])
                        /\ s # "health" /\ ~ passed'[s] => next'[s] > 0
      BY <1>4 DEF Scheduled, Counts
    <2>1. CASE s = t
      BY <1>1, <1>3, <1>5, <2>1 DEF Timed
    <2>2. CASE s # t
      BY <1>1, <2>2 DEF Scheduled, Timed
    <2> QED BY <2>1, <2>2
  <1> QED BY <1>6, <1>7

\* A report, at its boundary or at the anchor.
LEMMA ReportKept ==
  ASSUME Timed, Scheduled, HealthReports
  PROVE  Timed' /\ Scheduled'
  <1>1. PICK w \in Nat :
          /\ next' = [s \in Schedulers |->
                       IF s = "health" /\ ~ initial
                       THEN Advanced(s, next[s] - w, nowAge + w)
                       ELSE Deadline(s, next[s] - w)]
          /\ phase' = [s \in Schedulers |-> (phase[s] + w) % Interval[s]]
          /\ passed' = [s \in Schedulers |->
                         Crosses(s, w) \/ (passed[s] /\ (s # "health" \/ initial))]
    BY Core1Assumption DEF HealthReports, ReportTakes, Grids
  <1>2. nowAge' = 0 /\ FailedDevices' = FailedDevices /\ nowAge \in Nat
    BY DEF HealthReports, deviceVars, FailedDevices, Timed
  <1>3. \A s \in Schedulers : /\ next[s] \in Int /\ phase[s] \in Int
                              /\ Interval[s] \in Nat \ {0} /\ next[s] - w \in Int
                              /\ (phase[s] + w) % Interval[s] \in Int
    <2> SUFFICES ASSUME NEW s \in Schedulers
                 PROVE  /\ next[s] \in Int /\ phase[s] \in Int
                        /\ Interval[s] \in Nat \ {0} /\ next[s] - w \in Int
                        /\ (phase[s] + w) % Interval[s] \in Int
      OBVIOUS
    <2>1. next[s] \in Int /\ phase[s] \in Int /\ Interval[s] \in Nat \ {0}
      BY Intervals DEF Timed
    <2> QED BY <2>1
  <1>4. \A s \in Schedulers : Counts(s) =>
          /\ OnSchedule(Interval[s], next[s] - w, (phase[s] + w) % Interval[s])
          /\ next[s] > 0 /\ ~ (phase[s] + w >= Interval[s]) => next[s] - w > 0
    BY <1>3, Waits DEF Scheduled
  <1>5. "health" \in Schedulers /\ Counts("health")
    BY DEF Schedulers, Counts
  <1>6. /\ Advanced("health", next["health"] - w, nowAge + w) \in Int
        /\ OnSchedule(Interval["health"], Advanced("health", next["health"] - w, nowAge + w),
                      (phase["health"] + w) % Interval["health"])
    <2>1. /\ Interval["health"] \in Nat \ {0} /\ next["health"] - w \in Int
          /\ (phase["health"] + w) % Interval["health"] \in Int /\ nowAge + w \in Nat
          /\ OnSchedule(Interval["health"], next["health"] - w,
                        (phase["health"] + w) % Interval["health"])
      BY <1>2, <1>3, <1>4, <1>5
    <2> QED BY <1>5, <2>1, Skips
  <1>7. Timed'
    <2>1. next' \in [Schedulers -> Int]
      BY <1>1, <1>3, <1>6 DEF Deadline
    <2>2. phase' \in [Schedulers -> Int]
      BY <1>1, <1>3
    <2>3. passed' \in [Schedulers -> BOOLEAN]
      BY <1>1 DEF Crosses
    <2> QED BY <1>2, <2>1, <2>2, <2>3 DEF Timed
  <1>8. Scheduled'
    <2> SUFFICES ASSUME NEW s \in Schedulers, Counts(s)
                 PROVE  /\ OnSchedule(Interval[s], next'[s], phase'[s])
                        /\ s # "health" /\ ~ passed'[s] => next'[s] > 0
      BY <1>2 DEF Scheduled, Counts
    <2>1. phase'[s] = (phase[s] + w) % Interval[s]
      BY <1>1
    <2>2. CASE s = "health" /\ ~ initial
      BY <1>1, <1>6, <2>1, <2>2
    <2>3. CASE ~ (s = "health" /\ ~ initial)
      <3>1. next'[s] = next[s] - w
        BY <1>1, <1>2, <2>3 DEF Deadline, Counts
      <3>2. ~ passed'[s] => ~ passed[s] /\ ~ (phase[s] + w >= Interval[s])
        BY <1>1, <2>3 DEF Crosses
      <3>3. s # "health" /\ ~ passed[s] => next[s] > 0
        BY DEF Scheduled
      <3> QED BY <1>4, <2>1, <3>1, <3>2, <3>3
    <2> QED BY <2>2, <2>3
  <1> QED BY <1>7, <1>8
\* A step that touches neither deadlines nor grids.
LEMMA TimersKept ==
  ASSUME Timed, Scheduled, UNCHANGED <<next, phase, passed>>, nowAge' \in Nat,
         FailedDevices' = FailedDevices
  PROVE  Timed' /\ Scheduled'
  BY DEF Timed, Scheduled, Counts

\* Nothing is scheduled yet, or any more.
LEMMA TimersIdle ==
  ASSUME TimerInv, UNCHANGED timers, pc' \notin LoopSteps
  PROVE  TimerInv'
  BY DEF TimerInv, Timed, timers

\* No deadline is set before the anchor.
LEMMA TimerInvInit == Init => TimerInv
  BY DEF Init, TimerInv, Timed, LoopSteps

\* No failed device appears in the loop.
LEMMA NoneFails ==
  ASSUME ReadDevice \/ ReinitDevice \/ RetryDevice
  PROVE  FailedDevices' # {} => FailedDevices # {}
  <1>1. CASE ReadDevice \/ ReinitDevice
    <2>1. UNCHANGED failed
      BY <1>1 DEF ReadDevice, ReinitDevice, ReadSucceeds, ReadFails, ReinitSucceeds,
         ReinitExhausted, deviceVars
    <2> QED BY <2>1 DEF FailedDevices
  <1>2. CASE RetryDevice
    BY <1>2 DEF RetryDevice, FailedDevices
  <1> QED BY <1>1, <1>2

\* Passes, reports and the time they take keep every deadline on its grid.
LEMMA TimerInvNext == TimerInv /\ [Next]_vars => TimerInv'
  <1> SUFFICES ASSUME TimerInv, [Next]_vars
               PROVE  TimerInv'
    OBVIOUS
  <1>0. Timed
    BY DEF TimerInv
  <1>1. CASE CreateDriver \/ InitDriver
    <2>1. UNCHANGED timers /\ pc' \in {"create", "init"}
      BY <1>1 DEF CreateDriver, InitDriver, NextDevice
    <2> QED BY <2>1, TimersIdle DEF LoopSteps
  <1>2. CASE DevicesDone \/ LogAdmitted \/ LogRetried \/ LogBounded
    <2>1. UNCHANGED timers /\ pc' \in {"log", "log_bounded", "anchor"}
      BY <1>2 DEF DevicesDone, LogAdmitted, LogRetried, LogBounded, Ages
    <2> QED BY <2>1, TimersIdle DEF LoopSteps
  <1>3. CASE Anchor
    <2>1. PICK w \in Nat :
            /\ phase' = [s \in Schedulers |-> w % Interval[s]]
            /\ next' = [s \in Schedulers |-> Deadline(s, Interval[s] - (w % Interval[s]))]
      BY <1>3, Core1Assumption DEF Anchor
    <2>2. nowAge' = 0 /\ passed' = [s \in Schedulers |-> FALSE]
      BY <1>3 DEF Anchor
    <2>3. \A s \in Schedulers :
            /\ OnSchedule(Interval[s], Interval[s] - (w % Interval[s]), w % Interval[s])
            /\ Interval[s] - (w % Interval[s]) > 0 /\ w % Interval[s] \in Int
            /\ Interval[s] \in Int
      <3> SUFFICES ASSUME NEW s \in Schedulers
                   PROVE  /\ OnSchedule(Interval[s], Interval[s] - (w % Interval[s]),
                                        w % Interval[s])
                          /\ Interval[s] - (w % Interval[s]) > 0 /\ w % Interval[s] \in Int
                          /\ Interval[s] \in Int
        OBVIOUS
      <3>1. Interval[s] \in Nat \ {0}
        BY Intervals
      <3>2. PICK i \in Nat \ {0} : i = Interval[s]
        BY <3>1
      <3>3. OnSchedule(i, i - (w % i), w % i) /\ i - (w % i) > 0 /\ w % i \in Int
        BY Anchors, Zenon
      <3> QED BY <3>2, <3>3
    <2>4. Timed'
      <3>1. next' \in [Schedulers -> Int]
        <4>1. \A s \in Schedulers : Interval[s] - (w % Interval[s]) \in Int
          BY <2>3
        <4> QED BY <2>1, <4>1 DEF Deadline
      <3>2. phase' \in [Schedulers -> Int] /\ passed' \in [Schedulers -> BOOLEAN]
        BY <2>1, <2>2, <2>3
      <3> QED BY <2>2, <3>1, <3>2 DEF Timed
    <2>5. Scheduled'
      <3> SUFFICES ASSUME NEW s \in Schedulers, Counts(s)'
                   PROVE  OnSchedule(Interval[s], next'[s], phase'[s]) /\ next'[s] > 0
        BY DEF Scheduled
      <3>1. next'[s] = Interval[s] - (w % Interval[s]) /\ phase'[s] = w % Interval[s]
        BY <2>1 DEF Deadline, Counts
      <3> QED BY <2>3, <3>1
    <2> QED BY <2>4, <2>5 DEF TimerInv
  <1>4. CASE Top
    <2>1. PICK d \in Nat : Elapse(d)
      BY <1>4, Core1Assumption DEF Top
    <2>2. /\ Scheduled /\ nowAge' = 0 /\ FailedDevices' = FailedDevices
      BY <1>4 DEF Top, TimerInv, LoopSteps, deviceVars, FailedDevices
    <2>3. Timed' /\ Scheduled'
      BY <1>0, <2>1, <2>2, ElapseKept DEF Timed
    <2> QED BY <2>3 DEF TimerInv
  <1>5. CASE CheckRead \/ CheckRetry \/ RetrySkipped \/ Activity \/ HealthNotDue
    <2>1. /\ UNCHANGED <<next, phase, passed>> /\ nowAge' \in {nowAge, 0}
          /\ FailedDevices' = FailedDevices
      BY <1>5 DEF CheckRead, CheckRetry, RetrySkipped, Activity, HealthNotDue, timers,
         deviceVars, FailedDevices
    <2>2. Scheduled
      BY <1>5 DEF CheckRead, CheckRetry, RetrySkipped, Activity, HealthNotDue, TimerInv, LoopSteps
    <2>3. nowAge' \in Nat
      BY <1>0, <2>1 DEF Timed
    <2> QED BY <1>0, <2>1, <2>2, <2>3, TimersKept DEF TimerInv
  <1>6. CASE ReadDevice \/ ReinitDevice \/ RetryDevice
    <2>1. PICK d \in Nat : Runs(d)
      <3>1. CASE ReadDevice
        BY <3>1, Core1Assumption DEF ReadDevice
      <3>2. CASE ReinitDevice
        BY <3>2, Core1Assumption DEF ReinitDevice
      <3>3. CASE RetryDevice
        BY <3>3, Core1Assumption DEF RetryDevice
      <3> QED BY <1>6, <3>1, <3>2, <3>3
    <2>2. Scheduled
      BY <1>6 DEF ReadDevice, ReinitDevice, RetryDevice, InReadPass, TimerInv, LoopSteps
    <2>3. Elapse(d) /\ nowAge' \in Nat
      BY <1>0, <2>1 DEF Runs, Timed
    <2>4. FailedDevices' # {} => FailedDevices # {}
      BY <1>6, NoneFails
    <2>5. Timed' /\ Scheduled'
      BY <1>0, <2>2, <2>3, <2>4, ElapseKept DEF Timed
    <2> QED BY <2>5 DEF TimerInv
  <1>7. CASE ReadPassEnds
    <2>1. Scheduled /\ UNCHANGED failed
      BY <1>7 DEF ReadPassEnds, TimerInv, LoopSteps, deviceVars
    <2>2. CASE initial
      <3>1. UNCHANGED timers
        BY <1>7, <2>2 DEF ReadPassEnds
      <3>2. /\ UNCHANGED <<next, phase, passed>> /\ nowAge' \in Nat
            /\ FailedDevices' = FailedDevices
        BY <1>0, <2>1, <3>1 DEF timers, Timed, FailedDevices
      <3> QED BY <1>0, <2>1, <3>2, TimersKept DEF TimerInv
    <2>3. CASE ~ initial
      <3>1. Skip("read") /\ "read" \in Schedulers
        BY <1>7, <2>3 DEF ReadPassEnds, Schedulers
      <3> QED BY <1>0, <2>1, <3>1, SkipKept DEF TimerInv
    <2> QED BY <2>2, <2>3
  <1>8. CASE RetryPassEnds
    <2>1. Scheduled /\ UNCHANGED failed /\ Skip("retry") /\ "retry" \in Schedulers
      BY <1>8 DEF RetryPassEnds, TimerInv, LoopSteps, deviceVars, Schedulers
    <2> QED BY <1>0, <2>1, SkipKept DEF TimerInv
  <1>9. CASE HealthReports
    <2>1. Scheduled
      BY <1>9 DEF HealthReports, TimerInv, LoopSteps
    <2> QED BY <1>0, <1>9, <2>1, ReportKept DEF TimerInv
  <1>10. CASE Silence \/ Core1Stops
    <2>1. UNCHANGED timers /\ pc' = "stopped"
      BY <1>10 DEF Silence, Core1Stops, place
    <2> QED BY <2>1, TimersIdle DEF LoopSteps
  <1>11. CASE HeartbeatReset
    BY <1>11 DEF HeartbeatReset, TimerInv, Timed, LoopSteps
  <1>12. CASE Repaired \/ UNCHANGED vars
    <2>1. UNCHANGED <<next, phase, passed, nowAge, failed, pc>>
      BY <1>12 DEF Repaired, vars, timers, place, deviceVars
    <2> QED BY <2>1 DEF TimerInv, Timed, Scheduled, Counts, FailedDevices
  <1> QED BY <1>1, <1>2, <1>3, <1>4, <1>5, <1>6, <1>7, <1>8, <1>9, <1>10, <1>11, <1>12
          DEF Next, Step

\* The invariant of the schedulers.
LEMMA TimersInvariant == Spec => []TimerInv
  BY TimerInvInit, TimerInvNext, PTL DEF Spec

\* For every interval and however long the passes take, read, retry and health deadlines
\* stay on the grid of the anchor and never lie more than an interval ahead (the skip loops
\* of core1_main add whole intervals).
THEOREM DeadlinesOnGrid == Spec => []OnGrid
  <1>1. TimerInv => OnGrid
    BY DEF TimerInv, Scheduled, OnGrid, OnSchedule, Counts, Schedulers
  <1> QED BY <1>1, TimersInvariant, PTL

\* A read pass or a retry pass begins only if a boundary has passed since the end of the
\* previous one: the boundaries missed during a long pass are skipped, not replayed.
THEOREM PassesAreNotReplayed == Spec => NotReplayed
  <1> DEFINE Justified == /\ pc = "check_read" /\ pc' = "read" => passed["read"]
                          /\ pc = "check_retry" /\ pc' = "retry" => passed["retry"]
  <1>1. TimerInv /\ [Next]_vars => [Justified]_vars
    <2> SUFFICES ASSUME TimerInv, Next
                 PROVE  Justified
      OBVIOUS
    <2>1. CASE CheckRead
      <3>1. Due("read") => next["read"] <= 0
        BY <2>1 DEF Due, TimerInv, Timed, Schedulers
      <3>2. ~ passed["read"] => next["read"] > 0
        BY <2>1 DEF CheckRead, TimerInv, Scheduled, Counts, Schedulers, LoopSteps
      <3>3. next["read"] \in Int
        BY DEF TimerInv, Timed, Schedulers
      <3>4. pc = "check_read" /\ (pc' = "read" => Due("read"))
        BY <2>1 DEF CheckRead
      <3> QED BY <3>1, <3>2, <3>3, <3>4
    <2>2. CASE CheckRetry
      <3>1. Due("retry") => next["retry"] <= 0
        BY <2>2 DEF Due, TimerInv, Timed, Schedulers
      <3>2. FailedDevices # {} /\ ~ passed["retry"] => next["retry"] > 0
        BY <2>2 DEF CheckRetry, TimerInv, Scheduled, Counts, Schedulers, LoopSteps
      <3>3. next["retry"] \in Int
        BY DEF TimerInv, Timed, Schedulers
      <3>4. pc = "check_retry" /\ (pc' = "retry" => FailedDevices # {} /\ Due("retry"))
        BY <2>2 DEF CheckRetry
      <3> QED BY <3>1, <3>2, <3>3, <3>4
    <2>3. CASE ~ CheckRead /\ ~ CheckRetry
      <3>1. ~ (pc = "check_read" /\ pc' = "read") /\ ~ (pc = "check_retry" /\ pc' = "retry")
        <4>1. CASE CreateDriver \/ InitDriver \/ DevicesDone \/ LogAdmitted \/ LogRetried
                   \/ LogBounded \/ Anchor \/ Top
          BY <4>1 DEF CreateDriver, InitDriver, DevicesDone, LogAdmitted, LogRetried,
             LogBounded, Anchor, Top
        <4>2. CASE ReadDevice \/ ReinitDevice \/ ReadPassEnds \/ RetryDevice \/ RetrySkipped
                   \/ RetryPassEnds \/ Activity \/ HealthReports \/ HealthNotDue
          BY <4>2 DEF ReadDevice, ReinitDevice, InReadPass, ReadPassEnds, RetryDevice,
             RetrySkipped, RetryPassEnds, Activity, HealthReports, HealthNotDue
        <4>3. CASE Silence \/ HeartbeatReset \/ Core1Stops \/ Repaired
          BY <4>3 DEF Silence, HeartbeatReset, Core1Stops, Repaired, place
        <4> QED BY <2>3, <4>1, <4>2, <4>3 DEF Next, Step
      <3> QED BY <3>1
    <2> QED BY <2>1, <2>2, <2>3
  <1> QED BY <1>1, TimersInvariant, PTL DEF Spec, NotReplayed
=============================================================================
