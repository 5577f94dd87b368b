---------------------------- MODULE DeviceManager ----------------------------
(***************************************************************************)
(* The device lifecycle of device_manager.py: initialization at boot, read *)
(* failures, reinitialization of a device whose reads keep failing, and    *)
(* the late retry of a device that failed at boot.                         *)
(*                                                                         *)
(* One operator per outcome of a driver call, with all the bookkeeping the *)
(* code does on it; Core1 says when they happen and how long they take.    *)
(* Read counts, ages and attempt counts are reported and never read back,  *)
(* so they are left out.                                                   *)
(***************************************************************************)
EXTENDS Naturals, Sequences, FiniteSets, SequencesExt

CONSTANTS
    DevicesConfig,  \* config["devices"]: the device ids, in order
    Attempts,       \* device_initialization_attempts
    Threshold       \* device_read_failure_threshold

Devices == ToSet(DevicesConfig)

\* config.py: ids are unique, the two bounds are positive integers.
ASSUME DeviceAssumption ==
    /\ DOMAIN DevicesConfig = 1..Len(DevicesConfig) /\ Len(DevicesConfig) \in Nat
    /\ IsInjective(DevicesConfig)
    /\ Attempts \in Nat \ {0}
    /\ Threshold \in Nat \ {0}

VARIABLES
    active,   \* _active_devices: ids, in the order they were added
    managed,  \* the ManagedDevice of each of them
    failed,   \* _failed_devices: retry_failure_logged of each
    warned    \* history: warnings since the last success of the device

deviceVars == <<active, managed, failed, warned>>

\* failures: consecutive_read_failures; pending: reinitialize_pending (and state);
\* logged: reinit_failure_logged.
ManagedType == [failures : 0..Threshold, pending : BOOLEAN, logged : BOOLEAN]

NewManaged == [failures |-> 0, pending |-> FALSE, logged |-> FALSE]

DeviceTypeOK ==
    /\ active \in Seq(Devices)
    /\ DOMAIN managed \subseteq Devices /\ \A d \in DOMAIN managed : managed[d] \in ManagedType
    /\ DOMAIN failed \subseteq Devices /\ \A d \in DOMAIN failed : failed[d] \in BOOLEAN
    /\ warned \in [Devices -> Nat]

DeviceInit ==
    /\ active = <<>>
    /\ managed = [d \in {} |-> NewManaged]
    /\ failed = [d \in {} |-> FALSE]
    /\ warned = [d \in Devices |-> 0]

\* A reset of the board: all of it is in RAM.
DeviceReset ==
    /\ active' = <<>>
    /\ managed' = [d \in {} |-> NewManaged]
    /\ failed' = [d \in {} |-> FALSE]
    /\ warned' = [d \in Devices |-> 0]

FailedDevices == DOMAIN failed

With(f, d, value) == [x \in DOMAIN f \cup {d} |-> IF x = d THEN value ELSE f[x]]
Without(f, d) == [x \in DOMAIN f \ {d} |-> f[x]]

Warn(d, really) == warned' = IF really THEN [warned EXCEPT ![d] = @ + 1] ELSE warned

\* _record_success
RecordSuccess(d) ==
    /\ active' = Append(active, d)
    /\ managed' = With(managed, d, NewManaged)
    /\ UNCHANGED <<failed, warned>>

\* _record_driver_failure, _record_initialization_failure
RecordFailure(d) ==
    /\ failed' = With(failed, d, FALSE)
    /\ UNCHANGED <<active, managed, warned>>

\* _process_normal_read, telemetry in hand
ReadSucceeds(d) ==
    /\ managed' = [managed EXCEPT ![d].failures = 0]
    /\ warned' = [warned EXCEPT ![d] = 0]
    /\ UNCHANGED <<active, failed>>

\* _process_normal_read, OSError
ReadFails(d) ==
    /\ managed' = [managed EXCEPT ![d].failures = @ + 1,
                                  ![d].pending = managed[d].failures + 1 >= Threshold]
    /\ UNCHANGED <<active, failed, warned>>

\* _process_reinitialization: clear_reinitialize_pending
ReinitSucceeds(d) ==
    /\ managed' = [managed EXCEPT ![d] = NewManaged]
    /\ warned' = [warned EXCEPT ![d] = 0]
    /\ UNCHANGED <<active, failed>>

\* mutant: a device that could not be reinitialized is given up
ReinitExhausted_removed(d) ==
    /\ Warn(d, ~ managed[d].logged)
    /\ managed' = Without(managed, d)
    /\ active' = SelectSeq(active, LAMBDA x : x # d)
    /\ UNCHANGED failed

\* _process_reinitialization: all attempts exhausted
ReinitExhausted(d) ==
    /\ Warn(d, ~ managed[d].logged)
    /\ managed' = [managed EXCEPT ![d].logged = TRUE]
    /\ UNCHANGED <<active, failed>>

\* mutant: the failure record outlives the recovery
RetrySucceeds_kept(d) ==
    /\ active' = Append(active, d)
    /\ managed' = With(managed, d, NewManaged)
    /\ warned' = [warned EXCEPT ![d] = 0]
    /\ UNCHANGED failed

\* retry_failed_devices: promoted
RetrySucceeds(d) ==
    /\ active' = Append(active, d)
    /\ managed' = With(managed, d, NewManaged)
    /\ failed' = Without(failed, d)
    /\ warned' = [warned EXCEPT ![d] = 0]

\* retry_failed_devices: constructor or initialize() failed once more
RetryFails(d) ==
    /\ Warn(d, ~ failed[d])
    /\ failed' = [failed EXCEPT ![d] = TRUE]
    /\ UNCHANGED <<active, managed>>

Ready(d) == d \in DOMAIN managed /\ ~ managed[d].pending
=============================================================================
