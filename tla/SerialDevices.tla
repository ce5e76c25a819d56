---------------------------- MODULE SerialDevices ----------------------------
(***************************************************************************)
(* The refresh of the serial device list: enumerate_with_worker_slot       *)
(* (apps/desktop/src-tauri/src/serial.rs).  The operating system may take  *)
(* its time to enumerate devices, longer than the caller waits.            *)
(***************************************************************************)
EXTENDS Naturals, FiniteSets

CONSTANTS
    Requests,  \* invocations of list_devices
    Slots      \* SERIAL_ENUMERATION_WORKERS

ASSUME SlotsAssumption == Slots \in Nat \ {0} /\ IsFiniteSet(Requests)

VARIABLES
    lister,  \* what each caller knows
    worker,   \* the blocking worker of each call
    free      \* permits of the semaphore

listVars == <<lister, worker, free>>

ListTypeOK ==
    /\ lister \in [Requests -> {"new", "waiting", "listed", "failed", "late", "refused"}]
    /\ worker \in [Requests -> {"none", "working", "listed", "failed"}]
    /\ free \in 0..Slots

ListInit ==
    /\ lister = [q \in Requests |-> "new"]
    /\ worker = [q \in Requests |-> "none"]
    /\ free = Slots

\* try_acquire_owned, then the worker is spawned with the permit.
Refresh(q) ==
    /\ lister[q] = "new"
    /\ IF free > 0
       THEN /\ free' = free - 1
            /\ lister' = [lister EXCEPT ![q] = "waiting"]
            /\ worker' = [worker EXCEPT ![q] = "working"]
       ELSE /\ lister' = [lister EXCEPT ![q] = "refused"]
            /\ UNCHANGED <<worker, free>>

\* The worker returns, with the list or an error, and gives up its permit.
Enumerate(q) ==
    /\ worker[q] = "working"
    /\ \E outcome \in {"listed", "failed"} : worker' = [worker EXCEPT ![q] = outcome]
    /\ free' = free + 1
    /\ UNCHANGED lister

Answer(q) ==
    /\ lister[q] = "waiting"
    /\ worker[q] \in {"listed", "failed"}
    /\ lister' = [lister EXCEPT ![q] = worker[q]]
    /\ UNCHANGED <<worker, free>>

\* Fault: the permit belongs to the caller.
ExpireFrees(q) ==
    /\ lister[q] = "waiting"
    /\ lister' = [lister EXCEPT ![q] = "late"]
    /\ worker' = worker
    /\ free' = IF worker[q] = "working" THEN free + 1 ELSE free

\* SERIAL_ENUMERATION_TIMEOUT: the worker goes on without its caller.
Expire(q) ==
    /\ lister[q] = "waiting"
    /\ lister' = [lister EXCEPT ![q] = "late"]
    /\ UNCHANGED <<worker, free>>

ListNext == \E q \in Requests : Refresh(q) \/ Enumerate(q) \/ Answer(q) \/ Expire(q)

ListSpec == ListInit /\ [][ListNext]_listVars

\* ADR 0016: "A timed-out blocking worker keeps that slot until it exits, so
\* repeated refreshes cannot accumulate detached workers", and a worker that
\* has exited keeps none.
SlotsAccounted ==
    free + Cardinality({q \in Requests : worker[q] = "working"}) = Slots
=============================================================================
