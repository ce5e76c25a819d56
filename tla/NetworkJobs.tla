----------------------------- MODULE NetworkJobs -----------------------------
(***************************************************************************)
(* NetworkManager (network.rs) and mobarust-network: port scans, and pings *)
(* and traceroutes run as system commands, each with a watch channel that  *)
(* cancels it.                                                             *)
(***************************************************************************)
EXTENDS Integers, FiniteSets

CONSTANTS
    Operations, Scans,    \* scans, and the others are diagnostics
    Limit,                \* MAX_CONCURRENT_OPERATIONS, of each registry
    Ports,                \* bound: start and end port of a scan
    MaxPort,              \* u16::MAX
    Concurrency

ASSUME NetworkAssumption ==
    Scans \subseteq Operations /\ IsFiniteSet(Operations) /\ Limit \in Nat

\* PortScanOptions::validate.
ASSUME ScanAssumption ==
    /\ Concurrency \in Nat \ {0} /\ MaxPort \in Nat
    /\ Ports \subseteq {range \in [start : 1..MaxPort, end : 1..MaxPort] : range.start <= range.end}

VARIABLES
    job,        \* "new", "refused", "registered", "running", "told" or "over"
    signal,     \* the watch value of an operation
    ports,      \* of a scan: start and end
    next,       \* next_port, 0 for None
    checks, results, \* ports in flight, and those answered (with how often)
    process,    \* of a diagnostic: "none", "running" or "gone"
    outcome     \* the final event: "none", "completed", "cancelled" or "failed"

networkVars == <<job, signal, ports, next, checks, results, process, outcome>>
scanVars == <<ports, next, checks, results>>

Registered(ops) == {o \in ops : job[o] \in {"registered", "running", "told"}}
Registry(o) == IF o \in Scans THEN Scans ELSE Operations \ Scans

NetworkTypeOK ==
    /\ job \in [Operations -> {"new", "refused", "registered", "running", "told", "over"}]
    /\ signal \in [Operations -> BOOLEAN]
    /\ ports \in [Scans -> Ports]
    /\ next \in [Scans -> 0..MaxPort]
    /\ checks \in [Scans -> SUBSET (0..MaxPort)]
    /\ results \in [Scans -> [0..MaxPort -> 0..2]]
    /\ process \in [Operations -> {"none", "running", "gone"}]
    /\ outcome \in [Operations -> {"none", "completed", "cancelled", "failed"}]

NetworkInit ==
    /\ job = [o \in Operations |-> "new"]
    /\ signal = [o \in Operations |-> FALSE]
    /\ ports \in [Scans -> Ports]
    /\ next = [s \in Scans |-> ports[s].start]
    /\ checks = [s \in Scans |-> {}]
    /\ results = [s \in Scans |-> [p \in 0..MaxPort |-> 0]]
    /\ process = [o \in Operations |-> "none"]
    /\ outcome = [o \in Operations |-> "none"]

-----------------------------------------------------------------------------
\* Fault: what has been registered but not begun does not count.
AdmitsUnbegun(o) == Cardinality({p \in Registry(o) : job[p] \in {"running", "told"}}) < Limit

\* register_operation, and the running event.
Admits(o) == Cardinality(Registered(Registry(o))) < Limit

StartOperation(o) ==
    /\ job[o] = "new"
    /\ job' = [job EXCEPT ![o] = IF Admits(o) THEN "registered" ELSE "refused"]
    /\ UNCHANGED <<signal, scanVars, process, outcome>>

\* cancel_scan and cancel_diagnostic.
Cancel(o) ==
    /\ o \in Registered(Operations) /\ ~signal[o]
    /\ signal' = [signal EXCEPT ![o] = TRUE]
    /\ UNCHANGED <<job, scanVars, process, outcome>>

Tells(o, how) ==
    /\ job' = [job EXCEPT ![o] = "told"]
    /\ outcome' = [outcome EXCEPT ![o] = how]

Unregister(o) ==
    /\ job[o] = "told"
    /\ job' = [job EXCEPT ![o] = "over"]
    /\ UNCHANGED <<signal, scanVars, process, outcome>>

-----------------------------------------------------------------------------
\* Scans.

\* Fault: the port after the last one is the first.
NextPortWraps(p) == IF p = MaxPort THEN 1 ELSE p + 1

\* checked_add at the last port there is.
NextPort(p) == IF p = MaxPort THEN 0 ELSE p + 1

\* schedule_ports, as a whole: from the first port on, those there is room for.
Schedules(s, flying, first) ==
    LET full == first + Concurrency - Cardinality(flying) - 1
        last == IF full < ports[s].end THEN full ELSE ports[s].end
    IN IF first = 0 \/ last < first
       THEN checks' = [checks EXCEPT ![s] = flying] /\ UNCHANGED next
       ELSE /\ checks' = [checks EXCEPT ![s] = flying \cup first..last]
            /\ next' = [next EXCEPT ![s] = NextPort(last)]

BeginScan(s) ==
    /\ job[s] = "registered"
    /\ IF signal[s] THEN Tells(s, "cancelled") /\ UNCHANGED <<next, checks>>
       ELSE /\ job' = [job EXCEPT ![s] = "running"]
            /\ Schedules(s, {}, next[s])
            /\ UNCHANGED outcome
    /\ UNCHANGED <<signal, ports, results, process>>

\* check_tcp answers (in time, or that it timed out), and its result is reported.
PortChecked(s) ==
    /\ job[s] = "running"
    /\ \E p \in checks[s] :
          /\ results' = [results EXCEPT ![s][p] = @ + 1]
          /\ Schedules(s, checks[s] \ {p}, next[s])
    /\ UNCHANGED <<job, signal, ports, process, outcome>>

ScanEnds(s) ==
    /\ job[s] = "running"
    /\ \/ checks[s] = {} /\ Tells(s, "completed")
       \/ checks[s] # {} /\ signal[s] /\ Tells(s, "cancelled")
       \/ checks[s] # {} /\ Tells(s, "failed")
    /\ checks' = [checks EXCEPT ![s] = {}]
    /\ UNCHANGED <<signal, ports, next, results, process>>

-----------------------------------------------------------------------------
\* Diagnostics: run_diagnostic_command.

BeginDiagnostic(o) ==
    /\ job[o] = "registered"
    /\ \/ signal[o] /\ Tells(o, "cancelled") /\ UNCHANGED process
       \/ ~signal[o] /\ Tells(o, "failed") /\ UNCHANGED process
       \/ /\ ~signal[o]
          /\ job' = [job EXCEPT ![o] = "running"]
          /\ process' = [process EXCEPT ![o] = "running"]
          /\ UNCHANGED outcome
    /\ UNCHANGED <<signal, scanVars>>

\* Fault: the process is left to itself.
Abandoned(o) == UNCHANGED process

\* kill_on_drop: a command that is not waited for does not outlive its operation.
Dropped(o) == process' = [process EXCEPT ![o] = "gone"]

\* The command ends, or is too verbose; it is cancelled; its deadline passes.
DiagnosticEnds(o) ==
    /\ job[o] = "running"
    /\ \/ \E how \in {"completed", "failed"} :
             Tells(o, how) /\ process' = [process EXCEPT ![o] = "gone"]
       \/ signal[o] /\ Tells(o, "cancelled") /\ Dropped(o)
       \/ Tells(o, "failed") /\ Dropped(o)
    /\ UNCHANGED <<signal, scanVars>>

-----------------------------------------------------------------------------
Proceeds(o) ==
    \/ o \in Scans /\ (BeginScan(o) \/ PortChecked(o) \/ ScanEnds(o))
    \/ o \notin Scans /\ (BeginDiagnostic(o) \/ DiagnosticEnds(o))
    \/ Unregister(o)

NetworkNext ==
    \E o \in Operations : StartOperation(o) \/ Cancel(o) \/ Proceeds(o)

NetworkSpec == NetworkInit /\ [][NetworkNext]_networkVars

\* Every check and every command has its deadline.
NetworkFairness == \A o \in Operations : WF_networkVars(Proceeds(o))

-----------------------------------------------------------------------------
\* A scan that says it completed has checked every port of its range, up to the last
\* there is, once; it never has more than its concurrency in flight, and none when over.
ScansAreExact ==
    \A s \in Scans :
        /\ Cardinality(checks[s]) <= Concurrency
        /\ \A p \in 0..MaxPort : results[s][p] <= IF p \in ports[s].start..ports[s].end THEN 1 ELSE 0
        /\ outcome[s] = "completed" => \A p \in ports[s].start..ports[s].end : results[s][p] = 1
        /\ outcome[s] # "none" => checks[s] = {}

\* The registries stay within their limit, and no operation is over before it told how,
\* nor leaves a process behind.
NetworkIsBounded ==
    /\ \A o \in Operations : Cardinality(Registered(Registry(o))) <= Limit
    /\ \A o \in Operations : job[o] = "over" => outcome[o] # "none" /\ process[o] # "running"

\* Nobody is registered for ever: an operation is made once, so that whatever was started
\* comes to its end if again and again none is on its way.
NetworkAtRest == \A o \in Operations : job[o] \in {"new", "refused", "over"}
NetworkEnds == []<>NetworkAtRest
=============================================================================
