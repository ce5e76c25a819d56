--------------------------- MODULE ServicesProofs ---------------------------
(***************************************************************************)
(* What the parts of the backend besides its sessions keep to.  Network    *)
(* operations and the list of serial devices: the ports of a scan, each    *)
(* checked once, for any range and concurrency; the limit of each registry *)
(* and the slots of the device list, for any number of operations.  Stores *)
(* and the vault: their files, for any records, limits and passphrases,    *)
(* wherever a write fails or the process ends.  The matching of a host     *)
(* with any pattern, the import of any OpenSSH configuration and what      *)
(* becomes of any request for a remote desktop.                            *)
(***************************************************************************)
EXTENDS MCServices, RemoteDesktopProofs, FiniteSetTheorems, SequenceTheorems,
        WellFoundedInduction, TLAPS


-----------------------------------------------------------------------------
\* Registries and processes.

Jobs == {"new", "refused", "registered", "running", "told", "over"}
Outcomes == {"none", "completed", "cancelled", "failed"}

ControlTypes ==
    /\ job \in [Operations -> Jobs]
    /\ process \in [Operations -> {"none", "running", "gone"}]
    /\ outcome \in [Operations -> Outcomes]

\* Both registries keep their limit.
WithinLimit == \A o \in Operations : Cardinality(Registered(Registry(o))) <= Limit

\* A process runs while its diagnostic does, and who has told the end told how.
EndsAgree ==
    \A o \in Operations :
        /\ process[o] = "running" => job[o] = "running" /\ o \notin Scans
        /\ job[o] \in {"told", "over"} => outcome[o] # "none"

NetworkInductive == ControlTypes /\ WithinLimit /\ EndsAgree

-----------------------------------------------------------------------------
LEMMA RegistriesAreFinite ==
    ASSUME NEW o \in Operations
    PROVE  /\ Registry(o) \subseteq Operations
           /\ IsFiniteSet(Registered(Registry(o)))
           /\ Cardinality(Registered(Registry(o))) \in Nat
<1>1. Registry(o) \subseteq Operations
    BY NetworkAssumption DEF Registry
<1>2. Registered(Registry(o)) \subseteq Operations
    BY <1>1 DEF Registered
<1>3. IsFiniteSet(Registered(Registry(o)))
    BY <1>2, NetworkAssumption, FS_Subset
<1> QED
    BY <1>1, <1>3, FS_CardinalityType

\* A step that registers nobody keeps the limit.
LEMMA LimitStays ==
    ASSUME ControlTypes, WithinLimit, NEW p \in Operations,
           \A q \in Operations : q # p => job'[q] = job[q],
           job'[p] \in {"registered", "running", "told"} => job[p] \in {"registered", "running", "told"}
    PROVE  WithinLimit'
<1> SUFFICES ASSUME NEW o \in Operations
             PROVE  Cardinality(Registered(Registry(o))') <= Limit
    BY DEF WithinLimit, Registry
<1>1. Registered(Registry(o))' \subseteq Registered(Registry(o))
    BY RegistriesAreFinite DEF Registered, Registry
<1>2. Cardinality(Registered(Registry(o))') <= Cardinality(Registered(Registry(o)))
    BY <1>1, RegistriesAreFinite, FS_Subset
<1>3. IsFiniteSet(Registered(Registry(o))')
    BY <1>1, RegistriesAreFinite, FS_Subset
<1>4. Cardinality(Registered(Registry(o))') \in Nat
    BY <1>3, FS_CardinalityType
<1> QED
    BY <1>2, <1>4, RegistriesAreFinite, NetworkAssumption DEF WithinLimit

LEMMA StartKeeps ==
    ASSUME NetworkInductive, NEW p \in Operations, StartOperation(p)
    PROVE  NetworkInductive'
<1>1. ControlTypes /\ WithinLimit /\ EndsAgree
    BY DEF NetworkInductive
<1>2. ControlTypes'
    BY <1>1 DEF ControlTypes, StartOperation, Jobs
<1>3. EndsAgree'
    BY <1>1 DEF ControlTypes, EndsAgree, StartOperation
<1>4. CASE Admits(p)
  <2>1. job' = [job EXCEPT ![p] = "registered"] /\ job[p] = "new"
    BY <1>4 DEF StartOperation
  <2> SUFFICES ASSUME NEW o \in Operations
               PROVE  Cardinality(Registered(Registry(o))') <= Limit
    BY <1>2, <1>3 DEF NetworkInductive, WithinLimit, Registry
  <2>2. CASE p \in Registry(o)
    <3>1. Registry(o) = Registry(p)
      BY <2>2 DEF Registry
    <3>2. p \notin Registered(Registry(o))
      BY <2>1 DEF Registered
    <3>3. Registered(Registry(o))' = Registered(Registry(o)) \cup {p}
      BY <1>1, <2>1, <2>2, RegistriesAreFinite DEF Registered, Registry, ControlTypes
    <3>4. Cardinality(Registered(Registry(o))') = Cardinality(Registered(Registry(o))) + 1
      BY <3>2, <3>3, RegistriesAreFinite, FS_AddElement
    <3> QED
      BY <1>4, <3>1, <3>4, RegistriesAreFinite, NetworkAssumption DEF Admits
  <2>3. CASE p \notin Registry(o)
    <3>1. Registered(Registry(o))' = Registered(Registry(o))
      BY <1>1, <2>1, <2>3, RegistriesAreFinite DEF Registered, Registry, ControlTypes
    <3> QED
      BY <1>1, <3>1 DEF WithinLimit
  <2> QED
    BY <2>2, <2>3
<1>5. CASE ~Admits(p)
  <2>1. job' = [job EXCEPT ![p] = "refused"]
    BY <1>5 DEF StartOperation
  <2>2. WithinLimit'
    BY <1>1, <2>1, LimitStays DEF ControlTypes
  <2> QED
    BY <1>2, <1>3, <2>2 DEF NetworkInductive
<1> QED
    BY <1>4, <1>5

LEMMA CancelKeeps ==
    ASSUME NetworkInductive, NEW p \in Operations, Cancel(p)
    PROVE  NetworkInductive'
BY DEF NetworkInductive, ControlTypes, WithinLimit, EndsAgree, Cancel, Registered, Registry

LEMMA UnregisterKeeps ==
    ASSUME NetworkInductive, NEW p \in Operations, Unregister(p)
    PROVE  NetworkInductive'
<1>1. ControlTypes /\ WithinLimit /\ EndsAgree
    BY DEF NetworkInductive
<1>2. ControlTypes' /\ EndsAgree'
    BY <1>1 DEF ControlTypes, EndsAgree, Unregister, Jobs
<1>3. WithinLimit'
    BY <1>1, LimitStays DEF ControlTypes, Unregister
<1> QED
    BY <1>2, <1>3 DEF NetworkInductive

\* A scan has no process; whatever it does with its ports, it registers nobody.
LEMMA ScanKeeps ==
    ASSUME NetworkInductive, NEW s \in Scans, BeginScan(s) \/ PortChecked(s) \/ ScanEnds(s)
    PROVE  NetworkInductive'
<1>1. ControlTypes /\ WithinLimit /\ EndsAgree /\ s \in Operations
    BY NetworkAssumption DEF NetworkInductive
<1>2. UNCHANGED process
    BY DEF BeginScan, PortChecked, ScanEnds
<1>3. \/ UNCHANGED <<job, outcome>>
      \/ /\ job[s] = "registered" /\ job' = [job EXCEPT ![s] = "running"]
         /\ outcome' = outcome
      \/ /\ job[s] \in {"registered", "running"} /\ job' = [job EXCEPT ![s] = "told"]
         /\ \E how \in Outcomes \ {"none"} : outcome' = [outcome EXCEPT ![s] = how]
    BY DEF BeginScan, PortChecked, ScanEnds, Tells, Outcomes
<1>4. ControlTypes'
    BY <1>1, <1>2, <1>3 DEF ControlTypes, Jobs
<1>5. EndsAgree'
    BY <1>1, <1>2, <1>3 DEF ControlTypes, EndsAgree
<1>6. WithinLimit'
  <2>1. /\ \A q \in Operations : q # s => job'[q] = job[q]
        /\ job'[s] = job[s] \/ job[s] \in {"registered", "running"}
    BY <1>1, <1>3 DEF ControlTypes
  <2> QED
    BY <1>1, <2>1, LimitStays
<1> QED
    BY <1>4, <1>5, <1>6 DEF NetworkInductive

LEMMA DiagnosticKeeps ==
    ASSUME NetworkInductive, NEW p \in Operations, p \notin Scans,
           BeginDiagnostic(p) \/ DiagnosticEnds(p)
    PROVE  NetworkInductive'
<1>1. ControlTypes /\ WithinLimit /\ EndsAgree
    BY DEF NetworkInductive
<1>2. \/ /\ job[p] = "registered" /\ job' = [job EXCEPT ![p] = "running"]
         /\ process' = [process EXCEPT ![p] = "running"] /\ outcome' = outcome
      \/ /\ job[p] = "registered" /\ job' = [job EXCEPT ![p] = "told"] /\ process' = process
         /\ \E how \in Outcomes \ {"none"} : outcome' = [outcome EXCEPT ![p] = how]
      \/ /\ job[p] = "running" /\ job' = [job EXCEPT ![p] = "told"]
         /\ process' = [process EXCEPT ![p] = "gone"]
         /\ \E how \in Outcomes \ {"none"} : outcome' = [outcome EXCEPT ![p] = how]
    BY DEF BeginDiagnostic, DiagnosticEnds, Tells, Dropped, Outcomes
<1>3. ControlTypes'
    BY <1>1, <1>2 DEF ControlTypes, Jobs
<1>4. EndsAgree'
    BY <1>1, <1>2 DEF ControlTypes, EndsAgree
<1>5. WithinLimit'
  <2>1. /\ \A q \in Operations : q # p => job'[q] = job[q]
        /\ job[p] \in {"registered", "running"}
    BY <1>1, <1>2 DEF ControlTypes
  <2> QED
    BY <1>1, <2>1, LimitStays
<1> QED
    BY <1>3, <1>4, <1>5 DEF NetworkInductive

-----------------------------------------------------------------------------
LEMMA NetworkInitEstablishes == NetworkInit => NetworkInductive
<1> SUFFICES ASSUME NetworkInit PROVE NetworkInductive
    OBVIOUS
<1>1. ControlTypes /\ EndsAgree
    BY DEF NetworkInit, ControlTypes, EndsAgree, Jobs, Outcomes
<1>2. ASSUME NEW o \in Operations
      PROVE  Cardinality(Registered(Registry(o))) <= Limit
  <2>1. Registered(Registry(o)) = {}
    BY RegistriesAreFinite DEF NetworkInit, Registered
  <2>2. Cardinality(Registered(Registry(o))) = 0
    BY <2>1, FS_EmptySet
  <2> QED
    BY <2>2, NetworkAssumption
<1> QED
    BY <1>1, <1>2 DEF NetworkInductive, WithinLimit

LEMMA NetworkNextKeeps == NetworkInductive /\ [NetworkNext]_networkVars => NetworkInductive'
<1> SUFFICES ASSUME NetworkInductive, [NetworkNext]_networkVars PROVE NetworkInductive'
    OBVIOUS
<1>1. ASSUME NEW o \in Operations, StartOperation(o) \/ Cancel(o) \/ Proceeds(o)
      PROVE  NetworkInductive'
  <2>1. CASE StartOperation(o) \/ Cancel(o) \/ Unregister(o)
    BY <2>1, StartKeeps, CancelKeeps, UnregisterKeeps
  <2>2. CASE o \in Scans /\ (BeginScan(o) \/ PortChecked(o) \/ ScanEnds(o))
    BY <2>2, ScanKeeps
  <2>3. CASE o \notin Scans /\ (BeginDiagnostic(o) \/ DiagnosticEnds(o))
    BY <2>3, DiagnosticKeeps
  <2> QED
    BY <1>1, <2>1, <2>2, <2>3 DEF Proceeds
<1>2. CASE UNCHANGED networkVars
    BY <1>2 DEF NetworkInductive, ControlTypes, WithinLimit, EndsAgree, Registered, Registry, networkVars
<1> QED
    BY <1>1, <1>2 DEF NetworkNext

\* However many operations are started, each registry keeps its limit; and no diagnostic
\* that is over has left its process behind, nor is one over before it told how it ended.
THEOREM RegistriesAreBounded == NetworkSpec => []NetworkIsBounded
<1>1. NetworkInductive => NetworkIsBounded
    BY DEF NetworkInductive, WithinLimit, EndsAgree, NetworkIsBounded
<1> QED
    BY <1>1, NetworkInitEstablishes, NetworkNextKeeps, PTL DEF NetworkSpec

-----------------------------------------------------------------------------
\* Scans.

\* The ports of a scan that were scheduled so far.
Planned(s) == {p \in ports[s].start..ports[s].end : next[s] = 0 \/ p < next[s]}

ScanTypes ==
    /\ ports \in [Scans -> Ports]
    /\ next \in [Scans -> 0..MaxPort]
    /\ checks \in [Scans -> SUBSET (0..MaxPort)]
    /\ results \in [Scans -> [0..MaxPort -> Nat]]

\* In flight is what was scheduled and not answered, within the bound; nothing is left to
\* schedule when nothing is in flight.
FlightAgrees(s) ==
    /\ checks[s] \subseteq Planned(s) /\ Cardinality(checks[s]) <= Concurrency
    /\ job[s] = "running" /\ checks[s] = {} => Planned(s) = ports[s].start..ports[s].end
    /\ next[s] = 0 \/ ports[s].start <= next[s]
    /\ job[s] \in {"new", "refused", "registered"} => next[s] = ports[s].start

\* Until the end is told, every scheduled port that is not in flight has its one answer.
ResultsAgree(s) ==
    /\ job[s] \in {"new", "refused", "registered", "running"} => outcome[s] = "none"
    /\ outcome[s] = "none" =>
          \A p \in 0..MaxPort : results[s][p] = IF p \in Planned(s) \ checks[s] THEN 1 ELSE 0
    /\ outcome[s] # "none" =>
          /\ checks[s] = {}
          /\ \A p \in 0..MaxPort : results[s][p] <= IF p \in Planned(s) THEN 1 ELSE 0
    /\ outcome[s] = "completed" => \A p \in ports[s].start..ports[s].end : results[s][p] = 1

ScansInductive == ControlTypes /\ ScanTypes /\ \A s \in Scans : FlightAgrees(s) /\ ResultsAgree(s)

LEMMA PortsAre ==
    ASSUME ScanTypes, NEW s \in Scans
    PROVE  /\ ports[s].start \in 1..MaxPort /\ ports[s].end \in ports[s].start..MaxPort
           /\ MaxPort \in Nat /\ Concurrency \in Nat \ {0} /\ next[s] \in 0..MaxPort
<1>1. ports[s] \in Ports
  BY DEF ScanTypes
<1> QED
  BY <1>1, ScanAssumption DEF ScanTypes

LEMMA PlannedAre ==
    ASSUME ScanTypes, NEW s \in Scans
    PROVE  /\ Planned(s) \subseteq ports[s].start..ports[s].end
           /\ Planned(s) \subseteq 1..MaxPort /\ IsFiniteSet(Planned(s))
           /\ \A S : S \subseteq Planned(s) => IsFiniteSet(S) /\ Cardinality(S) \in Nat
<1>1. Planned(s) \subseteq ports[s].start..ports[s].end
  BY DEF Planned
<1>2. Planned(s) \subseteq 1..MaxPort
  BY <1>1, PortsAre
<1>3. IsFiniteSet(1..MaxPort)
  BY FS_Interval, ScanAssumption
<1>4. IsFiniteSet(Planned(s))
  BY <1>2, <1>3, FS_Subset
<1> QED
  BY <1>1, <1>2, <1>4, FS_Subset, FS_CardinalityType

\* What schedule_ports schedules is what it adds to the checks in flight, as long as there
\* is room; and it leaves none for later when nothing is in flight.
LEMMA SchedulesAdds ==
    ASSUME ScanTypes, NEW s \in Scans, NEW flying \in SUBSET Planned(s),
           Cardinality(flying) < Concurrency, Schedules(s, flying, next[s]), ports' = ports,
           next[s] = 0 \/ ports[s].start <= next[s]
    PROVE  /\ next' \in [Scans -> 0..MaxPort]
           /\ checks' \in [Scans -> SUBSET (0..MaxPort)]
           /\ \A t \in Scans \ {s} : next'[t] = next[t] /\ checks'[t] = checks[t]
           /\ next'[s] = 0 \/ ports[s].start <= next'[s]
           /\ Planned(s) \subseteq Planned(s)'
           /\ checks'[s] = flying \cup (Planned(s)' \ Planned(s))
           /\ Cardinality(checks'[s]) <= Concurrency
           /\ checks'[s] = {} => Planned(s)' = ports[s].start..ports[s].end
<1> DEFINE first == next[s]
           low == ports[s].start
           high == ports[s].end
           used == Cardinality(flying)
           full == first + Concurrency - used - 1
           last == IF full < high THEN full ELSE high
<1>1. /\ low \in 1..MaxPort /\ high \in low..MaxPort /\ MaxPort \in Nat
      /\ Concurrency \in Nat \ {0} /\ first \in 0..MaxPort
  BY PortsAre
<1>2. IsFiniteSet(flying) /\ used \in Nat /\ used < Concurrency /\ flying \subseteq 0..MaxPort
  BY PlannedAre
<1>3. next \in [Scans -> 0..MaxPort] /\ checks \in [Scans -> SUBSET (0..MaxPort)]
  BY DEF ScanTypes
<1>4. IF first = 0 \/ last < first
      THEN checks' = [checks EXCEPT ![s] = flying] /\ UNCHANGED next
      ELSE /\ checks' = [checks EXCEPT ![s] = flying \cup first..last]
           /\ next' = [next EXCEPT ![s] = NextPort(last)]
  BY DEF Schedules
<1>5. \A p : p \in Planned(s) <=> p \in low..high /\ (first = 0 \/ p < first)
  BY DEF Planned
<1>6. \A p : p \in Planned(s)' <=> p \in low..high /\ (next'[s] = 0 \/ p < next'[s])
  BY DEF Planned
<1>7. full \in Int /\ last \in Int /\ last <= high /\ last <= full
  BY <1>1, <1>2
<1> HIDE DEF first, low, high, used
<1>8. CASE first = 0 \/ last < first
  <2>1. checks' = [checks EXCEPT ![s] = flying] /\ next' = next
    BY <1>4, <1>8
  <2>2. Planned(s)' = Planned(s) /\ checks'[s] = flying
    BY <1>3, <1>5, <1>6, <2>1 DEF first
  <2>3. Planned(s) = low..high
    <3>1. first = 0 \/ high < first
      BY <1>1, <1>2, <1>8
    <3>2. \A p \in low..high : first = 0 \/ p < first
      BY <1>1, <3>1
    <3>3. \A p : p \in Planned(s) <=> p \in low..high
      BY <1>5, <3>2
    <3> QED
      BY <3>3
  <2>4. /\ next' \in [Scans -> 0..MaxPort] /\ checks' \in [Scans -> SUBSET (0..MaxPort)]
        /\ \A t \in Scans \ {s} : next'[t] = next[t] /\ checks'[t] = checks[t]
    BY <1>2, <1>3, <2>1
  <2>5. Cardinality(flying) <= Concurrency
    BY <1>1, <1>2 DEF used
  <2> QED
    BY <2>1, <2>2, <2>3, <2>4, <2>5 DEF low, high
<1>9. CASE ~(first = 0 \/ last < first)
  <2>1. checks' = [checks EXCEPT ![s] = flying \cup first..last] /\ next' = [next EXCEPT ![s] = NextPort(last)]
    BY <1>4, <1>9
  <2>2. first \in 1..MaxPort /\ last \in 1..MaxPort /\ first <= last
    BY <1>1, <1>7, <1>9
  <2>3. NextPort(last) \in 0..MaxPort /\ (NextPort(last) = 0 => last = MaxPort) /\ (NextPort(last) # 0 => NextPort(last) = last + 1)
    BY <1>1, <2>2 DEF NextPort
  <2> HIDE DEF last, full
  <2>4. /\ next'[s] = NextPort(last) /\ checks'[s] = flying \cup first..last
        /\ \A t \in Scans \ {s} : next'[t] = next[t] /\ checks'[t] = checks[t]
    BY <1>3, <2>1
  <2>5. \A p \in low..high : p \in Planned(s)' <=> p <= last
    BY <1>1, <1>6, <2>2, <2>3, <2>4
  <2>6. \A p \in low..high : p \in Planned(s) <=> p < first
    BY <1>1, <1>5, <2>2
  <2>7. Planned(s) \subseteq Planned(s)'
    BY <1>1, <1>5, <2>2, <2>5, <2>6
  <2>8. low <= first
    BY <1>1, <2>2 DEF first, low
  <2>9. checks'[s] = flying \cup (Planned(s)' \ Planned(s))
    <3>1. \A p : p \in first..last <=> p \in low..high /\ p <= last /\ ~(p < first)
      BY <1>1, <1>7, <2>2, <2>8
    <3>2. \A p : p \in Planned(s)' \ Planned(s) <=> p \in first..last
      BY <1>5, <1>6, <2>5, <2>6, <3>1
    <3> QED
      BY <2>4, <3>2
  <2>10. Cardinality(checks'[s]) <= Concurrency
    <3>1. IsFiniteSet(first..last) /\ Cardinality(first..last) = last - first + 1
      BY <1>1, <2>2, FS_Interval
    <3>2. flying \cap first..last = {}
      BY <1>1, <2>2, <2>6, <1>5
    <3>3. Cardinality(flying \cup first..last) = used + (last - first + 1)
      <4>1. Cardinality(flying \cap (first..last)) = 0
        BY <3>2, FS_EmptySet
      <4>2. Cardinality(flying \cup (first..last))
               = Cardinality(flying) + Cardinality(first..last) - Cardinality(flying \cap (first..last))
        BY <1>2, <3>1, FS_Union
      <4> QED
        BY <1>1, <1>2, <2>2, <3>1, <4>1, <4>2 DEF used
    <3>4. last - first + 1 <= Concurrency - used
      BY <1>1, <1>2, <1>7, <2>2 DEF full
    <3> QED
      BY <1>1, <1>2, <2>2, <2>4, <3>3, <3>4
  <2>11. /\ next' \in [Scans -> 0..MaxPort] /\ checks' \in [Scans -> SUBSET (0..MaxPort)]
    <3>1. flying \cup first..last \subseteq 0..MaxPort
      BY <1>1, <1>2, <2>2
    <3> QED
      BY <1>3, <2>1, <2>3, <3>1
  <2>12. checks'[s] # {}
    BY <1>1, <2>2, <2>4
  <2>13. next'[s] = 0 \/ low <= next'[s]
    BY <1>1, <2>2, <2>3, <2>4, <2>8
  <2> QED
    BY <2>4, <2>7, <2>9, <2>10, <2>11, <2>12, <2>13 DEF low
<1> QED
  BY <1>8, <1>9 DEF low, high

\* What one scan does leaves the others.
LEMMA ScanStays ==
    ASSUME NEW t \in Scans, FlightAgrees(t), ResultsAgree(t), ports' = ports,
           next'[t] = next[t], checks'[t] = checks[t], results'[t] = results[t],
           outcome'[t] = outcome[t],
           \/ job'[t] = job[t]
           \/ job[t] = "new" /\ job'[t] \in {"registered", "refused"}
           \/ job[t] = "told" /\ job'[t] = "over"
    PROVE  FlightAgrees(t)' /\ ResultsAgree(t)'
<1>1. Planned(t)' = Planned(t)
  BY DEF Planned
<1> QED
  BY <1>1 DEF FlightAgrees, ResultsAgree

LEMMA NothingPlanned ==
    ASSUME ScanTypes, NEW s \in Scans, next[s] = ports[s].start
    PROVE  Planned(s) = {}
BY PortsAre DEF Planned

LEMMA BeginScanAgrees ==
    ASSUME ScansInductive, NEW s \in Scans, BeginScan(s)
    PROVE  ScanTypes' /\ FlightAgrees(s)' /\ ResultsAgree(s)'
           /\ \A t \in Scans \ {s} : next'[t] = next[t] /\ checks'[t] = checks[t]
<1>1. ControlTypes /\ ScanTypes /\ FlightAgrees(s) /\ ResultsAgree(s) /\ s \in Operations
  BY NetworkAssumption DEF ScansInductive
<1>2. job[s] = "registered" /\ UNCHANGED <<ports, results>>
  BY DEF BeginScan
<1>3. Planned(s) = {} /\ next[s] = ports[s].start /\ checks[s] = {} /\ outcome[s] = "none"
  BY <1>1, <1>2, NothingPlanned DEF FlightAgrees, ResultsAgree
<1>4. CASE Tells(s, "cancelled") /\ UNCHANGED <<next, checks>>
  <2>1. Planned(s)' = Planned(s)
    BY <1>2, <1>4 DEF Planned
  <2>2. job'[s] = "told" /\ outcome'[s] = "cancelled"
    BY <1>1, <1>4 DEF Tells, ControlTypes
  <2>3. next'[s] = next[s] /\ checks'[s] = {} /\ ports' = ports /\ results' = results
    BY <1>2, <1>3, <1>4
  <2>4. FlightAgrees(s)'
    <3>1. Cardinality({}) <= Concurrency
      BY FS_EmptySet, ScanAssumption
    <3> QED
      BY <1>1, <1>2, <1>3, <2>1, <2>2, <2>3, <3>1 DEF FlightAgrees
  <2>5. ResultsAgree(s)'
    BY <1>1, <1>2, <1>3, <2>1, <2>2, <2>3 DEF ResultsAgree
  <2>6. ScanTypes'
    BY <1>1, <1>2, <1>4 DEF ScanTypes
  <2> QED
    BY <1>4, <2>4, <2>5, <2>6
<1>5. CASE Schedules(s, {}, next[s]) /\ job' = [job EXCEPT ![s] = "running"] /\ UNCHANGED outcome
  <2>1. Cardinality({}) < Concurrency
    BY FS_EmptySet, ScanAssumption
  <2>2. /\ next' \in [Scans -> 0..MaxPort]
        /\ checks' \in [Scans -> SUBSET (0..MaxPort)]
        /\ \A t \in Scans \ {s} : next'[t] = next[t] /\ checks'[t] = checks[t]
        /\ next'[s] = 0 \/ ports[s].start <= next'[s]
        /\ checks'[s] = {} \cup (Planned(s)' \ Planned(s))
        /\ Cardinality(checks'[s]) <= Concurrency
        /\ checks'[s] = {} => Planned(s)' = ports[s].start..ports[s].end
    BY <1>1, <1>2, <1>5, <2>1, SchedulesAdds DEF FlightAgrees
  <2>3. checks'[s] = Planned(s)'
    BY <1>3, <2>2
  <2>4. job'[s] = "running" /\ outcome'[s] = "none"
    BY <1>1, <1>3, <1>5 DEF ControlTypes
  <2>5. FlightAgrees(s)'
    BY <1>2, <2>2, <2>3, <2>4 DEF FlightAgrees
  <2>6. ResultsAgree(s)'
    BY <1>1, <1>2, <1>3, <2>3, <2>4 DEF ResultsAgree
  <2>7. ScanTypes'
    BY <1>1, <1>2, <2>2 DEF ScanTypes
  <2> QED
    BY <2>2, <2>5, <2>6, <2>7
<1> QED
  BY <1>4, <1>5 DEF BeginScan

LEMMA PortCheckedAgrees ==
    ASSUME ScansInductive, NEW s \in Scans, PortChecked(s)
    PROVE  ScanTypes' /\ FlightAgrees(s)' /\ ResultsAgree(s)'
           /\ \A t \in Scans \ {s} : next'[t] = next[t] /\ checks'[t] = checks[t] /\ results'[t] = results[t]
<1>1. ControlTypes /\ ScanTypes /\ FlightAgrees(s) /\ ResultsAgree(s)
  BY DEF ScansInductive
<1>2. job[s] = "running" /\ UNCHANGED <<job, ports, outcome>> /\ outcome[s] = "none"
  BY <1>1 DEF PortChecked, ResultsAgree
<1>3. PICK p \in checks[s] :
         /\ results' = [results EXCEPT ![s][p] = @ + 1]
         /\ Schedules(s, checks[s] \ {p}, next[s])
  BY DEF PortChecked
<1> DEFINE flying == checks[s] \ {p}
<1>4. checks[s] \subseteq Planned(s) /\ Cardinality(checks[s]) <= Concurrency /\ p \in 0..MaxPort
  BY <1>1 DEF FlightAgrees, ScanTypes
<1>5. Cardinality(flying) < Concurrency
  <2>1. IsFiniteSet(checks[s]) /\ Cardinality(checks[s]) \in Nat
    BY <1>1, <1>4, PlannedAre
  <2>2. Cardinality(flying) = Cardinality(checks[s]) - 1
    BY <2>1, FS_RemoveElement
  <2> QED
    BY <1>4, <2>1, <2>2, ScanAssumption
<1>6. flying \in SUBSET Planned(s)
  BY <1>4
<1>7. /\ next' \in [Scans -> 0..MaxPort]
      /\ checks' \in [Scans -> SUBSET (0..MaxPort)]
      /\ \A t \in Scans \ {s} : next'[t] = next[t] /\ checks'[t] = checks[t]
      /\ next'[s] = 0 \/ ports[s].start <= next'[s]
      /\ Planned(s) \subseteq Planned(s)'
      /\ checks'[s] = flying \cup (Planned(s)' \ Planned(s))
      /\ Cardinality(checks'[s]) <= Concurrency
      /\ checks'[s] = {} => Planned(s)' = ports[s].start..ports[s].end
  <2> HIDE DEF flying
  <2>1. Schedules(s, flying, next[s])
    BY <1>3 DEF flying
  <2> QED
    BY <1>1, <1>2, <1>5, <1>6, <2>1, SchedulesAdds DEF FlightAgrees
<1>8. results' \in [Scans -> [0..MaxPort -> Nat]] /\ \A t \in Scans \ {s} : results'[t] = results[t]
  <2>1. results[s] \in [0..MaxPort -> Nat] /\ results[s][p] + 1 \in Nat
    <3>1. results[s] \in [0..MaxPort -> Nat]
      BY <1>1 DEF ScanTypes
    <3>2. results[s][p] \in Nat
      BY <1>4, <3>1
    <3> QED
      BY <3>1, <3>2
  <2>2. [results[s] EXCEPT ![p] = results[s][p] + 1] \in [0..MaxPort -> Nat]
    BY <1>4, <2>1
  <2>3. results' = [results EXCEPT ![s] = [results[s] EXCEPT ![p] = results[s][p] + 1]]
    BY <1>3
  <2> QED
    BY <1>1, <2>2, <2>3 DEF ScanTypes
<1>9. results'[s][p] = results[s][p] + 1 /\ \A q \in 0..MaxPort : q # p => results'[s][q] = results[s][q]
  BY <1>1, <1>3, <1>4 DEF ScanTypes
<1>10. \A q : q \in Planned(s)' \ checks'[s] <=> q \in (Planned(s) \ checks[s]) \/ q = p
  BY <1>4, <1>7
<1>11. \A q \in 0..MaxPort : results'[s][q] = IF q \in Planned(s)' \ checks'[s] THEN 1 ELSE 0
  <2>1. \A q \in 0..MaxPort : results[s][q] = IF q \in Planned(s) \ checks[s] THEN 1 ELSE 0
    BY <1>1, <1>2 DEF ResultsAgree
  <2> QED
    BY <1>4, <1>9, <1>10, <2>1
<1>12. FlightAgrees(s)'
  BY <1>2, <1>4, <1>7 DEF FlightAgrees
<1>13. ResultsAgree(s)'
  BY <1>2, <1>11 DEF ResultsAgree
<1> QED
  BY <1>1, <1>2, <1>7, <1>8, <1>12, <1>13 DEF ScanTypes

LEMMA ScanEndsAgrees ==
    ASSUME ScansInductive, NEW s \in Scans, ScanEnds(s)
    PROVE  ScanTypes' /\ FlightAgrees(s)' /\ ResultsAgree(s)'
<1>1. ControlTypes /\ ScanTypes /\ FlightAgrees(s) /\ ResultsAgree(s) /\ s \in Operations
  BY NetworkAssumption DEF ScansInductive
<1>2. job[s] = "running" /\ UNCHANGED <<ports, next, results>> /\ checks' = [checks EXCEPT ![s] = {}]
  BY DEF ScanEnds
<1>3. Planned(s)' = Planned(s) /\ checks'[s] = {} /\ outcome[s] = "none"
  BY <1>1, <1>2 DEF Planned, ScanTypes, ResultsAgree
<1>4. PICK how \in {"completed", "cancelled", "failed"} :
         Tells(s, how) /\ (how = "completed" => checks[s] = {})
  BY DEF ScanEnds
<1>5. job'[s] = "told" /\ outcome'[s] = how
  BY <1>1, <1>4 DEF Tells, ControlTypes
<1>6. ScanTypes'
  BY <1>1, <1>2 DEF ScanTypes
<1>7. FlightAgrees(s)'
  <2>1. Cardinality({}) <= Concurrency
    BY FS_EmptySet, ScanAssumption
  <2> QED
    BY <1>1, <1>2, <1>3, <1>5, <2>1 DEF FlightAgrees
<1>8. ResultsAgree(s)'
  <2>1. \A p \in 0..MaxPort : results[s][p] = IF p \in Planned(s) \ checks[s] THEN 1 ELSE 0
    BY <1>1, <1>3 DEF ResultsAgree
  <2>2. how = "completed" => \A p \in ports[s].start..ports[s].end : results[s][p] = 1
    <3>1. ports[s].start..ports[s].end \subseteq 0..MaxPort
      BY <1>1, PortsAre
    <3> QED
      BY <1>1, <1>2, <1>4, <2>1, <3>1 DEF FlightAgrees
  <2> QED
    BY <1>2, <1>3, <1>4, <1>5, <2>1, <2>2 DEF ResultsAgree
<1> QED
  BY <1>6, <1>7, <1>8

LEMMA ScansNextKeeps == NetworkInductive /\ ScansInductive /\ [NetworkNext]_networkVars => ScansInductive'
<1> SUFFICES ASSUME NetworkInductive, ScansInductive, [NetworkNext]_networkVars
             PROVE  ScansInductive'
  OBVIOUS
<1>1. ControlTypes' /\ ControlTypes
  BY NetworkNextKeeps DEF NetworkInductive
<1>2. ASSUME NEW s \in Scans, BeginScan(s) \/ PortChecked(s) \/ ScanEnds(s)
      PROVE  ScansInductive'
  <2>1. ScanTypes' /\ FlightAgrees(s)' /\ ResultsAgree(s)'
    BY <1>2, BeginScanAgrees, PortCheckedAgrees, ScanEndsAgrees
  <2>2. ASSUME NEW t \in Scans, t # s
        PROVE  FlightAgrees(t)' /\ ResultsAgree(t)'
    <3>1. next'[t] = next[t] /\ checks'[t] = checks[t]
      BY <1>2, <2>2, BeginScanAgrees, PortCheckedAgrees DEF ScanEnds, ScansInductive, ScanTypes
    <3>2. results'[t] = results[t]
      BY <1>2, <2>2, PortCheckedAgrees DEF BeginScan, ScanEnds
    <3>3. job'[t] = job[t] /\ outcome'[t] = outcome[t] /\ ports' = ports
      BY <1>1, <1>2, <2>2, NetworkAssumption DEF BeginScan, PortChecked, ScanEnds, Tells, ControlTypes
    <3> QED
      BY <3>1, <3>2, <3>3, ScanStays DEF ScansInductive
  <2> QED
    BY <1>1, <2>1, <2>2 DEF ScansInductive
<1>3. ASSUME NEW o \in Operations,
             \/ StartOperation(o) \/ Cancel(o) \/ Unregister(o)
             \/ o \notin Scans /\ (BeginDiagnostic(o) \/ DiagnosticEnds(o))
      PROVE  ScansInductive'
  <2>1. UNCHANGED scanVars
    BY <1>3 DEF StartOperation, Cancel, Unregister, BeginDiagnostic, DiagnosticEnds
  <2>2. ASSUME NEW t \in Scans
        PROVE  /\ outcome'[t] = outcome[t]
               /\ \/ job'[t] = job[t]
                  \/ job[t] = "new" /\ job'[t] \in {"registered", "refused"}
                  \/ job[t] = "told" /\ job'[t] = "over"
    BY <1>1, <1>3, NetworkAssumption
       DEF StartOperation, Cancel, Unregister, BeginDiagnostic, DiagnosticEnds, Tells, ControlTypes
  <2>3. ScanTypes'
    BY <2>1 DEF ScansInductive, ScanTypes, scanVars
  <2> QED
    BY <1>1, <2>1, <2>2, <2>3, ScanStays DEF ScansInductive, scanVars
<1>4. CASE UNCHANGED networkVars
  <2>1. ScanTypes'
    BY <1>4 DEF ScansInductive, ScanTypes, networkVars
  <2> QED
    BY <1>1, <1>4, <2>1, ScanStays DEF ScansInductive, networkVars
<1> QED
  BY <1>2, <1>3, <1>4 DEF NetworkNext, Proceeds

LEMMA ScansInitEstablishes == NetworkInit => ScansInductive
<1> SUFFICES ASSUME NetworkInit PROVE ScansInductive
  OBVIOUS
<1>1. ControlTypes
  BY NetworkInitEstablishes DEF NetworkInductive
<1>2. ScanTypes
  <2>1. \A s \in Scans : ports[s] \in Ports /\ ports[s].start \in 0..MaxPort
    BY ScanAssumption DEF NetworkInit
  <2> QED
    BY <2>1 DEF NetworkInit, ScanTypes
<1>3. ASSUME NEW s \in Scans PROVE FlightAgrees(s) /\ ResultsAgree(s)
  <2>1. /\ next[s] = ports[s].start /\ checks[s] = {} /\ job[s] = "new" /\ outcome[s] = "none"
        /\ \A p \in 0..MaxPort : results[s][p] = 0
    BY NetworkAssumption DEF NetworkInit
  <2>2. Planned(s) = {} /\ ports[s].start \in 1..MaxPort
    BY <1>2, <2>1, NothingPlanned, PortsAre
  <2>3. Cardinality({}) <= Concurrency
    BY FS_EmptySet, ScanAssumption
  <2> QED
    BY <2>1, <2>2, <2>3 DEF FlightAgrees, ResultsAgree
<1> QED
  BY <1>1, <1>2, <1>3 DEF ScansInductive

\* A scan that completed has checked every port of its range once, up to the last there is,
\* whatever order its checks end in; it never has more of them than its concurrency, and
\* none when it is over (scan_tcp_with_progress, schedule_ports).
THEOREM ScansCheckEachPortOnce == NetworkSpec => []ScansAreExact
<1>1. ScansInductive => ScansAreExact
  <2> SUFFICES ASSUME ScansInductive, NEW s \in Scans
               PROVE  /\ Cardinality(checks[s]) <= Concurrency
                      /\ \A p \in 0..MaxPort :
                            results[s][p] <= IF p \in ports[s].start..ports[s].end THEN 1 ELSE 0
                      /\ outcome[s] = "completed" =>
                            \A p \in ports[s].start..ports[s].end : results[s][p] = 1
                      /\ outcome[s] # "none" => checks[s] = {}
    BY DEF ScansAreExact
  <2>1. FlightAgrees(s) /\ ResultsAgree(s) /\ Planned(s) \subseteq ports[s].start..ports[s].end
    BY PlannedAre DEF ScansInductive
  <2>2. \A p \in 0..MaxPort : results[s][p] <= IF p \in ports[s].start..ports[s].end THEN 1 ELSE 0
    <3> SUFFICES ASSUME NEW p \in 0..MaxPort
                 PROVE  results[s][p] <= IF p \in ports[s].start..ports[s].end THEN 1 ELSE 0
      OBVIOUS
    <3>1. results[s][p] \in {0, 1} /\ (results[s][p] # 0 => p \in Planned(s))
      <4>1. results[s][p] \in Nat
        <5>1. results[s] \in [0..MaxPort -> Nat]
          BY DEF ScansInductive, ScanTypes
        <5> QED
          BY <5>1
      <4>2. CASE outcome[s] = "none"
        BY <2>1, <4>2 DEF ResultsAgree
      <4>3. CASE outcome[s] # "none"
        <5>1. results[s][p] <= IF p \in Planned(s) THEN 1 ELSE 0
          BY <2>1, <4>3 DEF ResultsAgree
        <5> QED
          BY <4>1, <5>1
      <4> QED
        BY <4>2, <4>3
    <3>2. CASE p \in ports[s].start..ports[s].end
      BY <3>1, <3>2
    <3>3. CASE p \notin ports[s].start..ports[s].end
      BY <2>1, <3>1, <3>3
    <3> QED
      BY <3>2, <3>3
  <2> QED
    BY <2>1, <2>2 DEF FlightAgrees, ResultsAgree
<1>2. NetworkInit => NetworkInductive /\ ScansInductive
  BY NetworkInitEstablishes, ScansInitEstablishes
<1>3. NetworkInductive /\ ScansInductive /\ [NetworkNext]_networkVars => NetworkInductive' /\ ScansInductive'
  BY NetworkNextKeeps, ScansNextKeeps
<1> QED
  BY <1>1, <1>2, <1>3, PTL DEF NetworkSpec

-----------------------------------------------------------------------------
\* The slots of the device list.

Working == {q \in Requests : worker[q] = "working"}

\* A refresh that has not been made has no worker.
Unasked == \A q \in Requests : lister[q] = "new" => worker[q] = "none"

ListInductive == ListTypeOK /\ SlotsAccounted /\ Unasked

LEMMA Accounts ==
    ASSUME ListInductive
    PROVE  /\ ListTypeOK /\ Unasked /\ free + Cardinality(Working) = Slots
           /\ IsFiniteSet(Working) /\ Cardinality(Working) \in Nat /\ Slots \in Nat
<1>1. IsFiniteSet(Working)
  <2>1. Working \subseteq Requests
    BY DEF Working
  <2> QED
    BY <2>1, SlotsAssumption, FS_Subset
<1>2. Cardinality(Working) \in Nat
    BY <1>1, FS_CardinalityType
<1> QED
    BY <1>1, <1>2, SlotsAssumption DEF ListInductive, SlotsAccounted, Working

\* A permit taken is one worker more.
LEMMA RefreshKeeps ==
    ASSUME ListInductive, NEW q \in Requests, Refresh(q)
    PROVE  ListInductive'
<1>1. CASE free > 0
  <2>1. /\ free' = free - 1
        /\ lister' = [lister EXCEPT ![q] = "waiting"]
        /\ worker' = [worker EXCEPT ![q] = "working"]
    BY <1>1 DEF Refresh
  <2>2. q \notin Working /\ Working' = Working \cup {q}
    BY <2>1, Accounts DEF Refresh, Unasked, ListTypeOK, Working
  <2>3. Cardinality(Working') = Cardinality(Working) + 1
    BY <2>2, Accounts, FS_AddElement
  <2>4. free' \in 0..Slots /\ free' + Cardinality(Working') = Slots
    BY <1>1, <2>1, <2>3, Accounts DEF ListTypeOK
  <2>5. Unasked'
    BY <2>1, Accounts DEF Unasked, ListTypeOK
  <2> QED
    BY <2>1, <2>4, <2>5, Accounts DEF ListInductive, ListTypeOK, SlotsAccounted, Working
<1>2. CASE ~(free > 0)
    BY <1>2, Accounts DEF Refresh, ListInductive, ListTypeOK, SlotsAccounted, Unasked
<1> QED
    BY <1>1, <1>2

\* One given up is one worker less, whoever still waits for it.
LEMMA EnumerateKeeps ==
    ASSUME ListInductive, NEW q \in Requests, Enumerate(q)
    PROVE  ListInductive'
<1>1. PICK how \in {"listed", "failed"} : worker' = [worker EXCEPT ![q] = how]
    BY DEF Enumerate
<1>2. worker[q] = "working" /\ free' = free + 1 /\ lister' = lister
    BY DEF Enumerate
<1>3. q \in Working /\ Working' = Working \ {q}
    BY <1>1, <1>2, Accounts DEF ListTypeOK, Working
<1>4. Cardinality(Working') = Cardinality(Working) - 1
    BY <1>3, Accounts, FS_RemoveElement
<1>5. Cardinality(Working) > 0
    BY <1>3, Accounts, FS_EmptySet
<1>6. free' \in 0..Slots /\ free' + Cardinality(Working') = Slots
    BY <1>2, <1>4, <1>5, Accounts DEF ListTypeOK
<1>7. Unasked'
    BY <1>1, <1>2, Accounts DEF Unasked, ListTypeOK
<1> QED
    BY <1>1, <1>2, <1>6, <1>7, Accounts DEF ListInductive, ListTypeOK, SlotsAccounted, Working

\* What the caller knows says nothing of the permit.
LEMMA AnswerKeeps ==
    ASSUME ListInductive, NEW q \in Requests, Answer(q) \/ Expire(q)
    PROVE  ListInductive'
BY Accounts DEF ListInductive, ListTypeOK, SlotsAccounted, Unasked, Answer, Expire

LEMMA ListInitEstablishes == ListInit => ListInductive
<1> SUFFICES ASSUME ListInit PROVE ListInductive
    OBVIOUS
<1>1. {q \in Requests : worker[q] = "working"} = {}
    BY DEF ListInit
<1>2. free = Slots /\ Slots \in Nat
    BY SlotsAssumption DEF ListInit
<1>3. SlotsAccounted
    BY <1>1, <1>2, FS_EmptySet DEF SlotsAccounted
<1>4. ListTypeOK /\ Unasked
    BY <1>2 DEF ListInit, ListTypeOK, Unasked
<1> QED
    BY <1>3, <1>4 DEF ListInductive

LEMMA ListNextKeeps == ListInductive /\ [ListNext]_listVars => ListInductive'
<1>1. ListInductive /\ ListNext => ListInductive'
    BY RefreshKeeps, EnumerateKeeps, AnswerKeeps DEF ListNext
<1>2. ListInductive /\ UNCHANGED listVars => ListInductive'
    BY DEF ListInductive, ListTypeOK, SlotsAccounted, Unasked, listVars
<1> QED
    BY <1>1, <1>2

\* Of any number of refreshes, whose callers give up at any moment, there are never more
\* workers than slots, and a worker that is over has given its slot back.
THEOREM EverySlotIsAccounted == ListSpec => []SlotsAccounted
<1>1. ListInductive => SlotsAccounted
    BY DEF ListInductive
<1> QED
    BY <1>1, ListInitEstablishes, ListNextKeeps, PTL DEF ListSpec

\* The three together: whatever is scanned, diagnosed and listed at once, each port of a
\* completed scan is checked once, and registries and slots keep to their numbers.
THEOREM WorkIsExact == WorkSpec => []NetworkIsExact
BY ScansCheckEachPortOnce, RegistriesAreBounded, EverySlotIsAccounted, PTL DEF WorkSpec, NetworkIsExact


-----------------------------------------------------------------------------
\* The least element of a set of numbers, which stands in for an induction.
LEMMA Least ==
    ASSUME NEW S \in SUBSET Nat, S # {}
    PROVE  \E n \in S : \A m \in S : n <= m
<1> DEFINE Less == {ss \in Nat \X Nat : ss[1] < ss[2]}
<1>1. IsWellFoundedOn(Less, Nat)
  BY NatLessThanWellFounded DEF OpToRel
<1> HIDE DEF Less
<1>2. PICK n \in S : \A m \in S : ~ (<<m, n>> \in Less)
  BY <1>1, WFMin
<1>3. ASSUME NEW m \in S PROVE n <= m
  <2>1. m \in Nat /\ n \in Nat
    OBVIOUS
  <2>2. ~ (m < n)
    BY <1>2, <2>1 DEF Less
  <2> QED
    BY <2>1, <2>2
<1> QED
  BY <1>3

\* What holds first and of each number after the one before holds of all of them.
LEMMA Induction ==
    ASSUME NEW k \in Nat, NEW N \in Nat, NEW T, k \in T,
           \A n \in (k + 1)..N : n - 1 \in T => n \in T
    PROVE  \A n \in k..N : n \in T
<1> SUFFICES ASSUME (k..N) \ T # {} PROVE FALSE
  OBVIOUS
<1>1. PICK n \in (k..N) \ T : \A m \in (k..N) \ T : n <= m
  <2>1. (k..N) \ T \in SUBSET Nat
    OBVIOUS
  <2> QED
    BY <2>1, Least
<1>2. n \in (k + 1)..N
  BY <1>1
<1>3. n - 1 \in k..N /\ ~(n <= n - 1)
  BY <1>2
<1>4. n - 1 \in T
  BY <1>1, <1>3
<1> QED
  BY <1>1, <1>2, <1>4

\* A function that says what it is at first and, at a number, by what it is at the one before.
Recurs(f, k, N, S, a, onward) ==
    /\ f \in [k..N -> S]
    /\ \A n \in k..N : f[n] = IF n = k THEN a ELSE onward[<<n, f[n - 1]>>]

\* There is one.
LEMMA Recursion ==
    ASSUME NEW k \in Nat, NEW N \in Nat, NEW S, NEW a \in S,
           NEW onward \in [((k + 1)..N) \X S -> S]
    PROVE  \E f : Recurs(f, k, N, S, a, onward)
<1> DEFINE To(m, f) == Recurs(f, k, m, S, a, onward)
           T == {m \in Nat : \E f : To(m, f)}
<1>1. k \in T
  <2>1. k..k = {k}
    OBVIOUS
  <2>2. To(k, [n \in {k} |-> a])
    BY <2>1 DEF Recurs
  <2> QED
    BY <2>2
<1>2. ASSUME NEW m \in (k + 1)..N, m - 1 \in T PROVE m \in T
  <2>1. PICK g : To(m - 1, g)
    BY <1>2
  <2> DEFINE f == [n \in k..m |-> IF n = m THEN onward[<<m, g[m - 1]>>] ELSE g[n]]
  <2>2. m - 1 \in k..(m - 1) /\ g[m - 1] \in S /\ onward[<<m, g[m - 1]>>] \in S
    BY <2>1 DEF Recurs
  <2>3. \A n \in k..m : n # m => n \in k..(m - 1)
    OBVIOUS
  <2>4. f \in [k..m -> S]
    BY <2>1, <2>2, <2>3 DEF Recurs
  <2>5. ASSUME NEW n \in k..m PROVE f[n] = IF n = k THEN a ELSE onward[<<n, f[n - 1]>>]
    <3>1. CASE n = m
      <4>1. n # k /\ n - 1 \in k..m /\ n - 1 # m
        BY <3>1
      <4>2. f[n - 1] = g[m - 1] /\ f[n] = onward[<<m, g[m - 1]>>]
        BY <3>1, <4>1
      <4> QED
        BY <3>1, <4>1, <4>2
    <3>2. CASE n # m
      <4>1. n \in k..(m - 1) /\ f[n] = g[n]
        BY <2>3, <3>2
      <4>2. n # k => n - 1 \in k..m /\ n - 1 # m
        OBVIOUS
      <4>3. n # k => f[n - 1] = g[n - 1]
        BY <4>2
      <4>4. g[n] = IF n = k THEN a ELSE onward[<<n, g[n - 1]>>]
        BY <2>1, <4>1 DEF Recurs
      <4> QED
        BY <4>1, <4>3, <4>4
    <3> QED
      BY <3>1, <3>2
  <2> HIDE DEF f
  <2>6. To(m, f)
    BY <2>4, <2>5 DEF Recurs
  <2>7. m \in Nat
    OBVIOUS
  <2> HIDE DEF To
  <2> QED
    BY <2>6, <2>7
<1> HIDE DEF T
<1>3. CASE k <= N
  <2>1. \A n \in k..N : n \in T
    BY <1>1, <1>2, Induction
  <2>2. N \in T
    BY <1>3, <2>1
  <2> QED
    BY <2>2 DEF T
<1>4. CASE ~(k <= N)
  <2> DEFINE e == [n \in k..N |-> a]
  <2>1. k..N = {}
    BY <1>4
  <2> HIDE DEF To
  <2>2. Recurs(e, k, N, S, a, onward)
    BY <2>1 DEF Recurs
  <2> QED
    BY <2>2
<1> QED
  BY <1>3, <1>4

-----------------------------------------------------------------------------
\* Each instance counts with a definition of its own.
LEMMA CountsAgree ==
    ASSUME NEW S
    PROVE  /\ Store!Cardinality(S) = Cardinality(S)
           /\ Vault!Cardinality(S) = Cardinality(S)
<1>1. Store!Cardinality(S) = Cardinality(S)
  BY DEF Store!Cardinality, Cardinality
<1>2. Vault!Cardinality(S) = Cardinality(S)
  BY DEF Vault!Cardinality, Cardinality
<1> QED
  BY <1>1, <1>2

\* What a file may hold.

Distinct(content) ==
    \A i, j \in 1..Len(content) : content[i].id = content[j].id => i = j
Validates(content) == \A i \in 1..Len(content) : content[i].version \in Store!Valid

LEMMA IdsAre ==
    ASSUME NEW content \in Seq(Store!Records)
    PROVE  /\ Store!IdsOf(content) = {content[i].id : i \in 1..Len(content)}
           /\ Store!ToSet(content) = {content[i] : i \in 1..Len(content)}
BY DEF Store!IdsOf, Store!ToSet

\* Different ids are counted as often as there are records.
LEMMA DistinctCounted ==
    ASSUME NEW content \in Seq(Store!Records), Distinct(content)
    PROVE  Len(content) = Cardinality(Store!IdsOf(content))
<1> DEFINE n == Len(content)
           f == [i \in 1..n |-> content[i].id]
<1>1. n \in Nat
  OBVIOUS
<1>2. f \in Bijection(1..n, Store!IdsOf(content))
  <2>1. f \in [1..n -> Store!IdsOf(content)]
    BY IdsAre
  <2>2. \A i, j \in 1..n : f[i] = f[j] => i = j
    BY DEF Distinct
  <2>3. \A id \in Store!IdsOf(content) : \E i \in 1..n : f[i] = id
    BY IdsAre
  <2> HIDE DEF f
  <2> QED
    BY <2>1, <2>2, <2>3 DEF Bijection, Injection, Surjection, IsInjective
<1> QED
  BY <1>1, <1>2, FS_CountingElements DEF ExistsBijection

LEMMA RankIs ==
    ASSUME NEW m \in Nat, NEW places \in SUBSET (1..m)
    PROVE  /\ IsFiniteSet(places) /\ Cardinality(places) \in Nat /\ Cardinality(places) <= m
           /\ \A i \in places : Store!Rank(places, i) \in 1..Cardinality(places)
           /\ \A i, j \in places : i # j => Store!Rank(places, i) # Store!Rank(places, j)
<1> DEFINE upto(i) == {j \in places : j <= i}
<1>1. IsFiniteSet(1..m) /\ Cardinality(1..m) = m
  BY FS_Interval
<1>2. IsFiniteSet(places) /\ Cardinality(places) \in Nat /\ Cardinality(places) <= m
  BY <1>1, FS_Subset, FS_CardinalityType
<1>3. ASSUME NEW i \in places
      PROVE  IsFiniteSet(upto(i)) /\ Cardinality(upto(i)) \in 1..Cardinality(places)
  <2>1. IsFiniteSet(upto(i)) /\ Cardinality(upto(i)) <= Cardinality(places)
    <3>1. upto(i) \in SUBSET places
      OBVIOUS
    <3> QED
      BY <1>2, <3>1, FS_Subset
  <2>2. Cardinality(upto(i)) \in Nat /\ Cardinality(upto(i)) # 0
    <3>1. i \in upto(i)
      OBVIOUS
    <3> QED
      BY <2>1, <3>1, FS_EmptySet, FS_CardinalityType
  <2> QED
    BY <1>2, <2>1, <2>2
<1>4. ASSUME NEW i \in places, NEW j \in places, i < j
      PROVE  Cardinality(upto(i)) # Cardinality(upto(j))
  <2>1. i \in Nat /\ j \in Nat /\ \A k \in places : k \in Nat
    OBVIOUS
  <2>2. \A k \in upto(i) : k \in places /\ k <= j
    BY <1>4, <2>1
  <2>3. j \in upto(j) /\ j \notin upto(i)
    BY <1>4, <2>1
  <2> QED
    BY <1>3, <2>2, <2>3, FS_Subset
<1>5. \A i \in places : Store!Rank(places, i) = Cardinality(upto(i))
  BY CountsAgree DEF Store!Rank
<1>6. \A i, j \in places : i # j => i < j \/ j < i
  OBVIOUS
<1> HIDE DEF upto
<1> QED
  BY <1>2, <1>3, <1>4, <1>5, <1>6

\* A part is made of different places, as many as were asked for.
LEMMA PartIs ==
    ASSUME NEW content \in Seq(Store!Records), NEW places \in SUBSET (1..Len(content))
    PROVE  /\ Store!Part(content, places) \in Seq(Store!Records)
           /\ Len(Store!Part(content, places)) = Cardinality(places)
           /\ Cardinality(places) \in Nat /\ Cardinality(places) <= Len(content)
           /\ \E g \in [1..Cardinality(places) -> places] :
                 /\ \A n, k \in 1..Cardinality(places) : g[n] = g[k] => n = k
                 /\ \A n \in 1..Cardinality(places) : Store!Part(content, places)[n] = content[g[n]]
<1> DEFINE count == Cardinality(places)
           rank == [i \in places |-> Store!Rank(places, i)]
           g == [n \in 1..count |-> CHOOSE i \in places : Store!Rank(places, i) = n]
<1>1. /\ IsFiniteSet(places) /\ count \in Nat /\ count <= Len(content)
      /\ \A i \in places : Store!Rank(places, i) \in 1..count
      /\ \A i, j \in places : i # j => Store!Rank(places, i) # Store!Rank(places, j)
  <2>1. Len(content) \in Nat
    OBVIOUS
  <2> QED
    BY <2>1, RankIs
<1>2. IsFiniteSet(1..count) /\ Cardinality(1..count) = count
  BY <1>1, FS_Interval
<1>3. rank \in Injection(places, 1..count)
  BY <1>1 DEF Injection, IsInjective
<1>4. rank \in Surjection(places, 1..count)
  <2> HIDE DEF rank
  <2> QED
    BY <1>2, <1>3, FS_Injection
<1>5. \A n \in 1..count : \E i \in places : Store!Rank(places, i) = n
  BY <1>4 DEF Surjection
<1>6. \A n \in 1..count : g[n] \in places /\ Store!Rank(places, g[n]) = n
  BY <1>5
<1>7. \A n, k \in 1..count : g[n] = g[k] => n = k
  BY <1>6
<1>8. Store!Part(content, places) = [n \in 1..count |-> content[g[n]]]
  BY CountsAgree DEF Store!Part
<1>9. g \in [1..count -> places]
  BY <1>6
<1>10. \A i \in places : content[i] \in Store!Records
  OBVIOUS
<1> HIDE DEF g, count
<1>11. Store!Part(content, places) \in Seq(Store!Records) /\ Len(Store!Part(content, places)) = count
  <2>1. \A n \in 1..count : content[g[n]] \in Store!Records
    BY <1>9, <1>10
  <2>2. Store!Part(content, places) \in [1..count -> Store!Records]
    BY <1>8, <2>1
  <2> QED
    BY <1>1, <2>2
<1> QED
  BY <1>1, <1>7, <1>8, <1>9, <1>11 DEF count

LEMMA UpsertKeeps ==
    ASSUME NEW content \in Seq(Store!Records), NEW r \in Store!Records
    PROVE  /\ Store!Upsert(content, r) \in Seq(Store!Records)
           /\ Distinct(content) => Distinct(Store!Upsert(content, r))
           /\ Validates(content) /\ r.version \in Store!Valid => Validates(Store!Upsert(content, r))
<1> DEFINE new == Store!Upsert(content, r)
<1>1. Len(content) \in Nat /\ \A i \in 1..Len(content) : content[i] \in Store!Records
  OBVIOUS
<1>2. CASE r.id \in Store!IdsOf(content)
  <2>1. new = [i \in 1..Len(content) |-> IF content[i].id = r.id THEN r ELSE content[i]]
    BY <1>2 DEF Store!Upsert
  <2>2. new \in Seq(Store!Records) /\ Len(new) = Len(content)
    <3>1. new \in [1..Len(content) -> Store!Records]
      BY <1>1, <2>1
    <3> QED
      BY <1>1, <3>1
  <2>3. \A i \in 1..Len(content) : /\ new[i].id = content[i].id
                                  /\ new[i].version \in {r.version, content[i].version}
    BY <2>1
  <2> HIDE DEF new
  <2>4. Distinct(content) => Distinct(new)
    BY <2>2, <2>3 DEF Distinct
  <2>5. Validates(content) /\ r.version \in Store!Valid => Validates(new)
    BY <2>2, <2>3 DEF Validates
  <2> QED
    BY <2>2, <2>4, <2>5 DEF new
<1>3. CASE r.id \notin Store!IdsOf(content)
  <2>1. new = Append(content, r)
    BY <1>3 DEF Store!Upsert
  <2>2. /\ new \in Seq(Store!Records) /\ Len(new) = Len(content) + 1
        /\ \A i \in 1..Len(content) : new[i] = content[i]
        /\ new[Len(content) + 1] = r
    BY <2>1
  <2>3. \A i \in 1..Len(content) : content[i].id # r.id
    BY <1>3, IdsAre
  <2>4. \A i \in 1..Len(new) : i \in 1..Len(content) \/ i = Len(content) + 1
    BY <1>1, <2>2
  <2> HIDE DEF new
  <2>5. Distinct(content) => Distinct(new)
    BY <2>2, <2>3, <2>4 DEF Distinct
  <2>6. Validates(content) /\ r.version \in Store!Valid => Validates(new)
    BY <2>2, <2>4 DEF Validates
  <2> QED
    BY <2>2, <2>5, <2>6 DEF new
<1> QED
  BY <1>2, <1>3

\* Of a file, a part is as good as the whole.
LEMMA PartKeeps ==
    ASSUME NEW content \in Seq(Store!Records), NEW places \in SUBSET (1..Len(content))
    PROVE  /\ Distinct(content) => Distinct(Store!Part(content, places))
           /\ Validates(content) => Validates(Store!Part(content, places))
<1> DEFINE part == Store!Part(content, places)
           count == Cardinality(places)
<1>1. PICK g \in [1..count -> places] :
         /\ \A n, k \in 1..count : g[n] = g[k] => n = k
         /\ \A n \in 1..count : part[n] = content[g[n]]
  BY PartIs
<1>2. Len(part) = count /\ \A n \in 1..count : g[n] \in 1..Len(content)
  BY PartIs
<1> HIDE DEF part, count
<1>3. Distinct(content) => Distinct(part)
  BY <1>1, <1>2 DEF Distinct
<1>4. Validates(content) => Validates(part)
  BY <1>1, <1>2 DEF Validates
<1> QED
  BY <1>3, <1>4 DEF part

LEMMA WithoutKeeps ==
    ASSUME NEW content \in Seq(Store!Records), NEW id
    PROVE  /\ Store!Without(content, id) \in Seq(Store!Records)
           /\ Len(Store!Without(content, id)) <= Len(content)
           /\ Distinct(content) => Distinct(Store!Without(content, id))
           /\ Validates(content) => Validates(Store!Without(content, id))
<1> DEFINE places == {i \in DOMAIN content : content[i].id # id}
<1>1. places \in SUBSET (1..Len(content)) /\ Store!Without(content, id) = Store!Part(content, places)
  BY DEF Store!Without
<1> HIDE DEF places
<1> QED
  BY <1>1, PartIs, PartKeeps

\* What is imported is new and valid, and no two of it have one id.
LEMMA ImportedIs ==
    ASSUME NEW content \in Seq(Store!Records), NEW records \in Seq(Store!Records)
    PROVE  /\ Store!Imported(content, records) \in Seq(Store!Records)
           /\ Distinct(Store!Imported(content, records))
           /\ Validates(Store!Imported(content, records))
           /\ \A i \in 1..Len(Store!Imported(content, records)) :
                 Store!Imported(content, records)[i].id \notin Store!IdsOf(content)
<1> DEFINE good == Store!Acceptable(content, records)
           firsts == {i \in good : \A j \in good : j < i => records[j].id # records[i].id}
           new == Store!Imported(content, records)
           count == Cardinality(firsts)
<1>1. good = {i \in 1..Len(records) :
                records[i].version \in Store!Valid /\ records[i].id \notin Store!IdsOf(content)}
  BY DEF Store!Acceptable
<1>2. firsts \in SUBSET (1..Len(records)) /\ new = Store!Part(records, firsts)
  BY <1>1 DEF Store!Imported
<1>3. \A i, j \in firsts : records[i].id = records[j].id => i = j
  <2>1. \A i, j \in firsts : i \in Nat /\ j \in Nat
    BY <1>2
  <2>2. \A i, j \in firsts : j < i => records[j].id # records[i].id
    OBVIOUS
  <2>3. \A i, j \in Nat : i = j \/ i < j \/ j < i
    OBVIOUS
  <2> HIDE DEF firsts
  <2> QED
    BY <2>1, <2>2, <2>3
<1>4. \A i \in firsts : records[i].version \in Store!Valid /\ records[i].id \notin Store!IdsOf(content)
  BY <1>1
<1> HIDE DEF good, firsts, new, count
<1>5. \E g \in [1..count -> firsts] :
         /\ \A n, k \in 1..count : g[n] = g[k] => n = k
         /\ \A n \in 1..count : Store!Part(records, firsts)[n] = records[g[n]]
  BY <1>2, PartIs DEF count
<1>6. PICK g \in [1..count -> firsts] :
         /\ \A n, k \in 1..count : g[n] = g[k] => n = k
         /\ \A n \in 1..count : new[n] = records[g[n]]
  BY <1>2, <1>5
<1>7. new \in Seq(Store!Records) /\ Len(new) = count
  BY <1>2, PartIs DEF count
<1>8. Distinct(new)
  <2> SUFFICES ASSUME NEW i \in 1..count, NEW j \in 1..count, new[i].id = new[j].id
               PROVE  i = j
    BY <1>7 DEF Distinct
  <2>1. g[i] \in firsts /\ g[j] \in firsts /\ records[g[i]].id = records[g[j]].id
    BY <1>6
  <2>2. g[i] = g[j]
    BY <1>3, <2>1
  <2> QED
    BY <1>6, <2>2
<1>9. Validates(new)
  BY <1>4, <1>6, <1>7 DEF Validates
<1>10. \A i \in 1..Len(new) : new[i].id \notin Store!IdsOf(content)
  BY <1>4, <1>6, <1>7
<1> QED
  BY <1>7, <1>8, <1>9, <1>10 DEF new

LEMMA ImportKeeps ==
    ASSUME NEW content \in Seq(Store!Records), NEW records \in Seq(Store!Records),
           Distinct(content), Validates(content)
    PROVE  LET all == content \o Store!Imported(content, records)
           IN  all \in Seq(Store!Records) /\ Distinct(all) /\ Validates(all)
<1> DEFINE new == Store!Imported(content, records)
           all == content \o new
<1>1. /\ new \in Seq(Store!Records) /\ Distinct(new) /\ Validates(new)
      /\ \A i \in 1..Len(new) : new[i].id \notin Store!IdsOf(content)
  BY ImportedIs
<1>2. \A i \in 1..Len(content) : content[i].id \in Store!IdsOf(content)
  BY IdsAre
<1> HIDE DEF new
<1>3. /\ all \in Seq(Store!Records) /\ Len(all) = Len(content) + Len(new)
      /\ \A i \in 1..Len(content) + Len(new) :
            all[i] = IF i <= Len(content) THEN content[i] ELSE new[i - Len(content)]
  BY <1>1, ConcatProperties
<1>4. Len(content) \in Nat /\ Len(new) \in Nat
  BY <1>1
<1> HIDE DEF all
<1>5. \A i \in 1..Len(all) :
         \/ i \in 1..Len(content) /\ all[i] = content[i]
         \/ i - Len(content) \in 1..Len(new) /\ all[i] = new[i - Len(content)]
  BY <1>3, <1>4
<1>6. Validates(all)
  BY <1>1, <1>5 DEF Validates
<1>7. Distinct(all)
  <2> SUFFICES ASSUME NEW i \in 1..Len(all), NEW j \in 1..Len(all), all[i].id = all[j].id
               PROVE  i = j
    BY DEF Distinct
  <2>1. CASE i \in 1..Len(content) /\ j \in 1..Len(content)
    BY <1>3, <1>4, <2>1 DEF Distinct
  <2>2. CASE i - Len(content) \in 1..Len(new) /\ j - Len(content) \in 1..Len(new)
    <3>1. all[i] = new[i - Len(content)] /\ all[j] = new[j - Len(content)]
      BY <1>3, <1>4, <2>2
    <3>2. i - Len(content) = j - Len(content)
      BY <1>1, <2>2, <3>1 DEF Distinct
    <3> QED
      BY <1>3, <1>4, <3>2
  <2>3. CASE i \in 1..Len(content) /\ j - Len(content) \in 1..Len(new)
    <3>1. all[i] = content[i] /\ all[j] = new[j - Len(content)]
      BY <1>3, <1>4, <2>3
    <3> QED
      BY <1>1, <1>2, <2>3, <3>1
  <2>4. CASE j \in 1..Len(content) /\ i - Len(content) \in 1..Len(new)
    <3>1. all[j] = content[j] /\ all[i] = new[i - Len(content)]
      BY <1>3, <1>4, <2>4
    <3> QED
      BY <1>1, <1>2, <2>4, <3>1
  <2> QED
    BY <1>5, <2>1, <2>2, <2>3, <2>4
<1> QED
  BY <1>3, <1>6, <1>7 DEF all, new

LEMMA BoundedIs ==
    ASSUME NEW events \in Seq(Store!Records)
    PROVE  Store!Bounded(events) \in Seq(Store!Records) /\ Len(Store!Bounded(events)) <= MaxEvents
<1>1. Len(events) \in Nat /\ MaxEvents \in Nat
  BY ServicesAssumption
<1>2. CASE Len(events) > MaxEvents
  <2> DEFINE first == Len(events) - MaxEvents + 1
  <2>1. first \in Int /\ Len(events) \in Int /\ \A i \in first..Len(events) : events[i] \in Store!Records
    BY <1>1, <1>2
  <2>2. /\ SubSeq(events, first, Len(events)) \in Seq(Store!Records)
        /\ Len(SubSeq(events, first, Len(events))) =
              IF first <= Len(events) THEN Len(events) - first + 1 ELSE 0
    BY <2>1, SubSeqProperties
  <2>3. Store!Bounded(events) = SubSeq(events, first, Len(events))
    BY <1>2 DEF Store!Bounded
  <2> QED
    BY <1>1, <2>2, <2>3
<1>3. CASE ~(Len(events) > MaxEvents)
  BY <1>1, <1>3 DEF Store!Bounded
<1> QED
  BY <1>2, <1>3

-----------------------------------------------------------------------------
\* A store.

\* What a store can hold, and open again.
Holds(content) ==
    IF store = "audit" THEN Len(content) <= MaxEvents ELSE Distinct(content) /\ Validates(content)

\* What is known of the file whether or not a process runs.
FileAgrees ==
    /\ disk.there # "yes" => disk.content = <<>>
    /\ store # "audit" => Distinct(disk.content)

\* A step is under way in a process only; what it would go back to is the file.
ProcessAgrees ==
    /\ step = "idle" => previous = <<>>
    /\ running = "off" => step = "idle"
    /\ running = "starting" =>
          step # "idle" /\ store = "sessions" /\ previous = <<>> /\ disk.content = <<>>
    /\ running # "off" =>
          /\ disk.there # "unreadable"
          /\ Holds(memory) /\ Holds(previous) /\ Holds(disk.content)
    /\ running = "on" =>
          (IF step = "idle" THEN memory ELSE previous)
             = IF disk.there = "yes" THEN disk.content ELSE Store!Defaults

StoreInductive == Store!StoreTypeOK /\ FileAgrees /\ ProcessAgrees

LEMMA RecordsAre ==
    /\ \A id \in Ids : Store!Fresh(id, 1) \in Store!Records
    /\ 1 \in Store!Valid
    /\ \A id, v : Store!Fresh(id, v).id = id /\ Store!Fresh(id, v).version = v
BY ServicesAssumption DEF Store!Fresh, Store!Records, Store!Valid

LEMMA OneHolds ==
    ASSUME NEW r \in Store!Records
    PROVE  /\ <<r>> \in Seq(Store!Records) /\ Distinct(<<r>>)
           /\ r.version \in Store!Valid => Validates(<<r>>)
           /\ Len(<<r>>) = 1
BY DEF Distinct, Validates

LEMMA NoneHolds ==
    <<>> \in Seq(Store!Records) /\ Distinct(<<>>) /\ Validates(<<>>) /\ Len(<<>>) = 0
BY DEF Distinct, Validates

LEMMA DefaultsHold ==
    Store!Defaults \in Seq(Store!Records) /\ Holds(Store!Defaults) /\ Holds(<<>>)
<1>1. PICK id : id \in Ids /\ id = Settings
  BY ServicesAssumption
<1>2. /\ <<Store!Fresh(id, 1)>> \in Seq(Store!Records)
      /\ Distinct(<<Store!Fresh(id, 1)>>) /\ Validates(<<Store!Fresh(id, 1)>>)
  BY <1>1, RecordsAre, OneHolds
<1> QED
  BY <1>1, <1>2, NoneHolds, ServicesAssumption DEF Store!Defaults, Holds

LEMMA StoreInitEstablishes == Store!StoreInit => StoreInductive
<1> SUFFICES ASSUME Store!StoreInit PROVE StoreInductive
  OBVIOUS
<1>1. /\ temporary = "none" /\ step = "idle" /\ memory = <<>> /\ previous = <<>>
      /\ answer = "none" /\ running = "off" /\ store \in Store!Stores
  BY DEF Store!StoreInit, Store!FileInit
<1>2. /\ disk.there \in {"no", "yes", "unreadable"}
      /\ disk.content \in Seq(Store!Records) /\ Distinct(disk.content)
      /\ disk.there # "yes" => disk.content = <<>>
  <2>1. \/ disk.there \in {"no", "yes", "unreadable"} /\ disk.content = <<>>
        \/ disk.there = "yes" /\ \E i \in Ids : disk.content = <<Store!Fresh(i, 1)>>
    BY DEF Store!StoreInit, Store!FileInit
  <2>2. CASE disk.there = "yes" /\ \E i \in Ids : disk.content = <<Store!Fresh(i, 1)>>
    BY <2>2, RecordsAre, OneHolds
  <2> QED
    BY <2>1, <2>2, NoneHolds
<1> QED
  BY <1>1, <1>2 DEF StoreInductive, Store!StoreTypeOK, Store!FileTypeOK, FileAgrees, ProcessAgrees

\* The facts without the types.
LEMMA StoreIs ==
    ASSUME StoreInductive
    PROVE  /\ disk.there \in {"no", "yes", "unreadable"} /\ disk.content \in Seq(Store!Records)
           /\ Store!StoreTypeOK /\ FileAgrees /\ ProcessAgrees
           /\ store \in Store!Stores /\ running \in {"off", "starting", "on"}
           /\ step \in {"idle", "opening", "writing", "replacing"}
           /\ memory \in Seq(Store!Records) /\ previous \in Seq(Store!Records)
BY DEF StoreInductive, Store!StoreTypeOK, Store!FileTypeOK

LEMMA StartsKeeps ==
    ASSUME StoreInductive, Store!Starts
    PROVE  StoreInductive'
<1> DEFINE found == IF disk.there = "no" THEN Store!Defaults ELSE disk.content
<1>1. /\ running = "off" /\ step = "idle" /\ previous = <<>> /\ Store!Opens
      /\ UNCHANGED <<disk, temporary, answer, store>>
  BY StoreIs DEF Store!Starts, ProcessAgrees
<1>2. disk.there # "unreadable" /\ Holds(disk.content)
  <2>1. disk.there # "unreadable" /\ (store # "audit" => Store!AllValid)
        /\ (store = "audit" => Len(disk.content) <= MaxEvents)
    BY <1>1, StoreIs DEF Store!Opens, Store!OpensSessions, Store!OpensSettings, Store!OpensSnippets,
       Store!OpensMacros, Store!OpensAudit, Store!Reads, Store!Stores
  <2>2. store # "audit" => Validates(disk.content) /\ Distinct(disk.content)
    BY <2>1, StoreIs, IdsAre DEF Store!AllValid, Validates, FileAgrees
  <2> QED
    BY <2>1, <2>2 DEF Holds
<1>3. found \in Seq(Store!Records) /\ Holds(found) /\ Holds(<<>>)
      /\ found = IF disk.there = "yes" THEN disk.content ELSE Store!Defaults
  BY <1>2, DefaultsHold, StoreIs
<1>4. \A content : Holds(content)' <=> Holds(content)
  BY <1>1 DEF Holds
<1>5. FileAgrees'
  BY <1>1, StoreIs DEF FileAgrees
<1>6. Store!Defaults' = Store!Defaults
  BY <1>1 DEF Store!Defaults
<1> HIDE DEF found
<1>7. CASE store = "sessions" /\ found = <<>>
  <2>1. /\ running' = "starting" /\ step' = "opening" /\ previous' = <<>>
        /\ memory' = <<Store!Fresh(Local, 1)>>
    BY <1>7 DEF Store!Starts, found
  <2>2. memory' \in Seq(Store!Records) /\ Distinct(memory') /\ Validates(memory')
    <3>1. PICK id : id = Local /\ id \in Ids
      BY ServicesAssumption
    <3> QED
      BY <2>1, <3>1, RecordsAre, OneHolds
  <2>3. disk.content = <<>>
    BY <1>3, <1>7, StoreIs DEF FileAgrees
  <2>4. Holds(memory') /\ Holds(previous')
    BY <1>3, <1>7, <2>1, <2>2 DEF Holds
  <2>5. ProcessAgrees'
    BY <1>1, <1>2, <1>4, <1>7, <2>1, <2>3, <2>4 DEF ProcessAgrees, Holds
  <2>6. Store!StoreTypeOK'
    BY <1>1, <2>1, <2>2, NoneHolds, StoreIs DEF Store!StoreTypeOK, Store!FileTypeOK
  <2> QED
    BY <1>5, <2>5, <2>6 DEF StoreInductive
<1>8. CASE ~(store = "sessions" /\ found = <<>>)
  <2>1. running' = "on" /\ memory' = found /\ UNCHANGED <<step, previous>>
    BY <1>8 DEF Store!Starts, found
  <2>2. ProcessAgrees'
    BY <1>1, <1>2, <1>3, <1>4, <1>6, <2>1 DEF ProcessAgrees, Holds
  <2>3. Store!StoreTypeOK'
    BY <1>1, <1>3, <2>1, StoreIs DEF Store!StoreTypeOK, Store!FileTypeOK
  <2> QED
    BY <1>5, <2>2, <2>3 DEF StoreInductive
<1> QED
  BY <1>7, <1>8

LEMMA StopsKeeps ==
    ASSUME StoreInductive, Store!Stops
    PROVE  StoreInductive'
<1>1. /\ running' = "off" /\ step' = "idle" /\ memory' = <<>> /\ previous' = <<>> /\ answer' = "none"
      /\ UNCHANGED <<disk, temporary, store>>
  BY DEF Store!Stops, Store!Forgets
<1>2. FileAgrees' /\ ProcessAgrees'
  BY <1>1, StoreIs DEF FileAgrees, ProcessAgrees
<1>3. Store!StoreTypeOK'
  BY <1>1, NoneHolds, StoreIs DEF Store!StoreTypeOK, Store!FileTypeOK
<1> QED
  BY <1>2, <1>3 DEF StoreInductive

\* A step of persist that fails takes back what its operation did; the last one makes
\* the file what memory is.
LEMMA StoreWritesKeeps ==
    ASSUME StoreInductive, Store!StoreWrites
    PROVE  StoreInductive'
<1>1. running # "off" /\ step # "idle" /\ UNCHANGED store
  BY DEF Store!StoreWrites, Store!FileSteps, Store!OpensTemporary, Store!WritesTemporary, Store!ReplacesFile
<1>2. \A content : Holds(content)' <=> Holds(content)
  BY <1>1 DEF Holds
<1>3. Store!Defaults' = Store!Defaults
  BY <1>1 DEF Store!Defaults
<1>4. CASE step' \in {"writing", "replacing"} /\ UNCHANGED <<disk, memory, previous, answer>>
           /\ temporary' \in {"partial", "whole"}
  <2>1. running' = running
    <3>1. step' # "idle"
      BY <1>4
    <3> QED
      BY <3>1 DEF Store!StoreWrites
  <2>2. FileAgrees' /\ ProcessAgrees'
    BY <1>1, <1>2, <1>3, <1>4, <2>1, StoreIs DEF FileAgrees, ProcessAgrees, Holds
  <2>3. Store!StoreTypeOK'
    BY <1>1, <1>4, <2>1, StoreIs DEF Store!StoreTypeOK, Store!FileTypeOK
  <2> QED
    BY <2>2, <2>3 DEF StoreInductive
<1>5. CASE Store!Failed
  <2>1. /\ step' = "idle" /\ temporary' = "none" /\ memory' = previous /\ previous' = <<>>
        /\ answer' = "error" /\ disk' = disk
    BY <1>5 DEF Store!Failed, Store!Undone
  <2>2. running' = IF running = "starting" THEN "off" ELSE running
    BY <2>1 DEF Store!StoreWrites
  <2>3. FileAgrees' /\ ProcessAgrees'
    BY <1>1, <1>2, <1>3, <2>1, <2>2, DefaultsHold, StoreIs DEF FileAgrees, ProcessAgrees, Holds
  <2>4. Store!StoreTypeOK'
    BY <1>1, <2>1, <2>2, NoneHolds, StoreIs DEF Store!StoreTypeOK, Store!FileTypeOK
  <2> QED
    BY <2>3, <2>4 DEF StoreInductive
<1>6. CASE /\ disk' = [there |-> "yes", content |-> memory] /\ temporary' = "none" /\ step' = "idle"
           /\ previous' = <<>> /\ answer' = "ok" /\ memory' = memory
  <2>1. running' = "on" /\ disk'.there = "yes" /\ disk'.content = memory
    BY <1>6 DEF Store!StoreWrites
  <2>2. Holds(memory) /\ Holds(<<>>)
    BY <1>1, DefaultsHold, StoreIs DEF ProcessAgrees
  <2>3. FileAgrees'
    BY <1>1, <2>1, <2>2 DEF FileAgrees, Holds
  <2>4. ProcessAgrees'
    BY <1>1, <1>2, <1>6, <2>1, <2>2 DEF ProcessAgrees, Holds
  <2>5. Store!StoreTypeOK'
    BY <1>1, <1>6, <2>1, NoneHolds, StoreIs DEF Store!StoreTypeOK, Store!FileTypeOK
  <2> QED
    BY <2>3, <2>4, <2>5 DEF StoreInductive
<1>7. \/ step' \in {"writing", "replacing"} /\ UNCHANGED <<disk, memory, previous, answer>>
           /\ temporary' \in {"partial", "whole"}
      \/ Store!Failed
      \/ /\ disk' = [there |-> "yes", content |-> memory] /\ temporary' = "none" /\ step' = "idle"
         /\ previous' = <<>> /\ answer' = "ok" /\ memory' = memory
  BY DEF Store!StoreWrites, Store!FileSteps, Store!OpensTemporary, Store!WritesTemporary, Store!ReplacesFile
<1> QED
  BY <1>4, <1>5, <1>6, <1>7

\* An operation that changes memory to something the store holds, ...
LEMMA PersistsKeeps ==
    ASSUME StoreInductive, running = "on", UNCHANGED <<store, running>>,
           NEW content \in Seq(Store!Records), Holds(content), Store!Persists(content)
    PROVE  StoreInductive'
<1>1. /\ step = "idle" /\ step' = "opening" /\ previous' = memory /\ memory' = content
      /\ answer' = "none" /\ UNCHANGED <<disk, temporary>>
  BY DEF Store!Persists
<1>2. \A c : Holds(c)' <=> Holds(c)
  BY DEF Holds
<1>3. Store!Defaults' = Store!Defaults
  BY DEF Store!Defaults
<1>4. FileAgrees' /\ ProcessAgrees'
  BY <1>1, <1>2, <1>3, StoreIs DEF FileAgrees, ProcessAgrees, Holds
<1>5. Store!StoreTypeOK'
  BY <1>1, StoreIs DEF Store!StoreTypeOK, Store!FileTypeOK
<1> QED
  BY <1>4, <1>5 DEF StoreInductive

\* ... and one that changes nothing.
LEMMA AnswersKeeps ==
    ASSUME StoreInductive, running = "on", UNCHANGED <<store, running>>,
           NEW how \in {"ok", "error"}, Store!Answers(how)
    PROVE  StoreInductive'
<1>1. answer' = how /\ UNCHANGED <<disk, temporary, step, memory, previous>>
  BY DEF Store!Answers
<1>2. \A c : Holds(c)' <=> Holds(c)
  BY DEF Holds
<1>3. Store!Defaults' = Store!Defaults
  BY DEF Store!Defaults
<1>4. FileAgrees' /\ ProcessAgrees'
  BY <1>1, <1>2, <1>3, StoreIs DEF FileAgrees, ProcessAgrees, Holds
<1>5. Store!StoreTypeOK'
  BY <1>1, StoreIs DEF Store!StoreTypeOK, Store!FileTypeOK
<1> QED
  BY <1>4, <1>5 DEF StoreInductive

LEMMA SavesKeeps ==
    ASSUME StoreInductive, running = "on", UNCHANGED <<store, running>>, store # "audit",
           NEW r \in Store!Records,
           \/ Store!SavesRecord(r) \/ Store!SavesForm(r)
           \/ r.version \in Store!Valid /\ Store!TouchesSession(r)
    PROVE  StoreInductive'
<1>1. memory \in Seq(Store!Records) /\ Distinct(memory) /\ Validates(memory)
  BY StoreIs DEF ProcessAgrees, Holds
<1>2. CASE r.version \in Store!Valid /\ Store!Persists(Store!Upsert(memory, r))
  <2>1. Store!Upsert(memory, r) \in Seq(Store!Records) /\ Holds(Store!Upsert(memory, r))
    BY <1>1, <1>2, UpsertKeeps DEF Holds
  <2> QED
    BY <1>2, <2>1, PersistsKeeps
<1>3. CASE \E how \in {"ok", "error"} : Store!Answers(how)
  BY <1>3, AnswersKeeps
<1> QED
  BY <1>2, <1>3 DEF Store!SavesRecord, Store!SavesForm, Store!TouchesSession

LEMMA DeletesKeeps ==
    ASSUME StoreInductive, running = "on", UNCHANGED <<store, running>>, store # "audit",
           NEW id \in Ids, Store!DeletesRecord(id)
    PROVE  StoreInductive'
<1>1. memory \in Seq(Store!Records) /\ Distinct(memory) /\ Validates(memory)
  BY StoreIs DEF ProcessAgrees, Holds
<1>2. CASE Store!Persists(Store!Without(memory, id))
  <2>1. Store!Without(memory, id) \in Seq(Store!Records) /\ Holds(Store!Without(memory, id))
    BY <1>1, WithoutKeeps DEF Holds
  <2> QED
    BY <1>2, <2>1, PersistsKeeps
<1>3. CASE Store!Answers("ok")
  BY <1>3, AnswersKeeps
<1> QED
  BY <1>2, <1>3 DEF Store!DeletesRecord

LEMMA ImportsKeeps ==
    ASSUME StoreInductive, running = "on", UNCHANGED <<store, running>>, store # "audit",
           NEW p \in Store!Records, NEW q \in Store!Records, Store!ImportsSessions(<<p, q>>)
    PROVE  StoreInductive'
<1> DEFINE new == Store!Imported(memory, <<p, q>>)
<1>1. memory \in Seq(Store!Records) /\ Distinct(memory) /\ Validates(memory)
      /\ <<p, q>> \in Seq(Store!Records)
  BY StoreIs DEF ProcessAgrees, Holds
<1>2. CASE Store!Persists(memory \o new)
  <2>1. memory \o new \in Seq(Store!Records) /\ Holds(memory \o new)
    BY <1>1, ImportKeeps DEF Holds
  <2> QED
    BY <1>2, <2>1, PersistsKeeps
<1>3. CASE Store!Answers("ok")
  BY <1>3, AnswersKeeps
<1> QED
  BY <1>2, <1>3 DEF Store!ImportsSessions

LEMMA SettingsKeeps ==
    ASSUME StoreInductive, running = "on", UNCHANGED <<store, running>>, store # "audit",
           Store!SettingsOperations
    PROVE  StoreInductive'
<1>1. PICK v \in Versions :
         IF v \in Store!Valid THEN Store!Persists(<<Store!Fresh(Settings, v)>>) ELSE Store!Answers("error")
  BY DEF Store!SettingsOperations
<1>2. CASE v \in Store!Valid /\ Store!Persists(<<Store!Fresh(Settings, v)>>)
  <2> DEFINE r == Store!Fresh(Settings, v)
  <2>1. r \in Store!Records /\ r.version = v
    BY ServicesAssumption DEF Store!Fresh, Store!Records
  <2> HIDE DEF r
  <2>2. <<r>> \in Seq(Store!Records) /\ Holds(<<r>>)
    BY <1>2, <2>1, OneHolds DEF Holds
  <2> QED
    BY <1>2, <2>2, PersistsKeeps DEF r
<1>3. CASE Store!Answers("error")
  BY <1>3, AnswersKeeps
<1> QED
  BY <1>1, <1>2, <1>3

LEMMA AuditKeeps ==
    ASSUME StoreInductive, running = "on", UNCHANGED <<store, running>>, store = "audit",
           Store!AuditOperations
    PROVE  StoreInductive'
<1>1. CASE \E id \in Ids : Store!Persists(Store!Bounded(Append(memory, Store!Fresh(id, 1))))
  <2>1. PICK id \in Ids : Store!Persists(Store!Bounded(Append(memory, Store!Fresh(id, 1))))
    BY <1>1
  <2> DEFINE content == Store!Bounded(Append(memory, Store!Fresh(id, 1)))
  <2>2. Append(memory, Store!Fresh(id, 1)) \in Seq(Store!Records)
    BY RecordsAre, StoreIs
  <2>3. content \in Seq(Store!Records) /\ Holds(content)
    BY <2>2, BoundedIs DEF Holds
  <2> QED
    BY <2>1, <2>3, PersistsKeeps
<1>2. CASE Store!Persists(<<>>)
  BY <1>2, NoneHolds, DefaultsHold, PersistsKeeps
<1> QED
  BY <1>1, <1>2 DEF Store!AuditOperations

LEMMA StoreNextKeeps == StoreInductive /\ [Store!StoreNext]_storeVars => StoreInductive'
<1> SUFFICES ASSUME StoreInductive, [Store!StoreNext]_storeVars PROVE StoreInductive'
  OBVIOUS
<1>1. CASE Store!Operates
  <2>1. running = "on" /\ UNCHANGED <<store, running>>
    BY <1>1 DEF Store!Operates
  <2>2. \/ store # "audit" /\ Store!SessionOperations
        \/ store # "audit" /\ Store!SnippetOperations
        \/ store # "audit" /\ Store!MacroOperations
        \/ store # "audit" /\ Store!SettingsOperations
        \/ store = "audit" /\ Store!AuditOperations
    BY <1>1 DEF Store!Operates
  <2> QED
    BY <2>1, <2>2, SavesKeeps, DeletesKeeps, ImportsKeeps, SettingsKeeps, AuditKeeps
       DEF Store!SessionOperations, Store!SnippetOperations, Store!MacroOperations
<1>2. CASE UNCHANGED storeVars
  <2>1. UNCHANGED <<disk, temporary, step, memory, previous, answer, store, running>>
    BY <1>2 DEF storeVars
  <2>2. \A c : Holds(c)' <=> Holds(c)
    BY <2>1 DEF Holds
  <2>3. Store!Defaults' = Store!Defaults
    BY <2>1 DEF Store!Defaults
  <2> QED
    BY <2>1, <2>2, <2>3 DEF StoreInductive, Store!StoreTypeOK, Store!FileTypeOK, FileAgrees, ProcessAgrees, Holds
<1> QED
  BY <1>1, <1>2, StartsKeeps, StopsKeeps, StoreWritesKeeps DEF Store!StoreNext

LEMMA StoreIsSafe == StoreInductive => Store!StoresAreSafe
<1> SUFFICES ASSUME StoreInductive PROVE Store!StoresAreSafe
  OBVIOUS
<1>1. running = "on" /\ step = "idle" =>
         memory = IF disk.there = "yes" THEN disk.content ELSE Store!Defaults
  BY StoreIs DEF ProcessAgrees
<1>2. running # "off" => Store!Opens \/ Len(disk.content) > MaxRecords
  <2> SUFFICES ASSUME running # "off", ~(Len(disk.content) > MaxRecords)
               PROVE  Store!Opens
    OBVIOUS
  <2>1. disk.there # "unreadable" /\ Holds(disk.content)
    BY StoreIs DEF ProcessAgrees
  <2>2. Store!Reads
    BY <2>1, ServicesAssumption, StoreIs DEF Store!Reads
  <2>3. store # "audit" => Store!AllValid
    BY <2>1, IdsAre, StoreIs DEF Holds, Validates, Store!AllValid
  <2> QED
    BY <2>1, <2>2, <2>3, StoreIs DEF Holds, Store!Opens, Store!OpensSessions, Store!OpensSettings,
       Store!OpensSnippets, Store!OpensMacros, Store!OpensAudit, Store!Stores
<1>3. store # "audit" => Len(disk.content) = Store!Cardinality(Store!IdsOf(disk.content))
  BY CountsAgree, DistinctCounted, StoreIs DEF FileAgrees
<1> QED
  BY <1>1, <1>2, <1>3 DEF Store!StoresAreSafe

-----------------------------------------------------------------------------
\* The portable vault.

\* Its instance has operators of its own, the same as those of the stores.
LEMMA RecordsAgree == Vault!Records = Store!Records /\ Vault!Valid = Store!Valid
BY DEF Vault!Records, Store!Records, Vault!Valid, Store!Valid

LEMMA OperatorsAgree ==
    ASSUME NEW content, NEW r, NEW id
    PROVE  /\ Vault!Upsert(content, r) = Store!Upsert(content, r)
           /\ Vault!Without(content, id) = Store!Without(content, id)
           /\ Vault!IdsOf(content) = Store!IdsOf(content)
           /\ Vault!ToSet(content) = Store!ToSet(content)
<1>2. \A c, S : Vault!Part(c, S) = Store!Part(c, S)
  BY DEF Vault!Part, Store!Part, Vault!Rank, Store!Rank, Vault!Cardinality, Store!Cardinality
<1>3. Vault!Without(content, id) = Store!Without(content, id)
  BY <1>2 DEF Vault!Without, Store!Without
<1>4. Vault!IdsOf(content) = Store!IdsOf(content) /\ Vault!ToSet(content) = Store!ToSet(content)
  BY DEF Vault!IdsOf, Store!IdsOf, Vault!ToSet, Store!ToSet
<1>5. Vault!Upsert(content, r) = Store!Upsert(content, r)
  BY <1>4 DEF Vault!Upsert, Store!Upsert
<1> QED
  BY <1>3, <1>4, <1>5

\* What persist accepts and open accepts again.
VaultHolds(content) == Len(content) <= MaxCredentials /\ Validates(content)

\* The file fits.  A vault that is being created has no file yet and nothing in it; one
\* that is being written is open; one that is open has the passphrase of its file, and
\* between operations its content.
VaultAgrees ==
    /\ VaultHolds(vaultDisk.content)
    /\ creating => vaultStep # "idle" /\ vaultDisk.there = "no" /\ vaultMemory = <<>>
    /\ vaultStep # "idle" /\ ~creating =>
          key # "none" /\ vaultPrevious = vaultDisk.content /\ VaultHolds(vaultMemory)
    /\ key # "none" /\ ~creating => vaultDisk.there = "yes" /\ key = seal
    /\ key # "none" /\ vaultStep = "idle" => vaultMemory = vaultDisk.content
    /\ vaultStep # "idle" => vaultAnswer = "none"

VaultInductive == Vault!VaultTypeOK /\ VaultAgrees

LEMMA VaultIs ==
    ASSUME VaultInductive
    PROVE  /\ vaultDisk.there \in {"no", "yes", "unreadable"}
           /\ vaultDisk.content \in Seq(Store!Records)
           /\ vaultTemporary \in {"none", "partial", "whole"}
           /\ vaultStep \in {"idle", "opening", "writing", "replacing"}
           /\ vaultMemory \in Seq(Store!Records) /\ vaultPrevious \in Seq(Store!Records)
           /\ vaultAnswer \in {"none", "ok", "error"}
           /\ {seal, key} \subseteq Passphrases \cup {"none"}
           /\ creating \in BOOLEAN /\ platform \subseteq Ids
           /\ VaultAgrees
BY RecordsAgree DEF VaultInductive, Vault!VaultTypeOK, Vault!FileTypeOK

LEMMA VaultTyped ==
    ASSUME /\ vaultDisk'.there \in {"no", "yes", "unreadable"}
           /\ vaultDisk'.content \in Seq(Store!Records)
           /\ vaultTemporary' \in {"none", "partial", "whole"}
           /\ vaultStep' \in {"idle", "opening", "writing", "replacing"}
           /\ vaultMemory' \in Seq(Store!Records) /\ vaultPrevious' \in Seq(Store!Records)
           /\ vaultAnswer' \in {"none", "ok", "error"}
           /\ {seal, key}' \subseteq Passphrases \cup {"none"}
           /\ creating' \in BOOLEAN /\ platform' \subseteq Ids
           /\ VaultAgrees'
    PROVE  VaultInductive'
BY RecordsAgree DEF VaultInductive, Vault!VaultTypeOK, Vault!FileTypeOK

LEMMA VaultInitEstablishes == Vault!VaultInit => VaultInductive
<1> SUFFICES ASSUME Vault!VaultInit PROVE VaultInductive
  OBVIOUS
<1>1. /\ vaultTemporary = "none" /\ vaultStep = "idle" /\ vaultMemory = <<>>
      /\ vaultPrevious = <<>> /\ vaultAnswer = "none" /\ key = "none" /\ creating = FALSE
      /\ seal \in Passphrases \cup {"none"} /\ platform \subseteq Ids
  BY DEF Vault!VaultInit, Vault!FileInit
<1>2. /\ vaultDisk.there \in {"no", "yes", "unreadable"}
      /\ vaultDisk.content \in Seq(Store!Records) /\ VaultHolds(vaultDisk.content)
  <2>1. \/ vaultDisk.there \in {"no", "yes", "unreadable"} /\ vaultDisk.content = <<>>
        \/ vaultDisk.there = "yes" /\ \E i \in Ids : vaultDisk.content = <<Store!Fresh(i, 1)>>
    BY DEF Vault!VaultInit, Vault!FileInit, Vault!Fresh, Store!Fresh
  <2>2. CASE vaultDisk.there = "yes" /\ \E i \in Ids : vaultDisk.content = <<Store!Fresh(i, 1)>>
    BY <2>2, RecordsAre, OneHolds, ServicesAssumption DEF VaultHolds
  <2>3. CASE vaultDisk.there \in {"no", "yes", "unreadable"} /\ vaultDisk.content = <<>>
    BY <2>3, NoneHolds, ServicesAssumption DEF VaultHolds
  <2> QED
    BY <2>1, <2>2, <2>3, NoneHolds
<1>3. VaultAgrees
  BY <1>1, <1>2 DEF VaultAgrees
<1> QED
  BY <1>1, <1>2, <1>3, NoneHolds, OperatorsAgree, RecordsAgree DEF VaultInductive, Vault!VaultTypeOK, Vault!FileTypeOK

\* An open vault between two operations.
LEMMA OpenVault ==
    ASSUME VaultInductive, vaultStep = "idle"
    PROVE  /\ creating = FALSE /\ VaultHolds(vaultDisk.content)
           /\ key # "none" => /\ vaultDisk.there = "yes" /\ key = seal
                              /\ vaultMemory = vaultDisk.content
BY VaultIs DEF VaultAgrees

LEMMA CreatesKeeps ==
    ASSUME VaultInductive, NEW p \in Passphrases, Vault!Creates(p)
    PROVE  VaultInductive'
<1>1. vaultStep = "idle" /\ UNCHANGED <<vaultDisk, vaultTemporary, seal, platform>>
  BY DEF Vault!Creates, Vault!Idle, Vault!Persists, Vault!Answers
<1>2. CASE Vault!MayCreate
  <2>1. /\ vaultStep' = "opening" /\ vaultPrevious' = vaultMemory /\ vaultMemory' = <<>>
        /\ vaultAnswer' = "none" /\ creating' = TRUE /\ key' = p /\ vaultDisk.there = "no"
    BY <1>2 DEF Vault!Creates, Vault!Persists, Vault!MayCreate
  <2>2. VaultAgrees'
    BY <1>1, <2>1, VaultIs DEF VaultAgrees, VaultHolds
  <2> QED
    BY <1>1, <2>1, <2>2, NoneHolds, VaultIs, VaultTyped
<1>3. CASE ~Vault!MayCreate
  <2>1. /\ vaultAnswer' = "error" /\ UNCHANGED <<vaultStep, vaultPrevious, vaultMemory, creating, key>>
    BY <1>3 DEF Vault!Creates, Vault!Answers
  <2>2. VaultAgrees'
    BY <1>1, <2>1, VaultIs DEF VaultAgrees, VaultHolds
  <2> QED
    BY <1>1, <2>1, <2>2, VaultIs, VaultTyped
<1> QED
  BY <1>2, <1>3

LEMMA UnlocksKeeps ==
    ASSUME VaultInductive, NEW p \in Passphrases, Vault!Unlocks(p)
    PROVE  VaultInductive'
<1>1. /\ vaultStep = "idle"
      /\ UNCHANGED <<vaultDisk, vaultTemporary, vaultStep, vaultPrevious, seal, creating, platform>>
  BY DEF Vault!Unlocks, Vault!Idle, Vault!Answers
<1>2. \/ /\ vaultDisk.there = "yes" /\ p = seal /\ vaultMemory' = vaultDisk.content
         /\ key' = p /\ vaultAnswer' = "ok"
      \/ vaultAnswer' = "error" /\ UNCHANGED <<vaultMemory, key>>
  BY DEF Vault!Unlocks, Vault!Answers
<1>3. VaultAgrees'
  BY <1>1, <1>2, VaultIs DEF VaultAgrees, VaultHolds
<1> QED
  BY <1>1, <1>2, <1>3, VaultIs, VaultTyped

LEMMA LocksKeeps ==
    ASSUME VaultInductive, Vault!Locks
    PROVE  VaultInductive'
<1>1. /\ vaultStep = "idle" /\ key' = "none" /\ vaultMemory' = <<>> /\ vaultAnswer' = "ok"
      /\ UNCHANGED <<vaultDisk, vaultTemporary, vaultStep, vaultPrevious, seal, creating, platform>>
  BY DEF Vault!Locks, Vault!Idle
<1>2. VaultAgrees'
  BY <1>1, VaultIs DEF VaultAgrees, VaultHolds
<1> QED
  BY <1>1, <1>2, NoneHolds, VaultIs, VaultTyped

LEMMA ChangesKeep ==
    ASSUME VaultInductive,
           \/ \E r \in Store!Records : Vault!PutsCredential(r)
           \/ \E id \in Ids : Vault!DeletesCredential(id)
    PROVE  VaultInductive'
<1>1. /\ vaultStep = "idle" /\ creating = FALSE
      /\ UNCHANGED <<vaultDisk, vaultTemporary, seal, key, creating, platform>>
  BY OpenVault DEF Vault!PutsCredential, Vault!DeletesCredential, Vault!Idle, Vault!Persists, Vault!Answers
<1>2. ASSUME NEW content \in Seq(Store!Records), Vault!Persists(content), VaultHolds(content), key # "none"
      PROVE  VaultInductive'
  <2>1. /\ vaultStep' = "opening" /\ vaultPrevious' = vaultMemory /\ vaultMemory' = content
        /\ vaultAnswer' = "none"
    BY <1>2 DEF Vault!Persists
  <2>2. VaultAgrees'
    BY <1>1, <1>2, <2>1, OpenVault DEF VaultAgrees, VaultHolds
  <2> QED
    BY <1>1, <2>1, <2>2, VaultIs, VaultTyped
<1>3. ASSUME NEW how \in {"ok", "error"}, Vault!Answers(how)
      PROVE  VaultInductive'
  <2>1. vaultAnswer' = how /\ UNCHANGED <<vaultStep, vaultPrevious, vaultMemory>>
    BY <1>3 DEF Vault!Answers
  <2>2. VaultAgrees'
    BY <1>1, <2>1, VaultIs DEF VaultAgrees, VaultHolds
  <2> QED
    BY <1>1, <2>1, <2>2, VaultIs, VaultTyped
<1>4. ASSUME key # "none" PROVE vaultMemory \in Seq(Store!Records) /\ VaultHolds(vaultMemory)
  BY <1>1, <1>4, OpenVault, VaultIs
<1>5. ASSUME NEW r \in Store!Records, Vault!PutsCredential(r)
      PROVE  VaultInductive'
  <2>1. CASE /\ key # "none" /\ r.version \in Store!Valid
             /\ Len(Store!Upsert(vaultMemory, r)) <= MaxCredentials
             /\ Vault!Persists(Store!Upsert(vaultMemory, r))
    <3>1. Store!Upsert(vaultMemory, r) \in Seq(Store!Records) /\ VaultHolds(Store!Upsert(vaultMemory, r))
      BY <1>4, <2>1, UpsertKeeps DEF VaultHolds
    <3> QED
      BY <1>2, <2>1, <3>1
  <2> QED
    BY <1>3, <1>5, <2>1, OperatorsAgree, RecordsAgree DEF Vault!PutsCredential, Vault!Unlocked
<1>6. ASSUME NEW id \in Ids, Vault!DeletesCredential(id)
      PROVE  VaultInductive'
  <2>1. CASE key # "none" /\ Vault!Persists(Store!Without(vaultMemory, id))
    <3>1. Store!Without(vaultMemory, id) \in Seq(Store!Records) /\ VaultHolds(Store!Without(vaultMemory, id))
      BY <1>4, <2>1, WithoutKeeps, ServicesAssumption DEF VaultHolds
    <3> QED
      BY <1>2, <2>1, <3>1
  <2> QED
    BY <1>3, <1>6, <2>1, OperatorsAgree, RecordsAgree DEF Vault!DeletesCredential, Vault!Unlocked
<1> QED
  BY <1>5, <1>6

\* The passphrase of a file changes only when there was none.
LEMMA VaultWritesKeeps ==
    ASSUME VaultInductive, Vault!VaultWrites
    PROVE  VaultInductive'
<1>1. vaultStep # "idle" /\ vaultAnswer = "none" /\ UNCHANGED platform
  BY VaultIs DEF VaultAgrees,
     Vault!VaultWrites, Vault!FileSteps, Vault!OpensTemporary, Vault!WritesTemporary, Vault!ReplacesFile
<1>2. CASE /\ vaultStep' \in {"writing", "replacing"} /\ vaultTemporary' \in {"partial", "whole"}
           /\ UNCHANGED <<vaultDisk, vaultMemory, vaultPrevious, vaultAnswer>>
  <2>1. creating' = creating /\ key' = key /\ seal' = seal /\ vaultStep' # "idle"
    BY <1>1, <1>2, VaultIs DEF Vault!VaultWrites
  <2>2. VaultAgrees'
    BY <1>1, <1>2, <2>1, VaultIs DEF VaultAgrees, VaultHolds
  <2> QED
    BY <1>1, <1>2, <2>1, <2>2, VaultIs, VaultTyped
<1>3. CASE Vault!Failed
  <2>1. /\ vaultStep' = "idle" /\ vaultTemporary' = "none" /\ vaultMemory' = vaultPrevious
        /\ vaultPrevious' = <<>> /\ vaultAnswer' = "error" /\ vaultDisk' = vaultDisk
    BY <1>3 DEF Vault!Failed, Vault!Undone
  <2>2. creating' = FALSE /\ key' = (IF creating THEN "none" ELSE key) /\ seal' = seal
    BY <2>1, VaultIs DEF Vault!VaultWrites
  <2>3. VaultAgrees'
    BY <1>1, <2>1, <2>2, VaultIs DEF VaultAgrees, VaultHolds
  <2> QED
    BY <1>1, <2>1, <2>2, <2>3, NoneHolds, VaultIs, VaultTyped
<1>4. CASE /\ vaultStep = "replacing" /\ vaultDisk' = [there |-> "yes", content |-> vaultMemory]
           /\ vaultTemporary' = "none" /\ vaultStep' = "idle" /\ vaultPrevious' = <<>>
           /\ vaultAnswer' = "ok" /\ vaultMemory' = vaultMemory
  <2>1. /\ creating' = FALSE /\ key' = key /\ seal' = key
        /\ vaultDisk'.there = "yes" /\ vaultDisk'.content = vaultMemory
    BY <1>4, VaultIs DEF Vault!VaultWrites
  <2>2. VaultHolds(vaultMemory)
    BY <1>1, NoneHolds, ServicesAssumption, VaultIs DEF VaultAgrees, VaultHolds
  <2>3. VaultAgrees'
    BY <1>4, <2>1, <2>2 DEF VaultAgrees, VaultHolds
  <2> QED
    BY <1>1, <1>4, <2>1, <2>3, NoneHolds, VaultIs, VaultTyped
<1>5. \/ /\ vaultStep' \in {"writing", "replacing"} /\ vaultTemporary' \in {"partial", "whole"}
         /\ UNCHANGED <<vaultDisk, vaultMemory, vaultPrevious, vaultAnswer>>
      \/ Vault!Failed
      \/ /\ vaultStep = "replacing" /\ vaultDisk' = [there |-> "yes", content |-> vaultMemory]
         /\ vaultTemporary' = "none" /\ vaultStep' = "idle" /\ vaultPrevious' = <<>>
         /\ vaultAnswer' = "ok" /\ vaultMemory' = vaultMemory
  BY DEF Vault!VaultWrites, Vault!FileSteps, Vault!OpensTemporary, Vault!WritesTemporary, Vault!ReplacesFile
<1> QED
  BY <1>2, <1>3, <1>4, <1>5

LEMMA VaultNextKeeps == VaultInductive /\ [Vault!VaultNext]_vaultVars => VaultInductive'
<1> SUFFICES ASSUME VaultInductive, [Vault!VaultNext]_vaultVars PROVE VaultInductive'
  OBVIOUS
<1>1. CASE Vault!VaultStops
  <2>1. /\ vaultStep' = "idle" /\ vaultMemory' = <<>> /\ vaultPrevious' = <<>> /\ vaultAnswer' = "none"
        /\ key' = "none" /\ creating' = FALSE /\ UNCHANGED <<vaultDisk, vaultTemporary, seal, platform>>
    BY <1>1 DEF Vault!VaultStops, Vault!Forgets
  <2>2. VaultAgrees'
    BY <2>1, VaultIs DEF VaultAgrees, VaultHolds
  <2> QED
    BY <2>1, <2>2, NoneHolds, VaultIs, VaultTyped
<1>2. CASE (\E id \in Ids : Vault!ChangesPlatform(id)) \/ UNCHANGED vaultVars
  <2>1. /\ UNCHANGED <<vaultDisk, vaultTemporary, vaultStep, vaultMemory, vaultPrevious, vaultAnswer,
                      seal, key, creating>>
        /\ platform' \subseteq Ids
    BY <1>2, VaultIs DEF Vault!ChangesPlatform, Vault!fileVars, vaultVars
  <2>2. VaultAgrees'
    BY <2>1, VaultIs DEF VaultAgrees, VaultHolds
  <2> QED
    BY <2>1, <2>2, VaultIs, VaultTyped
<1>3. CASE (\E p \in Passphrases : Vault!Creates(p) \/ Vault!Unlocks(p)) \/ Vault!Locks
  <2>1. CASE Vault!Locks
    BY <2>1, LocksKeeps
  <2> QED
    BY <1>3, <2>1, CreatesKeeps, UnlocksKeeps
<1>4. CASE \/ \E r \in Vault!Records : Vault!PutsCredential(r)
           \/ \E id \in Ids : Vault!DeletesCredential(id)
  BY <1>4, ChangesKeep, RecordsAgree
<1>5. CASE Vault!VaultWrites
  BY <1>5, VaultWritesKeeps
<1> QED
  BY <1>1, <1>2, <1>3, <1>4, <1>5 DEF Vault!VaultNext

LEMMA VaultIsSafe == VaultInductive => Vault!VaultIsItsFile
<1> SUFFICES ASSUME VaultInductive PROVE Vault!VaultIsItsFile
  OBVIOUS
<1>1. Vault!Unlocked /\ Vault!Idle =>
         /\ vaultDisk.there = "yes" /\ vaultMemory = vaultDisk.content /\ key = seal
         /\ \A id \in Ids : Vault!FoundIn(id) = "portable" <=> id \in Vault!IdsOf(vaultDisk.content)
  BY OpenVault DEF Vault!Unlocked, Vault!Idle, Vault!FoundIn
<1>2. ~Vault!Unlocked => \A id \in Ids : Vault!FoundIn(id) # "portable"
  BY DEF Vault!FoundIn
<1>3. /\ Len(vaultDisk.content) <= MaxCredentials
      /\ \A r \in Vault!ToSet(vaultDisk.content) : r.version \in Vault!Valid
  <2>1. Vault!ToSet(vaultDisk.content) = {vaultDisk.content[i] : i \in 1..Len(vaultDisk.content)}
    BY VaultIs, IdsAre, OperatorsAgree
  <2>2. VaultHolds(vaultDisk.content)
    BY VaultIs DEF VaultAgrees
  <2> QED
    BY <2>1, <2>2, RecordsAgree DEF VaultHolds, Validates
<1> QED
  BY <1>1, <1>2, <1>3 DEF Vault!VaultIsItsFile

LEMMA VaultStepKeepsFile == VaultInductive /\ [Vault!VaultNext]_vaultVars => [Vault!FileIsKept]_vaultVars
<1> SUFFICES ASSUME VaultInductive, Vault!VaultNext, vaultDisk.there # "no"
             PROVE  vaultDisk'.there = vaultDisk.there /\ seal' = seal
  BY DEF Vault!FileIsKept
<1>1. CASE Vault!VaultWrites
  <2>1. \/ vaultDisk' = vaultDisk /\ ~(vaultStep = "replacing" /\ vaultAnswer' = "ok")
        \/ vaultStep # "idle" /\ vaultDisk'.there = "yes"
    BY <1>1, VaultIs DEF VaultAgrees, Vault!VaultWrites, Vault!FileSteps, Vault!OpensTemporary,
       Vault!WritesTemporary, Vault!ReplacesFile, Vault!Failed
  <2>2. CASE vaultDisk' = vaultDisk /\ ~(vaultStep = "replacing" /\ vaultAnswer' = "ok")
    BY <1>1, <2>2 DEF Vault!VaultWrites
  <2>3. CASE vaultStep # "idle" /\ vaultDisk'.there = "yes"
    <3>1. key = seal /\ vaultDisk.there = "yes"
      BY <2>3, VaultIs DEF VaultAgrees
    <3> QED
      BY <1>1, <2>3, <3>1 DEF Vault!VaultWrites
  <2> QED
    BY <2>1, <2>2, <2>3
<1>2. CASE ~Vault!VaultWrites
  BY <1>2 DEF Vault!VaultNext, Vault!Creates, Vault!Unlocks, Vault!Locks, Vault!PutsCredential,
     Vault!DeletesCredential, Vault!ChangesPlatform, Vault!VaultStops, Vault!Persists, Vault!Answers,
     Vault!Forgets, Vault!MayCreate, Vault!fileVars
<1> QED
  BY <1>1, <1>2

-----------------------------------------------------------------------------
\* The types of what is about requests, patterns and network operations.

OpenSshTyped ==
    /\ OpenSsh!OpenSshTypeOK
    /\ pattern \in Seq(Letters \cup OpenSsh!Wild) /\ host \in Seq(Letters)

LEMMA OpenSshInitEstablishes == OpenSsh!OpenSshInit => OpenSshTyped
<1> SUFFICES ASSUME OpenSsh!OpenSshInit PROVE OpenSshTyped
  OBVIOUS
<1>1. pattern \in Seq(Letters \cup OpenSsh!Wild) /\ host \in Seq(Letters)
  <2>1. /\ \E k \in 0..PatternLength : pattern \in [1..k -> Letters \cup OpenSsh!Wild]
        /\ \E k \in 0..HostLength : host \in [1..k -> Letters]
    BY DEF OpenSsh!OpenSshInit, OpenSsh!UpTo
  <2>2. PatternLength \in Nat /\ HostLength \in Nat
    BY ServicesAssumption
  <2> QED
    BY <2>1, <2>2
<1>2. Len(pattern) \in Nat /\ Len(host) \in Nat
  BY <1>1
<1> QED
  BY <1>1, <1>2 DEF OpenSsh!OpenSshInit, OpenSshTyped, OpenSsh!OpenSshTypeOK

LEMMA OpenSshNextKeeps == OpenSshTyped /\ [OpenSsh!OpenSshNext]_openSshVars => OpenSshTyped'
<1> SUFFICES ASSUME OpenSshTyped, [OpenSsh!OpenSshNext]_openSshVars PROVE OpenSshTyped'
  OBVIOUS
<1>1. /\ Len(pattern) \in Nat /\ Len(host) \in Nat
      /\ patternIndex \in 1..(Len(pattern) + 1) /\ hostIndex \in 1..(Len(host) + 1)
      /\ starMatch \in 0..(Len(host) + 1) /\ starIndex \in 0..Len(pattern)
      /\ matched \in {"scanning", "matches", "differs"}
  BY DEF OpenSshTyped, OpenSsh!OpenSshTypeOK
<1>2. CASE UNCHANGED <<pattern, host, patternIndex, hostIndex, starIndex, starMatch, matched>>
  BY <1>2 DEF OpenSshTyped, OpenSsh!OpenSshTypeOK
<1>3. CASE OpenSsh!MatchStep
  <2>1. UNCHANGED <<pattern, host>>
    BY <1>3 DEF OpenSsh!MatchStep, OpenSsh!Compares, OpenSsh!Finishes
  <2>2. CASE OpenSsh!Compares \/ OpenSsh!Finishes
    BY <1>1, <2>1, <2>2 DEF OpenSsh!Compares, OpenSsh!Finishes, OpenSsh!Verdict, OpenSshTyped, OpenSsh!OpenSshTypeOK
  <2>3. CASE hostIndex <= Len(host) /\ OpenSsh!MeetsStar
    <3>1. patternIndex \in 1..Len(pattern)
      BY <1>1, <2>3 DEF OpenSsh!MeetsStar, OpenSsh!At
    <3> QED
      BY <1>1, <2>1, <2>3, <3>1 DEF OpenSsh!MeetsStar, OpenSshTyped, OpenSsh!OpenSshTypeOK
  <2>4. CASE hostIndex <= Len(host) /\ OpenSsh!Advances
    <3>1. host[hostIndex] \notin {"?", "end"}
      BY <1>1, <2>4, ServicesAssumption DEF OpenSshTyped
    <3>2. patternIndex \in 1..Len(pattern)
      BY <1>1, <2>4, <3>1 DEF OpenSsh!Advances, OpenSsh!At
    <3> QED
      BY <1>1, <2>1, <2>4, <3>2 DEF OpenSsh!Advances, OpenSshTyped, OpenSsh!OpenSshTypeOK
  <2>5. CASE OpenSsh!Backtracks
    BY <1>1, <2>1, <2>5 DEF OpenSsh!Backtracks, OpenSsh!ReturnsToStar, OpenSsh!Verdict,
       OpenSshTyped, OpenSsh!OpenSshTypeOK
  <2> QED
    BY <1>3, <2>2, <2>3, <2>4, <2>5 DEF OpenSsh!MatchStep
<1> QED
  BY <1>2, <1>3 DEF OpenSsh!OpenSshNext, OpenSsh!PicksConfig, OpenSsh!ImportConfig, OpenSsh!matchVars, openSshVars

-----------------------------------------------------------------------------
\* Where the pattern lies.
Laid == [1..(Len(pattern) + 1) -> 1..(Len(host) + 1)]
LiesTo(way, n) == \A i \in 1..(n - 1) : OpenSsh!Lies(pattern, host, way, i)

\* The pattern lies on the host up to here.
Reaches(i, j) == \E way \in Laid : way[1] = 1 /\ way[i] = j /\ LiesTo(way, i)

\* It lies on all of it.
Whole == {way \in Laid : /\ way[1] = 1 /\ way[Len(pattern) + 1] = Len(host) + 1
                           /\ LiesTo(way, Len(pattern) + 1)}

\* However the pattern lies on the host, the star that may give way is not before where the
\* loop has it, and what follows the star is as long as the loop has it; before any star
\* there is one way only.
NothingPassedOver ==
    IF starIndex = 0 THEN \A way \in Whole : way[patternIndex] = hostIndex
    ELSE \A way \in Whole :
            /\ way[starIndex + 1] >= starMatch
            /\ way[patternIndex] - way[starIndex + 1] = hostIndex - starMatch

MatchAgrees ==
    IF matched = "scanning"
    THEN /\ Reaches(patternIndex, hostIndex)
         /\ starIndex # 0 =>
               /\ pattern[starIndex] = "*" /\ starIndex < patternIndex
               /\ starMatch \in 1..hostIndex /\ Reaches(starIndex + 1, starMatch)
         /\ NothingPassedOver
    ELSE matched = "matches" <=> Whole # {}

LEMMA MatchTypes ==
    ASSUME OpenSshTyped
    PROVE  /\ Len(pattern) \in Nat /\ Len(host) \in Nat
           /\ DOMAIN pattern = 1..Len(pattern) /\ DOMAIN host = 1..Len(host)
           /\ \A i \in 1..Len(pattern) : pattern[i] \in Letters \cup {"*", "?"}
           /\ \A i \in 1..Len(host) : host[i] \in Letters /\ host[i] \notin {"*", "?", "end"}
           /\ patternIndex \in 1..(Len(pattern) + 1) /\ hostIndex \in 1..(Len(host) + 1)
           /\ starMatch \in 0..(Len(host) + 1) /\ starIndex \in 0..Len(pattern)
           /\ matched \in {"scanning", "matches", "differs"}
BY ServicesAssumption DEF OpenSshTyped, OpenSsh!OpenSshTypeOK, OpenSsh!Wild

LEMMA WholeIs ==
    ASSUME OpenSshTyped
    PROVE  OpenSsh!Matches(pattern, host) <=> Whole # {}
<1>1. (Len(pattern) + 1) - 1 = Len(pattern)
  BY MatchTypes
<1> QED
  BY <1>1 DEF OpenSsh!Matches, Whole, Laid, LiesTo

LEMMA PlaceIs ==
    ASSUME OpenSshTyped, NEW way \in Whole
    PROVE  /\ way \in [1..(Len(pattern) + 1) -> 1..(Len(host) + 1)]
           /\ way[1] = 1 /\ way[Len(pattern) + 1] = Len(host) + 1
           /\ \A k \in 1..Len(pattern) :
                 IF pattern[k] = "*" THEN way[k] <= way[k + 1]
                 ELSE way[k + 1] = way[k] + 1 /\ pattern[k] \in {"?", host[way[k]]}
           /\ \A k \in 1..Len(pattern) : way[k] <= way[k + 1]
<1>1. (Len(pattern) + 1) - 1 = Len(pattern) /\ Len(pattern) \in Nat /\ Len(host) \in Nat
  BY MatchTypes
<1>2. way \in [1..(Len(pattern) + 1) -> 1..(Len(host) + 1)]
  BY DEF Whole, Laid
<1>3. /\ way[1] = 1 /\ way[Len(pattern) + 1] = Len(host) + 1
      /\ \A k \in 1..Len(pattern) :
            IF pattern[k] = "*" THEN way[k] <= way[k + 1]
            ELSE way[k + 1] = way[k] + 1 /\ pattern[k] \in {"?", host[way[k]]}
  BY <1>1 DEF Whole, LiesTo, OpenSsh!Lies
<1>4. \A k \in 1..Len(pattern) : way[k] \in Nat /\ way[k + 1] \in Nat
  BY <1>1, <1>2
<1> QED
  BY <1>2, <1>3, <1>4

LEMMA PlacesAre ==
    ASSUME OpenSshTyped, NEW way \in Whole, NEW i \in 1..(Len(pattern) + 1)
    PROVE  way[i] \in Nat /\ way[i] <= Len(host) + 1
BY PlaceIs, MatchTypes

\* A pattern that lies on a host lies on it in order.
LEMMA PlacesAscend ==
    ASSUME OpenSshTyped, NEW way \in Whole,
           NEW i \in 1..(Len(pattern) + 1), NEW j \in 1..(Len(pattern) + 1), i <= j
    PROVE  way[i] <= way[j]
<1>1. /\ Len(pattern) \in Nat /\ Len(host) \in Nat
      /\ \A k \in 1..(Len(pattern) + 1) : way[k] \in Nat
      /\ \A k \in 1..Len(pattern) : way[k] <= way[k + 1]
  <2>1. Len(pattern) \in Nat /\ Len(host) \in Nat
    BY MatchTypes
  <2>2. \A k \in 1..(Len(pattern) + 1) : way[k] \in Nat
    BY PlacesAre
  <2>3. \A k \in 1..Len(pattern) : way[k] <= way[k + 1]
    BY PlaceIs
  <2> QED
    BY <2>1, <2>2, <2>3
<1> DEFINE Before == {k \in i..(Len(pattern) + 1) : way[k] < way[i]}
<1> SUFFICES ASSUME Before # {} PROVE FALSE
  BY <1>1
<1>2. Before \in SUBSET Nat
  OBVIOUS
<1>3. PICK n \in Before : \A m \in Before : n <= m
  <2> HIDE DEF Before
  <2> QED
    BY <1>2, Least
<1>4. n # i /\ n - 1 \in i..(Len(pattern) + 1) /\ n - 1 \in 1..Len(pattern)
  BY <1>1
<1>5. way[n - 1] <= way[n]
  <2>1. (n - 1) + 1 = n
    BY <1>4
  <2> QED
    BY <1>1, <1>4, <2>1
<1>6. n - 1 \in Before
  <2>1. n \in 1..(Len(pattern) + 1) /\ way[n] < way[i]
    BY <1>1
  <2>2. way[n - 1] \in Nat /\ way[n] \in Nat /\ way[i] \in Nat
    BY <1>1, <1>4, <2>1
  <2> QED
    BY <1>4, <1>5, <2>1, <2>2
<1> QED
  BY <1>2, <1>3, <1>6

\* Without wildcards there is one way.
LEMMA LettersLie ==
    ASSUME OpenSshTyped, OpenSsh!Literal, NEW way \in Whole, NEW i \in 1..(Len(pattern) + 1)
    PROVE  way[i] = i
<1>1. /\ Len(pattern) \in Nat /\ Len(host) \in Nat /\ way[1] = 1
      /\ \A k \in 1..Len(pattern) : way[k + 1] = way[k] + 1
  BY MatchTypes, PlaceIs DEF OpenSsh!Literal, OpenSsh!Wild
<1> DEFINE Other == {k \in 1..(Len(pattern) + 1) : way[k] # k}
<1> SUFFICES ASSUME Other # {} PROVE FALSE
  BY <1>1
<1>2. Other \in SUBSET Nat
  OBVIOUS
<1>3. PICK n \in Other : \A m \in Other : n <= m
  <2> HIDE DEF Other
  <2> QED
    BY <1>2, Least
<1>4. n - 1 \in 1..Len(pattern) /\ n - 1 \notin Other /\ (n - 1) + 1 = n
  BY <1>1, <1>3
<1> QED
  BY <1>1, <1>4

LEMMA LiteralIs ==
    ASSUME OpenSshTyped, OpenSsh!Literal
    PROVE  pattern = host <=> Whole # {}
<1>1. ASSUME pattern = host PROVE Whole # {}
  <2> DEFINE way == [i \in 1..(Len(pattern) + 1) |-> i]
  <2>1. way \in Laid /\ way[1] = 1 /\ way[Len(pattern) + 1] = Len(host) + 1
    BY <1>1, MatchTypes DEF Laid
  <2>2. \A i \in 1..((Len(pattern) + 1) - 1) :
           /\ way[i] = i /\ way[i + 1] = i + 1 /\ pattern[i] # "*" /\ pattern[i] = host[i]
    BY <1>1, MatchTypes DEF OpenSsh!Literal, OpenSsh!Wild
  <2>3. LiesTo(way, Len(pattern) + 1)
    BY <2>2 DEF LiesTo, OpenSsh!Lies
  <2> QED
    BY <2>1, <2>3 DEF Whole
<1>2. ASSUME NEW way \in Whole PROVE pattern = host
  <2>1. /\ Len(pattern) \in Nat /\ Len(host) \in Nat
        /\ way[Len(pattern) + 1] = Len(host) + 1
        /\ \A i \in 1..(Len(pattern) + 1) : way[i] = i
    BY MatchTypes, PlaceIs, LettersLie
  <2>2. Len(pattern) = Len(host)
    BY <2>1
  <2>3. ASSUME NEW i \in 1..Len(pattern) PROVE pattern[i] = host[i]
    <3>1. pattern[i] \notin {"*", "?"}
      BY MatchTypes DEF OpenSsh!Literal, OpenSsh!Wild
    <3>2. way[i] = i
      BY <2>1
    <3>3. pattern[i] \in {"?", host[way[i]]}
      BY <3>1, PlaceIs
    <3> QED
      BY <3>1, <3>2, <3>3
  <2> QED
    BY <2>2, <2>3 DEF OpenSshTyped
<1> QED
  BY <1>1, <1>2

LEMMA StarIs ==
    ASSUME OpenSshTyped, pattern = <<"*">>
    PROVE  Whole # {}
<1> DEFINE way == [i \in 1..2 |-> IF i = 1 THEN 1 ELSE Len(host) + 1]
<1>1. Len(pattern) = 1 /\ pattern[1] = "*" /\ Len(host) \in Nat
  BY MatchTypes
<1>2. way \in Laid /\ way[1] = 1 /\ way[2] = Len(host) + 1
  BY <1>1 DEF Laid
<1>3. LiesTo(way, 2)
  BY <1>1, <1>2 DEF LiesTo, OpenSsh!Lies
<1> QED
  BY <1>1, <1>2, <1>3 DEF Whole
-----------------------------------------------------------------------------
LEMMA OpenSshEstablishes ==
    ASSUME OpenSsh!OpenSshInit, OpenSshTyped
    PROVE  MatchAgrees
<1>1. patternIndex = 1 /\ hostIndex = 1 /\ starIndex = 0 /\ matched = "scanning"
  BY DEF OpenSsh!OpenSshInit
<1> DEFINE way == [i \in 1..(Len(pattern) + 1) |-> 1]
<1>2. way \in Laid /\ way[1] = 1
  BY MatchTypes DEF Laid
<1>3. LiesTo(way, 1)
  BY DEF LiesTo
<1>4. Reaches(1, 1)
  BY <1>2, <1>3 DEF Reaches
<1>5. NothingPassedOver
  BY <1>1, PlaceIs DEF NothingPassedOver
<1> QED
  BY <1>1, <1>4, <1>5 DEF MatchAgrees

\* The pattern lies one character further.
LEMMA LiesFurther ==
    ASSUME OpenSshTyped, NEW i \in 1..Len(pattern), NEW j \in 1..(Len(host) + 1), Reaches(i, j),
           NEW k \in 1..(Len(host) + 1),
           IF pattern[i] = "*" THEN j <= k ELSE k = j + 1 /\ pattern[i] \in {"?", host[j]}
    PROVE  Reaches(i + 1, k)
<1>1. PICK way \in Laid : way[1] = 1 /\ way[i] = j /\ LiesTo(way, i)
  BY DEF Reaches
<1>2. Len(pattern) \in Nat
  BY MatchTypes
<1> DEFINE further == [way EXCEPT ![i + 1] = k]
<1>3. /\ further \in Laid /\ further[i + 1] = k
      /\ \A n \in 1..(Len(pattern) + 1) : n # i + 1 => further[n] = way[n]
  BY <1>1, <1>2 DEF Laid
<1> HIDE DEF further
<1>4. further[1] = 1 /\ further[i] = j
  BY <1>1, <1>2, <1>3
<1>5. ASSUME NEW n \in 1..((i + 1) - 1) PROVE OpenSsh!Lies(pattern, host, further, n)
  <2>1. CASE n = i
    BY <1>3, <1>4, <2>1 DEF OpenSsh!Lies
  <2>2. CASE n # i
    <3>1. n \in 1..(i - 1) /\ further[n] = way[n] /\ further[n + 1] = way[n + 1]
      BY <1>2, <1>3, <2>2
    <3> QED
      BY <1>1, <3>1 DEF LiesTo, OpenSsh!Lies
  <2> QED
    BY <2>1, <2>2
<1>6. LiesTo(further, i + 1)
  BY <1>5 DEF LiesTo
<1> QED
  BY <1>3, <1>4, <1>6 DEF Reaches

\* The host is used up and only stars are left.
LEMMA StarsLie ==
    ASSUME OpenSshTyped, Reaches(patternIndex, Len(host) + 1),
           \A i \in patternIndex..Len(pattern) : pattern[i] = "*"
    PROVE  Whole # {}
<1>1. PICK way \in Laid :
         way[1] = 1 /\ way[patternIndex] = Len(host) + 1 /\ LiesTo(way, patternIndex)
  BY DEF Reaches
<1>2. Len(pattern) \in Nat /\ Len(host) \in Nat /\ patternIndex \in 1..(Len(pattern) + 1)
  BY MatchTypes
<1> DEFINE whole == [i \in 1..(Len(pattern) + 1) |->
                        IF i <= patternIndex THEN way[i] ELSE Len(host) + 1]
<1>3. /\ whole \in Laid
      /\ \A i \in 1..patternIndex : whole[i] = way[i]
      /\ \A i \in patternIndex..(Len(pattern) + 1) : whole[i] = Len(host) + 1
  BY <1>1, <1>2 DEF Laid
<1> HIDE DEF whole
<1>4. whole[1] = 1 /\ whole[Len(pattern) + 1] = Len(host) + 1
  BY <1>1, <1>2, <1>3
<1>5. ASSUME NEW i \in 1..((Len(pattern) + 1) - 1) PROVE OpenSsh!Lies(pattern, host, whole, i)
  <2>1. CASE i < patternIndex
    <3>1. i \in 1..(patternIndex - 1) /\ whole[i] = way[i] /\ whole[i + 1] = way[i + 1]
      BY <1>2, <1>3, <2>1
    <3> QED
      BY <1>1, <3>1 DEF LiesTo, OpenSsh!Lies
  <2>2. CASE i >= patternIndex
    <3>1. pattern[i] = "*" /\ whole[i] = Len(host) + 1 /\ whole[i + 1] = Len(host) + 1
      BY <1>2, <1>3, <2>2
    <3> QED
      BY <1>2, <3>1 DEF OpenSsh!Lies
  <2> QED
    BY <1>2, <2>1, <2>2
<1>6. LiesTo(whole, Len(pattern) + 1)
  BY <1>5 DEF LiesTo
<1> QED
  BY <1>3, <1>4, <1>6 DEF Whole

\* Wherever the pattern lies on all of the host, it is not before the loop.
LEMMA NotBefore ==
    ASSUME OpenSshTyped, MatchAgrees, matched = "scanning", NEW way \in Whole
    PROVE  way[patternIndex] >= hostIndex
<1>1. /\ Len(pattern) \in Nat /\ Len(host) \in Nat /\ patternIndex \in 1..(Len(pattern) + 1)
      /\ hostIndex \in Nat /\ starMatch \in Nat /\ starIndex \in 0..Len(pattern)
      /\ way \in [1..(Len(pattern) + 1) -> 1..(Len(host) + 1)]
  BY MatchTypes, PlaceIs
<1>2. way[patternIndex] \in Nat /\ way[starIndex + 1] \in Nat
  BY <1>1
<1>3. CASE starIndex = 0
  BY <1>1, <1>3 DEF MatchAgrees, NothingPassedOver
<1>4. CASE starIndex # 0
  <2>1. /\ way[starIndex + 1] >= starMatch
        /\ way[patternIndex] - way[starIndex + 1] = hostIndex - starMatch
    BY <1>4 DEF MatchAgrees, NothingPassedOver
  <2> QED
    BY <1>1, <1>2, <2>1
<1> QED
  BY <1>3, <1>4

-----------------------------------------------------------------------------
\* What a step of the loop does not change.
LEMMA SamePattern ==
    ASSUME UNCHANGED <<pattern, host>>
    PROVE  /\ Whole' = Whole
           /\ \A i, j : Reaches(i, j)' <=> Reaches(i, j)
BY DEF Whole, Reaches, Laid, LiesTo, OpenSsh!Lies

\* The loop goes on.
LEMMA ScanAgrees ==
    ASSUME UNCHANGED <<pattern, host>>, matched' = "scanning",
           Reaches(patternIndex', hostIndex'),
           starIndex' # 0 =>
               /\ pattern[starIndex'] = "*" /\ starIndex' < patternIndex'
               /\ starMatch' \in 1..hostIndex' /\ Reaches(starIndex' + 1, starMatch'),
           NothingPassedOver'
    PROVE  MatchAgrees'
<1>1. Reaches(patternIndex, hostIndex)' <=> Reaches(patternIndex', hostIndex')
  BY DEF Reaches, Laid, LiesTo, OpenSsh!Lies
<1>2. Reaches(starIndex + 1, starMatch)' <=> Reaches(starIndex' + 1, starMatch')
  BY DEF Reaches, Laid, LiesTo, OpenSsh!Lies
<1> QED
  BY <1>1, <1>2 DEF MatchAgrees

\* The facts about a star that may give way.
LEMMA StarsAre ==
    ASSUME OpenSshTyped, MatchAgrees, matched = "scanning"
    PROVE  /\ Reaches(patternIndex, hostIndex)
           /\ starIndex # 0 =>
                 /\ pattern[starIndex] = "*" /\ starIndex < patternIndex
                 /\ starIndex \in 1..Len(pattern)
                 /\ starMatch \in 1..hostIndex /\ Reaches(starIndex + 1, starMatch)
BY MatchTypes DEF MatchAgrees

LEMMA ComparesAgrees ==
    ASSUME OpenSshTyped, OpenSsh!Compares
    PROVE  MatchAgrees'
<1>1. matched' = IF pattern = <<"*">> \/ pattern = host THEN "matches" ELSE "differs"
  BY DEF OpenSsh!Compares, OpenSsh!Verdict
<1>2. (pattern = <<"*">> \/ pattern = host) <=> Whole # {}
  BY LiteralIs, StarIs DEF OpenSsh!Compares
<1>3. Whole' = Whole
  BY SamePattern DEF OpenSsh!Compares
<1> QED
  BY <1>1, <1>2, <1>3 DEF MatchAgrees

LEMMA MeetsStarAgrees ==
    ASSUME OpenSshTyped, MatchAgrees, matched = "scanning", hostIndex <= Len(host),
           OpenSsh!MeetsStar, UNCHANGED <<pattern, host>>
    PROVE  MatchAgrees'
<1>1. /\ starIndex' = patternIndex /\ patternIndex' = patternIndex + 1
      /\ starMatch' = hostIndex /\ hostIndex' = hostIndex /\ matched' = "scanning"
  BY DEF OpenSsh!MeetsStar
<1>2. /\ patternIndex \in 1..Len(pattern) /\ pattern[patternIndex] = "*"
      /\ hostIndex \in 1..(Len(host) + 1) /\ Len(pattern) \in Nat /\ Len(host) \in Nat
  BY MatchTypes DEF OpenSsh!MeetsStar, OpenSsh!At
<1>3. Reaches(patternIndex + 1, hostIndex)
  BY <1>2, StarsAre, LiesFurther
<1>4. ASSUME NEW way \in Whole
      PROVE  way[patternIndex + 1] >= hostIndex
  <2>1. way[patternIndex] >= hostIndex /\ way[patternIndex] <= way[patternIndex + 1]
    BY <1>2, NotBefore, PlaceIs
  <2>2. patternIndex \in 1..(Len(pattern) + 1) /\ patternIndex + 1 \in 1..(Len(pattern) + 1)
    BY <1>2
  <2>3. way[patternIndex] \in Nat /\ way[patternIndex + 1] \in Nat
    BY <2>2, PlacesAre
  <2> QED
    BY <1>2, <2>1, <2>3
<1>5. \A way \in Whole : way[patternIndex + 1] - way[patternIndex + 1] = hostIndex - hostIndex
  <2>1. patternIndex + 1 \in 1..(Len(pattern) + 1)
    BY <1>2
  <2>2. \A way \in Whole : way[patternIndex + 1] \in Nat
    BY <2>1, PlacesAre
  <2> QED
    BY <1>2, <2>2
<1>6. NothingPassedOver'
  BY <1>1, <1>2, <1>4, <1>5, SamePattern DEF NothingPassedOver
<1>7. patternIndex < patternIndex + 1 /\ hostIndex \in 1..hostIndex
  BY <1>2
<1> QED
  BY <1>1, <1>2, <1>3, <1>6, <1>7, ScanAgrees

LEMMA AdvancesAgrees ==
    ASSUME OpenSshTyped, MatchAgrees, matched = "scanning", hostIndex <= Len(host),
           OpenSsh!Advances, UNCHANGED <<pattern, host>>
    PROVE  MatchAgrees'
<1>1. /\ patternIndex' = patternIndex + 1 /\ hostIndex' = hostIndex + 1
      /\ starIndex' = starIndex /\ starMatch' = starMatch /\ matched' = "scanning"
  BY DEF OpenSsh!Advances
<1>2. /\ hostIndex \in 1..Len(host) /\ Len(pattern) \in Nat /\ Len(host) \in Nat
      /\ starMatch \in Nat /\ host[hostIndex] \notin {"*", "end"}
      /\ patternIndex \in 1..(Len(pattern) + 1)
  BY MatchTypes
<1>3. /\ patternIndex \in 1..Len(pattern)
      /\ pattern[patternIndex] # "*" /\ pattern[patternIndex] \in {"?", host[hostIndex]}
  BY <1>2 DEF OpenSsh!Advances, OpenSsh!At
<1>4. Reaches(patternIndex + 1, hostIndex + 1)
  BY <1>2, <1>3, StarsAre, LiesFurther
<1>5. \A way \in Whole : way[patternIndex + 1] = way[patternIndex] + 1
  BY <1>3, PlaceIs
<1>6. CASE starIndex = 0
  <2>1. NothingPassedOver'
    BY <1>1, <1>5, <1>6, SamePattern DEF NothingPassedOver, MatchAgrees
  <2> QED
    BY <1>1, <1>4, <1>6, <2>1, ScanAgrees
<1>7. CASE starIndex # 0
  <2>1. ASSUME NEW way \in Whole
        PROVE  /\ way[starIndex + 1] >= starMatch
               /\ way[patternIndex + 1] - way[starIndex + 1] = (hostIndex + 1) - starMatch
    <3>1. way[starIndex + 1] >= starMatch
          /\ way[patternIndex] - way[starIndex + 1] = hostIndex - starMatch
      BY <1>7 DEF MatchAgrees, NothingPassedOver
    <3>2. way[patternIndex] \in Nat /\ way[starIndex + 1] \in Nat
      <4>1. patternIndex \in 1..(Len(pattern) + 1) /\ starIndex + 1 \in 1..(Len(pattern) + 1)
        BY <1>2, <1>7, StarsAre
      <4> QED
        BY <4>1, PlacesAre
    <3>3. way[patternIndex + 1] = way[patternIndex] + 1 /\ hostIndex \in Nat /\ starMatch \in Nat
      BY <1>2, <1>5
    <3> QED
      BY <3>1, <3>2, <3>3
  <2>2. NothingPassedOver'
    BY <1>1, <1>7, <2>1, SamePattern DEF NothingPassedOver
  <2>3. /\ pattern[starIndex] = "*" /\ starIndex < patternIndex + 1
        /\ starMatch \in 1..(hostIndex + 1) /\ Reaches(starIndex + 1, starMatch)
    BY <1>2, <1>7, StarsAre
  <2> QED
    BY <1>1, <1>4, <2>2, <2>3, ScanAgrees
<1> QED
  BY <1>6, <1>7

\* A mismatch: the pattern does not lie where the loop has it.
LEMMA Mismatch ==
    ASSUME OpenSshTyped, matched = "scanning", hostIndex <= Len(host),
           OpenSsh!At(patternIndex) \notin {"*", "?", host[hostIndex]}, NEW way \in Whole
    PROVE  way[patternIndex] # hostIndex
<1>1. /\ hostIndex \in 1..Len(host) /\ Len(pattern) \in Nat /\ Len(host) \in Nat
      /\ patternIndex \in 1..(Len(pattern) + 1)
  BY MatchTypes
<1>2. CASE patternIndex = Len(pattern) + 1
  BY <1>1, <1>2, PlaceIs
<1>3. CASE patternIndex \in 1..Len(pattern)
  <2>1. pattern[patternIndex] \notin {"*", "?", host[hostIndex]}
    BY <1>1, <1>3 DEF OpenSsh!At
  <2>2. pattern[patternIndex] \in {"?", host[way[patternIndex]]}
    BY <1>3, <2>1, PlaceIs
  <2> QED
    BY <2>1, <2>2
<1> QED
  BY <1>1, <1>2, <1>3

LEMMA BacktracksAgrees ==
    ASSUME OpenSshTyped, MatchAgrees, matched = "scanning", hostIndex <= Len(host),
           OpenSsh!Backtracks, UNCHANGED <<pattern, host>>
    PROVE  MatchAgrees'
<1>1. /\ hostIndex \in 1..Len(host) /\ Len(pattern) \in Nat /\ Len(host) \in Nat
      /\ starMatch \in Nat /\ patternIndex \in 1..(Len(pattern) + 1)
  BY MatchTypes
<1>2. \A way \in Whole : way[patternIndex] # hostIndex
  BY Mismatch DEF OpenSsh!Backtracks
<1>3. CASE starIndex = 0
  <2>1. Whole = {}
    BY <1>2, <1>3 DEF MatchAgrees, NothingPassedOver
  <2>2. matched' = "differs"
    BY <1>3 DEF OpenSsh!Backtracks, OpenSsh!Verdict
  <2> QED
    BY <2>1, <2>2, SamePattern DEF MatchAgrees
<1>4. CASE starIndex # 0
  <2>1. /\ starIndex \in 1..Len(pattern) /\ pattern[starIndex] = "*"
        /\ starMatch \in 1..hostIndex /\ Reaches(starIndex + 1, starMatch)
    BY <1>4, StarsAre
  <2>2. /\ starMatch' = starMatch + 1 /\ hostIndex' = starMatch + 1
        /\ patternIndex' = starIndex + 1 /\ starIndex' = starIndex /\ matched' = "scanning"
    <3>1. starMatch <= Len(host)
      BY <1>1, <2>1
    <3> QED
      BY <1>4, <3>1 DEF OpenSsh!Backtracks, OpenSsh!ReturnsToStar
  <2>3. Reaches(starIndex + 1, starMatch + 1)
    <3>1. PICK way \in Laid :
             way[1] = 1 /\ way[starIndex + 1] = starMatch /\ LiesTo(way, starIndex + 1)
      BY <2>1 DEF Reaches
    <3>2. way[starIndex] <= starMatch /\ way[starIndex] \in 1..(Len(host) + 1)
      <4>1. starIndex \in 1..((starIndex + 1) - 1) /\ starIndex \in 1..(Len(pattern) + 1)
        BY <1>1, <2>1
      <4>2. OpenSsh!Lies(pattern, host, way, starIndex)
        BY <3>1, <4>1 DEF LiesTo
      <4> QED
        BY <2>1, <3>1, <4>1, <4>2 DEF OpenSsh!Lies, Laid
    <3>3. LiesTo(way, starIndex)
      BY <1>1, <2>1, <3>1 DEF LiesTo
    <3>4. Reaches(starIndex, way[starIndex])
      BY <3>1, <3>3 DEF Reaches
    <3>5. way[starIndex] <= starMatch + 1 /\ starMatch + 1 \in 1..(Len(host) + 1)
      BY <1>1, <2>1, <3>2
    <3> QED
      BY <2>1, <3>2, <3>4, <3>5, LiesFurther
  <2>4. ASSUME NEW way \in Whole
        PROVE  /\ way[starIndex + 1] >= starMatch + 1
               /\ way[starIndex + 1] - way[starIndex + 1] = (starMatch + 1) - (starMatch + 1)
    <3>1. way[starIndex + 1] >= starMatch
          /\ way[patternIndex] - way[starIndex + 1] = hostIndex - starMatch
      BY <1>4 DEF MatchAgrees, NothingPassedOver
    <3>2. way[patternIndex] \in Nat /\ way[starIndex + 1] \in Nat
      <4>1. starIndex + 1 \in 1..(Len(pattern) + 1)
        BY <1>1, <2>1
      <4> QED
        BY <1>1, <4>1, PlacesAre
    <3> QED
      BY <1>1, <1>2, <3>1, <3>2
  <2>5. NothingPassedOver'
    BY <1>4, <2>2, <2>4, SamePattern DEF NothingPassedOver
  <2>6. starIndex < starIndex + 1 /\ starMatch + 1 \in 1..(starMatch + 1)
    BY <1>1, <2>1
  <2> QED
    BY <2>1, <2>2, <2>3, <2>5, <2>6, ScanAgrees
<1> QED
  BY <1>3, <1>4

LEMMA FinishesAgrees ==
    ASSUME OpenSshTyped, MatchAgrees, matched = "scanning", ~(hostIndex <= Len(host)), OpenSsh!Finishes
    PROVE  MatchAgrees'
<1>1. /\ hostIndex = Len(host) + 1 /\ Len(pattern) \in Nat /\ Len(host) \in Nat
      /\ patternIndex \in 1..(Len(pattern) + 1)
  BY MatchTypes
<1>2. CASE \A i \in patternIndex..Len(pattern) : pattern[i] = "*"
  <2>1. Whole # {}
    BY <1>1, <1>2, StarsAre, StarsLie
  <2> QED
    BY <1>2, <2>1, SamePattern DEF MatchAgrees, OpenSsh!Finishes, OpenSsh!Verdict
<1>3. CASE ~ \A i \in patternIndex..Len(pattern) : pattern[i] = "*"
  <2>1. PICK i \in patternIndex..Len(pattern) : pattern[i] # "*"
    BY <1>3
  <2>2. ASSUME NEW way \in Whole PROVE FALSE
    <3>1. way[patternIndex] >= Len(host) + 1
      BY <1>1, NotBefore
    <3>2. way[patternIndex] <= way[i]
      BY <1>1, PlacesAscend
    <3>3. way[i + 1] = way[i] + 1
      BY <1>1, <2>1, PlaceIs
    <3>4. /\ way[i + 1] \in Nat /\ way[i + 1] <= Len(host) + 1
          /\ way[i] \in Nat /\ way[patternIndex] \in Nat
      <4>1. {i, i + 1, patternIndex} \subseteq 1..(Len(pattern) + 1)
        BY <1>1
      <4> QED
        BY <1>1, <4>1, PlacesAre
    <3> QED
      BY <1>1, <3>1, <3>2, <3>3, <3>4
  <2> QED
    BY <1>3, <2>2, SamePattern DEF MatchAgrees, OpenSsh!Finishes, OpenSsh!Verdict
<1> QED
  BY <1>2, <1>3

LEMMA MatchKeeps ==
    ASSUME OpenSshTyped, MatchAgrees, [OpenSsh!OpenSshNext]_openSshVars
    PROVE  MatchAgrees'
<1>1. CASE UNCHANGED <<pattern, host, patternIndex, hostIndex, starIndex, starMatch, matched>>
  <2>1. NothingPassedOver' <=> NothingPassedOver
    BY <1>1, SamePattern DEF NothingPassedOver
  <2>2. CASE matched = "scanning"
    BY <1>1, <2>1, <2>2, ScanAgrees DEF MatchAgrees
  <2>3. CASE matched # "scanning"
    BY <1>1, <2>3, SamePattern DEF MatchAgrees
  <2> QED
    BY <2>2, <2>3
<1>2. CASE OpenSsh!MatchStep
  BY <1>2, ComparesAgrees, MeetsStarAgrees, AdvancesAgrees, BacktracksAgrees, FinishesAgrees
     DEF OpenSsh!MatchStep
<1> QED
  BY <1>1, <1>2 DEF OpenSsh!OpenSshNext, OpenSsh!PicksConfig, OpenSsh!ImportConfig, OpenSsh!matchVars, openSshVars

LEMMA GlobHolds ==
    ASSUME OpenSshTyped, MatchAgrees
    PROVE  OpenSsh!GlobIsExact
BY WholeIs DEF MatchAgrees, OpenSsh!GlobIsExact

-----------------------------------------------------------------------------
\* The patterns of all blocks.
LEMMA Joined ==
    ASSUME NEW X, NEW s \in Seq(X), NEW t \in Seq(X)
    PROVE  OpenSsh!ToSet(s \o t) = OpenSsh!ToSet(s) \cup OpenSsh!ToSet(t)
<1> DEFINE u == s \o t
           In(x, q) == \E i \in 1..Len(q) : q[i] = x
<1>1. /\ u \in Seq(X) /\ Len(u) = Len(s) + Len(t) /\ Len(s) \in Nat /\ Len(t) \in Nat
      /\ \A i \in 1..Len(u) : u[i] = IF i <= Len(s) THEN s[i] ELSE t[i - Len(s)]
  OBVIOUS
<1>2. ASSUME NEW q \in Seq(X), NEW x PROVE x \in OpenSsh!ToSet(q) <=> In(x, q)
  BY DEF OpenSsh!ToSet
<1> HIDE DEF u
<1>3. ASSUME NEW x PROVE In(x, u) <=> In(x, s) \/ In(x, t)
  <2>1. ASSUME NEW i \in 1..Len(u), u[i] = x PROVE In(x, s) \/ In(x, t)
    <3>1. CASE i <= Len(s)
      <4>1. i \in 1..Len(s) /\ s[i] = x
        BY <1>1, <2>1, <3>1
      <4> QED
        BY <4>1
    <3>2. CASE ~(i <= Len(s))
      <4>1. i - Len(s) \in 1..Len(t) /\ t[i - Len(s)] = x
        BY <1>1, <2>1, <3>2
      <4> QED
        BY <4>1
    <3> QED
      BY <3>1, <3>2
  <2>2. ASSUME NEW j \in 1..Len(s), s[j] = x PROVE In(x, u)
    <3>1. j \in 1..Len(u) /\ u[j] = x
      BY <1>1, <2>2
    <3> QED
      BY <3>1
  <2>3. ASSUME NEW j \in 1..Len(t), t[j] = x PROVE In(x, u)
    <3>1. /\ j + Len(s) \in 1..Len(u) /\ ~(j + Len(s) <= Len(s))
          /\ (j + Len(s)) - Len(s) = j
      BY <1>1, <2>3
    <3>2. u[j + Len(s)] = x
      BY <1>1, <2>3, <3>1
    <3> QED
      BY <3>1, <3>2
  <2> QED
    BY <2>1, <2>2, <2>3
<1> HIDE DEF In
<1>4. ASSUME NEW x PROVE x \in OpenSsh!ToSet(u) <=> x \in OpenSsh!ToSet(s) \cup OpenSsh!ToSet(t)
  BY <1>1, <1>2, <1>3
<1> QED
  BY <1>4 DEF u

LEMMA Flattened ==
    ASSUME NEW X, NEW ss \in Seq(Seq(X))
    PROVE  /\ OpenSsh!FlattenSeq(ss) \in Seq(X)
           /\ OpenSsh!ToSet(OpenSsh!FlattenSeq(ss)) = UNION {OpenSsh!ToSet(ss[i]) : i \in DOMAIN ss}
<1>1. CASE Len(ss) = 0
  <2>1. OpenSsh!FlattenSeq(ss) = ss /\ ss = <<>> /\ DOMAIN ss = {}
    BY <1>1 DEF OpenSsh!FlattenSeq
  <2> QED
    BY <2>1 DEF OpenSsh!ToSet
<1>2. CASE Len(ss) # 0
  <2> DEFINE L == Len(ss)
             F == CHOOSE flatten : flatten = [i \in 1..Len(ss) |->
                     IF i = 1 THEN ss[i] ELSE flatten[i - 1] \o ss[i]]
             onward == [x \in (2..L) \X Seq(X) |-> x[2] \o ss[x[1]]]
  <2>1. OpenSsh!FlattenSeq(ss) = F[L]
    BY <1>2 DEF OpenSsh!FlattenSeq
  <2>2. F = [i \in 1..L |-> IF i = 1 THEN ss[i] ELSE F[i - 1] \o ss[i]]
    <3>1. ss[1] \in Seq(X) /\ L \in Nat /\ 1 \in 1..L
      BY <1>2
    <3>2. onward \in [((1 + 1)..L) \X Seq(X) -> Seq(X)]
      <4>1. \A n \in 2..L, q \in Seq(X) : q \o ss[n] \in Seq(X)
        OBVIOUS
      <4>2. 1 + 1 = 2
        OBVIOUS
      <4> QED
        BY <4>1, <4>2
    <3> HIDE DEF L, F, onward
    <3> DEFINE S == Seq(X)
               a == ss[1]
               k == 1
    <3>3. PICK f : Recurs(f, k, L, S, a, onward)
      <4>1. a \in S /\ L \in Nat /\ k \in Nat /\ onward \in [((k + 1)..L) \X S -> S]
        BY <3>1, <3>2
      <4> HIDE DEF S, a, k
      <4> QED
        BY <4>1, Recursion
    <3>4. ASSUME NEW n \in 1..L PROVE f[n] = IF n = 1 THEN ss[n] ELSE f[n - 1] \o ss[n]
      <4>1. n # 1 => n \in 2..L /\ n - 1 \in 1..L
        BY <3>1
      <4>2. n # 1 => onward[<<n, f[n - 1]>>] = f[n - 1] \o ss[n]
        BY <3>3, <4>1 DEF onward, Recurs
      <4> QED
        BY <3>3, <4>2 DEF Recurs
    <3>5. f = [n \in 1..L |-> IF n = 1 THEN ss[n] ELSE f[n - 1] \o ss[n]]
      <4>1. f = [n \in 1..L |-> f[n]]
        BY <3>3 DEF Recurs
      <4> QED
        BY <3>4, <4>1
    <3> QED
      BY <3>5 DEF F, L
  <2> HIDE DEF F, onward
  <2> DEFINE UpTo(n) == UNION {OpenSsh!ToSet(ss[i]) : i \in 1..n}
             T == {n \in 1..L : F[n] \in Seq(X) /\ OpenSsh!ToSet(F[n]) = UpTo(n)}
  <2>3. 1 \in T
    <3>1. F[1] = ss[1] /\ ss[1] \in Seq(X) /\ 1 \in 1..L
      BY <1>2, <2>2
    <3>2. UpTo(1) = OpenSsh!ToSet(ss[1])
      OBVIOUS
    <3> HIDE DEF UpTo
    <3> QED
      BY <3>1, <3>2
  <2> HIDE DEF UpTo
  <2>4. ASSUME NEW n \in (1 + 1)..L, n - 1 \in T PROVE n \in T
    <3>1. n \in 1..L /\ n # 1 /\ ss[n] \in Seq(X) /\ n - 1 \in 1..L
      OBVIOUS
    <3>2. F[n] = F[n - 1] \o ss[n]
      BY <2>2, <3>1
    <3>3. F[n - 1] \in Seq(X) /\ OpenSsh!ToSet(F[n - 1]) = UpTo(n - 1)
      BY <2>4
    <3>4. OpenSsh!ToSet(F[n]) = OpenSsh!ToSet(F[n - 1]) \cup OpenSsh!ToSet(ss[n])
      BY <3>1, <3>2, <3>3, Joined
    <3>5. 1..n = (1..(n - 1)) \cup {n}
      BY <3>1
    <3>6. UpTo(n) = UpTo(n - 1) \cup OpenSsh!ToSet(ss[n])
      <4>1. ASSUME NEW x PROVE x \in UpTo(n) <=> x \in UpTo(n - 1) \/ x \in OpenSsh!ToSet(ss[n])
        BY <3>5 DEF UpTo
      <4> QED
        BY <4>1
    <3>7. F[n] \in Seq(X)
      BY <3>1, <3>2, <3>3
    <3>8. OpenSsh!ToSet(F[n]) = UpTo(n)
      BY <3>3, <3>4, <3>6
    <3> QED
      BY <3>1, <3>7, <3>8
  <2>5. L \in 1..L /\ 1 \in Nat /\ L \in Nat
    BY <1>2
  <2> HIDE DEF T, L
  <2>6. L \in T
    BY <2>3, <2>4, <2>5, Induction
  <2>7. F[L] \in Seq(X) /\ OpenSsh!ToSet(F[L]) = UNION {OpenSsh!ToSet(ss[i]) : i \in 1..L}
    BY <2>6 DEF T, UpTo
  <2>8. DOMAIN ss = 1..L
    BY DEF L
  <2> QED
    BY <2>1, <2>7, <2>8
<1> QED
  BY <1>1, <1>2

-----------------------------------------------------------------------------
\* Any text that a configuration may consist of; a line sets an option to a value.
AnyPattern(Text) == [negated : BOOLEAN, glob : Seq(Text \cup {"*"})]
Values(Text) == Text \ {"none"}
AnyLine(Text) ==
    {line \in [directive : {"host", "match", "port", "other"}, patterns : Seq(AnyPattern(Text)),
               value : Text] : line.directive = "port" => line.value # "none"}
AnyBlock(Text) == [patterns : Seq(AnyPattern(Text)), options : Seq(Values(Text))]
AnyBlocks(Text) == Seq(AnyBlock(Text)) \ {<<>>}

Preamble == <<[patterns |-> OpenSsh!Everyone, options |-> <<>>]>>

LEMMA PreambleIs ==
    ASSUME NEW Text
    PROVE  Preamble \in AnyBlocks(Text) /\ Len(Preamble) = 1
<1>1. OpenSsh!Everyone \in Seq(AnyPattern(Text))
  <2>1. <<"*">> \in Seq(Text \cup {"*"})
    <3> DEFINE c == "*"
    <3>1. c \in Text \cup {"*"}
      OBVIOUS
    <3> HIDE DEF c
    <3>2. <<c>> \in Seq(Text \cup {"*"})
      BY <3>1
    <3> QED
      BY <3>2 DEF c
  <2>2. [negated |-> FALSE, glob |-> <<"*">>] \in AnyPattern(Text)
    BY <2>1 DEF AnyPattern
  <2> QED
    BY <2>2 DEF OpenSsh!Everyone
<1>2. [patterns |-> OpenSsh!Everyone, options |-> <<>>] \in AnyBlock(Text)
  BY <1>1 DEF AnyBlock
<1> QED
  BY <1>2 DEF Preamble, AnyBlocks

LEMMA LineTaken ==
    ASSUME NEW Text, NEW blocks \in AnyBlocks(Text), NEW line \in AnyLine(Text)
    PROVE  OpenSsh!TakesLine(blocks, line) \in AnyBlocks(Text)
<1>1. /\ line.directive \in {"host", "match", "port", "other"} /\ line.patterns \in Seq(AnyPattern(Text))
      /\ line.directive = "port" => line.value \in Values(Text)
  BY DEF AnyLine, Values
<1>2. CASE line.directive = "host"
  <2>1. OpenSsh!TakesLine(blocks, line) = Append(blocks, [patterns |-> line.patterns, options |-> <<>>])
    BY <1>2 DEF OpenSsh!TakesLine
  <2> QED
    BY <1>1, <2>1 DEF AnyBlocks, AnyBlock
<1>3. CASE line.directive = "match"
  <2>1. OpenSsh!TakesLine(blocks, line) = Append(blocks, [patterns |-> <<>>, options |-> <<>>])
    BY <1>3 DEF OpenSsh!TakesLine
  <2> QED
    BY <2>1 DEF AnyBlocks, AnyBlock
<1>4. CASE line.directive = "port"
  <2>1. OpenSsh!TakesLine(blocks, line) = [blocks EXCEPT ![Len(blocks)].options = Append(@, line.value)]
    BY <1>4 DEF OpenSsh!TakesLine
  <2>2. Len(blocks) \in 1..Len(blocks) /\ DOMAIN blocks = 1..Len(blocks)
    BY DEF AnyBlocks
  <2> DEFINE old == blocks[Len(blocks)]
             last == [old EXCEPT !.options = Append(@, line.value)]
  <2>3. old \in AnyBlock(Text)
    BY <2>2 DEF AnyBlocks
  <2>4. OpenSsh!TakesLine(blocks, line) = [blocks EXCEPT ![Len(blocks)] = last]
    BY <2>1
  <2> HIDE DEF old
  <2>5. last \in AnyBlock(Text)
    <3>1. old.patterns \in Seq(AnyPattern(Text)) /\ old.options \in Seq(Values(Text))
      BY <2>3 DEF AnyBlock
    <3>2. Append(old.options, line.value) \in Seq(Values(Text))
      BY <1>1, <1>4, <3>1
    <3> DEFINE more == Append(old.options, line.value)
    <3>3. last = [patterns |-> old.patterns, options |-> more]
      <4>1. last = [old EXCEPT !.options = more]
        OBVIOUS
      <4> HIDE DEF last, more
      <4> QED
        BY <2>3, <4>1 DEF AnyBlock
    <3> QED
      BY <3>1, <3>2, <3>3 DEF AnyBlock
  <2> HIDE DEF last
  <2>6. [blocks EXCEPT ![Len(blocks)] = last] \in AnyBlocks(Text)
    BY <2>2, <2>5 DEF AnyBlocks
  <2> QED
    BY <2>4, <2>6
<1>5. CASE line.directive = "other"
  BY <1>5 DEF OpenSsh!TakesLine
<1> QED
  BY <1>1, <1>2, <1>3, <1>4, <1>5

\* The blocks after each line.
LEMMA ParsedIs ==
    ASSUME NEW Text, NEW lines \in Seq(AnyLine(Text))
    PROVE  \E F \in [0..Len(lines) -> AnyBlocks(Text)] :
              /\ OpenSsh!Parsed(lines) = F[Len(lines)]
              /\ F[0] = Preamble
              /\ \A n \in 1..Len(lines) : F[n] = OpenSsh!TakesLine(F[n - 1], lines[n])
<1> DEFINE L == Len(lines)
           k == 0
           a == Preamble
           F == CHOOSE upTo : upTo = [n \in 0..Len(lines) |->
                   IF n = 0 THEN <<[patterns |-> OpenSsh!Everyone, options |-> <<>>]>>
                   ELSE OpenSsh!TakesLine(upTo[n - 1], lines[n])]
           onward == [x \in ((k + 1)..L) \X AnyBlocks(Text) |-> OpenSsh!TakesLine(x[2], lines[x[1]])]
<1>1. OpenSsh!Parsed(lines) = F[L]
  BY DEF OpenSsh!Parsed
<1>2. L \in Nat /\ k \in Nat /\ a \in AnyBlocks(Text)
  BY PreambleIs
<1>3. onward \in [((k + 1)..L) \X AnyBlocks(Text) -> AnyBlocks(Text)]
  <2>1. ASSUME NEW n \in (k + 1)..L, NEW b \in AnyBlocks(Text) PROVE OpenSsh!TakesLine(b, lines[n]) \in AnyBlocks(Text)
    <3>1. lines[n] \in AnyLine(Text)
      OBVIOUS
    <3> QED
      BY <3>1, LineTaken
  <2> HIDE DEF L, k
  <2> QED
    BY <2>1
<1>4. PICK f : Recurs(f, k, L, AnyBlocks(Text), a, onward)
  <2> HIDE DEF L, k, a, onward
  <2> QED
    BY <1>2, <1>3, Recursion
<1>5. ASSUME NEW n \in 0..L PROVE f[n] = IF n = 0 THEN Preamble ELSE OpenSsh!TakesLine(f[n - 1], lines[n])
  <2>1. n # 0 => n \in (k + 1)..L /\ n - 1 \in 0..L
    BY <1>2
  <2>2. n # 0 => f[n - 1] \in AnyBlocks(Text)
    BY <1>4, <2>1 DEF Recurs
  <2>3. n # 0 => onward[<<n, f[n - 1]>>] = OpenSsh!TakesLine(f[n - 1], lines[n])
    <3> HIDE DEF L, k
    <3> QED
      BY <2>1, <2>2
  <2> QED
    BY <1>4, <2>3 DEF Recurs
<1>6. f = [n \in 0..L |-> IF n = 0 THEN Preamble ELSE OpenSsh!TakesLine(f[n - 1], lines[n])]
  <2>1. f = [n \in 0..L |-> f[n]]
    BY <1>4 DEF Recurs
  <2> QED
    BY <1>5, <2>1
<1>7. F = [n \in 0..L |-> IF n = 0 THEN Preamble ELSE OpenSsh!TakesLine(F[n - 1], lines[n])]
  BY <1>6 DEF Preamble
<1> HIDE DEF F
<1> DEFINE T == {n \in 0..L : F[n] \in AnyBlocks(Text)}
<1>8. k \in T
  <2>1. 0 \in 0..L
    BY <1>2
  <2>2. F[0] = Preamble
    BY <1>7, <2>1
  <2> QED
    BY <1>2, <2>1, <2>2
<1>9. ASSUME NEW n \in (k + 1)..L, n - 1 \in T PROVE n \in T
  <2>1. n \in 0..L /\ n # 0 /\ lines[n] \in AnyLine(Text)
    BY <1>2
  <2>2. F[n] = OpenSsh!TakesLine(F[n - 1], lines[n])
    BY <1>7, <2>1
  <2>3. F[n - 1] \in AnyBlocks(Text)
    BY <1>9
  <2> QED
    BY <2>1, <2>2, <2>3, LineTaken
<1>10. \A n \in k..L : n \in T
  <2> HIDE DEF T, L, k
  <2> QED
    BY <1>2, <1>8, <1>9, Induction
<1>11. \A n \in 0..L : F[n] \in AnyBlocks(Text)
  BY <1>10
<1>12. F \in [0..L -> AnyBlocks(Text)]
  <2>1. F = [n \in 0..L |-> F[n]]
    BY <1>7
  <2> HIDE DEF L
  <2> QED
    BY <1>11, <2>1
<1>13. F[0] = Preamble /\ \A n \in 1..L : F[n] = OpenSsh!TakesLine(F[n - 1], lines[n])
  <2>1. 0 \in 0..L /\ \A n \in 1..L : n \in 0..L /\ n # 0
    BY <1>2
  <2> HIDE DEF L
  <2> QED
    BY <1>7, <2>1
<1> QED
  BY <1>1, <1>12, <1>13

-----------------------------------------------------------------------------
LEMMA MinIs ==
    ASSUME NEW S \in SUBSET Nat
    PROVE  /\ S # {} => OpenSsh!Min(S) \in S /\ \A m \in S : OpenSsh!Min(S) <= m
           /\ \A n \in S : (\A m \in S : n <= m) => OpenSsh!Min(S) = n
<1>1. ASSUME NEW n \in S, \A m \in S : n <= m
      PROVE  OpenSsh!Min(S) \in S /\ (\A m \in S : OpenSsh!Min(S) <= m) /\ OpenSsh!Min(S) = n
  <2>1. OpenSsh!Min(S) \in S /\ \A m \in S : OpenSsh!Min(S) <= m
    BY <1>1 DEF OpenSsh!Min
  <2>2. OpenSsh!Min(S) <= n /\ n <= OpenSsh!Min(S) /\ n \in Nat /\ OpenSsh!Min(S) \in Nat
    BY <1>1, <2>1
  <2> QED
    BY <2>1, <2>2
<1>2. S # {} => \E n \in S : \A m \in S : n <= m
  BY Least
<1> QED
  BY <1>1, <1>2

\* Only the patterns of a block tell whom it is for.
LEMMA AppliesBy ==
    ASSUME NEW block, NEW alias
    PROVE  OpenSsh!Applies(block, alias) <=> OpenSsh!Applies([patterns |-> block.patterns], alias)
BY DEF OpenSsh!Applies

LEMMA ForEveryone ==
    ASSUME NEW T, NEW alias \in Seq(T)
    PROVE  OpenSsh!Applies(Preamble[1], alias)
<1> DEFINE p == <<"*">>
           spot == [i \in 1..(Len(p) + 1) |-> IF i = 1 THEN 1 ELSE Len(alias) + 1]
<1>1. /\ spot \in [1..(Len(p) + 1) -> 1..(Len(alias) + 1)]
      /\ spot[1] = 1 /\ spot[Len(p) + 1] = Len(alias) + 1
  BY DEF OpenSsh!Lies
<1>2. ASSUME NEW i \in 1..Len(p) PROVE OpenSsh!Lies(p, alias, spot, i)
  <2>1. i = 1 /\ p[1] = "*" /\ spot[1] = 1 /\ spot[2] = Len(alias) + 1 /\ Len(alias) \in Nat
    OBVIOUS
  <2> HIDE DEF spot, p
  <2> QED
    BY <2>1 DEF OpenSsh!Lies
<1>3. OpenSsh!Matches(p, alias)
  <2> HIDE DEF spot, p
  <2> QED
    BY <1>1, <1>2 DEF OpenSsh!Matches
<1> DEFINE q == [negated |-> FALSE, glob |-> p]
<1>4. ~q.negated /\ q.glob = p
  OBVIOUS
<1>5. Preamble[1].patterns = <<q>>
  BY DEF Preamble, OpenSsh!Everyone
<1> HIDE DEF q, p
<1>6. DOMAIN <<q>> = {1} /\ <<q>>[1] = q
  OBVIOUS
<1> QED
  BY <1>3, <1>4, <1>5, <1>6 DEF OpenSsh!Applies

-----------------------------------------------------------------------------
\* Which block a line is in.
Heads(n) == {i \in 1..(n - 1) : config[i].directive \in {"host", "match"}}

LEMMA InForceIs ==
    ASSUME NEW Text, config \in Seq(AnyLine(Text)), NEW alias, NEW n \in 1..Len(config)
    PROVE  /\ config[n].directive \notin {"host", "match"} =>
                  (OpenSsh!InForce(n + 1, alias) <=> OpenSsh!InForce(n, alias))
           /\ config[n].directive = "host" =>
                  (OpenSsh!InForce(n + 1, alias) <=> OpenSsh!Applies([patterns |-> config[n].patterns], alias))
           /\ config[n].directive = "match" => ~OpenSsh!InForce(n + 1, alias)
<1>1. 1..((n + 1) - 1) = (1..(n - 1)) \cup {n} /\ n \in Nat /\ n \notin 1..(n - 1)
  OBVIOUS
<1>2. CASE config[n].directive \notin {"host", "match"}
  <2>1. Heads(n + 1) = Heads(n)
    BY <1>1, <1>2 DEF Heads
  <2>2. OpenSsh!InForce(n + 1, alias) <=> OpenSsh!InForce(n, alias)
    BY <2>1 DEF OpenSsh!InForce, Heads
  <2> QED
    BY <1>2, <2>2
<1>3. CASE config[n].directive \in {"host", "match"}
  <2> DEFINE h == CHOOSE i \in Heads(n + 1) : \A j \in Heads(n + 1) : j <= i
  <2>1. n \in Heads(n + 1) /\ (\A j \in Heads(n + 1) : j <= n /\ j \in Nat)
    BY <1>1, <1>3 DEF Heads
  <2>2. h \in Heads(n + 1) /\ \A j \in Heads(n + 1) : j <= h
    BY <2>1
  <2>3. h = n
    <3> HIDE DEF h
    <3>1. h <= n /\ n <= h /\ h \in Nat /\ n \in Nat
      BY <1>1, <2>1, <2>2
    <3> QED
      BY <3>1
  <2>4. OpenSsh!InForce(n + 1, alias) <=>
            config[h].directive = "host" /\ OpenSsh!Applies([patterns |-> config[h].patterns], alias)
    <3>1. Heads(n + 1) # {}
      BY <2>1
    <3> QED
      BY <3>1 DEF OpenSsh!InForce, Heads
  <2> HIDE DEF h
  <2> QED
    BY <1>3, <2>3, <2>4
<1> QED
  BY <1>2, <1>3

\* The value that the first lines give.
Lines(n, alias) == {m \in 1..n : config[m].directive = "port" /\ OpenSsh!InForce(m, alias)}
FirstTo(n, alias) ==
    IF Lines(n, alias) = {} THEN "none" ELSE config[OpenSsh!Min(Lines(n, alias))].value

LEMMA FirstIs ==
    ASSUME NEW Text, config \in Seq(AnyLine(Text)), NEW alias
    PROVE  OpenSsh!FirstValue(alias) = FirstTo(Len(config), alias)
<1> DEFINE S == {n \in DOMAIN config : config[n].directive = "port" /\ OpenSsh!InForce(n, alias)}
<1>1. S = Lines(Len(config), alias)
  BY DEF Lines
<1>2. OpenSsh!FirstValue(alias) = IF S = {} THEN "none" ELSE config[CHOOSE n \in S : \A m \in S : n <= m].value
  BY DEF OpenSsh!FirstValue
<1> HIDE DEF S
<1>3. OpenSsh!Min(S) = CHOOSE n \in S : \A m \in S : n <= m
  BY DEF OpenSsh!Min
<1> QED
  BY <1>1, <1>2, <1>3 DEF FirstTo

LEMMA FirstNext ==
    ASSUME NEW Text, config \in Seq(AnyLine(Text)), NEW alias, NEW n \in 1..Len(config)
    PROVE  FirstTo(n, alias) =
              IF config[n].directive = "port" /\ OpenSsh!InForce(n, alias) /\ FirstTo(n - 1, alias) = "none"
              THEN config[n].value ELSE FirstTo(n - 1, alias)
<1> DEFINE new == Lines(n, alias)
           old == Lines(n - 1, alias)
           counts == config[n].directive = "port" /\ OpenSsh!InForce(n, alias)
<1>1. 1..n = (1..(n - 1)) \cup {n} /\ n \in Nat /\ n \notin 1..(n - 1)
  OBVIOUS
<1>2. new = old \cup {m \in {n} : counts}
  <2> HIDE DEF counts
  <2>1. \A m : m \in new <=> m \in old \/ (m = n /\ counts)
    BY <1>1 DEF Lines, counts
  <2> QED
    BY <2>1
<1>3. new \in SUBSET Nat /\ old \in SUBSET Nat /\ \A m \in old : m < n /\ m \in 1..Len(config) /\ config[m].directive = "port"
  BY <1>1 DEF Lines
<1>4. \A m \in old : config[m].value # "none"
  <2>1. ASSUME NEW m \in old PROVE config[m].value # "none"
    <3>1. config[m] \in AnyLine(Text) /\ config[m].directive = "port"
      BY <1>3
    <3> QED
      BY <3>1 DEF AnyLine
  <2> QED
    BY <2>1
<1> HIDE DEF new, old, counts
<1>5. old # {} => OpenSsh!Min(old) \in old /\ \A m \in old : OpenSsh!Min(old) <= m
  BY <1>3, MinIs
<1>6. FirstTo(n - 1, alias) = "none" <=> old = {}
  BY <1>4, <1>5 DEF FirstTo, old
<1>7. CASE old = {} /\ counts
  <2>1. new = {n}
    BY <1>2, <1>7
  <2>2. OpenSsh!Min(new) = n
    BY <1>1, <1>3, <2>1, MinIs
  <2> QED
    BY <1>6, <1>7, <2>1, <2>2 DEF FirstTo, new, counts
<1>8. CASE old # {} /\ counts
  <2>1. OpenSsh!Min(old) \in new /\ \A m \in new : OpenSsh!Min(old) <= m
    BY <1>1, <1>2, <1>3, <1>5, <1>8
  <2>2. OpenSsh!Min(new) = OpenSsh!Min(old) /\ new # {}
    BY <1>3, <2>1, MinIs
  <2>3. FirstTo(n, alias) = config[OpenSsh!Min(new)].value /\ FirstTo(n - 1, alias) = config[OpenSsh!Min(old)].value
    BY <1>8, <2>2 DEF FirstTo, new, old
  <2> QED
    BY <1>6, <1>8, <2>2, <2>3
<1>9. CASE ~counts
  <2>1. new = old
    BY <1>2, <1>9
  <2>2. FirstTo(n, alias) = FirstTo(n - 1, alias)
    BY <2>1 DEF FirstTo, new, old
  <2> QED
    BY <1>9, <2>2 DEF counts
<1> QED
  BY <1>7, <1>8, <1>9

-----------------------------------------------------------------------------
\* What the blocks so far say of a host.
LEMMA GivingIs ==
    ASSUME NEW Text, NEW blocks \in AnyBlocks(Text), NEW alias
    PROVE  LET giving == OpenSsh!Giving(blocks, alias)
           IN /\ giving \in SUBSET (1..Len(blocks)) /\ giving \in SUBSET Nat
              /\ OpenSsh!EffectiveOption(blocks, alias) = "none" <=> giving = {}
              /\ OpenSsh!EffectiveOption(blocks, alias) \in Values(Text) \cup {"none"}
              /\ \A b \in giving : /\ blocks[b].options \in Seq(Values(Text)) /\ blocks[b].options # <<>>
                                    /\ OpenSsh!Applies(blocks[b], alias)
<1> DEFINE giving == OpenSsh!Giving(blocks, alias)
<1>1. /\ giving \in SUBSET (1..Len(blocks)) /\ giving \in SUBSET Nat
      /\ \A b \in giving : OpenSsh!Applies(blocks[b], alias) /\ blocks[b].options # <<>> /\ blocks[b] \in AnyBlock(Text)
  BY DEF OpenSsh!Giving, AnyBlocks
<1>2. \A b \in giving : blocks[b].options \in Seq(Values(Text))
  BY <1>1 DEF AnyBlock
<1> HIDE DEF giving
<1>3. ASSUME giving # {}
      PROVE  /\ OpenSsh!EffectiveOption(blocks, alias) # "none"
             /\ OpenSsh!EffectiveOption(blocks, alias) \in Values(Text)
  <2> DEFINE o == blocks[OpenSsh!Min(giving)].options
  <2>1. OpenSsh!Min(giving) \in giving
    BY <1>1, <1>3, MinIs
  <2>2. o \in Seq(Values(Text)) /\ o # <<>>
    BY <1>1, <1>2, <2>1
  <2>3. OpenSsh!EffectiveOption(blocks, alias) = Head(o)
    BY <1>3 DEF OpenSsh!EffectiveOption, giving
  <2> HIDE DEF o
  <2>4. Head(o) \in Values(Text)
    BY <2>2
  <2> QED
    BY <2>3, <2>4 DEF Values
<1>4. giving = {} => OpenSsh!EffectiveOption(blocks, alias) = "none"
  BY DEF OpenSsh!EffectiveOption, giving
<1> QED
  BY <1>1, <1>2, <1>3, <1>4 DEF giving

\* A new block gives nothing yet.
LEMMA BlockAdded ==
    ASSUME NEW Text, NEW blocks \in AnyBlocks(Text), NEW patterns \in Seq(AnyPattern(Text)), NEW alias
    PROVE  LET block == [patterns |-> patterns, options |-> <<>>]
               more == Append(blocks, block)
           IN /\ OpenSsh!EffectiveOption(more, alias) = OpenSsh!EffectiveOption(blocks, alias)
              /\ OpenSsh!Applies(more[Len(more)], alias) <=> OpenSsh!Applies([patterns |-> patterns], alias)
              /\ DOMAIN more = (DOMAIN blocks) \cup {Len(more)} /\ more[Len(more)].patterns = patterns
              /\ \A b \in DOMAIN blocks : more[b] = blocks[b]
<1> DEFINE block == [patterns |-> patterns, options |-> <<>>]
           more == Append(blocks, block)
<1>1. block.options = <<>> /\ block.patterns = patterns
  OBVIOUS
<1> HIDE DEF block
<1>2. /\ Len(more) = Len(blocks) + 1 /\ Len(blocks) \in Nat /\ more[Len(more)] = block
      /\ DOMAIN more = 1..(Len(blocks) + 1) /\ DOMAIN blocks = 1..Len(blocks)
      /\ \A b \in 1..Len(blocks) : more[b] = blocks[b]
  BY DEF AnyBlocks
<1> HIDE DEF more
<1>3. OpenSsh!Giving(more, alias) = OpenSsh!Giving(blocks, alias)
  <2>1. \A b \in 1..(Len(blocks) + 1) : b \in 1..Len(blocks) \/ (b = Len(more) /\ more[b].options = <<>>)
    BY <1>1, <1>2
  <2>2. \A b : b \in OpenSsh!Giving(more, alias) <=> b \in OpenSsh!Giving(blocks, alias)
    BY <1>2, <2>1 DEF OpenSsh!Giving
  <2> QED
    BY <2>2
<1>4. OpenSsh!EffectiveOption(more, alias) = OpenSsh!EffectiveOption(blocks, alias)
  <2> DEFINE giving == OpenSsh!Giving(blocks, alias)
  <2>1. giving # {} => OpenSsh!Min(giving) \in 1..Len(blocks)
    <3>1. giving \in SUBSET (1..Len(blocks)) /\ giving \in SUBSET Nat
      BY <1>2 DEF OpenSsh!Giving
    <3> HIDE DEF giving
    <3> QED
      BY <3>1, MinIs
  <2>2. giving # {} => more[OpenSsh!Min(giving)] = blocks[OpenSsh!Min(giving)]
    BY <1>2, <2>1
  <2> QED
    BY <1>3, <2>2 DEF OpenSsh!EffectiveOption
<1>5. OpenSsh!Applies(more[Len(more)], alias) <=> OpenSsh!Applies([patterns |-> patterns], alias)
  BY <1>1, <1>2, AppliesBy
<1>6. /\ DOMAIN more = (DOMAIN blocks) \cup {Len(more)} /\ more[Len(more)].patterns = patterns
      /\ \A b \in DOMAIN blocks : more[b] = blocks[b]
  BY <1>1, <1>2
<1> QED
  BY <1>4, <1>5, <1>6 DEF more, block

\* A value counts when the block is for the host and nothing was given before.
LEMMA OptionAdded ==
    ASSUME NEW Text, NEW blocks \in AnyBlocks(Text), NEW value \in Values(Text), NEW alias
    PROVE  LET more == [blocks EXCEPT ![Len(blocks)].options = Append(@, value)]
           IN /\ OpenSsh!EffectiveOption(more, alias) =
                     IF /\ OpenSsh!EffectiveOption(blocks, alias) = "none"
                        /\ OpenSsh!Applies(blocks[Len(blocks)], alias)
                     THEN value ELSE OpenSsh!EffectiveOption(blocks, alias)
              /\ OpenSsh!Applies(more[Len(more)], alias) <=> OpenSsh!Applies(blocks[Len(blocks)], alias)
              /\ DOMAIN more = DOMAIN blocks
              /\ \A b \in DOMAIN blocks : more[b].patterns = blocks[b].patterns
<1> DEFINE L == Len(blocks)
           more == [blocks EXCEPT ![L].options = Append(@, value)]
           block == blocks[L]
           new == Append(block.options, value)
           old == OpenSsh!Giving(blocks, alias)
           giving == OpenSsh!Giving(more, alias)
<1>1. L \in Nat /\ L \in 1..L /\ DOMAIN blocks = 1..L /\ block \in AnyBlock(Text)
  BY DEF AnyBlocks
<1>2. /\ DOMAIN more = 1..L /\ Len(more) = L
      /\ \A b \in 1..L : b # L => more[b] = blocks[b]
      /\ more[L] = [block EXCEPT !.options = new]
  <2>1. more = [blocks EXCEPT ![L] = [block EXCEPT !.options = new]]
    OBVIOUS
  <2> HIDE DEF new, block
  <2> DEFINE last == [block EXCEPT !.options = new]
  <2> HIDE DEF last
  <2>2. more = [blocks EXCEPT ![L] = last]
    BY <2>1 DEF last
  <2> HIDE DEF more
  <2>3. blocks \in Seq(AnyBlock(Text))
    BY DEF AnyBlocks
  <2>4. DOMAIN more = 1..L /\ more[L] = last /\ \A b \in 1..L : b # L => more[b] = blocks[b]
    BY <1>1, <2>2
  <2>5. Len(more) = L
    BY <1>1, <2>2, <2>3
  <2> QED
    BY <2>4, <2>5 DEF last
<1>3. block.options \in Seq(Values(Text))
  BY <1>1 DEF AnyBlock
<1>4. new # <<>> /\ (block.options = <<>> => Head(new) = value) /\ (block.options # <<>> => Head(new) = Head(block.options))
  <2> DEFINE o == block.options
  <2>1. o \in Seq(Values(Text))
    BY <1>3
  <2> HIDE DEF o, block
  <2> QED
    BY <2>1 DEF o
<1>5. more[L].options = new /\ more[L].patterns = block.patterns
  <2> HIDE DEF new, block, more
  <2> QED
    BY <1>1, <1>2 DEF AnyBlock
<1>6. OpenSsh!Applies(more[L], alias) <=> OpenSsh!Applies(block, alias)
  BY <1>5, AppliesBy
<1> HIDE DEF more, new
<1>7. giving = old \cup {b \in {L} : OpenSsh!Applies(block, alias)}
  <2>1. \A b : b \in giving <=> b \in old \/ (b = L /\ OpenSsh!Applies(block, alias))
    BY <1>1, <1>2, <1>4, <1>5, <1>6 DEF OpenSsh!Giving
  <2> QED
    BY <2>1
<1>8. /\ old \in SUBSET (1..L) /\ old \in SUBSET Nat /\ giving \in SUBSET Nat
      /\ OpenSsh!EffectiveOption(blocks, alias) = "none" <=> old = {}
      /\ L \in old <=> OpenSsh!Applies(block, alias) /\ block.options # <<>>
  <2>1. L \in old <=> OpenSsh!Applies(block, alias) /\ block.options # <<>>
    BY <1>1 DEF OpenSsh!Giving
  <2>2. giving \in SUBSET Nat
    BY <1>1, <1>2 DEF OpenSsh!Giving
  <2> QED
    BY <2>1, <2>2, GivingIs
<1>9. OpenSsh!EffectiveOption(more, alias) = IF giving = {} THEN "none" ELSE Head(more[OpenSsh!Min(giving)].options)
  BY DEF OpenSsh!EffectiveOption
<1>10. OpenSsh!EffectiveOption(blocks, alias) = IF old = {} THEN "none" ELSE Head(blocks[OpenSsh!Min(old)].options)
  BY DEF OpenSsh!EffectiveOption
<1> DEFINE applies == OpenSsh!Applies(block, alias)
           was == OpenSsh!EffectiveOption(blocks, alias)
           is == OpenSsh!EffectiveOption(more, alias)
<1> HIDE DEF giving, old, block, applies, was, is, L
<1>11. is = IF was = "none" /\ applies THEN value ELSE was
  <2>1. CASE old = {} /\ applies
    <3>1. giving = {L}
      BY <1>7, <2>1 DEF applies
    <3>2. OpenSsh!Min(giving) = L
      BY <1>1, <1>8, <3>1, MinIs
    <3>3. block.options = <<>>
      BY <1>8, <2>1 DEF applies
    <3> QED
      BY <1>4, <1>5, <1>8, <1>9, <2>1, <3>1, <3>2, <3>3 DEF was, is
  <2>2. CASE old # {}
    <3>1. OpenSsh!Min(old) \in old /\ \A m \in old : OpenSsh!Min(old) <= m
      BY <1>8, <2>2, MinIs
    <3>2. OpenSsh!Min(old) \in giving /\ \A m \in giving : OpenSsh!Min(old) <= m
      BY <1>7, <1>8, <3>1
    <3>3. OpenSsh!Min(giving) = OpenSsh!Min(old) /\ giving # {}
      BY <1>8, <3>2, MinIs
    <3>4. OpenSsh!Min(old) \in 1..L
      BY <1>8, <3>1
    <3>5. Head(more[OpenSsh!Min(old)].options) = Head(blocks[OpenSsh!Min(old)].options)
      <4>1. CASE OpenSsh!Min(old) = L
        BY <1>4, <1>5, <1>8, <3>1, <4>1 DEF block
      <4>2. CASE OpenSsh!Min(old) # L
        BY <1>2, <3>4, <4>2
      <4> QED
        BY <4>1, <4>2
    <3> QED
      BY <1>8, <1>9, <1>10, <2>2, <3>3, <3>5 DEF was, is
  <2>3. CASE old = {} /\ ~applies
    <3>1. giving = old
      BY <1>7, <2>3 DEF applies
    <3> QED
      BY <1>8, <1>9, <2>3, <3>1 DEF was, is
  <2> QED
    BY <2>1, <2>2, <2>3
<1>12. DOMAIN more = DOMAIN blocks /\ \A b \in DOMAIN blocks : more[b].patterns = blocks[b].patterns
  BY <1>1, <1>2, <1>5 DEF block
<1> QED
  BY <1>2, <1>6, <1>11, <1>12 DEF was, is, applies, more, block, L

-----------------------------------------------------------------------------
\* Block by block or line by line, the first value for a host is the same.
LEMMA GivesFirst ==
    ASSUME NEW Text, config \in Seq(AnyLine(Text)), NEW S, NEW alias \in Seq(S)
    PROVE  OpenSsh!EffectiveOption(OpenSsh!Parsed(config), alias) = OpenSsh!FirstValue(alias)
<1> DEFINE N == Len(config)
<1>1. PICK F \in [0..N -> AnyBlocks(Text)] :
              /\ OpenSsh!Parsed(config) = F[N]
              /\ F[0] = Preamble
              /\ \A n \in 1..N : F[n] = OpenSsh!TakesLine(F[n - 1], config[n])
  BY ParsedIs
<1> DEFINE Agree(n) == /\ OpenSsh!EffectiveOption(F[n], alias) = FirstTo(n, alias)
                       /\ OpenSsh!Applies(F[n][Len(F[n])], alias) <=> OpenSsh!InForce(n + 1, alias)
           T == {n \in 0..N : Agree(n)}
           k == 0
<1>2. N \in Nat /\ 0 \in 0..N
  OBVIOUS
<1>3. Agree(0)
  <2>1. Len(Preamble) = 1 /\ Preamble \in AnyBlocks(Text) /\ Preamble[1].options = <<>>
    BY PreambleIs DEF Preamble
  <2>2. OpenSsh!Applies(Preamble[1], alias)
    BY ForEveryone
  <2>3. OpenSsh!InForce(0 + 1, alias)
    <3>1. {i \in 1..((0 + 1) - 1) : config[i].directive \in {"host", "match"}} = {}
      OBVIOUS
    <3> QED
      BY <3>1 DEF OpenSsh!InForce
  <2>4. OpenSsh!Giving(Preamble, alias) = {}
    <3>1. DOMAIN Preamble = {1}
      BY DEF Preamble
    <3> QED
      BY <2>1, <3>1 DEF OpenSsh!Giving
  <2>5. OpenSsh!EffectiveOption(Preamble, alias) = "none"
    BY <2>4 DEF OpenSsh!EffectiveOption
  <2>6. Lines(0, alias) = {}
    BY DEF Lines
  <2>7. FirstTo(0, alias) = "none"
    BY <2>6 DEF FirstTo
  <2> QED
    BY <1>1, <2>1, <2>2, <2>3, <2>5, <2>7
<1>4. ASSUME NEW n \in (k + 1)..N, n - 1 \in T PROVE n \in T
  <2> DEFINE blocks == F[n - 1]
             line == config[n]
  <2>1. n \in 1..Len(config) /\ n \in 0..N /\ n - 1 \in 0..N /\ (n - 1) + 1 = n
    BY <1>2
  <2>2. blocks \in AnyBlocks(Text) /\ line \in AnyLine(Text) /\ F[n] = OpenSsh!TakesLine(blocks, line)
    BY <1>1, <2>1
  <2>3. /\ OpenSsh!EffectiveOption(blocks, alias) = FirstTo(n - 1, alias)
        /\ OpenSsh!Applies(blocks[Len(blocks)], alias) <=> OpenSsh!InForce(n, alias)
    BY <1>4, <2>1
  <2>4. line.directive \in {"host", "match", "port", "other"} /\ line.patterns \in Seq(AnyPattern(Text))
    BY <2>2 DEF AnyLine
  <2> SUFFICES Agree(n)
    BY <2>1
  <2> HIDE DEF blocks, T, N
  <2>5. CASE line.directive = "host"
    <3>1. F[n] = Append(blocks, [patterns |-> line.patterns, options |-> <<>>])
      BY <2>2, <2>5 DEF OpenSsh!TakesLine
    <3>2. /\ OpenSsh!EffectiveOption(F[n], alias) = OpenSsh!EffectiveOption(blocks, alias)
          /\ OpenSsh!Applies(F[n][Len(F[n])], alias) <=> OpenSsh!Applies([patterns |-> line.patterns], alias)
      BY <2>2, <2>4, <3>1, BlockAdded
    <3>3. FirstTo(n, alias) = FirstTo(n - 1, alias)
      BY <2>1, <2>5, FirstNext
    <3>4. OpenSsh!InForce(n + 1, alias) <=> OpenSsh!Applies([patterns |-> line.patterns], alias)
      BY <2>1, <2>5, InForceIs
    <3> QED
      BY <2>3, <3>2, <3>3, <3>4
  <2>6. CASE line.directive = "match"
    <3> DEFINE none == <<>>
    <3>1. F[n] = Append(blocks, [patterns |-> none, options |-> <<>>]) /\ none \in Seq(AnyPattern(Text))
      BY <2>2, <2>6 DEF OpenSsh!TakesLine
    <3>2. ~OpenSsh!Applies([patterns |-> none], alias)
      BY DEF OpenSsh!Applies
    <3> HIDE DEF none
    <3>3. /\ OpenSsh!EffectiveOption(F[n], alias) = OpenSsh!EffectiveOption(blocks, alias)
          /\ OpenSsh!Applies(F[n][Len(F[n])], alias) <=> OpenSsh!Applies([patterns |-> none], alias)
      BY <2>2, <3>1, BlockAdded
    <3>4. FirstTo(n, alias) = FirstTo(n - 1, alias)
      BY <2>1, <2>6, FirstNext
    <3>5. ~OpenSsh!InForce(n + 1, alias)
      BY <2>1, <2>6, InForceIs
    <3> QED
      BY <2>3, <3>2, <3>3, <3>4, <3>5
  <2>7. CASE line.directive = "port"
    <3>1. F[n] = [blocks EXCEPT ![Len(blocks)].options = Append(@, line.value)]
      BY <2>2, <2>7 DEF OpenSsh!TakesLine
    <3>2. line.value \in Values(Text)
      BY <2>2, <2>7 DEF AnyLine, Values
    <3> DEFINE more == [blocks EXCEPT ![Len(blocks)].options = Append(@, line.value)]
               value == line.value
    <3>3. /\ OpenSsh!EffectiveOption(more, alias) =
                     IF /\ OpenSsh!EffectiveOption(blocks, alias) = "none"
                        /\ OpenSsh!Applies(blocks[Len(blocks)], alias)
                     THEN value ELSE OpenSsh!EffectiveOption(blocks, alias)
          /\ OpenSsh!Applies(more[Len(more)], alias) <=> OpenSsh!Applies(blocks[Len(blocks)], alias)
      <4> HIDE DEF value
      <4> QED
        BY <2>2, <3>2, OptionAdded DEF value
    <3>4. /\ OpenSsh!EffectiveOption(F[n], alias) =
                     IF /\ OpenSsh!EffectiveOption(blocks, alias) = "none"
                        /\ OpenSsh!Applies(blocks[Len(blocks)], alias)
                     THEN line.value ELSE OpenSsh!EffectiveOption(blocks, alias)
          /\ OpenSsh!Applies(F[n][Len(F[n])], alias) <=> OpenSsh!Applies(blocks[Len(blocks)], alias)
      BY <3>1, <3>3
    <3>5. FirstTo(n, alias) = IF OpenSsh!InForce(n, alias) /\ FirstTo(n - 1, alias) = "none"
                              THEN line.value ELSE FirstTo(n - 1, alias)
      BY <2>1, <2>7, FirstNext
    <3>6. OpenSsh!InForce(n + 1, alias) <=> OpenSsh!InForce(n, alias)
      BY <2>1, <2>7, InForceIs
    <3> QED
      BY <2>3, <3>4, <3>5, <3>6
  <2>8. CASE line.directive = "other"
    <3>1. F[n] = blocks
      BY <2>2, <2>8 DEF OpenSsh!TakesLine
    <3>2. FirstTo(n, alias) = FirstTo(n - 1, alias)
      BY <2>1, <2>8, FirstNext
    <3>3. OpenSsh!InForce(n + 1, alias) <=> OpenSsh!InForce(n, alias)
      BY <2>1, <2>8, InForceIs
    <3> QED
      BY <2>3, <3>1, <3>2, <3>3
  <2> QED
    BY <2>4, <2>5, <2>6, <2>7, <2>8
<1>5. k \in T
  BY <1>2, <1>3
<1>6. \A n \in k..N : n \in T
  <2> HIDE DEF T, k, N
  <2>1. k \in Nat
    BY DEF k
  <2> QED
    BY <1>2, <1>4, <1>5, <2>1, Induction
<1>7. Agree(N)
  BY <1>2, <1>6
<1> QED
  BY <1>1, <1>7, FirstIs

-----------------------------------------------------------------------------
\* The patterns of the blocks are those of the Host lines, and the one of the preamble.
InBlocks(p, blocks) == \E b \in DOMAIN blocks : p \in OpenSsh!ToSet(blocks[b].patterns)
Wanted(p, n) == \E m \in 1..n : config[m].directive = "host" /\ p \in OpenSsh!ToSet(config[m].patterns)

LEMMA PatternsAre ==
    ASSUME NEW Text, NEW blocks \in AnyBlocks(Text)
    PROVE  /\ OpenSsh!Patterns(blocks) \in Seq(AnyPattern(Text))
           /\ \A p : p \in OpenSsh!ToSet(OpenSsh!Patterns(blocks)) <=> InBlocks(p, blocks)
<1> DEFINE X == AnyPattern(Text)
           ss == [b \in DOMAIN blocks |-> blocks[b].patterns]
<1>1. ss \in Seq(Seq(X)) /\ DOMAIN ss = DOMAIN blocks /\ \A b \in DOMAIN blocks : ss[b] = blocks[b].patterns
  <2>1. DOMAIN blocks = 1..Len(blocks) /\ Len(blocks) \in Nat /\ \A b \in DOMAIN blocks : blocks[b] \in AnyBlock(Text)
    BY DEF AnyBlocks
  <2>2. \A b \in DOMAIN blocks : blocks[b].patterns \in Seq(X)
    BY <2>1 DEF AnyBlock
  <2> HIDE DEF X
  <2>3. ss \in [1..Len(blocks) -> Seq(X)]
    BY <2>1, <2>2
  <2> QED
    BY <2>1, <2>3
<1>2. OpenSsh!Patterns(blocks) = OpenSsh!FlattenSeq(ss)
  BY DEF OpenSsh!Patterns
<1> HIDE DEF ss, X
<1>3. /\ OpenSsh!FlattenSeq(ss) \in Seq(X)
      /\ OpenSsh!ToSet(OpenSsh!FlattenSeq(ss)) = UNION {OpenSsh!ToSet(ss[i]) : i \in DOMAIN ss}
  BY <1>1, Flattened
<1>4. ASSUME NEW p PROVE p \in OpenSsh!ToSet(OpenSsh!Patterns(blocks)) <=> InBlocks(p, blocks)
  <2>1. p \in OpenSsh!ToSet(OpenSsh!Patterns(blocks)) <=> \E i \in DOMAIN ss : p \in OpenSsh!ToSet(ss[i])
    BY <1>2, <1>3
  <2> QED
    BY <1>1, <2>1 DEF InBlocks
<1> QED
  BY <1>2, <1>3, <1>4 DEF X

LEMMA ExactAreWanted ==
    ASSUME NEW Text, config \in Seq(AnyLine(Text)), NEW p, OpenSsh!Exact(p)
    PROVE  InBlocks(p, OpenSsh!Parsed(config)) <=> Wanted(p, Len(config))
<1> DEFINE N == Len(config)
<1>1. PICK F \in [0..N -> AnyBlocks(Text)] :
              /\ OpenSsh!Parsed(config) = F[N]
              /\ F[0] = Preamble
              /\ \A n \in 1..N : F[n] = OpenSsh!TakesLine(F[n - 1], config[n])
  BY ParsedIs
<1> DEFINE Agree(n) == InBlocks(p, F[n]) <=> Wanted(p, n)
           T == {n \in 0..N : Agree(n)}
           k == 0
<1>2. N \in Nat /\ 0 \in 0..N
  OBVIOUS
<1>3. Agree(0)
  <2> DEFINE q == [negated |-> FALSE, glob |-> <<"*">>]
  <2>1. q.glob = <<"*">>
    OBVIOUS
  <2>2. Preamble[1].patterns = <<q>>
    BY DEF Preamble, OpenSsh!Everyone
  <2>3. DOMAIN Preamble = {1}
    BY DEF Preamble
  <2>4. ~OpenSsh!Exact(q)
    <3>1. DOMAIN q.glob = {1} /\ q.glob[1] = "*"
      BY <2>1
    <3> HIDE DEF q
    <3> QED
      BY <3>1 DEF OpenSsh!Exact, OpenSsh!Wild
  <2> HIDE DEF q
  <2>5. OpenSsh!ToSet(<<q>>) = {q}
    BY DEF OpenSsh!ToSet
  <2>6. ~InBlocks(p, Preamble)
    BY <2>2, <2>4, <2>5, <2>3 DEF InBlocks
  <2>7. ~Wanted(p, 0)
    BY DEF Wanted
  <2> QED
    BY <1>1, <2>6, <2>7
<1>4. ASSUME NEW n \in (k + 1)..N, n - 1 \in T PROVE n \in T
  <2> DEFINE blocks == F[n - 1]
             line == config[n]
  <2>1. n \in 1..Len(config) /\ n \in 0..N /\ n - 1 \in 0..N /\ 1..n = (1..(n - 1)) \cup {n}
    BY <1>2
  <2>2. blocks \in AnyBlocks(Text) /\ line \in AnyLine(Text) /\ F[n] = OpenSsh!TakesLine(blocks, line)
    BY <1>1, <2>1
  <2>3. InBlocks(p, blocks) <=> Wanted(p, n - 1)
    BY <1>4, <2>1
  <2>4. line.directive \in {"host", "match", "port", "other"} /\ line.patterns \in Seq(AnyPattern(Text))
    BY <2>2 DEF AnyLine
  <2>5. Wanted(p, n) <=> Wanted(p, n - 1) \/ (line.directive = "host" /\ p \in OpenSsh!ToSet(line.patterns))
    BY <2>1 DEF Wanted
  <2> SUFFICES Agree(n)
    BY <2>1
  <2> HIDE DEF blocks, T, N, line
  <2>6. CASE line.directive = "host"
    <3> DEFINE more == Append(blocks, [patterns |-> line.patterns, options |-> <<>>])
    <3>1. F[n] = more
      BY <2>2, <2>6 DEF OpenSsh!TakesLine
    <3>2. /\ DOMAIN more = (DOMAIN blocks) \cup {Len(more)} /\ more[Len(more)].patterns = line.patterns
          /\ \A b \in DOMAIN blocks : more[b] = blocks[b]
      <4> DEFINE patterns == line.patterns
      <4> HIDE DEF patterns
      <4> QED
        BY <2>2, <2>4, BlockAdded DEF patterns
    <3> HIDE DEF more
    <3>3. InBlocks(p, more) <=> InBlocks(p, blocks) \/ p \in OpenSsh!ToSet(line.patterns)
      BY <3>2 DEF InBlocks
    <3> QED
      BY <2>3, <2>5, <2>6, <3>1, <3>3
  <2>7. CASE line.directive = "match"
    <3> DEFINE none == <<>>
               more == Append(blocks, [patterns |-> none, options |-> <<>>])
    <3>1. F[n] = more /\ none \in Seq(AnyPattern(Text)) /\ p \notin OpenSsh!ToSet(none)
      BY <2>2, <2>7 DEF OpenSsh!TakesLine, OpenSsh!ToSet
    <3> HIDE DEF none
    <3>2. /\ DOMAIN more = (DOMAIN blocks) \cup {Len(more)} /\ more[Len(more)].patterns = none
          /\ \A b \in DOMAIN blocks : more[b] = blocks[b]
      BY <2>2, <3>1, BlockAdded
    <3> HIDE DEF more
    <3>3. InBlocks(p, more) <=> InBlocks(p, blocks)
      BY <3>1, <3>2 DEF InBlocks
    <3> QED
      BY <2>3, <2>5, <2>7, <3>1, <3>3
  <2>8. CASE line.directive = "port"
    <3> DEFINE value == line.value
               more == [blocks EXCEPT ![Len(blocks)].options = Append(@, value)]
    <3>1. F[n] = more
      BY <2>2, <2>8 DEF OpenSsh!TakesLine
    <3>2. value \in Values(Text)
      BY <2>2, <2>8 DEF AnyLine, Values
    <3> HIDE DEF value
    <3>3. DOMAIN more = DOMAIN blocks /\ \A b \in DOMAIN blocks : more[b].patterns = blocks[b].patterns
      BY <2>2, <3>2, OptionAdded
    <3> HIDE DEF more
    <3>4. InBlocks(p, more) <=> InBlocks(p, blocks)
      BY <3>3 DEF InBlocks
    <3> QED
      BY <2>3, <2>5, <2>8, <3>1, <3>4
  <2>9. CASE line.directive = "other"
    <3>1. F[n] = blocks
      BY <2>2, <2>9 DEF OpenSsh!TakesLine
    <3> QED
      BY <2>3, <2>5, <2>9, <3>1
  <2> QED
    BY <2>4, <2>6, <2>7, <2>8, <2>9
<1>5. k \in T
  BY <1>2, <1>3
<1>6. \A n \in k..N : n \in T
  <2> HIDE DEF T, k, N
  <2>1. k \in Nat
    BY DEF k
  <2> QED
    BY <1>2, <1>4, <1>5, <2>1, Induction
<1>7. Agree(N)
  BY <1>2, <1>6
<1> QED
  BY <1>1, <1>7

-----------------------------------------------------------------------------
\* The sessions that are made of patterns one by one.
Session(Text) == [name : Seq(Text \cup {"*"}), port : Values(Text) \cup {"none"}]
Made(p, blocks) == [name |-> p.glob, port |-> OpenSsh!EffectiveOption(blocks, p.glob)]
Good(p, blocks, had) ==
    /\ OpenSsh!Exact(p) /\ OpenSsh!EffectiveOption(blocks, p.glob) # "bad"
    /\ p.glob \notin OpenSsh!Names(had)

LEMMA AliasTaken ==
    ASSUME NEW Text, NEW blocks \in AnyBlocks(Text), NEW had,
           NEW made \in Seq(Session(Text)), NEW p \in AnyPattern(Text)
    PROVE  LET new == OpenSsh!TakesAlias(made, p, blocks, had)
           IN /\ new \in Seq(Session(Text)) /\ Made(p, blocks) \in Session(Text)
              /\ \/ /\ Good(p, blocks, had) /\ Made(p, blocks) \notin OpenSsh!ToSet(made)
                    /\ Len(new) = Len(made) + 1
                    /\ OpenSsh!ToSet(new) = OpenSsh!ToSet(made) \cup {Made(p, blocks)}
                 \/ /\ new = made
                    /\ Good(p, blocks, had) => p.glob \in OpenSsh!Names(OpenSsh!ToSet(made))
<1> DEFINE new == OpenSsh!TakesAlias(made, p, blocks, had)
           s == Made(p, blocks)
           open == p.glob \notin OpenSsh!Names(had \cup OpenSsh!ToSet(made))
<1>1. s \in Session(Text) /\ s.name = p.glob
  <2>1. OpenSsh!EffectiveOption(blocks, p.glob) \in Values(Text) \cup {"none"}
    BY GivingIs
  <2>2. p.glob \in Seq(Text \cup {"*"})
    BY DEF AnyPattern
  <2> QED
    BY <2>1, <2>2 DEF Made, Session
<1>2. open <=> p.glob \notin OpenSsh!Names(had) /\ p.glob \notin OpenSsh!Names(OpenSsh!ToSet(made))
  BY DEF OpenSsh!Names
<1>3. new = IF OpenSsh!Exact(p) /\ OpenSsh!EffectiveOption(blocks, p.glob) # "bad" /\ open
            THEN Append(made, s) ELSE made
  BY DEF OpenSsh!TakesAlias, Made
<1> HIDE DEF new, open, s
<1>4. CASE Good(p, blocks, had) /\ open
  <2>1. new = Append(made, s)
    BY <1>3, <1>4 DEF Good
  <2>2. s \notin OpenSsh!ToSet(made)
    BY <1>1, <1>2, <1>4 DEF OpenSsh!Names
  <2>3. /\ new \in Seq(Session(Text)) /\ Len(new) = Len(made) + 1 /\ Len(made) \in Nat
        /\ DOMAIN new = (DOMAIN made) \cup {Len(made) + 1}
        /\ new[Len(made) + 1] = s /\ \A i \in DOMAIN made : new[i] = made[i]
    BY <1>1, <2>1
  <2>4. ASSUME NEW x PROVE x \in OpenSsh!ToSet(new) <=> x \in OpenSsh!ToSet(made) \/ x = s
    BY <2>3 DEF OpenSsh!ToSet
  <2>5. OpenSsh!ToSet(new) = OpenSsh!ToSet(made) \cup {s}
    BY <2>4
  <2> QED
    BY <1>1, <1>4, <2>2, <2>3, <2>5 DEF new, s
<1>5. CASE ~(Good(p, blocks, had) /\ open)
  <2>1. new = made
    BY <1>2, <1>3, <1>5 DEF Good
  <2>2. Good(p, blocks, had) => p.glob \in OpenSsh!Names(OpenSsh!ToSet(made))
    BY <1>2, <1>5 DEF Good
  <2> QED
    BY <1>1, <2>1, <2>2 DEF new, s
<1> QED
  BY <1>4, <1>5

LEMMA SessionsAre ==
    ASSUME NEW Text, NEW blocks \in AnyBlocks(Text), NEW had
    PROVE  LET sessions == OpenSsh!Sessions(blocks, had)
           IN /\ sessions \in Seq(Session(Text))
              /\ \A s : s \in OpenSsh!ToSet(sessions) <=>
                         \E p \in AnyPattern(Text) : InBlocks(p, blocks) /\ Good(p, blocks, had) /\ s = Made(p, blocks)
              /\ Len(sessions) = Cardinality(OpenSsh!ToSet(sessions))
<1> DEFINE ps == OpenSsh!Patterns(blocks)
           K == Len(ps)
           k == 0
           S == Seq(Session(Text))
           a == <<>>
           G == CHOOSE upTo : upTo = [n \in 0..Len(ps) |->
                    IF n = 0 THEN <<>> ELSE OpenSsh!TakesAlias(upTo[n - 1], ps[n], blocks, had)]
           onward == [x \in ((k + 1)..K) \X S |-> OpenSsh!TakesAlias(x[2], ps[x[1]], blocks, had)]
<1>1. OpenSsh!Sessions(blocks, had) = G[K]
  BY DEF OpenSsh!Sessions
<1>2. /\ ps \in Seq(AnyPattern(Text)) /\ K \in Nat /\ k \in Nat /\ a \in S /\ 0 \in 0..K
      /\ \A p : p \in OpenSsh!ToSet(ps) <=> InBlocks(p, blocks)
  <2>1. ps \in Seq(AnyPattern(Text)) /\ \A p : p \in OpenSsh!ToSet(ps) <=> InBlocks(p, blocks)
    BY PatternsAre
  <2> HIDE DEF ps
  <2> QED
    BY <2>1
<1> HIDE DEF ps
<1>3. \A n \in 1..K : ps[n] \in AnyPattern(Text)
  BY <1>2
<1>4. onward \in [((k + 1)..K) \X S -> S]
  <2>1. ASSUME NEW n \in (k + 1)..K, NEW made \in S PROVE OpenSsh!TakesAlias(made, ps[n], blocks, had) \in S
    <3>1. ps[n] \in AnyPattern(Text)
      BY <1>3
    <3> QED
      BY <3>1, AliasTaken
  <2> HIDE DEF K, k, S
  <2> QED
    BY <2>1
<1>5. PICK f : Recurs(f, k, K, S, a, onward)
  <2> HIDE DEF K, k, S, a, onward
  <2> QED
    BY <1>2, <1>4, Recursion
<1>6. ASSUME NEW n \in 0..K PROVE f[n] = IF n = 0 THEN <<>> ELSE OpenSsh!TakesAlias(f[n - 1], ps[n], blocks, had)
  <2>1. n # 0 => n \in (k + 1)..K /\ n - 1 \in 0..K
    BY <1>2
  <2>2. n # 0 => f[n - 1] \in S
    BY <1>5, <2>1 DEF Recurs
  <2>3. n # 0 => onward[<<n, f[n - 1]>>] = OpenSsh!TakesAlias(f[n - 1], ps[n], blocks, had)
    <3> HIDE DEF K, k, S
    <3> QED
      BY <2>1, <2>2
  <2> QED
    BY <1>5, <2>3 DEF Recurs
<1>7. G = [n \in 0..K |-> IF n = 0 THEN <<>> ELSE OpenSsh!TakesAlias(G[n - 1], ps[n], blocks, had)]
  <2>1. f = [n \in 0..K |-> f[n]]
    BY <1>5 DEF Recurs
  <2>2. f = [n \in 0..K |-> IF n = 0 THEN <<>> ELSE OpenSsh!TakesAlias(f[n - 1], ps[n], blocks, had)]
    BY <1>6, <2>1
  <2> QED
    BY <2>2
<1> HIDE DEF G
<1> DEFINE Source(i, s) == Good(ps[i], blocks, had) /\ s = Made(ps[i], blocks)
           Agree(n) == /\ G[n] \in S
                       /\ \A s : s \in OpenSsh!ToSet(G[n]) <=> \E i \in 1..n : Source(i, s)
                       /\ IsFiniteSet(OpenSsh!ToSet(G[n])) /\ Len(G[n]) = Cardinality(OpenSsh!ToSet(G[n]))
           T == {n \in 0..K : Agree(n)}
<1>8. Agree(0)
  <2>1. G[0] = <<>>
    BY <1>2, <1>7
  <2>2. OpenSsh!ToSet(G[0]) = {} /\ Len(G[0]) = 0
    BY <2>1 DEF OpenSsh!ToSet
  <2>3. \A i : i \notin 1..0
    OBVIOUS
  <2> QED
    BY <1>2, <2>1, <2>2, <2>3, FS_EmptySet
<1>9. ASSUME NEW n \in (k + 1)..K, n - 1 \in T PROVE n \in T
  <2> DEFINE made == G[n - 1]
             p == ps[n]
  <2>1. n \in 1..K /\ n \in 0..K /\ n # 0 /\ 1..n = (1..(n - 1)) \cup {n}
    BY <1>2
  <2>2. G[n] = OpenSsh!TakesAlias(made, p, blocks, had) /\ p \in AnyPattern(Text)
    BY <1>3, <1>7, <2>1
  <2>3. /\ made \in S
        /\ \A s : s \in OpenSsh!ToSet(made) <=> \E i \in 1..(n - 1) : Source(i, s)
        /\ IsFiniteSet(OpenSsh!ToSet(made)) /\ Len(made) = Cardinality(OpenSsh!ToSet(made))
    BY <1>9
  <2> SUFFICES Agree(n)
    BY <2>1
  <2> HIDE DEF T, K, k
  <2>4. \A s : (\E i \in 1..n : Source(i, s)) <=> (\E i \in 1..(n - 1) : Source(i, s)) \/ Source(n, s)
    <3> HIDE DEF Source
    <3> QED
      BY <2>1
  <2>5. /\ G[n] \in S
        /\ \/ /\ Good(p, blocks, had) /\ Made(p, blocks) \notin OpenSsh!ToSet(made)
              /\ Len(G[n]) = Len(made) + 1
              /\ OpenSsh!ToSet(G[n]) = OpenSsh!ToSet(made) \cup {Made(p, blocks)}
           \/ /\ G[n] = made
              /\ Good(p, blocks, had) => p.glob \in OpenSsh!Names(OpenSsh!ToSet(made))
    <3> DEFINE new == OpenSsh!TakesAlias(made, p, blocks, had)
    <3> HIDE DEF made, p
    <3>1. /\ new \in Seq(Session(Text))
          /\ \/ /\ Good(p, blocks, had) /\ Made(p, blocks) \notin OpenSsh!ToSet(made)
                /\ Len(new) = Len(made) + 1
                /\ OpenSsh!ToSet(new) = OpenSsh!ToSet(made) \cup {Made(p, blocks)}
             \/ /\ new = made
                /\ Good(p, blocks, had) => p.glob \in OpenSsh!Names(OpenSsh!ToSet(made))
      BY <2>2, <2>3, AliasTaken
    <3> HIDE DEF new
    <3>2. G[n] = new
      BY <2>2 DEF new
    <3> QED
      BY <3>1, <3>2
  <2>6. CASE /\ Good(p, blocks, had) /\ Made(p, blocks) \notin OpenSsh!ToSet(made)
             /\ Len(G[n]) = Len(made) + 1
             /\ OpenSsh!ToSet(G[n]) = OpenSsh!ToSet(made) \cup {Made(p, blocks)}
    <3>1. /\ IsFiniteSet(OpenSsh!ToSet(G[n]))
          /\ Cardinality(OpenSsh!ToSet(G[n])) = Cardinality(OpenSsh!ToSet(made)) + 1
      BY <2>3, <2>6, FS_AddElement
    <3>2. \A s : s \in OpenSsh!ToSet(G[n]) <=> s \in OpenSsh!ToSet(made) \/ Source(n, s)
      BY <2>6
    <3> HIDE DEF Source, made
    <3> QED
      BY <2>3, <2>4, <2>5, <2>6, <3>1, <3>2
  <2>7. CASE G[n] = made /\ (Good(p, blocks, had) => p.glob \in OpenSsh!Names(OpenSsh!ToSet(made)))
    <3>1. ASSUME NEW s, Source(n, s) PROVE s \in OpenSsh!ToSet(made)
      <4>1. PICK t \in OpenSsh!ToSet(made) : t.name = p.glob
        BY <2>7, <3>1 DEF OpenSsh!Names
      <4>2. PICK i \in 1..(n - 1) : Source(i, t)
        BY <2>3
      <4>3. ps[i].glob = p.glob
        BY <4>1, <4>2 DEF Made
      <4>4. s = t
        BY <3>1, <4>2, <4>3 DEF Made
      <4> QED
        BY <4>4
    <3> HIDE DEF Source, made
    <3> QED
      BY <2>3, <2>4, <2>5, <2>7, <3>1
  <2> QED
    BY <2>5, <2>6, <2>7
<1>10. k \in T
  BY <1>2, <1>8
<1>11. \A n \in k..K : n \in T
  <2> HIDE DEF T, k, K
  <2> QED
    BY <1>2, <1>9, <1>10, Induction
<1>12. Agree(K)
  <2>1. K \in k..K
    BY <1>2
  <2>2. K \in T
    <3> HIDE DEF T, K, k
    <3> QED
      BY <1>11, <2>1
  <2> HIDE DEF Agree
  <2> QED
    BY <2>2
<1>13. ASSUME NEW s
       PROVE  (\E i \in 1..K : Source(i, s)) <=>
              \E p \in AnyPattern(Text) : InBlocks(p, blocks) /\ Good(p, blocks, had) /\ s = Made(p, blocks)
  <2>1. \A p : InBlocks(p, blocks) <=> \E i \in 1..K : ps[i] = p
    BY <1>2 DEF OpenSsh!ToSet
  <2> HIDE DEF K
  <2> QED
    BY <1>3, <2>1
<1> QED
  BY <1>1, <1>12, <1>13

-----------------------------------------------------------------------------
\* The first import of a file and the second.
Aliases == {p.glob : p \in UNION {{q \in OpenSsh!ToSet(config[n].patterns) : OpenSsh!Exact(q)} :
                           n \in {m \in DOMAIN config : config[m].directive = "host"}}}
Due(a) == a \in Aliases /\ a \notin OpenSsh!Names(known) /\ OpenSsh!FirstValue(a) # "bad"
Entry(a) == [name |-> a, port |-> OpenSsh!FirstValue(a)]

ImportExact ==
    imported # <<>> =>
        /\ \A s : s \in OpenSsh!ToSet(imported[1]) <=> \E a : Due(a) /\ s = Entry(a)
        /\ Len(imported[1]) = Cardinality(OpenSsh!ToSet(imported[1]))
        /\ Len(imported) = 2 => imported[2] = <<>>

LEMMA ImportIs == OpenSsh!ImportIsExact <=> ImportExact
<1> DEFINE X == {Entry(a) : a \in {b \in Aliases \ OpenSsh!Names(known) : OpenSsh!FirstValue(b) # "bad"}}
<1>1. OpenSsh!ImportIsExact <=>
         (imported # <<>> =>
            /\ OpenSsh!ToSet(imported[1]) = X
            /\ Len(imported[1]) = OpenSsh!Cardinality(OpenSsh!ToSet(imported[1]))
            /\ Len(imported) = 2 => imported[2] = <<>>)
  BY DEF OpenSsh!ImportIsExact, Aliases, Entry
<1>2. OpenSsh!Cardinality(OpenSsh!ToSet(imported[1])) = Cardinality(OpenSsh!ToSet(imported[1]))
  BY DEF OpenSsh!Cardinality, Cardinality
<1>3. \A s : s \in X <=> \E a : Due(a) /\ s = Entry(a)
  BY DEF Due
<1> HIDE DEF X
<1>4. OpenSsh!ToSet(imported[1]) = X <=> \A s : s \in OpenSsh!ToSet(imported[1]) <=> \E a : Due(a) /\ s = Entry(a)
  <2> DEFINE Y == OpenSsh!ToSet(imported[1])
  <2> HIDE DEF Y
  <2>1. Y = X <=> \A s : s \in Y <=> s \in X
    OBVIOUS
  <2> QED
    BY <1>3, <2>1 DEF Y
<1> QED
  BY <1>1, <1>2, <1>4 DEF ImportExact

\* The aliases of the file, by the patterns that its blocks end up with.
LEMMA AliasesAre ==
    ASSUME NEW Text, config \in Seq(AnyLine(Text)), NEW a
    PROVE  a \in Aliases <=>
              \E p \in AnyPattern(Text) :
                 OpenSsh!Exact(p) /\ InBlocks(p, OpenSsh!Parsed(config)) /\ a = p.glob
<1>1. a \in Aliases <=> \E p : OpenSsh!Exact(p) /\ Wanted(p, Len(config)) /\ a = p.glob
  BY DEF Aliases, Wanted
<1>2. ASSUME NEW p, Wanted(p, Len(config)) PROVE p \in AnyPattern(Text)
  <2>1. PICK m \in 1..Len(config) : p \in OpenSsh!ToSet(config[m].patterns)
    BY <1>2 DEF Wanted
  <2>2. config[m] \in AnyLine(Text)
    OBVIOUS
  <2>3. config[m].patterns \in Seq(AnyPattern(Text))
    BY <2>2 DEF AnyLine
  <2> QED
    BY <2>1, <2>3 DEF OpenSsh!ToSet
<1> QED
  BY <1>1, <1>2, ExactAreWanted

LEMMA ParsedType ==
    ASSUME NEW Text, config \in Seq(AnyLine(Text))
    PROVE  OpenSsh!Parsed(config) \in AnyBlocks(Text)
<1>1. PICK F \in [0..Len(config) -> AnyBlocks(Text)] : OpenSsh!Parsed(config) = F[Len(config)]
  BY ParsedIs
<1>2. Len(config) \in 0..Len(config)
  OBVIOUS
<1> QED
  BY <1>1, <1>2

\* What one import adds to what there was.
LEMMA ImportAdds ==
    ASSUME NEW Text, config \in Seq(AnyLine(Text)), NEW had
    PROVE  LET sessions == OpenSsh!Sessions(OpenSsh!Parsed(config), had)
           IN /\ sessions \in Seq(Session(Text))
              /\ \A s : s \in OpenSsh!ToSet(sessions) <=>
                         \E a : /\ a \in Aliases /\ a \notin OpenSsh!Names(had)
                               /\ OpenSsh!FirstValue(a) # "bad" /\ s = Entry(a)
              /\ Len(sessions) = Cardinality(OpenSsh!ToSet(sessions))
<1> DEFINE blocks == OpenSsh!Parsed(config)
           sessions == OpenSsh!Sessions(blocks, had)
<1>1. blocks \in AnyBlocks(Text)
  BY ParsedType
<1>2. \A p \in AnyPattern(Text) : OpenSsh!EffectiveOption(blocks, p.glob) = OpenSsh!FirstValue(p.glob)
  <2>1. \A p \in AnyPattern(Text) : p.glob \in Seq(Text \cup {"*"})
    BY DEF AnyPattern
  <2> QED
    BY <2>1, GivesFirst
<1>3. \A a : a \in Aliases <=> \E p \in AnyPattern(Text) : OpenSsh!Exact(p) /\ InBlocks(p, blocks) /\ a = p.glob
  BY AliasesAre
<1> HIDE DEF blocks
<1>4. /\ sessions \in Seq(Session(Text))
      /\ \A s : s \in OpenSsh!ToSet(sessions) <=>
                 \E p \in AnyPattern(Text) : InBlocks(p, blocks) /\ Good(p, blocks, had) /\ s = Made(p, blocks)
      /\ Len(sessions) = Cardinality(OpenSsh!ToSet(sessions))
  BY <1>1, SessionsAre
<1> HIDE DEF sessions
<1>5. ASSUME NEW s
      PROVE  s \in OpenSsh!ToSet(sessions) <=>
                \E a : /\ a \in Aliases /\ a \notin OpenSsh!Names(had)
                      /\ OpenSsh!FirstValue(a) # "bad" /\ s = Entry(a)
  <2>1. \A p \in AnyPattern(Text) :
           /\ Good(p, blocks, had) <=> /\ OpenSsh!Exact(p) /\ OpenSsh!FirstValue(p.glob) # "bad"
                                      /\ p.glob \notin OpenSsh!Names(had)
           /\ Made(p, blocks) = Entry(p.glob)
    BY <1>2 DEF Good, Made, Entry
  <2> QED
    BY <1>3, <1>4, <2>1
<1> QED
  BY <1>4, <1>5 DEF sessions, blocks

ImportTyped(Text) ==
    /\ config \in Seq(AnyLine(Text))
    /\ imported \in Seq(Seq(Session(Text))) /\ Len(imported) <= 2

LEMMA ImportConfigKeeps ==
    ASSUME NEW Text, ImportTyped(Text), ImportExact, OpenSsh!ImportConfig
    PROVE  ImportTyped(Text)' /\ ImportExact'
<1> DEFINE had == known \cup UNION {OpenSsh!ToSet(imported[i]) : i \in DOMAIN imported}
           new == OpenSsh!Sessions(OpenSsh!Parsed(config), had)
<1>1. Len(imported) < 2 /\ imported' = Append(imported, new) /\ UNCHANGED <<config, known>>
  BY DEF OpenSsh!ImportConfig
<1>2. /\ new \in Seq(Session(Text))
      /\ \A s : s \in OpenSsh!ToSet(new) <=>
                 \E a : /\ a \in Aliases /\ a \notin OpenSsh!Names(had)
                       /\ OpenSsh!FirstValue(a) # "bad" /\ s = Entry(a)
      /\ Len(new) = Cardinality(OpenSsh!ToSet(new))
  <2> HIDE DEF had
  <2> QED
    BY ImportAdds DEF ImportTyped
<1> HIDE DEF new
<1>3. ImportTyped(Text)'
  BY <1>1, <1>2 DEF ImportTyped
<1>4. \A a : (Due(a)' <=> Due(a)) /\ Entry(a)' = Entry(a)
  <2>1. \A a : OpenSsh!FirstValue(a)' = OpenSsh!FirstValue(a)
    BY <1>1 DEF OpenSsh!FirstValue, OpenSsh!InForce
  <2>2. Aliases' = Aliases
    BY <1>1 DEF Aliases
  <2> QED
    BY <1>1, <2>1, <2>2 DEF Due, Entry
<1>5. CASE imported = <<>>
  <2>1. had = known
    BY <1>5
  <2>2. Len(imported') = 1 /\ imported'[1] = new
    BY <1>1, <1>5
  <2>3. \A s : s \in OpenSsh!ToSet(new) <=> \E a : Due(a) /\ s = Entry(a)
    BY <1>2, <2>1 DEF Due
  <2>4. \A s : s \in OpenSsh!ToSet(imported'[1]) <=> \E a : Due(a)' /\ s = Entry(a)'
    BY <1>4, <2>2, <2>3
  <2>5. Len(imported'[1]) = Cardinality(OpenSsh!ToSet(imported'[1])) /\ Len(imported') # 2
    BY <1>2, <2>2
  <2>6. ImportExact'
    BY <2>4, <2>5 DEF ImportExact, OpenSsh!ToSet
  <2> QED
    BY <1>3, <2>6
<1>6. CASE imported # <<>>
  <2> DEFINE first == imported[1]
  <2> DEFINE Q == Seq(Session(Text))
  <2>1. imported \in Seq(Q) /\ Len(imported) < 2 /\ imported # <<>>
    BY <1>1, <1>6 DEF ImportTyped
  <2> HIDE DEF Q
  <2>2. Len(imported) = 1 /\ DOMAIN imported = {1} /\ first \in Q
    <3>1. Len(imported) \in Nat /\ Len(imported) # 0
      BY <2>1, EmptySeq
    <3>2. Len(imported) = 1
      <4>1. \A l \in Nat : l < 2 /\ l # 0 => l = 1
        OBVIOUS
      <4> QED
        BY <2>1, <3>1, <4>1
    <3>3. DOMAIN imported = 1..1 /\ 1..1 = {1}
      BY <2>1, <3>2
    <3> QED
      BY <2>1, <3>2, <3>3
  <2>3. Len(imported) = 1 /\ DOMAIN imported = {1} /\ first \in Seq(Session(Text))
    BY <2>2 DEF Q
  <2>4. had = known \cup OpenSsh!ToSet(first)
    BY <2>3
  <2>5. new \in Q
    BY <1>2 DEF Q
  <2>6. Len(imported') = 2 /\ imported'[1] = first /\ imported'[2] = new
    <3>1. ASSUME NEW i \in Seq(Q), Len(i) = 1, NEW x \in Q
          PROVE  /\ Len(Append(i, x)) = 2 /\ Append(i, x)[1] = i[1] /\ Append(i, x)[2] = x
      <4>1. /\ Len(Append(i, x)) = Len(i) + 1
            /\ \A j \in 1..Len(i) : Append(i, x)[j] = i[j] /\ Append(i, x)[Len(i) + 1] = x
        BY AppendProperties
      <4>2. 1 \in 1..Len(i) /\ Len(i) + 1 = 2
        BY <3>1
      <4> QED
        BY <4>1, <4>2
    <3>2. /\ Len(Append(imported, new)) = 2 /\ Append(imported, new)[1] = imported[1]
          /\ Append(imported, new)[2] = new
      BY <2>1, <2>2, <2>5, <3>1
    <3> QED
      BY <1>1, <3>2
  <2>7. /\ \A s : s \in OpenSsh!ToSet(first) <=> \E a : Due(a) /\ s = Entry(a)
        /\ Len(first) = Cardinality(OpenSsh!ToSet(first))
    BY <1>6 DEF ImportExact
  <2> HIDE DEF first, had
  <2>8. \A s : s \notin OpenSsh!ToSet(new)
    <3>1. ASSUME NEW a, a \in Aliases, a \notin OpenSsh!Names(had), OpenSsh!FirstValue(a) # "bad" PROVE FALSE
      <4>1. a \notin OpenSsh!Names(known)
        BY <2>4, <3>1 DEF OpenSsh!Names
      <4>2. Entry(a) \in OpenSsh!ToSet(first)
        BY <2>7, <3>1, <4>1 DEF Due
      <4>3. Entry(a).name = a
        BY DEF Entry
      <4> QED
        BY <2>4, <3>1, <4>2, <4>3 DEF OpenSsh!Names
    <3> QED
      BY <1>2, <3>1
  <2>9. new = <<>>
    BY <1>2, <2>8 DEF OpenSsh!ToSet
  <2>10. \A s : s \in OpenSsh!ToSet(imported'[1]) <=> \E a : Due(a)' /\ s = Entry(a)'
    BY <1>4, <2>6, <2>7
  <2>11. ImportExact'
    BY <2>6, <2>7, <2>9, <2>10 DEF ImportExact, OpenSsh!ToSet
  <2> QED
    BY <1>3, <2>11
<1> QED
  BY <1>5, <1>6

\* Any file of any lines, with any sessions there before.
EveryImport(Text) ==
    /\ config \in Seq(AnyLine(Text)) /\ imported = <<>>
    /\ [][OpenSsh!ImportConfig]_openSshVars

LEMMA ImportStutters ==
    ASSUME NEW Text, ImportTyped(Text), ImportExact, UNCHANGED <<config, known, imported>>
    PROVE  ImportTyped(Text)' /\ ImportExact'
<1>1. ImportTyped(Text)'
  BY DEF ImportTyped
<1>2. \A a : OpenSsh!FirstValue(a)' = OpenSsh!FirstValue(a)
  BY DEF OpenSsh!FirstValue, OpenSsh!InForce
<1>3. Aliases' = Aliases
  BY DEF Aliases
<1>4. \A a : (Due(a)' <=> Due(a)) /\ Entry(a)' = Entry(a)
  BY <1>2, <1>3 DEF Due, Entry
<1>5. ImportExact'
  BY <1>4 DEF ImportExact
<1> QED
  BY <1>1, <1>5

\* Whatever lines and words a file has and whichever sessions are known: every exact host
\* that is new and has good values becomes one session with the first value the file has
\* for it, and another import adds nothing (parse_openssh_config, effective_options,
\* import_openssh_config).
THEOREM EveryImportIsExact ==
    ASSUME NEW Text
    PROVE  EveryImport(Text) => []OpenSsh!ImportIsExact
<1>1. config \in Seq(AnyLine(Text)) /\ imported = <<>> => ImportTyped(Text) /\ ImportExact
  BY DEF ImportTyped, ImportExact
<1>2. ImportTyped(Text) /\ ImportExact /\ [OpenSsh!ImportConfig]_openSshVars => (ImportTyped(Text) /\ ImportExact)'
  BY ImportConfigKeeps, ImportStutters DEF openSshVars
<1>3. ImportTyped(Text) /\ ImportExact => OpenSsh!ImportIsExact
  BY ImportIs
<1> QED
  BY <1>1, <1>2, <1>3, PTL DEF EveryImport

\* The words of the lines that the model lists.
Words == {"a", "b", "*", "22", "bad", "none"}

LEMMA LinesAreLines == ConfigLines \subseteq AnyLine(Words)
<1>1. ASSUME NEW g \in {<<"a">>, <<"b">>, <<"*">>}, NEW n \in BOOLEAN PROVE Glob(n, g) \in AnyPattern(Words)
  <2>1. g \in Seq(Words \cup {"*"})
    <3>1. \A x \in Words : <<x>> \in Seq(Words \cup {"*"})
      OBVIOUS
    <3>2. "a" \in Words /\ "b" \in Words /\ "*" \in Words
      BY DEF Words
    <3> QED
      BY <3>1, <3>2
  <2> QED
    BY <2>1 DEF Glob, AnyPattern
<1>2. ASSUME NEW ps \in Seq(AnyPattern(Words)), NEW d \in {"host", "match", "other"}
      PROVE  Line(d, ps, "none") \in AnyLine(Words)
  BY DEF Line, AnyLine, Words
<1>3. ASSUME NEW v \in {"22", "bad"} PROVE Line("port", <<>>, v) \in AnyLine(Words)
  BY DEF Line, AnyLine, Words
<1>4. /\ Glob(FALSE, <<"a">>) \in AnyPattern(Words) /\ Glob(FALSE, <<"b">>) \in AnyPattern(Words)
      /\ Glob(FALSE, <<"*">>) \in AnyPattern(Words) /\ Glob(TRUE, <<"b">>) \in AnyPattern(Words)
  BY <1>1
<1>5. /\ <<Glob(FALSE, <<"a">>)>> \in Seq(AnyPattern(Words))
      /\ <<Glob(FALSE, <<"b">>), Glob(FALSE, <<"a">>)>> \in Seq(AnyPattern(Words))
      /\ <<Glob(FALSE, <<"*">>), Glob(TRUE, <<"b">>)>> \in Seq(AnyPattern(Words))
      /\ <<>> \in Seq(AnyPattern(Words))
  <2>1. ASSUME NEW X, NEW x \in X, NEW y \in X PROVE <<x>> \in Seq(X) /\ <<x, y>> \in Seq(X) /\ <<>> \in Seq(X)
    OBVIOUS
  <2> QED
    BY <1>4, <2>1
<1> QED
  BY <1>2, <1>3, <1>5 DEF ConfigLines

\* What the imports of such a file keep to.
ImportAgrees == ImportTyped(Words) /\ ImportExact

LEMMA ImportBegins == OpenSsh!OpenSshInit => ImportAgrees
BY DEF OpenSsh!OpenSshInit, ImportAgrees, ImportTyped, ImportExact

LEMMA FilePicked == OpenSsh!PicksConfig => config' \in Seq(AnyLine(Words))
<1> SUFFICES ASSUME OpenSsh!PicksConfig PROVE config' \in Seq(AnyLine(Words))
  OBVIOUS
<1>1. PICK k \in 0..ConfigLength : config' \in [1..k -> ConfigLines]
  BY DEF OpenSsh!PicksConfig, OpenSsh!UpTo
<1>2. k \in Nat
  OBVIOUS
<1>3. config' \in [1..k -> AnyLine(Words)]
  BY <1>1, LinesAreLines
<1> QED
  BY <1>2, <1>3

LEMMA ImportNextKeeps ==
    ASSUME ImportAgrees, [OpenSsh!OpenSshNext]_openSshVars
    PROVE  ImportAgrees'
<1>1. CASE OpenSsh!PicksConfig
  <2>1. imported = <<>> /\ imported' = imported
    BY <1>1 DEF OpenSsh!PicksConfig
  <2> QED
    BY <1>1, <2>1, FilePicked DEF ImportAgrees, ImportTyped, ImportExact
<1>2. CASE OpenSsh!ImportConfig
  BY <1>2, ImportConfigKeeps DEF ImportAgrees
<1>3. CASE UNCHANGED <<config, known, imported>>
  BY <1>3, ImportStutters DEF ImportAgrees
<1> QED
  BY <1>1, <1>2, <1>3 DEF OpenSsh!OpenSshNext, OpenSsh!MatchStep, OpenSsh!importVars, openSshVars

-----------------------------------------------------------------------------
\* A record that was saved is a request, and only frames there are are sent.
RequestsTyped ==
    /\ Desired!RequestsTypeOK
    /\ stage = "saved" => DOMAIN record = DOMAIN Desired!Choices
    /\ requestInbox \in Seq({"start", "session", "gateway"})

LEMMA RequestsInitEstablishes ==
    ASSUME Desired!RequestsInit \/ Desired!RequestsOf({Desired!Rdp})
    PROVE  RequestsTyped
<1>1. DOMAIN asked = DOMAIN Desired!Choices
  <2>1. CASE asked = Desired!Rdp
    BY <2>1 DEF Desired!Rdp, Desired!Choices
  <2>2. CASE asked \in Desired!Requested
    <3>1. PICK base \in {Desired!Rdp, Desired!RdpGateway, Desired!Vnc, Desired!VncRemote},
               f \in DOMAIN Desired!Choices, g \in DOMAIN Desired!Choices :
             \E v \in Desired!Choices[f], w \in Desired!Choices[g] :
                asked = [base EXCEPT ![f] = v, ![g] = w]
      BY <2>2 DEF Desired!Requested
    <3>2. DOMAIN asked = DOMAIN base
      BY <3>1
    <3>3. DOMAIN base = DOMAIN Desired!Choices
      <4>1. DOMAIN Desired!Rdp = DOMAIN Desired!Choices
        BY DEF Desired!Rdp, Desired!Choices
      <4>2. DOMAIN Desired!RdpGateway = DOMAIN Desired!Rdp /\ DOMAIN Desired!Vnc = DOMAIN Desired!Rdp
        BY DEF Desired!RdpGateway, Desired!Vnc
      <4>3. DOMAIN Desired!VncRemote = DOMAIN Desired!Vnc
        BY DEF Desired!VncRemote
      <4> QED
        BY <4>1, <4>2, <4>3
    <3> QED
      BY <3>2, <3>3
  <2> QED
    BY <2>1, <2>2 DEF Desired!RequestsInit, Desired!RequestsOf
<1>2. /\ request = asked /\ stage = "asked" /\ refuser = "nobody"
      /\ requestInbox = <<>> /\ heard = {}
  BY DEF Desired!RequestsInit, Desired!RequestsOf
<1> QED
  BY <1>1, <1>2 DEF RequestsTyped, Desired!RequestsTypeOK, Desired!Stages, Desired!Refusers

LEMMA RequestsNextKeep == RequestsTyped /\ [Desired!RequestsNext]_requestVars => RequestsTyped'
<1> SUFFICES ASSUME RequestsTyped, [Desired!RequestsNext]_requestVars PROVE RequestsTyped'
  OBVIOUS
<1> DEFINE fields == DOMAIN Desired!Choices
<1>1. /\ DOMAIN asked = fields /\ DOMAIN request = fields
      /\ stage \in Desired!Stages /\ refuser \in Desired!Refusers
      /\ (refuser = "nobody") <=> (stage # "refused")
      /\ heard \subseteq {"start", "session", "gateway"}
      /\ stage = "saved" => DOMAIN record = fields
      /\ requestInbox \in Seq({"start", "session", "gateway"})
  BY DEF RequestsTyped, Desired!RequestsTypeOK
<1> HIDE DEF fields
<1>2. ASSUME stage # "refused", UNCHANGED asked, DOMAIN request' = fields,
             \/ \E who \in Desired!Refusers \ {"nobody"} : Desired!Refuses(who)
             \/ \E s \in Desired!Stages \ {"refused"} : Desired!Reaches(s),
             heard' \subseteq {"start", "session", "gateway"},
             stage' = "saved" => DOMAIN record' = fields,
             requestInbox' \in Seq({"start", "session", "gateway"})
      PROVE  RequestsTyped'
  BY <1>1, <1>2 DEF RequestsTyped, Desired!RequestsTypeOK, Desired!Refuses, Desired!Reaches, Desired!Stages, fields
<1>3. CASE Desired!Validates
  BY <1>1, <1>2, <1>3 DEF Desired!Validates, Desired!Refuses, Desired!Reaches, Desired!Stages, Desired!Refusers
<1>4. CASE Desired!Saves
  <2>1. /\ stage = "asked" /\ UNCHANGED <<asked, request, requestInbox, heard>>
        /\ \/ Desired!Refuses("manager") \/ Desired!Refuses("vault") \/ Desired!Refuses("store")
           \/ Desired!Reaches("saved") /\ record' = Desired!Profile(request)
    BY <1>4 DEF Desired!Saves
  <2>2. DOMAIN Desired!Profile(request) = fields
    BY <1>1 DEF Desired!Profile
  <2> QED
    BY <1>1, <1>2, <2>1, <2>2 DEF Desired!Refuses, Desired!Reaches, Desired!Stages, Desired!Refusers
<1>5. CASE Desired!Reopens
  <2>1. stage = "saved" /\ DOMAIN request' = DOMAIN record
    BY <1>5 DEF Desired!Reopens
  <2> QED
    BY <1>1, <1>2, <1>5, <2>1 DEF Desired!Reopens, Desired!Reaches, Desired!Stages
<1>6. CASE Desired!Resolves
  BY <1>1, <1>2, <1>6 DEF Desired!Resolves, Desired!Refuses, Desired!Reaches, Desired!Stages, Desired!Refusers
<1>7. CASE Desired!Launches
  BY <1>1, <1>2, <1>7 DEF Desired!Launches, Desired!Refuses, Desired!Reaches, Desired!Stages, Desired!Refusers
<1>8. CASE Desired!HelperBoots
  BY <1>1, <1>2, <1>8 DEF Desired!HelperBoots, Desired!Refuses, Desired!Reaches, Desired!Stages, Desired!Refusers
<1>9. CASE Desired!HelperReads
  <2>1. /\ Tail(requestInbox) \in Seq({"start", "session", "gateway"})
        /\ Head(requestInbox) \in {"start", "session", "gateway"}
    BY <1>1, <1>9 DEF Desired!HelperReads
  <2> QED
    BY <1>1, <1>2, <1>9, <2>1 DEF Desired!HelperReads, Desired!Refuses, Desired!Reaches, Desired!Stages, Desired!Refusers
<1>10. CASE Desired!HelperReports
  BY <1>1, <1>2, <1>10 DEF Desired!HelperReports, Desired!Refuses, Desired!Reaches, Desired!Stages, Desired!Refusers
<1>11. CASE UNCHANGED requestVars
  BY <1>11 DEF requestVars, RequestsTyped, Desired!RequestsTypeOK
<1> QED
  BY <1>3, <1>4, <1>5, <1>6, <1>7, <1>8, <1>9, <1>10, <1>11 DEF Desired!RequestsNext

-----------------------------------------------------------------------------
\* What becomes of a request for a remote desktop.

\* Any combination of the values that a field is given.
Fields == {"protocol", "host", "port", "username", "domain", "endpoint", "gatewayUser",
           "gatewayCredential", "credential", "display", "depth", "audio", "clipboard",
           "insecure", "reconnect", "quality", "attempts"}
IsRequest(r) ==
    /\ r = [f \in Fields |-> r[f]]
    /\ \A f \in Fields : r[f] \in Desired!Choices[f]

LEMMA FieldsAre == DOMAIN Desired!Choices = Fields
BY DEF Desired!Choices, Fields

LEMMA RequestIs ==
    ASSUME NEW r, IsRequest(r)
    PROVE  /\ DOMAIN r = Fields /\ r.protocol \in {"rdp", "vnc"} /\ r.username \in Desired!Texts
           /\ r.username # "none" /\ {r.audio, r.clipboard, r.insecure} \subseteq BOOLEAN
BY DEF IsRequest, Fields, Desired!Choices, Desired!Texts

\* What validate_request lets pass, field by field.
LEMMA AcceptedIs ==
    ASSUME NEW r, IsRequest(r), Desired!ManagerAccepts(r)
    PROVE  /\ r.host \notin {"empty", "blank", "padded", "control", "long"} /\ r.port # 0
           /\ r.insecure => r.protocol = "vnc"
           /\ r.protocol = "vnc" /\ ~r.insecure => r.host = "loopback"
           /\ r.protocol = "rdp" => r.username # "empty"
           /\ r.username \notin {"blank", "padded", "control", "long"}
           /\ r.domain \notin {"blank", "padded", "control", "long"}
           /\ r.credential \notin {"blank", "padded", "control", "long"}
           /\ \/ /\ r.endpoint = "none" /\ r.gatewayUser = "none" /\ r.gatewayCredential = "none"
              \/ /\ r.protocol = "rdp" /\ r.endpoint = "fine"
                 /\ \A t \in {r.gatewayUser, r.gatewayCredential} :
                       t \notin {"none", "empty", "blank", "padded", "control", "long"}
           /\ ~r.audio
           /\ r.protocol = "rdp" /\ r.clipboard => Windows
           /\ r.depth # 0 /\ (r.protocol = "rdp" => r.depth \in {16, 32})
           /\ r.quality \in {"balanced", "low-latency", "low-bandwidth"}
           /\ r.attempts <= 10
           /\ Desired!DisplayValid(r.display)
BY DEF Desired!ManagerAccepts, Desired!Blank, Desired!Tidy, Desired!HasGateway, Desired!GatewayComplete,
   Desired!Given, Desired!EndpointValid, Desired!RdpDepthValid, Desired!QualityKnown, Desired!PolicyValid

\* What was saved is a request again that is let pass.
Reopened(r) ==
    [Desired!Profile(r) EXCEPT !.username = IF Desired!Given(@) THEN @ ELSE "empty"]

LEMMA ReopenedIs ==
    ASSUME NEW r, IsRequest(r)
    PROVE  /\ IsRequest(Reopened(r))
           /\ \A f \in Fields \ {"username", "credential"} : Reopened(r)[f] = r[f]
           /\ Reopened(r).username =
                 IF r.username \in {"empty", "blank"} THEN "empty" ELSE r.username
           /\ Reopened(r).credential = r.credential \/ Reopened(r).credential = "none"
<1>1. DOMAIN r = Fields /\ r.username \in Desired!Texts /\ r.username # "none"
  BY RequestIs
<1>2. /\ DOMAIN Desired!Profile(r) = Fields
      /\ \A f \in Fields \ {"username", "credential"} : Desired!Profile(r)[f] = r[f]
      /\ Desired!Profile(r).username = (IF r.username \in {"empty", "blank"} THEN "none" ELSE r.username)
      /\ Desired!Profile(r).credential \in {r.credential, "none"}
  BY <1>1 DEF Desired!Profile, Desired!Blank, Fields
<1>3. /\ Reopened(r) = [f \in Fields |-> Reopened(r)[f]]
      /\ \A f \in Fields \ {"username"} : Reopened(r)[f] = Desired!Profile(r)[f]
      /\ Reopened(r).username = (IF Desired!Profile(r).username # "none"
                                 THEN Desired!Profile(r).username ELSE "empty")
  BY <1>2 DEF Reopened, Fields, Desired!Given
<1>4. Reopened(r).username = IF r.username \in {"empty", "blank"} THEN "empty" ELSE r.username
  BY <1>1, <1>2, <1>3
<1>5. \A f \in Fields : Reopened(r)[f] \in Desired!Choices[f]
  <2>1. Reopened(r).username \in Desired!Choices.username
    BY <1>1, <1>4 DEF Desired!Choices, Desired!Texts
  <2>2. Reopened(r).credential \in Desired!Choices.credential
    BY <1>2, <1>3 DEF IsRequest, Desired!Choices, Fields
  <2> QED
    BY <1>2, <1>3, <2>1, <2>2 DEF IsRequest
<1>6. Reopened(r).credential \in {r.credential, "none"}
  BY <1>2, <1>3 DEF Fields
<1> QED
  BY <1>2, <1>3, <1>4, <1>5, <1>6 DEF IsRequest

LEMMA ReopenedPasses ==
    ASSUME NEW r, IsRequest(r), Desired!ManagerAccepts(r)
    PROVE  Desired!ManagerAccepts(Reopened(r))
<1> DEFINE s == Reopened(r)
<1>1. /\ \A f \in Fields \ {"username", "credential"} : s[f] = r[f]
      /\ s.username = IF r.username \in {"empty", "blank"} THEN "empty" ELSE r.username
      /\ s.credential = r.credential \/ s.credential = "none"
  BY ReopenedIs
<1>2. r.username # "blank" /\ (r.protocol = "rdp" => r.username # "empty")
  BY AcceptedIs
<1> HIDE DEF s
<1>3. /\ s.protocol = r.protocol /\ s.host = r.host /\ s.port = r.port /\ s.insecure = r.insecure
      /\ s.domain = r.domain /\ s.endpoint = r.endpoint /\ s.gatewayUser = r.gatewayUser
      /\ s.gatewayCredential = r.gatewayCredential /\ s.audio = r.audio /\ s.clipboard = r.clipboard
      /\ s.depth = r.depth /\ s.quality = r.quality /\ s.attempts = r.attempts /\ s.display = r.display
  BY <1>1 DEF Fields
<1>4. Desired!ManagerAccepts(s)
  BY <1>1, <1>2, <1>3 DEF Desired!ManagerAccepts, Desired!Blank, Desired!Tidy, Desired!HasGateway,
     Desired!GatewayComplete, Desired!PolicyValid
<1> QED
  BY <1>4 DEF s

\* The store takes it, but for a domain that VNC does not have.
LEMMA StoreTakes ==
    ASSUME NEW r, IsRequest(r), Desired!ManagerAccepts(r),
           ~(r.protocol = "vnc" /\ Desired!Given(r.domain))
    PROVE  Desired!RecordValid(Desired!Profile(r))
<1> DEFINE s == Desired!Profile(r)
<1>1. \A f \in Fields \ {"username", "credential"} : s[f] = r[f]
  BY DEF IsRequest, Desired!Profile, Fields
<1> HIDE DEF s
<1>2. /\ s.protocol = r.protocol /\ s.host = r.host /\ s.port = r.port /\ s.insecure = r.insecure
      /\ s.domain = r.domain /\ s.endpoint = r.endpoint /\ s.gatewayUser = r.gatewayUser
      /\ s.gatewayCredential = r.gatewayCredential /\ s.audio = r.audio /\ s.clipboard = r.clipboard
      /\ s.depth = r.depth /\ s.quality = r.quality /\ s.attempts = r.attempts /\ s.display = r.display
  BY <1>1 DEF Fields
<1>3. Desired!DisplayInRange(r.display)
  BY AcceptedIs DEF Desired!DisplayValid
<1>4. Desired!RecordValid(s)
  BY <1>2, <1>3, AcceptedIs DEF Desired!RecordValid, Desired!Blank, Desired!HasGateway, Desired!Given,
     Desired!GatewayProfileValid, Desired!RdpDepthValid, Desired!QualityKnown, Desired!PolicyValid
<1> QED
  BY <1>4 DEF s

\* The supervisor takes it with its secret.
LEMMA SupervisorTakes ==
    ASSUME NEW r, IsRequest(r), Desired!ManagerAccepts(r),
           Desired!Secret(r.credential) \/ r.protocol = "vnc"
    PROVE  Desired!SupervisorAccepts(r)
BY AcceptedIs DEF Desired!SupervisorAccepts, Desired!ManagerAccepts, Desired!Secret, Desired!Blank, Desired!Given, Desired!Tidy

\* Which flags the helper is given.
ArgumentsOf(r) == [f \in Desired!Flags(r) |-> r[f]]

LEMMA FlagsAre ==
    ASSUME NEW r, IsRequest(r), Desired!ManagerAccepts(r)
    PROVE  /\ Desired!Flags(r) \subseteq Fields
           /\ {"protocol", "host", "port", "display", "reconnect", "attempts"} \subseteq Desired!Flags(r)
           /\ "username" \in Desired!Flags(r) <=> r.username # "empty"
           /\ "clipboard" \in Desired!Flags(r) <=> r.clipboard
           /\ "audio" \notin Desired!Flags(r)
           /\ "gatewayCredential" \notin Desired!Flags(r) /\ "credential" \notin Desired!Flags(r)
           /\ "insecure" \in Desired!Flags(r) <=> r.insecure
           /\ "quality" \in Desired!Flags(r) <=> r.protocol = "vnc"
           /\ "depth" \in Desired!Flags(r) <=> r.protocol = "rdp"
           /\ "domain" \in Desired!Flags(r) <=> r.protocol = "rdp" /\ r.domain \notin {"none", "empty"}
           /\ "endpoint" \in Desired!Flags(r) <=> r.endpoint # "none"
           /\ "gatewayUser" \in Desired!Flags(r) <=> r.endpoint # "none"
<1>1. CASE r.protocol = "vnc"
  BY <1>1, AcceptedIs DEF Desired!Flags, Desired!VncFlags, Desired!Blank, Fields
<1>2. CASE r.protocol = "rdp"
  BY <1>2, AcceptedIs DEF Desired!Flags, Desired!RdpFlags, Desired!Blank, Desired!Given, Fields
<1> QED
  BY <1>1, <1>2, RequestIs

\* What the helper makes of them.
Known(r) == IF r.protocol = "rdp" THEN Desired!RdpFields ELSE Desired!VncFields
TargetOf(r) == Desired!Parsed(Known(r), ArgumentsOf(r))

LEMMA KnownAre ==
    ASSUME NEW r
    PROVE  /\ r.protocol = "rdp" =>
                 Known(r) = {"protocol", "host", "port", "username", "domain", "endpoint", "gatewayUser",
                             "audio", "clipboard", "depth", "display", "reconnect", "attempts"}
           /\ r.protocol # "rdp" =>
                 Known(r) = {"protocol", "host", "port", "username", "display", "quality", "insecure",
                             "clipboard", "reconnect", "attempts"}
BY DEF Known, Desired!RdpFields, Desired!VncFields, Desired!Necessary, Desired!Defaults

LEMMA TargetIs ==
    ASSUME NEW r, IsRequest(r), Desired!ManagerAccepts(r)
    PROVE  /\ DOMAIN TargetOf(r) = Known(r)
           /\ \A f \in Known(r) \ Desired!TextFields : TargetOf(r)[f] = r[f]
           /\ \A f \in Known(r) \cap Desired!TextFields :
                 Desired!Value(TargetOf(r)[f]) = Desired!Value(r[f])
<1>1. /\ DOMAIN TargetOf(r) = Known(r)
      /\ \A f \in Known(r) :
            TargetOf(r)[f] = IF f \in Desired!Flags(r) THEN r[f] ELSE Desired!Defaults[f]
  BY DEF TargetOf, Desired!Parsed, ArgumentsOf
<1>2. /\ ~r.audio /\ {r.audio, r.clipboard, r.insecure} \subseteq BOOLEAN
      /\ r.protocol \in {"rdp", "vnc"}
  BY RequestIs, AcceptedIs
<1>3. ASSUME NEW f \in Known(r), f \notin Desired!TextFields PROVE TargetOf(r)[f] = r[f]
  <2>1. CASE f \in Desired!Flags(r)
    BY <1>1, <2>1
  <2>2. CASE f \notin Desired!Flags(r)
    <3>1. f \in {"audio", "clipboard", "insecure"} /\ r[f] = FALSE
      BY <1>2, <1>3, <2>2, FlagsAre, KnownAre DEF Desired!TextFields
    <3>2. Desired!Defaults[f] = FALSE
      BY <3>1 DEF Desired!Defaults
    <3> QED
      BY <1>1, <2>2, <3>1, <3>2
  <2> QED
    BY <2>1, <2>2
<1>4. ASSUME NEW f \in Known(r), f \in Desired!TextFields
      PROVE  Desired!Value(TargetOf(r)[f]) = Desired!Value(r[f])
  <2>1. CASE f \in Desired!Flags(r)
    BY <1>1, <2>1
  <2>2. CASE f \notin Desired!Flags(r)
    <3>1. r[f] \in {"none", "empty"}
      BY <1>2, <1>4, <2>2, FlagsAre, KnownAre, AcceptedIs DEF Desired!TextFields
    <3>2. Desired!Defaults[f] = "none"
      BY <1>4 DEF Desired!TextFields, Desired!Defaults
    <3> QED
      BY <1>1, <2>2, <3>1, <3>2 DEF Desired!Value
  <2> QED
    BY <2>1, <2>2
<1> QED
  BY <1>1, <1>3, <1>4

LEMMA RdpHelperTakes ==
    ASSUME NEW r, IsRequest(r), Desired!ManagerAccepts(r), r.protocol = "rdp", r.host # "badname"
    PROVE  /\ Desired!RdpParses(ArgumentsOf(r))
           /\ Desired!RdpSupports(Desired!Parsed(Desired!RdpFields, ArgumentsOf(r)))
<1> DEFINE a == ArgumentsOf(r)
           p == Desired!Parsed(Desired!RdpFields, a)
<1>1. DOMAIN a = Desired!Flags(r) /\ \A f \in Desired!Flags(r) : a[f] = r[f]
  BY DEF ArgumentsOf
<1>2. Known(r) = Desired!RdpFields /\ p = TargetOf(r)
  BY DEF Known, TargetOf
<1>3. /\ p.display = r.display /\ p.depth = r.depth /\ p.attempts = r.attempts
      /\ p.audio = r.audio /\ p.clipboard = r.clipboard
  BY <1>2, TargetIs, KnownAre DEF Desired!TextFields
<1> HIDE DEF a, p
<1>4. DOMAIN a \subseteq Desired!RdpFields
  BY <1>1, <1>2, FlagsAre, KnownAre, AcceptedIs DEF Fields
<1>5. a.protocol = "rdp" /\ Desired!Necessary \cup {"username"} \subseteq DOMAIN a
  BY <1>1, FlagsAre, AcceptedIs DEF Desired!Necessary
<1>6. \A f \in DOMAIN a \cap {"host", "username", "domain", "gatewayUser"} : Desired!ValidatedText(a[f])
  BY <1>1, FlagsAre, AcceptedIs DEF Desired!ValidatedText
<1>7. /\ "endpoint" \in DOMAIN a => Desired!EndpointValid(a.endpoint)
      /\ a.port # 0 /\ Desired!ServerName(a.host)
      /\ "endpoint" \in DOMAIN a <=> "gatewayUser" \in DOMAIN a
  BY <1>1, FlagsAre, AcceptedIs DEF Desired!EndpointValid, Desired!ServerName
<1>8. Desired!DisplayValid(p.display) /\ Desired!RdpDepthValid(p.depth) /\ Desired!PolicyValid(p)
  BY <1>3, AcceptedIs DEF Desired!RdpDepthValid, Desired!PolicyValid
<1>9. Desired!RdpParses(a)
  BY <1>4, <1>5, <1>6, <1>7, <1>8 DEF Desired!RdpParses, p
<1>10. Desired!RdpSupports(p)
  BY <1>3, AcceptedIs DEF Desired!RdpSupports
<1> QED
  BY <1>9, <1>10 DEF a, p

LEMMA VncHelperTakes ==
    ASSUME NEW r, IsRequest(r), Desired!ManagerAccepts(r), r.protocol = "vnc"
    PROVE  /\ Desired!VncParses(ArgumentsOf(r))
           /\ Desired!VncTargetAllowed(Desired!Parsed(Desired!VncFields, ArgumentsOf(r)))
<1> DEFINE a == ArgumentsOf(r)
           p == Desired!Parsed(Desired!VncFields, a)
<1>1. DOMAIN a = Desired!Flags(r) /\ \A f \in Desired!Flags(r) : a[f] = r[f]
  BY DEF ArgumentsOf
<1>2. Known(r) = Desired!VncFields /\ p = TargetOf(r)
  BY DEF Known, TargetOf
<1>3. /\ p.display = r.display /\ p.quality = r.quality /\ p.attempts = r.attempts
      /\ p.insecure = r.insecure /\ p.host = r.host
  BY <1>2, TargetIs, KnownAre DEF Desired!TextFields
<1> HIDE DEF a, p
<1>4. DOMAIN a \subseteq Desired!VncFields
  BY <1>1, <1>2, FlagsAre, KnownAre, AcceptedIs DEF Fields
<1>5. a.protocol = "vnc" /\ Desired!Necessary \subseteq DOMAIN a
  BY <1>1, FlagsAre DEF Desired!Necessary
<1>6. \A f \in DOMAIN a \cap {"host", "username"} : Desired!VncValidatedText(a[f])
  BY <1>1, FlagsAre, AcceptedIs DEF Desired!VncValidatedText
<1>7. a.port # 0
  BY <1>1, FlagsAre, AcceptedIs
<1>8. Desired!DisplayValid(p.display) /\ Desired!QualityKnown(p.quality) /\ Desired!PolicyValid(p)
  BY <1>3, AcceptedIs DEF Desired!QualityKnown, Desired!PolicyValid
<1>9. Desired!VncParses(a)
  BY <1>4, <1>5, <1>6, <1>7, <1>8 DEF Desired!VncParses, p
<1>10. Desired!VncTargetAllowed(p)
  BY <1>3, AcceptedIs DEF Desired!VncTargetAllowed, Desired!Tidy
<1> QED
  BY <1>9, <1>10 DEF a, p

-----------------------------------------------------------------------------
\* What is sent to the helper of a request, and what is on its way and read at each stage.
Frames == IF request.endpoint # "none" THEN <<"start", "session", "gateway">>
                                       ELSE <<"start", "session">>
Accepted == Desired!ManagerAccepts(request)

FramesAgree ==
    \E n \in 0..Len(Frames) :
        /\ requestInbox = SubSeq(Frames, n + 1, Len(Frames))
        /\ heard = {Frames[i] : i \in 1..n}
        /\ stage = "waiting" <=> n < Len(Frames)

\* A request is the one asked for, or that with what was saved of it; what a stage has
\* passed stays so.
RequestAgrees ==
    /\ IsRequest(asked) /\ IsRequest(request)
    /\ \A f \in Fields \ {"credential"} : request[f] = asked[f]
    /\ stage = "saved" => Accepted /\ record = Desired!Profile(request)
    /\ stage = "asked" => record = Desired!None \/ Accepted
    /\ stage \in {"checked", "resolved", "launched", "waiting", "connecting", "agreed"} => Accepted
    /\ stage \in {"resolved", "launched"} => Desired!Secret(request.credential) \/ request.protocol = "vnc"
    /\ stage \in {"asked", "saved", "checked", "resolved", "launched"} => heard = {}
    /\ stage = "launched" => arguments = ArgumentsOf(request) /\ requestInbox = Frames
    /\ stage \in {"waiting", "connecting", "agreed"} => target = TargetOf(request) /\ FramesAgree
    /\ stage # "refused" => refuser = "nobody"
    /\ stage = "refused" =>
          /\ refuser \in {"manager", "store", "vault", "helper"}
          /\ refuser = "helper" => request.protocol = "rdp" /\ request.host = "badname"
          /\ refuser = "store" => request.protocol = "vnc" /\ Desired!Given(request.domain)
          /\ refuser = "manager" => record = Desired!None

\* A step to a stage, or to an end.
LEMMA RequestStays ==
    ASSUME RequestAgrees, UNCHANGED <<asked, request, record>>,
           stage' = "refused",
           refuser' \in {"manager", "store", "vault", "helper"},
           refuser' = "helper" => request.protocol = "rdp" /\ request.host = "badname",
           refuser' = "store" => request.protocol = "vnc" /\ Desired!Given(request.domain),
           refuser' = "manager" => record = Desired!None
    PROVE  RequestAgrees'
BY DEF RequestAgrees, Accepted

LEMMA RequestValidates ==
    ASSUME RequestAgrees, Desired!Validates
    PROVE  RequestAgrees'
<1>1. CASE Accepted
  <2>1. stage' = "checked" /\ UNCHANGED <<asked, request, record, refuser, heard>> /\ stage = "asked"
    BY <1>1 DEF Desired!Validates, Accepted, Desired!Reaches
  <2> QED
    BY <1>1, <2>1 DEF RequestAgrees, Accepted
<1>2. CASE ~Accepted
  <2>1. stage' = "refused" /\ refuser' = "manager" /\ UNCHANGED <<asked, request, record>> /\ stage = "asked"
    BY <1>2 DEF Desired!Validates, Accepted, Desired!Refuses
  <2> QED
    BY <1>2, <2>1, RequestStays DEF RequestAgrees
<1> QED
  BY <1>1, <1>2

LEMMA RequestSaves ==
    ASSUME RequestAgrees, Desired!Saves
    PROVE  RequestAgrees'
<1>1. stage = "asked" /\ record = Desired!None /\ UNCHANGED <<asked, request, heard>> /\ IsRequest(request)
  BY DEF Desired!Saves, RequestAgrees
<1>2. \/ /\ Desired!Refuses("manager") \/ Desired!Refuses("vault") \/ Desired!Refuses("store")
         /\ UNCHANGED record
         /\ refuser' = "store" => Accepted /\ ~Desired!RecordValid(Desired!Profile(request))
      \/ /\ Accepted /\ stage' = "saved" /\ UNCHANGED refuser
         /\ record' = Desired!Profile(request)
  BY DEF Desired!Saves, Desired!Refuses, Desired!Reaches, Accepted
<1>3. CASE stage' = "saved"
  BY <1>1, <1>2, <1>3 DEF RequestAgrees, Accepted, Desired!Refuses
<1>4. CASE stage' # "saved"
  BY <1>1, <1>2, <1>4, StoreTakes, RequestStays DEF Desired!Refuses, Accepted
<1> QED
  BY <1>3, <1>4

LEMMA RequestReopens ==
    ASSUME RequestAgrees, Desired!Reopens
    PROVE  RequestAgrees'
<1>1. /\ IsRequest(asked) /\ IsRequest(request) /\ Accepted /\ record = Desired!Profile(request)
      /\ \A f \in Fields \ {"credential"} : request[f] = asked[f]
      /\ heard = {} /\ refuser = "nobody"
  BY DEF RequestAgrees, Desired!Reopens
<1>2. /\ request' = Reopened(request) /\ stage' = "asked" /\ UNCHANGED <<asked, heard, refuser>>
  BY <1>1 DEF Desired!Reopens, Desired!Reaches, Reopened
<1>3. IsRequest(request)' /\ Accepted'
  BY <1>1, <1>2, ReopenedIs, ReopenedPasses DEF Accepted
<1>4. \A f \in Fields \ {"credential"} : request'[f] = asked[f]
  <2>1. request.username # "blank"
    BY <1>1, AcceptedIs DEF Accepted
  <2>2. request'.username = request.username
    BY <1>1, <1>2, <2>1, ReopenedIs
  <2> QED
    BY <1>1, <1>2, <2>2, ReopenedIs
<1> QED
  BY <1>1, <1>2, <1>3, <1>4 DEF RequestAgrees

LEMMA RequestResolves ==
    ASSUME RequestAgrees, Desired!Resolves
    PROVE  RequestAgrees'
<1>1. stage = "checked" /\ UNCHANGED <<asked, request, record, heard>>
  BY DEF Desired!Resolves
<1>2. CASE Desired!Refuses("vault")
  BY <1>1, <1>2, RequestStays DEF Desired!Refuses
<1>3. CASE /\ Desired!Secret(request.credential) \/ request.protocol = "vnc"
           /\ Desired!Reaches("resolved")
  BY <1>1, <1>3 DEF Desired!Reaches, RequestAgrees, Accepted
<1> QED
  BY <1>2, <1>3 DEF Desired!Resolves

LEMMA RequestLaunches ==
    ASSUME RequestAgrees, Desired!Launches
    PROVE  RequestAgrees'
<1>1. /\ IsRequest(request) /\ Accepted /\ stage = "resolved" /\ heard = {}
      /\ Desired!Secret(request.credential) \/ request.protocol = "vnc"
      /\ UNCHANGED <<asked, request, record, heard>>
  BY DEF RequestAgrees, Desired!Launches
<1>2. /\ stage' = "launched" /\ UNCHANGED refuser /\ arguments' = ArgumentsOf(request)
      /\ requestInbox' = <<"start", "session">>
                        \o IF Desired!Secret(request.gatewayCredential) THEN <<"gateway">> ELSE <<>>
  BY <1>1, SupervisorTakes DEF Desired!Launches, Accepted, ArgumentsOf, Desired!Reaches
<1>3. Desired!Secret(request.gatewayCredential) <=> request.endpoint # "none"
  BY <1>1, AcceptedIs DEF Accepted, Desired!Secret, Desired!Given, Desired!Blank
<1>4. requestInbox' = Frames
  BY <1>2, <1>3 DEF Frames
<1> QED
  BY <1>1, <1>2, <1>4 DEF RequestAgrees, Accepted, Frames

LEMMA FramesAre ==
    /\ Frames \in Seq({"start", "session", "gateway"}) /\ Len(Frames) \in {2, 3}
    /\ request.endpoint = "none" => Frames = <<"start", "session">> /\ Len(Frames) = 2
    /\ request.endpoint # "none" => Frames = <<"start", "session", "gateway">> /\ Len(Frames) = 3
<1>1. CASE request.endpoint = "none"
  BY <1>1 DEF Frames
<1>2. CASE request.endpoint # "none"
  <2>1. Frames = <<"start", "session", "gateway">>
    BY <1>2 DEF Frames
  <2> QED
    BY <1>2, <2>1
<1> QED
  BY <1>1, <1>2

LEMMA RequestBoots ==
    ASSUME RequestAgrees, Desired!HelperBoots
    PROVE  RequestAgrees'
<1>1. /\ IsRequest(request) /\ Accepted /\ stage = "launched" /\ heard = {}
      /\ arguments = ArgumentsOf(request) /\ requestInbox = Frames
      /\ UNCHANGED <<asked, request, record, arguments, requestInbox, heard>>
  BY DEF RequestAgrees, Desired!HelperBoots
<1>2. CASE request.protocol = "rdp" /\ request.host = "badname" /\ ~Desired!HelperAccepts
  BY <1>1, <1>2, RequestStays DEF Desired!HelperBoots, Desired!Refuses
<1>3. CASE Desired!HelperAccepts
  <2>1. stage' = "waiting" /\ UNCHANGED refuser /\ target' = TargetOf(request)
    BY <1>1, <1>3 DEF Desired!HelperBoots, Desired!Reaches, TargetOf, Known
  <2>2. FramesAgree'
    <3>1. requestInbox' = SubSeq(Frames, 0 + 1, Len(Frames))
      BY <1>1, FramesAre
    <3>2. heard' = {Frames[i] : i \in 1..0}
      BY <1>1
    <3>3. 0 \in 0..Len(Frames) /\ 0 < Len(Frames) /\ Frames' = Frames
      BY <1>1, FramesAre DEF Frames
    <3> QED
      BY <2>1, <3>1, <3>2, <3>3 DEF FramesAgree
  <2> QED
    BY <1>1, <2>1, <2>2 DEF RequestAgrees, Accepted
<1>4. Desired!HelperAccepts \/ (request.protocol = "rdp" /\ request.host = "badname")
  BY <1>1, RequestIs, RdpHelperTakes, VncHelperTakes DEF Accepted, Desired!HelperAccepts
<1> QED
  BY <1>2, <1>3, <1>4

\* The helper knows whether a gateway's secret is to come.
LEMMA ExpectedIs ==
    ASSUME IsRequest(request), Accepted, target = TargetOf(request)
    PROVE  Desired!GatewayExpected <=> request.endpoint # "none"
<1>1. DOMAIN target = Known(request) /\ request.protocol \in {"rdp", "vnc"}
  BY TargetIs, RequestIs DEF Accepted
<1>2. CASE request.protocol = "vnc"
  BY <1>1, <1>2, KnownAre, AcceptedIs DEF Accepted, Desired!GatewayExpected
<1>3. CASE request.protocol = "rdp"
  <2>1. "endpoint" \in Known(request) \cap Desired!TextFields
    BY <1>3, KnownAre DEF Desired!TextFields
  <2>2. Desired!Value(target.endpoint) = Desired!Value(request.endpoint)
    BY <2>1, TargetIs DEF Accepted
  <2>3. request.endpoint \in {"none", "fine"}
    BY AcceptedIs DEF Accepted
  <2>4. target.endpoint \in {request.endpoint, Desired!Defaults["endpoint"]}
    BY <2>1 DEF TargetOf, Desired!Parsed, ArgumentsOf
  <2>5. Desired!Defaults["endpoint"] = "none"
    BY DEF Desired!Defaults
  <2> QED
    BY <1>1, <2>1, <2>2, <2>3, <2>4, <2>5 DEF Desired!GatewayExpected, Desired!Given, Desired!Value
<1> QED
  BY <1>1, <1>2, <1>3

LEMMA RequestReads ==
    ASSUME RequestAgrees, Desired!HelperReads
    PROVE  RequestAgrees'
<1>1. /\ IsRequest(request) /\ Accepted /\ stage = "waiting" /\ target = TargetOf(request) /\ FramesAgree
      /\ UNCHANGED <<asked, request, record, arguments, target>>
      /\ requestInbox' = Tail(requestInbox) /\ heard' = heard \cup {Head(requestInbox)}
  BY DEF RequestAgrees, Desired!HelperReads
<1>2. PICK n \in 0..Len(Frames) :
         /\ requestInbox = SubSeq(Frames, n + 1, Len(Frames))
         /\ heard = {Frames[i] : i \in 1..n}
         /\ n < Len(Frames)
  BY <1>1 DEF FramesAgree
<1>3. /\ Head(requestInbox) = Frames[n + 1]
      /\ Tail(requestInbox) = SubSeq(Frames, (n + 1) + 1, Len(Frames))
  BY <1>2, FramesAre
<1>4. heard' = {Frames[i] : i \in 1..(n + 1)}
  BY <1>1, <1>2, <1>3, FramesAre
<1>5. Desired!GatewayExpected <=> request.endpoint # "none"
  BY <1>1, ExpectedIs
<1>6. Head(requestInbox) = "gateway" => Desired!GatewayExpected
  BY <1>2, <1>3, <1>5, FramesAre
<1>7. Desired!Suffices(heard') <=> n + 1 = Len(Frames)
  <2>1. CASE request.endpoint = "none"
    <3>1. n + 1 \in {1, 2} /\ Frames[1] = "start" /\ Frames[2] = "session" /\ Len(Frames) = 2
      <4>1. Len(Frames) = 2 /\ Frames[1] = "start" /\ Frames[2] = "session"
        BY <2>1, FramesAre
      <4> QED
        BY <1>2, <4>1
    <3>2. n + 1 = 1 => heard' = {"start"}
      BY <1>4, <3>1
    <3>3. n + 1 = 2 => heard' = {"start", "session"}
      BY <1>4, <3>1
    <3> QED
      BY <1>5, <2>1, <3>1, <3>2, <3>3 DEF Desired!Suffices
  <2>2. CASE request.endpoint # "none"
    <3>1. /\ n + 1 \in {1, 2, 3} /\ Len(Frames) = 3
          /\ Frames[1] = "start" /\ Frames[2] = "session" /\ Frames[3] = "gateway"
      <4>1. /\ Len(Frames) = 3
            /\ Frames[1] = "start" /\ Frames[2] = "session" /\ Frames[3] = "gateway"
        BY <2>2, FramesAre
      <4> QED
        BY <1>2, <4>1
    <3>2. n + 1 = 1 => heard' = {"start"}
      BY <1>4, <3>1
    <3>3. n + 1 = 2 => heard' = {"start", "session"}
      BY <1>4, <3>1
    <3>4. n + 1 = 3 => heard' = {"start", "session", "gateway"}
      BY <1>4, <3>1
    <3> QED
      BY <1>5, <2>2, <3>1, <3>2, <3>3, <3>4 DEF Desired!Suffices
  <2> QED
    BY <2>1, <2>2
<1>8. /\ stage' = (IF n + 1 = Len(Frames) THEN "connecting" ELSE "waiting") /\ UNCHANGED refuser
  BY <1>6, <1>7 DEF Desired!HelperReads, Desired!Reaches
<1>9. FramesAgree'
  <2>1. /\ n + 1 \in 0..Len(Frames) /\ (stage' = "waiting" <=> n + 1 < Len(Frames))
        /\ Frames' = Frames
    BY <1>1, <1>2, <1>8, FramesAre DEF Frames
  <2> QED
    BY <1>1, <1>3, <1>4, <2>1 DEF FramesAgree
<1> QED
  BY <1>1, <1>8, <1>9 DEF RequestAgrees, Accepted

LEMMA RequestReports ==
    ASSUME RequestAgrees, Desired!HelperReports
    PROVE  RequestAgrees'
<1>1. /\ IsRequest(request) /\ Accepted /\ stage = "connecting"
      /\ UNCHANGED <<asked, request, record, arguments, requestInbox, heard, target>>
  BY DEF RequestAgrees, Desired!HelperReports
<1>2. Desired!ReportMeets
  <2>1. CASE request.protocol = "rdp"
    BY <1>1, <2>1, AcceptedIs DEF Accepted, Desired!ReportMeets, Desired!Report
  <2>2. CASE request.protocol = "vnc"
    BY <1>1, <2>2, AcceptedIs DEF Accepted, Desired!ReportMeets, Desired!Report, Desired!Given
  <2> QED
    BY <1>1, <2>1, <2>2, RequestIs
<1>3. stage' = "agreed" /\ UNCHANGED refuser
  BY <1>2 DEF Desired!HelperReports, Desired!Reaches
<1> QED
  BY <1>1, <1>3 DEF RequestAgrees, Accepted, FramesAgree, Frames

LEMMA RequestNextKeeps == RequestAgrees /\ [Desired!RequestsNext]_requestVars => RequestAgrees'
<1>1. RequestAgrees /\ UNCHANGED requestVars => RequestAgrees'
  BY DEF requestVars, RequestAgrees, Accepted, FramesAgree, Frames
<1> QED
  BY <1>1, RequestValidates, RequestSaves, RequestReopens, RequestResolves, RequestLaunches, RequestBoots,
     RequestReads, RequestReports DEF Desired!RequestsNext

LEMMA RequestHolds == RequestAgrees => Desired!RequestsAreHonoured
<1> SUFFICES ASSUME RequestAgrees PROVE Desired!RequestsAreHonoured
  OBVIOUS
<1>1. ASSUME stage \in {"connecting", "agreed"} PROVE Desired!Honoured
  <2>1. /\ IsRequest(request) /\ IsRequest(asked) /\ Accepted /\ target = TargetOf(request)
        /\ \A f \in Fields \ {"credential"} : request[f] = asked[f]
        /\ FramesAgree /\ stage # "waiting"
    BY <1>1 DEF RequestAgrees
  <2>2. DOMAIN target \subseteq Fields \ {"credential"}
    BY <2>1, TargetIs, KnownAre DEF Accepted, Fields
  <2>3. /\ \A f \in DOMAIN target \ Desired!TextFields : target[f] = asked[f]
        /\ \A f \in DOMAIN target \cap Desired!TextFields :
              Desired!Value(target[f]) = Desired!Value(asked[f])
    BY <2>1, <2>2, TargetIs DEF Accepted
  <2>4. asked.protocol = "vnc" /\ asked.host # "loopback" => asked.insecure
    BY <2>1, AcceptedIs DEF Accepted, Fields
  <2>5. heard = {Frames[i] : i \in 1..Len(Frames)}
    BY <2>1, FramesAre DEF FramesAgree
  <2>6. "gateway" \in heard <=> request.endpoint # "none"
    <3>1. CASE request.endpoint = "none"
      <4>1. Len(Frames) = 2 /\ Frames[1] = "start" /\ Frames[2] = "session"
        BY <3>1, FramesAre
      <4> QED
        BY <2>5, <3>1, <4>1
    <3>2. CASE request.endpoint # "none"
      <4>1. Len(Frames) = 3 /\ Frames[3] = "gateway"
        BY <3>2, FramesAre
      <4> QED
        BY <2>5, <3>2, <4>1
    <3> QED
      BY <3>1, <3>2
  <2>7. request.endpoint = asked.endpoint
    BY <2>1 DEF Fields
  <2> QED
    BY <2>3, <2>4, <2>6, <2>7 DEF Desired!Honoured, Desired!Given
<1>2. ASSUME stage = "waiting" PROVE requestInbox # <<>>
  <2>1. PICK n \in 0..Len(Frames) : requestInbox = SubSeq(Frames, n + 1, Len(Frames)) /\ n < Len(Frames)
    BY <1>2 DEF RequestAgrees, FramesAgree
  <2>2. Len(requestInbox) > 0
    BY <2>1, FramesAre
  <2> QED
    BY <2>2
<1>3. refuser \in {"nobody", "manager", "store", "vault", "helper"}
  BY DEF RequestAgrees
<1>4. /\ refuser = "helper" => request.protocol = "rdp" /\ request.host = "badname"
      /\ refuser = "store" => request.protocol = "vnc" /\ Desired!Given(request.domain)
      /\ record # Desired!None => refuser # "manager"
  BY DEF RequestAgrees
<1> QED
  BY <1>1, <1>2, <1>3, <1>4 DEF Desired!RequestsAreHonoured

LEMMA RequestBegins ==
    ASSUME IsRequest(asked), Desired!RequestsOf({asked})
    PROVE  RequestAgrees
BY DEF Desired!RequestsOf, RequestAgrees

LEMMA RequestedAre ==
    ASSUME Desired!RequestsInit \/ Desired!RequestsOf({Desired!Rdp})
    PROVE  IsRequest(asked) /\ Desired!RequestsOf({asked})
<1> DEFINE Bases == {Desired!Rdp, Desired!RdpGateway, Desired!Vnc, Desired!VncRemote}
<1>1. IsRequest(Desired!Rdp)
  <2>1. Desired!Rdp = [f \in Fields |-> Desired!Rdp[f]]
    BY DEF Desired!Rdp, Fields
  <2>2. \A f \in Fields : Desired!Rdp[f] \in Desired!Choices[f]
    <3>1. \A f \in {"protocol", "host", "port", "attempts", "quality"} : Desired!Rdp[f] \in Desired!Choices[f]
      BY DEF Desired!Rdp, Desired!Choices
    <3>2. \A f \in {"username", "domain", "endpoint", "gatewayUser", "gatewayCredential", "credential"} :
             Desired!Rdp[f] \in Desired!Choices[f]
      BY DEF Desired!Rdp, Desired!Choices, Desired!Texts
    <3>3. \A f \in {"audio", "clipboard", "insecure", "reconnect"} : Desired!Rdp[f] \in Desired!Choices[f]
      <4>1. \A f \in {"audio", "clipboard", "insecure", "reconnect"} : Desired!Choices[f] = BOOLEAN
        BY DEF Desired!Choices
      <4>2. /\ Desired!Rdp["audio"] = FALSE /\ Desired!Rdp["clipboard"] = FALSE
            /\ Desired!Rdp["insecure"] = FALSE /\ Desired!Rdp["reconnect"] = TRUE
        BY DEF Desired!Rdp
      <4>3. \A f \in {"audio", "clipboard", "insecure", "reconnect"} : Desired!Rdp[f] \in BOOLEAN
        BY <4>2, Zenon
      <4> QED
        BY <4>1, <4>3, Zenon
    <3>4. \A f \in {"depth"} : Desired!Rdp[f] \in Desired!Choices[f]
      BY DEF Desired!Rdp, Desired!Choices
    <3>5. \A f \in {"display"} : Desired!Rdp[f] \in Desired!Choices[f]
      BY DEF Desired!Rdp, Desired!Choices, Desired!Size
    <3> QED
      BY <3>1, <3>2, <3>3, <3>4, <3>5 DEF Fields
  <2> QED
    BY <2>1, <2>2 DEF IsRequest
<1>2. ASSUME NEW r, IsRequest(r), NEW f \in Fields, NEW v \in Desired!Choices[f]
      PROVE  IsRequest([r EXCEPT ![f] = v])
  BY <1>2 DEF IsRequest
<1>3. /\ \A t \in {"fine"} : /\ t \in Desired!Choices["endpoint"]
                              /\ t \in Desired!Choices["gatewayUser"]
                              /\ t \in Desired!Choices["gatewayCredential"]
      /\ "vnc" \in Desired!Choices["protocol"] /\ "loopback" \in Desired!Choices["host"]
      /\ "empty" \in Desired!Choices["username"] /\ "none" \in Desired!Choices["credential"]
      /\ "fine" \in Desired!Choices["credential"] /\ "remote" \in Desired!Choices["host"]
      /\ TRUE \in Desired!Choices["insecure"]
  BY DEF Desired!Choices, Desired!Texts
<1>4. /\ "endpoint" \in Fields /\ "gatewayUser" \in Fields /\ "gatewayCredential" \in Fields
      /\ "protocol" \in Fields /\ "host" \in Fields /\ "username" \in Fields
      /\ "credential" \in Fields /\ "insecure" \in Fields
  BY DEF Fields
<1>5. IsRequest(Desired!RdpGateway)
  <2>1. IsRequest([Desired!Rdp EXCEPT !["endpoint"] = "fine"])
    BY <1>1, <1>2, <1>3, <1>4
  <2>2. IsRequest([[Desired!Rdp EXCEPT !["endpoint"] = "fine"] EXCEPT !["gatewayUser"] = "fine"])
    BY <2>1, <1>2, <1>3, <1>4
  <2>3. IsRequest([[[Desired!Rdp EXCEPT !["endpoint"] = "fine"] EXCEPT !["gatewayUser"] = "fine"]
                     EXCEPT !["gatewayCredential"] = "fine"])
    BY <2>2, <1>2, <1>3, <1>4
  <2> QED
    BY <2>3 DEF Desired!RdpGateway
<1>6. IsRequest(Desired!Vnc)
  <2>1. IsRequest([Desired!Rdp EXCEPT !["protocol"] = "vnc"])
    BY <1>1, <1>2, <1>3, <1>4
  <2>2. IsRequest([[Desired!Rdp EXCEPT !["protocol"] = "vnc"] EXCEPT !["host"] = "loopback"])
    BY <2>1, <1>2, <1>3, <1>4
  <2>3. IsRequest([[[Desired!Rdp EXCEPT !["protocol"] = "vnc"] EXCEPT !["host"] = "loopback"]
                     EXCEPT !["username"] = "empty"])
    BY <2>2, <1>2, <1>3, <1>4
  <2>4. IsRequest([[[[Desired!Rdp EXCEPT !["protocol"] = "vnc"] EXCEPT !["host"] = "loopback"]
                     EXCEPT !["username"] = "empty"] EXCEPT !["credential"] = "none"])
    BY <2>3, <1>2, <1>3, <1>4
  <2> QED
    BY <2>4 DEF Desired!Vnc
<1>7. IsRequest(Desired!VncRemote)
  <2>1. IsRequest([Desired!Vnc EXCEPT !["host"] = "remote"])
    BY <1>6, <1>2, <1>3, <1>4
  <2>2. IsRequest([[Desired!Vnc EXCEPT !["host"] = "remote"] EXCEPT !["insecure"] = TRUE])
    BY <2>1, <1>2, <1>3, <1>4
  <2>3. IsRequest([[[Desired!Vnc EXCEPT !["host"] = "remote"] EXCEPT !["insecure"] = TRUE]
                     EXCEPT !["credential"] = "fine"])
    BY <2>2, <1>2, <1>3, <1>4
  <2> QED
    BY <2>3 DEF Desired!VncRemote
<1>8. \A r \in Bases : IsRequest(r)
  BY <1>1, <1>5, <1>6, <1>7
<1> HIDE DEF Bases
<1>9. ASSUME asked \in Desired!Requested PROVE IsRequest(asked)
  <2>1. PICK base \in Bases, f \in Fields, g \in Fields :
           \E v \in Desired!Choices[f], w \in Desired!Choices[g] :
              asked = [base EXCEPT ![f] = v, ![g] = w]
    BY <1>9, FieldsAre DEF Desired!Requested, Bases
  <2> PICK v \in Desired!Choices[f], w \in Desired!Choices[g] :
           asked = [base EXCEPT ![f] = v, ![g] = w]
    BY <2>1
  <2>2. IsRequest([base EXCEPT ![f] = v])
    BY <1>2, <1>8, <2>1
  <2>3. IsRequest([[base EXCEPT ![f] = v] EXCEPT ![g] = w])
    BY <1>2, <2>1, <2>2
  <2> QED
    BY <2>3
<1> QED
  BY <1>1, <1>9 DEF Desired!RequestsInit, Desired!RequestsOf

\* Any combination of the values that the fields of a request are given, not only those of
\* Requested.
EveryRequest ==
    /\ IsRequest(asked) /\ Desired!RequestsOf({asked})
    /\ [][Desired!RequestsNext]_requestVars

\* Whatever a request combines: layers that check the same agree, and the helper connects
\* with just what was asked for (validate_request, validate, process_arguments,
\* parse_arguments).
THEOREM EveryRequestIsHonoured == EveryRequest => []Desired!RequestsAreHonoured
BY RequestBegins, RequestNextKeeps, RequestHolds, PTL DEF EveryRequest

-----------------------------------------------------------------------------
SignalTyped == signal \in [Operations -> BOOLEAN]

LEMMA SignalKept == SignalTyped /\ [NetworkNext]_networkVars => SignalTyped'
<1> SUFFICES ASSUME SignalTyped, [NetworkNext]_networkVars PROVE SignalTyped'
  OBVIOUS
<1>1. UNCHANGED signal \/ \E o \in Operations : signal' = [signal EXCEPT ![o] = TRUE]
  BY DEF NetworkNext, Proceeds, StartOperation, Cancel, Unregister, BeginScan, PortChecked, ScanEnds,
     BeginDiagnostic, DiagnosticEnds, networkVars
<1> QED
  BY <1>1 DEF SignalTyped

LEMMA NetworkTyped == NetworkInductive /\ ScansInductive /\ SignalTyped => NetworkTypeOK
<1> SUFFICES ASSUME NetworkInductive, ScansInductive, SignalTyped PROVE NetworkTypeOK
  OBVIOUS
<1>1. ASSUME NEW s \in Scans PROVE results[s] \in [0..MaxPort -> 0..2]
  <2>1. results[s] \in [0..MaxPort -> Nat] /\ ResultsAgree(s)
    BY DEF ScansInductive, ScanTypes
  <2>2. \A p \in 0..MaxPort : results[s][p] \in Nat
    BY <2>1
  <2>3. \A p \in 0..MaxPort : results[s][p] \in 0..2
    BY <2>1, <2>2 DEF ResultsAgree
  <2> QED
    BY <2>1, <2>3
<1>2. results \in [Scans -> [0..MaxPort -> 0..2]]
  BY <1>1 DEF ScansInductive, ScanTypes
<1>3. /\ job \in [Operations -> {"new", "refused", "registered", "running", "told", "over"}]
      /\ process \in [Operations -> {"none", "running", "gone"}]
      /\ outcome \in [Operations -> {"none", "completed", "cancelled", "failed"}]
  BY DEF NetworkInductive, ControlTypes, Jobs, Outcomes
<1>4. /\ ports \in [Scans -> Ports] /\ next \in [Scans -> 0..MaxPort]
      /\ checks \in [Scans -> SUBSET (0..MaxPort)]
  BY DEF ScansInductive, ScanTypes
<1> QED
  BY <1>2, <1>3, <1>4 DEF NetworkTypeOK, SignalTyped

-----------------------------------------------------------------------------
\* Whatever else the backend does, each of its parts does one of its steps or none.
LEMMA ServicesSteps ==
    [ServicesNext]_serviceVars =>
       /\ [DesktopNext]_desktopVars /\ [FramesNext]_framesVars
       /\ [NetworkNext]_networkVars /\ [ListNext]_listVars
       /\ [Store!StoreNext]_storeVars /\ [Vault!VaultNext]_vaultVars
       /\ [OpenSsh!OpenSshNext]_openSshVars /\ [Desired!RequestsNext]_requestVars
BY DEF ServicesNext, serviceVars

\* What every part keeps, side by side.
ServicesInductive ==
    /\ DesktopInductive /\ FramesInductive
    /\ NetworkInductive /\ ScansInductive /\ SignalTyped /\ ListInductive
    /\ StoreInductive /\ VaultInductive
    /\ OpenSshTyped /\ MatchAgrees /\ RequestsTyped /\ RequestAgrees /\ ImportAgrees

LEMMA ServicesInitEstablishes == ServicesInit => ServicesInductive
<1> SUFFICES ASSUME ServicesInit PROVE ServicesInductive
  OBVIOUS
<1>1. /\ DesktopInit /\ FramesInit /\ NetworkInit /\ ListInit /\ Store!StoreInit /\ Vault!VaultInit
      /\ OpenSsh!OpenSshInit /\ (Desired!RequestsInit \/ Desired!RequestsOf({Desired!Rdp}))
  BY DEF ServicesInit
<1>2. SignalTyped
  BY <1>1 DEF NetworkInit, SignalTyped
<1> QED
  BY <1>1, <1>2, DesktopInitEstablishes, FramesInitEstablishes, FramesAssumption, NetworkInitEstablishes,
     ScansInitEstablishes, ListInitEstablishes, StoreInitEstablishes, VaultInitEstablishes,
     OpenSshInitEstablishes, OpenSshEstablishes, RequestsInitEstablishes, RequestedAre, RequestBegins,
     ImportBegins DEF ServicesInductive

LEMMA ServicesNextKeeps == ServicesInductive /\ [ServicesNext]_serviceVars => ServicesInductive'
BY ServicesSteps, DesktopNextKeeps, FramesNextKeeps, FramesAssumption, NetworkNextKeeps, ScansNextKeeps,
   SignalKept, ListNextKeeps, StoreNextKeeps, VaultNextKeeps, OpenSshNextKeeps, MatchKeeps,
   RequestsNextKeep, RequestNextKeeps, ImportNextKeeps
   DEF ServicesInductive

LEMMA ServicesHold == ServicesSpec => []ServicesInductive
BY ServicesInitEstablishes, ServicesNextKeeps, PTL DEF ServicesSpec

\* Desktop, frames, network operations, list of devices, store, vault, import and requests
\* keep the types of their variables, side by side and for any of their constants.
THEOREM ServicesAreTyped == ServicesSpec => []ServicesTypeOK
<1>1. ServicesInductive => ServicesTypeOK
  BY NetworkTyped DEF ServicesInductive, ServicesTypeOK, DesktopInductive, FramesInductive, ListInductive,
     StoreInductive, VaultInductive, OpenSshTyped, RequestsTyped
<1> QED
  BY <1>1, ServicesHold, PTL

\* Whatever write of a store or of the vault fails and whenever the process ends: what an
\* open store or vault lists is what its file holds and opens with again (persist, open).
THEOREM FilesAreWhatMemoryIs == ServicesSpec => []StoresAreSafe
<1>1. ServicesInductive => StoresAreSafe
  BY StoreIsSafe, VaultIsSafe DEF StoresAreSafe, ServicesInductive
<1> QED
  BY <1>1, ServicesHold, PTL

\* Whatever pattern a Host line has and whatever host it is asked for, the loop that gives
\* characters to the last star one by one says that they match just when the pattern can be
\* laid on the host (host_pattern_matches).
THEOREM PatternsMatchExactly == ServicesSpec => []OpenSsh!GlobIsExact
<1>1. ServicesInductive => OpenSsh!GlobIsExact
  BY GlobHolds DEF ServicesInductive
<1> QED
  BY <1>1, ServicesHold, PTL

\* What a user has configured is what is used, whatever it is: a host is matched with a
\* pattern as OpenSSH does, an import of a file is exact, and a helper connects with just
\* what the request asks for (host_pattern_matches, import_openssh_config, parse_arguments).
THEOREM ConfigurationHolds == ServicesSpec => []ConfigurationIsHonoured
<1>1. ServicesInductive => ConfigurationIsHonoured
  BY GlobHolds, ImportIs, RequestHolds DEF ServicesInductive, ImportAgrees, ConfigurationIsHonoured
<1> QED
  BY <1>1, ServicesHold, PTL

\* No step takes the file of the vault away, or changes the passphrase that opens it
\* (create, atomic_write_private).
THEOREM VaultFileStays == ServicesSpec => VaultKeepsFile
<1>1. ServicesInductive /\ [ServicesNext]_serviceVars => [Vault!FileIsKept]_vaultVars
  BY ServicesSteps, VaultStepKeepsFile DEF ServicesInductive
<1>2. [Vault!FileIsKept]_vaultVars <=> [Vault!FileIsKept]_(Vault!vaultVars)
  BY DEF vaultVars, Vault!vaultVars, Vault!fileVars
<1> QED
  BY <1>1, <1>2, ServicesHold, PTL DEF ServicesSpec, VaultKeepsFile, Vault!VaultKeepsFile
=============================================================================
