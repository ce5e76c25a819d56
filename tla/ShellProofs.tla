----------------------------- MODULE ShellProofs -----------------------------
(***************************************************************************)
(* The output of an SSH terminal is read whole and its size is never       *)
(* forgotten, however often its shell is lost, whatever the server says,   *)
(* and with queues of any room.                                            *)
(***************************************************************************)
EXTENDS SshShell, SequenceTheorems, TLAPS

-----------------------------------------------------------------------------
\* What a sequence of packets carries.

LEMMA CarriesIs ==
    ASSUME NEW s \in Seq(Packets), NEW m \in Nat, NEW n \in Nat
    PROVE  Carries(s, m, n) <=>
              /\ \A i \in 1..Len(s) : IsData(s[i]) => s[i].number \in (m + 1)..n
              /\ \A x \in (m + 1)..n : \E i \in 1..Len(s) : IsData(s[i]) /\ s[i].number = x
              /\ \A i, j \in 1..Len(s) : IsData(s[i]) /\ IsData(s[j]) /\ i < j =>
                    s[i].number < s[j].number
<1> DEFINE data == {i \in DOMAIN s : IsData(s[i])}
           numbers == {s[i].number : i \in data}
<1>1. DOMAIN s = 1..Len(s)
  OBVIOUS
<1>2. numbers = (m + 1)..n <=>
         /\ \A i \in data : s[i].number \in (m + 1)..n
         /\ \A x \in (m + 1)..n : \E i \in data : s[i].number = x
  <2>1. \A x : x \in numbers <=> \E i \in data : s[i].number = x
    OBVIOUS
  <2>2. numbers = (m + 1)..n <=> \A x : x \in numbers <=> x \in (m + 1)..n
    OBVIOUS
  <2> HIDE DEF numbers, data
  <2> QED
    BY <2>1, <2>2
<1>3. Carries(s, m, n) <=> /\ numbers = (m + 1)..n
                          /\ \A i, j \in data : i < j => s[i].number < s[j].number
  BY DEF Carries
<1>4. \A i : i \in data <=> i \in 1..Len(s) /\ IsData(s[i])
  BY <1>1
<1> HIDE DEF numbers, data
<1> QED
  BY <1>2, <1>3, <1>4

\* A sequence without output carries none.
LEMMA CarriesNoData ==
    ASSUME NEW s \in Seq(Packets), NEW m \in Nat, NEW n \in Nat, m <= n, Carries(s, m, n),
           \A i \in 1..Len(s) : ~IsData(s[i])
    PROVE  m = n
<1>1. n \notin (m + 1)..n
  BY CarriesIs
<1> QED
  BY <1>1

LEMMA CarriesNothing ==
    ASSUME NEW m \in Nat
    PROVE  /\ Carries(<<>>, m, m)
           /\ \A n \in Nat : m <= n /\ Carries(<<>>, m, n) => m = n
<1>1. <<>> \in Seq(Packets) /\ Len(<<>>) = 0
  OBVIOUS
<1>2. ASSUME NEW n \in Nat, m <= n, Carries(<<>>, m, n) PROVE m = n
  <2>1. \A i \in 1..Len(<<>>) : FALSE
    BY <1>1
  <2> QED
    BY <1>1, <1>2, <2>1, CarriesNoData
<1>3. Carries(<<>>, m, m)
  <2>1. 1..0 = {} /\ (m + 1)..m = {}
    OBVIOUS
  <2> QED
    BY <1>1, <2>1, CarriesIs
<1> QED
  BY <1>2, <1>3

LEMMA CarriesMore ==
    ASSUME NEW s \in Seq(Packets), NEW p \in Packets, NEW m \in Nat, NEW n \in Nat, m <= n,
           Carries(s, m, n)
    PROVE  /\ IsData(p) /\ p.number = n + 1 => Carries(Append(s, p), m, n + 1)
           /\ ~IsData(p) => Carries(Append(s, p), m, n)
<1> DEFINE t == Append(s, p)
<1>1. /\ t \in Seq(Packets) /\ Len(t) = Len(s) + 1 /\ t[Len(s) + 1] = p /\ Len(s) \in Nat
      /\ \A i \in 1..Len(s) : t[i] = s[i]
  OBVIOUS
<1>2. /\ \A i \in 1..Len(s) : IsData(s[i]) => s[i].number \in (m + 1)..n
      /\ \A x \in (m + 1)..n : \E i \in 1..Len(s) : IsData(s[i]) /\ s[i].number = x
      /\ \A i, j \in 1..Len(s) : IsData(s[i]) /\ IsData(s[j]) /\ i < j =>
            s[i].number < s[j].number
  BY CarriesIs
<1> HIDE DEF t
<1>3. ASSUME IsData(p), p.number = n + 1 PROVE Carries(t, m, n + 1)
  <2>1. \A x \in (m + 1)..(n + 1) : \E i \in 1..Len(t) : IsData(t[i]) /\ t[i].number = x
    <3>1. ASSUME NEW x \in (m + 1)..n PROVE \E i \in 1..Len(t) : IsData(t[i]) /\ t[i].number = x
      <4>1. PICK i \in 1..Len(s) : IsData(s[i]) /\ s[i].number = x
        BY <1>2
      <4>2. i \in 1..Len(t) /\ t[i] = s[i]
        BY <1>1
      <4> QED
        BY <4>1, <4>2
    <3>2. \E i \in 1..Len(t) : IsData(t[i]) /\ t[i].number = n + 1
      BY <1>1, <1>3
    <3> QED
      BY <3>1, <3>2
  <2>2. \A i \in 1..Len(t) : IsData(t[i]) => t[i].number \in (m + 1)..(n + 1)
    BY <1>1, <1>2, <1>3
  <2>3. ASSUME NEW i \in 1..Len(t), NEW j \in 1..Len(t), IsData(t[i]), IsData(t[j]), i < j
        PROVE  t[i].number < t[j].number
    <3>1. i \in 1..Len(s) /\ t[i] = s[i] /\ t[i].number \in (m + 1)..n
      BY <1>1, <1>2, <2>3
    <3>2. CASE j \in 1..Len(s)
      BY <1>1, <1>2, <2>3, <3>1, <3>2
    <3>3. CASE j = Len(s) + 1
      BY <1>1, <1>3, <3>1, <3>3
    <3> QED
      BY <1>1, <3>2, <3>3
  <2> QED
    BY <1>1, <2>1, <2>2, <2>3, CarriesIs, n + 1 \in Nat
<1>4. ASSUME ~IsData(p) PROVE Carries(t, m, n)
  <2>1. \A i \in 1..Len(t) : IsData(t[i]) => i \in 1..Len(s)
    BY <1>1, <1>4
  <2>2. ASSUME NEW x \in (m + 1)..n PROVE \E i \in 1..Len(t) : IsData(t[i]) /\ t[i].number = x
    <3>1. PICK i \in 1..Len(s) : IsData(s[i]) /\ s[i].number = x
      BY <1>2
    <3>2. i \in 1..Len(t) /\ t[i] = s[i]
      BY <1>1
    <3> QED
      BY <3>1, <3>2
  <2> QED
    BY <1>1, <1>2, <2>1, <2>2, CarriesIs
<1> QED
  BY <1>3, <1>4 DEF t

LEMMA CarriesTail ==
    ASSUME NEW s \in Seq(Packets), s # <<>>, NEW m \in Nat, NEW n \in Nat, Carries(s, m, n)
    PROVE  /\ IsData(Head(s)) =>
                 Head(s).number = m + 1 /\ m + 1 <= n /\ Carries(Tail(s), m + 1, n)
           /\ ~IsData(Head(s)) => Carries(Tail(s), m, n)
<1> DEFINE t == Tail(s)
<1>1. /\ t \in Seq(Packets) /\ Len(t) = Len(s) - 1 /\ Len(s) \in Nat \ {0} /\ Head(s) = s[1]
      /\ \A i \in 1..Len(t) : t[i] = s[i + 1]
  OBVIOUS
<1>2. /\ \A i \in 1..Len(s) : IsData(s[i]) => s[i].number \in (m + 1)..n
      /\ \A x \in (m + 1)..n : \E i \in 1..Len(s) : IsData(s[i]) /\ s[i].number = x
      /\ \A i, j \in 1..Len(s) : IsData(s[i]) /\ IsData(s[j]) /\ i < j =>
            s[i].number < s[j].number
  BY CarriesIs
<1> HIDE DEF t
<1>3. \A i, j \in 1..Len(t) : IsData(t[i]) /\ IsData(t[j]) /\ i < j => t[i].number < t[j].number
  <2>1. ASSUME NEW i \in 1..Len(t), NEW j \in 1..Len(t), IsData(t[i]), IsData(t[j]), i < j
        PROVE  t[i].number < t[j].number
    <3>1. i + 1 \in 1..Len(s) /\ j + 1 \in 1..Len(s) /\ i + 1 < j + 1
      BY <1>1, <2>1
    <3> QED
      BY <1>1, <1>2, <2>1, <3>1
  <2> QED
    BY <2>1
<1>4. \A i \in 2..Len(s) : i - 1 \in 1..Len(t) /\ t[i - 1] = s[i]
  BY <1>1
<1>5. ASSUME IsData(s[1])
      PROVE  s[1].number = m + 1 /\ m + 1 <= n /\ Carries(t, m + 1, n)
  <2>1. s[1].number \in (m + 1)..n
    BY <1>1, <1>2, <1>5
  <2>2. PICK i \in 1..Len(s) : IsData(s[i]) /\ s[i].number = m + 1
    BY <1>2, <2>1
  <2>3. s[1].number = m + 1
    <3>1. CASE i = 1
      BY <2>2, <3>1
    <3>2. CASE i # 1
      <4>1. s[1].number < s[i].number
        BY <1>1, <1>2, <1>5, <2>2, <3>2
      <4> QED
        BY <2>1, <2>2, <4>1
    <3> QED
      BY <3>1, <3>2
  <2>4. ASSUME NEW j \in 1..Len(t), IsData(t[j]) PROVE t[j].number \in (m + 2)..n
    <3>1. j + 1 \in 1..Len(s) /\ 1 \in 1..Len(s) /\ 1 < j + 1 /\ t[j] = s[j + 1]
      BY <1>1
    <3>2. s[1].number < s[j + 1].number /\ s[j + 1].number \in (m + 1)..n
      BY <1>2, <1>5, <2>4, <3>1
    <3>3. \A x \in (m + 1)..n : m + 1 < x => x \in (m + 2)..n
      OBVIOUS
    <3> QED
      BY <2>3, <3>1, <3>2, <3>3
  <2>5. ASSUME NEW x \in (m + 2)..n PROVE \E j \in 1..Len(t) : IsData(t[j]) /\ t[j].number = x
    <3>1. PICK j \in 1..Len(s) : IsData(s[j]) /\ s[j].number = x
      BY <1>2
    <3>2. j # 1
      BY <2>3, <3>1
    <3>3. j \in 2..Len(s)
      BY <1>1, <3>2
    <3> QED
      BY <1>4, <3>1, <3>3
  <2>6. (m + 1) + 1 = m + 2
    OBVIOUS
  <2>7. m + 1 \in Nat /\ m + 1 <= n
    BY <2>1
  <2>8. Carries(t, m + 1, n)
    BY <1>1, <1>3, <2>4, <2>5, <2>6, <2>7, CarriesIs
  <2> QED
    BY <2>3, <2>7, <2>8
<1>6. ASSUME ~IsData(s[1]) PROVE Carries(t, m, n)
  <2>1. ASSUME NEW x \in (m + 1)..n PROVE \E j \in 1..Len(t) : IsData(t[j]) /\ t[j].number = x
    <3>1. PICK j \in 1..Len(s) : IsData(s[j]) /\ s[j].number = x
      BY <1>2
    <3>2. j # 1
      BY <1>6, <3>1
    <3>3. j \in 2..Len(s)
      BY <1>1, <3>2
    <3> QED
      BY <1>4, <3>1, <3>3
  <2>2. ASSUME NEW j \in 1..Len(t), IsData(t[j]) PROVE t[j].number \in (m + 1)..n
    <3>1. j + 1 \in 1..Len(s) /\ t[j] = s[j + 1]
      BY <1>1
    <3> QED
      BY <1>2, <2>2, <3>1
  <2> QED
    BY <1>1, <1>3, <2>1, <2>2, CarriesIs
<1> QED
  BY <1>1, <1>5, <1>6 DEF t

LEMMA CarriesBoth ==
    ASSUME NEW s \in Seq(Packets), NEW t \in Seq(Packets),
           NEW m \in Nat, NEW k \in Nat, NEW n \in Nat, m <= k, k <= n,
           Carries(s, m, k), Carries(t, k, n)
    PROVE  Carries(s \o t, m, n)
<1> DEFINE u == s \o t
<1>1. /\ u \in Seq(Packets) /\ Len(u) = Len(s) + Len(t) /\ Len(s) \in Nat /\ Len(t) \in Nat
      /\ \A i \in 1..Len(s) : u[i] = s[i]
      /\ \A i \in 1..Len(t) : u[Len(s) + i] = t[i]
  OBVIOUS
<1>2. /\ \A i \in 1..Len(s) : IsData(s[i]) => s[i].number \in (m + 1)..k
      /\ \A x \in (m + 1)..k : \E i \in 1..Len(s) : IsData(s[i]) /\ s[i].number = x
      /\ \A i, j \in 1..Len(s) : IsData(s[i]) /\ IsData(s[j]) /\ i < j =>
            s[i].number < s[j].number
  BY CarriesIs
<1>3. /\ \A i \in 1..Len(t) : IsData(t[i]) => t[i].number \in (k + 1)..n
      /\ \A x \in (k + 1)..n : \E i \in 1..Len(t) : IsData(t[i]) /\ t[i].number = x
      /\ \A i, j \in 1..Len(t) : IsData(t[i]) /\ IsData(t[j]) /\ i < j =>
            t[i].number < t[j].number
  BY CarriesIs
<1> HIDE DEF u
<1>4. \A i \in 1..Len(u) : i \in 1..Len(s) \/ (i - Len(s) \in 1..Len(t) /\ u[i] = t[i - Len(s)])
  <2>1. ASSUME NEW i \in 1..Len(u), i \notin 1..Len(s)
        PROVE  i - Len(s) \in 1..Len(t) /\ u[i] = t[i - Len(s)]
    <3>1. i - Len(s) \in 1..Len(t) /\ Len(s) + (i - Len(s)) = i
      BY <1>1, <2>1
    <3> QED
      BY <1>1, <3>1
  <2> QED
    BY <2>1
<1>5. \A x \in (m + 1)..n : \E i \in 1..Len(u) : IsData(u[i]) /\ u[i].number = x
  <2>1. ASSUME NEW x \in (m + 1)..k PROVE \E i \in 1..Len(u) : IsData(u[i]) /\ u[i].number = x
    <3>1. PICK i \in 1..Len(s) : IsData(s[i]) /\ s[i].number = x
      BY <1>2
    <3>2. i \in 1..Len(u) /\ u[i] = s[i]
      BY <1>1
    <3> QED
      BY <3>1, <3>2
  <2>2. ASSUME NEW x \in (k + 1)..n PROVE \E i \in 1..Len(u) : IsData(u[i]) /\ u[i].number = x
    <3>1. PICK i \in 1..Len(t) : IsData(t[i]) /\ t[i].number = x
      BY <1>3
    <3>2. Len(s) + i \in 1..Len(u) /\ u[Len(s) + i] = t[i]
      BY <1>1
    <3> QED
      BY <3>1, <3>2
  <2> QED
    BY <2>1, <2>2
<1>6. \A i \in 1..Len(u) : IsData(u[i]) => u[i].number \in (m + 1)..n
  <2>1. ASSUME NEW i \in 1..Len(u), IsData(u[i]) PROVE u[i].number \in (m + 1)..n
    <3>1. CASE i \in 1..Len(s)
      <4>1. u[i] = s[i] /\ s[i].number \in (m + 1)..k
        BY <1>1, <1>2, <2>1, <3>1
      <4> QED
        BY <4>1
    <3>2. CASE i - Len(s) \in 1..Len(t) /\ u[i] = t[i - Len(s)]
      <4>1. u[i].number \in (k + 1)..n
        BY <1>3, <2>1, <3>2
      <4> QED
        BY <4>1
    <3> QED
      BY <1>4, <3>1, <3>2
  <2> QED
    BY <2>1
<1>7. \A i, j \in 1..Len(u) : IsData(u[i]) /\ IsData(u[j]) /\ i < j => u[i].number < u[j].number
  <2>1. ASSUME NEW i \in 1..Len(u), NEW j \in 1..Len(u), IsData(u[i]), IsData(u[j]), i < j
        PROVE  u[i].number < u[j].number
    <3>1. CASE i \in 1..Len(s) /\ j \in 1..Len(s)
      BY <1>1, <1>2, <2>1, <3>1
    <3>2. CASE i \in 1..Len(s) /\ j - Len(s) \in 1..Len(t) /\ u[j] = t[j - Len(s)]
      <4>1. u[i].number \in (m + 1)..k /\ u[j].number \in (k + 1)..n
        BY <1>1, <1>2, <1>3, <2>1, <3>2
      <4>2. \A x \in (m + 1)..k : \A y \in (k + 1)..n : x < y
        OBVIOUS
      <4> QED
        BY <4>1, <4>2
    <3>3. CASE i \notin 1..Len(s) /\ i - Len(s) \in 1..Len(t) /\ u[i] = t[i - Len(s)]
      <4>1. j - Len(s) \in 1..Len(t) /\ u[j] = t[j - Len(s)]
        <5>1. j \notin 1..Len(s)
          BY <1>1, <2>1, <3>3
        <5> QED
          BY <1>4, <5>1
      <4>2. i - Len(s) < j - Len(s)
        BY <1>1, <2>1
      <4> QED
        BY <1>3, <2>1, <3>3, <4>1, <4>2
    <3> QED
      BY <1>4, <3>1, <3>2, <3>3
  <2> QED
    BY <2>1
<1> QED
  BY <1>1, <1>5, <1>6, <1>7, CarriesIs DEF u

-----------------------------------------------------------------------------
\* The invariant.

Queue == inbox \o hand

\* Where the session task is, and what there is then of a reader and a decoder.
ShellPlaces ==
    /\ reads <=> shellStep \notin {"eof", "finish", "backoff", "over"}
    /\ shellStep \in {"backoff", "opened"} \cup Opening => carry = 0
    /\ shellStep \in {"opened"} \cup Opening => ~exitKnown /\ ~eofKnown /\ emitted = 0
    /\ ~reads => emitted = 0
    /\ carry \in {0, shell}

\* What is said last is last in the queue.
Sealed ==
    \A i \in 1..Len(Queue) :
        /\ Queue[i].kind = "eof" =>
              spoken.eof /\ \A j \in 1..Len(Queue) : j > i => ~IsData(Queue[j])
        /\ Queue[i].kind = "close" => spoken.close /\ i = Len(Queue)

ExitIsThere == exitKnown \/ \E i \in 1..Len(Queue) : Queue[i].kind = "exit"

\* What the reader has kept, and the queue after it, carry what was not passed on yet.
ShellOutput ==
    reads =>
        /\ \E k \in emitted..spoken.data :
              Carries(early, emitted, k) /\ Carries(Queue, k, spoken.data)
        /\ \A i \in 1..Len(early) : IsData(early[i])
        /\ Sealed
        /\ spoken.exit => ExitIsThere
        /\ eofKnown => spoken.eof /\ early = <<>> /\ \A i \in 1..Len(Queue) : ~IsData(Queue[i])

\* How a shell has ended.
ShellEnd ==
    Does("retire") =>
        /\ ended = "closed" /\ ~leaving =>
              emitted = spoken.data /\ (spoken.eof \/ spoken.close \/ ~up)
        /\ ended = "lost" => ~up \/ (spoken.close /\ ~spoken.exit)

\* Unless there is a change to be seen, the server learns the size; or it is being told.
ShellSizes ==
    /\ shellStep = "window" => operation.kind = "input"
    /\ shellStep = "room" => operation.kind \in {"input", "size"}
    /\ ~unseen =>
          /\ shellStep = "room" /\ operation.kind = "size" => operation.size = size
          /\ \/ shellStep \in {"select", "window", "opened"} \cup Opening
             \/ shellStep = "room" /\ operation.kind = "input"
             => (up /\ ~spoken.close => Learns(outbox, remoteSize, size))

ShellInductive ==
    ShellTypeOK /\ ShellPlaces /\ ShellOutput /\ ShellEnd /\ ShellSizes

\* The steps, one by one.
LEMMA ShellCases ==
    ASSUME [ShellNext]_shellVars
    PROVE  \/ ServerSpeaks \/ ServerGrants \/ ActorDelivers \/ ActorSends \/ ActorEnds
           \/ ResizeTerminal \/ CloseShell \/ StartsInput \/ ReadsOutput \/ StartsResize
           \/ SeesClose \/ OperationCloses \/ OperationProceeds \/ OperationReads \/ DropsReader
           \/ SendsEof \/ Decides \/ OpensShell \/ ReadsSetup \/ SetupEnds
           \/ WritesStartup \/ UsesShell \/ NoLonger \/ UNCHANGED shellVars
BY DEF ShellNext, ShellTask, RunShellOperation, RetireShellOutput, SetupProceeds

\* The types, in parts.
TaskTypeOK ==
    /\ shell \in 1..Shells
    /\ shellStep \in {"select", "retire", "eof", "finish", "backoff", "opened", "over"}
                     \cup Operating \cup Opening
    /\ operation \in ActorRequests
    /\ ended \in {"none", "closed", "lost"}
    /\ leaving \in BOOLEAN
    /\ carry \in 0..Shells
    /\ size \in 1..MaxSize /\ unseen \in BOOLEAN

FlagsTypeOK == {up, reads, exitKnown, eofKnown, credit} \subseteq BOOLEAN

QueuesTypeOK ==
    /\ hand \in Seq(Packets) /\ Len(hand) <= 1
    /\ inbox \in Seq(Packets) /\ Len(inbox) <= ChannelRoom
    /\ early \in Seq(Packets)

OutboxTypeOK ==
    outbox \in Seq(ActorRequests) /\ Len(outbox) <= OutboxRoom /\ remoteSize \in 0..MaxSize

SaidTypeOK ==
    /\ spoken \in [data : 0..ShellData, exit : BOOLEAN, eof : BOOLEAN, close : BOOLEAN,
                   success : BOOLEAN]
    /\ emitted \in 0..spoken.data

LEMMA ShellTypeParts ==
    ShellTypeOK <=> TaskTypeOK /\ FlagsTypeOK /\ QueuesTypeOK /\ OutboxTypeOK /\ SaidTypeOK
BY DEF ShellTypeOK, TaskTypeOK, FlagsTypeOK, QueuesTypeOK, OutboxTypeOK, SaidTypeOK

LEMMA PacketsAre ==
    /\ \A k \in {"exit", "eof", "close", "success"} : Packet(k, 0) \in Packets
    /\ \A n \in 0..ShellData : Packet("data", n) \in Packets
    /\ NoRequest \in ActorRequests
    /\ \A k \in {"input", "eof"} : Request(k, 0) \in ActorRequests
    /\ \A n \in 1..MaxSize : Request("size", n) \in ActorRequests
BY ShellAssumption DEF Packet, Packets, Request, NoRequest, ActorRequests

\* The task keeps its types.
LEMMA TaskTypesStay ==
    ASSUME ShellInductive, [ShellNext]_shellVars
    PROVE  TaskTypeOK'
<1> USE DEF ShellInductive, TaskTypeOK, Does, Then, Ends, GoesOn, actorVars, readerVars, sizeVars,
           Operating, Opening, ReaderIsDropped, ConnectionIsEnded, NextOutput, PassesOn, Knows, NoMore,
           ExitAfterOutput, Hands, SetupFails, BecomesCurrent
<1>1. CASE ServerSpeaks
  BY <1>1, ShellAssumption, ShellTypeParts, PacketsAre DEF ServerSpeaks
<1>2. CASE ServerGrants \/ ActorDelivers \/ ActorSends \/ ActorEnds
  BY <1>2, ShellAssumption, ShellTypeParts, PacketsAre DEF ServerGrants, ActorDelivers, ActorSends, ActorEnds
<1>3. CASE ResizeTerminal
  BY <1>3, ShellAssumption, ShellTypeParts DEF ResizeTerminal
<1>4. CASE CloseShell \/ StartsInput \/ StartsResize
  BY <1>4, ShellTypeParts, PacketsAre DEF CloseShell, StartsInput, StartsResize
<1>5. CASE ReadsOutput \/ OperationReads
  BY <1>5, ShellAssumption, ShellTypeParts, PacketsAre DEF ReadsOutput, OperationReads
<1>6. CASE SeesClose \/ OperationCloses \/ OperationProceeds
  BY <1>6, ShellAssumption, ShellTypeParts, PacketsAre DEF SeesClose, OperationCloses, OperationProceeds
<1>7. CASE DropsReader \/ SendsEof \/ Decides
  BY <1>7, ShellAssumption, ShellTypeParts, PacketsAre DEF DropsReader, SendsEof, Decides
<1>8. CASE OpensShell \/ ReadsSetup \/ SetupEnds
  BY <1>8, ShellAssumption, ShellTypeParts, PacketsAre DEF OpensShell, ReadsSetup, SetupEnds
<1>9. CASE WritesStartup \/ UsesShell \/ NoLonger \/ UNCHANGED shellVars
  BY <1>9, ShellAssumption, ShellTypeParts, PacketsAre DEF WritesStartup, UsesShell, NoLonger, shellVars
<1> QED
  BY <1>1, <1>2, <1>3, <1>4, <1>5, <1>6, <1>7, <1>8, <1>9, ShellCases

\* The flags are truth values.
LEMMA FlagsTypesStay ==
    ASSUME ShellInductive, [ShellNext]_shellVars
    PROVE  FlagsTypeOK'
<1> USE DEF ShellInductive, FlagsTypeOK, actorVars, readerVars, ReaderIsDropped, ConnectionIsEnded,
           NextOutput, PassesOn, Knows, NoMore, Hands, SetupFails
<1>1. CASE ServerSpeaks
  BY <1>1, ShellTypeParts DEF ServerSpeaks
<1>2. CASE ServerGrants \/ ActorDelivers \/ ActorSends \/ ActorEnds
  BY <1>2, ShellTypeParts DEF ServerGrants, ActorDelivers, ActorSends, ActorEnds
<1>3. CASE ResizeTerminal \/ CloseShell \/ StartsInput \/ StartsResize
  BY <1>3, ShellTypeParts DEF ResizeTerminal, CloseShell, StartsInput, StartsResize
<1>4. CASE ReadsOutput \/ OperationReads
  BY <1>4, ShellTypeParts DEF ReadsOutput, OperationReads
<1>5. CASE SeesClose \/ OperationCloses \/ OperationProceeds
  BY <1>5, ShellTypeParts DEF SeesClose, OperationCloses, OperationProceeds
<1>6. CASE DropsReader \/ SendsEof \/ Decides
  BY <1>6, ShellTypeParts DEF DropsReader, SendsEof, Decides
<1>7. CASE OpensShell \/ ReadsSetup \/ SetupEnds
  BY <1>7, ShellTypeParts DEF OpensShell, ReadsSetup, SetupEnds
<1>8. CASE WritesStartup \/ UsesShell \/ NoLonger \/ UNCHANGED shellVars
  BY <1>8, ShellTypeParts DEF WritesStartup, UsesShell, NoLonger, shellVars
<1> QED
  BY <1>1, <1>2, <1>3, <1>4, <1>5, <1>6, <1>7, <1>8, ShellCases

\* What is still to be read.
LEMMA QueueIs ==
    ASSUME QueuesTypeOK
    PROVE  /\ Queue \in Seq(Packets) /\ Len(Queue) \in Nat
           /\ hand = <<>> => Queue = inbox
           /\ inbox # <<>> => /\ Queue # <<>> /\ Head(Queue) = Head(inbox)
                              /\ Tail(Queue) = Tail(inbox) \o hand
                              /\ Tail(inbox) \in Seq(Packets) /\ Len(Tail(inbox)) <= ChannelRoom
                              /\ Head(inbox) \in Packets /\ Head(inbox) = Queue[1]
           /\ early # <<>> => Tail(early) \in Seq(Packets) /\ Head(early) \in Packets
<1>1. Queue \in Seq(Packets) /\ Len(Queue) \in Nat
  BY DEF QueuesTypeOK, Queue
<1>2. hand = <<>> => Queue = inbox
  BY ConcatEmptySeq DEF QueuesTypeOK, Queue
<1>3. ASSUME inbox # <<>>
      PROVE  /\ Queue # <<>> /\ Head(Queue) = Head(inbox) /\ Head(inbox) = Queue[1]
             /\ Tail(inbox) \in Seq(Packets) /\ Len(Tail(inbox)) <= ChannelRoom
             /\ Head(inbox) \in Packets /\ Len(inbox) >= 1
  BY <1>3, ShellAssumption DEF QueuesTypeOK, Queue
<1>4. ASSUME inbox # <<>> PROVE Tail(Queue) = Tail(inbox) \o hand
  BY <1>4, <1>3 DEF QueuesTypeOK, Queue
<1>5. early # <<>> => Tail(early) \in Seq(Packets) /\ Head(early) \in Packets
  BY DEF QueuesTypeOK
<1> QED
  BY <1>1, <1>2, <1>3, <1>4, <1>5

\* What the server says comes last.
LEMMA QueueGrows ==
    ASSUME QueuesTypeOK, NEW p \in Packets, hand = <<>>, hand' = <<p>>, inbox' = inbox
    PROVE  Queue' = Append(Queue, p) /\ Len(Queue') = Len(Queue) + 1 /\ Queue'[Len(Queue) + 1] = p
           /\ \A i \in 1..Len(Queue) : Queue'[i] = Queue[i]
<1>1. Queue = inbox
  BY QueueIs
<1>2. Queue' = Append(inbox, p)
  BY DEF Queue, QueuesTypeOK
<1> QED
  BY <1>1, <1>2 DEF QueuesTypeOK

\* The fields of what was said.
LEMMA SaidIs ==
    ASSUME SaidTypeOK
    PROVE  /\ spoken.data \in 0..ShellData /\ emitted \in 0..spoken.data
           /\ {spoken.exit, spoken.eof, spoken.close, spoken.success} \subseteq BOOLEAN
           /\ \A f \in {"exit", "eof", "close", "success"} :
                 [spoken EXCEPT ![f] = TRUE] \in [data : 0..ShellData, exit : BOOLEAN,
                      eof : BOOLEAN, close : BOOLEAN, success : BOOLEAN]
BY DEF SaidTypeOK

\* One packet more that the server has said: output only before EOF, and nothing after Close.
Says(p) ==
    /\ up /\ hand = <<>> /\ ~spoken.close /\ hand' = <<p>>
    /\ UNCHANGED <<shell, shellStep, operation, ended, leaving, up, outbox, credit, remoteSize,
                   readerVars, sizeVars>>
    /\ SaidTypeOK'
    /\ IF IsData(p) THEN /\ reads /\ ~spoken.eof /\ p.number = spoken.data + 1
                         /\ spoken'.data = spoken.data + 1
                    ELSE spoken'.data = spoken.data
    /\ spoken'.eof = (spoken.eof \/ p.kind = "eof")
    /\ spoken'.close = (spoken.close \/ p.kind = "close")
    /\ spoken'.exit = (spoken.exit \/ p.kind = "exit")

LEMMA SpeaksIs ==
    ASSUME SaidTypeOK, ServerSpeaks
    PROVE  \E p \in Packets : Says(p)
<1> DEFINE Saids == [data : 0..ShellData, exit : BOOLEAN, eof : BOOLEAN, close : BOOLEAN,
                     success : BOOLEAN]
<1>1. ASSUME NEW k \in {"exit", "eof", "close", "success"}, Hands(Packet(k, 0), [spoken EXCEPT ![k] = TRUE]), up,
             hand = <<>>, ~spoken.close
      PROVE  \E p \in Packets : Says(p)
  <2>1. /\ spoken' \in Saids /\ spoken'.data = spoken.data /\ emitted' = emitted
        /\ spoken'.exit = (spoken.exit \/ k = "exit")
        /\ spoken'.eof = (spoken.eof \/ k = "eof") /\ spoken'.close = (spoken.close \/ k = "close")
    BY <1>1 DEF Hands, SaidTypeOK, readerVars
  <2>2. SaidTypeOK'
    BY <2>1 DEF SaidTypeOK
  <2>3. Packet(k, 0) \in Packets /\ Packet(k, 0).kind = k
    BY PacketsAre DEF Packet
  <2> QED
    BY <1>1, <2>1, <2>2, <2>3 DEF Says, Hands, IsData
<1>2. ASSUME Hands(Packet("data", spoken.data + 1), [spoken EXCEPT !.data = @ + 1]), up, reads,
             hand = <<>>, ~spoken.close, ~spoken.eof, spoken.data < ShellData
      PROVE  \E p \in Packets : Says(p)
  <2>1. /\ spoken' \in Saids /\ spoken'.data = spoken.data + 1 /\ emitted' = emitted
        /\ spoken'.exit = spoken.exit /\ spoken'.eof = spoken.eof /\ spoken'.close = spoken.close
    BY <1>2, ShellAssumption DEF Hands, SaidTypeOK, readerVars
  <2>2. SaidTypeOK'
    BY <2>1 DEF SaidTypeOK
  <2>3. /\ Packet("data", spoken.data + 1) \in Packets
        /\ Packet("data", spoken.data + 1).kind = "data"
        /\ Packet("data", spoken.data + 1).number = spoken.data + 1
    BY <1>2, ShellAssumption, PacketsAre DEF Packet, SaidTypeOK
  <2> QED
    BY <1>2, <2>1, <2>2, <2>3 DEF Says, Hands, IsData
<1> QED
  BY <1>1, <1>2 DEF ServerSpeaks

LEMMA SaysTypes ==
    ASSUME QueuesTypeOK, NEW p \in Packets, Says(p)
    PROVE  QueuesTypeOK'
BY DEF Says, QueuesTypeOK, readerVars

LEMMA SaysOutput ==
    ASSUME ShellTypeOK, ShellOutput, reads, NEW p \in Packets, Says(p)
    PROVE  ShellOutput'
<1>1. /\ Queue' = Append(Queue, p) /\ Len(Queue') = Len(Queue) + 1 /\ Queue'[Len(Queue) + 1] = p
      /\ \A i \in 1..Len(Queue) : Queue'[i] = Queue[i]
      /\ Queue \in Seq(Packets) /\ Len(Queue) \in Nat
  BY ShellTypeParts, QueueIs, QueueGrows DEF Says, readerVars
<1>2. \A i \in 1..Len(Queue') : i \in 1..Len(Queue) \/ i = Len(Queue')
  BY <1>1
<1>3. \E k \in emitted'..spoken'.data : Carries(early', emitted', k) /\ Carries(Queue', k, spoken'.data)
  <2>1. PICK k \in emitted..spoken.data : Carries(early, emitted, k) /\ Carries(Queue, k, spoken.data)
    BY DEF ShellOutput
  <2>2. emitted \in Nat /\ spoken.data \in Nat /\ k \in Nat /\ k <= spoken.data
    BY <2>1, ShellAssumption, ShellTypeParts DEF SaidTypeOK
  <2>3. Carries(Queue', k, spoken'.data)
    BY <1>1, <2>1, <2>2, CarriesMore DEF Says
  <2>4. k \in emitted'..spoken'.data /\ Carries(early', emitted', k)
    BY <2>1, <2>2 DEF Says, readerVars
  <2> QED
    BY <2>3, <2>4
<1>4. Sealed'
  <2> SUFFICES ASSUME NEW i \in 1..Len(Queue')
               PROVE  /\ Queue'[i].kind = "eof" =>
                            spoken'.eof /\ \A j \in 1..Len(Queue') : j > i => ~IsData(Queue'[j])
                      /\ Queue'[i].kind = "close" => spoken'.close /\ i = Len(Queue')
    BY DEF Sealed, IsData
  <2>1. CASE i \in 1..Len(Queue)
    <3>1. Queue'[i] = Queue[i] /\ (IsData(p) => ~spoken.eof)
          /\ (spoken.eof => spoken'.eof) /\ ~spoken.close
      BY <1>1, <2>1 DEF Says
    <3>2. /\ Queue[i].kind = "eof" =>
                spoken.eof /\ \A j \in 1..Len(Queue) : j > i => ~IsData(Queue[j])
          /\ Queue[i].kind = "close" => spoken.close
      BY <2>1 DEF ShellOutput, Sealed
    <3> QED
      BY <1>1, <1>2, <3>1, <3>2
  <2>2. CASE i = Len(Queue')
    <3>1. Queue'[i] = p /\ \A j \in 1..Len(Queue') : ~(j > i)
      BY <1>1, <2>2
    <3>2. (p.kind = "eof" => spoken'.eof) /\ (p.kind = "close" => spoken'.close)
      BY DEF Says
    <3> QED
      BY <2>2, <3>1, <3>2
  <2> QED
    BY <1>2, <2>1, <2>2
<1>5. spoken'.exit => ExitIsThere'
  <2>1. CASE p.kind = "exit"
    <3>1. Len(Queue') \in 1..Len(Queue') /\ Queue'[Len(Queue')] = p
      BY <1>1
    <3> QED
      BY <2>1, <3>1 DEF ExitIsThere
  <2>2. CASE spoken.exit
    <3>1. exitKnown' = exitKnown /\ ExitIsThere
      BY <2>2 DEF Says, ShellOutput, readerVars
    <3>2. \A i \in 1..Len(Queue) : i \in 1..Len(Queue') /\ Queue'[i] = Queue[i]
      BY <1>1
    <3> QED
      BY <3>1, <3>2 DEF ExitIsThere
  <2> QED
    BY <2>1, <2>2 DEF Says
<1>6. eofKnown' => spoken'.eof /\ early' = <<>> /\ \A i \in 1..Len(Queue') : ~IsData(Queue'[i])
  BY <1>1, <1>2 DEF ShellOutput, Says, readerVars
<1>7. early' = early
  BY DEF Says, readerVars
<1> QED
  BY <1>3, <1>4, <1>5, <1>6, <1>7 DEF ShellOutput, IsData

\* Reading keeps what is still to be read, ...
Reading ==
    /\ ShellTypeOK /\ ShellPlaces /\ ShellOutput /\ NextOutput
    /\ shellStep \in {"select"} \cup Operating

LEMMA ReadsEarly ==
    ASSUME Reading, early # <<>>, early' = Tail(early), PassesOn(Head(early)), inbox' = inbox
    PROVE  QueuesTypeOK' /\ emitted' \in 0..spoken'.data /\ ShellOutput' /\ carry' \in {0, shell'}
           /\ shellStep' = shellStep
<1>1. /\ hand' = hand /\ spoken' = spoken /\ shell' = shell /\ reads' = reads /\ shellStep' = shellStep
      /\ exitKnown' = exitKnown /\ eofKnown' = eofKnown /\ reads
  BY DEF Reading, NextOutput, PassesOn, GoesOn, actorVars, ShellPlaces, Operating
<1>2. Queue' = Queue /\ QueuesTypeOK'
  BY <1>1, QueueIs, ShellTypeParts DEF Reading, Queue, QueuesTypeOK
<1>3. Len(early) \in Nat /\ Head(early) = early[1] /\ 1 \in 1..Len(early) /\ Tail(early) \in Seq(Packets)
      /\ Len(Tail(early)) = Len(early) - 1
      /\ \A i \in 1..Len(Tail(early)) : i + 1 \in 1..Len(early) /\ Tail(early)[i] = early[i + 1]
  BY ShellTypeParts DEF Reading, QueuesTypeOK
<1>4. \A i \in 1..Len(early) : IsData(early[i])
  BY <1>1 DEF Reading, ShellOutput
<1>5. PICK k \in emitted..spoken.data : Carries(early, emitted, k) /\ Carries(Queue, k, spoken.data)
  BY <1>1 DEF Reading, ShellOutput
<1>6. emitted \in Nat /\ k \in Nat /\ spoken.data \in Nat /\ k <= spoken.data
  BY <1>5, ShellAssumption, ShellTypeParts DEF Reading, SaidTypeOK
<1>7. Head(early).number = emitted + 1 /\ emitted + 1 <= k /\ Carries(Tail(early), emitted + 1, k)
  BY <1>3, <1>4, <1>5, <1>6, CarriesTail, ShellTypeParts DEF Reading, QueuesTypeOK
<1>8. emitted' = emitted + 1 /\ carry' \in {0, shell}
  BY <1>3, <1>4, <1>7 DEF PassesOn, IsData
<1>9. k \in emitted'..spoken'.data /\ Carries(early', emitted', k) /\ Carries(Queue', k, spoken'.data)
  BY <1>1, <1>2, <1>5, <1>6, <1>7, <1>8
<1>10. \A i \in 1..Len(early') : IsData(early'[i])
  BY <1>3, <1>4
<1>11. Sealed' /\ (spoken'.exit => ExitIsThere')
  BY <1>1, <1>2 DEF Reading, ShellOutput, Sealed, ExitIsThere, IsData
<1>12. ~eofKnown
  BY <1>1 DEF Reading, ShellOutput
<1> QED
  BY <1>1, <1>2, <1>6, <1>7, <1>8, <1>9, <1>10, <1>11, <1>12 DEF ShellOutput, IsData

\* ... also when the next packet is taken from the queue.
LEMMA TakesNext ==
    ASSUME QueuesTypeOK, SaidTypeOK, ShellOutput, reads, inbox # <<>>, inbox' = Tail(inbox), hand' = hand,
           spoken' = spoken
    PROVE  /\ Queue' = Tail(Queue) /\ Sealed' /\ Len(Queue) \in Nat /\ Queue' \in Seq(Packets)
           /\ Len(Queue') = Len(Queue) - 1
           /\ \A i \in 1..Len(Queue') : i + 1 \in 1..Len(Queue) /\ Queue'[i] = Queue[i + 1]
           /\ Head(inbox) = Queue[1] /\ 1 \in 1..Len(Queue) /\ Queue # <<>> /\ Head(Queue) = Queue[1]
           /\ spoken.exit => exitKnown \/ Head(inbox).kind = "exit"
                             \/ \E i \in 1..Len(Queue') : Queue'[i].kind = "exit"
<1>1. Queue \in Seq(Packets) /\ Queue # <<>> /\ Queue' = Tail(Queue) /\ Head(inbox) = Queue[1]
  BY QueueIs DEF Queue
<1>2. /\ Len(Queue) \in Nat /\ Queue' \in Seq(Packets) /\ Len(Queue') = Len(Queue) - 1
      /\ \A i \in 1..Len(Queue') : i + 1 \in 1..Len(Queue) /\ Queue'[i] = Queue[i + 1]
      /\ 1 \in 1..Len(Queue) /\ Head(Queue) = Queue[1]
  BY <1>1
<1>3. Sealed'
  <2> SUFFICES ASSUME NEW i \in 1..Len(Queue')
               PROVE  /\ Queue'[i].kind = "eof" =>
                            spoken'.eof /\ \A j \in 1..Len(Queue') : j > i => ~IsData(Queue'[j])
                      /\ Queue'[i].kind = "close" => spoken'.close /\ i = Len(Queue')
    BY DEF Sealed, IsData
  <2>1. Queue[i + 1].kind = "eof" =>
           spoken.eof /\ \A j \in 1..Len(Queue) : j > i + 1 => ~IsData(Queue[j])
    BY <1>2 DEF ShellOutput, Sealed
  <2>2. Queue[i + 1].kind = "close" => spoken.close /\ i + 1 = Len(Queue)
    BY <1>2 DEF ShellOutput, Sealed
  <2>3. \A j \in 1..Len(Queue') : j > i => j + 1 \in 1..Len(Queue) /\ j + 1 > i + 1
    BY <1>2
  <2>4. Queue'[i] = Queue[i + 1] /\ \A j \in 1..Len(Queue') : Queue'[j] = Queue[j + 1]
    BY <1>2
  <2>5. Queue'[i].kind = "eof" =>
           spoken'.eof /\ \A j \in 1..Len(Queue') : j > i => ~IsData(Queue'[j])
    BY <2>1, <2>3, <2>4
  <2>6. i + 1 = Len(Queue) => i = Len(Queue')
    BY <1>2
  <2> QED
    BY <2>2, <2>4, <2>5, <2>6
<1>4. ASSUME spoken.exit, ~exitKnown, Head(inbox).kind # "exit"
      PROVE  \E i \in 1..Len(Queue') : Queue'[i].kind = "exit"
  <2>1. PICK i \in 1..Len(Queue) : Queue[i].kind = "exit"
    BY <1>4 DEF ShellOutput, ExitIsThere
  <2>2. i # 1
    BY <1>1, <1>4, <2>1
  <2>3. i - 1 \in 1..Len(Queue') /\ Queue'[i - 1] = Queue[i]
    BY <1>2, <2>2
  <2> QED
    BY <2>1, <2>3
<1> QED
  BY <1>1, <1>2, <1>3, <1>4

\* A read goes on, or ends the shell the way it has ended.
Goes == shellStep' = shellStep /\ ended' = ended
EndsWell == shellStep' = "retire" /\ ShellEnd'

LEMMA ReadsQueue ==
    ASSUME Reading, early = <<>>, inbox # <<>>, inbox' = Tail(inbox), early' = early,
           CASE Head(inbox).kind = "exit" -> Knows(TRUE, eofKnown)
             [] Head(inbox).kind = "eof" -> Knows(exitKnown, TRUE)
             [] Head(inbox).kind = "close" -> NoMore
             [] OTHER -> PassesOn(Head(inbox))
    PROVE  /\ QueuesTypeOK' /\ emitted' \in 0..spoken'.data /\ ShellOutput' /\ carry' \in {0, shell'}
           /\ {exitKnown', eofKnown'} \subseteq BOOLEAN
           /\ Goes \/ EndsWell
<1> DEFINE p == Head(inbox)
<1>1. /\ hand' = hand /\ spoken' = spoken /\ shell' = shell /\ reads' = reads /\ up' = up
      /\ leaving' = leaving /\ reads
  BY DEF Reading, NextOutput, actorVars, ShellPlaces, Operating
<1>2. QueuesTypeOK /\ SaidTypeOK /\ FlagsTypeOK /\ ShellOutput /\ carry \in {0, shell}
  BY ShellTypeParts DEF Reading, ShellPlaces
<1>3. QueuesTypeOK' /\ p \in Packets
  BY <1>1, <1>2, QueueIs DEF QueuesTypeOK
<1>4. /\ Queue' = Tail(Queue) /\ Sealed' /\ Len(Queue) \in Nat /\ Queue' \in Seq(Packets)
      /\ Len(Queue') = Len(Queue) - 1
      /\ \A i \in 1..Len(Queue') : i + 1 \in 1..Len(Queue) /\ Queue'[i] = Queue[i + 1]
      /\ p = Queue[1] /\ 1 \in 1..Len(Queue) /\ Queue # <<>> /\ Head(Queue) = Queue[1]
      /\ spoken.exit => exitKnown \/ p.kind = "exit"
                        \/ \E i \in 1..Len(Queue') : Queue'[i].kind = "exit"
  BY <1>1, <1>2, TakesNext
<1>5. emitted \in Nat /\ spoken.data \in Nat /\ Queue \in Seq(Packets)
  BY <1>2, ShellAssumption, QueueIs DEF SaidTypeOK
<1>6. Carries(Queue, emitted, spoken.data) /\ emitted <= spoken.data
  <2>1. PICK k \in emitted..spoken.data : Carries(early, emitted, k) /\ Carries(Queue, k, spoken.data)
    BY <1>1, <1>2 DEF ShellOutput
  <2>2. k = emitted
    BY <1>5, <2>1, CarriesNothing
  <2> QED
    BY <1>5, <2>1, <2>2
<1>7. ASSUME NEW n \in Nat, n <= spoken.data, emitted' = n, Carries(Queue', n, spoken.data),
             spoken'.exit => ExitIsThere',
             eofKnown' => spoken'.eof /\ \A i \in 1..Len(Queue') : ~IsData(Queue'[i])
      PROVE  ShellOutput' /\ emitted' \in 0..spoken'.data
  <2>1. Carries(early', emitted', n) /\ n \in emitted'..spoken'.data
    BY <1>1, <1>5, <1>7, CarriesNothing
  <2>2. \A i \in 1..Len(early') : FALSE
    OBVIOUS
  <2> QED
    BY <1>1, <1>4, <1>5, <1>7, <2>1, <2>2 DEF ShellOutput, IsData
<1>8. \A i \in 1..Len(Queue') : eofKnown => ~IsData(Queue'[i])
  BY <1>1, <1>2, <1>4 DEF ShellOutput
<1>9. ASSUME ~IsData(p), emitted' = emitted, spoken'.exit => ExitIsThere',
             eofKnown' => spoken'.eof /\ \A i \in 1..Len(Queue') : ~IsData(Queue'[i])
      PROVE  ShellOutput' /\ emitted' \in 0..spoken'.data
  <2>1. Carries(Queue', emitted, spoken.data)
    BY <1>4, <1>5, <1>6, <1>9, CarriesTail
  <2> QED
    BY <1>5, <1>6, <1>7, <1>9, <2>1
<1>10. ASSUME ~IsData(p), \A i \in 1..Len(Queue') : ~IsData(Queue'[i]) PROVE emitted = spoken.data
  <2>1. Carries(Queue', emitted, spoken.data)
    BY <1>4, <1>5, <1>6, <1>10, CarriesTail
  <2> QED
    BY <1>4, <1>5, <1>6, <1>10, <2>1, CarriesNoData
<1>11. CASE p.kind = "exit"
  <2>1. /\ exitKnown' = TRUE /\ eofKnown' = eofKnown /\ emitted' = emitted /\ carry' = carry
        /\ ExitAfterOutput(TRUE, eofKnown) /\ ~IsData(p)
    BY <1>11 DEF Knows, IsData
  <2>2. ShellOutput' /\ emitted' \in 0..spoken'.data
    BY <1>1, <1>2, <1>8, <1>9, <2>1 DEF ShellOutput, ExitIsThere
  <2>3. CASE ~eofKnown
    BY <1>1, <1>2, <1>3, <2>1, <2>2, <2>3 DEF ExitAfterOutput, Goes, GoesOn, FlagsTypeOK
  <2>4. CASE eofKnown
    <3>1. emitted = spoken.data /\ spoken.eof
      BY <1>1, <1>2, <1>8, <1>10, <2>1, <2>4 DEF ShellOutput
    <3>2. EndsWell
      BY <1>1, <2>1, <2>4, <3>1 DEF ExitAfterOutput, Ends, EndsWell, ShellEnd, Does
    <3> QED
      BY <1>1, <1>2, <1>3, <2>1, <2>2, <3>2 DEF FlagsTypeOK
  <2> QED
    BY <2>3, <2>4
<1>12. CASE p.kind = "eof"
  <2>1. /\ exitKnown' = exitKnown /\ eofKnown' = TRUE /\ emitted' = emitted /\ carry' = carry
        /\ ExitAfterOutput(exitKnown, TRUE) /\ ~IsData(p) /\ p.kind # "exit"
    BY <1>12 DEF Knows, IsData
  <2>2. spoken.eof /\ \A i \in 1..Len(Queue') : ~IsData(Queue'[i])
    <3>1. spoken.eof /\ \A j \in 1..Len(Queue) : j > 1 => ~IsData(Queue[j])
      BY <1>1, <1>2, <1>4, <1>12 DEF ShellOutput, Sealed
    <3>2. \A i \in 1..Len(Queue') : i + 1 > 1
      BY <1>4
    <3> QED
      BY <1>4, <3>1, <3>2
  <2>3. spoken'.exit => ExitIsThere'
    BY <1>1, <1>4, <2>1 DEF ExitIsThere
  <2>4. ShellOutput' /\ emitted' \in 0..spoken'.data
    BY <1>1, <1>9, <2>1, <2>2, <2>3
  <2>5. CASE ~exitKnown
    BY <1>1, <1>2, <1>3, <2>1, <2>4, <2>5 DEF ExitAfterOutput, Goes, GoesOn, FlagsTypeOK
  <2>6. CASE exitKnown
    <3>1. emitted = spoken.data
      BY <1>10, <2>1, <2>2
    <3>2. EndsWell
      BY <1>1, <2>1, <2>2, <2>6, <3>1 DEF ExitAfterOutput, Ends, EndsWell, ShellEnd, Does
    <3> QED
      BY <1>1, <1>2, <1>3, <2>1, <2>4, <3>2 DEF FlagsTypeOK
  <2> QED
    BY <2>5, <2>6
<1>13. CASE p.kind = "close"
  <2>1. /\ exitKnown' = exitKnown /\ eofKnown' = eofKnown /\ emitted' = emitted /\ carry' = carry
        /\ ended' = (IF exitKnown THEN "closed" ELSE "lost") /\ shellStep' = "retire"
        /\ ~IsData(p) /\ p.kind # "exit"
    BY <1>13 DEF NoMore, Ends, IsData
  <2>2. spoken.close /\ Len(Queue) = 1
    BY <1>1, <1>2, <1>4, <1>13 DEF ShellOutput, Sealed
  <2>3. \A i \in 1..Len(Queue') : FALSE
    BY <1>4, <2>2
  <2>4. spoken.exit => exitKnown
    BY <1>4, <2>1, <2>3
  <2>5. ShellOutput' /\ emitted' \in 0..spoken'.data
    BY <1>1, <1>2, <1>9, <2>1, <2>3, <2>4 DEF ShellOutput, ExitIsThere
  <2>6. emitted = spoken.data
    BY <1>10, <2>1, <2>3
  <2>7. EndsWell
    BY <1>1, <2>1, <2>2, <2>4, <2>6 DEF EndsWell, ShellEnd, Does
  <2> QED
    BY <1>1, <1>2, <1>3, <2>1, <2>5, <2>7 DEF FlagsTypeOK
<1>14. CASE p.kind \notin {"exit", "eof", "close"}
  <2>1. PassesOn(p)
    BY <1>14
  <2>2. exitKnown' = exitKnown /\ eofKnown' = eofKnown /\ Goes
    BY <2>1 DEF PassesOn, Goes, GoesOn
  <2>3. spoken'.exit => ExitIsThere'
    BY <1>1, <1>4, <1>14, <2>2 DEF ExitIsThere
  <2>4. eofKnown' => spoken'.eof /\ \A i \in 1..Len(Queue') : ~IsData(Queue'[i])
    BY <1>1, <1>2, <1>8, <2>2 DEF ShellOutput
  <2>5. CASE IsData(p)
    <3>1. p.number = emitted + 1 /\ emitted + 1 <= spoken.data /\ Carries(Queue', emitted + 1, spoken.data)
      BY <1>4, <1>5, <1>6, <2>5, CarriesTail
    <3>2. emitted' = emitted + 1 /\ carry' \in {0, shell}
      BY <2>1, <2>5, <3>1 DEF PassesOn, IsData
    <3>3. emitted + 1 \in Nat
      BY <1>5
    <3>4. ShellOutput' /\ emitted' \in 0..spoken'.data
      BY <1>7, <2>3, <2>4, <3>1, <3>2, <3>3
    <3> QED
      BY <1>1, <1>2, <1>3, <2>2, <3>2, <3>4 DEF FlagsTypeOK
  <2>6. CASE ~IsData(p)
    <3>1. emitted' = emitted /\ carry' = carry
      BY <2>1, <2>6 DEF PassesOn, IsData
    <3>2. ShellOutput' /\ emitted' \in 0..spoken'.data
      BY <1>9, <2>3, <2>4, <2>6, <3>1
    <3> QED
      BY <1>1, <1>2, <1>3, <2>2, <3>1, <3>2 DEF FlagsTypeOK
  <2> QED
    BY <2>5, <2>6
<1> QED
  BY <1>11, <1>12, <1>13, <1>14

\* The end of the connection is met when everything before it has been read.
LEMMA ReadsEnd ==
    ASSUME Reading, early = <<>>, inbox = <<>>, hand = <<>>, ~up, NoMore, inbox' = inbox, early' = early
    PROVE  /\ QueuesTypeOK' /\ emitted' \in 0..spoken'.data /\ ShellOutput' /\ carry' \in {0, shell'}
           /\ {exitKnown', eofKnown'} \subseteq BOOLEAN
           /\ Goes \/ EndsWell
<1>1. /\ hand' = hand /\ spoken' = spoken /\ shell' = shell /\ reads' = reads /\ up' = up
      /\ leaving' = leaving /\ reads
  BY DEF Reading, NextOutput, actorVars, ShellPlaces, Operating
<1>2. QueuesTypeOK /\ SaidTypeOK /\ FlagsTypeOK /\ ShellOutput /\ carry \in {0, shell}
  BY ShellTypeParts DEF Reading, ShellPlaces
<1>3. /\ exitKnown' = exitKnown /\ eofKnown' = eofKnown /\ emitted' = emitted /\ carry' = carry
      /\ ended' = (IF exitKnown THEN "closed" ELSE "lost") /\ shellStep' = "retire"
  BY DEF NoMore, Ends
<1>4. Queue' = Queue /\ QueuesTypeOK' /\ Queue = <<>>
  BY <1>1, <1>2, QueueIs DEF Queue, QueuesTypeOK
<1>5. emitted = spoken.data
  <2>1. PICK k \in emitted..spoken.data : Carries(early, emitted, k) /\ Carries(Queue, k, spoken.data)
    BY <1>1, <1>2 DEF ShellOutput
  <2>2. emitted \in Nat /\ k \in Nat /\ spoken.data \in Nat
    BY <1>2, <2>1, ShellAssumption DEF SaidTypeOK
  <2> QED
    BY <1>4, <2>1, <2>2, CarriesNothing
<1>6. ShellOutput'
  BY <1>1, <1>2, <1>3, <1>4 DEF ShellOutput, Sealed, ExitIsThere, IsData
<1>7. EndsWell
  BY <1>1, <1>3, <1>5 DEF EndsWell, ShellEnd, Does
<1> QED
  BY <1>1, <1>2, <1>3, <1>4, <1>6, <1>7 DEF FlagsTypeOK, SaidTypeOK

\* What a step does to the output of a shell.
outputVars == <<hand, inbox, early, reads, exitKnown, eofKnown, spoken, emitted>>

Dropped ==
    /\ ~reads' /\ emitted' = 0 /\ spoken' \in {spoken, Silence}
    /\ hand' \in {hand, <<>>} /\ inbox' \in {inbox, <<>>} /\ early' \in {early, <<>>}

LEMMA OutputCases ==
    ASSUME ShellInductive, [ShellNext]_shellVars
    PROVE  \/ UNCHANGED outputVars
           \/ \E p \in Packets : Says(p)
           \/ ActorDelivers \/ Reading \/ ReadsSetup \/ Dropped \/ OpensShell
<1> USE DEF outputVars, actorVars, readerVars, Does
<1>1. CASE ServerSpeaks
  BY <1>1, SpeaksIs, ShellTypeParts DEF ShellInductive
<1>2. CASE ReadsOutput
  BY <1>2 DEF ReadsOutput, Reading, ShellInductive
<1>3. CASE OperationReads
  BY <1>3 DEF OperationReads, Reading, ShellInductive
<1>4. CASE DropsReader
  BY <1>4 DEF DropsReader, ReaderIsDropped, Dropped
<1>5. CASE Decides
  BY <1>5 DEF Decides, ConnectionIsEnded, Dropped, ShellInductive, ShellPlaces
<1>6. CASE SetupEnds
  BY <1>6 DEF SetupEnds, SetupFails, ConnectionIsEnded, ReaderIsDropped, Dropped
<1>7. CASE UsesShell
  BY <1>7 DEF UsesShell, SetupFails, ConnectionIsEnded, ReaderIsDropped, Dropped
<1>8. CASE ServerGrants \/ ActorSends \/ ActorEnds \/ ResizeTerminal \/ CloseShell
  BY <1>8 DEF ServerGrants, ActorSends, ActorEnds, ResizeTerminal, CloseShell
<1>9. CASE StartsInput \/ StartsResize \/ SeesClose \/ OperationCloses
  BY <1>9 DEF StartsInput, StartsResize, SeesClose, OperationCloses
<1>10. CASE OperationProceeds \/ SendsEof \/ WritesStartup \/ NoLonger \/ UNCHANGED shellVars
  BY <1>10 DEF OperationProceeds, SendsEof, WritesStartup, NoLonger, shellVars
<1> QED
  BY <1>1, <1>2, <1>3, <1>4, <1>5, <1>6, <1>7, <1>8, <1>9, <1>10, ShellCases

\* A read, in any of its ways.
LEMMA ReadsAny ==
    ASSUME Reading
    PROVE  /\ QueuesTypeOK' /\ emitted' \in 0..spoken'.data /\ ShellOutput' /\ carry' \in {0, shell'}
           /\ Goes \/ EndsWell
<1>1. CASE early # <<>> /\ early' = Tail(early) /\ PassesOn(Head(early)) /\ UNCHANGED inbox
  BY <1>1, ReadsEarly DEF PassesOn, GoesOn, Goes
<1>2. CASE /\ early = <<>> /\ inbox # <<>> /\ inbox' = Tail(inbox) /\ UNCHANGED early
           /\ CASE Head(inbox).kind = "exit" -> Knows(TRUE, eofKnown)
                [] Head(inbox).kind = "eof" -> Knows(exitKnown, TRUE)
                [] Head(inbox).kind = "close" -> NoMore
                [] OTHER -> PassesOn(Head(inbox))
  BY <1>2, ReadsQueue
<1>3. CASE /\ early = <<>> /\ inbox = <<>> /\ hand = <<>> /\ ~up
           /\ NoMore /\ UNCHANGED <<inbox, early>>
  BY <1>3, ReadsEnd
<1> QED
  BY <1>1, <1>2, <1>3 DEF Reading, NextOutput

\* The actor moves a packet along, ...
LEMMA DeliversOutput ==
    ASSUME QueuesTypeOK, FlagsTypeOK, ShellOutput, ActorDelivers
    PROVE  QueuesTypeOK' /\ ShellOutput'
<1>1. QueuesTypeOK'
  BY ShellAssumption DEF QueuesTypeOK, ActorDelivers
<1>2. /\ reads' = reads /\ early' = early /\ spoken' = spoken /\ emitted' = emitted
      /\ exitKnown' = exitKnown /\ eofKnown' = eofKnown
      /\ hand' = <<>> /\ inbox' = IF reads THEN inbox \o hand ELSE inbox
  BY DEF ActorDelivers
<1>3. CASE reads = FALSE
  BY <1>1, <1>2, <1>3 DEF ShellOutput
<1>4. CASE reads = TRUE
  <2>1. inbox \o hand \in Seq(Packets)
    BY DEF QueuesTypeOK
  <2>2. Queue' = Queue
    BY <1>2, <1>4, <2>1, ConcatEmptySeq DEF Queue
  <2> QED
    BY <1>1, <1>2, <1>4, <2>2 DEF ShellOutput, Sealed, ExitIsThere, IsData
<1> QED
  BY <1>1, <1>3, <1>4 DEF FlagsTypeOK

\* ... and the opening of a shell keeps what comes early.
LEMMA SetupKeepsOutput ==
    ASSUME ShellTypeOK, ShellPlaces, ShellOutput, ReadsSetup
    PROVE  QueuesTypeOK' /\ ShellOutput'
<1> DEFINE p == Head(inbox)
<1>1. /\ hand' = hand /\ spoken' = spoken /\ reads' = reads /\ emitted' = emitted
      /\ exitKnown' = exitKnown /\ eofKnown' = eofKnown /\ reads /\ ~eofKnown
      /\ inbox # <<>> /\ inbox' = Tail(inbox) /\ p.kind \in {"data", "success"}
      /\ IF p.kind = "data" THEN early' = Append(early, p) ELSE early' = early
  BY DEF ReadsSetup, actorVars, ShellPlaces, Opening
<1>2. QueuesTypeOK /\ SaidTypeOK
  BY ShellTypeParts
<1>3. /\ Queue' = Tail(Queue) /\ Sealed' /\ Queue' \in Seq(Packets) /\ p = Queue[1]
      /\ Queue # <<>> /\ Head(Queue) = Queue[1]
      /\ spoken.exit => exitKnown \/ p.kind = "exit"
                        \/ \E i \in 1..Len(Queue') : Queue'[i].kind = "exit"
  BY <1>1, <1>2, TakesNext
<1>4. p \in Packets /\ Queue \in Seq(Packets) /\ early \in Seq(Packets) /\ QueuesTypeOK'
  <2>1. /\ p \in Packets /\ Queue \in Seq(Packets) /\ early \in Seq(Packets)
        /\ Tail(inbox) \in Seq(Packets) /\ Len(Tail(inbox)) <= ChannelRoom
    BY <1>1, <1>2, QueueIs DEF QueuesTypeOK
  <2>2. Append(early, p) \in Seq(Packets)
    BY <2>1
  <2> HIDE DEF p
  <2> QED
    BY <1>1, <1>2, <2>1, <2>2 DEF QueuesTypeOK
<1>5. PICK k \in emitted..spoken.data : Carries(early, emitted, k) /\ Carries(Queue, k, spoken.data)
  BY <1>1 DEF ShellOutput
<1>6. emitted \in Nat /\ spoken.data \in Nat /\ k \in Nat /\ emitted <= k /\ k <= spoken.data
  BY <1>2, <1>5, ShellAssumption DEF SaidTypeOK
<1>7. \E l \in emitted..spoken.data : Carries(early', emitted, l) /\ Carries(Queue', l, spoken.data)
  <2>1. CASE IsData(p)
    <3>1. p.number = k + 1 /\ k + 1 <= spoken.data /\ Carries(Queue', k + 1, spoken.data)
      BY <1>3, <1>4, <1>5, <1>6, <2>1, CarriesTail
    <3>2. Carries(Append(early, p), emitted, k + 1)
      BY <1>4, <1>5, <1>6, <2>1, <3>1, CarriesMore
    <3>3. k + 1 \in emitted..spoken.data /\ early' = Append(early, p)
      BY <1>1, <1>6, <2>1, <3>1 DEF IsData
    <3> QED
      BY <3>1, <3>2, <3>3
  <2>2. CASE ~IsData(p)
    <3>1. Carries(Queue', k, spoken.data)
      BY <1>3, <1>4, <1>5, <1>6, <2>2, CarriesTail
    <3> QED
      BY <1>1, <1>5, <2>2, <3>1 DEF IsData
  <2> QED
    BY <2>1, <2>2
<1>8. \A i \in 1..Len(early') : IsData(early'[i])
  <2>1. \A i \in 1..Len(early) : IsData(early[i])
    BY <1>1 DEF ShellOutput
  <2>2. CASE p.kind = "data"
    <3>1. /\ Len(early') = Len(early) + 1 /\ early'[Len(early) + 1] = p /\ Len(early) \in Nat
          /\ \A i \in 1..Len(early) : early'[i] = early[i]
      BY <1>1, <1>4, <2>2
    <3>2. \A i \in 1..Len(early') : i \in 1..Len(early) \/ i = Len(early) + 1
      BY <3>1
    <3> QED
      BY <2>1, <2>2, <3>1, <3>2 DEF IsData
  <2>3. CASE p.kind # "data"
    BY <1>1, <2>1, <2>3
  <2> QED
    BY <2>2, <2>3
<1>9. spoken'.exit => ExitIsThere'
  BY <1>1, <1>3 DEF ExitIsThere
<1> QED
  BY <1>1, <1>3, <1>4, <1>7, <1>8, <1>9 DEF ShellOutput, IsData

\* The output, and the types of what carries it.
LEMMA OutputStays ==
    ASSUME ShellInductive, [ShellNext]_shellVars
    PROVE  QueuesTypeOK' /\ SaidTypeOK' /\ ShellOutput'
<1>1. QueuesTypeOK /\ SaidTypeOK /\ FlagsTypeOK /\ ShellTypeOK /\ ShellPlaces /\ ShellOutput
  BY ShellTypeParts DEF ShellInductive
<1>2. CASE UNCHANGED outputVars
  <2>1. Queue' = Queue
    BY <1>2 DEF outputVars, Queue
  <2> QED
    BY <1>1, <1>2, <2>1
       DEF outputVars, QueuesTypeOK, SaidTypeOK, ShellOutput, Sealed, ExitIsThere, IsData
<1>3. ASSUME NEW p \in Packets, Says(p) PROVE QueuesTypeOK' /\ SaidTypeOK' /\ ShellOutput'
  <2>1. QueuesTypeOK' /\ SaidTypeOK'
    BY <1>1, <1>3, SaysTypes DEF Says
  <2>2. CASE reads
    BY <1>1, <1>3, <2>1, <2>2, SaysOutput
  <2>3. CASE ~reads
    BY <1>3, <2>1, <2>3 DEF Says, ShellOutput, readerVars
  <2> QED
    BY <2>2, <2>3
<1>4. CASE ActorDelivers
  BY <1>1, <1>4, DeliversOutput DEF ActorDelivers, SaidTypeOK
<1>5. CASE Reading
  <2>1. spoken' = spoken
    BY <1>5 DEF Reading, NextOutput, actorVars
  <2> QED
    BY <1>1, <1>5, <2>1, ReadsAny DEF SaidTypeOK
<1>6. CASE ReadsSetup
  BY <1>1, <1>6, SetupKeepsOutput DEF ReadsSetup, actorVars, SaidTypeOK
<1>7. CASE Dropped
  <2>1. ShellOutput'
    BY <1>7 DEF Dropped, ShellOutput
  <2>2. Silence \in [data : 0..ShellData, exit : BOOLEAN, eof : BOOLEAN, close : BOOLEAN,
                     success : BOOLEAN]
    BY ShellAssumption DEF Silence
  <2>3. SaidTypeOK'
    BY <1>1, <1>7, <2>2, ShellAssumption DEF Dropped, SaidTypeOK
  <2>4. <<>> \in Seq(Packets) /\ Len(<<>>) <= 1 /\ Len(<<>>) <= ChannelRoom
    BY ShellAssumption
  <2>5. QueuesTypeOK'
    BY <1>1, <1>7, <2>4 DEF Dropped, QueuesTypeOK
  <2> QED
    BY <2>1, <2>3, <2>5
<1>8. CASE OpensShell
  <2>1. /\ hand' = <<>> /\ inbox' = <<>> /\ early' = <<>> /\ spoken' = Silence /\ emitted' = 0
        /\ eofKnown' = FALSE
    BY <1>8 DEF OpensShell
  <2>2. /\ Silence \in [data : 0..ShellData, exit : BOOLEAN, eof : BOOLEAN, close : BOOLEAN,
                        success : BOOLEAN]
        /\ Silence.data = 0 /\ ~Silence.exit
    BY ShellAssumption DEF Silence
  <2>3. QueuesTypeOK' /\ SaidTypeOK'
    BY <2>1, <2>2, ShellAssumption DEF QueuesTypeOK, SaidTypeOK
  <2>4. Queue' = <<>> /\ \A i \in 1..Len(<<>>) : FALSE
    BY <2>1 DEF Queue
  <2>5. Carries(<<>>, 0, 0) /\ 0 \in 0..0
    BY CarriesNothing
  <2> QED
    BY <2>1, <2>2, <2>3, <2>4, <2>5 DEF ShellOutput, Sealed, IsData
<1> QED
  BY <1>2, <1>3, <1>4, <1>5, <1>6, <1>7, <1>8, OutputCases

\* Places.
LEMMA ShellPlacesStay ==
    ASSUME ShellInductive, [ShellNext]_shellVars
    PROVE  ShellPlaces'
<1> USE DEF ShellInductive, ShellPlaces, Does, Then, Ends, Operating, Opening, actorVars, readerVars
<1>1. CASE ServerSpeaks
  BY <1>1, SpeaksIs, ShellTypeParts DEF Says
<1>2. CASE ServerGrants \/ ActorDelivers \/ ActorSends \/ ActorEnds \/ ResizeTerminal \/ CloseShell
  BY <1>2 DEF ServerGrants, ActorDelivers, ActorSends, ActorEnds, ResizeTerminal, CloseShell
<1>3. CASE ReadsOutput \/ OperationReads
  <2>1. Reading
    BY <1>3 DEF ReadsOutput, OperationReads, Reading
  <2>2. reads' = reads /\ reads /\ shell' = shell
    BY <2>1 DEF Reading, NextOutput
  <2> QED
    BY <2>1, <2>2, ReadsAny DEF Reading, Goes, EndsWell
<1>4. CASE StartsInput \/ StartsResize \/ SeesClose \/ OperationCloses \/ NoLonger
  BY <1>4 DEF StartsInput, StartsResize, SeesClose, OperationCloses, NoLonger
<1>5. CASE OperationProceeds
  BY <1>5 DEF OperationProceeds
<1>6. CASE DropsReader \/ SendsEof \/ Decides
  BY <1>6 DEF DropsReader, SendsEof, Decides, ReaderIsDropped
<1>7. CASE OpensShell
  BY <1>7 DEF OpensShell
<1>8. CASE ReadsSetup
  BY <1>8 DEF ReadsSetup
<1>9. CASE WritesStartup
  BY <1>9 DEF WritesStartup, StartupReady
<1>10. CASE SetupEnds \/ UsesShell
  BY <1>10 DEF SetupEnds, UsesShell, SetupFails, ReaderIsDropped
<1>11. CASE UNCHANGED shellVars
  BY <1>11 DEF shellVars
<1> QED
  BY <1>1, <1>2, <1>3, <1>4, <1>5, <1>6, <1>7, <1>8, <1>9, <1>10, <1>11, ShellCases

\* How a shell has ended.
LEMMA ShellEndStays ==
    ASSUME ShellInductive, [ShellNext]_shellVars
    PROVE  ShellEnd'
<1> USE DEF ShellInductive, ShellEnd, Does, Then, Ends, Operating, Opening, actorVars, readerVars
<1>1. CASE ServerSpeaks
  BY <1>1, SpeaksIs, ShellTypeParts DEF Says
<1>2. CASE ServerGrants \/ ActorDelivers \/ ActorSends \/ ActorEnds \/ ResizeTerminal \/ CloseShell
  BY <1>2 DEF ServerGrants, ActorDelivers, ActorSends, ActorEnds, ResizeTerminal, CloseShell
<1>3. CASE ReadsOutput \/ OperationReads
  <2>1. Reading
    BY <1>3 DEF ReadsOutput, OperationReads, Reading
  <2> QED
    BY <2>1, ReadsAny DEF Reading, Goes, EndsWell
<1>4. CASE StartsInput \/ StartsResize \/ SeesClose \/ OperationCloses \/ NoLonger
  BY <1>4 DEF StartsInput, StartsResize, SeesClose, OperationCloses, NoLonger
<1>5. CASE OperationProceeds
  BY <1>5 DEF OperationProceeds
<1>6. CASE DropsReader \/ SendsEof \/ Decides \/ OpensShell
  BY <1>6 DEF DropsReader, SendsEof, Decides, OpensShell
<1>7. CASE ReadsSetup
  BY <1>7 DEF ReadsSetup
<1>8. CASE WritesStartup
  BY <1>8 DEF WritesStartup, StartupReady
<1>9. CASE SetupEnds \/ UsesShell
  BY <1>9 DEF SetupEnds, UsesShell, SetupFails
<1>10. CASE UNCHANGED shellVars
  BY <1>10 DEF shellVars
<1> QED
  BY <1>1, <1>2, <1>3, <1>4, <1>5, <1>6, <1>7, <1>8, <1>9, <1>10, ShellCases

-----------------------------------------------------------------------------
\* The size the server learns.

LEMMA LearnsIs ==
    ASSUME NEW s \in Seq(ActorRequests), NEW known, NEW n
    PROVE  Learns(s, known, n) <=>
              \/ known = n /\ \A i \in 1..Len(s) : s[i].kind # "size"
              \/ \E i \in 1..Len(s) : /\ s[i].kind = "size" /\ s[i].size = n
                                      /\ \A j \in 1..Len(s) : s[j].kind = "size" => j <= i
<1> DEFINE sizes == {i \in DOMAIN s : s[i].kind = "size"}
<1>1. \A i : i \in sizes <=> i \in 1..Len(s) /\ s[i].kind = "size"
  OBVIOUS
<1>2. Learns(s, known, n) <=>
         \/ sizes = {} /\ known = n
         \/ \E i \in sizes : s[i].size = n /\ \A j \in sizes : j <= i
  BY DEF Learns
<1> HIDE DEF sizes
<1> QED
  BY <1>1, <1>2

\* A new request, and the arrival of the next one.
LEMMA LearnsNew ==
    ASSUME NEW s \in Seq(ActorRequests), NEW r \in ActorRequests, NEW known, NEW n
    PROVE  /\ r.kind = "size" => Learns(Append(s, r), known, r.size)
           /\ r.kind # "size" /\ Learns(s, known, n) => Learns(Append(s, r), known, n)
<1> DEFINE t == Append(s, r)
<1>1. /\ t \in Seq(ActorRequests) /\ Len(t) = Len(s) + 1 /\ t[Len(s) + 1] = r /\ Len(s) \in Nat
      /\ \A i \in 1..Len(s) : t[i] = s[i]
  OBVIOUS
<1> HIDE DEF t
<1>2. \A i \in 1..Len(t) : i \in 1..Len(s) \/ i = Len(s) + 1
  BY <1>1
<1>3. ASSUME r.kind = "size" PROVE Learns(t, known, r.size)
  <2>1. Len(t) \in 1..Len(t) /\ t[Len(t)] = r /\ \A j \in 1..Len(t) : j <= Len(t)
    BY <1>1
  <2> QED
    BY <1>1, <1>3, <2>1, LearnsIs
<1>4. ASSUME r.kind # "size", Learns(s, known, n) PROVE Learns(t, known, n)
  <2>1. CASE known = n /\ \A i \in 1..Len(s) : s[i].kind # "size"
    <3>1. \A i \in 1..Len(t) : t[i].kind # "size"
      BY <1>1, <1>2, <1>4, <2>1
    <3> QED
      BY <1>1, <2>1, <3>1, LearnsIs
  <2>2. ASSUME NEW i \in 1..Len(s), s[i].kind = "size", s[i].size = n,
               \A j \in 1..Len(s) : s[j].kind = "size" => j <= i
        PROVE  Learns(t, known, n)
    <3>1. i \in 1..Len(t) /\ t[i] = s[i]
      BY <1>1
    <3>2. \A j \in 1..Len(t) : t[j].kind = "size" => j <= i
      BY <1>1, <1>2, <1>4, <2>2
    <3> QED
      BY <1>1, <2>2, <3>1, <3>2, LearnsIs
  <2> QED
    BY <1>4, <2>1, <2>2, LearnsIs
<1> QED
  BY <1>3, <1>4 DEF t

LEMMA LearnsNext ==
    ASSUME NEW s \in Seq(ActorRequests), s # <<>>, NEW known, NEW n, Learns(s, known, n)
    PROVE  Learns(Tail(s), IF Head(s).kind = "size" THEN Head(s).size ELSE known, n)
<1> DEFINE t == Tail(s)
           now == IF Head(s).kind = "size" THEN Head(s).size ELSE known
<1>1. /\ t \in Seq(ActorRequests) /\ Len(t) = Len(s) - 1 /\ Len(s) \in Nat \ {0} /\ Head(s) = s[1]
      /\ \A i \in 1..Len(t) : i + 1 \in 1..Len(s) /\ t[i] = s[i + 1]
  OBVIOUS
<1>2. now = IF s[1].kind = "size" THEN s[1].size ELSE known
  BY <1>1
<1> HIDE DEF t, now
<1>3. CASE known = n /\ \A i \in 1..Len(s) : s[i].kind # "size"
  <2>1. 1 \in 1..Len(s) /\ now = n /\ \A i \in 1..Len(t) : t[i].kind # "size"
    BY <1>1, <1>2, <1>3
  <2> QED
    BY <1>1, <2>1, LearnsIs DEF t, now
<1>4. ASSUME NEW i \in 1..Len(s), s[i].kind = "size", s[i].size = n,
             \A j \in 1..Len(s) : s[j].kind = "size" => j <= i
      PROVE  Learns(t, now, n)
  <2>1. \A j \in 1..Len(t) : t[j].kind = "size" => j <= i - 1
    <3> SUFFICES ASSUME NEW j \in 1..Len(t), t[j].kind = "size" PROVE j <= i - 1
      OBVIOUS
    <3>1. j + 1 \in 1..Len(s) /\ s[j + 1].kind = "size"
      BY <1>1
    <3>2. j + 1 <= i
      BY <1>4, <3>1
    <3> QED
      BY <3>2
  <2>2. CASE i = 1
    <3>1. \A j \in 1..Len(t) : t[j].kind # "size"
      BY <1>1, <2>1, <2>2
    <3> QED
      BY <1>1, <1>2, <1>4, <2>2, <3>1, LearnsIs
  <2>3. CASE i # 1
    <3>1. i - 1 \in 1..Len(t) /\ (i - 1) + 1 = i
      BY <1>1, <2>3
    <3>2. t[i - 1] = s[i]
      BY <1>1, <3>1
    <3> QED
      BY <1>1, <1>4, <2>1, <3>1, <3>2, LearnsIs
  <2> QED
    BY <2>2, <2>3
<1> QED
  BY <1>3, <1>4, LearnsIs DEF t, now

\* The requests on their way, within the room there is.
Asks(r) == HasRoom /\ outbox' = Append(outbox, r) /\ remoteSize' = remoteSize

LEMMA OutboxTypesStay ==
    ASSUME ShellInductive, [ShellNext]_shellVars
    PROVE  OutboxTypeOK'
<1> USE DEF Does
<1>1. OutboxTypeOK /\ operation \in ActorRequests /\ size \in 1..MaxSize
  BY ShellTypeParts DEF ShellInductive, TaskTypeOK
<1>2. CASE outbox' = outbox /\ remoteSize' = remoteSize
  BY <1>1, <1>2 DEF OutboxTypeOK
<1>3. ASSUME NEW r \in ActorRequests, Asks(r) PROVE OutboxTypeOK'
  BY <1>1, <1>3, ShellAssumption DEF OutboxTypeOK, Asks, HasRoom
<1>4. CASE outbox' = <<>> /\ remoteSize' \in {remoteSize, 0}
  BY <1>1, <1>4, ShellAssumption DEF OutboxTypeOK
<1>5. CASE OpensShell
  <2>1. outbox' = <<Request("size", size)>> /\ remoteSize' = 0 /\ Request("size", size) \in ActorRequests
    BY <1>1, <1>5, PacketsAre DEF OpensShell
  <2> HIDE DEF Request
  <2> QED
    BY <2>1, ShellAssumption DEF OutboxTypeOK
<1>6. CASE ActorSends
  <2>1. outbox # <<>> /\ outbox' = Tail(outbox) /\ remoteSize' \in {Head(outbox).size, remoteSize}
    BY <1>6 DEF ActorSends
  <2>2. Head(outbox) \in ActorRequests /\ Tail(outbox) \in Seq(ActorRequests)
        /\ Len(Tail(outbox)) = Len(outbox) - 1 /\ Len(outbox) \in Nat
    BY <1>1, <2>1 DEF OutboxTypeOK
  <2>3. Head(outbox).size \in 0..MaxSize
    BY <2>2 DEF ActorRequests
  <2> QED
    BY <1>1, <2>1, <2>2, <2>3, ShellAssumption DEF OutboxTypeOK
<1>7. CASE OperationProceeds \/ SendsEof \/ WritesStartup
  BY <1>1, <1>2, <1>3, <1>7, PacketsAre DEF OperationProceeds, SendsEof, WritesStartup, Asks,
     OperationReady, StartupReady
<1>8. CASE ActorEnds \/ Decides \/ SetupEnds
  BY <1>4, <1>8 DEF ActorEnds, Decides, SetupEnds, SetupFails, ConnectionIsEnded
<1>9. CASE UsesShell
  BY <1>2, <1>4, <1>9 DEF UsesShell, SetupFails, ConnectionIsEnded, actorVars
<1>10. CASE ServerSpeaks
  BY <1>2, <1>10 DEF ServerSpeaks, Hands
<1>11. CASE ServerGrants \/ ActorDelivers \/ ResizeTerminal \/ CloseShell \/ StartsInput
  BY <1>2, <1>11 DEF ServerGrants, ActorDelivers, ResizeTerminal, CloseShell, StartsInput, actorVars
<1>12. CASE ReadsOutput \/ OperationReads \/ StartsResize \/ SeesClose \/ OperationCloses
  BY <1>2, <1>12 DEF ReadsOutput, OperationReads, NextOutput, StartsResize, SeesClose,
     OperationCloses, actorVars
<1>13. CASE DropsReader \/ ReadsSetup \/ NoLonger \/ UNCHANGED shellVars
  BY <1>2, <1>13 DEF DropsReader, ReadsSetup, NoLonger, shellVars, actorVars
<1> QED
  BY <1>5, <1>6, <1>7, <1>8, <1>9, <1>10, <1>11, <1>12, <1>13, ShellCases

\* The sizes.
LEMMA ShellSizesStay ==
    ASSUME ShellInductive, [ShellNext]_shellVars
    PROVE  ShellSizes'
<1> USE DEF Does, Then, Ends, GoesOn, Operating, Opening, actorVars, readerVars, sizeVars, ShellSizes
<1>1. OutboxTypeOK /\ operation \in ActorRequests /\ size \in 1..MaxSize /\ ShellSizes
      /\ unseen \in BOOLEAN /\ up \in BOOLEAN
  BY ShellTypeParts DEF ShellInductive, TaskTypeOK, FlagsTypeOK
<1>2. CASE ServerSpeaks
  BY <1>1, <1>2, SpeaksIs, ShellTypeParts DEF Says, ShellInductive
<1>3. CASE ServerGrants \/ ActorDelivers \/ ActorEnds \/ ResizeTerminal \/ CloseShell
  BY <1>1, <1>3 DEF ServerGrants, ActorDelivers, ActorEnds, ResizeTerminal, CloseShell
<1>4. CASE ActorSends
  <2>1. /\ UNCHANGED <<shellStep, operation, unseen, size, up, spoken>>
        /\ outbox # <<>> /\ outbox' = Tail(outbox)
        /\ remoteSize' = IF Head(outbox).kind = "size" /\ ~spoken.close THEN Head(outbox).size
                                                                        ELSE remoteSize
    BY <1>4 DEF ActorSends
  <2>2. ~spoken.close /\ Learns(outbox, remoteSize, size) => Learns(outbox', remoteSize', size)
    BY <1>1, <2>1, LearnsNext DEF OutboxTypeOK
  <2> QED
    BY <1>1, <2>1, <2>2
<1>5. CASE StartsInput \/ StartsResize \/ SeesClose \/ OperationCloses \/ NoLonger
  BY <1>1, <1>5 DEF StartsInput, StartsResize, SeesClose, OperationCloses, NoLonger, Request
<1>6. CASE ReadsOutput \/ OperationReads
  <2>1. Reading
    BY <1>6 DEF ReadsOutput, OperationReads, Reading, ShellInductive
  <2>2. UNCHANGED <<operation, unseen, size, up, spoken, outbox, remoteSize>>
    BY <2>1 DEF Reading, NextOutput
  <2> QED
    BY <1>1, <2>1, <2>2, ReadsAny DEF Goes, EndsWell
<1>7. CASE OperationProceeds
  <2>1. UNCHANGED <<unseen, size, up, spoken, remoteSize>> /\ shellStep \in Operating
    BY <1>7 DEF OperationProceeds
  <2>2. CASE shellStep = "window" /\ Then("room") /\ UNCHANGED <<operation, outbox>>
    BY <1>1, <2>1, <2>2
  <2>3. CASE shellStep = "room" /\ Ends("lost") /\ UNCHANGED operation
    BY <1>1, <2>1, <2>3
  <2>4. CASE /\ shellStep = "room" /\ outbox' = Append(outbox, operation)
             /\ \/ Then("select") /\ operation' = NoRequest
                \/ operation.kind = "input" /\ Then("window") /\ UNCHANGED operation
    <3>1. /\ operation.kind = "size" => Learns(outbox', remoteSize', operation.size)
          /\ operation.kind # "size" /\ Learns(outbox, remoteSize, size) => Learns(outbox', remoteSize', size)
      BY <1>1, <2>1, <2>4, LearnsNew DEF OutboxTypeOK
    <3> QED
      BY <1>1, <2>1, <2>4, <3>1
  <2> QED
    BY <1>7, <2>2, <2>3, <2>4 DEF OperationProceeds
<1>8. CASE DropsReader \/ SendsEof \/ Decides \/ SetupEnds
  BY <1>1, <1>8 DEF DropsReader, SendsEof, Decides, SetupEnds, SetupFails
<1>9. CASE OpensShell
  <2>1. /\ outbox' = Append(<<>>, Request("size", size)) /\ shellStep' = "accept" /\ size' = size
    BY <1>9 DEF OpensShell
  <2>2. Learns(outbox', remoteSize', size)
    <3>1. <<>> \in Seq(ActorRequests) /\ Request("size", size) \in ActorRequests
          /\ Request("size", size).kind = "size" /\ Request("size", size).size = size
      BY <1>1, PacketsAre DEF Request
    <3> HIDE DEF Request
    <3> QED
      BY <2>1, <3>1, LearnsNew
  <2> QED
    BY <2>1, <2>2
<1>10. CASE ReadsSetup
  BY <1>1, <1>10 DEF ReadsSetup
<1>11. CASE WritesStartup
  <2>1. UNCHANGED <<unseen, size, up, spoken, remoteSize, operation>>
    BY <1>11 DEF WritesStartup
  <2>2. shellStep \in Opening /\ shellStep' \in {"startup", "deliver", "opened"}
    BY <1>11 DEF WritesStartup, StartupReady
  <2>3. Learns(outbox, remoteSize, size) => Learns(outbox', remoteSize', size)
    <3>1. outbox' = outbox \/ outbox' = Append(outbox, Request("input", 0))
      BY <1>11 DEF WritesStartup
    <3>2. Request("input", 0) \in ActorRequests /\ Request("input", 0).kind # "size"
      BY PacketsAre DEF Request
    <3> HIDE DEF Request
    <3> QED
      BY <1>1, <2>1, <3>1, <3>2, LearnsNew DEF OutboxTypeOK
  <2> QED
    BY <1>1, <2>1, <2>2, <2>3
<1>12. CASE UsesShell
  BY <1>1, <1>12 DEF UsesShell, SetupFails, BecomesCurrent
<1>13. CASE UNCHANGED shellVars
  BY <1>1, <1>13 DEF shellVars
<1> QED
  BY <1>2, <1>3, <1>4, <1>5, <1>6, <1>7, <1>8, <1>9, <1>10, <1>11, <1>12, <1>13, ShellCases

-----------------------------------------------------------------------------
\* The first shell.
LEMMA ShellStarts == ShellInit => ShellInductive
<1> SUFFICES ASSUME ShellInit PROVE ShellInductive
  OBVIOUS
<1>1. PICK n \in {0, 1} : /\ spoken = [Silence EXCEPT !.data = n, !.success = TRUE]
                          /\ early = IF n = 0 THEN <<>> ELSE <<Packet("data", 1)>>
  BY DEF ShellInit
<1>2. /\ spoken \in [data : 0..ShellData, exit : BOOLEAN, eof : BOOLEAN, close : BOOLEAN,
                     success : BOOLEAN]
      /\ spoken.data = n /\ ~spoken.exit /\ ~spoken.close
  <2>1. spoken = [data |-> n, exit |-> FALSE, eof |-> FALSE, close |-> FALSE, success |-> TRUE]
    BY <1>1 DEF Silence
  <2>2. n \in 0..ShellData
    BY ShellAssumption
  <2> QED
    BY <2>1, <2>2
<1>3. early \in Seq(Packets) /\ Carries(early, 0, n) /\ \A i \in 1..Len(early) : IsData(early[i])
  <2>1. CASE n = 0
    <3>1. early = <<>> /\ Carries(<<>>, 0, 0)
      BY <1>1, <2>1, CarriesNothing
    <3> QED
      BY <2>1, <3>1
  <2>2. CASE n = 1
    <3>1. Packet("data", 1) \in Packets /\ IsData(Packet("data", 1)) /\ Packet("data", 1).number = 1
      BY ShellAssumption, PacketsAre DEF Packet, IsData
    <3>2. Carries(<<>>, 0, 0) /\ <<>> \in Seq(Packets)
      BY CarriesNothing
    <3>3. ASSUME NEW p \in Packets, IsData(p), p.number = 0 + 1 PROVE Carries(Append(<<>>, p), 0, 0 + 1)
      <4>1. 0 \in Nat /\ 0 <= 0
        OBVIOUS
      <4> QED
        BY ONLY <3>2, <3>3, <4>1, CarriesMore
    <3>4. Append(<<>>, Packet("data", 1)) = early /\ early \in Seq(Packets)
      BY <1>1, <2>2, <3>1
    <3>5. Carries(early, 0, 0 + 1)
      BY <3>1, <3>3, <3>4
    <3>6. Len(early) = 1 /\ early[1] = Packet("data", 1) /\ 0 + 1 = n
      BY <1>1, <2>2
    <3> QED
      BY <3>1, <3>4, <3>5, <3>6
  <2> QED
    BY <2>1, <2>2
<1>4. ShellTypeOK
  <2>1. QueuesTypeOK
    BY <1>3, ShellAssumption DEF ShellInit, QueuesTypeOK
  <2>2. SaidTypeOK
    BY <1>2, ShellAssumption DEF ShellInit, SaidTypeOK
  <2>3. OutboxTypeOK
    <3>1. <<>> \in Seq(ActorRequests) /\ Len(<<>>) <= OutboxRoom /\ 1 \in 0..MaxSize
      BY ShellAssumption
    <3> QED
      BY <3>1 DEF ShellInit, OutboxTypeOK
  <2>4. FlagsTypeOK
    BY DEF ShellInit, FlagsTypeOK
  <2>5. TaskTypeOK
    <3>1. 1 \in 1..Shells /\ 0 \in 0..Shells /\ 1 \in 1..MaxSize /\ NoRequest \in ActorRequests
      BY ShellAssumption, PacketsAre
    <3> QED
      BY <3>1 DEF ShellInit, TaskTypeOK
  <2> QED
    BY <2>1, <2>2, <2>3, <2>4, <2>5, ShellTypeParts
<1>5. ShellPlaces /\ ShellEnd
  BY DEF ShellInit, ShellPlaces, ShellEnd, Does, Opening
<1>6. ShellOutput
  <2>1. Queue = <<>> /\ Carries(<<>>, n, n) /\ n \in 0..n /\ \A i \in 1..Len(<<>>) : FALSE
    BY <1>3, CarriesNothing DEF ShellInit, Queue
  <2> QED
    BY <1>2, <1>3, <2>1 DEF ShellInit, ShellOutput, Sealed
<1>7. ShellSizes
  <2>1. Learns(<<>>, 1, 1)
    <3>1. <<>> \in Seq(ActorRequests) /\ \A i \in 1..Len(<<>>) : FALSE
      OBVIOUS
    <3> QED
      BY <3>1, LearnsIs
  <2> QED
    BY <2>1 DEF ShellInit, ShellSizes, Opening
<1> QED
  BY <1>4, <1>5, <1>6, <1>7 DEF ShellInductive

LEMMA ShellStays ==
    ASSUME ShellInductive, [ShellNext]_shellVars
    PROVE  ShellInductive'
<1>1. ShellTypeOK'
  <2>1. TaskTypeOK' /\ FlagsTypeOK' /\ QueuesTypeOK' /\ OutboxTypeOK' /\ SaidTypeOK'
    BY TaskTypesStay, FlagsTypesStay, OutputStays, OutboxTypesStay
  <2> QED
    BY <2>1 DEF ShellTypeOK, TaskTypeOK, FlagsTypeOK, QueuesTypeOK, OutboxTypeOK, SaidTypeOK
<1> QED
  BY <1>1, ShellPlacesStay, OutputStays, ShellEndStays, ShellSizesStay DEF ShellInductive

\* What is promised follows.
LEMMA ShellPromises ==
    ASSUME ShellInductive
    PROVE  ShellTypeOK /\ ShellReadWhole /\ SizeIsCurrent
<1>1. /\ QueuesTypeOK /\ SaidTypeOK /\ ShellTypeOK /\ ShellPlaces /\ ShellOutput /\ ShellEnd
      /\ ShellSizes
  BY ShellTypeParts DEF ShellInductive
<1>2. ASSUME reads PROVE Carries(early \o inbox \o hand, emitted, spoken.data)
  <2>1. PICK k \in emitted..spoken.data : Carries(early, emitted, k) /\ Carries(Queue, k, spoken.data)
    BY <1>1, <1>2 DEF ShellOutput
  <2>2. emitted \in Nat /\ spoken.data \in Nat /\ k \in Nat /\ emitted <= k /\ k <= spoken.data
    BY <1>1, <2>1, ShellAssumption DEF SaidTypeOK
  <2>3. early \in Seq(Packets) /\ Queue \in Seq(Packets)
    BY <1>1, QueueIs DEF QueuesTypeOK
  <2>4. early \o inbox \o hand = early \o Queue
    <3>1. early \in Seq(Packets) /\ inbox \in Seq(Packets) /\ hand \in Seq(Packets)
      BY <1>1 DEF QueuesTypeOK
    <3>2. (early \o inbox) \o hand = early \o (inbox \o hand)
      BY <3>1, ConcatAssociative, Z3
    <3> QED
      BY <3>2 DEF Queue
  <2> QED
    BY <2>1, <2>2, <2>3, <2>4, CarriesBoth
<1>3. Does("retire") => /\ ended = "closed" /\ ~leaving => emitted = spoken.data
                        /\ ended = "lost" /\ spoken.exit => ~up
  BY <1>1 DEF ShellEnd
<1>4. SizeIsCurrent
  BY <1>1 DEF ShellSizes, SizeIsCurrent
<1> QED
  BY <1>1, <1>2, <1>3, <1>4 DEF ShellReadWhole, ShellPlaces

LEMMA ShellSteps == ShellSpec => []ShellInductive
<1>1. ShellInductive /\ [ShellNext]_shellVars => ShellInductive'
  BY ShellStays
<1> QED
  BY <1>1, ShellStarts, PTL DEF ShellSpec

\* However often a shell is lost, whatever the server says and wherever the task waits: what
\* was passed on and what is still to be read is all that was said, in its order, and an end
\* is told as what it was.
THEOREM ShellsAreReadWhole == ShellSpec => []OutputReadWhole
<1>1. ShellInductive => OutputReadWhole
  BY ShellPromises DEF OutputReadWhole
<1> QED
  BY <1>1, ShellSteps, PTL

\* A size that is no longer marked as unseen is one the server has or will have, through
\* any number of changes, losses and openings of the shell.
THEOREM SizesReachTheServer == ShellSpec => []SizeIsCurrent
<1>1. ShellInductive => SizeIsCurrent
  BY ShellPromises
<1> QED
  BY <1>1, ShellSteps, PTL
=============================================================================
