-------------------------- MODULE SshSessionProofs --------------------------
(***************************************************************************)
(* The safety properties of SshSession, and that it implements             *)
(* SshCommandContract, for every set of calls, queue capacity, worker      *)
(* limit and number of connections.                                        *)
(*                                                                         *)
(* Inductive is proved one conjunct at a time, each from the conjuncts it  *)
(* needs.  The steps of the specification fall into three classes: those   *)
(* that leave the calls and the jobs alone, those that only cancel jobs,   *)
(* and those that move one call.                                           *)
(***************************************************************************)
EXTENDS SshSession, FiniteSetTheorems, TLAPS

-----------------------------------------------------------------------------
\* The channel.

\* What recv() takes from a channel that is not empty.
LEMMA TakeHead ==
    ASSUME NEW S, NEW s \in Seq(S), s # <<>>
    PROVE  /\ Len(s) \in Nat \ {0}
           /\ Head(s) = s[1] /\ s[1] \in S
           /\ Tail(s) \in Seq(S)
           /\ Len(Tail(s)) = Len(s) - 1
           /\ \A i \in 1..Len(Tail(s)) : Tail(s)[i] = s[i + 1]
OBVIOUS

\* What permit.send puts into it.
LEMMA PutLast ==
    ASSUME NEW S, NEW s \in Seq(S), NEW e \in S
    PROVE  /\ Append(s, e) \in Seq(S)
           /\ Len(Append(s, e)) = Len(s) + 1
           /\ \A i \in 1..Len(s) : Append(s, e)[i] = s[i]
           /\ Append(s, e)[Len(s) + 1] = e
OBVIOUS

-----------------------------------------------------------------------------
\* The classes of steps.

SessionMove ==
    \/ Connect \/ ConnectFails \/ ShellStops \/ ShellSeesClose \/ CloseQueue
    \/ Drained \/ ShellRetired \/ Joined \/ Decide \/ ReconnectEnds \/ Reopen \/ Remove \/ Report

ExitMove == CloseSignal \/ Quit \/ QuitSignal \/ QuitReturns

CancelMove ==
    \/ SweepTransfers \/ SweepTunnels
    \/ CloseSweepTransfers \/ CloseSweepTunnels
    \/ QuitSweepTransfers \/ QuitSweepTunnels
    \/ \E c \in Calls : CancelJob(c)

Outside(c) ==
    Issue(c) \/ BindFails(c) \/ Reserve(c) \/ TakeSlot(c) \/ Register(c) \/ Send(c)

Ends(c) ==
    \/ WriteEnds(c) \/ WriteSeesClose(c)
    \/ OperationSettles(c) \/ JobSettles(c) \/ JobFinishes(c)

\* The session task takes c out of the channel: to start it, or to reject it.
Takes(c) ==
    /\ queue # <<>>
    /\ c = Head(queue)
    /\ queue' = Tail(queue)
    /\ UNCHANGED exitVars
    /\ \/ stage = "shell" /\ (ReceiveClosing(c) \/ ReceiveBusy(c) \/ ReceiveStart(c))
       \/ stage = "drain" /\ Reject(c) /\ UNCHANGED sessionVars

LEMMA TakenIsCall ==
    ASSUME TypeOK, NEW c, Takes(c)
    PROVE  c \in Calls /\ queue' \in Seq(Calls)
<1>1. queue \in Seq(Calls) /\ queue # <<>> /\ c = Head(queue) /\ queue' = Tail(queue)
    BY DEF TypeOK, Takes
<1> QED
    BY <1>1, TakeHead

LEMMA NextCases ==
    ASSUME TypeOK, [Next]_vars
    PROVE  \/ UNCHANGED vars
           \/ SessionMove \/ ExitMove \/ CancelMove
           \/ \E c \in Calls : Outside(c) \/ Ends(c) \/ Takes(c)
<1>1. CASE Receive
    BY <1>1, TakenIsCall DEF Receive, Takes
<1>2. CASE Drain
    BY <1>2, TakenIsCall DEF Drain, Takes
<1> QED
    BY <1>1, <1>2 DEF Next, SessionStep, CallStep, WorkerStep, CloserStep, QuitStep, Terminated,
        SessionMove, ExitMove, CancelMove, Outside, Ends

\* Steps of the first class.
LEMMA SessionMoveFrame ==
    ASSUME SessionMove PROVE UNCHANGED <<jobVars, callVars, exitVars>>
BY DEF SessionMove, Connect, ConnectFails, ShellStops, ShellSeesClose, CloseQueue, Drained,
    ShellRetired, Joined, Decide, ReconnectEnds, Reopen, Remove, Report

LEMMA ExitMoveFrame ==
    ASSUME ExitMove PROVE UNCHANGED <<sessionVars, jobVars, callVars>>
BY DEF ExitMove, CloseSignal, Quit, QuitSignal, QuitReturns

\* Steps of the second.
LEMMA CancelMoveFrame ==
    ASSUME CancelMove
    PROVE  /\ \E jobs : Cancel(jobs)
           /\ UNCHANGED <<result, gen, open, registered, workers, callVars, close, shutdown>>
BY DEF CancelMove, SweepTransfers, SweepTunnels, CloseSweepTransfers, CloseSweepTunnels,
    QuitSweepTransfers, QuitSweepTunnels, CancelJob, Advance, sessionVars, exitVars

-----------------------------------------------------------------------------
\* Types.  Which places a call passes through depends on its kind, and that a
\* slot is only ever taken by a remote forward depends on its place.

LEMMA TypeInit == Init => TypeOK /\ PlacesAgree
<1> SUFFICES ASSUME Init PROVE TypeOK /\ PlacesAgree
    OBVIOUS
<1>1. queue \in Seq(Calls)
    BY DEF Init
<1>2. stage \in Stages
    BY DEF Init, Stages
<1>3. at \in [Calls -> Places] /\ \A c \in Calls : at[c] = "new"
    BY DEF Init, Places
<1>4. /\ of \in [Calls -> Nat] /\ ran \in [Calls -> Nat] /\ notices \in [Calls -> Nat]
      /\ \A c \in Calls : ran[c] = 0
    BY DEF Init
<1>5. TypeOK
    BY <1>1, <1>2, <1>3, <1>4 DEF Init, TypeOK
<1>6. PlacesAgree
    BY <1>3, <1>4 DEF PlacesAgree
<1> QED
    BY <1>5, <1>6

LEMMA PlacesStep ==
    ASSUME TypeOK, PlacesAgree, [Next]_vars PROVE PlacesAgree'
<1>1. CASE UNCHANGED <<at, ran>>
    BY <1>1 DEF PlacesAgree, Transfers, Tunnels, Remotes
<1> USE DEF TypeOK, PlacesAgree, Move, Transfers, Tunnels, Remotes
<1>2. ASSUME NEW c \in Calls, Outside(c) PROVE PlacesAgree'
    BY <1>2 DEF Outside, Issue, BindFails, Reserve, TakeSlot, Register, Send
<1>3. ASSUME NEW c \in Calls, Ends(c) PROVE PlacesAgree'
    BY <1>3 DEF Ends, WriteEnds, WriteSeesClose, OperationSettles, JobSettles, JobFinishes
<1>4. ASSUME NEW c \in Calls, Takes(c) PROVE PlacesAgree'
    BY <1>4 DEF Takes, ReceiveClosing, ReceiveBusy, ReceiveStart, Reject
<1> HIDE DEF TypeOK, PlacesAgree
<1> QED
    BY <1>1, <1>2, <1>3, <1>4, NextCases, SessionMoveFrame, ExitMoveFrame, CancelMoveFrame
    DEF vars, callVars

LEMMA TypeStep ==
    ASSUME TypeOK, PlacesAgree, [Next]_vars PROVE TypeOK'
<1> USE DEF sessionVars, jobVars, callVars, exitVars
<1>1. CASE UNCHANGED vars
    BY <1>1 DEF vars, TypeOK
<1>2. CASE SessionMove
  <2>1. /\ stage' \in Stages /\ result' \in {"none", "closed", "lost"} /\ gen' \in Nat
        /\ open' \in BOOLEAN /\ registered' \in BOOLEAN
    <3> USE DEF TypeOK, Stages, SweepStages, Advance, ShellEnds
    <3>1. CASE Connect
        <4>1. /\ stage' = "shell" /\ registered' = TRUE /\ open' = TRUE
              /\ gen' = 1 /\ result' = result
            BY <3>1 DEF Connect
        <4> QED
            BY <4>1
    <3>6. CASE ConnectFails
        BY <3>6 DEF ConnectFails
    <3>5. CASE ShellStops \/ ShellSeesClose
        BY <3>5 DEF ShellStops, ShellSeesClose
    <3>2. CASE CloseQueue \/ Drained \/ ShellRetired \/ Joined \/ Decide
        BY <3>2 DEF CloseQueue, Drained, ShellRetired, Joined, Decide
    <3>3. CASE ReconnectEnds \/ Remove \/ Report
        BY <3>3 DEF ReconnectEnds, Remove, Report
    <3>4. CASE Reopen
        <4>1. gen + 1 \in Nat
            OBVIOUS
        <4>2. registered' = registered /\ result' = result
            BY <3>4 DEF Reopen
        <4>3. /\ open' \in {open, TRUE} /\ gen' \in {gen, gen + 1}
              /\ stage' \in {"shell", "remove_transfers"}
            BY <3>4 DEF Reopen
        <4> QED
            BY <4>1, <4>2, <4>3
    <3> QED
        BY <1>2, <3>1, <3>2, <3>3, <3>4, <3>5, <3>6 DEF SessionMove
  <2>2. workers' \subseteq workers
      BY <1>2 DEF SessionMove, Connect, ConnectFails, ShellStops, ShellSeesClose, CloseQueue,
          Drained, ShellRetired, Joined, Decide, ReconnectEnds, Reopen, Remove, Report
  <2> QED
      BY <1>2, <2>1, <2>2, SessionMoveFrame DEF TypeOK
<1>3. CASE ExitMove
  <2>1. /\ close' \in BOOLEAN /\ shutdown' \in BOOLEAN
        /\ closer' \in {"idle", "transfers", "tunnels"}
        /\ quitter' \in {"idle", "transfers", "tunnels", "signal", "wait", "returned"}
      BY <1>3 DEF TypeOK, ExitMove, CloseSignal, Quit, QuitSignal, QuitReturns
  <2> QED
      BY <1>3, <2>1, ExitMoveFrame DEF TypeOK
<1>4. CASE CancelMove
  <2>1. /\ controls' \subseteq controls
        /\ cancelled' \subseteq cancelled \cup controls
        /\ slot' = slot
      BY <1>4, CancelMoveFrame DEF Cancel
  <2>2. /\ stage' \in Stages
        /\ closer' \in {"idle", "transfers", "tunnels"}
        /\ quitter' \in {"idle", "transfers", "tunnels", "signal", "wait", "returned"}
      BY <1>4 DEF CancelMove, TypeOK, Stages, SweepStages, SweepTransfers, SweepTunnels, Advance,
          CloseSweepTransfers, CloseSweepTunnels, QuitSweepTransfers, QuitSweepTunnels, CancelJob
  <2> QED
      BY <1>4, <2>1, <2>2, CancelMoveFrame DEF TypeOK
<1>5. ASSUME NEW c \in Calls, Outside(c) PROVE TypeOK'
  <2>1. /\ at' \in [Calls -> Places]
        /\ UNCHANGED <<sessionVars, ran, notices, cancelled, exitVars>>
    <3>1. \E place \in Places : Move(c, place)
        BY <1>5 DEF Outside, Issue, BindFails, Reserve, TakeSlot, Register, Send, Places
    <3>2. UNCHANGED <<sessionVars, ran, notices, cancelled, exitVars>>
        BY <1>5 DEF Outside, Issue, BindFails, Reserve, TakeSlot, Register, Send, FinishJob
    <3> QED
        BY <3>1, <3>2 DEF Move, TypeOK
  <2>4. of' \in [Calls -> Nat]
      BY <1>5 DEF TypeOK, Outside, Issue, BindFails, Reserve, TakeSlot, Register, Send
  <2>2. queue' \in Seq(Calls)
    <3>1. queue' = queue \/ queue' = Append(queue, c)
        BY <1>5 DEF Outside, Issue, BindFails, Reserve, TakeSlot, Register, Send
    <3>2. queue \in Seq(Calls)
        BY DEF TypeOK
    <3> QED
        BY <3>1, <3>2, PutLast
  <2>3. /\ controls' \subseteq Transfers \cup Tunnels
        /\ slot' \in Remotes \cup {NoCall}
    <3>1. CASE Register(c)
      <4>1. c \in Transfers \cup Tunnels
          BY <3>1 DEF Register, PlacesAgree, Transfers, Tunnels, Remotes
      <4>2. controls' \subseteq controls \cup {c} /\ slot' \in {slot, NoCall}
          BY <3>1 DEF Register, FinishJob
      <4> QED
          BY <4>1, <4>2 DEF TypeOK
    <3>2. CASE TakeSlot(c)
        BY <3>2 DEF TypeOK, TakeSlot, Remotes
    <3> QED
        BY <1>5, <3>1, <3>2 DEF TypeOK, Outside, Issue, BindFails, Reserve, Send
  <2> QED
      BY <2>1, <2>2, <2>3, <2>4 DEF TypeOK
<1>6. ASSUME NEW c \in Calls, Ends(c) PROVE TypeOK'
  <2>1. /\ at' \in [Calls -> Places]
        /\ UNCHANGED <<queue, of, ran, exitVars>>
      BY <1>6 DEF TypeOK, Ends, WriteEnds, WriteSeesClose, OperationSettles, JobSettles,
          JobFinishes, Move, Places
  <2>4. notices' \in [Calls -> Nat]
      BY <1>6 DEF TypeOK, Ends, WriteEnds, WriteSeesClose, OperationSettles, JobSettles,
          JobFinishes, Notify
  <2>2. /\ stage' \in Stages /\ result' \in {"none", "closed", "lost"}
        /\ UNCHANGED <<gen, open, registered, workers>>
      BY <1>6 DEF TypeOK, Ends, WriteEnds, WriteSeesClose, OperationSettles, JobSettles,
          JobFinishes, ShellEnds, Stages
  <2>3. controls' \subseteq controls /\ cancelled' = cancelled /\ slot' \in {slot, NoCall}
      BY <1>6 DEF Ends, WriteEnds, WriteSeesClose, OperationSettles, JobSettles, JobFinishes,
          FinishJob
  <2> QED
      BY <2>1, <2>2, <2>3, <2>4 DEF TypeOK
<1>7. ASSUME NEW c \in Calls, Takes(c) PROVE TypeOK'
  <2>1. at' \in [Calls -> Places] /\ UNCHANGED <<of, exitVars>>
      BY <1>7 DEF TypeOK, Takes, ReceiveClosing, ReceiveBusy, ReceiveStart, Reject, Move, Places
  <2>4. notices' \in [Calls -> Nat]
    <3>1. Notify(c) \/ notices' = notices
        BY <1>7 DEF Takes, ReceiveClosing, ReceiveBusy, ReceiveStart, Reject
    <3>2. notices[c] + (IF c \in Finite THEN 1 ELSE 0) \in Nat
        BY DEF TypeOK
    <3> QED
        BY <3>1, <3>2 DEF TypeOK, Notify
  <2>5. ran' \in [Calls -> Nat]
    <3>1. ran' = ran \/ ran' = [ran EXCEPT ![c] = gen]
        BY <1>7 DEF Takes, ReceiveClosing, ReceiveBusy, ReceiveStart, Reject
    <3> QED
        BY <3>1 DEF TypeOK
  <2>2. /\ stage' \in Stages /\ result' \in {"none", "closed", "lost"}
        /\ UNCHANGED <<gen, open, registered>>
      BY <1>7 DEF TypeOK, Takes, ReceiveClosing, ReceiveBusy, ReceiveStart, ShellEnds, Stages
  <2>3. controls' \subseteq controls /\ cancelled' = cancelled /\ slot' \in {slot, NoCall}
      BY <1>7 DEF Takes, ReceiveClosing, ReceiveBusy, ReceiveStart, Reject, FinishJob
  <2>6. workers' \subseteq Finite
      BY <1>7 DEF TypeOK, Takes, ReceiveClosing, ReceiveBusy, ReceiveStart, Reaped
  <2> QED
      BY <1>7, <2>1, <2>2, <2>3, <2>4, <2>5, <2>6, TakenIsCall DEF TypeOK
<1> QED
    BY <1>1, <1>2, <1>3, <1>4, <1>5, <1>6, <1>7, NextCases

\* Every variable keeps its type.
THEOREM TypeCorrect == Spec => []TypeOK
<1>1. Init => TypeOK /\ PlacesAgree
    BY TypeInit
<1>2. TypeOK /\ PlacesAgree /\ [Next]_vars => (TypeOK /\ PlacesAgree)'
    BY TypeStep, PlacesStep
<1> QED
    BY <1>1, <1>2, PTL DEF Spec

-----------------------------------------------------------------------------
\* The stages of the session task, and what is empty in them.

LEMMA StagesStep ==
    ASSUME TypeOK, StagesAgree, [Next]_vars PROVE StagesAgree'
<1>1. CASE UNCHANGED <<stage, open, registered>>
    BY <1>1 DEF StagesAgree
<1> USE DEF StagesAgree, Advance, ShellEnds, sessionVars
<1>2. CASE Connect \/ ConnectFails \/ ShellStops \/ ShellSeesClose \/ CloseQueue
    BY <1>2 DEF Connect, ConnectFails, ShellStops, ShellSeesClose, CloseQueue
<1>3. CASE Drained \/ ShellRetired \/ Joined \/ Decide \/ ReconnectEnds
    BY <1>3 DEF Drained, ShellRetired, Joined, Decide, ReconnectEnds
<1>4. CASE Reopen \/ Remove \/ Report
    BY <1>4 DEF Reopen, Remove, Report
<1>5. CASE SweepTransfers \/ SweepTunnels
    BY <1>5 DEF SweepTransfers, SweepTunnels
<1>6. ASSUME NEW c \in Calls, Ends(c) PROVE StagesAgree'
    BY <1>6 DEF Ends, WriteEnds, WriteSeesClose, OperationSettles, JobSettles, JobFinishes
<1>7. ASSUME NEW c \in Calls, Takes(c) PROVE StagesAgree'
    BY <1>7 DEF Takes, ReceiveClosing, ReceiveBusy, ReceiveStart
<1>8. CASE CancelMove
    BY <1>1, <1>5, <1>8 DEF CancelMove, CloseSweepTransfers, CloseSweepTunnels,
        QuitSweepTransfers, QuitSweepTunnels, CancelJob
<1>9. ASSUME NEW c \in Calls, Outside(c) PROVE StagesAgree'
    BY <1>1, <1>9 DEF Outside, Issue, BindFails, Reserve, TakeSlot, Register, Send
<1> HIDE DEF StagesAgree
<1> QED
    BY <1>1, <1>2, <1>3, <1>4, <1>6, <1>7, <1>8, <1>9, NextCases, ExitMoveFrame
    DEF SessionMove, vars, sessionVars

LEMMA QueueStep ==
    ASSUME TypeOK, QueueAgrees, [Next]_vars PROVE QueueAgrees'
<1>1. CASE UNCHANGED <<at, queue>>
    BY <1>1 DEF QueueAgrees
<1>2. ASSUME NEW c \in Calls, Send(c) PROVE QueueAgrees'
  <2>1. /\ queue' = Append(queue, c) /\ at' = [at EXCEPT ![c] = "queued"]
        /\ at[c] # "queued"
      BY <1>2 DEF Send, Move
  <2>2. /\ queue \in Seq(Calls) /\ at \in [Calls -> Places] /\ Len(queue) \in Nat
      BY DEF TypeOK
  <2>3. /\ Len(queue') = Len(queue) + 1
        /\ \A i \in 1..Len(queue) : queue'[i] = queue[i]
        /\ queue'[Len(queue) + 1] = c
      BY <2>1, <2>2, PutLast
  <2>4. \A d \in Calls : at'[d] = "queued" <=> \E i \in 1..Len(queue') : queue'[i] = d
    <3> TAKE d \in Calls
    <3>1. CASE d = c
        BY <2>1, <2>2, <2>3, <3>1
    <3>2. CASE d # c
      <4>1. at'[d] = at[d]
          BY <2>1, <2>2, <3>2
      <4>2. (\E i \in 1..Len(queue) : queue[i] = d) <=> (\E i \in 1..Len(queue') : queue'[i] = d)
          BY <2>2, <2>3, <3>2
      <4> QED
          BY <4>1, <4>2 DEF QueueAgrees
    <3> QED
        BY <3>1, <3>2
  <2>5. ASSUME NEW i \in 1..Len(queue'), NEW j \in 1..Len(queue'), queue'[i] = queue'[j]
        PROVE  i = j
    <3>1. \A k \in 1..Len(queue) : queue[k] # c
        BY <2>1 DEF QueueAgrees
    <3> QED
        BY <2>2, <2>3, <2>5, <3>1 DEF QueueAgrees
  <2> QED
      BY <2>4, <2>5 DEF QueueAgrees
<1>3. ASSUME NEW c \in Calls, Outside(c), ~Send(c) PROVE QueueAgrees'
  <2>1. /\ queue' = queue /\ \E place \in Places : Move(c, place) /\ place # "queued"
        /\ at[c] # "queued"
      BY <1>3 DEF Outside, Issue, BindFails, Reserve, TakeSlot, Register, Places
  <2> QED
      BY <2>1 DEF QueueAgrees, TypeOK, Move
<1>4. ASSUME NEW c \in Calls, Ends(c) PROVE QueueAgrees'
  <2>1. /\ queue' = queue /\ \E place \in Places : Move(c, place) /\ place # "queued"
        /\ at[c] # "queued"
      BY <1>4 DEF Ends, WriteEnds, WriteSeesClose, OperationSettles, JobSettles, JobFinishes, Places
  <2> QED
      BY <2>1 DEF QueueAgrees, TypeOK, Move
<1>5. ASSUME NEW c \in Calls, Takes(c) PROVE QueueAgrees'
  <2>1. /\ queue # <<>> /\ c = Head(queue) /\ queue' = Tail(queue)
        /\ \E place \in Places : Move(c, place) /\ place # "queued"
      BY <1>5 DEF Takes, ReceiveClosing, ReceiveBusy, ReceiveStart, Reject, Places
  <2>2. /\ queue \in Seq(Calls) /\ at \in [Calls -> Places]
      BY DEF TypeOK
  <2>3. /\ Len(queue) \in Nat \ {0} /\ c = queue[1] /\ Len(queue') = Len(queue) - 1
        /\ \A i \in 1..Len(queue') : queue'[i] = queue[i + 1]
      BY <2>1, <2>2, TakeHead
  <2>4. \A d \in Calls : at'[d] = "queued" <=> \E i \in 1..Len(queue') : queue'[i] = d
    <3> TAKE d \in Calls
    <3>1. CASE d = c
      <4>1. at'[d] # "queued"
          BY <2>1, <2>2, <3>1 DEF Move
      <4>2. \A i \in 1..Len(queue') : queue[i + 1] # c
          BY <2>3 DEF QueueAgrees
      <4> QED
          BY <2>3, <3>1, <4>1, <4>2
    <3>2. CASE d # c
      <4>1. at'[d] = at[d]
          BY <2>1, <2>2, <3>2 DEF Move
      <4>2. ASSUME NEW i \in 1..Len(queue), queue[i] = d PROVE \E k \in 1..Len(queue') : queue'[k] = d
        <5>1. i - 1 \in 1..Len(queue') /\ (i - 1) + 1 = i
            BY <2>3, <3>2, <4>2
        <5>2. queue'[i - 1] = queue[(i - 1) + 1]
            BY <2>3, <5>1
        <5> QED
            BY <4>2, <5>1, <5>2
      <4>3. ASSUME NEW i \in 1..Len(queue'), queue'[i] = d PROVE \E k \in 1..Len(queue) : queue[k] = d
        <5>1. i + 1 \in 1..Len(queue)
            BY <2>3
        <5> QED
            BY <2>3, <4>3, <5>1
      <4> QED
          BY <4>1, <4>2, <4>3 DEF QueueAgrees
    <3> QED
        BY <3>1, <3>2
  <2>5. ASSUME NEW i \in 1..Len(queue'), NEW j \in 1..Len(queue'), queue'[i] = queue'[j]
        PROVE  i = j
    <3>1. queue[i + 1] = queue[j + 1] /\ i + 1 \in 1..Len(queue) /\ j + 1 \in 1..Len(queue)
        BY <2>3, <2>5
    <3> QED
        BY <2>3, <3>1 DEF QueueAgrees
  <2> QED
      BY <2>4, <2>5 DEF QueueAgrees
<1> QED
    BY <1>1, <1>2, <1>3, <1>4, <1>5, NextCases, SessionMoveFrame, ExitMoveFrame, CancelMoveFrame
    DEF vars, callVars

LEMMA TakenIsQueued ==
    ASSUME TypeOK, QueueAgrees, NEW c, Takes(c)
    PROVE  c \in Calls /\ at[c] = "queued"
<1>1. /\ queue \in Seq(Calls) /\ queue # <<>> /\ c = Head(queue)
    BY DEF TypeOK, Takes
<1>2. Len(queue) \in Nat \ {0} /\ c = queue[1] /\ c \in Calls
    BY <1>1, TakeHead
<1> QED
    BY <1>2 DEF QueueAgrees

LEMMA EmptyStep ==
    ASSUME TypeOK, StagesAgree, QueueAgrees, PlacesAgree, StagesEmpty, WorkersAgree, [Next]_vars
    PROVE  StagesEmpty'
<1>1. CASE UNCHANGED <<stage, at>>
    BY <1>1 DEF StagesEmpty, Finite
<1>2. CASE SessionMove
  <2>1. at' = at
      BY <1>2, SessionMoveFrame DEF callVars
  <2>2. \A c \in Calls : at[c] = "running" /\ c \notin Finite => stage' = "writing"
      BY <1>2 DEF StagesEmpty, SessionMove, Connect, ConnectFails, ShellStops, ShellSeesClose,
          CloseQueue, Drained, ShellRetired, Joined, Decide, ReconnectEnds, Reopen, Remove,
          Report, Advance, ShellEnds
  <2>3. CASE Drained
    <3>1. stage' = "eof" /\ Permits = {} /\ queue = <<>>
        BY <2>3 DEF Drained, Advance, Exhausted
    <3>2. \A c \in Calls : at[c] # "queued"
        BY <3>1 DEF QueueAgrees
    <3>3. \A c \in Calls : at[c] \notin Holding
        BY <3>1 DEF Permits, Holding
    <3> QED
        BY <2>1, <2>2, <3>1, <3>2, <3>3 DEF StagesEmpty, Quiet, Holding, Finite
  <2>4. CASE Joined
    <3>1. stage = "join" /\ stage' = "decide" /\ Reaped = {}
        BY <2>4 DEF Joined, Advance, AllJoined
    <3>2. \A c \in Calls : at[c] \notin {"running", "settled"}
        BY <3>1 DEF StagesEmpty, WorkersAgree, Reaped, Running, Finite, PlacesAgree,
            Transfers, Tunnels
    <3> QED
        BY <2>1, <2>2, <3>1, <3>2 DEF StagesEmpty, Quiet, Finishing, Finite
  <2>5. CASE Connect
    <3>1. stage' = "shell"
        BY <2>5 DEF Connect
    <3> QED
        BY <2>1, <2>2, <3>1 DEF StagesEmpty, Quiet, Finishing, Finite
  <2>6. CASE ConnectFails \/ ShellStops \/ ShellSeesClose \/ CloseQueue
    <3>1. \/ stage = "connecting" /\ stage' = "unconnected"
          \/ stage' \in {"retire", "retire_transfers"}
        BY <2>6 DEF ConnectFails, ShellStops, ShellSeesClose, CloseQueue, ShellEnds, Advance
    <3> QED
        BY <2>1, <2>2, <3>1 DEF StagesEmpty, Quiet, Finishing, Finite
  <2>7. CASE ShellRetired
    <3>1. stage \in Finishing /\ stage' \in Finishing \ Quiet
        BY <2>7 DEF ShellRetired, Advance, Finishing, Quiet
    <3> QED
        BY <2>1, <2>2, <3>1 DEF StagesEmpty, Finite
  <2>8. CASE Decide \/ ReconnectEnds \/ Reopen \/ Remove \/ Report
    <3>1. stage \in Quiet /\ stage' \in Quiet \cup {"shell"}
        BY <2>8 DEF Decide, ReconnectEnds, Reopen, Remove, Report, Advance, Quiet
    <3>2. "shell" \notin Quiet \cup Finishing
        BY DEF Quiet, Finishing
    <3> QED
        BY <2>1, <2>2, <3>1, <3>2 DEF StagesEmpty, Finite
  <2> QED
      BY <1>2, <2>3, <2>4, <2>5, <2>6, <2>7, <2>8 DEF SessionMove
<1>3. CASE CancelMove
  <2>1. at' = at
      BY <1>3, CancelMoveFrame DEF callVars
  <2>2. \/ stage' = stage
        \/ stage = "retire_transfers" /\ stage' = "retire_tunnels"
        \/ stage = "retire_tunnels" /\ stage' = "drain"
        \/ stage \in Finishing /\ stage' \in Finishing
        \/ stage \in Quiet /\ stage' \in Quiet
      BY <1>3 DEF CancelMove, SweepTransfers, SweepTunnels, CloseSweepTransfers, CloseSweepTunnels,
          QuitSweepTransfers, QuitSweepTunnels, CancelJob, Advance, sessionVars, Quiet, Finishing
  <2>3. {"retire_transfers", "retire_tunnels", "drain", "writing"} \cap (Quiet \cup Finishing) = {}
      BY DEF Quiet, Finishing
  <2>4. Quiet \cap Finishing = {}
      BY DEF Quiet, Finishing
  <2> QED
      BY <2>1, <2>2, <2>3, <2>4 DEF StagesEmpty, Finite
<1>4. ASSUME NEW c \in Calls, Outside(c) PROVE StagesEmpty'
  <2>1. stage' = stage
      BY <1>4 DEF Outside, Issue, BindFails, Reserve, TakeSlot, Register, Send, sessionVars
  <2>2. /\ \E place \in Places : Move(c, place) /\ place \notin {"running", "settled"}
                                 /\ (place \in Holding \cup {"queued"} => at[c] \in Holding \/ open)
      BY <1>4 DEF Outside, Issue, BindFails, Reserve, ChannelOpen, TakeSlot, Register, Send,
          Places, Holding
  <2>3. open => stage \notin Quiet \cup Finishing
      BY DEF StagesAgree, Quiet, Finishing
  <2> QED
      BY <2>1, <2>2, <2>3 DEF StagesEmpty, Move, TypeOK, Finite
<1>5. ASSUME NEW c \in Calls, Ends(c) PROVE StagesEmpty'
  <2>1. \E place \in {"over", "settled"} : Move(c, place)
      BY <1>5 DEF Ends, WriteEnds, WriteSeesClose, OperationSettles, JobSettles, JobFinishes
  <2>2. at[c] \in {"running", "settled"}
      BY <1>5 DEF Ends, WriteEnds, WriteSeesClose, OperationSettles, JobSettles, JobFinishes
  <2>3. \/ stage' = stage
        \/ stage = "writing" /\ stage' \in {"shell", "retire"} /\ c \notin Finite /\ at[c] = "running"
      BY <1>5 DEF Ends, WriteEnds, WriteSeesClose, OperationSettles, JobSettles, JobFinishes,
          ShellEnds, sessionVars, Finite
  <2>4. {"shell", "retire"} \cap (Quiet \cup Finishing) = {}
      BY DEF Quiet, Finishing
  <2>5. at'[c] \in {"over", "settled"} /\ \A d \in Calls \ {c} : at'[d] = at[d]
      BY <2>1 DEF Move, TypeOK
  <2> QED
      BY <2>2, <2>3, <2>4, <2>5 DEF StagesEmpty, Finite, Holding
<1>6. ASSUME NEW c \in Calls, Takes(c) PROVE StagesEmpty'
  <2>1. stage \in {"shell", "drain"}
      BY <1>6 DEF Takes
  <2>2. \/ /\ stage' \in {"shell", "drain", "retire"} /\ Move(c, "over")
        \/ /\ stage = "shell" /\ stage' = IF c \in Finite THEN "shell" ELSE "writing"
           /\ Move(c, "running")
      BY <1>6 DEF Takes, ReceiveClosing, ReceiveBusy, ReceiveStart, Reject, ShellEnds, sessionVars
  <2>3. \A d \in Calls \ Finite : at[d] # "running"
      BY <2>1 DEF StagesEmpty, Finite
  <2>4. {"shell", "drain", "retire", "writing"} \cap (Quiet \cup Finishing) = {}
      BY DEF Quiet, Finishing
  <2>5. CASE Move(c, "over") /\ stage' \in {"shell", "drain", "retire"}
      BY <2>3, <2>4, <2>5 DEF StagesEmpty, Move, TypeOK, Finite
  <2>6. CASE /\ stage' = IF c \in Finite THEN "shell" ELSE "writing"
             /\ Move(c, "running")
      BY <2>3, <2>4, <2>6 DEF StagesEmpty, Move, TypeOK, Finite
  <2> QED
      BY <2>2, <2>5, <2>6
<1> QED
    BY <1>1, <1>2, <1>3, <1>4, <1>5, <1>6, NextCases, ExitMoveFrame
    DEF vars, sessionVars, callVars

-----------------------------------------------------------------------------
\* Generations.

LEMMA HomeStep ==
    ASSUME TypeOK, StagesAgree, QueueAgrees, PlacesAgree, StagesEmpty, StaysHome, [Next]_vars
    PROVE  StaysHome'
<1>1. CASE UNCHANGED <<gen, at, of, ran>>
    BY <1>1 DEF StaysHome
<1>2. CASE Connect \/ Reopen
  <2>1. stage \in Quiet
      BY <1>2 DEF Connect, Reopen, Quiet
  <2>2. at' = at /\ of' = of /\ ran' = ran
      BY <1>2, SessionMoveFrame DEF SessionMove, callVars
  <2> QED
      BY <2>1, <2>2 DEF StagesEmpty, StaysHome, Holding
<1>3. CASE SessionMove /\ ~Connect /\ ~Reopen
  <2>1. gen' = gen
      BY <1>3 DEF SessionMove, ConnectFails, ShellStops, ShellSeesClose, CloseQueue, Drained,
          ShellRetired, Joined, Decide, ReconnectEnds, Remove, Report, Advance, ShellEnds
  <2> QED
      BY <1>1, <1>3, <2>1, SessionMoveFrame DEF callVars
<1>4. ASSUME NEW c \in Calls, Outside(c) PROVE StaysHome'
  <2>1. gen' = gen /\ ran' = ran
      BY <1>4 DEF Outside, Issue, BindFails, Reserve, TakeSlot, Register, Send, sessionVars
  <2>2. CASE Issue(c)
      BY <2>1, <2>2 DEF Issue, Move, StaysHome, TypeOK, PlacesAgree
  <2>3. CASE Reserve(c)
      BY <2>1, <2>3 DEF Reserve, ChannelOpen, Move, StaysHome, TypeOK
  <2>4. CASE BindFails(c) \/ TakeSlot(c) \/ Register(c) \/ Send(c)
      BY <2>1, <2>4 DEF BindFails, TakeSlot, Register, Send, Move, StaysHome, TypeOK
  <2> QED
      BY <1>4, <2>2, <2>3, <2>4 DEF Outside
<1>5. ASSUME NEW c \in Calls, Ends(c) PROVE StaysHome'
  <2>1. gen' = gen /\ ran' = ran /\ of' = of
      BY <1>5 DEF Ends, WriteEnds, WriteSeesClose, OperationSettles, JobSettles, JobFinishes,
          ShellEnds, sessionVars
  <2>2. at[c] \in {"running", "settled"} /\ \E place \in Places : Move(c, place)
      BY <1>5 DEF Ends, WriteEnds, WriteSeesClose, OperationSettles, JobSettles, JobFinishes, Places
  <2> QED
      BY <2>1, <2>2 DEF Move, StaysHome, TypeOK
<1>6. ASSUME NEW c \in Calls, Takes(c) PROVE StaysHome'
  <2>1. gen' = gen /\ of' = of /\ at[c] = "queued"
      BY <1>6, TakenIsQueued DEF Takes, ReceiveClosing, ReceiveBusy, ReceiveStart, Reject,
          ShellEnds, sessionVars
  <2>2. \/ Move(c, "over") /\ ran' = ran
        \/ Move(c, "running") /\ ran' = [ran EXCEPT ![c] = gen]
      BY <1>6 DEF Takes, ReceiveClosing, ReceiveBusy, ReceiveStart, Reject
  <2> QED
      BY <2>1, <2>2 DEF Move, StaysHome, TypeOK
<1> QED
    BY <1>1, <1>2, <1>3, <1>4, <1>5, <1>6, NextCases, ExitMoveFrame, CancelMoveFrame
    DEF vars, sessionVars, callVars

-----------------------------------------------------------------------------
\* Controls, the slot, and what callers are told.

LEMMA ControlsStep ==
    ASSUME TypeOK, StagesAgree, QueueAgrees, PlacesAgree, ControlsAgree, [Next]_vars
    PROVE  ControlsAgree'
<1> USE DEF Transfers, Tunnels
<1>1. CASE UNCHANGED <<stage, at, controls, cancelled>>
    BY <1>1 DEF ControlsAgree
<1>2. CASE SessionMove
  <2>1. UNCHANGED <<at, controls, cancelled>>
      BY <1>2, SessionMoveFrame DEF jobVars, callVars
  <2>2. stage' \notin {"finish_tunnels", "join"}
      BY <1>2 DEF SessionMove, Connect, ConnectFails, ShellStops, ShellSeesClose, CloseQueue,
          Drained, ShellRetired, Joined, Decide, ReconnectEnds, Reopen, Remove, Report,
          Advance, ShellEnds
  <2> QED
      BY <2>1, <2>2 DEF ControlsAgree
<1>3. CASE CancelMove
  <2>1. /\ at' = at
        /\ controls' \subseteq controls
        /\ controls \cup cancelled \subseteq controls' \cup cancelled'
      BY <1>3, CancelMoveFrame DEF Cancel, callVars
  <2>2. stage' = "finish_tunnels" => stage = "finish_tunnels" \/ controls' \cap Transfers = {}
      BY <1>3 DEF CancelMove, SweepTransfers, SweepTunnels, CloseSweepTransfers, CloseSweepTunnels,
          QuitSweepTransfers, QuitSweepTunnels, CancelJob, Advance, sessionVars, Cancel
  <2>3. stage' = "join" =>
          stage = "join" \/ (stage = "finish_tunnels" /\ controls' \cap Tunnels = {})
      BY <1>3 DEF CancelMove, SweepTransfers, SweepTunnels, CloseSweepTransfers, CloseSweepTunnels,
          QuitSweepTransfers, QuitSweepTunnels, CancelJob, Advance, sessionVars, Cancel
  <2> QED
      BY <2>1, <2>2, <2>3 DEF ControlsAgree
<1>4. ASSUME NEW c \in Calls, Outside(c) PROVE ControlsAgree'
  <2>1. stage' = stage /\ cancelled' = cancelled
      BY <1>4 DEF Outside, Issue, BindFails, Reserve, TakeSlot, Register, Send, FinishJob,
          sessionVars, jobVars
  <2>2. CASE Register(c) /\ CurrentSender(c)
    <3>1. /\ at' = [at EXCEPT ![c] = "ready"] /\ controls' = controls \cup {c}
        BY <2>2 DEF Register, Move
    <3>2. stage \notin {"finish_tunnels", "join"}
        BY <2>2 DEF CurrentSender, CanSend, StagesAgree
    <3> QED
        BY <2>1, <3>1, <3>2 DEF ControlsAgree, TypeOK
  <2>3. CASE Register(c) /\ ~CurrentSender(c)
    <3>1. /\ at' = [at EXCEPT ![c] = "refused"] /\ controls' = controls \ {c}
        BY <2>3 DEF Register, Move, FinishJob
    <3> QED
        BY <2>1, <3>1 DEF ControlsAgree, TypeOK
  <2>4. CASE Send(c)
    <3>1. /\ at' = [at EXCEPT ![c] = "queued"] /\ controls' = controls
          /\ at[c] = "ready" \/ Kind[c] \in {"write", "operation"}
        BY <2>4 DEF Send, Move, jobVars
    <3> QED
        BY <2>1, <3>1 DEF ControlsAgree, TypeOK
  <2>5. CASE Issue(c) \/ BindFails(c) \/ Reserve(c) \/ TakeSlot(c)
    <3>1. /\ \E place \in {"sender", "permit", "slot", "refused"} : at' = [at EXCEPT ![c] = place]
          /\ controls' = controls
          /\ at[c] \in {"new", "sender", "permit"}
        BY <2>5 DEF Issue, BindFails, Reserve, TakeSlot, Move, jobVars
    <3> QED
        BY <2>1, <3>1 DEF ControlsAgree, TypeOK
  <2> QED
      BY <1>4, <2>2, <2>3, <2>4, <2>5 DEF Outside
<1>5. ASSUME NEW c \in Calls, Ends(c) PROVE ControlsAgree'
  <2>1. cancelled' = cancelled /\ stage' \in {stage, "shell", "retire"}
      BY <1>5 DEF Ends, WriteEnds, WriteSeesClose, OperationSettles, JobSettles, JobFinishes,
          ShellEnds, FinishJob, sessionVars, jobVars
  <2>2. CASE JobFinishes(c)
      BY <2>1, <2>2 DEF JobFinishes, FinishJob, Move, ControlsAgree, TypeOK
  <2>3. CASE JobSettles(c)
      BY <2>1, <2>3 DEF JobSettles, Move, ControlsAgree, TypeOK, jobVars
  <2>4. CASE WriteEnds(c) \/ WriteSeesClose(c) \/ OperationSettles(c)
    <3>1. /\ at' = [at EXCEPT ![c] = "over"] /\ controls' = controls
          /\ Kind[c] \in {"write", "operation"}
        BY <2>4 DEF WriteEnds, WriteSeesClose, OperationSettles, Move, jobVars
    <3>2. c \notin controls
        BY <3>1 DEF TypeOK
    <3> QED
        BY <2>1, <3>1, <3>2 DEF ControlsAgree, TypeOK
  <2> QED
      BY <1>5, <2>2, <2>3, <2>4 DEF Ends
<1>6. ASSUME NEW c \in Calls, Takes(c) PROVE ControlsAgree'
  <2>1. cancelled' = cancelled /\ stage' \notin {"finish_tunnels", "join"} /\ at[c] = "queued"
      BY <1>6, TakenIsQueued DEF Takes, ReceiveClosing, ReceiveBusy, ReceiveStart, Reject,
          FinishJob, ShellEnds, sessionVars, jobVars
  <2>2. \/ Move(c, "over") /\ controls' = controls \ {c}
        \/ Move(c, "running") /\ controls' = controls
      BY <1>6 DEF Takes, ReceiveClosing, ReceiveBusy, ReceiveStart, Reject, FinishJob, jobVars
  <2> QED
      BY <2>1, <2>2 DEF Move, ControlsAgree, TypeOK
<1> QED
    BY <1>1, <1>2, <1>3, <1>4, <1>5, <1>6, NextCases, ExitMoveFrame
    DEF vars, sessionVars, callVars, jobVars

LEMMA SlotStep ==
    ASSUME TypeOK, QueueAgrees, PlacesAgree, OneRemoteForward, [Next]_vars
    PROVE  OneRemoteForward'
<1> USE CallsAssumption DEF Remotes
<1>1. CASE UNCHANGED <<at, slot>>
    BY <1>1 DEF OneRemoteForward
<1>2. CASE CancelMove
    BY <1>1, <1>2, CancelMoveFrame DEF Cancel, callVars
<1>3. ASSUME NEW c \in Calls, Outside(c) PROVE OneRemoteForward'
  <2>1. CASE Register(c) /\ CurrentSender(c)
      BY <2>1 DEF Register, Move, OneRemoteForward, TypeOK
  <2>2. CASE Register(c) /\ ~CurrentSender(c)
    <3>1. /\ at' = [at EXCEPT ![c] = "refused"] /\ slot' = IF slot = c THEN NoCall ELSE slot
        BY <2>2 DEF Register, Move, FinishJob
    <3> QED
        BY <3>1 DEF OneRemoteForward, TypeOK
  <2>3. CASE Send(c)
      BY <2>3 DEF Send, Move, OneRemoteForward, TypeOK, jobVars
  <2>4. CASE TakeSlot(c)
      BY <2>4 DEF TakeSlot, Move, OneRemoteForward, TypeOK
  <2>5. CASE Issue(c) \/ BindFails(c) \/ Reserve(c)
    <3>1. /\ \E place \in {"sender", "permit", "refused"} : at' = [at EXCEPT ![c] = place]
          /\ slot' = slot /\ at[c] \in {"new", "sender"}
        BY <2>5 DEF Issue, BindFails, Reserve, Move, jobVars
    <3> QED
        BY <3>1 DEF OneRemoteForward, TypeOK
  <2> QED
      BY <1>3, <2>1, <2>2, <2>3, <2>4, <2>5 DEF Outside
<1>4. ASSUME NEW c \in Calls, Ends(c) PROVE OneRemoteForward'
  <2>1. CASE JobFinishes(c)
      BY <2>1 DEF JobFinishes, FinishJob, Move, OneRemoteForward, TypeOK
  <2>2. CASE JobSettles(c)
      BY <2>2 DEF JobSettles, Move, OneRemoteForward, TypeOK, jobVars
  <2>3. CASE WriteEnds(c) \/ WriteSeesClose(c) \/ OperationSettles(c)
      BY <2>3 DEF WriteEnds, WriteSeesClose, OperationSettles, Move, OneRemoteForward, TypeOK, jobVars
  <2> QED
      BY <1>4, <2>1, <2>2, <2>3 DEF Ends
<1>5. ASSUME NEW c \in Calls, Takes(c) PROVE OneRemoteForward'
  <2>1. at[c] = "queued"
      BY <1>5, TakenIsQueued
  <2>2. \/ Move(c, "over") /\ slot' = IF slot = c THEN NoCall ELSE slot
        \/ Move(c, "running") /\ slot' = slot
      BY <1>5 DEF Takes, ReceiveClosing, ReceiveBusy, ReceiveStart, Reject, FinishJob, jobVars
  <2> QED
      BY <2>1, <2>2 DEF Move, OneRemoteForward, TypeOK
<1> QED
    BY <1>1, <1>2, <1>3, <1>4, <1>5, NextCases, SessionMoveFrame, ExitMoveFrame
    DEF vars, callVars, jobVars

LEMMA ToldStep ==
    ASSUME TypeOK, QueueAgrees, PlacesAgree, ToldOnce, [Next]_vars PROVE ToldOnce'
<1> USE DEF Finite
<1>1. CASE UNCHANGED <<at, notices>>
    BY <1>1 DEF ToldOnce
<1>2. ASSUME NEW c \in Calls, Outside(c) PROVE ToldOnce'
  <2>1. /\ \E place \in {"sender", "permit", "slot", "ready", "queued", "refused"} : Move(c, place)
        /\ at[c] \notin {"settled", "over"} /\ notices' = notices
      BY <1>2 DEF Outside, Issue, BindFails, Reserve, TakeSlot, Register, Send
  <2> QED
      BY <2>1 DEF Move, ToldOnce, TypeOK
<1>3. ASSUME NEW c \in Calls, Ends(c) PROVE ToldOnce'
  <2>1. CASE JobFinishes(c)
      BY <2>1 DEF JobFinishes, Move, ToldOnce, TypeOK
  <2>2. CASE JobSettles(c) \/ OperationSettles(c)
    <3>1. at[c] = "running" /\ Notify(c) /\ \E place \in {"settled", "over"} : Move(c, place)
        BY <2>2 DEF JobSettles, OperationSettles
    <3> QED
        BY <3>1 DEF Move, Notify, ToldOnce, TypeOK
  <2>3. CASE WriteEnds(c) \/ WriteSeesClose(c)
      BY <2>3 DEF WriteEnds, WriteSeesClose, Move, ToldOnce, TypeOK
  <2> QED
      BY <1>3, <2>1, <2>2, <2>3 DEF Ends
<1>4. ASSUME NEW c \in Calls, Takes(c) PROVE ToldOnce'
  <2>1. at[c] = "queued"
      BY <1>4, TakenIsQueued
  <2>2. \/ Move(c, "over") /\ Notify(c)
        \/ Move(c, "running") /\ notices' = notices
      BY <1>4 DEF Takes, ReceiveClosing, ReceiveBusy, ReceiveStart, Reject
  <2>3. at \in [Calls -> Places] /\ notices \in [Calls -> Nat]
      BY DEF TypeOK
  <2>4. CASE Move(c, "over") /\ Notify(c)
      BY <2>1, <2>3, <2>4 DEF Move, Notify, ToldOnce
  <2>5. CASE Move(c, "running") /\ notices' = notices
      BY <2>1, <2>3, <2>5 DEF Move, ToldOnce
  <2> QED
      BY <2>2, <2>4, <2>5
<1> QED
    BY <1>1, <1>2, <1>3, <1>4, NextCases, SessionMoveFrame, ExitMoveFrame, CancelMoveFrame
    DEF vars, callVars

LEMMA QuitterStep ==
    ASSUME TypeOK, StagesAgree, QuitAgrees, [Next]_vars PROVE QuitAgrees'
<1>1. CASE UNCHANGED <<quitter, shutdown, registered>>
    BY <1>1 DEF QuitAgrees
<1>2. CASE SessionMove
  <2>1. UNCHANGED <<quitter, shutdown>>
      BY <1>2, SessionMoveFrame DEF exitVars
  <2>2. registered' => registered \/ ~shutdown
      BY <1>2 DEF SessionMove, Connect, MayRegister, ConnectFails, ShellStops, ShellSeesClose,
          CloseQueue, Drained, ShellRetired, Joined, Decide, ReconnectEnds, Reopen, Remove,
          Report, Advance, ShellEnds
  <2> QED
      BY <2>1, <2>2 DEF QuitAgrees
<1>3. CASE ExitMove
    BY <1>3 DEF QuitAgrees, StagesAgree, ExitMove, CloseSignal, Quit, QuitSignal, QuitReturns,
        sessionVars
<1>4. CASE CancelMove
  <2>1. shutdown' = shutdown /\ registered' = registered
      BY <1>4 DEF CancelMove, SweepTransfers, SweepTunnels, CloseSweepTransfers,
          CloseSweepTunnels, QuitSweepTransfers, QuitSweepTunnels, CancelJob, Advance,
          sessionVars, exitVars
  <2>2. quitter' = quitter \/ (quitter # "idle" /\ quitter' # "returned")
      BY <1>4 DEF CancelMove, SweepTransfers, SweepTunnels, CloseSweepTransfers,
          CloseSweepTunnels, QuitSweepTransfers, QuitSweepTunnels, CancelJob, exitVars
  <2> QED
      BY <2>1, <2>2 DEF QuitAgrees
<1>5. ASSUME NEW c \in Calls, Outside(c) \/ Ends(c) \/ Takes(c) PROVE QuitAgrees'
    BY <1>1, <1>5 DEF Outside, Issue, BindFails, Reserve, TakeSlot, Register, Send, Ends,
        WriteEnds, WriteSeesClose, OperationSettles, JobSettles, JobFinishes, ShellEnds, Takes,
        ReceiveClosing, ReceiveBusy, ReceiveStart, sessionVars, exitVars
<1> QED
    BY <1>1, <1>2, <1>3, <1>4, <1>5, NextCases DEF vars, sessionVars, exitVars

-----------------------------------------------------------------------------
\* The limit of the worker set.

LEMMA SubsetSmaller ==
    ASSUME NEW S, NEW T, IsFiniteSet(S), T \subseteq S
    PROVE  /\ IsFiniteSet(T) /\ Cardinality(T) \in Nat /\ Cardinality(S) \in Nat
           /\ Cardinality(T) <= Cardinality(S)
BY FS_Subset, FS_CardinalityType

LEMMA OneMore ==
    ASSUME NEW S, NEW e, IsFiniteSet(S)
    PROVE  /\ Cardinality(S) \in Nat /\ Cardinality(S \cup {e}) \in Nat
           /\ Cardinality(S \cup {e}) <= Cardinality(S) + 1
<1>1. Cardinality(S) \in Nat
    BY FS_CardinalityType
<1>2. Cardinality(S \cup {e}) = IF e \in S THEN Cardinality(S) ELSE Cardinality(S) + 1
    BY FS_AddElement
<1> QED
    BY <1>1, <1>2

LEMMA Finiteness == IsFiniteSet(Running)
<1>1. Running \subseteq Calls
    BY DEF Running, Finite
<1> QED
    BY <1>1, FS_Subset, CallsAssumption

\* The JoinSet holds every job that runs.
LEMMA JoinSetStep ==
    ASSUME TypeOK, WorkersAgree, [Next]_vars PROVE WorkersAgree'
<1> USE DEF Finite, Running
<1>1. CASE at' = at /\ workers' = workers
    BY <1>1 DEF WorkersAgree
<1>2. CASE Joined
  <2>1. Reaped = {} /\ at' = at
      BY <1>2 DEF Joined, AllJoined, callVars
  <2> QED
      BY <2>1 DEF WorkersAgree, Reaped
<1>3. CASE SessionMove /\ ~Joined
  <2>1. workers' = workers
      BY <1>3 DEF SessionMove, Connect, ConnectFails, ShellStops, ShellSeesClose, CloseQueue,
          Drained, ShellRetired, Decide, ReconnectEnds, Reopen, Remove, Report
  <2> QED
      BY <1>1, <1>3, <2>1, SessionMoveFrame DEF callVars
<1>4. ASSUME NEW c \in Calls, Outside(c) PROVE WorkersAgree'
  <2>1. /\ workers' = workers
        /\ \E place \in {"sender", "permit", "slot", "ready", "queued", "refused"} : Move(c, place)
      BY <1>4 DEF Outside, Issue, BindFails, Reserve, TakeSlot, Register, Send, sessionVars
  <2> QED
      BY <2>1 DEF Move, WorkersAgree, TypeOK
<1>5. ASSUME NEW c \in Calls, Ends(c) PROVE WorkersAgree'
  <2>1. /\ workers' = workers
        /\ at[c] \in {"running", "settled"} /\ \E place \in {"settled", "over"} : Move(c, place)
      BY <1>5 DEF Ends, WriteEnds, WriteSeesClose, OperationSettles, JobSettles, JobFinishes,
          ShellEnds, sessionVars
  <2> QED
      BY <2>1 DEF Move, WorkersAgree, TypeOK
<1>6. ASSUME NEW c \in Calls, Takes(c) PROVE WorkersAgree'
  <2>1. CASE Move(c, "over") /\ workers' \in {workers, Reaped}
      BY <2>1 DEF Move, WorkersAgree, Reaped, TypeOK
  <2>2. CASE Move(c, "running") /\ workers' = Reaped \cup ({c} \cap Finite)
      BY <2>2 DEF Move, WorkersAgree, Reaped, TypeOK
  <2> QED
      BY <1>6, <2>1, <2>2 DEF Takes, ReceiveClosing, ReceiveBusy, ReceiveStart, Reject, sessionVars
<1> QED
    BY <1>1, <1>2, <1>3, <1>4, <1>5, <1>6, NextCases, ExitMoveFrame, CancelMoveFrame
    DEF vars, sessionVars, callVars

LEMMA WorkersStep ==
    ASSUME TypeOK, WorkersAgree, WorkersBounded, [Next]_vars PROVE WorkersBounded'
<1> USE DEF Finite
<1>1. ASSUME Running' \subseteq Running PROVE WorkersBounded'
    BY <1>1, Finiteness, SubsetSmaller, LimitAssumption DEF WorkersBounded
<1>2. CASE at' = at
    BY <1>1, <1>2 DEF Running
<1>3. ASSUME NEW c \in Calls, Outside(c) PROVE WorkersBounded'
  <2>1. \E place \in {"sender", "permit", "slot", "ready", "queued", "refused"} : Move(c, place)
      BY <1>3 DEF Outside, Issue, BindFails, Reserve, TakeSlot, Register, Send
  <2> QED
      BY <1>1, <2>1 DEF Move, Running, TypeOK
<1>4. ASSUME NEW c \in Calls, Ends(c) PROVE WorkersBounded'
  <2>1. at[c] \in {"running", "settled"} /\ \E place \in {"settled", "over"} : Move(c, place)
      BY <1>4 DEF Ends, WriteEnds, WriteSeesClose, OperationSettles, JobSettles, JobFinishes
  <2> QED
      BY <1>1, <2>1 DEF Move, Running, TypeOK
<1>5. ASSUME NEW c \in Calls, Takes(c) PROVE WorkersBounded'
  <2>1. CASE Move(c, "over")
      BY <1>1, <2>1 DEF Move, Running, TypeOK
  <2>2. CASE Move(c, "running") /\ ~Busy(c)
    <3>1. CASE c \notin Finite
        BY <1>1, <2>2, <3>1 DEF Move, Running, TypeOK
    <3>2. CASE c \in Finite
      <4>1. ~(Cardinality(Running) >= OperationLimit)
          BY <2>2, <3>2 DEF Busy, Reaped, WorkersAgree
      <4>2. Running' \subseteq Running \cup {c}
          BY <2>2 DEF Move, Running, TypeOK
      <4>3. IsFiniteSet(Running \cup {c})
          BY Finiteness, FS_AddElement
      <4>4. /\ Cardinality(Running') \in Nat /\ Cardinality(Running \cup {c}) \in Nat
            /\ Cardinality(Running') <= Cardinality(Running \cup {c})
          BY <4>2, <4>3, SubsetSmaller
      <4>5. /\ Cardinality(Running) \in Nat
            /\ Cardinality(Running \cup {c}) <= Cardinality(Running) + 1
          BY Finiteness, OneMore
      <4> QED
          BY <4>1, <4>4, <4>5, LimitAssumption DEF WorkersBounded
    <3> QED
        BY <3>1, <3>2
  <2> QED
      BY <1>5, <2>1, <2>2 DEF Takes, ReceiveClosing, ReceiveBusy, ReceiveStart, Reject
<1> QED
    BY <1>2, <1>3, <1>4, <1>5, NextCases, SessionMoveFrame, ExitMoveFrame, CancelMoveFrame
    DEF vars, callVars

\* Only admission takes a job to its end while the shell goes on, and it does so when the
\* places are full.
LEMMA RefusedStep ==
    ASSUME TypeOK, QueueAgrees, WorkersAgree, [Next]_vars,
           NEW c \in Finite, stage = "shell", stage' = "shell",
           at[c] = "queued", at'[c] = "over"
    PROVE  Cardinality(Running) >= OperationLimit
<1>1. c \in Calls
    BY DEF Finite
<1>2. at' # at
    OBVIOUS
<1>3. ASSUME NEW d \in Calls, Outside(d) PROVE FALSE
  <2>1. \E place \in {"sender", "permit", "slot", "ready", "queued", "refused"} : Move(d, place)
      BY <1>3 DEF Outside, Issue, BindFails, Reserve, TakeSlot, Register, Send
  <2> QED
      BY <1>1, <2>1 DEF Move, TypeOK
<1>4. ASSUME NEW d \in Calls, Ends(d) PROVE FALSE
  <2>1. at[d] \in {"running", "settled"} /\ \E place \in {"settled", "over"} : Move(d, place)
      BY <1>4 DEF Ends, WriteEnds, WriteSeesClose, OperationSettles, JobSettles, JobFinishes
  <2> QED
      BY <1>1, <2>1 DEF Move, TypeOK
<1>5. ASSUME NEW d \in Calls, Takes(d) PROVE Cardinality(Running) >= OperationLimit
  <2>1. \E place \in {"running", "over"} : Move(d, place)
      BY <1>5 DEF Takes, ReceiveClosing, ReceiveBusy, ReceiveStart, Reject
  <2>2. d = c
      BY <1>1, <2>1 DEF Move, TypeOK
  <2>3. ReceiveBusy(c)
      BY <1>1, <1>5, <2>2 DEF Takes, ReceiveClosing, ReceiveStart, ShellEnds, Move, TypeOK
  <2>4. Reaped = Running
      BY DEF Reaped, WorkersAgree
  <2> QED
      BY <2>3, <2>4 DEF ReceiveBusy, Busy
<1> QED
    BY <1>2, <1>3, <1>4, <1>5, NextCases, SessionMoveFrame, ExitMoveFrame, CancelMoveFrame
    DEF vars, callVars

-----------------------------------------------------------------------------
\* The inductive invariant and what follows from it.

LEMMA InductiveInit == Init => Inductive
<1> SUFFICES ASSUME Init PROVE Inductive
    OBVIOUS
<1>1. TypeOK /\ PlacesAgree
    BY TypeInit
<1>2. \A c \in Calls : at[c] = "new" /\ of[c] = 0 /\ ran[c] = 0 /\ notices[c] = 0
    BY DEF Init
<1>3. StagesAgree /\ QuitAgrees /\ StagesEmpty /\ ControlsAgree /\ StaysHome /\ ToldOnce
    BY <1>2 DEF Init, StagesAgree, QuitAgrees, StagesEmpty, ControlsAgree, StaysHome, ToldOnce,
        Holding, Transfers, Tunnels, Finite
<1>4. QueueAgrees
    BY <1>2 DEF Init, QueueAgrees
<1>5. OneRemoteForward
    BY <1>2, CallsAssumption DEF Init, OneRemoteForward, Remotes
<1>6. Running = {}
    BY <1>2 DEF Running, Finite
<1>7. WorkersAgree
    BY <1>6 DEF WorkersAgree
<1>8. WorkersBounded
    BY <1>6, FS_EmptySet, LimitAssumption DEF WorkersBounded
<1> QED
    BY <1>1, <1>3, <1>4, <1>5, <1>7, <1>8 DEF Inductive

LEMMA InductiveStep == Inductive /\ [Next]_vars => Inductive'
BY TypeStep, PlacesStep, StagesStep, QueueStep, EmptyStep, HomeStep, ControlsStep, SlotStep,
    ToldStep, QuitterStep, JoinSetStep, WorkersStep
DEF Inductive

LEMMA InductiveHolds == Spec => []Inductive
BY InductiveInit, InductiveStep, PTL DEF Spec

\* Commands are started on the connection whose queue accepted them.
THEOREM CommandsStayHome == Spec => []StaysHome
<1>1. Inductive => StaysHome
    BY DEF Inductive
<1> QED
    BY <1>1, InductiveHolds, PTL

\* No connection leaves commands, permits, controls or a slot behind.
THEOREM ConnectionsLeaveNothing == Spec => []NothingLeftBehind
<1>1. Inductive => NothingLeftBehind
  <2> SUFFICES ASSUME Inductive, stage \in Quiet
               PROVE  /\ queue = <<>>
                      /\ Permits = {}
                      /\ \A c \in Calls : at[c] \notin {"queued", "running", "settled"}
                      /\ controls = {}
                      /\ slot = NoCall
      BY DEF NothingLeftBehind
  <2>1. \A c \in Calls : at[c] \notin {"permit", "slot", "ready", "queued", "running", "settled"}
      BY DEF Inductive, StagesEmpty, Holding
  <2>2. queue = <<>>
    <3>1. queue \in Seq(Calls)
        BY DEF Inductive, TypeOK
    <3>2. \A i \in 1..Len(queue) : queue[i] \in Calls
        BY <3>1
    <3>3. Len(queue) \in Nat /\ ~(\E i \in 1..Len(queue) : TRUE)
        BY <2>1, <3>1, <3>2 DEF Inductive, QueueAgrees
    <3> QED
        BY <3>1, <3>3
  <2>3. Permits = {}
      BY <2>1 DEF Permits
  <2>4. controls = {}
      BY <2>1 DEF Inductive, TypeOK, ControlsAgree, Transfers, Tunnels
  <2>5. slot = NoCall
      BY <2>1 DEF Inductive, TypeOK, OneRemoteForward, Remotes
  <2> QED
      BY <2>1, <2>2, <2>3, <2>4, <2>5
<1> QED
    BY <1>1, InductiveHolds, PTL

\* A job the session task waits for has been told to stop.
THEOREM JoinedJobsAreCancelled == Spec => []ToldToStop
<1>1. Inductive => ToldToStop
    BY DEF Inductive, ToldToStop, ControlsAgree, Transfers, Tunnels
<1> QED
    BY <1>1, InductiveHolds, PTL

\* Every finite command has exactly one final reply or terminal event.
THEOREM CallersToldOnce == Spec => []ToldOnce
<1>1. Inductive => ToldOnce
    BY DEF Inductive
<1> QED
    BY <1>1, InductiveHolds, PTL

\* The remote-forward slot has one owner, for as long as its job is alive.
THEOREM RemoteForwardsExclude == Spec => []OneRemoteForward
<1>1. Inductive => OneRemoteForward
    BY DEF Inductive
<1> QED
    BY <1>1, InductiveHolds, PTL

\* The worker set keeps within its limit, and nothing is refused below it.
THEOREM Bounded == Spec => Limits
<1>1. Inductive => WorkersBounded
    BY DEF Inductive
<1>2. Inductive /\ [Next]_vars => [RefusedOnlyWhenFull]_vars
    BY RefusedStep DEF Inductive, RefusedOnlyWhenFull
<1> QED
    BY <1>1, <1>2, InductiveHolds, PTL DEF Spec, Limits

\* When shutdown has returned, nothing of the terminal is left.
THEOREM QuitIsComplete == Spec => []QuitLeavesNothing
<1>1. Inductive /\ NothingLeftBehind => QuitLeavesNothing
  <2> SUFFICES ASSUME Inductive, NothingLeftBehind, quitter = "returned"
               PROVE  /\ ~registered
                      /\ stage \in {"connecting", "unconnected", "report", "done"}
                      /\ Permits = {} /\ Running = {} /\ queue = <<>> /\ controls = {}
      BY DEF QuitLeavesNothing
  <2>1. ~registered
      BY DEF Inductive, QuitAgrees
  <2>2. stage \in {"connecting", "unconnected", "report", "done"}
      BY <2>1 DEF Inductive, StagesAgree
  <2>3. stage \in Quiet
      BY <2>2 DEF Quiet
  <2> QED
      BY <2>1, <2>2, <2>3 DEF NothingLeftBehind, Running, Finite
<1> QED
    BY <1>1, InductiveHolds, ConnectionsLeaveNothing, PTL

-----------------------------------------------------------------------------
\* SshSession implements SshCommandContract.  The refinement mapping reads the window of the
\* contract off the stage of the session task and the phase of a command off its place; every
\* step moves one call, or only the window, or nothing of the contract.

\* The phase of a command at a place.
PhaseAt(place) ==
    IF place \in {"new", "sender", "permit", "slot", "ready"} THEN "new"
    ELSE IF place = "queued" THEN "accepted"
    ELSE IF place = "running" THEN "started"
    ELSE IF place = "refused" THEN "refused"
    ELSE "settled"

-----------------------------------------------------------------------------
\* The mapping, point by point.

LEMMA PhaseIs ==
    /\ Phase = [c \in Calls |-> PhaseAt(at[c])]
    /\ Phase' = [c \in Calls |-> PhaseAt(at'[c])]
    /\ Home = [c \in Calls |-> IF PhaseAt(at[c]) \in {"new", "refused"} THEN 0 ELSE of[c]]
    /\ Home' = [c \in Calls |-> IF PhaseAt(at'[c]) \in {"new", "refused"} THEN 0 ELSE of'[c]]
BY DEF Phase, Home, PhaseAt

\* One call moves, and keeps its Sender.
LEMMA PhaseMoves ==
    ASSUME TypeOK, NEW c \in Calls, NEW place, Move(c, place), of' = of,
           PhaseAt(at[c]) \notin {"new", "refused"} => PhaseAt(place) \notin {"new", "refused"}
    PROVE  /\ Phase' = [Phase EXCEPT ![c] = PhaseAt(place)]
           /\ Phase[c] = PhaseAt(at[c])
           /\ Home' = IF PhaseAt(at[c]) \in {"new", "refused"}
                         /\ PhaseAt(place) \notin {"new", "refused"}
                      THEN [Home EXCEPT ![c] = of[c]] ELSE Home
<1>1. \A d \in Calls : at'[d] = IF d = c THEN place ELSE at[d]
    BY DEF TypeOK, Move
<1> QED
    BY <1>1, PhaseIs

\* A step that moves the window only.
LEMMA PhaseStays ==
    ASSUME at' = at, of' = of
    PROVE  Phase' = Phase /\ Home' = Home
BY PhaseIs

\* No command is outstanding where the session task has none.
LEMMA NothingOutstanding ==
    ASSUME StagesEmpty, stage \in Quiet
    PROVE  Contract!Outstanding = {}
BY PhaseIs DEF Contract!Outstanding, StagesEmpty, PhaseAt

\* The first connection has not been made while it is being made.
Fresh == stage = "connecting" => gen = 0

LEMMA FreshStep ==
    ASSUME TypeOK, Fresh, [Next]_vars PROVE Fresh'
<1>1. CASE UNCHANGED <<stage, gen>>
    BY <1>1 DEF Fresh
<1>2. CASE SessionMove
    BY <1>2 DEF Fresh, SessionMove, Connect, ConnectFails, ShellStops, ShellSeesClose, ShellEnds,
        CloseQueue, Drained, ShellRetired, Joined, Decide, ReconnectEnds, Reopen, Remove,
        Report, Advance
<1>3. CASE ExitMove
    BY <1>1, <1>3, ExitMoveFrame DEF sessionVars
<1>4. CASE CancelMove
    BY <1>4 DEF Fresh, CancelMove, SweepTransfers, SweepTunnels, CloseSweepTransfers,
        CloseSweepTunnels, QuitSweepTransfers, QuitSweepTunnels, CancelJob, Advance, sessionVars
<1>5. ASSUME NEW c \in Calls, Outside(c) PROVE Fresh'
    BY <1>1, <1>5 DEF Outside, Issue, BindFails, Reserve, TakeSlot, Register, Send, sessionVars
<1>6. ASSUME NEW c \in Calls, Ends(c) PROVE Fresh'
    BY <1>6 DEF Fresh, Ends, WriteEnds, WriteSeesClose, ShellEnds, OperationSettles, JobSettles,
        JobFinishes, sessionVars
<1>7. ASSUME NEW c \in Calls, Takes(c) PROVE Fresh'
    BY <1>7 DEF Fresh, Takes, ReceiveClosing, ReceiveBusy, ReceiveStart, Reject, ShellEnds,
        sessionVars
<1> QED
    BY <1>1, <1>2, <1>3, <1>4, <1>5, <1>6, <1>7, NextCases DEF vars, sessionVars

-----------------------------------------------------------------------------
\* Every step of the session is a step of the contract or a stutter.

ContractStep == [Contract!ContractNext]_(Contract!contractVars)

LEMMA StutterIs ==
    ASSUME Window' = Window, gen' = gen, Phase' = Phase, Home' = Home
    PROVE  ContractStep
BY DEF ContractStep, Contract!contractVars

LEMMA SessionMoveKeeps ==
    ASSUME Inductive, Inductive', Fresh, SessionMove
    PROVE  ContractStep
<1>1. Phase' = Phase /\ Home' = Home
    BY SessionMoveFrame, PhaseStays DEF callVars
<1>2. CASE Connect
    <2>1. Window = "before" /\ Window' = "open" /\ gen' = gen + 1
        BY <1>2 DEF Connect, Window, Fresh
    <2>2. Contract!Outstanding = {}
        BY <1>2, NothingOutstanding DEF Connect, Quiet, Inductive
    <2> QED
        BY <1>1, <2>1, <2>2 DEF ContractStep, Contract!ContractNext, Contract!OpenWindow
<1>3. CASE ConnectFails
    <2>1. Window = "before" /\ Window' = "ended" /\ gen' = gen
        BY <1>3 DEF ConnectFails, Window
    <2>2. Contract!Outstanding = {}
        BY <1>3, NothingOutstanding DEF ConnectFails, Quiet, Inductive
    <2> QED
        BY <1>1, <2>1, <2>2 DEF ContractStep, Contract!ContractNext, Contract!EndWindow
<1>4. CASE ShellStops \/ ShellSeesClose
    <2>1. Window' = Window /\ gen' = gen
        BY <1>4 DEF ShellStops, ShellSeesClose, ShellEnds, Window
    <2> QED
        BY <1>1, <2>1, StutterIs
<1>5. CASE CloseQueue
    <2>1. Window = "open" /\ Window' = "closing" /\ gen' = gen
        BY <1>5 DEF CloseQueue, Advance, Window, Quiet
    <2> QED
        BY <1>1, <2>1 DEF ContractStep, Contract!ContractNext, Contract!CloseWindow
<1>6. CASE Drained \/ ShellRetired
    <2>1. Window' = Window /\ gen' = gen
        BY <1>6 DEF Drained, ShellRetired, Advance, Window, Quiet
    <2> QED
        BY <1>1, <2>1, StutterIs
<1>7. CASE Joined
    <2>1. Window = "closing" /\ Window' = "empty" /\ gen' = gen
        BY <1>7 DEF Joined, Advance, Window, Quiet
    <2>2. Contract!Outstanding = {}
        <3>1. stage' \in Quiet /\ StagesEmpty'
            BY <1>7 DEF Joined, Advance, Quiet, Inductive
        <3>2. \A c \in Calls : at'[c] \notin {"queued", "running"}
            BY <3>1 DEF StagesEmpty
        <3>3. at' = at
            BY SessionMoveFrame DEF callVars
        <3> QED
            BY <3>2, <3>3, PhaseIs DEF Contract!Outstanding, PhaseAt
    <2> QED
        BY <1>1, <2>1, <2>2 DEF ContractStep, Contract!ContractNext, Contract!EmptyWindow
<1>8. CASE Decide \/ ReconnectEnds \/ Remove
    <2>1. Window' = Window /\ gen' = gen
        BY <1>8 DEF Decide, ReconnectEnds, Remove, Advance, Window, Quiet
    <2> QED
        BY <1>1, <2>1, StutterIs
<1>9. CASE Reopen
    <2>1. Contract!Outstanding = {}
        BY <1>9, NothingOutstanding DEF Reopen, Quiet, Inductive
    <2>2. CASE stage' = "shell" /\ gen' = gen + 1
        <3>1. Window = "empty" /\ Window' = "open"
            BY <1>9, <2>2 DEF Reopen, Window, Quiet
        <3> QED
            BY <1>1, <2>1, <2>2, <3>1 DEF ContractStep, Contract!ContractNext, Contract!OpenWindow
    <2>3. CASE stage' = "remove_transfers" /\ gen' = gen
        <3>1. Window' = Window
            BY <1>9, <2>3 DEF Reopen, Window, Quiet
        <3> QED
            BY <1>1, <2>3, <3>1, StutterIs
    <2> QED
        BY <1>9, <2>2, <2>3 DEF Reopen
<1>10. CASE Report
    <2>1. Window = "empty" /\ Window' = "ended" /\ gen' = gen
        BY <1>10 DEF Report, Advance, Window, Quiet
    <2>2. Contract!Outstanding = {}
        BY <1>10, NothingOutstanding DEF Report, Advance, Quiet, Inductive
    <2> QED
        BY <1>1, <2>1, <2>2 DEF ContractStep, Contract!ContractNext, Contract!EndWindow
<1> QED
    BY <1>2, <1>3, <1>4, <1>5, <1>6, <1>7, <1>8, <1>9, <1>10 DEF SessionMove

LEMMA CancelMoveKeeps ==
    ASSUME CancelMove PROVE ContractStep
<1>1. Phase' = Phase /\ Home' = Home /\ gen' = gen
    BY CancelMoveFrame, PhaseStays DEF callVars
<1>2. Window' = Window
    BY DEF CancelMove, SweepTransfers, SweepTunnels, CloseSweepTransfers, CloseSweepTunnels,
        QuitSweepTransfers, QuitSweepTunnels, CancelJob, Advance, sessionVars, Window, Quiet
<1> QED
    BY <1>1, <1>2, StutterIs

\* A caller gets on with its call, gives up, or hands its command over.
LEMMA OutsideKeeps ==
    ASSUME Inductive, NEW c \in Calls, Outside(c) PROVE ContractStep
<1> USE DEF Inductive
<1>1. UNCHANGED <<stage, gen>>
    BY DEF Outside, Issue, BindFails, Reserve, TakeSlot, Register, Send, sessionVars
<1>2. Window' = Window
    BY <1>1 DEF Window
<1>3. CASE Issue(c)
    <2>1. at[c] = "new" /\ (Move(c, "sender") \/ Move(c, "refused"))
        BY <1>3 DEF Issue
    <2>2. \A d \in Calls : d # c => at'[d] = at[d] /\ of'[d] = of[d]
        BY <1>3 DEF Issue, Move, TypeOK
    <2>3. at'[c] \in {"sender", "refused"}
        BY <2>1 DEF Move, TypeOK
    <2>4. Home' = Home
        BY <2>1, <2>2, <2>3, PhaseIs DEF PhaseAt
    <2>5. CASE at'[c] = "sender"
        <3>1. Phase' = Phase
            BY <2>1, <2>2, <2>5, PhaseIs DEF PhaseAt
        <3> QED
            BY <1>1, <1>2, <2>4, <3>1, StutterIs
    <2>6. CASE at'[c] = "refused"
        <3>1. Phase[c] = "new" /\ Phase' = [Phase EXCEPT ![c] = "refused"]
            BY <2>1, <2>2, <2>6, PhaseIs DEF PhaseAt
        <3>2. Contract!Refuse(c)
            BY <1>1, <1>2, <2>4, <3>1 DEF Contract!Refuse
        <3> QED
            BY <3>2 DEF ContractStep, Contract!ContractNext
    <2> QED
        BY <2>3, <2>5, <2>6
<1>4. CASE BindFails(c) \/ Reserve(c) \/ TakeSlot(c) \/ Register(c)
    <2>1. PICK place \in {"permit", "slot", "ready", "refused"} : Move(c, place)
        BY <1>4 DEF BindFails, Reserve, TakeSlot, Register
    <2>2. at[c] \in {"sender", "permit", "slot"} /\ of' = of
        BY <1>4 DEF BindFails, Reserve, TakeSlot, Register
    <2>3. PhaseAt(at[c]) = "new" /\ PhaseAt(place) \in {"new", "refused"}
        BY <2>1, <2>2 DEF PhaseAt
    <2>4. /\ Phase' = [Phase EXCEPT ![c] = PhaseAt(place)]
          /\ Phase[c] = "new" /\ Home' = Home
        BY <2>1, <2>2, <2>3, PhaseMoves
    <2>5. CASE PhaseAt(place) = "new"
        <3>1. Phase' = Phase
            BY <2>4, <2>5, PhaseIs
        <3> QED
            BY <1>1, <1>2, <2>4, <3>1, StutterIs
    <2>6. CASE PhaseAt(place) = "refused"
        <3>1. Contract!Refuse(c)
            BY <1>1, <1>2, <2>4, <2>6 DEF Contract!Refuse
        <3> QED
            BY <3>1 DEF ContractStep, Contract!ContractNext
    <2> QED
        BY <2>3, <2>5, <2>6
<1>5. CASE Send(c)
    <2>1. at[c] \in {"permit", "ready"} /\ Move(c, "queued") /\ of' = of
        BY <1>5 DEF Send
    <2>2. of[c] = gen
        BY <2>1 DEF StaysHome
    <2>3. /\ Phase' = [Phase EXCEPT ![c] = "accepted"] /\ Phase[c] = "new"
          /\ Home' = [Home EXCEPT ![c] = of[c]]
        BY <2>1, PhaseMoves DEF PhaseAt
    <2>4. stage \notin Finishing \cup Quiet
        BY <2>1 DEF StagesEmpty, Holding
    <2>5. Window \in {"open", "closing"}
        BY <2>4 DEF Window, Quiet
    <2>6. Contract!Accept(c)
        BY <1>1, <1>2, <2>2, <2>3, <2>5 DEF Contract!Accept
    <2> QED
        BY <2>6 DEF ContractStep, Contract!ContractNext
<1> QED
    BY <1>3, <1>4, <1>5 DEF Outside

\* A running command is settled; a settled job only gives up its control.
LEMMA EndsKeeps ==
    ASSUME Inductive, NEW c \in Calls, Ends(c) PROVE ContractStep
<1> USE DEF Inductive
<1>1. Window' = Window /\ gen' = gen /\ of' = of
    BY DEF Ends, WriteEnds, WriteSeesClose, ShellEnds, OperationSettles, JobSettles, JobFinishes,
        sessionVars, Window
<1>2. CASE JobFinishes(c)
    <2>1. at[c] = "settled" /\ Move(c, "over")
        BY <1>2 DEF JobFinishes
    <2>2. Phase' = [Phase EXCEPT ![c] = "settled"] /\ Phase[c] = "settled" /\ Home' = Home
        BY <1>1, <2>1, PhaseMoves DEF PhaseAt
    <2>3. Phase' = Phase
        BY <2>2, PhaseIs
    <2> QED
        BY <1>1, <2>2, <2>3, StutterIs
<1>3. CASE ~JobFinishes(c)
    <2>1. PICK place \in {"over", "settled"} : Move(c, place)
        BY <1>3 DEF Ends, WriteEnds, WriteSeesClose, OperationSettles, JobSettles
    <2>2. at[c] = "running"
        BY <1>3 DEF Ends, WriteEnds, WriteSeesClose, OperationSettles, JobSettles
    <2>3. PhaseAt(place) = "settled" /\ PhaseAt(at[c]) = "started"
        BY <2>1, <2>2 DEF PhaseAt
    <2>4. Phase' = [Phase EXCEPT ![c] = "settled"] /\ Phase[c] = "started" /\ Home' = Home
        BY <1>1, <2>1, <2>3, PhaseMoves
    <2>5. Contract!Settle(c)
        BY <1>1, <2>4 DEF Contract!Settle
    <2> QED
        BY <2>5 DEF ContractStep, Contract!ContractNext
<1> QED
    BY <1>2, <1>3

\* The session task starts a command, or rejects it.
LEMMA TakesKeeps ==
    ASSUME Inductive, NEW c \in Calls, Takes(c) PROVE ContractStep
<1> USE DEF Inductive
<1>1. at[c] = "queued"
    BY TakenIsQueued
<1>2. PhaseAt(at[c]) = "accepted"
    BY <1>1 DEF PhaseAt
<1>3. gen' = gen /\ of' = of
    BY DEF Takes, ReceiveClosing, ReceiveBusy, ReceiveStart, Reject, ShellEnds, sessionVars
<1>4. Window' = Window
    BY DEF Takes, ReceiveClosing, ReceiveBusy, ReceiveStart, ShellEnds, sessionVars, Window
<1>5. CASE Move(c, "over")
    <2>1. Phase' = [Phase EXCEPT ![c] = "settled"] /\ Phase[c] = "accepted" /\ Home' = Home
        BY <1>2, <1>3, <1>5, PhaseMoves DEF PhaseAt
    <2>2. Contract!Settle(c)
        BY <1>3, <1>4, <2>1 DEF Contract!Settle
    <2> QED
        BY <2>2 DEF ContractStep, Contract!ContractNext
<1>6. CASE stage = "shell" /\ Move(c, "running")
    <2>1. Phase' = [Phase EXCEPT ![c] = "started"] /\ Phase[c] = "accepted" /\ Home' = Home
        BY <1>2, <1>3, <1>6, PhaseMoves DEF PhaseAt
    <2>2. Home[c] = gen
        BY <1>1, <1>2, PhaseIs DEF StaysHome
    <2>3. Window = "open"
        BY <1>6 DEF Window
    <2>4. Contract!Start(c)
        BY <1>3, <1>4, <2>1, <2>2, <2>3 DEF Contract!Start
    <2> QED
        BY <2>4 DEF ContractStep, Contract!ContractNext
<1> QED
    BY <1>5, <1>6 DEF Takes, ReceiveClosing, ReceiveBusy, ReceiveStart, Reject

LEMMA StepKeeps ==
    ASSUME Inductive, Inductive', Fresh, [Next]_vars PROVE ContractStep
<1>1. CASE UNCHANGED vars
    <2>1. UNCHANGED <<stage, gen, at, of>>
        BY <1>1 DEF vars, sessionVars, callVars
    <2>2. Window' = Window
        BY <2>1 DEF Window
    <2> QED
        BY <2>1, <2>2, PhaseStays, StutterIs
<1>2. CASE ExitMove
    <2>1. UNCHANGED <<stage, gen, at, of>>
        BY <1>2, ExitMoveFrame DEF sessionVars, callVars
    <2>2. Window' = Window
        BY <2>1 DEF Window
    <2> QED
        BY <2>1, <2>2, PhaseStays, StutterIs
<1> QED
    BY <1>1, <1>2, NextCases, SessionMoveKeeps, CancelMoveKeeps, OutsideKeeps, EndsKeeps, TakesKeeps
    DEF Inductive

\* The commands of a terminal keep their contract, over any number of
\* connections: a command runs on the connection that accepted it or not at all,
\* it is settled before the next connection is opened, and nothing is outstanding
\* when the terminal has ended (run_remote_session, retire_command_queue,
\* finish_session_operations).
THEOREM ContractKept == Spec => KeepsContract
<1>1. Init => Fresh /\ Contract!ContractInit
    <2> SUFFICES ASSUME Init PROVE Fresh /\ Contract!ContractInit
        OBVIOUS
    <2>1. stage = "connecting" /\ gen = 0 /\ \A c \in Calls : at[c] = "new"
        BY DEF Init
    <2>2. Phase = [c \in Calls |-> "new"] /\ Home = [c \in Calls |-> 0]
        BY <2>1, PhaseIs DEF PhaseAt
    <2>3. Window = "before"
        BY <2>1 DEF Window
    <2> QED
        BY <2>1, <2>2, <2>3 DEF Fresh, Contract!ContractInit
<1>2. Inductive /\ Fresh /\ [Next]_vars => Fresh'
    BY FreshStep DEF Inductive
<1>3. Inductive /\ Inductive' /\ Fresh /\ [Next]_vars
          => [Contract!ContractNext]_(Contract!contractVars)
    BY StepKeeps DEF ContractStep
<1> QED
    BY <1>1, <1>2, <1>3, InductiveHolds, PTL DEF Spec, KeepsContract, Contract!ContractSpec
=============================================================================
