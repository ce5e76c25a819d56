---------------------------- MODULE StreamProofs ----------------------------
(***************************************************************************)
(* The output of a Telnet or serial terminal, for any limit on what is     *)
(* kept and any number of texts; and what their sessions promise over      *)
(* their reconnects, for any number of calls, commands in the channel and  *)
(* connections.                                                            *)
(***************************************************************************)
EXTENDS MCStreams, SequenceTheorems, TLAPS

-----------------------------------------------------------------------------
\* The way of the output.

OutputTypes ==
    /\ texts \in Nat
    /\ pending \in Seq(1..texts) /\ Len(pending) <= Retained
    /\ shown \in Seq(1..texts)

\* The texts of s are those that end with the nth.
Latest(s, n) ==
    /\ n > 0 => Len(s) > 0
    /\ \A i \in 1..Len(s) : s[i] = n - Len(s) + i

\* Before the attachment texts are kept, after it they are shown, one at a time.
Keeps == attached = FALSE /\ shown = <<>> /\ speaking = <<>> /\ Latest(pending, texts)
Shows == attached = TRUE /\ pending = <<>> /\ speaking = <<>> /\ Latest(shown, texts)
Speaks ==
    /\ attached = TRUE /\ pending = <<>>
    /\ texts > 0 /\ speaking = <<texts>> /\ Latest(shown, texts - 1)

OutputAgrees == OutputTypes /\ (Keeps \/ Shows \/ Speaks)

\* One more text can be the latest.
LEMMA OneMore ==
    ASSUME NEW n \in Nat, NEW s \in Seq(1..n), Latest(s, n)
    PROVE  /\ s \in Seq(1..(n + 1))
           /\ Append(s, n + 1) \in Seq(1..(n + 1)) /\ Len(Append(s, n + 1)) = Len(s) + 1
           /\ Latest(Append(s, n + 1), n + 1)
<1>1. s \in Seq(1..(n + 1)) /\ n + 1 \in 1..(n + 1)
  <2>1. 1..n \subseteq 1..(n + 1)
    OBVIOUS
  <2> QED
    BY <2>1, SeqMonotonic
<1>2. /\ Append(s, n + 1) \in Seq(1..(n + 1)) /\ Len(Append(s, n + 1)) = Len(s) + 1
      /\ \A i \in 1..Len(s) : Append(s, n + 1)[i] = s[i]
      /\ Append(s, n + 1)[Len(s) + 1] = n + 1
  BY <1>1
<1>3. Len(s) \in Nat
  BY LenProperties
<1> QED
  BY <1>1, <1>2, <1>3 DEF Latest

\* The oldest can go, as long as one stays.
LEMMA OneLess ==
    ASSUME NEW n \in Nat, NEW s \in Seq(1..n), Len(s) > 1, Latest(s, n)
    PROVE  Tail(s) \in Seq(1..n) /\ Len(Tail(s)) = Len(s) - 1 /\ Latest(Tail(s), n)
<1>1. Len(s) \in Nat /\ s # <<>>
  BY LenProperties, EmptySeq
<1>2. Tail(s) \in Seq(1..n) /\ Len(Tail(s)) = Len(s) - 1 /\ \A i \in 1..Len(Tail(s)) : Tail(s)[i] = s[i + 1]
  BY <1>1, HeadTailProperties
<1> QED
  BY <1>1, <1>2 DEF Latest

\* The text that was published last follows what was shown.
LEMMA SaidIsShown ==
    ASSUME NEW n \in Nat, n > 0, NEW s \in Seq(1..n), Latest(s, n - 1)
    PROVE  s \o <<n>> \in Seq(1..n) /\ Latest(s \o <<n>>, n)
<1>1. n \in 1..n
  OBVIOUS
<1>2. <<n>> \in Seq(1..n) /\ Len(<<n>>) = 1 /\ <<n>>[1] = n
  BY <1>1
<1>3. Len(s) \in Nat
  BY LenProperties
<1>4. /\ s \o <<n>> \in Seq(1..n) /\ Len(s \o <<n>>) = Len(s) + 1
      /\ \A i \in 1..Len(s) + 1 : (s \o <<n>>)[i] = IF i <= Len(s) THEN s[i] ELSE <<n>>[i - Len(s)]
  BY <1>2, ConcatProperties
<1> DEFINE joined == s \o <<n>>
<1>5. \A i \in 1..Len(s) : joined[i] = s[i]
  BY <1>3, <1>4
<1>6. joined[Len(s) + 1] = n
  BY <1>2, <1>3, <1>4
<1>7. Len(joined) = Len(s) + 1
  BY <1>4
<1> HIDE DEF joined
<1>8. Latest(joined, n)
  <2>1. ASSUME NEW i \in 1..Len(joined) PROVE joined[i] = n - Len(joined) + i
    <3>1. CASE i = Len(s) + 1
      BY <1>3, <1>6, <1>7, <3>1
    <3>2. CASE i \in 1..Len(s)
      BY <1>3, <1>5, <1>7, <3>2 DEF Latest
    <3> QED
      BY <1>3, <1>7, <3>1, <3>2
  <2> QED
    BY <1>3, <1>7, <2>1 DEF Latest
<1> QED
  BY <1>4, <1>8 DEF joined

LEMMA PublishKeeps ==
    ASSUME OutputAgrees, speaking = <<>>, Publish
    PROVE  OutputAgrees'
<1> DEFINE next == texts + 1
           kept == Append(pending, next)
<1>1. texts \in Nat /\ texts' = next /\ UNCHANGED <<attached, shown>> /\ Retained \in Nat \ {0}
  BY StreamAssumption DEF OutputAgrees, OutputTypes, Publish
<1>2. CASE Keeps
  <2>1. /\ pending \in Seq(1..next) /\ kept \in Seq(1..next) /\ Len(kept) = Len(pending) + 1
        /\ Latest(kept, next) /\ next \in Nat /\ Len(pending) \in Nat
    BY <1>1, <1>2, OneMore, LenProperties DEF OutputAgrees, OutputTypes, Keeps
  <2>2. pending' = (IF Len(kept) > Retained THEN Tail(kept) ELSE kept) /\ speaking' = <<>>
    BY <1>2 DEF Publish, Keeps
  <2>3. Len(pending) <= Retained
    BY DEF OutputAgrees, OutputTypes
  <2> HIDE DEF kept, next
  <2>4. pending' \in Seq(1..next) /\ Len(pending') <= Retained /\ Latest(pending', next)
    <3>1. CASE Len(kept) > Retained
      <4>1. Tail(kept) \in Seq(1..next) /\ Len(Tail(kept)) = Len(kept) - 1 /\ Latest(Tail(kept), next)
        BY <1>1, <2>1, <3>1, OneLess
      <4> QED
        BY <1>1, <2>1, <2>2, <2>3, <3>1, <4>1
    <3>2. CASE ~(Len(kept) > Retained)
      BY <1>1, <2>1, <2>2, <3>2
    <3> QED
      BY <3>1, <3>2
  <2>5. shown' = <<>> /\ shown' \in Seq(1..next) /\ attached' = FALSE
    BY <1>1, <1>2, EmptySeq DEF Keeps
  <2>6. Keeps'
    BY <1>1, <2>2, <2>4, <2>5 DEF Keeps, Latest
  <2>7. OutputTypes'
    BY <1>1, <2>1, <2>4, <2>5 DEF OutputTypes
  <2> QED
    BY <2>6, <2>7 DEF OutputAgrees
<1>3. CASE Shows
  <2>1. shown' = shown /\ shown \in Seq(1..next) /\ next \in Nat /\ next > 0
    BY <1>1, <1>3, OneMore DEF OutputAgrees, OutputTypes, Shows
  <2>2. speaking' = <<next>> /\ pending' = <<>> /\ attached' = TRUE
    BY <1>1, <1>3 DEF Publish, Shows
  <2>3. Latest(shown', texts' - 1)
    <3>1. next - 1 = texts
      BY <1>1
    <3> QED
      BY <1>1, <1>3, <2>1, <3>1 DEF Shows
  <2>4. Speaks'
    BY <1>1, <2>1, <2>2, <2>3 DEF Speaks, Latest
  <2>5. OutputTypes'
    <3>1. <<>> \in Seq(1..next) /\ Len(<<>>) = 0
      BY EmptySeq
    <3> QED
      BY <1>1, <2>1, <2>2, <3>1 DEF OutputTypes
  <2> QED
    BY <2>4, <2>5 DEF OutputAgrees
<1> QED
  BY <1>2, <1>3 DEF OutputAgrees, Speaks

LEMMA SilenceKeeps ==
    ASSUME OutputAgrees, UNCHANGED publishVars
    PROVE  OutputAgrees'
BY DEF publishVars, OutputAgrees, OutputTypes, Keeps, Shows, Speaks, Latest

LEMMA AttachKeeps ==
    ASSUME OutputAgrees, Attach
    PROVE  OutputAgrees'
<1>1. /\ shown' = shown \o pending /\ pending' = <<>> /\ attached' = TRUE
      /\ texts' = texts /\ speaking' = speaking
  BY DEF Attach
<1>2. /\ shown \in Seq(1..texts) /\ pending \in Seq(1..texts) /\ texts \in Nat /\ Retained \in Nat
      /\ <<>> \in Seq(1..texts) /\ Len(<<>>) = 0
  BY StreamAssumption, EmptySeq DEF OutputAgrees, OutputTypes
<1>3. shown' \in Seq(1..texts) /\ OutputTypes'
  <2>1. shown' \in Seq(1..texts)
    BY <1>1, <1>2, ConcatProperties
  <2> QED
    BY <1>1, <1>2, <2>1 DEF OutputTypes
<1>4. CASE Keeps
  <2>1. shown' = pending
    BY <1>1, <1>2, <1>4, ConcatEmptySeq DEF Keeps
  <2>2. Shows'
    BY <1>1, <1>4, <2>1 DEF Keeps, Shows, Latest
  <2> QED
    BY <1>3, <2>2 DEF OutputAgrees
<1>5. CASE Shows \/ Speaks
  <2>1. shown' = shown
    BY <1>1, <1>2, <1>5, ConcatEmptySeq DEF Shows, Speaks
  <2>2. Shows' \/ Speaks'
    BY <1>1, <1>5, <2>1 DEF Shows, Speaks, Latest
  <2> QED
    BY <1>3, <2>2 DEF OutputAgrees
<1> QED
  BY <1>4, <1>5 DEF OutputAgrees

LEMMA EmitKeeps ==
    ASSUME OutputAgrees, Emit
    PROVE  OutputAgrees' /\ speaking' = <<>>
<1>1. /\ shown' = shown \o speaking /\ speaking' = <<>> /\ speaking # <<>>
      /\ UNCHANGED <<attached, pending, texts>>
  BY DEF Emit
<1>2. attached' = TRUE /\ pending' = <<>> /\ texts > 0 /\ speaking = <<texts>> /\ Latest(shown, texts - 1)
  BY <1>1 DEF OutputAgrees, Keeps, Shows, Speaks
<1>3. shown \in Seq(1..texts) /\ texts \in Nat
  BY DEF OutputAgrees, OutputTypes
<1>4. shown' \in Seq(1..texts) /\ Latest(shown', texts)
  BY <1>1, <1>2, <1>3, SaidIsShown
<1>5. Shows'
  BY <1>1, <1>2, <1>4 DEF Shows, Latest
<1>6. OutputTypes'
  BY <1>1, <1>4 DEF OutputAgrees, OutputTypes
<1> QED
  BY <1>1, <1>5, <1>6 DEF OutputAgrees

LEMMA FinishOutputKeeps ==
    ASSUME OutputAgrees, speaking = <<>>, FinishOutput
    PROVE  OutputAgrees' /\ carry' = 0
BY PublishKeeps, SilenceKeeps DEF FinishOutput

LEMMA PublishFromKeeps ==
    ASSUME OutputAgrees, speaking = <<>>, NEW origin, PublishFrom(origin)
    PROVE  OutputAgrees' /\ carry' \in {0, origin, carry}
BY PublishKeeps, SilenceKeeps DEF PublishFrom

LEMMA OutputInit ==
    ASSUME StreamInit
    PROVE  OutputAgrees
<1>1. <<>> \in Seq(1..texts) /\ Len(<<>>) = 0
  BY EmptySeq
<1>2. texts = 0 /\ pending = <<>> /\ shown = <<>> /\ speaking = <<>> /\ attached = FALSE /\ Retained \in Nat
  BY StreamAssumption DEF StreamInit
<1>3. OutputTypes
  BY <1>1, <1>2 DEF OutputTypes
<1>4. Keeps
  BY <1>1, <1>2 DEF Keeps, Latest
<1> QED
  BY <1>3, <1>4 DEF OutputAgrees

\* What is shown, being said and kept is then one unbroken run.
LEMMA AgreesUnbroken ==
    ASSUME OutputAgrees
    PROVE  OutputUnbroken
<1> DEFINE heard == shown \o speaking \o pending
<1>1. /\ shown \in Seq(1..texts) /\ pending \in Seq(1..texts) /\ texts \in Nat
      /\ <<>> \in Seq(1..texts) /\ Len(<<>>) = 0
  BY EmptySeq DEF OutputAgrees, OutputTypes
<1>2. heard \in Seq(1..texts) /\ Latest(heard, texts)
  <2>1. CASE Keeps
    <3>1. heard = pending
      BY <1>1, <2>1, ConcatEmptySeq DEF Keeps
    <3> QED
      BY <1>1, <2>1, <3>1 DEF Keeps
  <2>2. CASE Shows
    <3>1. heard = shown
      BY <1>1, <2>2, ConcatEmptySeq DEF Shows
    <3> QED
      BY <1>1, <2>2, <3>1 DEF Shows
  <2>3. CASE Speaks
    <3>1. shown \o speaking \in Seq(1..texts) /\ Latest(shown \o speaking, texts)
      BY <1>1, <2>3, SaidIsShown DEF Speaks
    <3>2. heard = shown \o speaking
      BY <2>3, <3>1, ConcatEmptySeq DEF Speaks
    <3> QED
      BY <3>1, <3>2
  <2> QED
    BY <2>1, <2>2, <2>3 DEF OutputAgrees
<1> HIDE DEF heard
<1>3. Len(heard) \in Nat
  BY <1>2, LenProperties
<1> QED
  BY <1>2, <1>3 DEF Latest, OutputUnbroken, heard

-----------------------------------------------------------------------------
\* The channel.

Places == {"new", "sender", "queued", "taken", "dropped", "refused"}

\* A command is in the channel once at most, and nowhere else meanwhile.
QueueAgrees ==
    /\ queue \in Seq(Calls) /\ at \in [Calls -> Places]
    /\ \A i \in 1..Len(queue) : at[queue[i]] = "queued"
    /\ \A i, j \in 1..Len(queue) : queue[i] = queue[j] => i = j

\* A call that is not in the channel moves to another place outside it.
LEMMA OutsideKeeps ==
    ASSUME QueueAgrees, NEW c \in Calls, at[c] \in {"new", "sender"},
           NEW place \in {"sender", "refused"}, at' = [at EXCEPT ![c] = place], queue' = queue
    PROVE  QueueAgrees'
<1>1. at' \in [Calls -> Places]
  BY DEF QueueAgrees, Places
<1>2. \A i \in 1..Len(queue) : queue[i] \in Calls /\ at[queue[i]] = "queued"
  BY ElementOfSeq DEF QueueAgrees
<1> QED
  BY <1>1, <1>2 DEF QueueAgrees

\* send() puts a command in.
LEMMA EntersKeeps ==
    ASSUME QueueAgrees, NEW c \in Calls, at[c] = "sender", at' = [at EXCEPT ![c] = "queued"],
           queue' = Append(queue, c)
    PROVE  /\ QueueAgrees'
           /\ Len(queue) \in Nat /\ Len(queue') = Len(queue) + 1 /\ queue'[Len(queue) + 1] = c
           /\ \A i \in 1..Len(queue) : queue'[i] = queue[i] /\ queue[i] \in Calls /\ queue[i] # c
<1>1. queue \in Seq(Calls) /\ at' \in [Calls -> Places] /\ Len(queue) \in Nat
  BY LenProperties DEF QueueAgrees, Places
<1>2. /\ queue' \in Seq(Calls) /\ Len(queue') = Len(queue) + 1 /\ queue'[Len(queue) + 1] = c
      /\ \A i \in 1..Len(queue) : queue'[i] = queue[i]
  BY <1>1
<1>3. \A i \in 1..Len(queue) : queue[i] \in Calls /\ at[queue[i]] = "queued" /\ queue[i] # c
  BY <1>1, ElementOfSeq DEF QueueAgrees
<1>4. \A i \in 1..Len(queue') : i \in 1..Len(queue) \/ i = Len(queue) + 1
  BY <1>1, <1>2
<1>5. \A i \in 1..Len(queue') : at'[queue'[i]] = "queued"
  BY <1>1, <1>2, <1>3, <1>4 DEF QueueAgrees
<1>6. \A i, j \in 1..Len(queue') : queue'[i] = queue'[j] => i = j
  BY <1>2, <1>3, <1>4 DEF QueueAgrees
<1> QED
  BY <1>1, <1>2, <1>3, <1>5, <1>6 DEF QueueAgrees

\* recv() takes the first one out.
LEMMA TakeKeeps ==
    ASSUME QueueAgrees, NEW c, Take(c)
    PROVE  /\ QueueAgrees'
           /\ c \in Calls /\ at[c] = "queued" /\ at' = [at EXCEPT ![c] = "taken"] /\ speaking = <<>>
           /\ Len(queue) \in Nat \ {0} /\ queue[1] = c /\ Len(queue') = Len(queue) - 1
           /\ \A i \in 1..Len(queue') : queue'[i] = queue[i + 1] /\ queue[i + 1] \in Calls /\ queue[i + 1] # c
<1>1. /\ queue \in Seq(Calls) /\ queue # <<>> /\ c = Head(queue) /\ queue' = Tail(queue)
      /\ at' = [at EXCEPT ![c] = "taken"] /\ speaking = <<>>
  BY DEF QueueAgrees, Take, Move
<1>2. Len(queue) \in Nat \ {0} /\ queue[1] = c /\ c \in Calls
  BY <1>1, EmptySeq, ElementOfSeq
<1>3. /\ queue' \in Seq(Calls) /\ Len(queue') = Len(queue) - 1
      /\ \A i \in 1..Len(queue') : queue'[i] = queue[i + 1]
  BY <1>1, HeadTailProperties
<1>4. at[c] = "queued" /\ at' \in [Calls -> Places]
  BY <1>1, <1>2 DEF QueueAgrees, Places
<1>5. ASSUME NEW i \in 1..Len(queue')
      PROVE  /\ queue'[i] = queue[i + 1] /\ queue[i + 1] \in Calls /\ queue[i + 1] # c
             /\ at'[queue'[i]] = "queued"
  <2>1. i + 1 \in 1..Len(queue) /\ i + 1 # 1 /\ 1 \in 1..Len(queue)
    BY <1>2, <1>3
  <2>2. queue[i + 1] \in Calls
    BY <1>1, <2>1, ElementOfSeq
  <2> QED
    BY <1>1, <1>2, <1>3, <2>1, <2>2 DEF QueueAgrees
<1>6. \A i, j \in 1..Len(queue') : queue'[i] = queue'[j] => i = j
  <2> SUFFICES ASSUME NEW i \in 1..Len(queue'), NEW j \in 1..Len(queue'), queue'[i] = queue'[j]
               PROVE  i = j
    OBVIOUS
  <2>1. i + 1 \in 1..Len(queue) /\ j + 1 \in 1..Len(queue) /\ queue[i + 1] = queue[j + 1]
    BY <1>2, <1>3
  <2>2. i + 1 = j + 1
    BY <2>1 DEF QueueAgrees
  <2> QED
    BY <1>2, <1>3, <2>2
<1> QED
  BY <1>1, <1>2, <1>3, <1>4, <1>5, <1>6 DEF QueueAgrees

\* The session task drops its Receiver.
LEMMA LeaveKeeps ==
    ASSUME QueueAgrees, Leave
    PROVE  QueueAgrees' /\ queue' = <<>> /\ Len(queue') = 0
<1>1. <<>> \in Seq(Calls) /\ Len(<<>>) = 0
  BY EmptySeq
<1>2. queue' = <<>> /\ at' \in [Calls -> Places]
  BY DEF Leave, QueueAgrees, Places
<1> QED
  BY <1>1, <1>2 DEF QueueAgrees

LEMMA ChannelStays ==
    ASSUME QueueAgrees, UNCHANGED callVars
    PROVE  QueueAgrees'
BY DEF QueueAgrees, callVars

LEMMA ChannelInit ==
    ASSUME StreamInit
    PROVE  QueueAgrees /\ Len(queue) = 0
<1>1. <<>> \in Seq(Calls) /\ Len(<<>>) = 0
  BY EmptySeq
<1>2. queue = <<>> /\ at \in [Calls -> Places]
  BY DEF StreamInit, Places
<1> QED
  BY <1>1, <1>2 DEF QueueAgrees

\* The events that the sessions of both kinds of terminal apply.
LEMMA Applied ==
    /\ Apply("connected", "ConnectionLost") = "reconnecting"
    /\ Apply("reconnecting", "BeginReconnect") = "connecting"
    /\ Apply("failed", "BeginReconnect") = "connecting"
    /\ Apply("connecting", "BeginAuthentication") = "authenticating"
    /\ Apply("authenticating", "AuthenticationSucceeded") = "connected"
    /\ Apply("connecting", "Fail") = "failed"
    /\ \A s \in LifecycleStates :
          /\ Apply(s, "DisconnectRequested") \in LifecycleStates
          /\ Apply(s, "Disconnected") \in LifecycleStates
BY DEF Apply, Transitions, Busy, LifecycleStates

-----------------------------------------------------------------------------
\* A Telnet session.

WireTypes ==
    /\ state \in LifecycleStates
    /\ told \in {"connected", "reconnecting", "disconnected", "failed"}
    /\ connection \in Nat \ {0} /\ greeted \in 1..connection
    /\ chunks \in 0..MaxTexts /\ carry \in Nat
    /\ registered \in BOOLEAN /\ receiving \in BOOLEAN
    /\ partial \in BOOLEAN /\ torn \in BOOLEAN

\* Where the session task is tells what the renderer was told and whether a text is on its way.
TaskAgrees ==
    /\ task \in {"select", "writing", "dialing", "greeting", "greeted",
                 "ending", "closing", "closed", "over"}
    /\ speaking # <<>> => task \in {"select", "greeted", "closing"}
    /\ task = "select" =>
          /\ state \in {"connected", "reconnecting", "failed"}
          /\ told = "connected" => state = "connected"
    /\ task = "writing" => state = "connected"
    /\ task \in {"dialing", "greeting", "greeted"} => told = "reconnecting"
    /\ task = "dialing" => state = "connecting"
    /\ task \in {"greeting", "greeted"} => state = "connected"

\* What is buffered came over this connection, and the decoder holds no character that was
\* begun before the last one that was established; it is this one when the renderer was told.
WireAgrees ==
    /\ unread \in {<<>>, <<connection>>} /\ responses \in {<<>>, <<connection>>}
    /\ carry = 0 \/ carry \in greeted..connection
    /\ task = "greeted" \/ told = "connected" => greeted = connection

\* A command that is meant for one connection is written there at most: as long as it is in
\* the channel, that is the present one, with no reconnect before it.
PinsAgree ==
    /\ pinned \in [Calls -> Nat] /\ written \in [Calls -> Nat]
    /\ \A c \in Calls : written[c] # 0 => at[c] = "taken"
    /\ \A i \in 1..Len(queue) : pinned[queue[i]] # 0 =>
          /\ pinned[queue[i]] = connection
          /\ task \notin {"dialing", "greeting"}
          /\ \A j \in 1..Len(queue) : j < i => Kind[queue[j]] # "reconnect"
    /\ \A c \in Calls : pinned[c] # 0 /\ written[c] # 0 => written[c] = pinned[c]

TelnetInductive ==
    OutputAgrees /\ QueueAgrees /\ WireTypes /\ TaskAgrees /\ WireAgrees /\ PinsAgree

\* The steps of a Telnet session that leave its channel and its writes alone, and the rest.
Quietly ==
    \/ Attaches \/ Emits \/ FlushSome \/ FlushFails \/ Deliver \/ Receive \/ ReceiveEnds
    \/ WriteDone \/ WriteFails \/ DialFails \/ DialSucceeds \/ GreetFails \/ Greet \/ ReconnectDone
    \/ EndOutput \/ Close \/ Forget

Called(c) == CallIssues(c) \/ CallSends(c)
Served(c) == SkipCommand(c) \/ StartWrite(c) \/ StartReconnect(c) \/ StartClose(c)

LEMMA TelnetCases ==
    ASSUME Next
    PROVE  Quietly \/ End \/ \E c \in Calls : Called(c) \/ Served(c)
BY DEF Next, SessionStep, Quietly, Called, Served

LEMMA QuietlyKeepsCalls ==
    ASSUME Quietly
    PROVE  UNCHANGED <<callVars, inputVars>>
BY DEF Quietly, Attaches, Attach, Emits, Emit, FlushSome, FlushFails, Deliver, Receive, ReceiveEnds,
       WriteDone, WriteFails, DialFails, DialSucceeds, GreetFails, Greet, ReconnectDone,
       EndOutput, Close, Forget, Remove, streamVars, callVars, inputVars

LEMMA TelnetOutput ==
    ASSUME OutputAgrees, TaskAgrees, [Next]_vars
    PROVE  OutputAgrees'
<1>1. CASE Attaches
  BY <1>1, AttachKeeps DEF Attaches
<1>2. CASE Emits
  BY <1>2, EmitKeeps DEF Emits
<1>3. CASE Deliver
  BY <1>3, PublishFromKeeps DEF Deliver, Reading
<1>4. CASE Greet
  BY <1>4, FinishOutputKeeps DEF Greet, TaskAgrees
<1>5. CASE EndOutput
  BY <1>5, FinishOutputKeeps DEF EndOutput, TaskAgrees
<1>6. CASE \/ FlushSome \/ FlushFails \/ Receive \/ ReceiveEnds \/ WriteDone \/ WriteFails \/ DialFails
           \/ DialSucceeds \/ GreetFails \/ ReconnectDone \/ Close \/ Forget \/ End
           \/ \E c \in Calls : Called(c) \/ Served(c)
           \/ UNCHANGED vars
  <2>1. UNCHANGED publishVars
    BY <1>6 DEF FlushSome, FlushFails, Receive, ReceiveEnds, WriteDone, WriteFails, DialFails,
                DialSucceeds, GreetFails, ReconnectDone, Close, Forget, Remove, End, Leave,
                Called, CallIssues, Issue, CallSends, Send, Served, SkipCommand, StartWrite,
                StartReconnect, StartClose, streamVars, outputVars, vars
  <2> QED
    BY <2>1, SilenceKeeps
<1> QED
  BY <1>1, <1>2, <1>3, <1>4, <1>5, <1>6, TelnetCases DEF Quietly

LEMMA TelnetTask ==
    ASSUME TaskAgrees, [Next]_vars
    PROVE  TaskAgrees'
<1> USE DEF TaskAgrees, sessionVars, streamVars, outputVars, publishVars, wireVars, inputVars
<1>1. CASE Attaches \/ Emits
  BY <1>1, Applied DEF Attaches, Attach, Emits, Emit
<1>2. CASE FlushSome
  BY <1>2, Applied DEF FlushSome
<1>3. CASE FlushFails \/ ReceiveEnds
  BY <1>3, Applied DEF FlushFails, ReceiveEnds, Reading, Lose
<1>4. CASE Receive
  BY <1>4, Applied DEF Receive
<1>5. CASE WriteDone
  BY <1>5, Applied DEF WriteDone
<1>6. CASE WriteFails
  BY <1>6, Applied DEF WriteFails, Lose
<1>7. CASE DialFails
  BY <1>7, Applied DEF DialFails
<1>8. CASE DialSucceeds
  BY <1>8, Applied DEF DialSucceeds
<1>9. CASE GreetFails
  BY <1>9, Applied DEF GreetFails, Busy
<1>10. CASE ReconnectDone
  BY <1>10, Applied DEF ReconnectDone
<1>11. CASE Close
  BY <1>11, Applied DEF Close
<1>12. CASE Forget
  BY <1>12, Applied DEF Forget, Remove
<1>13. CASE End
  BY <1>13, Applied DEF End, Leave
<1>14. CASE Deliver
  BY <1>14 DEF Deliver, Reading
<1>15. CASE Greet \/ EndOutput
  BY <1>15 DEF Greet, EndOutput
<1>16. ASSUME NEW c \in Calls, Called(c) PROVE TaskAgrees'
  BY <1>16 DEF Called, CallIssues, Issue, CallSends, Send
<1>17. ASSUME NEW c \in Calls, SkipCommand(c) PROVE TaskAgrees'
  BY <1>17, Applied DEF SkipCommand, Serve, Take
<1>18. ASSUME NEW c \in Calls, StartWrite(c) PROVE TaskAgrees'
  BY <1>18, Applied DEF StartWrite, Serve, Take
<1>19. ASSUME NEW c \in Calls, StartReconnect(c) PROVE TaskAgrees'
  BY <1>19, Applied DEF StartReconnect, Serve, Take
<1>20. ASSUME NEW c \in Calls, StartClose(c) PROVE TaskAgrees'
  BY <1>20, Applied DEF StartClose, Serve, Take
<1>21. CASE UNCHANGED vars
  BY <1>21 DEF vars
<1> QED
  BY <1>1, <1>2, <1>3, <1>4, <1>5, <1>6, <1>7, <1>8, <1>9, <1>10, <1>11, <1>12, <1>13, <1>14, <1>15, <1>16, <1>17, <1>18, <1>19, <1>20, <1>21, TelnetCases DEF Quietly, Served

LEMMA TelnetBooleans ==
    ASSUME WireTypes, [Next]_vars
    PROVE  /\ registered' \in BOOLEAN /\ receiving' \in BOOLEAN
           /\ partial' \in BOOLEAN /\ torn' \in BOOLEAN
<1> USE DEF WireTypes, sessionVars, streamVars, outputVars, publishVars, wireVars, inputVars
<1>1. CASE Quietly
  BY <1>1 DEF Quietly, Attaches, Attach, Emits, Emit, FlushSome, FlushFails, Deliver, Receive, ReceiveEnds,
       WriteDone, WriteFails, DialFails, DialSucceeds, GreetFails, Greet, ReconnectDone,
       EndOutput, Close, Forget, Remove
<1>2. CASE End
  BY <1>2 DEF End, Leave
<1>3. ASSUME NEW c \in Calls, Called(c)
      PROVE  UNCHANGED <<registered, receiving, partial, torn>>
  BY <1>3 DEF Called, CallIssues, Issue, CallSends, Send
<1>4. ASSUME NEW c \in Calls, Served(c)
      PROVE  UNCHANGED <<registered, receiving, partial>> /\ torn' \in BOOLEAN
  BY <1>4 DEF Served, SkipCommand, StartWrite, StartReconnect, StartClose
<1>5. CASE UNCHANGED vars
  BY <1>5 DEF vars
<1> QED
  BY <1>1, <1>2, <1>3, <1>4, <1>5, TelnetCases

\* The decoder is finished when a connection is established, and filled from the present one.
LEMMA TelnetWire ==
    ASSUME WireTypes, TaskAgrees, WireAgrees, [Next]_vars
    PROVE  WireTypes' /\ WireAgrees'
<1> DEFINE Typed == /\ state' \in LifecycleStates
                    /\ told' \in {"connected", "reconnecting", "disconnected", "failed"}
                    /\ connection' \in Nat \ {0} /\ greeted' \in 1..connection'
                    /\ chunks' \in 0..MaxTexts /\ carry' \in Nat
<1>1. SUFFICES Typed /\ WireAgrees'
  BY TelnetBooleans DEF WireTypes
<1> USE DEF WireTypes, WireAgrees, sessionVars, streamVars, outputVars, publishVars, wireVars, inputVars
<1>2. CASE Attaches \/ Emits \/ Forget \/ End \/ UNCHANGED vars
  BY <1>2 DEF Attaches, Attach, Emits, Emit, Forget, Remove, End, Leave, vars
<1>3. CASE FlushSome \/ WriteDone
  BY <1>3 DEF FlushSome, WriteDone
<1>4. CASE FlushFails \/ ReceiveEnds \/ WriteFails
  BY <1>4, Applied DEF FlushFails, ReceiveEnds, WriteFails, Reading, Lose, TaskAgrees, LifecycleStates
<1>5. CASE Deliver
  <2>1. Head(unread) = connection /\ unread' = <<>>
    BY <1>5 DEF Deliver
  <2>2. carry' \in {0, connection, carry}
    BY <1>5, <2>1 DEF Deliver, PublishFrom
  <2> QED
    BY <1>5, <2>1, <2>2 DEF Deliver, Reading
<1>6. CASE Receive
  <2>1. chunks' \in 0..MaxTexts
    BY <1>6, StreamAssumption DEF Receive
  <2> QED
    BY <1>6, <2>1 DEF Receive
<1>7. CASE DialFails \/ GreetFails
  BY <1>7, Applied DEF DialFails, GreetFails, TaskAgrees, LifecycleStates, Busy
<1>8. CASE DialSucceeds
  <2>1. state' \in LifecycleStates
    BY <1>8, Applied DEF DialSucceeds, TaskAgrees, LifecycleStates
  <2>2. /\ connection' = connection + 1 /\ greeted' = greeted /\ carry' = carry
        /\ unread' = <<>> /\ responses' = <<>> /\ told' = told /\ chunks' = chunks
        /\ task' = "greeting" /\ told' # "connected"
    BY <1>8 DEF DialSucceeds, TaskAgrees
  <2> QED
    BY <2>1, <2>2
<1>9. CASE Greet \/ EndOutput
  <2>1. carry' = 0 /\ greeted' \in {greeted, connection} /\ connection' = connection
    BY <1>9 DEF Greet, EndOutput, FinishOutput
  <2> QED
    BY <1>9, <2>1 DEF Greet, EndOutput
<1>10. CASE ReconnectDone
  BY <1>10 DEF ReconnectDone
<1>11. CASE Close
  <2>1. state' \in LifecycleStates
    BY <1>11, Applied DEF Close
  <2> QED
    BY <1>11, <2>1 DEF Close
<1>12. ASSUME NEW c \in Calls, Called(c) PROVE Typed /\ WireAgrees'
  BY <1>12 DEF Called, CallIssues, Issue, CallSends, Send
<1>13. ASSUME NEW c \in Calls, SkipCommand(c) \/ StartWrite(c) \/ StartClose(c) PROVE Typed /\ WireAgrees'
  BY <1>13 DEF SkipCommand, StartWrite, StartClose
<1>14. ASSUME NEW c \in Calls, StartReconnect(c) PROVE Typed /\ WireAgrees'
  BY <1>14, Applied DEF StartReconnect, Serve, TaskAgrees, LifecycleStates
<1> QED
  BY <1>2, <1>3, <1>4, <1>5, <1>6, <1>7, <1>8, <1>9, <1>10, <1>11, <1>12, <1>13, <1>14, TelnetCases
     DEF Quietly, Served

\* As long as the connection stays, or a reconnect is under way, so does what waits for it.
LEMMA PinsStay ==
    ASSUME PinsAgree, UNCHANGED <<callVars, inputVars>>,
           \/ connection' = connection /\ task' \notin {"dialing", "greeting"}
           \/ task \in {"dialing", "greeting"}
    PROVE  PinsAgree'
BY DEF PinsAgree, callVars, inputVars

LEMMA TelnetPins ==
    ASSUME WireTypes, QueueAgrees, TaskAgrees, PinsAgree, [Next]_vars
    PROVE  QueueAgrees' /\ PinsAgree'
<1>1. CASE Quietly
  <2>1. UNCHANGED <<callVars, inputVars>>
    BY <1>1, QuietlyKeepsCalls
  <2>2. \/ connection' = connection /\ task' = task
        \/ connection' = connection /\ task' \notin {"dialing", "greeting"}
        \/ task \in {"dialing", "greeting"}
    BY <1>1 DEF Quietly, Attaches, Emits, FlushSome, FlushFails, Deliver, Receive, ReceiveEnds,
       WriteDone, WriteFails, DialFails, DialSucceeds, GreetFails, Greet, ReconnectDone,
       EndOutput, Close, Forget, sessionVars
  <2> QED
    BY <2>1, <2>2, PinsStay, ChannelStays
<1>2. CASE UNCHANGED vars
  BY <1>2, PinsStay, ChannelStays DEF vars, streamVars, sessionVars
<1>3. CASE End
  <2>1. /\ QueueAgrees' /\ Len(queue') = 0 /\ UNCHANGED inputVars
        /\ at' = [c \in Calls |-> IF at[c] = "queued" THEN "dropped" ELSE at[c]]
    BY <1>3, LeaveKeeps DEF End, Leave
  <2> QED
    BY <2>1 DEF PinsAgree, inputVars
<1>4. ASSUME NEW c \in Calls, CallIssues(c)
      PROVE  QueueAgrees' /\ PinsAgree'
  <2>1. /\ at[c] = "new" /\ UNCHANGED <<queue, inputVars, task, connection>>
        /\ \E place \in {"sender", "refused"} : at' = [at EXCEPT ![c] = place]
    BY <1>4 DEF CallIssues, Issue, Move, sessionVars
  <2>2. QueueAgrees'
    BY <2>1, OutsideKeeps
  <2>3. \A d \in Calls : written[d] # 0 => at'[d] = "taken"
    BY <2>1 DEF PinsAgree, QueueAgrees
  <2> QED
    BY <2>1, <2>2, <2>3 DEF PinsAgree, inputVars
<1>5. ASSUME NEW c \in Calls, CallSends(c)
      PROVE  QueueAgrees' /\ PinsAgree'
  <2>1. /\ at[c] = "sender" /\ UNCHANGED <<written, task, connection>>
        /\ pinned' = [pinned EXCEPT ![c] = Pin(c)]
    BY <1>5 DEF CallSends, Send, sessionVars
  <2>2. Pin(c) \in {0, connection} /\ Pin(c) \in Nat
    BY DEF Pin, WireTypes
  <2>3. pinned' \in [Calls -> Nat] /\ pinned'[c] = Pin(c) /\ \A d \in Calls : d # c => pinned'[d] = pinned[d]
    BY <2>1, <2>2 DEF PinsAgree
  <2>4. written[c] = 0
    BY <2>1 DEF PinsAgree
  <2>5. CASE at' = [at EXCEPT ![c] = "refused"] /\ queue' = queue
    <3>1. QueueAgrees'
      BY <2>1, <2>5, OutsideKeeps
    <3>2. \A i \in 1..Len(queue) : queue[i] \in Calls /\ queue[i] # c
      BY <2>1, ElementOfSeq DEF QueueAgrees
    <3>3. \A d \in Calls : written[d] # 0 => at'[d] = "taken"
      BY <2>1, <2>4, <2>5 DEF PinsAgree, QueueAgrees
    <3> QED
      BY <2>1, <2>3, <2>4, <2>5, <3>1, <3>2, <3>3 DEF PinsAgree
  <2>6. CASE at' = [at EXCEPT ![c] = "queued"] /\ queue' = Append(queue, c)
    <3>1. /\ QueueAgrees'
          /\ Len(queue) \in Nat /\ Len(queue') = Len(queue) + 1 /\ queue'[Len(queue) + 1] = c
          /\ \A i \in 1..Len(queue) : queue'[i] = queue[i] /\ queue[i] \in Calls /\ queue[i] # c
      BY <2>1, <2>6, EntersKeeps
    <3>2. \A d \in Calls : written[d] # 0 => at'[d] = "taken"
      BY <2>1, <2>4, <2>6 DEF PinsAgree, QueueAgrees
    <3>3. \A d \in Calls : pinned'[d] # 0 /\ written[d] # 0 => written[d] = pinned'[d]
      BY <2>3, <2>4 DEF PinsAgree
    <3>4. ASSUME NEW i \in 1..Len(queue'), pinned'[queue'[i]] # 0
          PROVE  /\ pinned'[queue'[i]] = connection
                 /\ task \notin {"dialing", "greeting"}
                 /\ \A j \in 1..Len(queue') : j < i => Kind[queue'[j]] # "reconnect"
      <4>1. CASE i \in 1..Len(queue)
        <5>1. queue'[i] = queue[i] /\ pinned[queue[i]] # 0 /\ pinned'[queue'[i]] = pinned[queue[i]]
          BY <2>3, <3>1, <3>4, <4>1
        <5>2. \A j \in 1..Len(queue') : j < i => j \in 1..Len(queue) /\ queue'[j] = queue[j]
          BY <3>1, <4>1
        <5> QED
          BY <4>1, <5>1, <5>2 DEF PinsAgree
      <4>2. CASE i = Len(queue) + 1
        <5>1. queue'[i] = c /\ Pin(c) # 0
          BY <2>3, <3>1, <3>4, <4>2
        <5>2. /\ pinned'[c] = connection /\ task \notin {"dialing", "greeting"}
              /\ \A j \in 1..Len(queue) : Kind[queue[j]] # "reconnect"
          BY <2>3, <5>1 DEF Pin
        <5>3. \A j \in 1..Len(queue') : j < i => j \in 1..Len(queue) /\ queue'[j] = queue[j]
          BY <3>1, <4>2
        <5> QED
          BY <5>1, <5>2, <5>3
      <4> QED
        BY <3>1, <4>1, <4>2
    <3> QED
      BY <2>1, <2>3, <3>1, <3>2, <3>3, <3>4 DEF PinsAgree
  <2> QED
    BY <1>5, <2>5, <2>6 DEF CallSends, Send, Move
<1>6. ASSUME NEW c \in Calls, Served(c)
      PROVE  QueueAgrees' /\ PinsAgree'
  <2>1. task = "select" /\ Take(c) /\ UNCHANGED <<connection, pinned>>
    BY <1>6 DEF Served, SkipCommand, StartWrite, StartReconnect, StartClose, Serve, sessionVars, inputVars
  <2>2. /\ QueueAgrees'
        /\ at[c] = "queued" /\ at' = [at EXCEPT ![c] = "taken"]
        /\ Len(queue) \in Nat \ {0} /\ queue[1] = c /\ Len(queue') = Len(queue) - 1
        /\ \A i \in 1..Len(queue') : queue'[i] = queue[i + 1] /\ queue[i + 1] \in Calls /\ queue[i + 1] # c
    BY <2>1, TakeKeeps
  <2>3. written' = written \/ written' = [written EXCEPT ![c] = connection]
    BY <1>6 DEF Served, SkipCommand, StartWrite, StartReconnect, StartClose, inputVars
  <2>4. task' \in {"dialing", "greeting"} => Kind[c] = "reconnect"
    BY <1>6, <2>1 DEF Served, SkipCommand, StartWrite, StartReconnect, StartClose, sessionVars
  <2>5. pinned[c] # 0 => pinned[c] = connection
    BY <2>2 DEF PinsAgree
  <2>6. written' \in [Calls -> Nat] /\ \A d \in Calls : d # c => written'[d] = written[d]
    BY <2>3 DEF PinsAgree, WireTypes
  <2>7. written'[c] \in {written[c], connection}
    BY <2>3 DEF PinsAgree
  <2>8. \A d \in Calls : written'[d] # 0 => at'[d] = "taken"
    <3>1. at \in [Calls -> Places]
      BY DEF QueueAgrees
    <3>2. at'[c] = "taken"
      BY <2>2, <3>1
    <3>3. \A d \in Calls : d # c => at'[d] = at[d]
      BY <2>2, <3>1
    <3> QED
      BY <2>6, <3>2, <3>3 DEF PinsAgree
  <2>9. \A d \in Calls : pinned[d] # 0 /\ written'[d] # 0 => written'[d] = pinned[d]
    BY <2>5, <2>6, <2>7 DEF PinsAgree
  <2>10. ASSUME NEW i \in 1..Len(queue'), pinned[queue'[i]] # 0
         PROVE  /\ pinned[queue'[i]] = connection
                /\ task' \notin {"dialing", "greeting"}
                /\ \A j \in 1..Len(queue') : j < i => Kind[queue'[j]] # "reconnect"
    <3>1. i + 1 \in 1..Len(queue) /\ 1 < i + 1 /\ 1 \in 1..Len(queue) /\ queue'[i] = queue[i + 1]
      BY <2>2
    <3>2. pinned[queue[i + 1]] = connection /\ Kind[queue[1]] # "reconnect"
          /\ \A j \in 1..Len(queue) : j < i + 1 => Kind[queue[j]] # "reconnect"
      BY <2>10, <3>1 DEF PinsAgree
    <3>3. \A j \in 1..Len(queue') : j < i => j + 1 \in 1..Len(queue) /\ j + 1 < i + 1 /\ queue'[j] = queue[j + 1]
      BY <2>2, <3>1
    <3> QED
      BY <2>2, <2>4, <3>1, <3>2, <3>3
  <2> QED
    BY <2>1, <2>2, <2>6, <2>8, <2>9, <2>10 DEF PinsAgree
<1> QED
  BY <1>1, <1>2, <1>3, <1>4, <1>5, <1>6, TelnetCases DEF Called

LEMMA TelnetNextKeeps == TelnetInductive /\ [Next]_vars => TelnetInductive'
BY TelnetOutput, TelnetTask, TelnetWire, TelnetPins DEF TelnetInductive

LEMMA TelnetInitEstablishes == Init => TelnetInductive
<1> SUFFICES ASSUME Init PROVE TelnetInductive
  OBVIOUS
<1>1. OutputAgrees /\ QueueAgrees /\ Len(queue) = 0
  BY OutputInit, ChannelInit DEF Init
<1>2. WireTypes /\ WireAgrees
  <2>1. connection = 1 /\ greeted = 1 /\ chunks = 0 /\ carry = 0 /\ state = "connected" /\ told = "connected" /\ task = "select"
    BY DEF Init, StreamInit
  <2>2. registered \in BOOLEAN /\ receiving \in BOOLEAN /\ partial \in BOOLEAN /\ torn \in BOOLEAN
    BY DEF Init, StreamInit
  <2>3. WireTypes
    BY <2>1, <2>2, StreamAssumption DEF WireTypes, LifecycleStates
  <2>4. unread = <<>> /\ responses = <<>>
    BY DEF Init
  <2> QED
    BY <2>1, <2>3, <2>4 DEF WireAgrees
<1>3. TaskAgrees
  BY DEF Init, StreamInit, TaskAgrees
<1>4. PinsAgree
  BY <1>1 DEF Init, PinsAgree
<1> QED
  BY <1>1, <1>2, <1>3, <1>4 DEF TelnetInductive

\* Then nothing of a connection is used on the one that replaces it.
LEMMA TelnetPromises ==
    ASSUME TelnetInductive
    PROVE  OutputUnbroken /\ InputStaysHome /\ NothingFromBefore
<1>1. InputStaysHome
  BY DEF TelnetInductive, PinsAgree, InputStaysHome
<1>2. unread \o responses \in Seq({connection})
  <2>1. <<>> \in Seq({connection}) /\ <<connection>> \in Seq({connection})
    OBVIOUS
  <2>2. unread \in Seq({connection}) /\ responses \in Seq({connection})
    BY <2>1 DEF TelnetInductive, WireAgrees
  <2> QED
    BY <2>2, ConcatProperties
<1>3. NothingFromBefore
  BY <1>2 DEF TelnetInductive, WireAgrees, TaskAgrees, NothingFromBefore
<1> QED
  BY <1>1, <1>3, AgreesUnbroken DEF TelnetInductive

\* And every variable keeps its type.
LEMMA TelnetTypes ==
    ASSUME TelnetInductive
    PROVE  TypeOK
<1>1. attached \in BOOLEAN /\ (speaking = <<>> \/ speaking = <<texts>>)
  BY DEF TelnetInductive, OutputAgrees, Keeps, Shows, Speaks
<1>2. StreamTypeOK
  BY <1>1 DEF TelnetInductive, OutputAgrees, OutputTypes, QueueAgrees, Places, WireTypes, StreamTypeOK
<1>3. unread \in Seq(1..connection) /\ responses \in Seq(1..connection)
  <2>1. connection \in 1..connection
    BY DEF TelnetInductive, WireTypes
  <2>2. <<>> \in Seq(1..connection) /\ <<connection>> \in Seq(1..connection)
    BY <2>1
  <2> QED
    BY <2>2 DEF TelnetInductive, WireAgrees
<1> QED
  BY <1>2, <1>3 DEF TelnetInductive, WireTypes, TaskAgrees, PinsAgree, TypeOK

-----------------------------------------------------------------------------
\* A serial session.

PortTypes ==
    /\ state \in LifecycleStates
    /\ told \in {"connected", "reconnecting", "disconnected", "failed"}
    /\ carry \in Nat /\ registered \in BOOLEAN /\ receiving \in BOOLEAN
    /\ device \in {"well", "gone", "broken"}
    /\ arrived \in BOOLEAN /\ sent \in 0..MaxTexts
    /\ port \in 0..handles /\ handles \in Nat
    /\ mine \in {"none", "read", "write"} /\ stale \in Nat
    /\ holder \in {"none", "mine", "stale"}
    /\ held \in 0..1 /\ waited \in 0..2

\* Who has the lock uses the port there is, and without the lock nobody does.
LockAgrees == using \in {0, port} /\ (holder = "none" => using = 0)

\* Where the session task is tells what the renderer was told.
SessionAgrees ==
    /\ task \in {"select", "writing", "detaching", "opening", "opened", "ending",
                 "closing", "closed", "over"}
    /\ speaking # <<>> => task \in {"select", "opened", "closing"}
    /\ task = "select" =>
          /\ state \in {"connected", "reconnecting", "failed"}
          /\ state = "connected" <=> told = "connected"
    /\ task = "writing" => state = "connected" /\ told = "connected"
    /\ task \in {"detaching", "opening", "opened"} => told = "reconnecting"
    /\ task \in {"detaching", "opening"} => state = "connecting"
    /\ task = "opened" => state = "connected"

\* A port is open when the renderer was told so, and the decoder holds bytes of no other.
PortAgrees ==
    /\ task \in {"select", "writing"} /\ told = "connected" => port # 0
    /\ task = "opened" => port # 0 /\ carry = 0
    /\ told = "connected" => carry \in {0, port}

SerialInductive ==
    OutputAgrees /\ QueueAgrees /\ PortTypes /\ LockAgrees /\ SessionAgrees /\ PortAgrees

\* What the two managers have in common is the same for both.
LEMMA SerialIsStream ==
    /\ Serial!StreamInit <=> StreamInit
    /\ Serial!Attach <=> Attach
    /\ Serial!Emit <=> Emit
    /\ Serial!FinishOutput <=> FinishOutput
    /\ \A origin : Serial!PublishFrom(origin) <=> PublishFrom(origin)
    /\ \A c : Serial!Take(c) <=> Take(c)
    /\ Serial!Leave <=> Leave
<1>1. Serial!Publish <=> Publish
  BY DEF Serial!Publish, Publish
<1>2. Serial!publishVars = publishVars /\ Serial!callVars = callVars /\ Serial!outputVars = outputVars
  BY DEF Serial!publishVars, publishVars, Serial!callVars, callVars, Serial!outputVars, outputVars
<1>3. Serial!StreamInit <=> StreamInit
  BY DEF Serial!StreamInit, StreamInit
<1>4. (Serial!Attach <=> Attach) /\ (Serial!Emit <=> Emit)
  <2>1. Serial!Attach <=> Attach
    BY DEF Serial!Attach, Attach, Serial!callVars, callVars
  <2>2. Serial!Emit <=> Emit
    BY DEF Serial!Emit, Emit, Serial!callVars, callVars
  <2> QED
    BY <2>1, <2>2
<1>5. Serial!FinishOutput <=> FinishOutput
  BY <1>1, <1>2 DEF Serial!FinishOutput, FinishOutput, Serial!publishVars, publishVars
<1>6. \A origin : Serial!PublishFrom(origin) <=> PublishFrom(origin)
  BY <1>1, <1>2 DEF Serial!PublishFrom, PublishFrom, Serial!publishVars, publishVars
<1>7. \A c : Serial!Take(c) <=> Take(c)
  BY DEF Serial!Take, Take, Serial!Move, Move
<1>8. Serial!Leave <=> Leave
  BY <1>2 DEF Serial!Leave, Leave, Serial!outputVars, outputVars, Serial!publishVars, publishVars
<1> QED
  BY <1>3, <1>4, <1>5, <1>6, <1>7, <1>8

LEMMA SerialApplied ==
    /\ Serial!Apply("connected", "ConnectionLost") = "reconnecting"
    /\ \A s \in {"reconnecting", "failed"} : Serial!Apply(s, "ConnectionLost") = s
    /\ Serial!Apply("reconnecting", "BeginReconnect") = "connecting"
    /\ Serial!Apply("failed", "BeginReconnect") = "connecting"
    /\ Serial!Apply("connecting", "BeginAuthentication") = "authenticating"
    /\ Serial!Apply("authenticating", "AuthenticationSucceeded") = "connected"
    /\ Serial!Apply("connecting", "Fail") = "failed"
    /\ \A s \in LifecycleStates :
          /\ Serial!Apply(s, "DisconnectRequested") \in LifecycleStates
          /\ Serial!Apply(s, "Disconnected") \in LifecycleStates
BY DEF Serial!Apply, Serial!Transitions, Serial!Busy, LifecycleStates

\* The steps of a serial session that leave its channel alone, and the rest.
SerialQuietly ==
    \/ Serial!Attaches \/ Serial!Emits \/ Serial!DeviceSends \/ Serial!DeviceChanges
    \/ Serial!Acquire \/ Serial!StaleReadEnds \/ Serial!Tick
    \/ Serial!StartRead \/ Serial!ReadDelivers \/ Serial!ReadIdles \/ Serial!ReadFails
    \/ Serial!ReadTimesOut \/ Serial!WriteEnds \/ Serial!WriteTimesOut
    \/ Serial!DetachPort \/ Serial!OpenFails \/ Serial!OpenSucceeds \/ Serial!ReconnectDone
    \/ Serial!Close \/ Serial!ClosePort \/ Serial!Forget

SerialCalled(c) == Serial!CallIssues(c) \/ Serial!CallSends(c)

LEMMA SerialCases ==
    ASSUME Serial!Next
    PROVE  SerialQuietly \/ Serial!End \/ \E c \in Calls : SerialCalled(c) \/ Serial!CommandStep(c)
BY DEF Serial!Next, Serial!SessionStep, Serial!WorkerStep, SerialQuietly, SerialCalled

LEMMA SerialChannel ==
    ASSUME QueueAgrees, [Serial!Next]_Serial!vars
    PROVE  QueueAgrees'
<1>1. CASE SerialQuietly
  <2>1. UNCHANGED callVars
    BY <1>1 DEF SerialQuietly, Serial!Attaches, Serial!Attach, Serial!Emits, Serial!Emit,
       Serial!DeviceSends, Serial!DeviceChanges, Serial!Acquire, Serial!StaleReadEnds, Serial!Tick,
       Serial!StartRead, Serial!ReadDelivers, Serial!ReadIdles, Serial!ReadFails, Serial!ReadTimesOut,
       Serial!WriteEnds, Serial!WriteTimesOut, Serial!DetachPort, Serial!OpenFails,
       Serial!OpenSucceeds, Serial!ReconnectDone, Serial!Close, Serial!ClosePort, Serial!Forget,
       Serial!Remove, Serial!streamVars, Serial!callVars, callVars
  <2> QED
    BY <2>1, ChannelStays
<1>2. CASE Serial!End
  BY <1>2, LeaveKeeps, SerialIsStream DEF Serial!End
<1>3. ASSUME NEW c \in Calls, Serial!CallIssues(c) PROVE QueueAgrees'
  <2>1. /\ at[c] = "new" /\ queue' = queue
        /\ \E place \in {"sender", "refused"} : at' = [at EXCEPT ![c] = place]
    BY <1>3 DEF Serial!CallIssues, Serial!Issue, Serial!Move
  <2> QED
    BY <2>1, OutsideKeeps
<1>4. ASSUME NEW c \in Calls, Serial!CallSends(c) PROVE QueueAgrees'
  <2>1. /\ at[c] = "sender"
        /\ \/ at' = [at EXCEPT ![c] = "refused"] /\ queue' = queue
           \/ at' = [at EXCEPT ![c] = "queued"] /\ queue' = Append(queue, c)
    BY <1>4 DEF Serial!CallSends, Serial!Send, Serial!Move
  <2> QED
    BY <2>1, OutsideKeeps, EntersKeeps
<1>5. ASSUME NEW c \in Calls, Serial!CommandStep(c) PROVE QueueAgrees'
  <2>1. Take(c)
    BY <1>5, SerialIsStream
       DEF Serial!CommandStep, Serial!SkipCommand, Serial!StartWrite, Serial!RefuseWrite,
           Serial!StartReconnect, Serial!StartClose, Serial!Serve
  <2> QED
    BY <2>1, TakeKeeps
<1>6. CASE UNCHANGED Serial!vars
  BY <1>6, ChannelStays DEF Serial!vars, Serial!streamVars, Serial!callVars, callVars
<1> QED
  BY <1>1, <1>2, <1>3, <1>4, <1>5, <1>6, SerialCases DEF SerialCalled

LEMMA SerialOutput ==
    ASSUME OutputAgrees, SessionAgrees, [Serial!Next]_Serial!vars
    PROVE  OutputAgrees'
<1>1. CASE Serial!Attaches
  BY <1>1, AttachKeeps, SerialIsStream DEF Serial!Attaches
<1>2. CASE Serial!Emits
  BY <1>2, EmitKeeps, SerialIsStream DEF Serial!Emits
<1>3. CASE Serial!ReadDelivers
  BY <1>3, PublishFromKeeps, SerialIsStream DEF Serial!ReadDelivers, Serial!Selecting
<1>4. CASE Serial!OpenSucceeds
  BY <1>4, FinishOutputKeeps, SerialIsStream DEF Serial!OpenSucceeds, SessionAgrees
<1>5. CASE Serial!Close
  BY <1>5, FinishOutputKeeps, SerialIsStream DEF Serial!Close, SessionAgrees
<1>6. CASE \/ Serial!DeviceSends \/ Serial!DeviceChanges \/ Serial!Acquire \/ Serial!StaleReadEnds
           \/ Serial!Tick \/ Serial!StartRead \/ Serial!ReadIdles \/ Serial!ReadFails
           \/ Serial!ReadTimesOut \/ Serial!WriteEnds \/ Serial!WriteTimesOut \/ Serial!DetachPort
           \/ Serial!OpenFails \/ Serial!ReconnectDone \/ Serial!ClosePort \/ Serial!Forget
           \/ Serial!End \/ UNCHANGED Serial!vars
  <2>1. UNCHANGED publishVars
    BY <1>6 DEF Serial!DeviceSends, Serial!DeviceChanges, Serial!Acquire, Serial!StaleReadEnds,
       Serial!Tick, Serial!StartRead, Serial!ReadIdles, Serial!ReadFails, Serial!ReadTimesOut,
       Serial!WriteEnds, Serial!WriteTimesOut, Serial!DetachPort, Serial!OpenFails,
       Serial!ReconnectDone, Serial!ClosePort, Serial!Forget, Serial!Remove, Serial!End,
       Serial!Leave, Serial!vars, Serial!streamVars, Serial!outputVars, Serial!publishVars, publishVars
  <2> QED
    BY <2>1, SilenceKeeps
<1>7. ASSUME NEW c \in Calls, SerialCalled(c) \/ Serial!CommandStep(c) PROVE OutputAgrees'
  <2>1. UNCHANGED publishVars
    BY <1>7 DEF SerialCalled, Serial!CallIssues, Serial!Issue, Serial!CallSends, Serial!Send,
       Serial!CommandStep, Serial!SkipCommand, Serial!StartWrite, Serial!RefuseWrite,
       Serial!StartReconnect, Serial!StartClose, Serial!Serve, Serial!outputVars,
       Serial!publishVars, publishVars
  <2> QED
    BY <2>1, SilenceKeeps
<1> QED
  BY <1>1, <1>2, <1>3, <1>4, <1>5, <1>6, <1>7, SerialCases DEF SerialQuietly

LEMMA SerialSession ==
    ASSUME SessionAgrees, [Serial!Next]_Serial!vars
    PROVE  SessionAgrees'
<1> USE DEF SessionAgrees, Serial!sessionVars, Serial!streamVars, Serial!outputVars, Serial!publishVars, Serial!deviceVars, Serial!portVars, Serial!workerVars, Serial!OtherVars
<1>1. CASE Serial!Attaches \/ Serial!Emits
  BY <1>1, SerialApplied DEF Serial!Attaches, Serial!Attach, Serial!Emits, Serial!Emit
<1>2. CASE Serial!DeviceSends \/ Serial!DeviceChanges
  BY <1>2, SerialApplied DEF Serial!DeviceSends, Serial!DeviceChanges
<1>3. CASE Serial!Acquire \/ Serial!StaleReadEnds
  BY <1>3, SerialApplied DEF Serial!Acquire, Serial!StaleReadEnds
<1>4. CASE Serial!Tick \/ Serial!StartRead
  BY <1>4, SerialApplied DEF Serial!Tick, Serial!StartRead
<1>5. CASE Serial!ReadDelivers
  BY <1>5, SerialApplied DEF Serial!ReadDelivers, Serial!Selecting
<1>6. CASE Serial!ReadIdles
  BY <1>6, SerialApplied DEF Serial!ReadIdles, Serial!Selecting
<1>7. CASE Serial!ReadFails \/ Serial!ReadTimesOut
  <2>1. task = "select" /\ speaking = <<>> /\ speaking' = <<>>
    BY <1>7 DEF Serial!ReadFails, Serial!ReadTimesOut, Serial!Selecting
  <2>2. \/ Serial!Lose
        \/ Serial!Fail
    BY <1>7 DEF Serial!ReadFails, Serial!ReadTimesOut
  <2> QED
    BY <2>1, <2>2, SerialApplied DEF Serial!Lose, Serial!Fail
<1>8. CASE Serial!WriteEnds
  BY <1>8, SerialApplied DEF Serial!WriteEnds, Serial!Lose, Serial!Fail
<1>9. CASE Serial!WriteTimesOut
  BY <1>9, SerialApplied DEF Serial!WriteTimesOut, Serial!Fail
<1>10. CASE Serial!DetachPort
  BY <1>10, SerialApplied DEF Serial!DetachPort
<1>11. CASE Serial!OpenFails
  BY <1>11, SerialApplied DEF Serial!OpenFails
<1>12. CASE Serial!OpenSucceeds
  BY <1>12, SerialApplied DEF Serial!OpenSucceeds
<1>13. CASE Serial!ReconnectDone
  BY <1>13, SerialApplied DEF Serial!ReconnectDone
<1>14. CASE Serial!Close
  BY <1>14, SerialApplied DEF Serial!Close
<1>15. CASE Serial!ClosePort
  BY <1>15, SerialApplied DEF Serial!ClosePort
<1>16. CASE Serial!Forget \/ Serial!End
  BY <1>16, SerialApplied DEF Serial!Forget, Serial!Remove, Serial!End, Serial!Leave
<1>17. ASSUME NEW c \in Calls, Serial!CallIssues(c) \/ Serial!CallSends(c) PROVE SessionAgrees'
  BY <1>17, SerialApplied DEF Serial!CallIssues, Serial!Issue, Serial!CallSends, Serial!Send
<1>18. ASSUME NEW c \in Calls, Serial!SkipCommand(c) PROVE SessionAgrees'
  BY <1>18, SerialApplied DEF Serial!SkipCommand, Serial!Serve, Serial!Take
<1>19. ASSUME NEW c \in Calls, Serial!StartWrite(c) PROVE SessionAgrees'
  BY <1>19, SerialApplied DEF Serial!StartWrite, Serial!Serve, Serial!Take
<1>20. ASSUME NEW c \in Calls, Serial!RefuseWrite(c) PROVE SessionAgrees'
  BY <1>20, SerialApplied DEF Serial!RefuseWrite, Serial!Serve, Serial!Take
<1>21. ASSUME NEW c \in Calls, Serial!StartReconnect(c) PROVE SessionAgrees'
  BY <1>21, SerialApplied DEF Serial!StartReconnect, Serial!Serve, Serial!Take
<1>22. ASSUME NEW c \in Calls, Serial!StartClose(c) PROVE SessionAgrees'
  BY <1>22, SerialApplied DEF Serial!StartClose, Serial!Serve, Serial!Take
<1>23. CASE UNCHANGED Serial!vars
  BY <1>23 DEF Serial!vars
<1> QED
  BY <1>1, <1>2, <1>3, <1>4, <1>5, <1>6, <1>7, <1>8, <1>9, <1>10, <1>11, <1>12, <1>13, <1>14, <1>15, <1>16, <1>17, <1>18, <1>19, <1>20, <1>21, <1>22, <1>23, SerialCases DEF SerialQuietly, SerialCalled, Serial!CommandStep

\* The types of the port and its workers.
LEMMA SerialBooleans ==
    ASSUME PortTypes, [Serial!Next]_Serial!vars
    PROVE  registered' \in BOOLEAN /\ receiving' \in BOOLEAN /\ arrived' \in BOOLEAN
<1> USE DEF PortTypes, Serial!sessionVars, Serial!streamVars, Serial!outputVars, Serial!publishVars, Serial!deviceVars, Serial!portVars, Serial!workerVars, Serial!OtherVars
<1>1. CASE SerialQuietly
  BY <1>1 DEF SerialQuietly, Serial!Attaches, Serial!Attach, Serial!Emits, Serial!Emit, Serial!DeviceSends, Serial!DeviceChanges, Serial!Acquire, Serial!StaleReadEnds, Serial!Tick, Serial!StartRead, Serial!ReadDelivers, Serial!ReadIdles, Serial!ReadFails, Serial!ReadTimesOut, Serial!WriteEnds, Serial!WriteTimesOut, Serial!DetachPort, Serial!OpenFails, Serial!OpenSucceeds, Serial!ReconnectDone, Serial!Close, Serial!ClosePort, Serial!Forget, Serial!Remove
<1>2. CASE Serial!End
  BY <1>2 DEF Serial!End, Serial!Leave
<1>3. ASSUME NEW c \in Calls, SerialCalled(c) \/ Serial!CommandStep(c)
      PROVE  UNCHANGED <<registered, receiving, arrived>>
  BY <1>3 DEF SerialCalled, Serial!CallIssues, Serial!Issue, Serial!CallSends, Serial!Send, Serial!CommandStep, Serial!SkipCommand, Serial!StartWrite, Serial!RefuseWrite, Serial!StartReconnect, Serial!StartClose, Serial!Serve
<1>4. CASE UNCHANGED Serial!vars
  BY <1>4 DEF Serial!vars
<1> QED
  BY <1>1, <1>2, <1>3, <1>4, SerialCases

\* Whoever has the lock uses the port there is: it changes only when nobody has it.
LEMMA SerialPort ==
    ASSUME PortTypes, LockAgrees, SessionAgrees, PortAgrees, [Serial!Next]_Serial!vars
    PROVE  PortTypes' /\ LockAgrees' /\ PortAgrees'
<1> DEFINE Typed == /\ state' \in LifecycleStates
                    /\ told' \in {"connected", "reconnecting", "disconnected", "failed"}
                    /\ carry' \in Nat /\ device' \in {"well", "gone", "broken"} /\ sent' \in 0..MaxTexts
                    /\ port' \in 0..handles' /\ handles' \in Nat
                    /\ mine' \in {"none", "read", "write"} /\ stale' \in Nat
                    /\ holder' \in {"none", "mine", "stale"}
                    /\ held' \in 0..1 /\ waited' \in 0..2
<1>1. SUFFICES Typed /\ LockAgrees' /\ PortAgrees'
  BY SerialBooleans DEF PortTypes
<1> USE DEF PortTypes, LockAgrees, PortAgrees, Serial!sessionVars, Serial!streamVars, Serial!outputVars, Serial!publishVars, Serial!deviceVars, Serial!portVars, Serial!workerVars, Serial!OtherVars
<1>2. CASE Serial!Attaches \/ Serial!Emits
  BY <1>2, SerialApplied DEF Serial!Attaches, Serial!Attach, Serial!Emits, Serial!Emit
<1>3. CASE Serial!DeviceSends \/ Serial!DeviceChanges
  BY <1>3, StreamAssumption DEF Serial!DeviceSends, Serial!DeviceChanges
<1>4. CASE Serial!Acquire
  BY <1>4, SerialApplied DEF Serial!Acquire
<1>5. CASE Serial!StaleReadEnds
  BY <1>5, SerialApplied DEF Serial!StaleReadEnds, Serial!Release
<1>6. CASE Serial!Tick
  BY <1>6, SerialApplied DEF Serial!Tick, Serial!Idle, Serial!Patience
<1>7. CASE Serial!StartRead
  BY <1>7, SerialApplied DEF Serial!StartRead
<1>8. CASE Serial!ReadDelivers
  <2>1. carry' \in {0, using, carry}
    BY <1>8 DEF Serial!ReadDelivers, Serial!PublishFrom
  <2>2. /\ UNCHANGED <<state, told, task, device, sent, port, handles, stale>> /\ task = "select"
        /\ mine' = "none" /\ waited' = 0 /\ holder' = "none" /\ using' = 0 /\ held' = 0
    BY <1>8 DEF Serial!ReadDelivers, Serial!Selecting, Serial!Done, Serial!Release
  <2> QED
    BY <2>1, <2>2
<1>9. CASE Serial!ReadIdles
  BY <1>9, SerialApplied DEF Serial!ReadIdles, Serial!Done, Serial!Release
<1>10. CASE Serial!ReadFails
  <2>1. /\ UNCHANGED <<device, sent, port, handles, stale, carry>> /\ task = "select"
        /\ mine' = "none" /\ waited' = 0 /\ holder' = "none" /\ using' = 0 /\ held' = 0
    BY <1>10 DEF Serial!ReadFails, Serial!Selecting, Serial!Done, Serial!Release
  <2>2. /\ state' \in LifecycleStates /\ task' # "opened"
        /\ told' \in {"reconnecting", "failed"}
    BY <1>10, <2>1, SerialApplied DEF Serial!ReadFails, Serial!Lose, Serial!Fail, SessionAgrees, LifecycleStates
  <2> QED
    BY <2>1, <2>2
<1>11. CASE Serial!ReadTimesOut
  BY <1>11, SerialApplied DEF Serial!ReadTimesOut, Serial!GiveUp, Serial!Fail, SessionAgrees, LifecycleStates
<1>12. CASE Serial!WriteEnds
  BY <1>12, SerialApplied DEF Serial!WriteEnds, Serial!Done, Serial!Release, Serial!Lose, Serial!Fail, SessionAgrees, LifecycleStates
<1>13. CASE Serial!WriteTimesOut
  BY <1>13, SerialApplied DEF Serial!WriteTimesOut, Serial!GiveUp, Serial!Fail
<1>14. CASE Serial!DetachPort
  BY <1>14 DEF Serial!DetachPort, Serial!PortFree, SessionAgrees
<1>15. CASE Serial!OpenFails
  BY <1>15, SerialApplied DEF Serial!OpenFails, SessionAgrees, LifecycleStates
<1>16. CASE Serial!OpenSucceeds
  BY <1>16, SerialApplied DEF Serial!OpenSucceeds, Serial!PortFree, Serial!FinishOutput, SessionAgrees, LifecycleStates
<1>17. CASE Serial!ReconnectDone
  BY <1>17, SerialApplied DEF Serial!ReconnectDone
<1>18. CASE Serial!Close
  BY <1>18, SerialApplied DEF Serial!Close, Serial!FinishOutput, SessionAgrees, LifecycleStates
<1>19. CASE Serial!ClosePort
  BY <1>19, SerialApplied DEF Serial!ClosePort, Serial!PortFree, SessionAgrees, LifecycleStates
<1>20. CASE Serial!Forget \/ Serial!End
  BY <1>20, SerialApplied DEF Serial!Forget, Serial!Remove, Serial!End, Serial!Leave
<1>21. ASSUME NEW c \in Calls, Serial!CallIssues(c) \/ Serial!CallSends(c) PROVE Typed /\ LockAgrees' /\ PortAgrees'
  <2>1. UNCHANGED <<state, told, task, device, sent, port, handles, mine, stale, holder, using, held, waited>>
    BY <1>21 DEF Serial!CallIssues, Serial!CallSends
  <2>2. carry' = carry
    BY <1>21 DEF Serial!CallIssues, Serial!CallSends, Serial!Issue, Serial!Send, Serial!OtherVars
  <2> QED
    BY <2>1, <2>2
<1>22. ASSUME NEW c \in Calls, Serial!SkipCommand(c) PROVE Typed /\ LockAgrees' /\ PortAgrees'
  BY <1>22, SerialApplied DEF Serial!SkipCommand, Serial!Serve, Serial!AbandonRead, Serial!GiveUp
<1>23. ASSUME NEW c \in Calls, Serial!StartWrite(c) PROVE Typed /\ LockAgrees' /\ PortAgrees'
  BY <1>23, SerialApplied DEF Serial!StartWrite, Serial!Serve
<1>24. ASSUME NEW c \in Calls, Serial!RefuseWrite(c) PROVE Typed /\ LockAgrees' /\ PortAgrees'
  BY <1>24, SerialApplied DEF Serial!RefuseWrite, Serial!Serve
<1>25. ASSUME NEW c \in Calls, Serial!StartReconnect(c) PROVE Typed /\ LockAgrees' /\ PortAgrees'
  BY <1>25, SerialApplied DEF Serial!StartReconnect, Serial!Serve, SessionAgrees, LifecycleStates
<1>26. ASSUME NEW c \in Calls, Serial!StartClose(c) PROVE Typed /\ LockAgrees' /\ PortAgrees'
  BY <1>26, SerialApplied DEF Serial!StartClose, Serial!Serve, Serial!AbandonRead, Serial!GiveUp
<1>27. CASE UNCHANGED Serial!vars
  BY <1>27 DEF Serial!vars
<1> QED
  BY <1>2, <1>3, <1>4, <1>5, <1>6, <1>7, <1>8, <1>9, <1>10, <1>11, <1>12, <1>13, <1>14, <1>15, <1>16, <1>17, <1>18, <1>19, <1>20, <1>21, <1>22, <1>23, <1>24, <1>25, <1>26, <1>27, SerialCases DEF SerialQuietly, SerialCalled, Serial!CommandStep

-----------------------------------------------------------------------------
\* Either of them.

StreamsInductive ==
    /\ subject \in {"telnet", "serial"}
    /\ subject = "telnet" => TelnetInductive
    /\ subject = "serial" => SerialInductive

LEMMA SerialNextKeeps == SerialInductive /\ [Serial!Next]_Serial!vars => SerialInductive'
BY SerialOutput, SerialChannel, SerialSession, SerialPort DEF SerialInductive

LEMMA SerialInitEstablishes == Serial!Init => SerialInductive
<1> SUFFICES ASSUME Serial!Init PROVE SerialInductive
  OBVIOUS
<1>1. StreamInit
  BY SerialIsStream DEF Serial!Init
<1>2. OutputAgrees /\ QueueAgrees
  BY <1>1, OutputInit, ChannelInit
<1>3. PortTypes
  <2>1. registered \in BOOLEAN /\ receiving \in BOOLEAN /\ arrived \in BOOLEAN
    BY <1>1 DEF Serial!Init, StreamInit
  <2>2. carry = 0
    BY <1>1 DEF StreamInit
  <2> QED
    BY <2>1, <2>2, StreamAssumption DEF Serial!Init, PortTypes, LifecycleStates
<1>4. SessionAgrees /\ LockAgrees /\ PortAgrees
  BY <1>1 DEF Serial!Init, StreamInit, SessionAgrees, LockAgrees, PortAgrees
<1> QED
  BY <1>2, <1>3, <1>4 DEF SerialInductive

LEMMA SerialPromises ==
    ASSUME SerialInductive
    PROVE  OutputUnbroken /\ Serial!NoStaleHandle /\ Serial!ToldTheTruth
BY AgreesUnbroken DEF SerialInductive, LockAgrees, SessionAgrees, PortAgrees, Serial!NoStaleHandle,
   Serial!ToldTheTruth

LEMMA SerialTypes ==
    ASSUME SerialInductive
    PROVE  Serial!TypeOK
<1>1. attached \in BOOLEAN /\ (speaking = <<>> \/ speaking = <<texts>>)
  BY DEF SerialInductive, OutputAgrees, Keeps, Shows, Speaks
<1>2. Serial!StreamTypeOK
  BY <1>1 DEF SerialInductive, OutputAgrees, OutputTypes, QueueAgrees, Places, PortTypes, Serial!StreamTypeOK
<1>3. using \in 0..handles
  BY DEF SerialInductive, PortTypes, LockAgrees
<1> QED
  BY <1>2, <1>3
     DEF SerialInductive, PortTypes, SessionAgrees, Serial!TypeOK, Serial!LifecycleStates, LifecycleStates,
         Serial!Patience

LEMMA StreamsInitEstablishes == StreamsInit => StreamsInductive
BY TelnetInitEstablishes, SerialInitEstablishes DEF StreamsInit, StreamsInductive

LEMMA StreamsNextKeeps == StreamsInductive /\ [StreamsNext]_streamsVars => StreamsInductive'
<1> SUFFICES ASSUME StreamsInductive, [StreamsNext]_streamsVars PROVE StreamsInductive'
  OBVIOUS
<1>1. subject' = subject
  BY DEF StreamsNext, streamsVars
<1>2. CASE subject = "telnet"
  <2>1. [Next]_vars
    BY <1>2 DEF StreamsNext, streamsVars
  <2> QED
    BY <1>1, <1>2, <2>1, TelnetNextKeeps DEF StreamsInductive
<1>3. CASE subject = "serial"
  <2>1. Serial!Next \/ UNCHANGED streamsVars
    BY <1>3 DEF StreamsNext
  <2>2. UNCHANGED streamsVars => UNCHANGED Serial!vars
    BY DEF streamsVars, vars, serialVars, sessionVars, Serial!vars, Serial!sessionVars,
       Serial!deviceVars, Serial!portVars, Serial!workerVars, streamVars, Serial!streamVars,
       callVars, Serial!callVars, outputVars, Serial!outputVars, publishVars, Serial!publishVars
  <2> QED
    BY <1>1, <1>3, <2>1, <2>2, SerialNextKeeps DEF StreamsInductive
<1> QED
  BY <1>2, <1>3 DEF StreamsInductive

LEMMA StreamsHold == StreamsSafetySpec => []StreamsInductive
BY StreamsInitEstablishes, StreamsNextKeeps, PTL DEF StreamsSafetySpec

\* Every variable of a Telnet or serial terminal keeps its type, and no more output is
\* retained than the limit says (publish_output).
THEOREM StreamsAreTyped == StreamsSafetySpec => []StreamsTypeOK
<1>1. StreamsInductive => StreamsTypeOK
  BY TelnetTypes, SerialTypes DEF StreamsInductive, StreamsTypeOK
<1> QED
  BY <1>1, StreamsHold, PTL

\* Whenever the renderer attaches, and however many texts came before: what it is sent is
\* unbroken, each text once and in order, up to the latest (attach, publish_output).
THEOREM OutputIsUnbroken == StreamsSafetySpec => []OutputUnbroken
<1>1. StreamsInductive => OutputUnbroken
  BY TelnetPromises, SerialPromises DEF StreamsInductive
<1> QED
  BY <1>1, StreamsHold, PTL

\* Of any number of connections of a Telnet terminal, none is written input that was typed
\* for an earlier one, and none delivers or answers anything of it; and one that was
\* established, its capabilities sent, finds no character of an earlier one to complete
\* (TelnetConnection::reconnect, output_decoder.finish(), the not-connected arm of Write).
THEOREM TelnetBeginsAnew == StreamsSafetySpec => []TelnetStartsAnew
<1>1. StreamsInductive => TelnetStartsAnew
  BY TelnetPromises DEF StreamsInductive, TelnetStartsAnew
<1> QED
  BY <1>1, StreamsHold, PTL

\* However many reads are abandoned and ports opened, no worker uses a handle that was
\* replaced, and what the renderer was told of the connection is so (take_port, mark_lost).
THEOREM SerialTellsTheTruth == StreamsSafetySpec => []SerialIsHonest
<1>1. StreamsInductive => SerialIsHonest
  BY SerialPromises DEF StreamsInductive, SerialIsHonest
<1> QED
  BY <1>1, StreamsHold, PTL
=============================================================================
