------------------------ MODULE RemoteDesktopProofs ------------------------
(***************************************************************************)
(* The safety properties of a remote desktop session, for either helper    *)
(* program or any other one in its place, any number of reconnects, and    *)
(* pipes and channels of any size; and that the picture is never older     *)
(* than the last loss the window was told of.                              *)
(***************************************************************************)
EXTENDS RemoteDesktop, DesktopFrames, SequenceTheorems, TLAPS

-----------------------------------------------------------------------------
\* The order of a helper's events.  What may be said next hangs on what was said last,
\* and how far that is, the parent knows from its progress.

Stages == {"new", "greeted", "starting", "ready", "able", "active"}

StageAfter(e) ==
    CASE e \in {"hello", "reconnecting"} -> "greeted"
      [] e \in {"starting", "ready", "active"} -> e
      [] e = "capabilities" -> "able"
      [] e \in {"frame", "clipboard"} -> "active"
      [] OTHER -> "ended"

MayFollow(stage) ==
    {"garbage"} \cup
    CASE stage = "new" -> {"hello"}
      [] stage = "greeted" -> {"starting"} \cup Finals
      [] stage = "starting" -> {"starting", "ready"} \cup Finals
      [] stage = "ready" -> {"capabilities"}
      [] stage = "able" -> {"active", "reconnecting", "stopping"} \cup Finals
      [] stage = "active" -> {"frame", "clipboard", "reconnecting", "stopping"} \cup Finals
      [] OTHER -> Finals

\* The sequence keeps the order after the stage, and where it leads to.
InOrder(s, stage) ==
    \A i \in 1..Len(s) : s[i] \in MayFollow(IF i = 1 THEN stage ELSE StageAfter(s[i - 1]))
Leads(s, stage) == IF s = <<>> THEN stage ELSE StageAfter(s[Len(s)])

\* What the parent has noted of each stage.
Noted(stage) ==
    CASE stage = "new" -> NothingSeen
      [] stage = "greeted" -> [seen |-> {"hello"}, data |-> "capabilities"]
      [] stage = "starting" -> [seen |-> {"hello", "starting"}, data |-> "capabilities"]
      [] stage = "ready" -> [seen |-> {"hello", "starting", "ready"}, data |-> "capabilities"]
      [] stage = "able" ->
            [seen |-> {"hello", "starting", "ready", "capabilities"}, data |-> "active"]
      [] OTHER -> [seen |-> {"hello", "starting", "ready", "capabilities"}, data |-> "data"]

\* Where the main task of the helper is when it has said everything up to this stage.
Fits(p, shown, stage) ==
    /\ p = "boot" => stage = "new"
    /\ p \in {"await", "connecting"} => stage = "starting"
    /\ p = "serving" => stage = IF shown THEN "active" ELSE "able"
    /\ p = "backoff" => stage \in {"greeted", "starting"}
    /\ p \in {"boot", "await", "connecting", "backoff"} => ~shown

Orderly(heard) ==
    /\ progress = Noted(heard)
    /\ InOrder(stdout, heard)
    /\ InOrder(toSay, Leads(stdout, heard))
    /\ child = "running" => Fits(place, active, Leads(toSay, Leads(stdout, heard)))

OrderAgrees ==
    /\ reader \in {"none", "reading", "delivering"} => verdict = "none"
    /\ helper # "any" =>
          /\ verdict # "rejected"
          /\ verdict = "none" => \E heard \in Stages : Orderly(heard)

-----------------------------------------------------------------------------
\* The end of a session.

EndAgrees ==
    /\ blames = 0 \/ (blames = 1 /\ stopRequested)
    /\ stopRequested => stopper # "idle" \/ verdict = "undelivered" \/ Told
    /\ reader \in {"ending", "over"} => stopRequested \/ verdict = "undelivered"
    /\ reader = "over" => child = "exited" /\ ~registered
    /\ starter = "refused" => child = "exited"
    /\ stopper # "idle" => starter = "returned" /\ ~registered
    /\ starter # "returned" => reader = "none" /\ ~registered

DesktopInductive == DesktopTypeOK /\ OrderAgrees /\ EndAgrees

-----------------------------------------------------------------------------
\* Sequences of events.

LEMMA SequencesOfEvents ==
    /\ <<>> \in Seq(HelperEvents)
    /\ \A a \in HelperEvents : <<a>> \in Seq(HelperEvents)
    /\ \A a, b \in HelperEvents : <<a, b>> \in Seq(HelperEvents)
    /\ \A a, b, c \in HelperEvents : <<a, b, c>> \in Seq(HelperEvents)
OBVIOUS

LEMMA OrderOfFew ==
    ASSUME NEW stage
    PROVE  /\ InOrder(<<>>, stage) /\ Leads(<<>>, stage) = stage
           /\ \A a \in HelperEvents :
                 /\ InOrder(<<a>>, stage) <=> a \in MayFollow(stage)
                 /\ Leads(<<a>>, stage) = StageAfter(a)
           /\ \A a, b \in HelperEvents :
                 /\ InOrder(<<a, b>>, stage) <=>
                       a \in MayFollow(stage) /\ b \in MayFollow(StageAfter(a))
                 /\ Leads(<<a, b>>, stage) = StageAfter(b)
           /\ \A a, b, c \in HelperEvents :
                 /\ InOrder(<<a, b, c>>, stage) <=>
                       /\ a \in MayFollow(stage) /\ b \in MayFollow(StageAfter(a))
                       /\ c \in MayFollow(StageAfter(b))
                 /\ Leads(<<a, b, c>>, stage) = StageAfter(c)
<1>1. InOrder(<<>>, stage) /\ Leads(<<>>, stage) = stage
  BY DEF InOrder, Leads
<1>2. ASSUME NEW a \in HelperEvents
      PROVE  (InOrder(<<a>>, stage) <=> a \in MayFollow(stage)) /\ Leads(<<a>>, stage) = StageAfter(a)
  <2>1. Len(<<a>>) = 1 /\ <<a>>[1] = a /\ <<a>> # <<>>
    OBVIOUS
  <2> QED
    BY <2>1 DEF InOrder, Leads
<1>3. ASSUME NEW a \in HelperEvents, NEW b \in HelperEvents
      PROVE  /\ InOrder(<<a, b>>, stage) <=>
                    a \in MayFollow(stage) /\ b \in MayFollow(StageAfter(a))
             /\ Leads(<<a, b>>, stage) = StageAfter(b)
  <2> DEFINE s == <<a, b>>
  <2>1. Len(s) = 2 /\ s[1] = a /\ s[2] = b /\ s # <<>>
    OBVIOUS
  <2> HIDE DEF s
  <2>2. 1..2 = {1, 2}
    OBVIOUS
  <2>3. InOrder(s, stage) <=> a \in MayFollow(stage) /\ b \in MayFollow(StageAfter(a))
    BY <2>1, <2>2 DEF InOrder
  <2>4. Leads(s, stage) = StageAfter(b)
    BY <2>1 DEF Leads
  <2> QED
    BY <2>3, <2>4 DEF s
<1>4. ASSUME NEW a \in HelperEvents, NEW b \in HelperEvents, NEW c \in HelperEvents
      PROVE  /\ InOrder(<<a, b, c>>, stage) <=>
                    /\ a \in MayFollow(stage) /\ b \in MayFollow(StageAfter(a))
                    /\ c \in MayFollow(StageAfter(b))
             /\ Leads(<<a, b, c>>, stage) = StageAfter(c)
  <2> DEFINE s == <<a, b, c>>
  <2>1. Len(s) = 3 /\ s[1] = a /\ s[2] = b /\ s[3] = c /\ s # <<>>
    OBVIOUS
  <2> HIDE DEF s
  <2>2. 1..3 = {1, 2, 3}
    OBVIOUS
  <2>3. InOrder(s, stage) <=>
              /\ a \in MayFollow(stage) /\ b \in MayFollow(StageAfter(a))
              /\ c \in MayFollow(StageAfter(b))
    BY <2>1, <2>2 DEF InOrder
  <2>4. Leads(s, stage) = StageAfter(c)
    BY <2>1 DEF Leads
  <2> QED
    BY <2>3, <2>4 DEF s
<1> QED
  BY <1>1, <1>2, <1>3, <1>4

LEMMA OrderOfTail ==
    ASSUME NEW s \in Seq(HelperEvents), s # <<>>, NEW stage, InOrder(s, stage)
    PROVE  /\ Head(s) \in MayFollow(stage)
           /\ InOrder(Tail(s), StageAfter(Head(s)))
           /\ Leads(Tail(s), StageAfter(Head(s))) = Leads(s, stage)
<1>1. Len(s) \in Nat \ {0} /\ Head(s) = s[1]
  OBVIOUS
<1>2. Len(Tail(s)) = Len(s) - 1 /\ \A i \in 1..Len(s) - 1 : Tail(s)[i] = s[i + 1]
  OBVIOUS
<1>3. Tail(s) = <<>> <=> Len(s) = 1
  <2>1. Tail(s) \in Seq(HelperEvents)
    OBVIOUS
  <2>2. \A t \in Seq(HelperEvents) : t = <<>> <=> Len(t) = 0
    OBVIOUS
  <2> QED
    BY <2>1, <2>2, <1>1, <1>2
<1>4. Head(s) \in MayFollow(stage)
  BY <1>1 DEF InOrder
<1>5. InOrder(Tail(s), StageAfter(Head(s)))
  <2> SUFFICES ASSUME NEW i \in 1..Len(s) - 1
               PROVE  Tail(s)[i] \in MayFollow(IF i = 1 THEN StageAfter(s[1])
                                               ELSE StageAfter(Tail(s)[i - 1]))
    BY <1>1, <1>2 DEF InOrder
  <2>1. s[i + 1] \in MayFollow(StageAfter(s[i]))
    <3>1. i + 1 \in 1..Len(s) /\ i + 1 # 1 /\ (i + 1) - 1 = i
      BY <1>1
    <3> QED
      BY <3>1 DEF InOrder
  <2>2. i # 1 => Tail(s)[i - 1] = s[i]
    <3>1. i # 1 => i - 1 \in 1..Len(s) - 1 /\ (i - 1) + 1 = i
      BY <1>1
    <3> QED
      BY <3>1, <1>2
  <2> QED
    BY <2>1, <2>2, <1>2
<1>6. Leads(Tail(s), StageAfter(Head(s))) = Leads(s, stage)
  <2>1. CASE Len(s) = 1
    BY <2>1, <1>1, <1>3 DEF Leads
  <2>2. CASE Len(s) # 1
    <3>1. \A n \in Nat \ {0, 1} : n - 1 \in 1..(n - 1) /\ (n - 1) + 1 = n
      OBVIOUS
    <3>2. Len(s) \in Nat \ {0, 1}
      BY <2>2, <1>1
    <3>3. Len(s) - 1 \in 1..(Len(s) - 1) /\ (Len(s) - 1) + 1 = Len(s)
      BY ONLY <3>1, <3>2
    <3>4. Tail(s)[Len(Tail(s))] = s[Len(s)]
      BY <3>3, <1>2
    <3> QED
      BY <3>4, <2>2, <1>3 DEF Leads
  <2> QED
    BY <2>1, <2>2
<1> QED
  BY <1>4, <1>5, <1>6

LEMMA OrderOfAppend ==
    ASSUME NEW s \in Seq(HelperEvents), NEW stage, InOrder(s, stage),
           NEW e \in MayFollow(Leads(s, stage))
    PROVE  InOrder(Append(s, e), stage) /\ Leads(Append(s, e), stage) = StageAfter(e)
<1> DEFINE t == Append(s, e)
<1>1. Len(s) \in Nat /\ Len(t) = Len(s) + 1 /\ t # <<>>
  OBVIOUS
<1>2. t[Len(t)] = e /\ \A i \in 1..Len(s) : t[i] = s[i]
  OBVIOUS
<1> HIDE DEF t
<1>3. ASSUME NEW i \in 1..Len(t)
      PROVE  t[i] \in MayFollow(IF i = 1 THEN stage ELSE StageAfter(t[i - 1]))
  <2>1. CASE i \in 1..Len(s)
    <3>1. i # 1 => i - 1 \in 1..Len(s)
      BY <2>1, <1>1
    <3>2. s[i] \in MayFollow(IF i = 1 THEN stage ELSE StageAfter(s[i - 1]))
      BY <2>1 DEF InOrder
    <3> QED
      BY <3>1, <3>2, <2>1, <1>2
  <2>2. CASE i = Len(t)
    <3>1. s = <<>> <=> i = 1
      BY <2>2, <1>1
    <3>2. i # 1 => i - 1 = Len(s) /\ Len(s) \in 1..Len(s)
      BY <2>2, <1>1
    <3>3. Leads(s, stage) = IF i = 1 THEN stage ELSE StageAfter(t[i - 1])
      BY <3>1, <3>2, <1>2 DEF Leads
    <3> QED
      BY <3>3, <2>2, <1>2
  <2> QED
    BY <2>1, <2>2, <1>1
<1>4. Leads(t, stage) = StageAfter(e)
  BY <1>1, <1>2 DEF Leads
<1> QED
  BY <1>3, <1>4 DEF InOrder, t

\* What may follow the end may follow any stage at which a session may end.
LEMMA OrderAfterEnd ==
    ASSUME NEW stage, Finals \subseteq MayFollow(stage), NEW s \in Seq(HelperEvents),
           InOrder(s, "ended")
    PROVE  InOrder(s, stage) /\ (s # <<>> => Leads(s, stage) = Leads(s, "ended"))
<1>1. MayFollow("ended") \subseteq MayFollow(stage)
  BY DEF MayFollow
<1> QED
  BY <1>1 DEF InOrder, Leads

-----------------------------------------------------------------------------
\* The main task of a helper of the project says what fits the stage.

LEMMA StagesFollow ==
    /\ StageAfter("hello") = "greeted" /\ StageAfter("reconnecting") = "greeted"
    /\ StageAfter("starting") = "starting" /\ StageAfter("ready") = "ready"
    /\ StageAfter("capabilities") = "able" /\ StageAfter("active") = "active"
    /\ StageAfter("frame") = "active" /\ StageAfter("clipboard") = "active"
    /\ StageAfter("stopping") = "ended"
    /\ "hello" \in MayFollow("new") /\ "capabilities" \in MayFollow("ready")
    /\ {"starting"} \cup Finals \subseteq MayFollow("greeted")
    /\ {"starting", "ready"} \cup Finals \subseteq MayFollow("starting")
    /\ {"active", "reconnecting", "stopping"} \cup Finals \subseteq MayFollow("able")
    /\ {"frame", "clipboard", "reconnecting", "stopping"} \cup Finals
          \subseteq MayFollow("active")
    /\ Finals \subseteq MayFollow("ended")
    /\ \A stage : "garbage" \in MayFollow(stage)
BY DEF StageAfter, MayFollow, Finals

Talks(stage) ==
    /\ InOrder(toSay', stage)
    /\ Fits(place', active', Leads(toSay', stage))

LEMMA EventsNamed == {"starting", "ready", "capabilities", "active", "reconnecting", "frame",
                      "clipboard", "stopping", "hello", "garbage"} \cup Finals \subseteq HelperEvents
BY DEF HelperEvents, States, Finals

\* A last word may be said wherever the session may end.
LEMMA LeavesInOrder ==
    ASSUME NEW stage, NEW final \in Finals, Finals \subseteq MayFollow(stage), Leaves(final)
    PROVE  Talks(stage)
<1>1. toSay' = <<final>> /\ place' = "exit"
  BY DEF Leaves, Says
<1>2. final \in HelperEvents /\ final \in MayFollow(stage)
  BY EventsNamed
<1>3. InOrder(toSay', stage)
  BY <1>1, <1>2, OrderOfFew
<1> QED
  BY <1>1, <1>3 DEF Talks, Fits

\* So may the loss of a connection that served.
LEMMA LossInOrder ==
    ASSUME NEW stage \in {"able", "active"}, toSay' = <<"reconnecting">>, place' = "backoff",
           active' = FALSE
    PROVE  Talks(stage)
<1>1. InOrder(toSay', stage) /\ Leads(toSay', stage) = "greeted"
  BY EventsNamed, StagesFollow, OrderOfFew
<1> QED
  BY <1>1 DEF Talks, Fits

LEMMA BootsInOrder ==
    ASSUME NEW stage, Fits(place, active, stage), Boots
    PROVE  Talks(stage)
<1>1. stage = "new" /\ ~active' 
  BY DEF Boots, Runs, Fits
<1>2. CASE Says(<<"hello", "starting">>, "await")
  <2>1. toSay' = <<"hello", "starting">> /\ place' = "await"
    BY <1>2 DEF Says
  <2>2. InOrder(toSay', stage) /\ Leads(toSay', stage) = "starting"
    BY <1>1, <2>1, EventsNamed, StagesFollow, OrderOfFew
  <2> QED
    BY <1>1, <2>1, <2>2 DEF Talks, Fits
<1>3. CASE Says(<<"hello", "starting", "failed">>, "exit")
  <2>1. toSay' = <<"hello", "starting", "failed">> /\ place' = "exit"
    BY <1>3 DEF Says
  <2>2. "failed" \in HelperEvents /\ "failed" \in MayFollow("starting")
    BY EventsNamed, StagesFollow DEF Finals
  <2>3. InOrder(toSay', stage)
    BY <1>1, <2>1, <2>2, EventsNamed, StagesFollow, OrderOfFew
  <2> QED
    BY <2>1, <2>3 DEF Talks, Fits
<1> QED
  BY <1>2, <1>3 DEF Boots

LEMMA AnnouncesInOrder ==
    ASSUME Says(Announces, "serving"), ~active'
    PROVE  Talks("starting")
<1>1. toSay' = <<"ready", "capabilities">> /\ place' = "serving"
  BY DEF Says, Announces
<1>2. InOrder(toSay', "starting") /\ Leads(toSay', "starting") = "able"
  BY <1>1, EventsNamed, StagesFollow, OrderOfFew
<1> QED
  BY <1>1, <1>2 DEF Talks, Fits

LEMMA FailsInOrder ==
    ASSUME NEW stage, Finals \subseteq MayFollow(stage), Says(<<"failed">>, "exit")
    PROVE  Talks(stage)
<1>1. toSay' = <<"failed">> /\ place' = "exit"
  BY DEF Says
<1>2. "failed" \in HelperEvents /\ "failed" \in MayFollow(stage)
  BY EventsNamed DEF Finals
<1>3. InOrder(toSay', stage)
  BY <1>1, <1>2, OrderOfFew
<1> QED
  BY <1>1, <1>3 DEF Talks, Fits

\* The stage stays when nothing is said and the task goes on where the stage allows it.
LEMMA SilenceInOrder ==
    ASSUME NEW stage, NEW next, Goes(next), Fits(next, active', stage)
    PROVE  Talks(stage)
<1>1. toSay' = <<>> /\ place' = next
  BY DEF Goes, Says
<1> QED
  BY <1>1, OrderOfFew, SequencesOfEvents DEF Talks

LEMMA TakesStartInOrder ==
    ASSUME NEW stage, Fits(place, active, stage), TakesStart
    PROVE  Talks(stage)
<1>1. stage = "starting" /\ ~active' /\ Finals \subseteq MayFollow(stage)
  BY StagesFollow DEF TakesStart, Runs, Fits
<1>2. CASE Goes("connecting")
  <2>1. Fits("connecting", active', stage)
    BY <1>1 DEF Fits
  <2> QED
    BY <1>2, <2>1, SilenceInOrder
<1>3. CASE Says(Announces, "serving")
  BY <1>1, <1>3, AnnouncesInOrder
<1>4. CASE Says(<<"failed">>, "exit")
  BY <1>1, <1>4, FailsInOrder
<1> QED
  BY <1>2, <1>3, <1>4 DEF TakesStart

LEMMA WaitsInOrder ==
    ASSUME NEW stage, Fits(place, active, stage), Waits
    PROVE  Talks(stage)
<1>1. Finals \subseteq MayFollow(stage)
  BY StagesFollow DEF Waits, Runs, Fits
<1>2. CASE Goes(place) /\ active' = active
  BY <1>2, SilenceInOrder
<1>3. CASE Leaves("stopped")
  BY <1>1, <1>3, LeavesInOrder DEF Finals
<1> QED
  BY <1>2, <1>3 DEF Waits

LEMMA ResumesIs == Resumes = <<"starting", "ready", "capabilities">>
<1> DEFINE first == <<"starting">>
           then == <<"ready", "capabilities">>
           three == <<"starting", "ready", "capabilities">>
<1>1. /\ first \in Seq(HelperEvents) /\ then \in Seq(HelperEvents)
      /\ three \in Seq(HelperEvents) /\ first \o then \in Seq(HelperEvents)
  BY EventsNamed, SequencesOfEvents, ConcatProperties, Z3
<1>2. Len(first \o then) = 3 /\ \A i \in 1..3 : (first \o then)[i] = three[i]
  <2>1. Len(first) = 1 /\ Len(then) = 2
    OBVIOUS
  <2>2. /\ Len(first \o then) = 3
        /\ \A i \in 1..3 : (first \o then)[i] = IF i <= 1 THEN first[i] ELSE then[i - 1]
    BY <1>1, <2>1, ConcatProperties, Z3
  <2> QED
    BY <2>2
<1>3. first \o then = three
  <2>1. Len(first \o then) = Len(three)
    BY <1>2
  <2>2. \A i \in 1..Len(first \o then) : (first \o then)[i] = three[i]
    BY <1>2
  <2> HIDE DEF first, then, three
  <2> QED
    BY <1>1, <2>1, <2>2, SeqEqual
<1> QED
  BY <1>3 DEF Resumes, Announces

LEMMA BackoffInOrder ==
    ASSUME NEW stage, Fits(place, active, stage), BackoffOver
    PROVE  Talks(stage)
<1>1. stage \in {"greeted", "starting"} /\ ~active'
  BY DEF BackoffOver, Runs, Fits
<1>2. "starting" \in MayFollow(stage) /\ "starting" \in HelperEvents
  BY <1>1, StagesFollow, EventsNamed
<1>3. CASE Says(<<"starting">>, "connecting")
  <2>1. toSay' = <<"starting">> /\ place' = "connecting"
    BY <1>3 DEF Says
  <2>2. InOrder(toSay', stage) /\ Leads(toSay', stage) = "starting"
    BY <1>2, <2>1, StagesFollow, OrderOfFew
  <2> QED
    BY <1>1, <2>1, <2>2 DEF Talks, Fits
<1>4. CASE Says(Resumes, "serving")
  <2>1. toSay' = <<"starting", "ready", "capabilities">> /\ place' = "serving"
    BY <1>4, ResumesIs DEF Says
  <2>2. InOrder(toSay', stage) /\ Leads(toSay', stage) = "able"
    BY <1>2, <2>1, EventsNamed, StagesFollow, OrderOfFew
  <2> QED
    BY <1>1, <2>1, <2>2 DEF Talks, Fits
<1>5. CASE Says(<<"starting", "failed">>, "exit")
  <2>1. toSay' = <<"starting", "failed">> /\ place' = "exit"
    BY <1>5 DEF Says
  <2>2. "failed" \in HelperEvents /\ "failed" \in MayFollow("starting")
    BY EventsNamed, StagesFollow DEF Finals
  <2>3. InOrder(toSay', stage)
    BY <1>2, <2>1, <2>2, StagesFollow, OrderOfFew
  <2> QED
    BY <2>1, <2>3 DEF Talks, Fits
<1> QED
  BY <1>3, <1>4, <1>5 DEF BackoffOver

LEMMA VncConnectsInOrder ==
    ASSUME NEW stage, Fits(place, active, stage), VncConnects
    PROVE  Talks(stage)
<1>1. stage = "starting" /\ ~active' /\ Finals \subseteq MayFollow(stage)
  BY StagesFollow DEF VncConnects, Runs, Fits
<1>2. CASE Says(Announces, "serving")
  BY <1>1, <1>2, AnnouncesInOrder
<1>3. CASE Goes("backoff")
  <2>1. Fits("backoff", active', stage)
    BY <1>1 DEF Fits
  <2> QED
    BY <1>3, <2>1, SilenceInOrder
<1>4. CASE Says(<<"failed">>, "exit")
  BY <1>1, <1>4, FailsInOrder
<1> QED
  BY <1>2, <1>3, <1>4 DEF VncConnects

\* What a helper that serves is at.
LEMMA ServingStage ==
    ASSUME NEW stage, active \in BOOLEAN, Fits("serving", active, stage)
    PROVE  /\ stage = IF active THEN "active" ELSE "able"
           /\ stage \in {"able", "active"} /\ Finals \subseteq MayFollow(stage)
BY StagesFollow DEF Fits

LEMMA ShowsInOrder ==
    ASSUME NEW stage, active \in BOOLEAN, Fits(place, active, stage), Shows
    PROVE  Talks(stage)
<1>1. place = "serving" /\ active'
  BY DEF Shows, Runs
<1>2. stage = IF active THEN "active" ELSE "able"
  BY <1>1, ServingStage
<1>3. PICK e \in {"frame", "clipboard"} : Says(IF active THEN <<e>> ELSE <<"active", e>>, "serving")
  BY DEF Shows
<1>4. e \in HelperEvents /\ e \in MayFollow("active") /\ StageAfter(e) = "active"
  BY EventsNamed, StagesFollow
<1>5. place' = "serving"
  BY <1>3 DEF Says
<1>6. CASE active
  <2>1. toSay' = <<e>>
    BY <1>3, <1>6 DEF Says
  <2>2. InOrder(toSay', stage) /\ Leads(toSay', stage) = "active"
    BY <1>2, <1>4, <1>6, <2>1, OrderOfFew
  <2> QED
    BY <1>1, <1>5, <2>2 DEF Talks, Fits
<1>7. CASE ~active
  <2>1. toSay' = <<"active", e>>
    BY <1>3, <1>7 DEF Says
  <2>2. "active" \in HelperEvents /\ "active" \in MayFollow(stage)
    BY <1>2, <1>7, EventsNamed, StagesFollow
  <2>3. InOrder(toSay', stage) /\ Leads(toSay', stage) = "active"
    BY <1>4, <2>1, <2>2, StagesFollow, OrderOfFew
  <2> QED
    BY <1>1, <1>5, <2>3 DEF Talks, Fits
<1> QED
  BY <1>6, <1>7

LEMMA ShowsInvalidInOrder ==
    ASSUME NEW stage, active \in BOOLEAN, Fits(place, active, stage), ShowsInvalid
    PROVE  Talks(stage)
<1>1. place = "serving"
  BY DEF ShowsInvalid, Runs
<1>2. (stage = IF active THEN "active" ELSE "able") /\ Finals \subseteq MayFollow(stage)
  BY <1>1, ServingStage
<1>3. CASE ~active /\ Says(<<"active", "failed">>, "exit")
  <2>1. toSay' = <<"active", "failed">> /\ place' = "exit"
    BY <1>3 DEF Says
  <2>2. "failed" \in HelperEvents /\ "failed" \in MayFollow("active") /\ "active" \in HelperEvents
    BY EventsNamed, StagesFollow DEF Finals
  <2>3. "active" \in MayFollow(stage)
    BY <1>2, <1>3, StagesFollow
  <2>4. InOrder(toSay', stage)
    BY <2>1, <2>2, <2>3, StagesFollow, OrderOfFew
  <2> QED
    BY <2>1, <2>4 DEF Talks, Fits
<1>4. CASE Leaves("failed")
  BY <1>2, <1>4, LeavesInOrder DEF Finals
<1> QED
  BY <1>3, <1>4 DEF ShowsInvalid

LEMMA LostInOrder ==
    ASSUME NEW stage, active \in BOOLEAN, Fits("serving", active, stage), Lost
    PROVE  Talks(stage)
<1>1. stage \in {"able", "active"} /\ Finals \subseteq MayFollow(stage)
  BY ServingStage
<1>2. CASE Leaves("failed")
  BY <1>1, <1>2, LeavesInOrder DEF Finals
<1>3. CASE Says(<<"reconnecting">>, "backoff") /\ active' = FALSE
  BY <1>1, <1>3, LossInOrder DEF Says
<1> QED
  BY <1>2, <1>3 DEF Lost, VncLoses, Loses

LEMMA TakesInputInOrder ==
    ASSUME NEW stage, active \in BOOLEAN, Fits(place, active, stage), TakesInput
    PROVE  Talks(stage)
<1>1. place = "serving"
  BY DEF TakesInput, Runs
<1>2. Finals \subseteq MayFollow(stage)
  BY <1>1, ServingStage
<1>3. CASE Goes("serving") /\ active' = active
  BY <1>1, <1>3, SilenceInOrder
<1>4. CASE Lost
  BY <1>1, <1>4, LostInOrder
<1>5. CASE Leaves("failed")
  BY <1>2, <1>5, LeavesInOrder DEF Finals
<1> QED
  BY <1>3, <1>4, <1>5 DEF TakesInput

LEMMA TakesStopInOrder ==
    ASSUME NEW stage, active \in BOOLEAN, Fits(place, active, stage), TakesStop
    PROVE  Talks(stage)
<1>1. place = "serving"
  BY DEF TakesStop, Runs
<1>2. stage \in {"able", "active"} /\ Finals \subseteq MayFollow(stage)
  BY <1>1, ServingStage
<1>3. CASE Leaves("stopped")
  BY <1>2, <1>3, LeavesInOrder DEF Finals
<1>4. CASE Says(<<"stopping", "stopped">>, "exit")
  <2>1. toSay' = <<"stopping", "stopped">> /\ place' = "exit"
    BY <1>4 DEF Says
  <2>2. "stopped" \in HelperEvents /\ "stopped" \in MayFollow("ended") /\ "stopping" \in HelperEvents
    BY EventsNamed, StagesFollow DEF Finals
  <2>3. "stopping" \in MayFollow(stage)
    BY <1>2, StagesFollow
  <2>4. InOrder(toSay', stage)
    BY <2>1, <2>2, <2>3, StagesFollow, OrderOfFew
  <2> QED
    BY <2>1, <2>4 DEF Talks, Fits
<1> QED
  BY <1>3, <1>4 DEF TakesStop

LEMMA ServerFailsInOrder ==
    ASSUME NEW stage, active \in BOOLEAN, Fits(place, active, stage), ServerFails
    PROVE  Talks(stage)
<1>1. place = "serving"
  BY DEF ServerFails, Runs
<1>2. Finals \subseteq MayFollow(stage)
  BY <1>1, ServingStage
<1>3. CASE Lost
  BY <1>1, <1>3, LostInOrder
<1>4. CASE \E e \in Finals : Leaves(e)
  BY <1>2, <1>4, LeavesInOrder
<1> QED
  BY <1>3, <1>4 DEF ServerFails, Finals

MainTask ==
    \/ Boots \/ TakesStart \/ Waits \/ BackoffOver \/ VncConnects \/ Shows
    \/ ShowsInvalid \/ TakesInput \/ TakesStop \/ ServerFails

LEMMA MainTaskInOrder ==
    ASSUME NEW stage, active \in BOOLEAN, Fits(place, active, stage), MainTask
    PROVE  Talks(stage)
BY BootsInOrder, TakesStartInOrder, WaitsInOrder, BackoffInOrder, VncConnectsInOrder,
   ShowsInOrder, ShowsInvalidInOrder, TakesInputInOrder, TakesStopInOrder, ServerFailsInOrder
   DEF MainTask

-----------------------------------------------------------------------------
\* Types.

LEMMA MainTaskSays ==
    ASSUME MainTask
    PROVE  toSay' \in Seq(HelperEvents)
<1> USE EventsNamed, SequencesOfEvents DEF Says, Goes, Leaves, Finals
<1>1. ASSUME Boots PROVE toSay' \in Seq(HelperEvents)
  BY <1>1 DEF Boots
<1>2. ASSUME TakesStart PROVE toSay' \in Seq(HelperEvents)
  BY <1>2 DEF TakesStart, Announces
<1>3. ASSUME Waits PROVE toSay' \in Seq(HelperEvents)
  BY <1>3 DEF Waits
<1>4. ASSUME BackoffOver PROVE toSay' \in Seq(HelperEvents)
  BY <1>4, ResumesIs DEF BackoffOver
<1>5. ASSUME VncConnects PROVE toSay' \in Seq(HelperEvents)
  BY <1>5 DEF VncConnects, Announces
<1>6. ASSUME Shows PROVE toSay' \in Seq(HelperEvents)
  BY <1>6 DEF Shows
<1>7. ASSUME ShowsInvalid PROVE toSay' \in Seq(HelperEvents)
  BY <1>7 DEF ShowsInvalid
<1>8. ASSUME Lost PROVE toSay' \in Seq(HelperEvents)
  BY <1>8 DEF Lost, VncLoses, Loses
<1>9. ASSUME TakesInput PROVE toSay' \in Seq(HelperEvents)
  BY <1>8, <1>9 DEF TakesInput
<1>10. ASSUME TakesStop PROVE toSay' \in Seq(HelperEvents)
  BY <1>10 DEF TakesStop
<1>11. ASSUME ServerFails PROVE toSay' \in Seq(HelperEvents)
  BY <1>8, <1>11 DEF ServerFails
<1> QED
  BY <1>1, <1>2, <1>3, <1>4, <1>5, <1>6, <1>7, <1>9, <1>10, <1>11 DEF MainTask

LEMMA MainTaskGoes ==
    ASSUME HelperTypeOK, MainTask
    PROVE  /\ place' \in {"boot", "await", "connecting", "serving", "backoff", "exit"}
           /\ active' \in BOOLEAN
BY DEF HelperTypeOK, MainTask, Boots, TakesStart, Waits, BackoffOver, VncConnects, Shows,
       ShowsInvalid, TakesInput, TakesStop, ServerFails, Lost, VncLoses, Loses, Leaves, Says,
       Goes

LEMMA MainTaskCounts ==
    ASSUME HelperTypeOK, MainTask
    PROVE  attempt' \in 0..Attempts
<1>1. attempt \in 0..Attempts /\ Attempts \in Nat
  BY HelperAssumption DEF HelperTypeOK
<1>2. ASSUME Lost PROVE attempt' \in 0..Attempts
  BY <1>1, <1>2 DEF Lost, VncLoses, Loses, Leaves
<1>3. CASE VncConnects
  BY <1>1, <1>3 DEF VncConnects
<1> QED
  BY <1>1, <1>2, <1>3 DEF MainTask, Boots, TakesStart, Waits, BackoffOver, Shows, ShowsInvalid,
     TakesInput, TakesStop, ServerFails, Leaves

\* The helper takes nothing, its first command, or all of them.
LEMMA MainTaskReads ==
    ASSUME MainTask
    PROVE  stdin' = stdin \/ stdin' = <<>> \/ (stdin # <<>> /\ stdin' = Tail(stdin))
BY DEF MainTask, Boots, TakesStart, Waits, BackoffOver, VncConnects, Shows, ShowsInvalid,
       TakesInput, TakesStop, ServerFails, Silent, InputEnds, Takes

LEMMA CommandsFit ==
    ASSUME HelperTypeOK,
           stdin' = stdin \/ stdin' = <<>> \/ (stdin # <<>> /\ stdin' = Tail(stdin))
    PROVE  stdin' \in Seq({"start", "input", "stop"}) /\ Len(stdin') <= PipeRoom
<1>1. stdin \in Seq({"start", "input", "stop"}) /\ Len(stdin) <= PipeRoom /\ PipeRoom \in Nat
  BY HelperAssumption DEF HelperTypeOK
<1>2. CASE stdin' = <<>>
  BY <1>1, <1>2
<1>3. CASE stdin # <<>> /\ stdin' = Tail(stdin)
  <2>1. /\ Tail(stdin) \in Seq({"start", "input", "stop"})
        /\ Len(Tail(stdin)) = Len(stdin) - 1 /\ Len(stdin) \in Nat
    BY <1>1, <1>3
  <2>2. Len(Tail(stdin)) <= PipeRoom
    BY <1>1, <2>1
  <2> QED
    BY <1>3, <2>1, <2>2
<1> QED
  BY <1>1, <1>2, <1>3

LEMMA MainTaskTyped ==
    ASSUME HelperTypeOK, MainTask, UNCHANGED <<helper, child, stdout, stdinOpen>>
    PROVE  HelperTypeOK'
BY MainTaskSays, MainTaskGoes, MainTaskCounts, MainTaskReads, CommandsFit DEF HelperTypeOK

LEMMA AppendTyped ==
    ASSUME NEW S, NEW s \in Seq(S), NEW e \in S
    PROVE  Append(s, e) \in Seq(S) /\ Len(Append(s, e)) = Len(s) + 1
OBVIOUS

\* One more event in the pipe.
LEMMA OutputFits ==
    ASSUME HelperTypeOK, NEW e \in HelperEvents, Len(stdout) < PipeRoom
    PROVE  /\ Append(stdout, e) \in Seq(HelperEvents)
           /\ Len(Append(stdout, e)) <= PipeRoom
<1>1. stdout \in Seq(HelperEvents) /\ Len(stdout) \in Nat /\ PipeRoom \in Nat
  BY HelperAssumption DEF HelperTypeOK
<1> QED
  BY <1>1, AppendTyped

LEMMA GoneTyped ==
    ASSUME HelperTypeOK, Gone, stdinOpen' \in BOOLEAN,
           stdout' \in Seq(HelperEvents) /\ Len(stdout') <= PipeRoom
    PROVE  HelperTypeOK'
<1>1. 0 \in 0..Attempts
  BY HelperAssumption
<1>2. /\ toSay' \in Seq(HelperEvents)
      /\ stdin' \in Seq({"start", "input", "stop"}) /\ Len(stdin') <= PipeRoom
  BY SequencesOfEvents, CommandsFit DEF Gone
<1> QED
  BY <1>1, <1>2 DEF HelperTypeOK, Gone

LEMMA DiesTyped ==
    ASSUME HelperTypeOK, Dies, stdinOpen' \in BOOLEAN
    PROVE  HelperTypeOK'
<1>1. "garbage" \in HelperEvents
  BY EventsNamed
<1>2. stdout' \in Seq(HelperEvents) /\ Len(stdout') <= PipeRoom
  BY <1>1, OutputFits DEF Dies, HelperTypeOK
<1> QED
  BY <1>2, GoneTyped DEF Dies

LEMMA StopsChildTyped ==
    ASSUME HelperTypeOK, StopsChild, stdinOpen' \in BOOLEAN
    PROVE  HelperTypeOK' /\ child' = "exited"
<1>1. CASE child = "running"
  BY <1>1, DiesTyped DEF StopsChild, Dies, Gone
<1>2. CASE child # "running"
  BY <1>2 DEF StopsChild, HelperTypeOK
<1> QED
  BY <1>1, <1>2

LEMMA HelperActsTyped ==
    ASSUME HelperTypeOK, HelperActs
    PROVE  HelperTypeOK'
<1>1. CASE MainTask /\ UNCHANGED <<helper, child, stdout, stdinOpen>>
  BY <1>1, MainTaskTyped
<1>2. CASE Writes
  <2>1. CASE Gone /\ UNCHANGED stdout
    BY <1>2, <2>1, GoneTyped DEF Writes, HelperTypeOK
  <2>2. CASE Len(stdout) < PipeRoom /\ stdout' = Append(stdout, Head(toSay)) /\ toSay' = Tail(toSay)
                /\ UNCHANGED <<helper, child, place, stdin, attempt, active>>
    <3>1. Head(toSay) \in HelperEvents /\ Tail(toSay) \in Seq(HelperEvents)
      BY <1>2 DEF Writes, HelperTypeOK
    <3> QED
      BY <1>2, <2>2, <3>1, OutputFits DEF Writes, HelperTypeOK
  <2> QED
    BY <1>2, <2>1, <2>2 DEF Writes
<1>3. CASE Exits
  BY <1>3, GoneTyped DEF Exits, HelperTypeOK
<1>4. CASE Misbehaves
  <2>1. ASSUME NEW e \in Rogueries, Len(stdout) < PipeRoom, stdout' = Append(stdout, e), Silent
        PROVE  HelperTypeOK'
    <3>1. e \in HelperEvents
      BY DEF Rogueries
    <3> QED
      BY <1>4, <2>1, <3>1, OutputFits DEF Misbehaves, Silent, HelperTypeOK
  <2>2. CASE stdin' = <<>> /\ UNCHANGED stdout
    BY <1>4, <2>2, CommandsFit DEF Misbehaves, HelperTypeOK
  <2> QED
    BY <1>4, <2>1, <2>2 DEF Misbehaves
<1> QED
  BY <1>1, <1>2, <1>3, <1>4 DEF HelperActs, MainTask

-----------------------------------------------------------------------------
\* The order along the pipe.

LEMMA GoneInOrder ==
    ASSUME NEW heard, Orderly(heard), Gone, progress' = progress,
           stdout' = stdout \/ InOrder(stdout', heard)
    PROVE  Orderly(heard)'
<1>1. InOrder(toSay', Leads(stdout', heard))
  BY OrderOfFew DEF Gone
<1>2. child' = "exited"
  BY DEF Gone
<1> QED
  BY <1>1, <1>2 DEF Orderly

LEMMA StopsInOrder ==
    ASSUME HelperTypeOK, NEW heard, Orderly(heard), StopsChild, progress' = progress
    PROVE  Orderly(heard)'
<1>1. CASE child = "running"
  <2>1. InOrder(stdout, heard) /\ stdout \in Seq(HelperEvents)
    BY DEF Orderly, HelperTypeOK
  <2>2. stdout' = stdout \/ InOrder(stdout', heard)
    BY <1>1, <2>1, StagesFollow, OrderOfAppend DEF StopsChild, Dies
  <2> QED
    BY <1>1, <2>2, GoneInOrder DEF StopsChild, Dies
<1>2. CASE child # "running"
  BY <1>2 DEF StopsChild, Orderly
<1> QED
  BY <1>1, <1>2

LEMMA WritesInOrder ==
    ASSUME HelperTypeOK, NEW heard, Orderly(heard), Writes, progress' = progress
    PROVE  Orderly(heard)'
<1> DEFINE stage == Leads(stdout, heard)
<1>1. toSay \in Seq(HelperEvents) /\ toSay # <<>> /\ stdout \in Seq(HelperEvents)
  BY DEF Writes, HelperTypeOK
<1>2. InOrder(stdout, heard) /\ InOrder(toSay, stage)
  BY DEF Orderly
<1>3. CASE Gone /\ UNCHANGED stdout
  BY <1>3, GoneInOrder
<1>4. CASE /\ stdout' = Append(stdout, Head(toSay)) /\ toSay' = Tail(toSay)
           /\ UNCHANGED <<helper, child, place, stdin, attempt, active>>
  <2>1. /\ Head(toSay) \in MayFollow(stage)
        /\ InOrder(Tail(toSay), StageAfter(Head(toSay)))
        /\ Leads(Tail(toSay), StageAfter(Head(toSay))) = Leads(toSay, stage)
    BY <1>1, <1>2, OrderOfTail
  <2>2. InOrder(stdout', heard) /\ Leads(stdout', heard) = StageAfter(Head(toSay))
    BY <1>1, <1>2, <1>4, <2>1, OrderOfAppend
  <2> QED
    BY <1>4, <2>1, <2>2 DEF Orderly
<1> QED
  BY <1>3, <1>4 DEF Writes

LEMMA HelperActsInOrder ==
    ASSUME HelperTypeOK, helper # "any", HelperActs, NEW heard, Orderly(heard), progress' = progress
    PROVE  Orderly(heard)'
<1>1. CASE MainTask /\ UNCHANGED <<helper, child, stdout, stdinOpen>>
  <2> DEFINE stage == Leads(stdout, heard)
  <2>1. toSay = <<>> /\ child = "running"
    BY <1>1 DEF MainTask, Boots, TakesStart, Waits, BackoffOver, VncConnects, Shows,
                ShowsInvalid, TakesInput, TakesStop, ServerFails, Runs
  <2>2. Leads(toSay, stage) = stage
    BY <2>1, OrderOfFew
  <2>3. Fits(place, active, stage)
    BY <2>1, <2>2 DEF Orderly
  <2>4. Talks(stage)
    BY <1>1, <2>3, MainTaskInOrder DEF HelperTypeOK
  <2> QED
    BY <1>1, <2>4 DEF Orderly, Talks
<1>2. CASE Writes
  BY <1>2, WritesInOrder
<1>3. CASE Exits
  BY <1>3, GoneInOrder DEF Exits
<1>4. CASE Misbehaves
  BY <1>4 DEF Misbehaves, Runs
<1> QED
  BY <1>1, <1>2, <1>3, <1>4 DEF HelperActs, MainTask

\* The parent accepts what the order allows, and notes the stage it leads to; a last word
\* leaves the stage where the session may end.
LEMMA AcceptsTheOrder ==
    ASSUME NEW heard \in Stages, progress = Noted(heard), NEW e \in MayFollow(heard),
           e # "garbage"
    PROVE  /\ Accepts(e)
           /\ \/ StageAfter(e) \in Stages /\ Progressed(e) = Noted(StageAfter(e))
              \/ /\ StageAfter(e) = "ended" /\ Progressed(e) = Noted(heard)
                 /\ Finals \subseteq MayFollow(heard)
<1>1. CASE heard = "new"
  BY <1>1 DEF MayFollow, Noted, NothingSeen, Accepts, Progressed, StageAfter, Stages
<1>2. CASE heard = "greeted"
  BY <1>2 DEF MayFollow, Noted, Accepts, Progressed, StageAfter, Stages, Finals
<1>3. CASE heard = "starting"
  BY <1>3, SMTT(20) DEF MayFollow, Noted, Accepts, Progressed, StageAfter, Stages, Finals
<1>4. CASE heard = "ready"
  BY <1>4 DEF MayFollow, Noted, Accepts, Progressed, StageAfter, Stages
<1>5. CASE heard = "able"
  BY <1>5 DEF MayFollow, Noted, Accepts, Progressed, StageAfter, Stages, Finals
<1>6. CASE heard = "active"
  BY <1>6 DEF MayFollow, Noted, Accepts, Progressed, StageAfter, Stages, Finals
<1> QED
  BY <1>1, <1>2, <1>3, <1>4, <1>5, <1>6 DEF Stages

LEMMA ReadsInOrder ==
    ASSUME HelperTypeOK, NEW heard \in Stages, Orderly(heard), stdout # <<>>,
           Head(stdout) # "garbage", stdout' = Tail(stdout), progress' = Progressed(Head(stdout)),
           UNCHANGED <<child, place, toSay, active>>
    PROVE  Accepts(Head(stdout)) /\ \E next \in Stages : Orderly(next)'
<1> DEFINE e == Head(stdout)
           after == StageAfter(e)
<1>1. stdout \in Seq(HelperEvents) /\ toSay \in Seq(HelperEvents) /\ Tail(stdout) \in Seq(HelperEvents)
  BY DEF HelperTypeOK
<1>2. /\ e \in MayFollow(heard) /\ InOrder(Tail(stdout), after)
      /\ Leads(Tail(stdout), after) = Leads(stdout, heard)
  BY <1>1, OrderOfTail DEF Orderly
<1>3. /\ Accepts(e)
      /\ \/ after \in Stages /\ progress' = Noted(after)
         \/ /\ after = "ended" /\ progress' = Noted(heard)
            /\ Finals \subseteq MayFollow(heard)
  BY <1>2, AcceptsTheOrder DEF Orderly
<1> HIDE DEF after
<1>4. CASE after \in Stages /\ progress' = Noted(after)
  BY <1>2, <1>3, <1>4 DEF Orderly
<1>5. CASE /\ after = "ended" /\ progress' = Noted(heard)
           /\ Finals \subseteq MayFollow(heard)
  <2>1. InOrder(stdout', heard)
    BY <1>1, <1>2, <1>5, OrderAfterEnd
  <2>2. ASSUME stdout' # <<>> PROVE Orderly(heard)'
    <3>1. Leads(stdout', heard) = Leads(stdout, heard)
      BY <1>1, <1>2, <1>5, <2>2, OrderAfterEnd
    <3> QED
      BY <1>5, <2>1, <3>1 DEF Orderly
  <2>3. ASSUME stdout' = <<>> PROVE Orderly(heard)'
    <3>1. Leads(stdout, heard) = "ended" /\ Leads(stdout', heard) = heard
      BY <1>2, <1>5, <2>3 DEF Leads
    <3>2. InOrder(toSay', heard)
      BY <1>1, <1>5, <3>1, OrderAfterEnd DEF Orderly
    <3>3. toSay # <<>> => Leads(toSay, heard) = Leads(toSay, "ended")
      BY DEF Leads
    <3>4. child = "running" /\ toSay = <<>> => place = "exit"
      <4>1. Leads(<<>>, "ended") = "ended"
        BY DEF Leads
      <4> QED
        BY <3>1, <4>1 DEF Orderly, Fits, HelperTypeOK
    <3>5. child = "running" => Fits(place, active, Leads(toSay, heard))
      BY <3>1, <3>3, <3>4 DEF Orderly, Fits
    <3> QED
      BY <1>5, <2>1, <3>1, <3>2, <3>5 DEF Orderly
  <2> QED
    BY <1>3, <2>2, <2>3
<1> QED
  BY <1>3, <1>4, <1>5

-----------------------------------------------------------------------------
\* Types of the manager.

LEMMA HelperIdle ==
    ASSUME HelperTypeOK, UNCHANGED helperVars
    PROVE  HelperTypeOK'
BY DEF HelperTypeOK, helperVars

\* What follows for the counter from the claim of the end.
LEMMA BlamesTyped ==
    ASSUME DesktopTypeOK, EndAgrees, Blames
    PROVE  stopRequested' = TRUE /\ said' \in {"nothing", "live", "final", "revived"} /\ blames' \in 0..1
BY DEF DesktopTypeOK, EndAgrees, Blames

LEMMA ProgressedTyped ==
    ASSUME DesktopTypeOK, NEW e \in HelperEvents
    PROVE  Progressed(e) \in [seen : SUBSET {"hello", "starting", "ready", "capabilities"},
                              data : {"capabilities", "active", "data"}]
<1> DEFINE P == [seen : SUBSET {"hello", "starting", "ready", "capabilities"},
                 data : {"capabilities", "active", "data"}]
<1>1. progress \in P
  BY DEF DesktopTypeOK
<1>2. ASSUME NEW d \in {"hello", "starting", "ready"} PROVE [progress EXCEPT !.seen = @ \cup {d}] \in P
  BY <1>1
<1>3. [progress EXCEPT !.data = "data"] \in P
  BY <1>1
<1>4. e = "capabilities" => [seen |-> progress.seen \cup {e}, data |-> "active"] \in P
  BY <1>1
<1>5. [seen |-> {"hello"}, data |-> "capabilities"] \in P
  OBVIOUS
<1> QED
  BY <1>1, <1>2, <1>3, <1>4, <1>5 DEF Progressed

LEMMA NothingTyped ==
    NothingSeen \in [seen : SUBSET {"hello", "starting", "ready", "capabilities"},
                     data : {"capabilities", "active", "data"}]
BY DEF NothingSeen

LEMMA CommandQueued ==
    ASSUME DesktopTypeOK, NEW command \in {"input", "stop"}, Queues(command)
    PROVE  commands' \in Seq({"input", "stop"}) /\ Len(commands') <= Capacity
<1>1. commands \in Seq({"input", "stop"}) /\ Len(commands) \in Nat /\ Len(commands) <= Capacity
  BY DEF DesktopTypeOK
<1>2. CASE writer = "over"
  BY <1>1, <1>2 DEF Queues
<1>3. CASE writer # "over"
  <2>1. Len(commands) < Capacity /\ commands' = Append(commands, command)
    BY <1>3 DEF Queues
  <2> QED
    BY <1>1, <2>1, AppendTyped, DesktopAssumption
<1> QED
  BY <1>2, <1>3

\* The manager's own state, which the helper's moves leave alone.
ManagerTypeOK ==
    /\ starter \in {"sending", "reaping", "returned", "refused"}
    /\ registered \in BOOLEAN /\ stopRequested \in BOOLEAN /\ phase \in BOOLEAN
    /\ progress \in [seen : SUBSET {"hello", "starting", "ready", "capabilities"},
                     data : {"capabilities", "active", "data"}]
    /\ reader \in {"none", "reading", "delivering", "ending", "over"}
    /\ event \in HelperEvents \cup {"none"}
    /\ writer \in {"none", "idle", "reaping", "over"}
    /\ commands \in Seq({"input", "stop"}) /\ Len(commands) <= Capacity
    /\ inputs \in 0..Inputs
    /\ sender \in {"idle", "checked"}
    /\ stopper \in {"idle", "removed", "sent", "done"}
    /\ said \in {"nothing", "live", "final", "revived"}
    /\ blames \in 0..2
    /\ verdict \in {"none", "eof", "timeout", "garbled", "rejected", "final", "undelivered"}

LEMMA SessionTyped ==
    /\ DesktopTypeOK <=> HelperTypeOK /\ ManagerTypeOK
    /\ DesktopTypeOK' <=> HelperTypeOK' /\ ManagerTypeOK'
BY DEF DesktopTypeOK, ManagerTypeOK

LEMMA ReaderTyped ==
    ASSUME DesktopTypeOK, EndAgrees,
           ReadsEvent \/ ReadsEnd \/ HandshakeTimesOut \/ Delivers \/ DeliveryFails \/ ReaderReaps
    PROVE  DesktopTypeOK'
<1> USE DEF taskVars, callVars
<1>1. HelperTypeOK /\ ManagerTypeOK
  BY SessionTyped
<1>2. ASSUME ReadsEvent PROVE HelperTypeOK'
  <2>1. Tail(stdout) \in Seq(HelperEvents) /\ Len(Tail(stdout)) <= PipeRoom
    <3>1. /\ stdout \in Seq(HelperEvents) /\ stdout # <<>> /\ Len(stdout) <= PipeRoom
          /\ PipeRoom \in Nat
      BY <1>1, <1>2, HelperAssumption DEF ReadsEvent, HelperTypeOK
    <3>2. /\ Tail(stdout) \in Seq(HelperEvents)
          /\ Len(Tail(stdout)) = Len(stdout) - 1 /\ Len(stdout) \in Nat
      BY <3>1
    <3> QED
      BY <3>1, <3>2
  <2> QED
    BY <1>1, <1>2, <2>1 DEF ReadsEvent, HelperTypeOK
<1>3. ASSUME ReadsEvent PROVE ManagerTypeOK'
  <2>1. Head(stdout) \in HelperEvents
    BY <1>1, <1>3 DEF ReadsEvent, HelperTypeOK
  <2>2. CASE progress' = Progressed(Head(stdout)) /\ UNCHANGED <<stopRequested, said, blames, verdict>>
             /\ reader' = "delivering" /\ event' = Head(stdout)
             /\ phase' = IF Head(stdout) \in States THEN Head(stdout) = "active" ELSE phase
    <3>1. phase' \in BOOLEAN
      BY <1>1, <2>2 DEF ManagerTypeOK
    <3>2. /\ event' \in HelperEvents /\ reader' = "delivering"
          /\ progress' \in [seen : SUBSET {"hello", "starting", "ready", "capabilities"},
                            data : {"capabilities", "active", "data"}]
      BY <2>1, <2>2, ProgressedTyped
    <3>3. UNCHANGED <<starter, registered, stopRequested, writer, commands, inputs, sender, stopper,
                      said, blames, verdict>>
      BY <1>3, <2>2 DEF ReadsEvent
    <3> QED
      BY <1>1, <3>1, <3>2, <3>3 DEF ManagerTypeOK
  <2>3. CASE ReaderEnds(IF Head(stdout) = "garbage" THEN "garbled" ELSE "rejected") /\ Blames
    BY <1>1, <1>3, <2>3, BlamesTyped, NothingTyped DEF ReadsEvent, ReaderEnds, ManagerTypeOK
  <2> QED
    BY <1>3, <2>2, <2>3 DEF ReadsEvent
<1>4. CASE ReadsEnd
  BY <1>1, <1>4, HelperIdle, BlamesTyped, NothingTyped, SessionTyped DEF ReadsEnd, ReaderEnds, ManagerTypeOK
<1>5. CASE HandshakeTimesOut
  BY <1>1, <1>5, HelperIdle, BlamesTyped, NothingTyped, SessionTyped
     DEF HandshakeTimesOut, ReaderEnds, ManagerTypeOK
<1>6. CASE Delivers
  BY <1>1, <1>6, HelperIdle, NothingTyped, SessionTyped DEF Delivers, ReaderEnds, ManagerTypeOK
<1>7. CASE DeliveryFails
  BY <1>1, <1>7, HelperIdle, NothingTyped, SessionTyped DEF DeliveryFails, ReaderEnds, ManagerTypeOK
<1>8. CASE ReaderReaps
  <2>1. HelperTypeOK'
    BY <1>1, <1>8, StopsChildTyped DEF ReaderReaps, HelperTypeOK
  <2>2. /\ registered' = FALSE /\ stopRequested' = TRUE /\ reader' = "over"
        /\ UNCHANGED <<starter, phase, progress, event, verdict, writer, commands, inputs, sender,
                       stopper, said, blames>>
    BY <1>8 DEF ReaderReaps
  <2>3. registered' \in BOOLEAN /\ stopRequested' \in BOOLEAN /\ phase' \in BOOLEAN
    BY <1>1, <2>2 DEF ManagerTypeOK
  <2>4. ManagerTypeOK'
    BY <1>1, <2>2, <2>3 DEF ManagerTypeOK
  <2> QED
    BY <2>1, <2>4, SessionTyped
<1> QED
  BY <1>2, <1>3, <1>4, <1>5, <1>6, <1>7, <1>8, SessionTyped

LEMMA WriterTyped ==
    ASSUME DesktopTypeOK, EndAgrees, Writer
    PROVE  DesktopTypeOK'
<1> USE DEF taskVars, callVars
<1>1. HelperTypeOK /\ ManagerTypeOK
  BY SessionTyped
<1>2. <<>> \in Seq({"input", "stop"}) /\ Len(<<>>) = 0 /\ 0 <= Capacity
  BY DesktopAssumption
<1>3. CASE WritesCommand
  <2>1. /\ commands \in Seq({"input", "stop"}) /\ commands # <<>> /\ Len(commands) <= Capacity
        /\ stdin \in Seq({"start", "input", "stop"}) /\ Len(stdin) < PipeRoom
        /\ Capacity \in Nat /\ PipeRoom \in Nat
    BY <1>1, <1>3, DesktopAssumption, HelperAssumption DEF WritesCommand, ManagerTypeOK, HelperTypeOK
  <2>2. /\ Head(commands) \in {"start", "input", "stop"} /\ Tail(commands) \in Seq({"input", "stop"})
        /\ Len(Tail(commands)) = Len(commands) - 1 /\ Len(commands) \in Nat /\ Len(stdin) \in Nat
    BY <2>1
  <2>3. Len(Tail(commands)) <= Capacity
    BY <2>1, <2>2
  <2>4. /\ Append(stdin, Head(commands)) \in Seq({"start", "input", "stop"})
        /\ Len(Append(stdin, Head(commands))) <= PipeRoom
    BY <2>1, <2>2, AppendTyped
  <2>5. HelperTypeOK'
    BY <1>1, <1>3, <2>4 DEF WritesCommand, HelperTypeOK
  <2>6. ManagerTypeOK'
    BY <1>1, <1>3, <2>2, <2>3 DEF WritesCommand, ManagerTypeOK
  <2> QED
    BY <2>5, <2>6, SessionTyped
<1>4. CASE WriteFails
  <2>1. HelperTypeOK'
    BY <1>1, <1>4 DEF WriteFails, HelperTypeOK
  <2>2. ManagerTypeOK'
    BY <1>1, <1>2, <1>4, BlamesTyped DEF WriteFails, ManagerTypeOK
  <2> QED
    BY <2>1, <2>2, SessionTyped
<1>5. CASE WriterReaps
  <2>1. HelperTypeOK'
    BY <1>1, <1>5, StopsChildTyped DEF WriterReaps
  <2>2. ManagerTypeOK'
    BY <1>1, <1>2, <1>5 DEF WriterReaps, ManagerTypeOK
  <2> QED
    BY <2>1, <2>2, SessionTyped
<1>6. CASE WriterEnds
  <2>1. HelperTypeOK'
    BY <1>1, <1>6 DEF WriterEnds, HelperTypeOK
  <2>2. ManagerTypeOK'
    BY <1>1, <1>6 DEF WriterEnds, ManagerTypeOK
  <2> QED
    BY <2>1, <2>2, SessionTyped
<1> QED
  BY <1>3, <1>4, <1>5, <1>6 DEF Writer

LEMMA CallerTyped ==
    ASSUME DesktopTypeOK, Caller \/ Starts \/ StartFails \/ Checks \/ Stops \/ Crashes
    PROVE  DesktopTypeOK'
<1> USE DEF taskVars, callVars
<1>1. HelperTypeOK /\ ManagerTypeOK
  BY SessionTyped
<1>2. CASE StartGivesUp
  <2>1. HelperTypeOK'
    BY <1>1, <1>2, StopsChildTyped DEF StartGivesUp
  <2>2. ManagerTypeOK'
    BY <1>1, <1>2 DEF StartGivesUp, ManagerTypeOK
  <2> QED
    BY <2>1, <2>2, SessionTyped
<1>3. CASE Sends
  BY <1>1, <1>3, HelperIdle, CommandQueued, SessionTyped DEF Sends, ManagerTypeOK
<1>4. CASE SendsStop
  BY <1>1, <1>4, HelperIdle, CommandQueued, SessionTyped DEF SendsStop, ManagerTypeOK
<1>5. CASE StopReaps
  <2>1. HelperTypeOK'
    BY <1>1, <1>5, StopsChildTyped DEF StopReaps, HelperTypeOK
  <2>2. ManagerTypeOK'
    BY <1>1, <1>5 DEF StopReaps, ManagerTypeOK
  <2> QED
    BY <2>1, <2>2, SessionTyped
<1>6. CASE Starts
  BY <1>1, <1>6, HelperIdle, SessionTyped DEF Starts, ManagerTypeOK
<1>7. CASE StartFails
  BY <1>1, <1>7, HelperIdle, SessionTyped DEF StartFails, ManagerTypeOK
<1>8. CASE Checks
  <2>1. inputs' \in 0..Inputs
    BY <1>1, <1>8, DesktopAssumption DEF Checks, ManagerTypeOK
  <2> QED
    BY <1>1, <1>8, <2>1, HelperIdle, SessionTyped DEF Checks, ManagerTypeOK
<1>9. CASE Stops
  BY <1>1, <1>9, HelperIdle, SessionTyped DEF Stops, ManagerTypeOK
<1>10. CASE Crashes
  <2>1. HelperTypeOK'
    BY <1>1, <1>10, DiesTyped DEF Crashes, HelperTypeOK
  <2>2. ManagerTypeOK'
    BY <1>1, <1>10 DEF Crashes, ManagerTypeOK
  <2> QED
    BY <2>1, <2>2, SessionTyped
<1> QED
  BY <1>2, <1>3, <1>4, <1>5, <1>6, <1>7, <1>8, <1>9, <1>10 DEF Caller

LEMMA NextKeepsTypes ==
    ASSUME DesktopTypeOK, EndAgrees, [DesktopNext]_desktopVars
    PROVE  DesktopTypeOK'
<1>1. HelperTypeOK /\ ManagerTypeOK
  BY SessionTyped
<1>2. CASE HelperActs /\ UNCHANGED <<taskVars, writer, callVars, stopRequested, said, blames>>
  <2>1. ManagerTypeOK'
    BY <1>1, <1>2 DEF ManagerTypeOK, taskVars, callVars
  <2> QED
    BY <1>1, <1>2, <2>1, HelperActsTyped, SessionTyped
<1>3. CASE UNCHANGED desktopVars
  <2>1. ManagerTypeOK'
    BY <1>1, <1>3 DEF ManagerTypeOK, desktopVars
  <2> QED
    BY <1>1, <1>3, <2>1, HelperIdle, SessionTyped DEF desktopVars
<1> QED
  BY <1>2, <1>3, ReaderTyped, WriterTyped, CallerTyped DEF DesktopNext, Reader

-----------------------------------------------------------------------------
\* A step keeps the order.

LEMMA ReaderKeepsOrder ==
    ASSUME DesktopTypeOK, OrderAgrees,
           ReadsEvent \/ ReadsEnd \/ HandshakeTimesOut \/ Delivers \/ DeliveryFails \/ ReaderReaps
    PROVE  OrderAgrees'
<1>1. HelperTypeOK
  BY SessionTyped
<1>2. CASE ReadsEvent
  <2>1. verdict = "none" /\ helper' = helper
    BY <1>2 DEF ReadsEvent, OrderAgrees
  <2>2. CASE helper = "any"
    BY <1>2, <2>1, <2>2 DEF ReadsEvent, ReaderEnds, OrderAgrees
  <2>3. CASE helper # "any" /\ Head(stdout) = "garbage"
    BY <1>2, <2>1, <2>3 DEF ReadsEvent, ReaderEnds, OrderAgrees, Accepts
  <2>4. CASE helper # "any" /\ Head(stdout) # "garbage"
    <3>1. PICK heard \in Stages : Orderly(heard)
      BY <2>1, <2>4 DEF OrderAgrees
    <3>2. stdout # <<>> /\ stdout' = Tail(stdout) /\ UNCHANGED <<child, place, toSay, active>>
      BY <1>2 DEF ReadsEvent
    <3>3. /\ Head(stdout) \in MayFollow(heard) /\ progress = Noted(heard)
      BY <1>1, <3>1, <3>2, OrderOfTail DEF HelperTypeOK, Orderly
    <3>4. Accepts(Head(stdout))
      BY <2>4, <3>3, AcceptsTheOrder
    <3>5. progress' = Progressed(Head(stdout)) /\ reader' = "delivering" /\ verdict' = verdict
      BY <1>2, <3>4 DEF ReadsEvent
    <3>6. \E next \in Stages : Orderly(next)'
      BY <1>1, <2>4, <3>1, <3>2, <3>5, ReadsInOrder
    <3> QED
      BY <2>1, <3>5, <3>6 DEF OrderAgrees
  <2> QED
    BY <2>2, <2>3, <2>4
<1>3. CASE ReadsEnd \/ HandshakeTimesOut \/ DeliveryFails
  BY <1>3 DEF ReadsEnd, HandshakeTimesOut, DeliveryFails, ReaderEnds, OrderAgrees, helperVars
<1>4. CASE Delivers
  <2>1. CASE ReaderEnds("final")
    BY <1>4, <2>1 DEF Delivers, ReaderEnds, OrderAgrees, helperVars
  <2>2. CASE UNCHANGED <<progress, verdict>>
    <3>1. verdict = "none" /\ UNCHANGED <<helper, stdout, toSay, child, place, active>>
      BY <1>4 DEF Delivers, OrderAgrees, helperVars
    <3> QED
      BY <2>2, <3>1 DEF OrderAgrees, Orderly
  <2> QED
    BY <1>4, <2>1, <2>2 DEF Delivers
<1>5. CASE ReaderReaps
  <2>1. reader' = "over" /\ verdict' = verdict /\ progress' = progress /\ helper' = helper /\ StopsChild
    BY <1>5 DEF ReaderReaps, StopsChild, Dies, Gone
  <2> QED
    BY <1>1, <2>1, StopsInOrder DEF OrderAgrees
<1> QED
  BY <1>2, <1>3, <1>4, <1>5

\* The order is not touched by what neither reads nor moves the helper.
LEMMA OrderStays ==
    ASSUME OrderAgrees,
           UNCHANGED <<reader, verdict, progress, helper, stdout, toSay, child, place, active>>
    PROVE  OrderAgrees'
BY DEF OrderAgrees, Orderly

\* ... nor by the end of the helper.
LEMMA OrderStopped ==
    ASSUME DesktopTypeOK, OrderAgrees, StopsChild, UNCHANGED <<reader, verdict, progress>>
    PROVE  OrderAgrees'
<1>1. HelperTypeOK /\ helper' = helper
  BY SessionTyped DEF StopsChild, Dies, Gone
<1> QED
  BY <1>1, StopsInOrder DEF OrderAgrees

LEMMA StartsKeepsOrder ==
    ASSUME OrderAgrees, EndAgrees, Starts
    PROVE  OrderAgrees'
<1>1. verdict = "none" /\ UNCHANGED <<verdict, progress, helper, stdout, toSay, child, place, active>>
  BY DEF Starts, OrderAgrees, EndAgrees, helperVars
<1> QED
  BY <1>1 DEF OrderAgrees, Orderly

LEMMA NextKeepsOrder ==
    ASSUME DesktopTypeOK, OrderAgrees, EndAgrees, [DesktopNext]_desktopVars
    PROVE  OrderAgrees'
<1>1. HelperTypeOK
  BY SessionTyped
<1>2. CASE HelperActs /\ UNCHANGED <<taskVars, writer, callVars, stopRequested, said, blames>>
  <2>1. UNCHANGED <<reader, verdict, progress>> /\ helper' = helper
    BY <1>2 DEF taskVars, HelperActs, Writes, Exits, Misbehaves, Gone
  <2> QED
    BY <1>1, <1>2, <2>1, HelperActsInOrder DEF OrderAgrees
<1>3. CASE Crashes
  BY <1>3, OrderStopped DEF Crashes, StopsChild, taskVars
<1>4. CASE WriterReaps \/ StartGivesUp \/ StopReaps
  BY <1>4, OrderStopped DEF WriterReaps, StartGivesUp, StopReaps, taskVars
<1>5. CASE \/ WritesCommand \/ WriteFails \/ WriterEnds \/ Sends \/ SendsStop \/ StartFails
          \/ Checks \/ Stops \/ UNCHANGED desktopVars
  BY <1>5, OrderStays DEF WritesCommand, WriteFails, WriterEnds, Sends, SendsStop, StartFails,
     Checks, Stops, desktopVars, helperVars, taskVars
<1> QED
  BY <1>2, <1>3, <1>4, <1>5, ReaderKeepsOrder, StartsKeepsOrder
     DEF DesktopNext, Reader, Writer, Caller

-----------------------------------------------------------------------------
\* A step keeps what is known of the end.

LEMMA BlamesEnds ==
    ASSUME EndAgrees, Blames
    PROVE  /\ stopRequested' /\ (blames' = 0 \/ blames' = 1)
           /\ Told => Told'
           /\ stopper # "idle" \/ verdict = "undelivered" \/ Told'
BY DEF EndAgrees, Blames, Told

LEMMA ReaderKeepsEnd ==
    ASSUME DesktopTypeOK, OrderAgrees, EndAgrees,
           ReadsEvent \/ ReadsEnd \/ HandshakeTimesOut \/ Delivers \/ DeliveryFails \/ ReaderReaps
    PROVE  EndAgrees'
<1> USE DEF callVars
<1>1. reader # "none" => starter = "returned"
  BY DEF EndAgrees
<1>2. CASE ReadsEvent
  <2>1. verdict = "none"
    BY <1>2 DEF ReadsEvent, OrderAgrees
  <2>2. CASE UNCHANGED <<stopRequested, said, blames, verdict>> /\ reader' = "delivering"
    BY <1>1, <1>2, <2>2 DEF ReadsEvent, EndAgrees, Told
  <2>3. CASE Blames /\ reader' = "ending"
    BY <1>1, <1>2, <2>1, <2>3, BlamesEnds DEF ReadsEvent, EndAgrees, Told
  <2> QED
    BY <1>2, <2>2, <2>3 DEF ReadsEvent, ReaderEnds
<1>3. CASE ReadsEnd \/ HandshakeTimesOut
  <2>1. verdict = "none" /\ reader' = "ending" /\ Blames
    BY <1>3 DEF ReadsEnd, HandshakeTimesOut, ReaderEnds, OrderAgrees
  <2>2. UNCHANGED <<child, starter, registered, stopper>>
    BY <1>3 DEF ReadsEnd, HandshakeTimesOut, helperVars
  <2> QED
    BY <1>1, <1>3, <2>1, <2>2, BlamesEnds DEF ReadsEnd, HandshakeTimesOut, EndAgrees, Told
<1>4. CASE Delivers
  <2>1. UNCHANGED <<child, starter, registered, stopper, blames>> /\ verdict = "none"
    BY <1>4 DEF Delivers, helperVars, OrderAgrees
  <2>2. Told => Told'
    BY <1>4 DEF Delivers, Told
  <2>3. CASE event \in Finals /\ stopRequested' = TRUE /\ reader' = "ending"
    <3>1. Told'
      BY <1>4, <2>3 DEF Delivers, Told
    <3> QED
      BY <1>1, <1>4, <2>1, <2>3, <3>1 DEF Delivers, EndAgrees
  <2>4. CASE reader' = "reading" /\ stopRequested' = stopRequested /\ verdict' = verdict
    BY <1>1, <1>4, <2>1, <2>2, <2>4 DEF Delivers, EndAgrees
  <2> QED
    BY <1>4, <2>3, <2>4 DEF Delivers, ReaderEnds
<1>5. CASE DeliveryFails
  BY <1>1, <1>5 DEF DeliveryFails, ReaderEnds, EndAgrees, Told, helperVars
<1>6. CASE ReaderReaps
  <2>1. child' = "exited"
    BY <1>6, StopsChildTyped, SessionTyped DEF ReaderReaps, HelperTypeOK
  <2> QED
    BY <1>1, <1>6, <2>1 DEF ReaderReaps, EndAgrees, Told
<1> QED
  BY <1>2, <1>3, <1>4, <1>5, <1>6

\* A child that has exited stays so.
LEMMA ExitedStays ==
    ASSUME \/ HelperActs \/ UNCHANGED helperVars \/ StopsChild \/ Dies \/ child' = child,
           child = "exited"
    PROVE  child' = "exited"
<1>1. CASE MainTask /\ UNCHANGED child
  BY <1>1
<1> QED
  BY <1>1 DEF HelperActs, MainTask, Writes, Exits, Misbehaves, StopsChild, Dies, Gone, helperVars

LEMMA WriterKeepsEnd ==
    ASSUME DesktopTypeOK, EndAgrees, Writer
    PROVE  EndAgrees'
<1> USE DEF callVars, taskVars
<1>1. UNCHANGED <<starter, registered, stopper, reader, verdict>>
  BY DEF Writer, WritesCommand, WriteFails, WriterReaps, WriterEnds
<1>2. child = "exited" => child' = "exited"
  BY ExitedStays DEF Writer, WritesCommand, WriteFails, WriterReaps, WriterEnds
<1>3. CASE WriteFails
  BY <1>1, <1>2, <1>3, BlamesEnds DEF WriteFails, EndAgrees
<1>4. CASE WritesCommand \/ WriterReaps \/ WriterEnds
  BY <1>1, <1>2, <1>4 DEF WritesCommand, WriterReaps, WriterEnds, EndAgrees, Told
<1> QED
  BY <1>3, <1>4 DEF Writer

LEMMA CallerKeepsEnd ==
    ASSUME DesktopTypeOK, EndAgrees, Caller \/ Starts \/ StartFails \/ Checks \/ Stops \/ Crashes
    PROVE  EndAgrees'
<1> USE DEF callVars, taskVars
<1>1. child = "exited" => child' = "exited"
  BY ExitedStays DEF Caller, StartGivesUp, Sends, SendsStop, StopReaps, Starts, StartFails, Checks,
     Stops, Crashes
<1>2. CASE StartGivesUp
  <2>1. child' = "exited"
    BY <1>2, StopsChildTyped, SessionTyped DEF StartGivesUp
  <2> QED
    BY <1>2, <2>1 DEF StartGivesUp, EndAgrees, Told
<1>3. CASE Sends \/ SendsStop \/ StopReaps
  BY <1>1, <1>3 DEF Sends, SendsStop, StopReaps, EndAgrees, Told
<1>4. CASE Starts
  BY <1>1, <1>4 DEF Starts, EndAgrees, Told
<1>5. CASE StartFails
  BY <1>1, <1>5 DEF StartFails, EndAgrees, Told
<1>6. CASE Checks
  BY <1>1, <1>6 DEF Checks, EndAgrees, Told
<1>7. CASE Stops
  BY <1>1, <1>7 DEF Stops, EndAgrees, Told
<1>8. CASE Crashes
  BY <1>1, <1>8 DEF Crashes, EndAgrees, Told
<1> QED
  BY <1>2, <1>3, <1>4, <1>5, <1>6, <1>7, <1>8 DEF Caller

LEMMA NextKeepsEnd ==
    ASSUME DesktopTypeOK, OrderAgrees, EndAgrees, [DesktopNext]_desktopVars
    PROVE  EndAgrees'
<1>1. CASE HelperActs /\ UNCHANGED <<taskVars, writer, callVars, stopRequested, said, blames>>
  <2>1. child = "exited" => child' = "exited"
    BY <1>1, ExitedStays
  <2> QED
    BY <1>1, <2>1 DEF EndAgrees, Told, taskVars, callVars
<1>2. CASE UNCHANGED desktopVars
  BY <1>2 DEF EndAgrees, Told, desktopVars, helperVars
<1> QED
  BY <1>1, <1>2, ReaderKeepsEnd, WriterKeepsEnd, CallerKeepsEnd DEF DesktopNext, Reader

-----------------------------------------------------------------------------
LEMMA DesktopInitEstablishes ==
    ASSUME DesktopInit
    PROVE  DesktopInductive
<1>1. HelperTypeOK
  <2>1. 0 \in 0..Attempts /\ 1 <= PipeRoom /\ 0 <= PipeRoom
    BY HelperAssumption
  <2>2. <<"start">> \in Seq({"start", "input", "stop"}) /\ Len(<<"start">>) = 1
    OBVIOUS
  <2>3. Len(<<>>) = 0
    OBVIOUS
  <2> QED
    BY <2>1, <2>2, <2>3, SequencesOfEvents DEF DesktopInit, HelperInit, HelperTypeOK
<1>2. ManagerTypeOK
  <2>1. <<>> \in Seq({"input", "stop"}) /\ Len(<<>>) = 0 /\ 0 <= Capacity /\ 0 \in 0..Inputs
    BY DesktopAssumption
  <2>2. registered \in BOOLEAN /\ stopRequested \in BOOLEAN /\ phase \in BOOLEAN
    BY DEF DesktopInit
  <2>3. commands \in Seq({"input", "stop"}) /\ Len(commands) <= Capacity /\ inputs \in 0..Inputs
    BY <2>1 DEF DesktopInit
  <2> QED
    BY <2>2, <2>3, NothingTyped DEF DesktopInit, ManagerTypeOK
<1>3. Orderly("new")
  <2>1. Leads(<<>>, "new") = "new" /\ InOrder(<<>>, "new")
    BY OrderOfFew
  <2> QED
    BY <2>1 DEF DesktopInit, HelperInit, Orderly, Fits, Noted
<1>4. OrderAgrees
  BY <1>3 DEF DesktopInit, OrderAgrees, Stages
<1>5. EndAgrees
  BY DEF DesktopInit, EndAgrees, Told
<1> QED
  BY <1>1, <1>2, <1>4, <1>5, SessionTyped DEF DesktopInductive

LEMMA DesktopNextKeeps == DesktopInductive /\ [DesktopNext]_desktopVars => DesktopInductive'
BY NextKeepsTypes, NextKeepsOrder, NextKeepsEnd DEF DesktopInductive

LEMMA DesktopIsInductive == DesktopSpec => []DesktopInductive
BY DesktopInitEstablishes, DesktopNextKeeps, PTL DEF DesktopSpec

\* The variables of a session keep their types (HelperSession, HelperEventProgress), and the
\* channels and pipes their bounds.
THEOREM DesktopIsTyped == DesktopSpec => []DesktopTypeOK
<1>1. DesktopInductive => DesktopTypeOK
  BY DEF DesktopInductive
<1> QED
  BY <1>1, DesktopIsInductive, PTL

\* validate_helper_event never rejects an event of the VNC or RDP helper, however many
\* connections are lost, whatever is asked of it, and wherever it is killed.
THEOREM ProjectHelpersKeepTheOrder == DesktopSpec => []HelpersKeepTheOrder
<1>1. DesktopInductive => HelpersKeepTheOrder
  BY DEF DesktopInductive, OrderAgrees, HelpersKeepTheOrder
<1> QED
  BY <1>1, DesktopIsInductive, PTL

\* A session that is over was reported once at most, and not unnoticed; its process is gone
\* and its registration with it, whichever of reader, writer, stop and start met the end
\* first (claim_unexpected_helper_exit, HelperSupervisor::stop).
THEOREM SessionsEndWell == DesktopSpec => []DesktopEndsWell
<1>1. DesktopInductive => EndsAreTold
  BY DEF DesktopInductive, EndAgrees, EndsAreTold
<1>2. DesktopInductive => HelpersAreReaped
  BY DEF DesktopInductive, EndAgrees, HelpersAreReaped
<1> QED
  BY <1>1, <1>2, DesktopIsInductive, PTL DEF DesktopEndsWell

-----------------------------------------------------------------------------
\* The frames a session hands to its window.  Each loss and what follows it takes three
\* generations, so that a generation tells the attempt it belongs to.

Offset ==
    CASE state \in {"created", "reconnecting"} -> 0
      [] state = "starting" -> 1
      [] state \in {"ready", "active"} -> 2
      [] OTHER -> 3

NativeAgrees ==
    /\ IF state = "final" THEN pending.generation <= 3 * losses + 3
                          ELSE pending.generation = 3 * losses + Offset
    /\ pending.frame # NoFrame => state = "active" /\ pending.frame = losses
    /\ unsaid => state \in {"reconnecting", "final"}

\* The losses told by the time the window has heard the first i events: each loss on its
\* way is one more, and a notice is of that attempt or a later one.
Follows(before, i) ==
    /\ before[i] = before[i - 1] + IF channel[i].event = "reconnecting" THEN 1 ELSE 0
    /\ channel[i].event = "framebuffer" => channel[i].generation >= 3 * before[i]

Unsaid == IF unsaid /\ state = "reconnecting" THEN 1 ELSE 0

Counts(before) ==
    /\ before[0] = told
    /\ \A i \in 1..Len(channel) : Follows(before, i)
    /\ before[Len(channel)] + Unsaid <= losses

ChannelAgrees ==
    window # "over" =>
        /\ \E before \in [0..Len(channel) -> 0..losses] : Counts(before)
        /\ generation # None => generation >= 3 * told

\* A fetched frame is of the attempt its generation tells.
FetchAgrees ==
    /\ fetch.frame # NoFrame => fetch.generation = 3 * fetch.frame + 2
    /\ fetch.step = "asked" => fetch.frame = NoFrame

FramesInductive == FramesTypeOK /\ NativeAgrees /\ ChannelAgrees /\ FetchAgrees /\ PaintsCurrent

-----------------------------------------------------------------------------
\* The records, field by field.

PendingTypeOK == pending \in [frame : Frame, generation : Generations, notified : BOOLEAN]
FetchTypeOK == fetch \in [step : {"idle", "asked", "answered"}, generation : Generations \cup {None},
                          fresh : BOOLEAN, frame : Frame]
Events == [event : {"reconnecting", "final", "framebuffer"}, generation : Generations]

LEMMA NumbersAre ==
    ASSUME Reconnects \in Nat
    PROVE  /\ Generations \subseteq Nat /\ Frame \subseteq Nat \cup {NoFrame}
           /\ NoFrame \in Frame /\ NoFrame \notin Nat /\ None \notin Nat /\ 0 \in Generations
           /\ \A l \in 0..Reconnects : l \in Frame
BY DEF Generations, Frame, NoFrame, None

LEMMA IdleTyped ==
    ASSUME Reconnects \in Nat
    PROVE  Idle \in [step : {"idle", "asked", "answered"}, generation : Generations \cup {None},
                     fresh : BOOLEAN, frame : Frame]
BY NumbersAre DEF Idle

\* The next generation is one of them, and tells its attempt.
LEMMA ClearedAgrees ==
    ASSUME Reconnects \in Nat, FramesTypeOK, NativeAgrees, state' \in StateEvents,
           losses' = IF state' = "reconnecting" THEN losses + 1 ELSE losses
    PROVE  /\ losses' \in 0..Reconnects
           /\ Cleared.generation \in Generations
           /\ IF state' = "final" THEN Cleared.generation <= 3 * losses' + 3
              ELSE IF state' = "active" THEN pending.generation = 3 * losses' + 2
              ELSE Cleared.generation = 3 * losses' + Offset'
<1>1. state \in {"created", "starting", "ready", "active", "reconnecting", "final"}
  BY DEF FramesTypeOK
<1>2. losses \in 0..Reconnects /\ pending.generation \in Nat /\ Cleared.generation = pending.generation + 1
  BY NumbersAre DEF FramesTypeOK, Cleared
<1>3. losses' \in 0..Reconnects
  <2>1. state' = "reconnecting" => losses < Reconnects
    BY <1>1 DEF StateEvents
  <2> QED
    BY <1>2, <2>1
<1>4. state # "final" /\ pending.generation = 3 * losses + Offset
  BY DEF StateEvents, NativeAgrees
<1>5. Offset \in 0..2
  BY <1>4 DEF Offset, FramesTypeOK
<1>6. CASE state' = "final"
  BY <1>2, <1>3, <1>4, <1>5, <1>6 DEF Generations
<1>7. CASE state' = "active"
  <2>1. Offset = 2 /\ losses' = losses /\ losses < Reconnects + 1
    BY <1>1, <1>2, <1>7 DEF StateEvents, Offset
  <2> QED
    BY <1>2, <1>3, <1>4, <1>7, <2>1 DEF Generations
<1>8. CASE state' = "reconnecting"
  <2>1. Offset = 2 /\ losses' = losses + 1 /\ losses < Reconnects /\ Offset' = 0
    BY <1>1, <1>2, <1>8 DEF StateEvents, Offset
  <2> QED
    BY <1>2, <1>3, <1>4, <1>8, <2>1 DEF Generations
<1>9. CASE state' \in {"starting", "ready"}
  <2>1. Offset' = Offset + 1 /\ losses' = losses
    BY <1>1, <1>9 DEF StateEvents, Offset
  <2> QED
    BY <1>2, <1>3, <1>4, <1>5, <1>9, <2>1 DEF Generations
<1> QED
  BY <1>1, <1>6, <1>7, <1>8, <1>9 DEF StateEvents

-----------------------------------------------------------------------------
\* The channel: one more event on its way, and the next one heard.

LEMMA OneMoreCounted ==
    ASSUME Reconnects \in Nat, FramesTypeOK, NEW before \in [0..Len(channel) -> 0..losses], Counts(before),
           NEW e \in Events, channel' = Append(channel, e), told' = told, losses' = losses,
           e.event = "framebuffer" => e.generation >= 3 * before[Len(channel)],
           before[Len(channel)] + (IF e.event = "reconnecting" THEN 1 ELSE 0) + Unsaid' <= losses'
    PROVE  \E after \in [0..Len(channel') -> 0..losses'] : Counts(after)'
<1> DEFINE n == Len(channel)
           last == before[n] + IF e.event = "reconnecting" THEN 1 ELSE 0
<1>1. channel \in Seq(Events) /\ n \in Nat
  BY DEF FramesTypeOK, Events
<1>2. /\ channel' \in Seq(Events) /\ Len(channel') = n + 1 /\ channel'[n + 1] = e
      /\ \A i \in 1..n : channel'[i] = channel[i]
  BY <1>1
<1> HIDE DEF n
<1>3. \A i \in 0..n : before[i] \in 0..losses
  BY <1>1 DEF n
<1>4. losses \in Nat /\ losses' \in Nat /\ last \in 0..losses'
  <2>1. losses \in Nat /\ losses' \in Nat /\ Unsaid' \in {0, 1}
    BY DEF FramesTypeOK, Unsaid
  <2>2. before[n] \in 0..losses
    BY <1>1, <1>3
  <2>3. last + Unsaid' <= losses'
    BY DEF n
  <2> HIDE DEF Unsaid
  <2>4. last \in Nat
    BY <2>1, <2>2
  <2> QED
    BY <2>1, <2>3, <2>4
<1>5. PICK after \in [0..Len(channel') -> 0..losses'] :
         after[n + 1] = last /\ \A i \in 0..n : after[i] = before[i]
  <2> DEFINE longer == [i \in 0..Len(channel') |-> IF i <= n THEN before[i] ELSE last]
  <2>1. \A i \in 0..n : before[i] \in 0..losses'
    BY <1>3, <1>4
  <2>2. longer \in [0..Len(channel') -> 0..losses']
    BY <1>1, <1>2, <1>4, <2>1
  <2>3. longer[n + 1] = last /\ \A i \in 0..n : longer[i] = before[i]
    BY <1>1, <1>2
  <2> HIDE DEF longer
  <2> QED
    BY <2>2, <2>3
<1>6. after[0] = told'
  BY <1>1, <1>5 DEF Counts
<1>7. ASSUME NEW i \in 1..n + 1
      PROVE  /\ after[i] = after[i - 1] + IF channel'[i].event = "reconnecting" THEN 1 ELSE 0
             /\ channel'[i].event = "framebuffer" => channel'[i].generation >= 3 * after[i]
  <2>1. CASE i \in 1..n
    <3>1. i - 1 \in 0..n /\ i \in 0..n
      BY <1>1, <2>1
    <3>2. Follows(before, i)
      BY <2>1 DEF Counts, n
    <3> QED
      BY <1>2, <1>5, <2>1, <3>1, <3>2 DEF Follows
  <2>2. CASE i = n + 1
    <3>1. i - 1 = n /\ n \in 0..n
      BY <1>1, <2>2
    <3>2. e.event = "framebuffer" => last = before[n]
      BY <1>1, <1>3
    <3> QED
      BY <1>2, <1>5, <2>2, <3>1, <3>2 DEF n
  <2>3. i \in 1..n \/ i = n + 1
    BY <1>1
  <2> QED
    BY <2>1, <2>2, <2>3
<1>8. after[n + 1] + Unsaid' <= losses'
  BY <1>5 DEF n
<1> QED
  BY <1>2, <1>5, <1>6, <1>7, <1>8 DEF Counts, Follows

LEMMA OneHeardCounted ==
    ASSUME Reconnects \in Nat, FramesTypeOK, channel # <<>>,
           NEW before \in [0..Len(channel) -> 0..losses], Counts(before),
           channel' = Tail(channel), UNCHANGED <<unsaid, state, losses>>,
           told' = told + IF Head(channel).event = "reconnecting" THEN 1 ELSE 0
    PROVE  /\ \E after \in [0..Len(channel') -> 0..losses'] : Counts(after)'
           /\ Head(channel).event = "framebuffer" => Head(channel).generation >= 3 * told
           /\ told' \in 0..losses
<1> DEFINE n == Len(channel)
<1>1. channel \in Seq(Events) /\ n \in Nat \ {0} /\ Head(channel) = channel[1]
  BY DEF FramesTypeOK, Events
<1>2. /\ Len(channel') = n - 1
      /\ \A i \in 1..n - 1 : channel'[i] = channel[i + 1]
  BY <1>1
<1> HIDE DEF n
<1>3. \A i \in 0..n : before[i] \in 0..losses
  BY <1>1 DEF n
<1>4. \A i \in 0..n - 1 : i + 1 \in 0..n
  BY <1>1
<1>5. PICK after \in [0..Len(channel') -> 0..losses'] : \A i \in 0..n - 1 : after[i] = before[i + 1]
  <2> DEFINE shifted == [i \in 0..Len(channel') |-> before[i + 1]]
  <2>1. /\ shifted \in [0..Len(channel') -> 0..losses']
        /\ \A i \in 0..n - 1 : shifted[i] = before[i + 1]
    BY <1>1, <1>2, <1>3, <1>4
  <2> QED
    BY <2>1
<1>6. Follows(before, 1) /\ before[0] = told
  BY <1>1 DEF Counts, n
<1>7. before[1] = told'
  BY <1>1, <1>6 DEF Follows
<1>8. after[0] = told'
  BY <1>1, <1>5, <1>7
<1>9. ASSUME NEW i \in 1..n - 1
      PROVE  /\ after[i] = after[i - 1] + IF channel'[i].event = "reconnecting" THEN 1 ELSE 0
             /\ channel'[i].event = "framebuffer" => channel'[i].generation >= 3 * after[i]
  <2>1. i \in 0..n - 1 /\ i - 1 \in 0..n - 1 /\ i + 1 \in 1..n /\ (i + 1) - 1 = i /\ (i - 1) + 1 = i
    BY <1>1
  <2>2. Follows(before, i + 1)
    BY <2>1 DEF Counts, n
  <2>3. after[i] = before[i + 1] /\ after[i - 1] = before[i] /\ channel'[i] = channel[i + 1]
    BY <1>2, <1>5, <2>1
  <2> QED
    BY <2>1, <2>2, <2>3 DEF Follows
<1>10. after[n - 1] + Unsaid' <= losses'
  <2>1. n - 1 \in 0..n - 1 /\ (n - 1) + 1 = n
    BY <1>1
  <2> QED
    BY <1>5, <2>1 DEF Counts, n, Unsaid
<1>11. told' \in 0..losses
  BY <1>1, <1>3, <1>7
<1>12. Counts(after)'
  <2>1. \A i \in 1..Len(channel') : Follows(after, i)'
    BY <1>2, <1>9 DEF Follows
  <2>2. after[Len(channel')] + Unsaid' <= losses'
    BY <1>2, <1>10
  <2> QED
    BY <1>8, <2>1, <2>2 DEF Counts
<1>13. Head(channel).event = "framebuffer" => Head(channel).generation >= 3 * told
  <2>1. Head(channel).event = "framebuffer" => told' = told
    BY DEF FramesTypeOK
  <2> QED
    BY <1>1, <1>6, <1>7, <2>1 DEF Follows
<1> QED
  BY <1>5, <1>11, <1>12, <1>13

-----------------------------------------------------------------------------
\* Types, action by action.

Boxes == PendingTypeOK /\ FetchTypeOK /\ channel \in Seq(Events)

LEMMA FramesTyped ==
    /\ FramesTypeOK <=>
          /\ state \in {"created", "starting", "ready", "active", "reconnecting", "final"}
          /\ losses \in 0..Reconnects /\ told \in 0..losses
          /\ Boxes
          /\ unsaid \in BOOLEAN /\ wanted \in BOOLEAN /\ animation \in BOOLEAN
          /\ window \in {"opening", "open", "over"}
          /\ generation \in Generations \cup {None}
          /\ canvas \in Frame
    /\ FramesTypeOK' <=>
          /\ state' \in {"created", "starting", "ready", "active", "reconnecting", "final"}
          /\ losses' \in 0..Reconnects /\ told' \in 0..losses'
          /\ Boxes'
          /\ unsaid' \in BOOLEAN /\ wanted' \in BOOLEAN /\ animation' \in BOOLEAN
          /\ window' \in {"opening", "open", "over"}
          /\ generation' \in Generations \cup {None}
          /\ canvas' \in Frame
BY DEF FramesTypeOK, Boxes, PendingTypeOK, FetchTypeOK, Events

LEMMA ChannelGrows ==
    ASSUME channel \in Seq(Events), NEW e \in Events
    PROVE  Append(channel, e) \in Seq(Events)
OBVIOUS

LEMMA NativeTyped ==
    ASSUME Reconnects \in Nat, FramesTypeOK, NativeAgrees, ReadsState \/ DeliversState \/ ReadsFrame
    PROVE  FramesTypeOK'
<1> USE DEF windowVars, queueVars
<1>1. CASE ReadsState
  <2>1. /\ losses' \in 0..Reconnects /\ told \in 0..losses /\ losses' \in {losses, losses + 1}
        /\ losses \in 0..Reconnects
    BY <1>1, ClearedAgrees, FramesTyped DEF ReadsState
  <2>2. told' \in 0..losses' /\ state' \in {"starting", "ready", "active", "reconnecting", "final"}
    BY <1>1, <2>1, FramesTyped DEF ReadsState, StateEvents
  <2>3. Cleared \in [frame : Frame, generation : Generations, notified : BOOLEAN]
    BY <1>1, ClearedAgrees, NumbersAre DEF ReadsState, Cleared
  <2>4. Boxes'
    BY <1>1, <2>3, FramesTyped DEF ReadsState, Boxes, PendingTypeOK, FetchTypeOK
  <2> QED
    BY <1>1, <2>1, <2>2, <2>4, FramesTyped DEF ReadsState
<1>2. CASE DeliversState
  <2>1. state \in {"reconnecting", "final"}
    BY <1>2 DEF DeliversState, NativeAgrees
  <2>2. [event |-> state, generation |-> 0] \in Events
    BY <2>1, NumbersAre DEF Events
  <2>3. Boxes'
    BY <1>2, <2>2, ChannelGrows, FramesTyped DEF DeliversState, Boxes, PendingTypeOK, FetchTypeOK
  <2> QED
    BY <1>2, <2>3, FramesTyped DEF DeliversState
<1>3. CASE ReadsFrame
  <2>1. pending.generation \in Generations /\ losses \in Frame
    BY NumbersAre, FramesTyped DEF Boxes, PendingTypeOK
  <2>2. pending' \in [frame : Frame, generation : Generations, notified : BOOLEAN]
    BY <1>3, <2>1, FramesTyped DEF ReadsFrame, Boxes, PendingTypeOK
  <2>3. [event |-> "framebuffer", generation |-> pending.generation] \in Events
    BY <2>1 DEF Events
  <2>4. Boxes'
    BY <1>3, <2>2, <2>3, ChannelGrows, FramesTyped DEF ReadsFrame, Boxes, PendingTypeOK, FetchTypeOK
  <2> QED
    BY <1>3, <2>4, FramesTyped DEF ReadsFrame
<1> QED
  BY <1>1, <1>2, <1>3

LEMMA ResetTyped ==
    ASSUME FetchTypeOK
    PROVE  [fetch EXCEPT !.fresh = FALSE] \in
              [step : {"idle", "asked", "answered"}, generation : Generations \cup {None},
               fresh : BOOLEAN, frame : Frame]
BY DEF FetchTypeOK

LEMMA HearsTyped ==
    ASSUME Reconnects \in Nat, FramesTypeOK, ChannelAgrees, Hears
    PROVE  FramesTypeOK'
<1> USE DEF windowVars, queueVars
<1>1. channel \in Seq(Events) /\ channel # <<>> /\ Head(channel) \in Events /\ Tail(channel) \in Seq(Events)
  BY FramesTyped DEF Hears, Boxes
<1>2. Boxes'
  <2>1. fetch' = fetch \/ fetch' = [fetch EXCEPT !.fresh = FALSE]
    BY DEF Hears, Resets
  <2> QED
    BY <1>1, <2>1, ResetTyped, FramesTyped DEF Hears, Boxes, PendingTypeOK, FetchTypeOK
<1>3. told' \in 0..losses
  <2>1. CASE window # "over" /\ told' = told + 1 /\ Head(channel).event = "reconnecting"
    <3>1. PICK before \in [0..Len(channel) -> 0..losses] : Counts(before)
      BY <2>1 DEF ChannelAgrees
    <3> QED
      BY <2>1, <3>1, OneHeardCounted DEF Hears
  <2> QED
    BY <2>1, FramesTyped DEF Hears
<1>4. generation' \in Generations \cup {None} /\ canvas' \in Frame
  BY <1>1, NumbersAre, FramesTyped DEF Hears, Resets, Events
<1>5. wanted' \in BOOLEAN /\ animation' \in BOOLEAN
  BY FramesTyped DEF Hears, Resets, Refreshes
<1> QED
  BY <1>2, <1>3, <1>4, <1>5, FramesTyped DEF Hears

LEMMA WindowTyped ==
    ASSUME Reconnects \in Nat, FramesTypeOK,
           Opens \/ Flushes \/ TakesFrame \/ Paints \/ FetchFails \/ Disposes
    PROVE  FramesTypeOK'
<1> USE DEF nativeVars, queueVars
<1>1. CASE Opens
  <2>1. wanted' \in BOOLEAN /\ animation' \in BOOLEAN
    BY <1>1, FramesTyped DEF Opens, Refreshes
  <2> QED
    BY <1>1, <2>1, FramesTyped DEF Opens, Boxes, PendingTypeOK, FetchTypeOK
<1>2. CASE Flushes
  <2>1. FetchTypeOK'
    BY <1>2, NumbersAre, FramesTyped DEF Flushes, FetchTypeOK
  <2> QED
    BY <1>2, <2>1, FramesTyped DEF Flushes, Boxes, PendingTypeOK
<1>3. CASE TakesFrame
  <2>1. pending.frame \in Frame
    BY FramesTyped DEF Boxes, PendingTypeOK
  <2>2. PendingTypeOK'
    BY <1>3, <2>1, NumbersAre, FramesTyped DEF TakesFrame, Boxes, PendingTypeOK
  <2>3. FetchTypeOK'
    BY <1>3, <2>1, FramesTyped DEF TakesFrame, Boxes, FetchTypeOK
  <2> QED
    BY <1>3, <2>2, <2>3, FramesTyped DEF TakesFrame, Boxes
<1>4. CASE Paints
  <2>1. FetchTypeOK' /\ fetch.frame \in Frame
    BY <1>4, IdleTyped, FramesTyped DEF Paints, Boxes, FetchTypeOK
  <2>2. animation' \in BOOLEAN /\ canvas' \in Frame
    BY <1>4, <2>1, FramesTyped DEF Paints
  <2> QED
    BY <1>4, <2>1, <2>2, FramesTyped DEF Paints, Boxes, PendingTypeOK
<1>5. CASE FetchFails
  <2>1. FetchTypeOK'
    BY <1>5, IdleTyped DEF FetchFails, FetchTypeOK
  <2>2. animation' \in BOOLEAN /\ wanted' \in BOOLEAN
    BY <1>5, FramesTyped DEF FetchFails
  <2> QED
    BY <1>5, <2>1, <2>2, FramesTyped DEF FetchFails, Boxes, PendingTypeOK
<1>6. CASE Disposes
  BY <1>6, ResetTyped, FramesTyped DEF Disposes, Resets, Boxes, PendingTypeOK, FetchTypeOK
<1> QED
  BY <1>1, <1>2, <1>3, <1>4, <1>5, <1>6

-----------------------------------------------------------------------------
\* The other parts, action by action.

LEMMA NextKeepsNative ==
    ASSUME Reconnects \in Nat, FramesTypeOK, NativeAgrees, [FramesNext]_framesVars
    PROVE  NativeAgrees'
<1>1. CASE ReadsState
  <2>1. CASE state' = "active"
    <3>1. pending' = pending /\ ~unsaid'
      BY <1>1, <2>1 DEF ReadsState
    <3>2. state = "ready" /\ losses' = losses
      BY <1>1, <2>1, FramesTyped DEF ReadsState, StateEvents
    <3> QED
      BY <2>1, <3>1, <3>2 DEF NativeAgrees, Offset
  <2>2. CASE state' # "active"
    <3>1. pending' = Cleared /\ Cleared.frame = NoFrame
      BY <1>1, <2>2 DEF ReadsState, Cleared
    <3>2. IF state' = "final" THEN pending'.generation <= 3 * losses' + 3
          ELSE pending'.generation = 3 * losses' + Offset'
      BY <1>1, <2>2, <3>1, ClearedAgrees DEF ReadsState
    <3> QED
      BY <1>1, <3>1, <3>2 DEF ReadsState, NativeAgrees
  <2> QED
    BY <2>1, <2>2
<1>2. CASE ReadsFrame
  <2>1. state = "active" /\ UNCHANGED <<state, losses, unsaid>>
    BY <1>2 DEF ReadsFrame
  <2>2. pending'.generation = pending.generation /\ pending'.frame = losses
    BY <1>2, FramesTyped DEF ReadsFrame, Boxes, PendingTypeOK
  <2> QED
    BY <2>1, <2>2 DEF NativeAgrees, Offset
<1>3. CASE TakesFrame
  <2>1. UNCHANGED <<state, losses, unsaid>>
    BY <1>3 DEF TakesFrame
  <2>2. pending'.generation = pending.generation /\ (pending'.frame = pending.frame \/ pending'.frame = NoFrame)
    BY <1>3, FramesTyped DEF TakesFrame, Boxes, PendingTypeOK
  <2> QED
    BY <2>1, <2>2 DEF NativeAgrees, Offset
<1>4. CASE DeliversState
  BY <1>4 DEF DeliversState, NativeAgrees, Offset
<1>5. CASE \/ Hears \/ Opens \/ Flushes \/ Paints \/ FetchFails \/ Disposes \/ UNCHANGED framesVars
  <2>1. UNCHANGED <<state, losses, pending, unsaid>>
    BY <1>5 DEF Hears, Opens, Flushes, Paints, FetchFails, Disposes, nativeVars, framesVars
  <2> QED
    BY <2>1 DEF NativeAgrees, Offset
<1> QED
  BY <1>1, <1>2, <1>3, <1>4, <1>5 DEF FramesNext

\* What neither sends, hears, loses nor tells leaves the count.
LEMMA CountsStay ==
    ASSUME NEW before, Counts(before), UNCHANGED <<channel, told, unsaid, state, losses>>
    PROVE  Counts(before)'
BY DEF Counts, Follows, Unsaid

LEMMA NativeKeepsChannel ==
    ASSUME Reconnects \in Nat, FramesTypeOK, NativeAgrees, ChannelAgrees,
           ReadsState \/ DeliversState \/ ReadsFrame
    PROVE  ChannelAgrees'
<1> SUFFICES ASSUME window # "over"
             PROVE  \E after \in [0..Len(channel') -> 0..losses'] : Counts(after)'
  BY DEF ChannelAgrees, ReadsState, DeliversState, ReadsFrame, windowVars, queueVars
<1>1. PICK before \in [0..Len(channel) -> 0..losses] : Counts(before)
  BY DEF ChannelAgrees
<1>2. losses \in Nat /\ channel \in Seq(Events) /\ Len(channel) \in Nat /\ pending.generation \in Generations
  BY FramesTyped DEF Boxes, PendingTypeOK
<1>3. before[Len(channel)] \in 0..losses /\ before[Len(channel)] + Unsaid <= losses
  BY <1>1, <1>2 DEF Counts
<1>4. CASE ReadsState
  <2>1. UNCHANGED <<channel, told>> /\ unsaid = FALSE
    BY <1>4 DEF ReadsState, windowVars
  <2>2. losses' \in Nat /\ losses <= losses' /\ Unsaid' + losses <= losses'
    BY <1>2, <1>4 DEF ReadsState, Unsaid
  <2>3. before \in [0..Len(channel') -> 0..losses']
    BY <1>1, <1>2, <2>1, <2>2
  <2>4. Unsaid' \in {0, 1}
    BY DEF Unsaid
  <2>5. before[Len(channel')] + Unsaid' <= losses'
    BY <1>2, <1>3, <2>1, <2>2, <2>4, SMTT(20)
  <2>6. Counts(before)'
    BY <1>1, <2>1, <2>5 DEF Counts, Follows
  <2> QED
    BY <2>3, <2>6
<1>5. CASE DeliversState
  <2> DEFINE e == [event |-> state, generation |-> 0]
  <2>1. state \in {"reconnecting", "final"} /\ unsaid
    BY <1>5 DEF DeliversState, NativeAgrees
  <2>2. e \in Events /\ e.event = state
    BY <2>1, NumbersAre DEF Events
  <2>3. channel' = Append(channel, e) /\ UNCHANGED <<told, losses>> /\ Unsaid' = 0
    BY <1>5 DEF DeliversState, windowVars, Unsaid
  <2>4. (IF e.event = "reconnecting" THEN 1 ELSE 0) = Unsaid
    BY <2>1 DEF Unsaid
  <2>5. Unsaid \in {0, 1}
    BY DEF Unsaid
  <2> HIDE DEF e, Unsaid
  <2>6. before[Len(channel)] + (IF e.event = "reconnecting" THEN 1 ELSE 0) + Unsaid' <= losses'
    BY <1>2, <1>3, <2>3, <2>4, <2>5
  <2>7. e.event # "framebuffer"
    BY <2>1, <2>2
  <2> QED
    BY <1>1, <2>2, <2>3, <2>6, <2>7, OneMoreCounted
<1>6. CASE ReadsFrame
  <2> DEFINE e == [event |-> "framebuffer", generation |-> pending.generation]
  <2>1. e \in Events /\ e.event = "framebuffer" /\ e.generation = pending.generation
    BY <1>2 DEF Events
  <2>2. UNCHANGED <<told, losses, unsaid, state>> /\ Unsaid' = 0 /\ Unsaid = 0
    BY <1>6 DEF ReadsFrame, windowVars, Unsaid
  <2>3. pending.generation = 3 * losses + 2
    BY <1>6 DEF ReadsFrame, NativeAgrees, Offset
  <2>4. e.generation >= 3 * before[Len(channel)]
    BY <1>2, <1>3, <2>1, <2>3
  <2>5. before[Len(channel)] + (IF e.event = "reconnecting" THEN 1 ELSE 0) + Unsaid' <= losses'
    BY <1>2, <1>3, <2>1, <2>2
  <2>6. CASE channel' = Append(channel, e)
    <3> HIDE DEF e
    <3> QED
      BY <1>1, <2>1, <2>2, <2>4, <2>5, <2>6, OneMoreCounted
  <2>7. CASE channel' = channel
    BY <1>1, <2>2, <2>7, CountsStay
  <2> QED
    BY <1>6, <2>6, <2>7 DEF ReadsFrame
<1> QED
  BY <1>4, <1>5, <1>6

LEMMA WindowKeepsChannel ==
    ASSUME Reconnects \in Nat, FramesTypeOK, ChannelAgrees,
           \/ Hears \/ Opens \/ Flushes \/ TakesFrame \/ Paints \/ FetchFails \/ Disposes
           \/ UNCHANGED framesVars
    PROVE  ChannelAgrees'
<1> SUFFICES ASSUME window' # "over"
             PROVE  /\ \E after \in [0..Len(channel') -> 0..losses'] : Counts(after)'
                    /\ generation' # None => generation' >= 3 * told'
  BY DEF ChannelAgrees
<1>1. window # "over"
  BY DEF Hears, Opens, Flushes, TakesFrame, Paints, FetchFails, Disposes, framesVars, windowVars
<1>2. PICK before \in [0..Len(channel) -> 0..losses] : Counts(before)
  BY <1>1 DEF ChannelAgrees
<1>3. CASE Hears
  <2>1. /\ channel # <<>> /\ channel' = Tail(channel) /\ UNCHANGED <<unsaid, state, losses>>
        /\ told' = told + (IF Head(channel).event = "reconnecting" THEN 1 ELSE 0)
        /\ \/ generation' = None
           \/ Head(channel).event = "framebuffer" /\ generation' = Head(channel).generation
              /\ told' = told
    <3>1. told \in Nat
      BY FramesTyped
    <3> QED
      BY <1>1, <1>3, <3>1 DEF Hears, Resets
  <2> QED
    BY <1>2, <2>1, OneHeardCounted
<1>4. CASE Opens \/ Flushes \/ TakesFrame \/ Paints \/ FetchFails \/ Disposes \/ UNCHANGED framesVars
  <2>1. UNCHANGED <<channel, told, unsaid, state, losses>> /\ (generation' = generation \/ generation' = None)
    BY <1>4 DEF Opens, Flushes, TakesFrame, Paints, FetchFails, Disposes, Resets, framesVars, nativeVars, queueVars
  <2> QED
    BY <1>1, <1>2, <2>1, CountsStay DEF ChannelAgrees
<1> QED
  BY <1>3, <1>4

LEMMA NextKeepsFetch ==
    ASSUME Reconnects \in Nat, FramesTypeOK, NativeAgrees, FetchAgrees, [FramesNext]_framesVars
    PROVE  FetchAgrees'
<1>1. FetchTypeOK /\ PendingTypeOK
  BY FramesTyped DEF Boxes
<1>2. CASE Flushes \/ Paints \/ FetchFails
  <2>1. fetch'.frame = NoFrame
    BY <1>2 DEF Flushes, Paints, FetchFails, Idle
  <2> QED
    BY <2>1 DEF FetchAgrees
<1>3. CASE TakesFrame
  <2>1. fetch'.step = "answered" /\ fetch'.generation = fetch.generation
    BY <1>1, <1>3 DEF TakesFrame, FetchTypeOK
  <2>2. CASE fetch.generation = pending.generation
    <3>1. fetch'.frame = pending.frame
      BY <1>1, <1>3, <2>2 DEF TakesFrame, FetchTypeOK
    <3>2. pending.frame # NoFrame => pending.generation = 3 * pending.frame + 2
      BY DEF NativeAgrees, Offset
    <3> QED
      BY <2>1, <2>2, <3>1, <3>2 DEF FetchAgrees
  <2>3. CASE fetch.generation # pending.generation
    <3>1. fetch'.frame = fetch.frame
      BY <1>1, <1>3, <2>3 DEF TakesFrame, FetchTypeOK
    <3> QED
      BY <1>3, <2>1, <3>1 DEF TakesFrame, FetchAgrees
  <2> QED
    BY <2>2, <2>3
<1>4. CASE Hears \/ Disposes
  <2>1. /\ fetch'.frame = fetch.frame /\ fetch'.generation = fetch.generation
        /\ fetch'.step = fetch.step
    BY <1>1, <1>4 DEF Hears, Disposes, Resets, windowVars, queueVars, FetchTypeOK
  <2> QED
    BY <2>1 DEF FetchAgrees
<1>5. CASE ReadsState \/ DeliversState \/ ReadsFrame \/ Opens \/ UNCHANGED framesVars
  <2>1. fetch' = fetch
    BY <1>5 DEF ReadsState, DeliversState, ReadsFrame, Opens, windowVars, queueVars, framesVars
  <2> QED
    BY <2>1 DEF FetchAgrees
<1> QED
  BY <1>2, <1>3, <1>4, <1>5 DEF FramesNext

LEMMA NextPaintsCurrent ==
    ASSUME Reconnects \in Nat, FramesTypeOK, ChannelAgrees, FetchAgrees, PaintsCurrent,
           [FramesNext]_framesVars
    PROVE  PaintsCurrent'
<1>1. CASE Paints
  <2>1. told' = told
    BY <1>1 DEF Paints
  <2>2. CASE Current /\ fetch.frame # NoFrame
    <3>1. window # "over" /\ fetch.generation = generation /\ fetch.generation = 3 * fetch.frame + 2
      BY <2>2 DEF Current, FetchAgrees
    <3>2. fetch.frame \in Nat /\ told \in Nat
      BY <2>2, NumbersAre, FramesTyped DEF Boxes, FetchTypeOK
    <3>3. generation >= 3 * told
      BY <3>1, <3>2 DEF ChannelAgrees, None
    <3>4. fetch.frame >= told
      BY <3>1, <3>2, <3>3
    <3> QED
      BY <1>1, <2>1, <2>2, <3>4 DEF Paints, PaintsCurrent
  <2>3. CASE ~(Current /\ fetch.frame # NoFrame)
    BY <1>1, <2>1, <2>3 DEF Paints, PaintsCurrent
  <2> QED
    BY <2>2, <2>3
<1>2. CASE Hears
  BY <1>2 DEF Hears, PaintsCurrent, windowVars
<1>3. CASE \/ ReadsState \/ DeliversState \/ ReadsFrame \/ Opens \/ Flushes \/ TakesFrame \/ FetchFails
          \/ Disposes \/ UNCHANGED framesVars
  <2>1. UNCHANGED <<canvas, told>>
    BY <1>3 DEF ReadsState, DeliversState, ReadsFrame, Opens, Flushes, TakesFrame, FetchFails, Disposes,
                framesVars, windowVars
  <2> QED
    BY <2>1 DEF PaintsCurrent
<1> QED
  BY <1>1, <1>2, <1>3 DEF FramesNext

-----------------------------------------------------------------------------
LEMMA FramesInitEstablishes ==
    ASSUME Reconnects \in Nat, FramesInit
    PROVE  FramesInductive
<1>1. FramesTypeOK
  <2>1. 0 \in 0..Reconnects /\ 0 \in 0..0
    OBVIOUS
  <2>2. PendingTypeOK /\ FetchTypeOK
    BY IdleTyped, NumbersAre DEF FramesInit, PendingTypeOK, FetchTypeOK
  <2>3. Boxes
    BY <2>2 DEF FramesInit, Boxes
  <2> QED
    BY <2>1, <2>3, NumbersAre, FramesTyped DEF FramesInit
<1>2. NativeAgrees /\ FetchAgrees /\ PaintsCurrent
  BY DEF FramesInit, NativeAgrees, Offset, FetchAgrees, Idle, PaintsCurrent
<1>3. ChannelAgrees
  <2> DEFINE before == [i \in 0..Len(channel) |-> 0]
  <2>1. Len(channel) = 0 /\ losses = 0 /\ told = 0 /\ ~unsaid /\ generation = None
    BY DEF FramesInit
  <2>2. before \in [0..Len(channel) -> 0..losses] /\ before[0] = 0
    BY <2>1
  <2> HIDE DEF before
  <2>3. Counts(before)
    BY <2>1, <2>2 DEF Counts, Unsaid
  <2> QED
    BY <2>1, <2>2, <2>3 DEF ChannelAgrees
<1> QED
  BY <1>1, <1>2, <1>3 DEF FramesInductive

LEMMA FramesNextKeeps ==
    ASSUME Reconnects \in Nat, FramesInductive, [FramesNext]_framesVars
    PROVE  FramesInductive'
<1>1. FramesTypeOK'
  <2>1. CASE UNCHANGED framesVars
    BY <2>1, FramesTyped DEF FramesInductive, framesVars, Boxes, PendingTypeOK, FetchTypeOK
  <2> QED
    BY <2>1, NativeTyped, HearsTyped, WindowTyped DEF FramesInductive, FramesNext
<1>2. ChannelAgrees'
  BY NativeKeepsChannel, WindowKeepsChannel DEF FramesInductive, FramesNext
<1> QED
  BY <1>1, <1>2, NextKeepsNative, NextKeepsFetch, NextPaintsCurrent DEF FramesInductive

\* The window of a remote desktop shows nothing from before the last loss it was told of,
\* whenever the answer of take_framebuffer arrives and however often the session is lost
\* (PendingFramebuffer::clear, RemoteFramebufferQueue).
THEOREM FramesAreCurrent == FramesSpec => []PaintsCurrent
<1>1. FramesInductive /\ [FramesNext]_framesVars => FramesInductive'
  BY FramesNextKeeps, FramesAssumption
<1>2. FramesInit => FramesInductive
  BY FramesInitEstablishes, FramesAssumption
<1>3. FramesInductive => PaintsCurrent
  BY DEF FramesInductive
<1> QED
  BY <1>1, <1>2, <1>3, PTL DEF FramesSpec
=============================================================================
