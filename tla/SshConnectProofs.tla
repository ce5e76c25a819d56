-------------------------- MODULE SshConnectProofs --------------------------
(***************************************************************************)
(* The safety properties of SshConnect, for any connections, requests and  *)
(* limits, and however often a session is lost.                            *)
(***************************************************************************)
EXTENDS SshConnect, FiniteSetTheorems, TLAPS

-----------------------------------------------------------------------------
\* The invariant, connection by connection.

\* What is open and approved at each step: the hops before the current one, the current
\* one when its turn has come, and nothing when nothing is set up.
ChainAgrees(c) ==
    /\ connectStep[c] \in {"off", "prepare", "backoff", "remove", "over"} =>
          openHops[c] = {} /\ approvedHops[c] = {}
    /\ connectStep[c] \in Setup \ {"prepare"} => hop[c] \in 1..plan[c].hops
    /\ Stands(c, "reach") => openHops[c] = 1..hop[c] - 1 /\ approvedHops[c] = 1..hop[c] - 1
    /\ Stands(c, "verify") => openHops[c] = 1..hop[c] /\ approvedHops[c] = 1..hop[c] - 1
    /\ connectStep[c] \in {"authenticate", "ask", "asked", "shell", "startup", "register", "live"} =>
          openHops[c] = 1..hop[c] /\ approvedHops[c] = 1..hop[c]
    /\ connectStep[c] \in {"shell", "startup", "register", "live"} => hop[c] = plan[c].hops
    /\ Stands(c, "hangup") => openHops[c] \subseteq 1..hop[c]

\* What was sent was sent to approved hops, and who approved them.
TrustAgrees(c) ==
    /\ toldHops[c] \subseteq approvedHops[c]
    /\ approvedHops[c] # {} => plan[c].policy = "known" /\ plan[c].auth # "inspect"

\* A connection is registered from its first shell until it is over; an attempt of a
\* registered one is a reconnect; an inspection is never registered.
SessionAgrees(c) ==
    /\ plan[c].auth = "inspect" =>
          /\ connectStep[c] \in {"off", "prepare", "reach", "verify", "hangup", "over"}
          /\ attempt[c] = 0 /\ c \notin sessions
    /\ Stands(c, "off") => c \notin sessions /\ attempt[c] = 0
    /\ connectStep[c] \in Setup \cup {"register"} => (c \in sessions <=> attempt[c] > 0)
    /\ connectStep[c] \in {"live", "backoff", "remove"} => c \in sessions
    /\ Stands(c, "live") => attempt[c] = 0
    /\ Stands(c, "backoff") => attempt[c] > 0
    /\ Stands(c, "hangup") /\ plan[c].auth # "inspect" => c \in sessions
    /\ Stands(c, "over") => c \notin sessions
    /\ quitting /\ c \in sessions => closing[c]

\* The prompts and dialogs of a connection are its current one, while it waits; an answer
\* that was taken is of a prompt that was shown, and nobody can take it again.
PromptAgrees(c) ==
    /\ \A n \in 1..Asked : <<c, n>> \in prompts \cup dialogs => Stands(c, "asked") /\ n = asks[c]
    /\ Stands(c, "asked") => <<c, asks[c]>> \in dialogs
    /\ reply[c] # "none" => Stands(c, "asked") /\ <<c, asks[c]>> \notin prompts
    /\ \A n \in 1..Asked, a \in PromptAnswers :
          <<c, n, a>> \in replies => n <= asks[c] /\ <<c, n>> \notin prompts

StartupAgrees(c) == startupSent[c] = "unknown" => connectStep[c] \in {"remove", "over"}

\* Whether an answer may still be asked for.
AskAgrees(c) == Stands(c, "ask") => asks[c] < Asked

Agrees(c) ==
    /\ ChainAgrees(c) /\ TrustAgrees(c) /\ SessionAgrees(c)
    /\ PromptAgrees(c) /\ StartupAgrees(c) /\ AskAgrees(c)

PromptsBounded == IsFiniteSet(prompts) /\ Cardinality(prompts) <= PromptLimit

ConnectInductive == ConnectTypeOK /\ PromptsBounded /\ \A c \in Connects : Agrees(c)

-----------------------------------------------------------------------------
\* What a step of one connection leaves of another.
Elsewhere(d) ==
    /\ plan'[d] = plan[d] /\ connectStep'[d] = connectStep[d] /\ hop'[d] = hop[d]
    /\ attempt'[d] = attempt[d] /\ openHops'[d] = openHops[d] /\ toldHops'[d] = toldHops[d]
    /\ approvedHops'[d] = approvedHops[d] /\ startupSent'[d] = startupSent[d]
    /\ reply'[d] = reply[d] /\ asks'[d] = asks[d]
    /\ (d \in sessions') = (d \in sessions) /\ (closing[d] => closing'[d]) /\ quitting' = quitting
    /\ \A n \in 1..Asked :
          /\ <<d, n>> \in prompts' \cup dialogs' => <<d, n>> \in prompts \cup dialogs
          /\ <<d, n>> \in prompts' => <<d, n>> \in prompts
          /\ <<d, n>> \in dialogs => <<d, n>> \in dialogs'
          /\ \A a \in PromptAnswers : <<d, n, a>> \in replies' => <<d, n, a>> \in replies

\* A step of the connection c that keeps the invariant.
Keeps(c) ==
    /\ ConnectTypeOK' /\ PromptsBounded' /\ Agrees(c)'
    /\ \A d \in Connects \ {c} : Elsewhere(d)

LEMMA ElsewhereAgrees ==
    ASSUME ConnectTypeOK, NEW d \in Connects, Agrees(d), Elsewhere(d)
    PROVE  Agrees(d)'
<1>1. ChainAgrees(d)' /\ TrustAgrees(d)'
    BY DEF Agrees, Elsewhere, ChainAgrees, TrustAgrees, Stands
<1>2. SessionAgrees(d)'
    BY DEF Agrees, Elsewhere, SessionAgrees, Stands
<1>3. PromptAgrees(d)'
    BY DEF Agrees, Elsewhere, PromptAgrees, Stands, ConnectTypeOK
<1>4. StartupAgrees(d)' /\ AskAgrees(d)'
    BY DEF Agrees, Elsewhere, StartupAgrees, AskAgrees, Stands
<1> QED
    BY <1>1, <1>2, <1>3, <1>4 DEF Agrees

LEMMA KeepsSuffices ==
    ASSUME ConnectInductive, NEW c \in Connects, Keeps(c)
    PROVE  ConnectInductive'
BY ElsewhereAgrees DEF ConnectInductive, Keeps

\* What stays of the prompts stays bounded.
LEMMA FewerPrompts ==
    ASSUME PromptsBounded, prompts' \subseteq prompts
    PROVE  PromptsBounded'
BY ConnectAssumption, FS_Subset, FS_CardinalityType DEF PromptsBounded

\* What the numbers are.
LEMMA Numbers ==
    ASSUME ConnectInductive, NEW c \in Connects
    PROVE  /\ plan[c].hops \in Nat /\ plan[c].hops <= Hops
           /\ plan[c].auth \in {"stored", "prompt", "inspect"}
           /\ hop[c] \in Nat /\ hop[c] <= Hops
           /\ attempt[c] \in Nat /\ attempt[c] <= AttemptLimit
           /\ asks[c] \in Nat /\ asks[c] <= Asked
BY ConnectAssumption DEF ConnectInductive, ConnectTypeOK, Plans

LEMMA HopRange ==
    ASSUME ConnectInductive, NEW c \in Connects, connectStep[c] \in Setup, connectStep[c] # "prepare"
    PROVE  hop[c] \in 1..Hops /\ hop[c] > 0 /\ hop[c] <= plan[c].hops
BY Numbers, ConnectAssumption DEF ConnectInductive, Agrees, ChainAgrees

LEMMA Intervals ==
    ASSUME NEW n \in Nat, n > 0
    PROVE  /\ (1..n - 1) \cup {n} = 1..n
           /\ (1..n) \ {n} = 1..n - 1
           /\ n + 1 - 1 = n /\ 1..1 - 1 = {}
OBVIOUS

LEMMA StartConnectKeeps ==
    ASSUME ConnectInductive, NEW c \in Connects, NEW p \in Plans, StartConnect(c, p)
    PROVE  Keeps(c)
<1> USE DEF StartConnect, Advances, Stands, setupVars, chainVars, promptVars, Registry, ConnectInductive
<1>1. ConnectTypeOK'
    BY DEF ConnectTypeOK, ConnectSteps
<1>2. ChainAgrees(c)' /\ TrustAgrees(c)'
    BY DEF ConnectTypeOK, Agrees, ChainAgrees, TrustAgrees, Setup
<1>3. SessionAgrees(c)' /\ StartupAgrees(c)' /\ AskAgrees(c)'
    BY Numbers DEF ConnectTypeOK, Agrees, SessionAgrees, StartupAgrees, AskAgrees, Setup
<1>4. PromptAgrees(c)'
    BY DEF ConnectTypeOK, Agrees, PromptAgrees
<1>5. PromptsBounded'
    BY DEF PromptsBounded
<1>6. \A d \in Connects \ {c} : Elsewhere(d)
    BY DEF ConnectTypeOK, Elsewhere
<1> QED
    BY <1>1, <1>2, <1>3, <1>4, <1>5, <1>6 DEF Keeps, Agrees

\* A setup that ends unfinished, whyever it does: what it had is dropped, a new connection
\* is over, and a session is reconnected again only if its startup input cannot have
\* been sent.
LEMMA AbortKeeps ==
    ASSUME ConnectInductive, NEW c \in Connects, NEW step,
           connectStep[c] \in Setup \cup {"register"}, plan[c].auth = "inspect" => step = "over",
           Aborts(c, step), UNCHANGED plan, UNCHANGED Registry,
           IF attempt[c] = 0 THEN step = "over" ELSE step \in {"backoff", "remove"},
           hop' \in [Connects -> 0..Hops], \A d \in Connects \ {c} : hop'[d] = hop[d],
           attempt' \in [Connects -> 0..AttemptLimit],
           \A d \in Connects \ {c} : attempt'[d] = attempt[d],
           attempt[c] = 0 <=> attempt'[c] = 0,
           startupSent' \in [Connects -> {"no", "yes", "unknown"}],
           \A d \in Connects \ {c} : startupSent'[d] = startupSent[d],
           startupSent'[c] = "unknown" => step # "backoff"
    PROVE  Keeps(c)
<1> USE DEF Aborts, Advances, DropsChain, DropsPrompt, Current, Stands, Registry, ConnectInductive
<1>1. ConnectTypeOK'
    BY DEF ConnectTypeOK, ConnectSteps
<1>2. ChainAgrees(c)' /\ TrustAgrees(c)'
    BY DEF ConnectTypeOK, Agrees, ChainAgrees, TrustAgrees, Setup
<1>3. SessionAgrees(c)' /\ StartupAgrees(c)' /\ AskAgrees(c)'
  <2>1. connectStep'[c] = step /\ step \in {"over", "backoff", "remove"}
    BY DEF ConnectTypeOK
  <2>2. c \in sessions <=> attempt[c] # 0
    BY Numbers DEF Agrees, SessionAgrees
  <2>3. attempt'[c] > 0 <=> attempt[c] # 0
    BY ConnectAssumption, Numbers
  <2>4. SessionAgrees(c)'
    BY <2>1, <2>2, <2>3 DEF Agrees, SessionAgrees, Setup
  <2> QED
    BY <2>1, <2>4 DEF StartupAgrees, AskAgrees
<1>4. PromptAgrees(c)'
  <2>0. step # "asked"
    OBVIOUS
  <2>1. connectStep'[c] # "asked" /\ asks' = asks /\ replies' = replies
    BY <2>0 DEF ConnectTypeOK
  <2>2. reply'[c] = "none"
    BY DEF ConnectTypeOK
  <2>3. \A n \in 1..Asked : <<c, n>> \notin prompts' \cup dialogs'
    BY DEF Agrees, PromptAgrees
  <2>4. \A n \in 1..Asked, a \in PromptAnswers :
            <<c, n, a>> \in replies' => n <= asks'[c] /\ <<c, n>> \notin prompts'
    BY <2>1 DEF Agrees, PromptAgrees
  <2> QED
    BY <2>1, <2>2, <2>3, <2>4 DEF PromptAgrees
<1>5. PromptsBounded'
    BY FewerPrompts
<1>6. \A d \in Connects \ {c} : Elsewhere(d)
    BY DEF ConnectTypeOK, Elsewhere
<1> QED
    BY <1>1, <1>2, <1>3, <1>4, <1>5, <1>6 DEF Keeps, Agrees

LEMMA GivesUpKeeps ==
    ASSUME ConnectInductive, NEW c \in Connects, connectStep[c] \in Setup,
           GivesUpSetup(c), UNCHANGED plan, UNCHANGED Registry,
           hop' \in [Connects -> 0..Hops], \A d \in Connects \ {c} : hop'[d] = hop[d],
           startupSent' \in [Connects -> {"no", "yes", "unknown"}],
           \A d \in Connects \ {c} : startupSent'[d] = startupSent[d]
    PROVE  Keeps(c)
<1> DEFINE step == IF attempt[c] = 0 THEN "over" ELSE IF MayRetry(c) THEN "backoff" ELSE "remove"
<1>1. Aborts(c, step)
    BY DEF GivesUpSetup
<1>2. /\ attempt' \in [Connects -> 0..AttemptLimit]
      /\ \A d \in Connects \ {c} : attempt'[d] = attempt[d]
      /\ attempt[c] = 0 <=> attempt'[c] = 0
    BY ConnectAssumption DEF GivesUpSetup, MayRetry, ConnectInductive, ConnectTypeOK
<1>3. startupSent'[c] = "unknown" => step # "backoff"
    BY DEF MayRetry
<1>4. plan[c].auth = "inspect" => step = "over"
    BY DEF ConnectInductive, Agrees, SessionAgrees
<1>5. IF attempt[c] = 0 THEN step = "over" ELSE step \in {"backoff", "remove"}
    OBVIOUS
<1> HIDE DEF step
<1> QED
    BY <1>1, <1>2, <1>3, <1>4, <1>5, AbortKeeps

LEMMA FailureKeeps ==
    ASSUME ConnectInductive, NEW c \in Connects, connectStep[c] \in Setup, FailsSetup(c),
           UNCHANGED plan, UNCHANGED Registry,
           hop' \in [Connects -> 0..Hops], \A d \in Connects \ {c} : hop'[d] = hop[d]
    PROVE  Keeps(c)
BY GivesUpKeeps DEF FailsSetup, ConnectInductive, ConnectTypeOK

LEMMA PrepareTransportKeeps ==
    ASSUME ConnectInductive, NEW c \in Connects, PrepareTransport(c)
    PROVE  Keeps(c)
<1> USE ConnectAssumption DEF PrepareTransport, Advances, Stands, setupVars, chainVars,
        promptVars, Registry
<1>1. CASE FailsSetup(c)
  <2>1. connectStep[c] \in Setup /\ UNCHANGED plan /\ UNCHANGED Registry
    BY DEF Setup
  <2>2. hop' \in [Connects -> 0..Hops] /\ \A d \in Connects \ {c} : hop'[d] = hop[d]
    BY <1>1 DEF ConnectInductive, ConnectTypeOK
  <2> QED
    BY <1>1, <2>1, <2>2, FailureKeeps
<1>2. CASE ~FailsSetup(c)
  <2> USE <1>2 DEF ConnectInductive
  <2>1. /\ connectStep[c] = "prepare"
        /\ plan'[c] = plan[c]
        /\ connectStep'[c] = "reach"
        /\ hop'[c] = 1
        /\ openHops'[c] = openHops[c]
        /\ approvedHops'[c] = approvedHops[c]
        /\ toldHops'[c] = toldHops[c]
    BY Numbers, HopRange DEF ConnectTypeOK, Setup
  <2>2. hop'[c] \in 0..Hops
    BY <2>1, Numbers, HopRange DEF Setup
  <2>3. ConnectTypeOK'
    BY <2>1, <2>2, HopRange DEF ConnectTypeOK, ConnectSteps, Setup
  <2>4. ChainAgrees(c)' /\ TrustAgrees(c)'
    BY <2>1, Numbers, HopRange, Intervals DEF Agrees, ChainAgrees, TrustAgrees, Setup
  <2>5. SessionAgrees(c)' /\ StartupAgrees(c)' /\ AskAgrees(c)'
    BY <2>1 DEF ConnectTypeOK, Agrees, SessionAgrees, StartupAgrees, AskAgrees, Setup
  <2>6. PromptAgrees(c)'
    BY <2>1 DEF ConnectTypeOK, Agrees, PromptAgrees
  <2>7. PromptsBounded'
    BY DEF PromptsBounded
  <2>8. \A d \in Connects \ {c} : Elsewhere(d)
    BY DEF ConnectTypeOK, Elsewhere
  <2> QED
    BY <2>3, <2>4, <2>5, <2>6, <2>7, <2>8 DEF Keeps, Agrees
<1> QED
    BY <1>1, <1>2

LEMMA ReachHopKeeps ==
    ASSUME ConnectInductive, NEW c \in Connects, ReachHop(c)
    PROVE  Keeps(c)
<1> USE ConnectAssumption DEF ReachHop, Advances, Stands, setupVars, chainVars, promptVars, Registry
<1>1. CASE FailsSetup(c)
  <2>1. connectStep[c] \in Setup /\ UNCHANGED plan /\ UNCHANGED Registry
    BY DEF Setup
  <2>2. hop' \in [Connects -> 0..Hops] /\ \A d \in Connects \ {c} : hop'[d] = hop[d]
    BY <1>1 DEF ConnectInductive, ConnectTypeOK
  <2> QED
    BY <1>1, <2>1, <2>2, FailureKeeps
<1>2. CASE ~FailsSetup(c)
  <2> USE <1>2 DEF ConnectInductive
  <2>0. /\ hop[c] \in 1..Hops /\ hop[c] \in Nat /\ hop[c] > 0 /\ hop[c] <= plan[c].hops
        /\ plan[c].hops \in Nat /\ plan[c].hops <= Hops
        /\ (1..hop[c] - 1) \cup {hop[c]} = 1..hop[c] /\ hop[c] + 1 - 1 = hop[c]
    BY Numbers, HopRange, Intervals DEF Setup
  <2>1. /\ connectStep[c] = "reach"
        /\ plan'[c] = plan[c]
        /\ connectStep'[c] = "verify"
        /\ hop'[c] = hop[c]
        /\ openHops'[c] = openHops[c] \cup {hop[c]}
        /\ approvedHops'[c] = approvedHops[c]
        /\ toldHops'[c] = toldHops[c]
    BY <2>0 DEF ConnectTypeOK
  <2>2. hop'[c] \in 0..Hops
    BY <2>0, <2>1
  <2>3. ConnectTypeOK'
    <3>0. openHops' = [openHops EXCEPT ![c] = @ \cup {hop[c]}]
      OBVIOUS
    <3>1. openHops' \in [Connects -> SUBSET (1..Hops)]
      <4> HIDE DEF ReachHop
      <4> QED
        BY <2>0, <3>0 DEF ConnectTypeOK
    <3>2. connectStep' \in [Connects -> ConnectSteps]
      BY DEF ConnectTypeOK, ConnectSteps
    <3> QED
      BY <3>1, <3>2 DEF ConnectTypeOK
  <2>4. ChainAgrees(c)' /\ TrustAgrees(c)'
    <3>1. ChainAgrees(c)'
      BY <2>0, <2>1 DEF Agrees, ChainAgrees, Setup
    <3>2. TrustAgrees(c)'
      BY <2>0, <2>1 DEF Agrees, ChainAgrees, TrustAgrees, Setup
    <3> QED
      BY <3>1, <3>2
  <2>5. SessionAgrees(c)' /\ StartupAgrees(c)' /\ AskAgrees(c)'
    BY <2>1 DEF ConnectTypeOK, Agrees, SessionAgrees, StartupAgrees, AskAgrees, Setup
  <2>6. PromptAgrees(c)'
    BY <2>1 DEF ConnectTypeOK, Agrees, PromptAgrees
  <2>7. PromptsBounded'
    BY DEF PromptsBounded
  <2>8. \A d \in Connects \ {c} : Elsewhere(d)
    BY DEF ConnectTypeOK, Elsewhere
  <2> QED
    BY <2>3, <2>4, <2>5, <2>6, <2>7, <2>8 DEF Keeps, Agrees
<1> QED
    BY <1>1, <1>2

LEMMA CheckServerKeyKeeps ==
    ASSUME ConnectInductive, NEW c \in Connects, CheckServerKey(c)
    PROVE  Keeps(c)
<1> USE ConnectAssumption DEF CheckServerKey, Advances, Stands, setupVars, chainVars, promptVars,
        Registry
<1>1. CASE FailsSetup(c)
  <2>1. connectStep[c] \in Setup /\ UNCHANGED plan /\ UNCHANGED Registry
    BY DEF Setup
  <2>2. hop' \in [Connects -> 0..Hops] /\ \A d \in Connects \ {c} : hop'[d] = hop[d]
    BY <1>1 DEF ConnectInductive, ConnectTypeOK
  <2> QED
    BY <1>1, <2>1, <2>2, FailureKeeps
<1>2. CASE ~FailsSetup(c)
  <2> USE <1>2 DEF ConnectInductive
  <2>0. /\ hop[c] \in 1..Hops /\ hop[c] \in Nat /\ hop[c] > 0 /\ hop[c] <= plan[c].hops
        /\ plan[c].hops \in Nat /\ plan[c].hops <= Hops
        /\ (1..hop[c] - 1) \cup {hop[c]} = 1..hop[c] /\ hop[c] + 1 - 1 = hop[c]
    BY Numbers, HopRange, Intervals DEF Setup
  <2>1. /\ connectStep[c] = "verify"
        /\ plan'[c] = plan[c]
        /\ hop'[c] = hop[c]
        /\ openHops'[c] = openHops[c]
        /\ toldHops'[c] = toldHops[c]
        /\ \/ /\ plan[c].auth # "inspect" /\ plan[c].policy = "known"
              /\ connectStep'[c] = "authenticate"
              /\ approvedHops'[c] = approvedHops[c] \cup {hop[c]}
           \/ /\ plan[c].auth = "inspect"
              /\ connectStep'[c] = "hangup" /\ approvedHops'[c] = approvedHops[c]
    BY <2>0 DEF ConnectTypeOK
  <2>2. hop'[c] \in 0..Hops
    BY <2>0, <2>1
  <2>3. ConnectTypeOK'
    BY <2>0, <2>1, <2>2 DEF ConnectTypeOK, ConnectSteps
  <2>4. ChainAgrees(c)' /\ TrustAgrees(c)'
    <3>1. ChainAgrees(c)'
      BY <2>0, <2>1 DEF Agrees, ChainAgrees, Setup
    <3>2. TrustAgrees(c)'
      BY <2>0, <2>1 DEF Agrees, ChainAgrees, TrustAgrees, Setup
    <3> QED
      BY <3>1, <3>2
  <2>5. SessionAgrees(c)' /\ StartupAgrees(c)' /\ AskAgrees(c)'
    BY <2>1 DEF ConnectTypeOK, Agrees, SessionAgrees, StartupAgrees, AskAgrees, Setup
  <2>6. PromptAgrees(c)'
    BY <2>1 DEF ConnectTypeOK, Agrees, PromptAgrees
  <2>7. PromptsBounded'
    BY DEF PromptsBounded
  <2>8. \A d \in Connects \ {c} : Elsewhere(d)
    BY DEF ConnectTypeOK, Elsewhere
  <2> QED
    BY <2>3, <2>4, <2>5, <2>6, <2>7, <2>8 DEF Keeps, Agrees
<1> QED
    BY <1>1, <1>2

LEMMA NextHopFacts ==
    ASSUME ConnectInductive, NEW c \in Connects, connectStep[c] = "authenticate", NextHop(c)
    PROVE  /\ hop' \in [Connects -> 0..Hops] /\ \A d \in Connects \ {c} : hop'[d] = hop[d]
           /\ connectStep' \in [Connects -> ConnectSteps]
           /\ \A d \in Connects \ {c} : connectStep'[d] = connectStep[d]
           /\ \/ /\ hop[c] < plan[c].hops
                 /\ hop'[c] = hop[c] + 1 /\ connectStep'[c] = "reach"
              \/ /\ hop[c] = plan[c].hops
                 /\ hop'[c] = hop[c] /\ connectStep'[c] = "shell"
<1>0. /\ hop \in [Connects -> 0..Hops] /\ connectStep \in [Connects -> ConnectSteps]
      /\ hop[c] \in 1..Hops /\ hop[c] <= plan[c].hops
      /\ plan[c].hops \in Nat /\ plan[c].hops <= Hops /\ Hops \in Nat
    BY Numbers, HopRange, ConnectAssumption DEF ConnectInductive, ConnectTypeOK, Setup
<1>1. CASE hop[c] < plan[c].hops
  <2>1. hop' = [hop EXCEPT ![c] = @ + 1] /\ connectStep' = [connectStep EXCEPT ![c] = "reach"]
    BY <1>1 DEF NextHop, Advances
  <2>2. hop[c] + 1 \in 0..Hops
    BY <1>0, <1>1
  <2> QED
    BY <1>0, <1>1, <2>1, <2>2 DEF ConnectSteps
<1>2. CASE ~(hop[c] < plan[c].hops)
  <2>1. hop' = hop /\ connectStep' = [connectStep EXCEPT ![c] = "shell"]
    BY <1>2 DEF NextHop, Advances
  <2>2. hop[c] = plan[c].hops
    BY <1>0, <1>2
  <2> QED
    BY <1>0, <2>1, <2>2 DEF ConnectSteps
<1> QED
    BY <1>1, <1>2

LEMMA SendStoredKeeps ==
    ASSUME ConnectInductive, NEW c \in Connects, SendStored(c)
    PROVE  Keeps(c)
<1> USE ConnectAssumption DEF SendStored, Advances, Stands, setupVars, chainVars, promptVars,
        Registry
<1>1. CASE FailsSetup(c)
  <2>1. connectStep[c] \in Setup /\ UNCHANGED plan /\ UNCHANGED Registry
    BY DEF Setup
  <2>2. hop' \in [Connects -> 0..Hops] /\ \A d \in Connects \ {c} : hop'[d] = hop[d]
    BY <1>1, NextHopFacts DEF ConnectInductive, ConnectTypeOK
  <2> QED
    BY <1>1, <2>1, <2>2, FailureKeeps
<1>2. CASE ~FailsSetup(c)
  <2> USE <1>2 DEF ConnectInductive
  <2>0. /\ hop[c] \in 1..Hops /\ hop[c] \in Nat /\ hop[c] > 0 /\ hop[c] <= plan[c].hops
        /\ plan[c].hops \in Nat /\ plan[c].hops <= Hops
        /\ (1..hop[c] - 1) \cup {hop[c]} = 1..hop[c] /\ hop[c] + 1 - 1 = hop[c]
    BY Numbers, HopRange, Intervals DEF Setup
  <2>1. /\ connectStep[c] = "authenticate"
        /\ plan'[c] = plan[c]
        /\ openHops'[c] = openHops[c]
        /\ approvedHops'[c] = approvedHops[c]
        /\ toldHops'[c] = toldHops[c] \cup {hop[c]}
        /\ \/ /\ hop[c] < plan[c].hops
              /\ hop'[c] = hop[c] + 1 /\ connectStep'[c] = "reach"
           \/ /\ hop[c] = plan[c].hops
              /\ hop'[c] = hop[c] /\ connectStep'[c] = "shell"
    BY <2>0, NextHopFacts DEF ConnectTypeOK
  <2>2. hop'[c] \in 0..Hops
    BY <2>0, <2>1
  <2>3. ConnectTypeOK'
    BY <2>0, <2>1, <2>2, NextHopFacts DEF ConnectTypeOK, ConnectSteps
  <2>4. ChainAgrees(c)' /\ TrustAgrees(c)'
    <3>1. ChainAgrees(c)'
      BY <2>0, <2>1 DEF Agrees, ChainAgrees, Setup
    <3>2. TrustAgrees(c)'
      BY <2>0, <2>1 DEF Agrees, ChainAgrees, TrustAgrees, Setup
    <3> QED
      BY <3>1, <3>2
  <2>5. SessionAgrees(c)' /\ StartupAgrees(c)' /\ AskAgrees(c)'
    BY <2>1 DEF ConnectTypeOK, Agrees, SessionAgrees, StartupAgrees, AskAgrees, Setup
  <2>6. PromptAgrees(c)'
    BY <2>1 DEF ConnectTypeOK, Agrees, PromptAgrees
  <2>7. PromptsBounded'
    BY DEF PromptsBounded
  <2>8. \A d \in Connects \ {c} : Elsewhere(d)
    BY NextHopFacts DEF ConnectTypeOK, Elsewhere
  <2> QED
    BY <2>3, <2>4, <2>5, <2>6, <2>7, <2>8 DEF Keeps, Agrees
<1> QED
    BY <1>1, <1>2

LEMMA KeyboardInteractiveKeeps ==
    ASSUME ConnectInductive, NEW c \in Connects, KeyboardInteractive(c)
    PROVE  Keeps(c)
<1> USE ConnectAssumption DEF KeyboardInteractive, Advances, Stands, setupVars, chainVars,
        promptVars, Registry
<1>1. CASE FailsSetup(c)
  <2>1. connectStep[c] \in Setup /\ UNCHANGED plan /\ UNCHANGED Registry
    BY DEF Setup
  <2>2. hop' \in [Connects -> 0..Hops] /\ \A d \in Connects \ {c} : hop'[d] = hop[d]
    BY <1>1, NextHopFacts DEF ConnectInductive, ConnectTypeOK
  <2> QED
    BY <1>1, <2>1, <2>2, FailureKeeps
<1>2. CASE ~FailsSetup(c)
  <2> USE <1>2 DEF ConnectInductive
  <2>0. /\ hop[c] \in 1..Hops /\ hop[c] \in Nat /\ hop[c] > 0 /\ hop[c] <= plan[c].hops
        /\ plan[c].hops \in Nat /\ plan[c].hops <= Hops
        /\ (1..hop[c] - 1) \cup {hop[c]} = 1..hop[c] /\ hop[c] + 1 - 1 = hop[c]
    BY Numbers, HopRange, Intervals DEF Setup
  <2>1. /\ connectStep[c] = "authenticate"
        /\ plan'[c] = plan[c]
        /\ openHops'[c] = openHops[c]
        /\ approvedHops'[c] = approvedHops[c]
        /\ toldHops'[c] = toldHops[c]
        /\ \/ /\ hop[c] < plan[c].hops
              /\ hop'[c] = hop[c] + 1 /\ connectStep'[c] = "reach"
           \/ /\ hop[c] = plan[c].hops
              /\ hop'[c] = hop[c] /\ connectStep'[c] = "shell"
           \/ asks[c] < Asked /\ hop'[c] = hop[c] /\ connectStep'[c] = "ask"
    BY <2>0, NextHopFacts DEF ConnectTypeOK
  <2>2. hop'[c] \in 0..Hops
    BY <2>0, <2>1
  <2>3. ConnectTypeOK'
    BY <2>0, <2>1, <2>2, NextHopFacts DEF ConnectTypeOK, ConnectSteps
  <2>4. ChainAgrees(c)' /\ TrustAgrees(c)'
    <3>1. ChainAgrees(c)'
      BY <2>0, <2>1 DEF Agrees, ChainAgrees, Setup
    <3>2. TrustAgrees(c)'
      BY <2>0, <2>1 DEF Agrees, ChainAgrees, TrustAgrees, Setup
    <3> QED
      BY <3>1, <3>2
  <2>5. SessionAgrees(c)' /\ StartupAgrees(c)' /\ AskAgrees(c)'
    BY <2>1 DEF ConnectTypeOK, Agrees, SessionAgrees, StartupAgrees, AskAgrees, Setup
  <2>6. PromptAgrees(c)'
    BY <2>1 DEF ConnectTypeOK, Agrees, PromptAgrees
  <2>7. PromptsBounded'
    BY DEF PromptsBounded
  <2>8. \A d \in Connects \ {c} : Elsewhere(d)
    BY NextHopFacts DEF ConnectTypeOK, Elsewhere
  <2> QED
    BY <2>3, <2>4, <2>5, <2>6, <2>7, <2>8 DEF Keeps, Agrees
<1> QED
    BY <1>1, <1>2

LEMMA OpenShellKeeps ==
    ASSUME ConnectInductive, NEW c \in Connects, OpenShell(c)
    PROVE  Keeps(c)
<1>1. CASE FailsSetup(c)
    BY <1>1, FailureKeeps DEF OpenShell, Stands, Setup, ConnectInductive, ConnectTypeOK
<1>2. CASE ~FailsSetup(c)
  <2> USE ConnectAssumption DEF OpenShell, Advances, Stands, setupVars, chainVars, promptVars,
          Registry, ConnectInductive
  <2>1. ConnectTypeOK'
      BY <1>2, Numbers DEF ConnectTypeOK, ConnectSteps, Agrees, ChainAgrees, Setup
  <2>2. ChainAgrees(c)' /\ TrustAgrees(c)'
    <3>1. /\ connectStep[c] = "shell" /\ connectStep'[c] \in {"startup", "register"}
          /\ UNCHANGED <<plan, hop, openHops, approvedHops, toldHops>>
      BY <1>2 DEF ConnectTypeOK
    <3> QED
      BY <3>1 DEF Agrees, ChainAgrees, TrustAgrees, Setup
  <2>3. SessionAgrees(c)' /\ StartupAgrees(c)' /\ AskAgrees(c)'
      BY <1>2 DEF ConnectTypeOK, Agrees, SessionAgrees, StartupAgrees, AskAgrees, Setup
  <2>4. PromptAgrees(c)'
      BY <1>2 DEF ConnectTypeOK, Agrees, PromptAgrees
  <2>5. PromptsBounded'
      BY <1>2 DEF PromptsBounded
  <2>6. \A d \in Connects \ {c} : Elsewhere(d)
      BY <1>2 DEF ConnectTypeOK, Elsewhere
  <2> QED
      BY <2>1, <2>2, <2>3, <2>4, <2>5, <2>6 DEF Keeps, Agrees
<1> QED
    BY <1>1, <1>2

LEMMA ReopenSessionKeeps ==
    ASSUME ConnectInductive, NEW c \in Connects, ReopenSession(c)
    PROVE  Keeps(c)
<1> USE ConnectAssumption DEF ReopenSession, Advances, Stands, setupVars, chainVars, promptVars,
        Registry, ConnectInductive
<1>1. ConnectTypeOK'
    BY DEF ConnectTypeOK, ConnectSteps
<1>2. ChainAgrees(c)' /\ TrustAgrees(c)'
    BY DEF ConnectTypeOK, Agrees, ChainAgrees, TrustAgrees, Setup
<1>3. SessionAgrees(c)' /\ StartupAgrees(c)' /\ AskAgrees(c)'
  <2>1. /\ connectStep[c] = "register" /\ attempt[c] > 0 /\ attempt'[c] = 0
        /\ connectStep'[c] = IF closing[c] THEN "hangup" ELSE "live"
        /\ UNCHANGED <<plan, startupSent, asks, sessions, closing, quitting>>
    BY DEF ConnectTypeOK
  <2>2. c \in sessions /\ plan[c].auth # "inspect"
    BY <2>1 DEF Agrees, SessionAgrees, Setup
  <2> QED
    BY <2>1, <2>2 DEF Agrees, SessionAgrees, StartupAgrees, AskAgrees, Setup
<1>4. PromptAgrees(c)'
    BY DEF ConnectTypeOK, Agrees, PromptAgrees
<1>5. PromptsBounded'
    BY DEF PromptsBounded
<1>6. \A d \in Connects \ {c} : Elsewhere(d)
    BY DEF ConnectTypeOK, Elsewhere
<1> QED
    BY <1>1, <1>2, <1>3, <1>4, <1>5, <1>6 DEF Keeps, Agrees

LEMMA ShellOverKeeps ==
    ASSUME ConnectInductive, NEW c \in Connects, ShellOver(c)
    PROVE  Keeps(c)
<1> USE ConnectAssumption DEF ShellOver, Advances, Stands, setupVars, chainVars, promptVars,
        Registry, ConnectInductive
<1>1. ConnectTypeOK'
  <2>1. streak' \in [Connects -> 0..AttemptLimit] /\ attempt' \in [Connects -> 0..AttemptLimit]
    <3>1. CASE UNCHANGED <<lost, streak, attempt>>
      BY <3>1 DEF ConnectTypeOK
    <3>2. CASE ~UNCHANGED <<lost, streak, attempt>>
      <4>1. PICK previous \in {0, streak[c]} :
                /\ previous < AttemptLimit
                /\ streak' = [streak EXCEPT ![c] = previous + 1]
                /\ attempt' = [attempt EXCEPT ![c] = 1]
        BY <3>2
      <4>2. previous + 1 \in 0..AttemptLimit /\ 1 \in 0..AttemptLimit
        BY <4>1 DEF ConnectTypeOK
      <4> HIDE DEF ShellOver
      <4> QED
        BY <4>1, <4>2 DEF ConnectTypeOK
    <3> QED
      BY <3>1, <3>2
  <2>2. lost' \in [Connects -> Nat]
    BY DEF ConnectTypeOK
  <2>4. connectStep' \in [Connects -> ConnectSteps]
    BY DEF ConnectTypeOK, ConnectSteps
  <2>3. UNCHANGED <<plan, hop, chainVars, promptVars, startupSent, sessions, closing, quitting>>
    OBVIOUS
  <2> QED
    BY <2>1, <2>2, <2>3, <2>4 DEF ConnectTypeOK
<1>2. ChainAgrees(c)' /\ TrustAgrees(c)'
    BY DEF ConnectTypeOK, Agrees, ChainAgrees, TrustAgrees, Setup
<1>3. SessionAgrees(c)' /\ StartupAgrees(c)' /\ AskAgrees(c)'
    BY Numbers DEF ConnectTypeOK, Agrees, SessionAgrees, StartupAgrees, AskAgrees, Setup
<1>4. PromptAgrees(c)'
    BY DEF ConnectTypeOK, Agrees, PromptAgrees
<1>5. PromptsBounded'
    BY DEF PromptsBounded
<1>6. \A d \in Connects \ {c} : Elsewhere(d)
    BY DEF ConnectTypeOK, Elsewhere
<1> QED
    BY <1>1, <1>2, <1>3, <1>4, <1>5, <1>6 DEF Keeps, Agrees

LEMMA DisconnectOneKeeps ==
    ASSUME ConnectInductive, NEW c \in Connects, DisconnectOne(c)
    PROVE  Keeps(c)
<1> USE ConnectAssumption DEF DisconnectOne, Advances, Stands, setupVars, chainVars, promptVars,
        Registry, ConnectInductive
<1>1. ConnectTypeOK'
  <2>1. openHops' \in [Connects -> SUBSET (1..Hops)]
    BY DEF ConnectTypeOK
  <2>2. hop[c] > 1 => hop[c] - 1 \in 0..Hops
    BY Numbers
  <2>3. hop' \in [Connects -> 0..Hops]
    BY <2>2 DEF ConnectTypeOK
  <2>4. /\ connectStep' \in [Connects -> ConnectSteps]
        /\ approvedHops' \in [Connects -> SUBSET (1..Hops)]
        /\ toldHops' \in [Connects -> SUBSET (1..Hops)]
    BY DEF ConnectTypeOK, ConnectSteps
  <2>5. UNCHANGED <<plan, promptVars, attempt, startupSent, sessions, closing, lost, streak, quitting>>
    OBVIOUS
  <2> QED
    BY <2>1, <2>3, <2>4, <2>5 DEF ConnectTypeOK
<1>2. ChainAgrees(c)' /\ TrustAgrees(c)'
    BY DEF ConnectTypeOK, Agrees, ChainAgrees, TrustAgrees, Setup
<1>3. SessionAgrees(c)' /\ StartupAgrees(c)' /\ AskAgrees(c)'
    BY Numbers DEF ConnectTypeOK, Agrees, SessionAgrees, StartupAgrees, AskAgrees, Setup
<1>4. PromptAgrees(c)'
    BY DEF ConnectTypeOK, Agrees, PromptAgrees
<1>5. PromptsBounded'
    BY DEF PromptsBounded
<1>6. \A d \in Connects \ {c} : Elsewhere(d)
    BY DEF ConnectTypeOK, Elsewhere
<1> QED
    BY <1>1, <1>2, <1>3, <1>4, <1>5, <1>6 DEF Keeps, Agrees

LEMMA BackoffKeeps ==
    ASSUME ConnectInductive, NEW c \in Connects, Backoff(c)
    PROVE  Keeps(c)
<1> USE ConnectAssumption DEF Backoff, Advances, Stands, setupVars, chainVars, promptVars,
        Registry, ConnectInductive
<1>1. ConnectTypeOK'
    BY DEF ConnectTypeOK, ConnectSteps
<1>2. ChainAgrees(c)' /\ TrustAgrees(c)'
    BY DEF ConnectTypeOK, Agrees, ChainAgrees, TrustAgrees, Setup
<1>3. SessionAgrees(c)' /\ StartupAgrees(c)' /\ AskAgrees(c)'
    BY Numbers DEF ConnectTypeOK, Agrees, SessionAgrees, StartupAgrees, AskAgrees, Setup
<1>4. PromptAgrees(c)'
    BY DEF ConnectTypeOK, Agrees, PromptAgrees
<1>5. PromptsBounded'
    BY DEF PromptsBounded
<1>6. \A d \in Connects \ {c} : Elsewhere(d)
    BY DEF ConnectTypeOK, Elsewhere
<1> QED
    BY <1>1, <1>2, <1>3, <1>4, <1>5, <1>6 DEF Keeps, Agrees

LEMMA RemoveSessionKeeps ==
    ASSUME ConnectInductive, NEW c \in Connects, RemoveSession(c)
    PROVE  Keeps(c)
<1> USE ConnectAssumption DEF RemoveSession, Advances, Stands, setupVars, chainVars, promptVars,
        Registry, ConnectInductive
<1>1. ConnectTypeOK'
    BY DEF ConnectTypeOK, ConnectSteps
<1>2. ChainAgrees(c)' /\ TrustAgrees(c)'
    BY DEF ConnectTypeOK, Agrees, ChainAgrees, TrustAgrees, Setup
<1>3. SessionAgrees(c)' /\ StartupAgrees(c)' /\ AskAgrees(c)'
    BY Numbers DEF ConnectTypeOK, Agrees, SessionAgrees, StartupAgrees, AskAgrees, Setup
<1>4. PromptAgrees(c)'
    BY DEF ConnectTypeOK, Agrees, PromptAgrees
<1>5. PromptsBounded'
    BY DEF PromptsBounded
<1>6. \A d \in Connects \ {c} : Elsewhere(d)
    BY DEF ConnectTypeOK, Elsewhere
<1> QED
    BY <1>1, <1>2, <1>3, <1>4, <1>5, <1>6 DEF Keeps, Agrees

LEMMA CloseSessionKeeps ==
    ASSUME ConnectInductive, NEW c \in Connects, CloseSession(c)
    PROVE  Keeps(c)
<1> USE ConnectAssumption DEF CloseSession, Advances, Stands, setupVars, chainVars, promptVars,
        Registry, ConnectInductive
<1>1. ConnectTypeOK'
    BY DEF ConnectTypeOK, ConnectSteps
<1>2. ChainAgrees(c)' /\ TrustAgrees(c)'
    BY DEF ConnectTypeOK, Agrees, ChainAgrees, TrustAgrees, Setup
<1>3. SessionAgrees(c)' /\ StartupAgrees(c)' /\ AskAgrees(c)'
    BY Numbers DEF ConnectTypeOK, Agrees, SessionAgrees, StartupAgrees, AskAgrees, Setup
<1>4. PromptAgrees(c)'
    BY DEF ConnectTypeOK, Agrees, PromptAgrees
<1>5. PromptsBounded'
    BY DEF PromptsBounded
<1>6. \A d \in Connects \ {c} : Elsewhere(d)
    BY DEF ConnectTypeOK, Elsewhere
<1> QED
    BY <1>1, <1>2, <1>3, <1>4, <1>5, <1>6 DEF Keeps, Agrees

\* A prompt is shown under a number that no prompt had, if there is room for it.
LEMMA AskKeeps ==
    ASSUME ConnectInductive, NEW c \in Connects, Ask(c)
    PROVE  Keeps(c)
<1> USE ConnectAssumption DEF Ask, Advances, Stands, setupVars, chainVars, promptVars, Registry
<1>1. CASE FailsSetup(c)
    BY <1>1, FailureKeeps DEF Setup, ConnectInductive, ConnectTypeOK
<1>2. CASE ~FailsSetup(c)
  <2> USE <1>2 DEF ConnectInductive
  <2>1. /\ connectStep[c] = "ask" /\ connectStep'[c] = "asked"
        /\ asks[c] < Asked /\ asks'[c] = asks[c] + 1
        /\ prompts' = prompts \cup {<<c, asks[c] + 1>>}
        /\ dialogs' = dialogs \cup {<<c, asks[c] + 1>>}
        /\ UNCHANGED <<plan, hop, openHops, approvedHops, toldHops, replies, reply>>
    BY DEF Agrees, AskAgrees, ConnectTypeOK
  <2>2. asks[c] \in Nat /\ asks[c] + 1 \in 1..Asked
    BY <2>1, Numbers
  <2>3. ConnectTypeOK'
    BY <2>1, <2>2 DEF ConnectTypeOK, ConnectSteps
  <2>4. ChainAgrees(c)' /\ TrustAgrees(c)'
    BY <2>1 DEF Agrees, ChainAgrees, TrustAgrees, Setup
  <2>5. SessionAgrees(c)' /\ StartupAgrees(c)' /\ AskAgrees(c)'
    BY <2>1 DEF Agrees, SessionAgrees, StartupAgrees, AskAgrees, Setup
  <2>6. PromptAgrees(c)'
    <3>1. \A n \in 1..Asked : <<c, n>> \notin prompts \cup dialogs
      BY <2>1 DEF Agrees, PromptAgrees
    <3>2. reply[c] = "none"
      BY <2>1 DEF Agrees, PromptAgrees
    <3>3. \A n \in 1..Asked, a \in PromptAnswers :
              <<c, n, a>> \in replies' => n <= asks[c] /\ <<c, n>> \notin prompts
      BY <2>1 DEF Agrees, PromptAgrees
    <3> QED
      BY <2>1, <2>2, <3>1, <3>2, <3>3 DEF PromptAgrees
  <2>7. PromptsBounded'
    <3>1. Cardinality(prompts) \in Nat /\ Cardinality(prompts) < PromptLimit
      BY FS_CardinalityType DEF PromptsBounded
    <3>2. /\ IsFiniteSet(prompts \cup {<<c, asks[c] + 1>>})
          /\ Cardinality(prompts \cup {<<c, asks[c] + 1>>}) \in
                {Cardinality(prompts), Cardinality(prompts) + 1}
      BY FS_AddElement DEF PromptsBounded
    <3> QED
      BY <2>1, <3>1, <3>2 DEF PromptsBounded
  <2>8. \A d \in Connects \ {c} : Elsewhere(d)
    BY <2>1 DEF ConnectTypeOK, Elsewhere
  <2> QED
    BY <2>3, <2>4, <2>5, <2>6, <2>7, <2>8 DEF Keeps, Agrees
<1> QED
    BY <1>1, <1>2

\* The credential goes to a hop that has been approved, and its prompt is gone.
LEMMA TakeReplyKeeps ==
    ASSUME ConnectInductive, NEW c \in Connects, TakeReply(c)
    PROVE  Keeps(c)
<1> USE ConnectAssumption DEF TakeReply, Advances, Stands, chainVars, promptVars, Registry
<1>1. CASE FailsSetup(c)
    BY <1>1, FailureKeeps DEF Setup, ConnectInductive, ConnectTypeOK
<1>2. CASE ~FailsSetup(c)
  <2> USE <1>2 DEF ConnectInductive, DropsPrompt, Current
  <2>1. /\ connectStep[c] = "asked" /\ connectStep'[c] = "authenticate"
        /\ toldHops'[c] = toldHops[c] \cup {hop[c]} /\ reply'[c] = "none"
        /\ UNCHANGED <<plan, hop, openHops, approvedHops, asks, replies>>
    BY DEF ConnectTypeOK
  <2>2. hop[c] \in 1..Hops /\ hop[c] \in 1..hop[c]
    BY <2>1, HopRange, Numbers DEF Setup
  <2>3. ConnectTypeOK'
    <3>1. toldHops' \in [Connects -> SUBSET (1..Hops)]
      BY <2>2 DEF ConnectTypeOK
    <3>2. /\ reply' \in [Connects -> PromptAnswers \cup {"none"}]
          /\ connectStep' \in [Connects -> ConnectSteps]
      BY DEF ConnectTypeOK, ConnectSteps
    <3> QED
      BY <2>1, <3>1, <3>2 DEF ConnectTypeOK
  <2>4. ChainAgrees(c)' /\ TrustAgrees(c)'
    BY <2>1, <2>2 DEF Agrees, ChainAgrees, TrustAgrees, Setup
  <2>5. SessionAgrees(c)' /\ StartupAgrees(c)' /\ AskAgrees(c)'
    BY <2>1 DEF Agrees, SessionAgrees, StartupAgrees, AskAgrees, Setup
  <2>6. PromptAgrees(c)'
    BY <2>1 DEF Agrees, PromptAgrees
  <2>7. PromptsBounded'
    BY FewerPrompts
  <2>8. \A d \in Connects \ {c} : Elsewhere(d)
    BY <2>1 DEF ConnectTypeOK, Elsewhere
  <2> QED
    BY <2>3, <2>4, <2>5, <2>6, <2>7, <2>8 DEF Keeps, Agrees
<1> QED
    BY <1>1, <1>2

LEMMA WriteStartupKeeps ==
    ASSUME ConnectInductive, NEW c \in Connects, WriteStartup(c)
    PROVE  Keeps(c)
<1> USE ConnectAssumption DEF WriteStartup, Advances, Stands, chainVars, promptVars, Registry
<1>1. CASE GivesUpSetup(c)
  <2>1. /\ startupSent' \in [Connects -> {"no", "yes", "unknown"}]
        /\ \A d \in Connects \ {c} : startupSent'[d] = startupSent[d]
    BY DEF ConnectInductive, ConnectTypeOK
  <2>2. connectStep[c] \in Setup /\ hop \in [Connects -> 0..Hops]
    BY DEF Setup, ConnectInductive, ConnectTypeOK
  <2> QED
    BY <1>1, <2>1, <2>2, GivesUpKeeps
<1>2. CASE ~GivesUpSetup(c)
  <2> USE <1>2 DEF ConnectInductive
  <2>1. /\ connectStep[c] = "startup" /\ connectStep'[c] = "register"
        /\ startupSent'[c] = "yes"
        /\ UNCHANGED <<plan, hop, openHops, approvedHops, toldHops>>
    BY DEF ConnectTypeOK
  <2>2. ConnectTypeOK'
    <3>1. /\ connectStep' \in [Connects -> ConnectSteps]
          /\ startupSent' \in [Connects -> {"no", "yes", "unknown"}]
      BY DEF ConnectTypeOK, ConnectSteps
    <3>2. UNCHANGED <<plan, hop, openHops, approvedHops, toldHops, promptVars, attempt, Registry>>
      OBVIOUS
    <3> QED
      BY <3>1, <3>2 DEF ConnectTypeOK
  <2>3. ChainAgrees(c)' /\ TrustAgrees(c)'
    BY <2>1 DEF Agrees, ChainAgrees, TrustAgrees, Setup
  <2>4. SessionAgrees(c)' /\ StartupAgrees(c)' /\ AskAgrees(c)'
    BY <2>1 DEF Agrees, SessionAgrees, StartupAgrees, AskAgrees, Setup
  <2>5. PromptAgrees(c)'
    BY <2>1 DEF Agrees, PromptAgrees
  <2>6. PromptsBounded'
    BY DEF PromptsBounded
  <2>7. \A d \in Connects \ {c} : Elsewhere(d)
    BY <2>1 DEF ConnectTypeOK, Elsewhere
  <2> QED
    BY <2>2, <2>3, <2>4, <2>5, <2>6, <2>7 DEF Keeps, Agrees
<1> QED
    BY <1>1, <1>2

LEMMA SetupCancelledKeeps ==
    ASSUME ConnectInductive, NEW c \in Connects, SetupCancelled(c)
    PROVE  Keeps(c)
<1> DEFINE step == IF attempt[c] = 0 THEN "over" ELSE "remove"
<1>1. connectStep[c] \in Setup /\ Aborts(c, step) /\ UNCHANGED <<plan, hop, attempt>>
    BY DEF SetupCancelled
<1>2. UNCHANGED Registry
    BY DEF SetupCancelled
<1>3. /\ startupSent' \in [Connects -> {"no", "yes", "unknown"}]
      /\ \A d \in Connects \ {c} : startupSent'[d] = startupSent[d]
    BY DEF SetupCancelled, ConnectInductive, ConnectTypeOK
<1>4. plan[c].auth = "inspect" => step = "over"
    BY DEF ConnectInductive, Agrees, SessionAgrees
<1>5. step # "backoff" /\ IF attempt[c] = 0 THEN step = "over" ELSE step \in {"backoff", "remove"}
    OBVIOUS
<1>6. hop \in [Connects -> 0..Hops] /\ attempt \in [Connects -> 0..AttemptLimit]
    BY DEF ConnectInductive, ConnectTypeOK
<1> HIDE DEF step
<1> QED
    BY <1>1, <1>2, <1>3, <1>4, <1>5, <1>6, AbortKeeps

LEMMA RegisterSessionKeeps ==
    ASSUME ConnectInductive, NEW c \in Connects, RegisterSession(c)
    PROVE  Keeps(c)
<1> USE ConnectAssumption DEF RegisterSession, Advances, Stands, chainVars, promptVars, Registry
<1>1. CASE quitting
  <2>1. attempt[c] = 0 /\ connectStep[c] \in Setup \cup {"register"}
    OBVIOUS
  <2>2. startupSent[c] # "unknown"
    BY DEF ConnectInductive, Agrees, StartupAgrees
  <2> QED
    BY <1>1, <2>1, <2>2, AbortKeeps DEF ConnectInductive, ConnectTypeOK
<1>2. CASE ~quitting
  <2> USE <1>2 DEF ConnectInductive
  <2>1. /\ connectStep[c] = "register" /\ connectStep'[c] = "live" /\ attempt[c] = 0
        /\ sessions' = sessions \cup {c}
        /\ UNCHANGED <<plan, hop, openHops, approvedHops, toldHops, attempt, startupSent, asks,
                       closing, quitting>>
    BY DEF ConnectTypeOK
  <2>2. ConnectTypeOK'
    BY <2>1 DEF ConnectTypeOK, ConnectSteps
  <2>3. ChainAgrees(c)' /\ TrustAgrees(c)'
    BY <2>1 DEF Agrees, ChainAgrees, TrustAgrees, Setup
  <2>4. SessionAgrees(c)' /\ StartupAgrees(c)' /\ AskAgrees(c)'
    BY <2>1 DEF Agrees, SessionAgrees, StartupAgrees, AskAgrees, Setup
  <2>5. PromptAgrees(c)'
    BY <2>1 DEF Agrees, PromptAgrees
  <2>6. PromptsBounded'
    BY DEF PromptsBounded
  <2>7. \A d \in Connects \ {c} : Elsewhere(d)
    BY <2>1 DEF ConnectTypeOK, Elsewhere
  <2> QED
    BY <2>2, <2>3, <2>4, <2>5, <2>6, <2>7 DEF Keeps, Agrees
<1> QED
    BY <1>1, <1>2

\* answer_authentication takes the prompt; nobody can answer it again.
LEMMA TakePromptKeeps ==
    ASSUME ConnectInductive, NEW c \in Connects, NEW n \in 1..Asked, NEW a \in PromptAnswers,
           TakePrompt(<<c, n>>, a)
    PROVE  Keeps(c)
<1> USE DEF TakePrompt, Stands, chainVars, Registry, ConnectInductive
<1>1. /\ <<c, n>> \in prompts /\ prompts' = prompts \ {<<c, n>>}
      /\ replies' = replies \cup {<<c, n, a>>}
      /\ UNCHANGED <<connectStep, dialogs, reply, asks>>
    OBVIOUS
<1>2. n = asks[c] /\ n <= asks[c]
  <2>1. n = asks[c]
    BY <1>1 DEF Agrees, PromptAgrees
  <2> QED
    BY <2>1, Numbers
<1>3. ConnectTypeOK'
    BY DEF ConnectTypeOK
<1>4. ChainAgrees(c)' /\ TrustAgrees(c)'
    BY DEF Agrees, ChainAgrees, TrustAgrees
<1>5. SessionAgrees(c)' /\ StartupAgrees(c)' /\ AskAgrees(c)'
    BY DEF Agrees, SessionAgrees, StartupAgrees, AskAgrees
<1>6. PromptAgrees(c)'
    BY <1>1, <1>2 DEF Agrees, PromptAgrees
<1>7. PromptsBounded'
    BY <1>1, FewerPrompts
<1>8. \A d \in Connects \ {c} : Elsewhere(d)
    BY DEF ConnectTypeOK, Elsewhere
<1> QED
    BY <1>3, <1>4, <1>5, <1>6, <1>7, <1>8 DEF Keeps, Agrees

LEMMA SendReplyKeeps ==
    ASSUME ConnectInductive, NEW c \in Connects, NEW n \in 1..Asked, NEW a \in PromptAnswers,
           SendReply(<<c, n>>, a)
    PROVE  Keeps(c)
<1> USE DEF SendReply, Stands, Current, chainVars, ConnectInductive
<1>1. /\ <<c, n, a>> \in replies /\ replies' = replies \ {<<c, n, a>>}
      /\ reply' = IF connectStep[c] = "asked" /\ <<c, asks[c]>> = <<c, n>>
                  THEN [reply EXCEPT ![c] = a] ELSE reply
      /\ closing' = [closing EXCEPT ![c] =
                        @ \/ (a = "cancel" /\ attempt[c] > 0 /\ c \in sessions)]
      /\ UNCHANGED <<plan, connectStep, hop, openHops, approvedHops, toldHops, attempt,
                     startupSent, prompts, dialogs, asks, sessions, lost, streak, quitting>>
    OBVIOUS
<1>2. <<c, n>> \notin prompts
    BY <1>1 DEF Agrees, PromptAgrees
<1>3. ConnectTypeOK'
  <2>1. reply' \in [Connects -> PromptAnswers \cup {"none"}]
    BY <1>1 DEF ConnectTypeOK
  <2>2. closing' \in [Connects -> BOOLEAN]
    BY <1>1 DEF ConnectTypeOK
  <2> QED
    BY <1>1, <2>1, <2>2 DEF ConnectTypeOK
<1>4. ChainAgrees(c)' /\ TrustAgrees(c)'
    BY <1>1 DEF Agrees, ChainAgrees, TrustAgrees
<1>5. SessionAgrees(c)' /\ StartupAgrees(c)' /\ AskAgrees(c)'
    BY <1>1 DEF ConnectTypeOK, Agrees, SessionAgrees, StartupAgrees, AskAgrees
<1>6. PromptAgrees(c)'
    BY <1>1, <1>2 DEF ConnectTypeOK, Agrees, PromptAgrees
<1>7. PromptsBounded'
    BY <1>1 DEF PromptsBounded
<1>8. \A d \in Connects \ {c} : Elsewhere(d)
    BY <1>1 DEF ConnectTypeOK, Elsewhere
<1> QED
    BY <1>3, <1>4, <1>5, <1>6, <1>7, <1>8 DEF Keeps, Agrees

\* Quit moves nothing but what every session knows of it.
LEMMA QuitConnectsKeeps ==
    ASSUME ConnectInductive, QuitConnects
    PROVE  ConnectInductive'
<1> USE DEF QuitConnects, Stands, setupVars, chainVars, promptVars, ConnectInductive
<1>1. ConnectTypeOK'
    BY DEF ConnectTypeOK
<1>2. ASSUME NEW c \in Connects
      PROVE  Agrees(c)'
  <2>1. ChainAgrees(c)' /\ TrustAgrees(c)' /\ PromptAgrees(c)' /\ StartupAgrees(c)' /\ AskAgrees(c)'
    BY DEF Agrees, ChainAgrees, TrustAgrees, PromptAgrees, StartupAgrees, AskAgrees
  <2>2. SessionAgrees(c)'
    BY DEF Agrees, SessionAgrees, ConnectTypeOK
  <2> QED
    BY <2>1, <2>2 DEF Agrees
<1>3. PromptsBounded'
    BY DEF PromptsBounded
<1> QED
    BY <1>1, <1>2, <1>3

-----------------------------------------------------------------------------
\* The whole.

LEMMA ConnectInitEstablishes == ConnectInit => ConnectInductive
<1> SUFFICES ASSUME ConnectInit PROVE ConnectInductive
    OBVIOUS
<1>1. ConnectTypeOK
  <2>1. plan \in [Connects -> Plans]
    BY ConnectAssumption DEF ConnectInit, Plans
  <2>2. 0 \in 0..Hops /\ 0 \in 0..AttemptLimit /\ 0 \in 0..Asked
    BY ConnectAssumption
  <2> QED
    BY <2>1, <2>2 DEF ConnectInit, ConnectTypeOK, ConnectSteps
<1>2. PromptsBounded
    BY ConnectAssumption, FS_EmptySet DEF ConnectInit, PromptsBounded
<1>3. ASSUME NEW c \in Connects
      PROVE  Agrees(c)
    BY ConnectAssumption DEF ConnectInit, Agrees, ChainAgrees, TrustAgrees, SessionAgrees,
        PromptAgrees, StartupAgrees, AskAgrees, Stands, Setup
<1> QED
    BY <1>1, <1>2, <1>3 DEF ConnectInductive

LEMMA ConnectStepKeeps ==
    ASSUME ConnectInductive, NEW c \in Connects, ConnectStep(c)
    PROVE  Keeps(c)
<1>1. CASE SshConnectTransport(c)
    BY <1>1, PrepareTransportKeeps, ReachHopKeeps, CheckServerKeyKeeps, SendStoredKeeps,
        KeyboardInteractiveKeeps, AskKeeps, TakeReplyKeeps DEF SshConnectTransport
<1>2. CASE OpenShell(c) \/ WriteStartup(c) \/ RegisterSession(c) \/ ReopenSession(c)
    BY <1>2, OpenShellKeeps, WriteStartupKeeps, RegisterSessionKeeps, ReopenSessionKeeps
<1>3. CASE \/ SetupCancelled(c) \/ DisconnectOne(c) \/ Backoff(c) \/ RemoveSession(c)
           \/ ShellOver(c)
    BY <1>3, SetupCancelledKeeps, DisconnectOneKeeps, BackoffKeeps, RemoveSessionKeeps,
        ShellOverKeeps
<1>4. CASE InspectHostKey(c)
    BY <1>4, PrepareTransportKeeps, ReachHopKeeps, CheckServerKeyKeeps, DisconnectOneKeeps
        DEF InspectHostKey
<1> QED
    BY <1>1, <1>2, <1>3, <1>4 DEF ConnectStep, RunRemoteSession

LEMMA ConnectNextKeeps == ConnectInductive /\ [ConnectNext]_connectVars => ConnectInductive'
<1> SUFFICES ASSUME ConnectInductive, [ConnectNext]_connectVars PROVE ConnectInductive'
    OBVIOUS
<1>1. ASSUME NEW c \in Connects, NEW p \in Plans, StartConnect(c, p)
      PROVE  ConnectInductive'
    BY <1>1, StartConnectKeeps, KeepsSuffices
<1>2. ASSUME NEW c \in Connects, ConnectStep(c) \/ CloseSession(c)
      PROVE  ConnectInductive'
    BY <1>2, ConnectStepKeeps, CloseSessionKeeps, KeepsSuffices
<1>3. ASSUME NEW id \in Connects \X (1..Asked), NEW a \in PromptAnswers,
             TakePrompt(id, a) \/ SendReply(id, a)
      PROVE  ConnectInductive'
  <2>1. PICK c \in Connects, n \in 1..Asked : id = <<c, n>>
    OBVIOUS
  <2> QED
    BY <1>3, <2>1, TakePromptKeeps, SendReplyKeeps, KeepsSuffices
<1>4. CASE QuitConnects
    BY <1>4, QuitConnectsKeeps
<1>5. CASE UNCHANGED connectVars
  <2> USE <1>5 DEF connectVars, setupVars, chainVars, promptVars, ConnectInductive
  <2>1. ConnectTypeOK' /\ PromptsBounded'
    BY DEF ConnectTypeOK, PromptsBounded
  <2>2. ASSUME NEW c \in Connects
        PROVE  Elsewhere(c)
    BY DEF Elsewhere
  <2> QED
    BY <2>1, <2>2, ElsewhereAgrees
<1> QED
    BY <1>1, <1>2, <1>3, <1>4, <1>5 DEF ConnectNext

LEMMA Safe == ConnectInductive => ConnectSafety
<1> SUFFICES ASSUME ConnectInductive PROVE ConnectSafety
    OBVIOUS
<1>1. HostTrust
  <2> SUFFICES ASSUME NEW c \in Connects
               PROVE  /\ toldHops[c] \subseteq approvedHops[c]
                      /\ approvedHops[c] # {} => plan[c].policy = "known" /\ plan[c].auth # "inspect"
                      /\ connectStep[c] \in Setup \ {"prepare"} =>
                            1..hop[c] - 1 \subseteq openHops[c] \cap approvedHops[c]
                      /\ connectStep[c] \in {"shell", "startup", "register", "live"} =>
                            openHops[c] = 1..plan[c].hops /\ approvedHops[c] = openHops[c]
    BY DEF HostTrust
  <2>1. connectStep[c] \in Setup \ {"prepare"} =>
            /\ \/ openHops[c] = 1..hop[c] - 1
               \/ openHops[c] = 1..hop[c]
            /\ \/ approvedHops[c] = 1..hop[c] - 1
               \/ approvedHops[c] = 1..hop[c]
    BY DEF ConnectInductive, Agrees, ChainAgrees, Stands, Setup
  <2>2. 1..hop[c] - 1 \subseteq 1..hop[c]
    BY Numbers
  <2> QED
    BY <2>1, <2>2 DEF ConnectInductive, Agrees, TrustAgrees, ChainAgrees
<1>2. PromptsAreLive
  <2>1. ASSUME NEW id \in prompts \cup dialogs
        PROVE  Stands(id[1], "asked") /\ id = Current(id[1])
    <3>1. PICK c \in Connects, n \in 1..Asked : id = <<c, n>>
      BY DEF ConnectInductive, ConnectTypeOK
    <3> QED
      BY <3>1 DEF ConnectInductive, Agrees, PromptAgrees, Current
  <2>2. \A c \in Connects :
            /\ Stands(c, "asked") => Current(c) \in dialogs
            /\ reply[c] # "none" => Stands(c, "asked") /\ Current(c) \notin prompts
    BY DEF ConnectInductive, Agrees, PromptAgrees, Current
  <2> QED
    BY <2>1, <2>2 DEF PromptsAreLive, ConnectInductive, PromptsBounded
<1>3. StartupNotReplayed
    BY DEF ConnectInductive, Agrees, StartupAgrees, StartupNotReplayed
<1>4. NothingLeftOpen
    BY DEF ConnectInductive, Agrees, ChainAgrees, SessionAgrees, NothingLeftOpen, Stands
<1> QED
    BY <1>1, <1>2, <1>3, <1>4 DEF ConnectSafety

\* For any connections, requests, limits and losses: a credential is sent only to hops whose
\* key was approved, a prompt is open exactly while its handshake waits for it, startup
\* input that may have arrived is not sent again, and nothing of a connection outlives it.
THEOREM ConnectionsAreSafe == ConnectSpec => []ConnectSafety
<1> QED
    BY ConnectInitEstablishes, ConnectNextKeeps, Safe, PTL DEF ConnectSpec
=============================================================================
