------------------------ MODULE LocalTerminalProofs ------------------------
(***************************************************************************)
(* The safety properties of LocalTerminal, for every set of terminals, of  *)
(* attachments and of calls of shutdown.                                   *)
(*                                                                         *)
(* All but three facts of the inductive invariant are about one terminal.  *)
(* A step of one terminal leaves those of the others as they are (Frame),  *)
(* so a step is proved to keep them for the terminal it is about.          *)
(***************************************************************************)
EXTENDS LocalTerminal, TLAPS

-----------------------------------------------------------------------------
\* The invariant.

\* Nothing is there of a terminal that has no child yet.
Fresh(t) ==
    child[t] = "none" =>
        /\ t \notin registered /\ main # t
        /\ start[t] = "none" /\ stream[t] = "none"
        /\ \A k \in Cleaners : cleanup[t][k] = "idle"

\* Whoever took the start, or came further.
Winning == {"taken", "startup", "writing", "close", "ok"}

\* A start that is still there has been taken by nobody, and only one takes it.
StartAgrees(t) ==
    /\ start[t] \in {"none", "held"} =>
          startups[t] = 0 /\ \A a \in Attachers : attach[t][a] \notin Winning
    /\ \A a, b \in Attachers : attach[t][a] \in Winning /\ attach[t][b] \in Winning => a = b
    /\ \A a \in Attachers : attach[t][a] \in {"taken", "startup"} => startups[t] = 0

\* Only a reaped child is taken out of the registry; shutdown has its own way.
CleanupAgrees(t) ==
    /\ \A k \in Cleaners : cleanup[t][k] = "take" => child[t] = "reaped"
    /\ cleanup[t]["quit"] \notin {"find", "take"}
    /\ cleanup[t]["quit"] = "done" => child[t] = "reaped" \/ (t \in Stubborn /\ failed)

\* A spawn that fails late leaves its child to somebody else, or reaps it.
SpawnAgrees(t) ==
    main = t /\ stream[t] = "none" /\ cleanup[t]["main"] \in {"find", "done"} =>
        \/ t \in registered \/ cleanup[t]["quit"] # "idle"
        \/ child[t] = "reaped" \/ t \in Stubborn

\* What ChildOwned says of one terminal.
Owned(t) ==
    child[t] \in {"running", "exited"} =>
        \/ t \in registered
        \/ main = t /\ stream[t] = "none"
        \/ cleanup[t]["quit"] \in {"mark", "cancel", "reap"}
        \/ t \in Stubborn /\ (stream[t] = "none" \/ cleanup[t]["quit"] = "done")

OneTerminal(t) ==
    Fresh(t) /\ StartAgrees(t) /\ CleanupAgrees(t) /\ SpawnAgrees(t) /\ Owned(t)

\* Shutdown in its phases.
QuitAgrees ==
    /\ (\E q \in Quitters : quitting[q] = "returned") => phase = "complete"
    /\ phase \in {"cleaning", "complete"} => registered = {}
    /\ phase = "complete" => \A t \in Terminals : cleanup[t]["quit"] \in {"idle", "done"}

Inductive == TypeOK /\ (\A t \in Terminals : OneTerminal(t)) /\ QuitAgrees

-----------------------------------------------------------------------------
\* Steps of one terminal.

Places == {"idle", "find", "mark", "cancel", "reap", "take", "done"}
AttachPlaces == {"idle", "found", "taken", "startup", "writing", "close", "ok", "failed"}

\* A step of t leaves the others alone.
Others(t) ==
    /\ failed => failed'
    /\ \A u \in Terminals : u # t =>
          /\ child'[u] = child[u] /\ start'[u] = start[u] /\ stream'[u] = stream[u]
          /\ startups'[u] = startups[u] /\ attach'[u] = attach[u] /\ cleanup'[u] = cleanup[u]
          /\ (u \in registered') = (u \in registered)
          /\ (main' = u) = (main = u)

LEMMA Frame ==
    ASSUME NEW t \in Terminals, NEW u \in Terminals, u # t, Others(t), OneTerminal(u)
    PROVE  OneTerminal(u)'
<1>1. Fresh(u)'
    BY DEF Others, OneTerminal, Fresh
<1>2. StartAgrees(u)'
    BY DEF Others, OneTerminal, StartAgrees
<1>3. CleanupAgrees(u)'
    BY DEF Others, OneTerminal, CleanupAgrees
<1>4. SpawnAgrees(u)'
    BY DEF Others, OneTerminal, SpawnAgrees
<1>5. Owned(u)'
    BY DEF Others, OneTerminal, Owned
<1> QED
    BY <1>1, <1>2, <1>3, <1>4, <1>5 DEF OneTerminal

\* A step that moves at most one cleaner of t, or one attachment.
OnlyCleanup(t, k) ==
    /\ cleanup' \in [Terminals -> [Cleaners -> Places]]
    /\ \A j \in Cleaners : j # k => cleanup'[t][j] = cleanup[t][j]
    /\ \A u \in Terminals : u # t => cleanup'[u] = cleanup[u]

OnlyAttach(t, a) ==
    /\ attach' \in [Terminals -> [Attachers -> AttachPlaces]]
    /\ \A b \in Attachers : b # a => attach'[t][b] = attach[t][b]
    /\ \A u \in Terminals : u # t => attach'[u] = attach[u]

LEMMA StepFacts ==
    ASSUME TypeOK, NEW t \in Terminals, NEW k \in Cleaners, NEW from, NEW to \in Places,
           Step(t, k, from, to)
    PROVE  OnlyCleanup(t, k) /\ cleanup[t][k] = from /\ cleanup'[t][k] = to
BY DEF TypeOK, Step, OnlyCleanup, Places

LEMMA AttachFacts ==
    ASSUME TypeOK, NEW t \in Terminals, NEW a \in Attachers, NEW from, NEW to \in AttachPlaces,
           Attach(t, a, from, to)
    PROVE  OnlyAttach(t, a) /\ attach[t][a] = from /\ attach'[t][a] = to
BY DEF TypeOK, Attach, OnlyAttach, AttachPlaces

LEMMA SpawnKeeps ==
    ASSUME Inductive, NEW t \in Terminals, Spawn(t)
    PROVE  Inductive'
<1>0. TypeOK /\ OneTerminal(t) /\ QuitAgrees /\ {"main", "quit", "reader"} \subseteq Cleaners
    BY DEF Inductive, Cleaners
<1>1. /\ main = Nobody /\ main' = t
      /\ child[t] = "none"
      /\ child'[t] = "running"
      /\ \A u \in Terminals : u # t => child'[u] = child[u]
      /\ start'[t] = "held"
      /\ \A u \in Terminals : u # t => start'[u] = start[u]
      /\ child' \in [Terminals -> {"none", "running", "exited", "reaped"}]
      /\ start' \in [Terminals -> {"none", "held", "taken", "sent", "dropped"}]
    BY <1>0 DEF Spawn, TypeOK
<1>2. UNCHANGED <<registered, closing, stream, input, startups, attach, typing, cleanup,
    phase, failed, quitting>>
    BY DEF Spawn
<1>3. TypeOK'
    BY <1>0, <1>1, <1>2 DEF TypeOK, Places, AttachPlaces
<1>4. Others(t)
    BY <1>0, <1>1, <1>2, NobodyAssumption DEF Others
<1>5. OneTerminal(t)'
    BY <1>0, <1>1, <1>2, NobodyAssumption DEF OneTerminal, Fresh, StartAgrees, Winning,
        CleanupAgrees, SpawnAgrees, Owned
<1>6. QuitAgrees'
    BY <1>0, <1>1, <1>2 DEF QuitAgrees
<1> QED
    BY <1>3, <1>4, <1>5, <1>6, Frame DEF Inductive

LEMMA SpawnFailsKeeps ==
    ASSUME Inductive, NEW t \in Terminals, SpawnFails(t)
    PROVE  Inductive'
<1>0. TypeOK /\ OneTerminal(t) /\ QuitAgrees /\ {"main", "quit", "reader"} \subseteq Cleaners
    BY DEF Inductive, Cleaners
<1>1. /\ OnlyCleanup(t, "main")
      /\ cleanup[t]["main"] = "idle" /\ cleanup'[t]["main"] = "reap"
    BY <1>0, StepFacts DEF OnlyCleanup, SpawnFails, Places
<1>2. TypeOK'
    BY <1>0, <1>1 DEF OnlyCleanup, SpawnFails, TypeOK, Places, AttachPlaces
<1>3. Others(t)
    BY <1>0, <1>1, NobodyAssumption DEF OnlyCleanup, SpawnFails, Others
<1>4. OneTerminal(t)'
    BY <1>0, <1>1, NobodyAssumption DEF OnlyCleanup, SpawnFails, OneTerminal, Fresh,
        StartAgrees, Winning, CleanupAgrees, SpawnAgrees, Owned
<1>5. QuitAgrees'
    BY <1>0, <1>1 DEF OnlyCleanup, SpawnFails, QuitAgrees
<1> QED
    BY <1>2, <1>3, <1>4, <1>5, Frame DEF Inductive

LEMMA RegisterKeeps ==
    ASSUME Inductive, NEW t \in Terminals, Register(t)
    PROVE  Inductive'
<1>0. TypeOK /\ OneTerminal(t) /\ QuitAgrees /\ {"main", "quit", "reader"} \subseteq Cleaners
    BY DEF Inductive, Cleaners
<1>1. /\ main = t /\ t \notin registered \cup closing /\ stream[t] = "none"
      /\ cleanup[t]["main"] = "idle" /\ cleanup[t]["quit"] = "idle"
    BY DEF Register
<1>2. /\ registered' \subseteq Terminals
      /\ \A u \in Terminals : u # t => (u \in registered') = (u \in registered)
      /\ OnlyCleanup(t, "main")
      /\ \/ t \in registered' /\ registered' = registered \cup {t} /\ cleanup' = cleanup
            /\ phase = "open"
         \/ registered' = registered /\ cleanup'[t]["main"] = "mark"
  <2>1. CASE phase = "open"
    BY <1>0, <1>1, <2>1 DEF OnlyCleanup, Register, MayPublish, TypeOK, Places
  <2>2. CASE phase # "open"
    <3>1. cleanup' = [cleanup EXCEPT ![t]["main"] = "mark"] /\ registered' = registered
      BY <2>2 DEF OnlyCleanup, Register, MayPublish
    <3> QED
      BY <1>0, <3>1 DEF OnlyCleanup, TypeOK, Places
  <2> QED
    BY <2>1, <2>2
<1>3. UNCHANGED <<child, closing, start, stream, input, startups, attach, typing, main,
    phase, failed, quitting>>
    BY DEF Register
<1>4. TypeOK'
    BY <1>0, <1>1, <1>2, <1>3 DEF OnlyCleanup, TypeOK, Places, AttachPlaces
<1>5. Others(t)
    BY <1>0, <1>1, <1>2, <1>3, NobodyAssumption DEF OnlyCleanup, Others
<1>6. OneTerminal(t)'
    BY <1>0, <1>1, <1>2, <1>3, NobodyAssumption DEF OnlyCleanup, OneTerminal, Fresh,
        StartAgrees, Winning, CleanupAgrees, SpawnAgrees, Owned
<1>7. QuitAgrees'
    BY <1>0, <1>1, <1>2, <1>3 DEF OnlyCleanup, QuitAgrees
<1> QED
    BY <1>4, <1>5, <1>6, <1>7, Frame DEF Inductive

LEMMA StartStreamKeeps ==
    ASSUME Inductive, NEW t \in Terminals, StartStream(t)
    PROVE  Inductive'
<1>0. TypeOK /\ OneTerminal(t) /\ QuitAgrees /\ {"main", "quit", "reader"} \subseteq Cleaners
    BY DEF Inductive, Cleaners
<1>1. /\ main = t /\ stream[t] = "none" /\ cleanup[t]["main"] = "idle"
      /\ t \in registered \/ cleanup[t]["quit"] # "idle"
    BY DEF StartStream
<1>2. /\ \/ cleanup' = cleanup /\ stream'[t] = "waiting" /\ main' = Nobody
         \/ cleanup'[t]["main"] = "find" /\ stream' = stream /\ main' = main
      /\ stream' \in [Terminals -> {"none", "waiting", "streaming", "ending", "over"}]
      /\ \A u \in Terminals : u # t => stream'[u] = stream[u]
      /\ OnlyCleanup(t, "main")
  <2>1. CASE stream' = [stream EXCEPT ![t] = "waiting"] /\ main' = Nobody /\ UNCHANGED cleanup
    BY <1>0, <2>1 DEF OnlyCleanup, TypeOK, Places
  <2>2. CASE Step(t, "main", "idle", "find") /\ UNCHANGED <<stream, main>>
    BY <1>0, <2>2, StepFacts DEF OnlyCleanup, TypeOK, Places
  <2> QED
    BY <2>1, <2>2 DEF OnlyCleanup, StartStream
<1>3. /\ cleanup[t]["quit"] \in {"idle", "mark", "cancel", "reap", "done"}
      /\ cleanup'[t]["quit"] = cleanup[t]["quit"]
    BY <1>0, <1>2 DEF OnlyCleanup, OneTerminal, CleanupAgrees, TypeOK
<1>4. cleanup[t]["quit"] = "done" => child[t] = "reaped" \/ t \in Stubborn
    BY <1>0 DEF OneTerminal, CleanupAgrees
<1>5. UNCHANGED <<child, registered, closing, start, input, startups, attach, typing, phase,
    failed, quitting>>
    BY DEF StartStream
<1>6. TypeOK'
    BY <1>0, <1>1, <1>2, <1>3, <1>4, <1>5 DEF OnlyCleanup, TypeOK, Places, AttachPlaces
<1>7. Others(t)
    BY <1>0, <1>1, <1>2, <1>3, <1>4, <1>5, NobodyAssumption DEF OnlyCleanup, Others
<1>8. OneTerminal(t)'
    BY <1>0, <1>1, <1>2, <1>3, <1>4, <1>5, NobodyAssumption DEF OnlyCleanup, OneTerminal,
        Fresh, StartAgrees, Winning, CleanupAgrees, SpawnAgrees, Owned
<1>9. QuitAgrees'
    BY <1>0, <1>1, <1>2, <1>3, <1>4, <1>5 DEF OnlyCleanup, QuitAgrees
<1> QED
    BY <1>6, <1>7, <1>8, <1>9, Frame DEF Inductive

LEMMA MainReturnsKeeps ==
    ASSUME Inductive, NEW t \in Terminals, MainReturns(t)
    PROVE  Inductive'
<1>0. TypeOK /\ OneTerminal(t) /\ QuitAgrees /\ {"main", "quit", "reader"} \subseteq Cleaners
    BY DEF Inductive, Cleaners
<1>1. main = t /\ main' = Nobody
    BY DEF MainReturns
<1>2. /\ OnlyCleanup(t, "main")
      /\ cleanup[t]["main"] = "done" /\ cleanup'[t]["main"] = "idle"
    BY <1>0, StepFacts DEF OnlyCleanup, MainReturns, Places
<1>3. /\ cleanup[t]["quit"] \in {"idle", "mark", "cancel", "reap", "done"}
      /\ cleanup'[t]["quit"] = cleanup[t]["quit"]
    BY <1>0, <1>2 DEF OnlyCleanup, OneTerminal, CleanupAgrees, TypeOK
<1>4. /\ child[t] \in {"running", "exited"} =>
            \/ t \in registered \/ cleanup[t]["quit"] # "idle"
            \/ t \in Stubborn /\ stream[t] = "none"
    BY <1>0, <1>1, <1>2, <1>3 DEF OnlyCleanup, OneTerminal, Owned, SpawnAgrees
<1>5. cleanup[t]["quit"] = "done" => child[t] = "reaped" \/ t \in Stubborn
    BY <1>0 DEF OneTerminal, CleanupAgrees
<1>6. UNCHANGED <<child, registered, closing, start, stream, input, startups, attach, typing,
    phase, failed, quitting>>
    BY DEF MainReturns
<1>7. TypeOK'
    BY <1>0, <1>1, <1>2, <1>3, <1>4, <1>5, <1>6 DEF OnlyCleanup, TypeOK, Places, AttachPlaces
<1>8. Others(t)
    BY <1>0, <1>1, <1>2, <1>3, <1>4, <1>5, <1>6, NobodyAssumption DEF OnlyCleanup, Others
<1>9. OneTerminal(t)'
    BY <1>0, <1>1, <1>2, <1>3, <1>4, <1>5, <1>6, NobodyAssumption DEF OnlyCleanup,
        OneTerminal, Fresh, StartAgrees, Winning, CleanupAgrees, SpawnAgrees, Owned
<1>10. QuitAgrees'
    BY <1>0, <1>1, <1>2, <1>3, <1>4, <1>5, <1>6 DEF OnlyCleanup, QuitAgrees
<1> QED
    BY <1>7, <1>8, <1>9, <1>10, Frame DEF Inductive

LEMMA CloseCommandKeeps ==
    ASSUME Inductive, NEW t \in Terminals, CloseCommand(t)
    PROVE  Inductive'
<1>0. TypeOK /\ OneTerminal(t) /\ QuitAgrees /\ {"main", "quit", "reader"} \subseteq Cleaners
    BY DEF Inductive, Cleaners
<1>1. /\ OnlyCleanup(t, "main")
      /\ cleanup[t]["main"] = "idle" /\ cleanup'[t]["main"] = "find"
    BY <1>0, StepFacts DEF OnlyCleanup, CloseCommand, Places
<1>2. TypeOK'
    BY <1>0, <1>1 DEF OnlyCleanup, CloseCommand, Published, TypeOK, Places, AttachPlaces
<1>3. Others(t)
    BY <1>0, <1>1, NobodyAssumption DEF OnlyCleanup, CloseCommand, Published, Others
<1>4. OneTerminal(t)'
    BY <1>0, <1>1, NobodyAssumption DEF OnlyCleanup, CloseCommand, Published, OneTerminal,
        Fresh, StartAgrees, Winning, CleanupAgrees, SpawnAgrees, Owned
<1>5. QuitAgrees'
    BY <1>0, <1>1 DEF OnlyCleanup, CloseCommand, Published, QuitAgrees
<1> QED
    BY <1>2, <1>3, <1>4, <1>5, Frame DEF Inductive

LEMMA ExitKeeps ==
    ASSUME Inductive, NEW t \in Terminals, Exit(t)
    PROVE  Inductive'
<1>0. TypeOK /\ OneTerminal(t) /\ QuitAgrees /\ {"main", "quit", "reader"} \subseteq Cleaners
    BY DEF Inductive, Cleaners
<1>1. TypeOK'
    BY <1>0 DEF Exit, TypeOK, Places, AttachPlaces
<1>2. Others(t)
    BY <1>0, NobodyAssumption DEF Exit, Others
<1>3. OneTerminal(t)'
    BY <1>0, NobodyAssumption DEF Exit, OneTerminal, Fresh, StartAgrees, Winning,
        CleanupAgrees, SpawnAgrees, Owned
<1>4. QuitAgrees'
    BY <1>0 DEF Exit, QuitAgrees
<1> QED
    BY <1>1, <1>2, <1>3, <1>4, Frame DEF Inductive

LEMMA FindKeeps ==
    ASSUME Inductive, NEW t \in Terminals, NEW k \in Cleaners, Find(t, k)
    PROVE  Inductive'
<1>0. TypeOK /\ OneTerminal(t) /\ QuitAgrees /\ {"main", "quit", "reader"} \subseteq Cleaners
    BY DEF Inductive, Cleaners
<1>1. /\ OnlyCleanup(t, k)
      /\ cleanup[t][k] = "find" /\ cleanup'[t][k] \in {"mark", "done"}
    BY <1>0, StepFacts DEF OnlyCleanup, Find, Places
<1>2. TypeOK'
    BY <1>0, <1>1 DEF OnlyCleanup, Find, Session, TypeOK, Places, AttachPlaces
<1>3. Others(t)
    BY <1>0, <1>1, NobodyAssumption DEF OnlyCleanup, Find, Session, Others
<1>4. OneTerminal(t)'
    BY <1>0, <1>1, NobodyAssumption DEF OnlyCleanup, Find, Session, OneTerminal, Fresh,
        StartAgrees, Winning, CleanupAgrees, SpawnAgrees, Owned
<1>5. QuitAgrees'
    BY <1>0, <1>1 DEF OnlyCleanup, Find, Session, QuitAgrees
<1> QED
    BY <1>2, <1>3, <1>4, <1>5, Frame DEF Inductive

LEMMA MarkKeeps ==
    ASSUME Inductive, NEW t \in Terminals, NEW k \in Cleaners, Mark(t, k)
    PROVE  Inductive'
<1>0. TypeOK /\ OneTerminal(t) /\ QuitAgrees /\ {"main", "quit", "reader"} \subseteq Cleaners
    BY DEF Inductive, Cleaners
<1>1. /\ OnlyCleanup(t, k)
      /\ cleanup[t][k] = "mark" /\ cleanup'[t][k] = "cancel"
    BY <1>0, StepFacts DEF OnlyCleanup, Mark, Places
<1>2. TypeOK'
    BY <1>0, <1>1 DEF OnlyCleanup, Mark, TypeOK, Places, AttachPlaces
<1>3. Others(t)
    BY <1>0, <1>1, NobodyAssumption DEF OnlyCleanup, Mark, Others
<1>4. OneTerminal(t)'
    BY <1>0, <1>1, NobodyAssumption DEF OnlyCleanup, Mark, OneTerminal, Fresh, StartAgrees,
        Winning, CleanupAgrees, SpawnAgrees, Owned
<1>5. QuitAgrees'
    BY <1>0, <1>1 DEF OnlyCleanup, Mark, QuitAgrees
<1> QED
    BY <1>2, <1>3, <1>4, <1>5, Frame DEF Inductive

LEMMA CancelStartKeeps ==
    ASSUME Inductive, NEW t \in Terminals, NEW k \in Cleaners, CancelStart(t, k)
    PROVE  Inductive'
<1>0. TypeOK /\ OneTerminal(t) /\ QuitAgrees /\ {"main", "quit", "reader"} \subseteq Cleaners
    BY DEF Inductive, Cleaners
<1>1. /\ OnlyCleanup(t, k)
      /\ cleanup[t][k] = "cancel" /\ cleanup'[t][k] = "reap"
    BY <1>0, StepFacts DEF OnlyCleanup, CancelStart, Places
<1>2. TypeOK'
    BY <1>0, <1>1 DEF OnlyCleanup, CancelStart, TypeOK, Places, AttachPlaces
<1>3. Others(t)
    BY <1>0, <1>1, NobodyAssumption DEF OnlyCleanup, CancelStart, Others
<1>4. OneTerminal(t)'
    BY <1>0, <1>1, NobodyAssumption DEF OnlyCleanup, CancelStart, OneTerminal, Fresh,
        StartAgrees, Winning, CleanupAgrees, SpawnAgrees, Owned
<1>5. QuitAgrees'
    BY <1>0, <1>1 DEF OnlyCleanup, CancelStart, QuitAgrees
<1> QED
    BY <1>2, <1>3, <1>4, <1>5, Frame DEF Inductive

LEMMA ReapKeeps ==
    ASSUME Inductive, NEW t \in Terminals, NEW k \in Cleaners, Reap(t, k)
    PROVE  Inductive'
<1>0. TypeOK /\ OneTerminal(t) /\ QuitAgrees /\ {"main", "quit", "reader"} \subseteq Cleaners
    BY DEF Inductive, Cleaners
<1>1. /\ child'[t] = "reaped"
      /\ child' \in [Terminals -> {"none", "running", "exited", "reaped"}]
      /\ \A u \in Terminals : u # t => child'[u] = child[u]
    BY <1>0 DEF Reap, TypeOK
<1>2. /\ AfterReap(t, k) \in Places
      /\ AfterReap(t, k) \in {"take", "done"}
      /\ k = "quit" => AfterReap(t, k) = "done"
    BY DEF AfterReap, Places
<1>3. /\ OnlyCleanup(t, k)
      /\ cleanup[t][k] = "reap" /\ cleanup'[t][k] = AfterReap(t, k)
    BY <1>0, <1>2, StepFacts DEF OnlyCleanup, Reap
<1>4. UNCHANGED <<registered, closing, start, stream, input, startups, attach, typing, main,
    phase, failed, quitting>>
    BY DEF Reap
<1>5. TypeOK'
    BY <1>0, <1>1, <1>2, <1>3, <1>4 DEF OnlyCleanup, TypeOK, Places, AttachPlaces
<1>6. Others(t)
    BY <1>0, <1>1, <1>2, <1>3, <1>4, NobodyAssumption DEF OnlyCleanup, Others
<1>7. OneTerminal(t)'
    BY <1>0, <1>1, <1>2, <1>3, <1>4, NobodyAssumption DEF OnlyCleanup, OneTerminal, Fresh,
        StartAgrees, Winning, CleanupAgrees, SpawnAgrees, Owned
<1>8. QuitAgrees'
    BY <1>0, <1>1, <1>2, <1>3, <1>4 DEF OnlyCleanup, QuitAgrees
<1> QED
    BY <1>5, <1>6, <1>7, <1>8, Frame DEF Inductive

LEMMA ReapFailsKeeps ==
    ASSUME Inductive, NEW t \in Terminals, NEW k \in Cleaners, ReapFails(t, k)
    PROVE  Inductive'
<1>0. TypeOK /\ OneTerminal(t) /\ QuitAgrees /\ {"main", "quit", "reader"} \subseteq Cleaners
    BY DEF Inductive, Cleaners
<1>1. /\ OnlyCleanup(t, k)
      /\ cleanup[t][k] = "reap" /\ cleanup'[t][k] = "done"
    BY <1>0, StepFacts DEF OnlyCleanup, ReapFails, Places
<1>2. TypeOK'
    BY <1>0, <1>1 DEF OnlyCleanup, ReapFails, TypeOK, Places, AttachPlaces
<1>3. Others(t)
    BY <1>0, <1>1, NobodyAssumption DEF OnlyCleanup, ReapFails, Others
<1>4. OneTerminal(t)'
    BY <1>0, <1>1, NobodyAssumption DEF OnlyCleanup, ReapFails, OneTerminal, Fresh,
        StartAgrees, Winning, CleanupAgrees, SpawnAgrees, Owned
<1>5. QuitAgrees'
    BY <1>0, <1>1 DEF OnlyCleanup, ReapFails, QuitAgrees
<1> QED
    BY <1>2, <1>3, <1>4, <1>5, Frame DEF Inductive

LEMMA TakeKeeps ==
    ASSUME Inductive, NEW t \in Terminals, NEW k \in Cleaners, Take(t, k)
    PROVE  Inductive'
<1>0. TypeOK /\ OneTerminal(t) /\ QuitAgrees /\ {"main", "quit", "reader"} \subseteq Cleaners
    BY DEF Inductive, Cleaners
<1>1. registered' = registered \ {t}
    BY DEF Take
<1>2. /\ OnlyCleanup(t, k)
      /\ cleanup[t][k] = "take" /\ cleanup'[t][k] = "done"
    BY <1>0, StepFacts DEF OnlyCleanup, Take, Places
<1>3. child[t] = "reaped" /\ k # "quit"
    BY <1>0, <1>2 DEF OnlyCleanup, OneTerminal, CleanupAgrees
<1>4. UNCHANGED <<child, closing, start, stream, input, startups, attach, typing, main,
    phase, failed, quitting>>
    BY DEF Take
<1>5. TypeOK'
    BY <1>0, <1>1, <1>2, <1>3, <1>4 DEF OnlyCleanup, TypeOK, Places, AttachPlaces
<1>6. Others(t)
    BY <1>0, <1>1, <1>2, <1>3, <1>4, NobodyAssumption DEF OnlyCleanup, Others
<1>7. OneTerminal(t)'
    BY <1>0, <1>1, <1>2, <1>3, <1>4, NobodyAssumption DEF OnlyCleanup, OneTerminal, Fresh,
        StartAgrees, Winning, CleanupAgrees, SpawnAgrees, Owned
<1>8. QuitAgrees'
    BY <1>0, <1>1, <1>2, <1>3, <1>4 DEF OnlyCleanup, QuitAgrees
<1> QED
    BY <1>5, <1>6, <1>7, <1>8, Frame DEF Inductive

LEMMA AttachFindsKeeps ==
    ASSUME Inductive, NEW t \in Terminals, NEW a \in Attachers, AttachFinds(t, a)
    PROVE  Inductive'
<1>0. TypeOK /\ OneTerminal(t) /\ QuitAgrees /\ {"main", "quit", "reader"} \subseteq Cleaners
    BY DEF Inductive, Cleaners
<1>1. /\ OnlyAttach(t, a)
      /\ attach[t][a] = "idle" /\ attach'[t][a] \in {"found", "failed"}
    BY <1>0, AttachFacts DEF OnlyAttach, AttachFinds, AttachPlaces
<1>2. TypeOK'
    BY <1>0, <1>1 DEF OnlyAttach, AttachFinds, Session, Published, TypeOK, Places,
        AttachPlaces
<1>3. Others(t)
    BY <1>0, <1>1, NobodyAssumption DEF OnlyAttach, AttachFinds, Session, Published, Others
<1>4. OneTerminal(t)'
    BY <1>0, <1>1, NobodyAssumption DEF OnlyAttach, AttachFinds, Session, Published,
        OneTerminal, Fresh, StartAgrees, Winning, CleanupAgrees, SpawnAgrees, Owned
<1>5. QuitAgrees'
    BY <1>0, <1>1 DEF AttachFinds, Session, Published, QuitAgrees
<1> QED
    BY <1>2, <1>3, <1>4, <1>5, Frame DEF Inductive

LEMMA AttachTakesKeeps ==
    ASSUME Inductive, NEW t \in Terminals, NEW a \in Attachers, AttachTakes(t, a)
    PROVE  Inductive'
<1>0. TypeOK /\ OneTerminal(t) /\ QuitAgrees /\ {"main", "quit", "reader"} \subseteq Cleaners
    BY DEF Inductive, Cleaners
<1>1. /\ OnlyAttach(t, a)
      /\ attach[t][a] = "found"
      /\ start' \in [Terminals -> {"none", "held", "taken", "sent", "dropped"}]
      /\ \A u \in Terminals : u # t => start'[u] = start[u]
      /\ \/ start[t] = "held" /\ start'[t] = "taken" /\ attach'[t][a] = "taken"
         \/ start' = start /\ attach'[t][a] = "failed"
  <2>1. CASE start[t] = "held"
    <3>1. Attach(t, a, "found", "taken") /\ start' = [start EXCEPT ![t] = "taken"]
      BY <2>1 DEF AttachTakes
    <3>2. /\ OnlyAttach(t, a)
          /\ attach[t][a] = "found" /\ attach'[t][a] = "taken"
      BY <1>0, <3>1, AttachFacts DEF OnlyAttach, AttachPlaces
    <3> QED
      BY <1>0, <2>1, <3>1, <3>2 DEF OnlyAttach, TypeOK
  <2>2. CASE start[t] # "held"
    <3>1. Attach(t, a, "found", "failed") /\ start' = start
      BY <2>2 DEF AttachTakes
    <3>2. /\ OnlyAttach(t, a)
          /\ attach[t][a] = "found" /\ attach'[t][a] = "failed"
      BY <1>0, <3>1, AttachFacts DEF OnlyAttach, AttachPlaces
    <3> QED
      BY <1>0, <3>1, <3>2 DEF OnlyAttach, TypeOK
  <2> QED
    BY <2>1, <2>2
<1>2. UNCHANGED <<child, registered, closing, stream, input, startups, typing, cleanup, main,
    phase, failed, quitting>>
    BY DEF AttachTakes
<1>3. TypeOK'
    BY <1>0, <1>1, <1>2 DEF OnlyAttach, TypeOK, Places, AttachPlaces
<1>4. Others(t)
    BY <1>0, <1>1, <1>2, NobodyAssumption DEF OnlyAttach, Others
<1>5. OneTerminal(t)'
    BY <1>0, <1>1, <1>2, NobodyAssumption DEF OnlyAttach, OneTerminal, Fresh, StartAgrees,
        Winning, CleanupAgrees, SpawnAgrees, Owned
<1>6. QuitAgrees'
    BY <1>0, <1>1, <1>2 DEF QuitAgrees
<1> QED
    BY <1>3, <1>4, <1>5, <1>6, Frame DEF Inductive

LEMMA AttachReleasesKeeps ==
    ASSUME Inductive, NEW t \in Terminals, NEW a \in Attachers, AttachReleases(t, a)
    PROVE  Inductive'
<1>0. TypeOK /\ OneTerminal(t) /\ QuitAgrees /\ {"main", "quit", "reader"} \subseteq Cleaners
    BY DEF Inductive, Cleaners
<1>1. /\ OnlyAttach(t, a)
      /\ attach[t][a] = "taken" /\ attach'[t][a] \in {"startup", "ok", "close"}
    BY <1>0, AttachFacts DEF OnlyAttach, AttachReleases, AttachPlaces
<1>2. /\ start' \in [Terminals -> {"none", "held", "taken", "sent", "dropped"}]
      /\ \A u \in Terminals : u # t => start'[u] = start[u]
      /\ start'[t] \in {"sent", "dropped"}
    BY <1>0 DEF AttachReleases, TypeOK
<1>3. UNCHANGED <<child, registered, closing, stream, input, startups, typing, cleanup, main,
    phase, failed, quitting>>
    BY DEF AttachReleases
<1>4. TypeOK'
    BY <1>0, <1>1, <1>2, <1>3 DEF OnlyAttach, TypeOK, Places, AttachPlaces
<1>5. Others(t)
    BY <1>0, <1>1, <1>2, <1>3, NobodyAssumption DEF OnlyAttach, Others
<1>6. OneTerminal(t)'
    BY <1>0, <1>1, <1>2, <1>3, NobodyAssumption DEF OnlyAttach, OneTerminal, Fresh,
        StartAgrees, Winning, CleanupAgrees, SpawnAgrees, Owned
<1>7. QuitAgrees'
    BY <1>0, <1>1, <1>2, <1>3 DEF QuitAgrees
<1> QED
    BY <1>4, <1>5, <1>6, <1>7, Frame DEF Inductive

LEMMA AttachWritesKeeps ==
    ASSUME Inductive, NEW t \in Terminals, NEW a \in Attachers, AttachWrites(t, a)
    PROVE  Inductive'
<1>0. TypeOK /\ OneTerminal(t) /\ QuitAgrees /\ {"main", "quit", "reader"} \subseteq Cleaners
    BY DEF Inductive, Cleaners
<1>1. /\ OnlyAttach(t, a)
      /\ attach[t][a] = "startup" /\ attach'[t][a] \in {"writing", "close"}
    BY <1>0, AttachFacts DEF OnlyAttach, AttachWrites, AttachPlaces
<1>2. startups[t] = 0
    BY <1>0, <1>1 DEF OnlyAttach, OneTerminal, StartAgrees
<1>3. /\ input' \in [Terminals -> {"free", "startup", "typing"}]
      /\ startups' \in [Terminals -> {0, 1}]
      /\ \A u \in Terminals : u # t => startups'[u] = startups[u]
  <2>1. CASE Session(t) /\ input[t] = "free"
    <3>1. input' = [input EXCEPT ![t] = "startup"] /\ startups' = [startups EXCEPT ![t] = @ + 1]
      BY <2>1 DEF AttachWrites
    <3>2. startups' = [startups EXCEPT ![t] = 1]
      BY <1>2, <3>1
    <3> QED
      BY <1>0, <3>1, <3>2 DEF TypeOK
  <2>2. CASE ~(Session(t) /\ input[t] = "free")
    BY <1>0, <2>2 DEF AttachWrites, TypeOK
  <2> QED
    BY <2>1, <2>2
<1>4. attach'[t][a] = "close" \/ attach'[t][a] = "writing"
    BY <1>1
<1>5. UNCHANGED <<child, registered, closing, start, stream, typing, cleanup, main, phase,
    failed, quitting>>
    BY DEF AttachWrites
<1>6. TypeOK'
    BY <1>0, <1>1, <1>2, <1>3, <1>4, <1>5 DEF OnlyAttach, TypeOK, Places, AttachPlaces
<1>7. Others(t)
    BY <1>0, <1>1, <1>2, <1>3, <1>4, <1>5, NobodyAssumption DEF OnlyAttach, Others
<1>8. OneTerminal(t)'
  <2>1. Fresh(t)'
    BY <1>0, <1>1, <1>2, <1>3, <1>4, <1>5, NobodyAssumption DEF OnlyAttach, OneTerminal,
        Fresh, StartAgrees, Winning
  <2>2. StartAgrees(t)'
    BY <1>0, <1>1, <1>2, <1>3, <1>4, <1>5, NobodyAssumption DEF OnlyAttach, OneTerminal,
        StartAgrees, Winning
  <2>3. CleanupAgrees(t)'
    BY <1>0, <1>1, <1>2, <1>3, <1>4, <1>5, NobodyAssumption DEF OnlyAttach, OneTerminal,
        CleanupAgrees
  <2>4. SpawnAgrees(t)'
    BY <1>0, <1>1, <1>2, <1>3, <1>4, <1>5, NobodyAssumption DEF OnlyAttach, OneTerminal,
        SpawnAgrees
  <2>5. Owned(t)'
    BY <1>0, <1>1, <1>2, <1>3, <1>4, <1>5, NobodyAssumption DEF OnlyAttach, OneTerminal, Owned
  <2> QED
    BY <2>1, <2>2, <2>3, <2>4, <2>5 DEF OneTerminal
<1>9. QuitAgrees'
    BY <1>0, <1>1, <1>2, <1>3, <1>4, <1>5 DEF QuitAgrees
<1> QED
    BY <1>6, <1>7, <1>8, <1>9, Frame DEF Inductive

LEMMA AttachWroteKeeps ==
    ASSUME Inductive, NEW t \in Terminals, NEW a \in Attachers, AttachWrote(t, a)
    PROVE  Inductive'
<1>0. TypeOK /\ OneTerminal(t) /\ QuitAgrees /\ {"main", "quit", "reader"} \subseteq Cleaners
    BY DEF Inductive, Cleaners
<1>1. /\ OnlyAttach(t, a)
      /\ attach[t][a] = "writing" /\ attach'[t][a] \in {"ok", "close"}
    BY <1>0, AttachFacts DEF OnlyAttach, AttachWrote, AttachPlaces
<1>2. TypeOK'
    BY <1>0, <1>1 DEF OnlyAttach, AttachWrote, TypeOK, Places, AttachPlaces
<1>3. Others(t)
    BY <1>0, <1>1, NobodyAssumption DEF OnlyAttach, AttachWrote, Others
<1>4. OneTerminal(t)'
    BY <1>0, <1>1, NobodyAssumption DEF OnlyAttach, AttachWrote, OneTerminal, Fresh,
        StartAgrees, Winning, CleanupAgrees, SpawnAgrees, Owned
<1>5. QuitAgrees'
    BY <1>0, <1>1 DEF AttachWrote, QuitAgrees
<1> QED
    BY <1>2, <1>3, <1>4, <1>5, Frame DEF Inductive

LEMMA AttachClosesKeeps ==
    ASSUME Inductive, NEW t \in Terminals, NEW a \in Attachers, AttachCloses(t, a)
    PROVE  Inductive'
<1>0. TypeOK /\ OneTerminal(t) /\ QuitAgrees /\ {"main", "quit", "reader"} \subseteq Cleaners
    BY DEF Inductive, Cleaners
<1>1. /\ a \in Cleaners /\ a # "main" /\ a # "quit"
      /\ attach[t][a] = "close"
    BY AttachersAssumption DEF AttachCloses, Cleaners
<1>2. /\ OnlyCleanup(t, a)
      /\ cleanup'[t][a] \in {cleanup[t][a], "find"}
      /\ OnlyAttach(t, a)
      /\ attach'[t][a] \in {"close", "failed"}
  <2>1. CASE Step(t, a, "idle", "find") /\ UNCHANGED attach
    <3>1. attach' = attach
      BY <2>1
    <3>2. Step(t, a, "idle", "find")
      BY <2>1
    <3> QED
      BY <1>0, <1>1, <3>1, <3>2, StepFacts DEF OnlyAttach, OnlyCleanup, TypeOK, Places,
          AttachPlaces
  <2>2. CASE Attach(t, a, "close", "failed") /\ UNCHANGED cleanup
    <3>1. cleanup' = cleanup
      BY <2>2
    <3> QED
      BY <1>0, <1>1, <2>2, <3>1, AttachFacts DEF OnlyAttach, OnlyCleanup, TypeOK, Places,
          AttachPlaces
  <2> QED
    BY <2>1, <2>2 DEF OnlyAttach, OnlyCleanup, AttachCloses
<1>3. UNCHANGED <<child, registered, closing, start, stream, input, startups, typing, main,
    phase, failed, quitting>>
    BY DEF AttachCloses
<1>4. TypeOK'
    BY <1>0, <1>1, <1>2, <1>3 DEF OnlyAttach, OnlyCleanup, TypeOK, Places, AttachPlaces
<1>5. Others(t)
    BY <1>0, <1>1, <1>2, <1>3, NobodyAssumption DEF OnlyAttach, OnlyCleanup, Others
<1>6. OneTerminal(t)'
    BY <1>0, <1>1, <1>2, <1>3, NobodyAssumption DEF OnlyAttach, OnlyCleanup, OneTerminal,
        Fresh, StartAgrees, Winning, CleanupAgrees, SpawnAgrees, Owned
<1>7. QuitAgrees'
    BY <1>0, <1>1, <1>2, <1>3 DEF OnlyCleanup, QuitAgrees
<1> QED
    BY <1>4, <1>5, <1>6, <1>7, Frame DEF Inductive

LEMMA TypeFindsKeeps ==
    ASSUME Inductive, NEW t \in Terminals, TypeFinds(t)
    PROVE  Inductive'
<1>0. TypeOK /\ OneTerminal(t) /\ QuitAgrees /\ {"main", "quit", "reader"} \subseteq Cleaners
    BY DEF Inductive, Cleaners
<1>1. TypeOK'
    BY <1>0 DEF TypeFinds, TypeOK, Places, AttachPlaces
<1>2. Others(t)
    BY <1>0, NobodyAssumption DEF TypeFinds, Others
<1>3. OneTerminal(t)'
    BY <1>0, NobodyAssumption DEF TypeFinds, OneTerminal, Fresh, StartAgrees, Winning,
        CleanupAgrees, SpawnAgrees, Owned
<1>4. QuitAgrees'
    BY <1>0 DEF TypeFinds, QuitAgrees
<1> QED
    BY <1>1, <1>2, <1>3, <1>4, Frame DEF Inductive

LEMMA TypeReservesKeeps ==
    ASSUME Inductive, NEW t \in Terminals, TypeReserves(t)
    PROVE  Inductive'
<1>0. TypeOK /\ OneTerminal(t) /\ QuitAgrees /\ {"main", "quit", "reader"} \subseteq Cleaners
    BY DEF Inductive, Cleaners
<1>1. TypeOK'
    BY <1>0 DEF TypeReserves, TypeOK, Places, AttachPlaces
<1>2. Others(t)
    BY <1>0, NobodyAssumption DEF TypeReserves, Others
<1>3. OneTerminal(t)'
    BY <1>0, NobodyAssumption DEF TypeReserves, OneTerminal, Fresh, StartAgrees, Winning,
        CleanupAgrees, SpawnAgrees, Owned
<1>4. QuitAgrees'
    BY <1>0 DEF TypeReserves, QuitAgrees
<1> QED
    BY <1>1, <1>2, <1>3, <1>4, Frame DEF Inductive

LEMMA TypeWroteKeeps ==
    ASSUME Inductive, NEW t \in Terminals, TypeWrote(t)
    PROVE  Inductive'
<1>0. TypeOK /\ OneTerminal(t) /\ QuitAgrees /\ {"main", "quit", "reader"} \subseteq Cleaners
    BY DEF Inductive, Cleaners
<1>1. TypeOK'
    BY <1>0 DEF TypeWrote, TypeOK, Places, AttachPlaces
<1>2. Others(t)
    BY <1>0, NobodyAssumption DEF TypeWrote, Others
<1>3. OneTerminal(t)'
    BY <1>0, NobodyAssumption DEF TypeWrote, OneTerminal, Fresh, StartAgrees, Winning,
        CleanupAgrees, SpawnAgrees, Owned
<1>4. QuitAgrees'
    BY <1>0 DEF TypeWrote, QuitAgrees
<1> QED
    BY <1>1, <1>2, <1>3, <1>4, Frame DEF Inductive

LEMMA StreamReleasedKeeps ==
    ASSUME Inductive, NEW t \in Terminals, StreamReleased(t)
    PROVE  Inductive'
<1>0. TypeOK /\ OneTerminal(t) /\ QuitAgrees /\ {"main", "quit", "reader"} \subseteq Cleaners
    BY DEF Inductive, Cleaners
<1>1. TypeOK'
    BY <1>0 DEF StreamReleased, TypeOK, Places, AttachPlaces
<1>2. Others(t)
    BY <1>0, NobodyAssumption DEF StreamReleased, Others
<1>3. OneTerminal(t)'
    BY <1>0, NobodyAssumption DEF StreamReleased, OneTerminal, Fresh, StartAgrees, Winning,
        CleanupAgrees, SpawnAgrees, Owned
<1>4. QuitAgrees'
    BY <1>0 DEF StreamReleased, QuitAgrees
<1> QED
    BY <1>1, <1>2, <1>3, <1>4, Frame DEF Inductive

LEMMA StreamGivesUpKeeps ==
    ASSUME Inductive, NEW t \in Terminals, StreamGivesUp(t)
    PROVE  Inductive'
<1>0. TypeOK /\ OneTerminal(t) /\ QuitAgrees /\ {"main", "quit", "reader"} \subseteq Cleaners
    BY DEF Inductive, Cleaners
<1>1. TypeOK'
    BY <1>0 DEF StreamGivesUp, AfterWait, TypeOK, Places, AttachPlaces
<1>2. Others(t)
    BY <1>0, NobodyAssumption DEF StreamGivesUp, AfterWait, Others
<1>3. OneTerminal(t)'
    BY <1>0, NobodyAssumption DEF StreamGivesUp, AfterWait, OneTerminal, Fresh, StartAgrees,
        Winning, CleanupAgrees, SpawnAgrees, Owned
<1>4. QuitAgrees'
    BY <1>0 DEF StreamGivesUp, AfterWait, QuitAgrees
<1> QED
    BY <1>1, <1>2, <1>3, <1>4, Frame DEF Inductive

LEMMA StreamEndsKeeps ==
    ASSUME Inductive, NEW t \in Terminals, StreamEnds(t)
    PROVE  Inductive'
<1>0. TypeOK /\ OneTerminal(t) /\ QuitAgrees /\ {"main", "quit", "reader"} \subseteq Cleaners
    BY DEF Inductive, Cleaners
<1>1. TypeOK'
    BY <1>0 DEF StreamEnds, TypeOK, Places, AttachPlaces
<1>2. Others(t)
    BY <1>0, NobodyAssumption DEF StreamEnds, Others
<1>3. OneTerminal(t)'
    BY <1>0, NobodyAssumption DEF StreamEnds, OneTerminal, Fresh, StartAgrees, Winning,
        CleanupAgrees, SpawnAgrees, Owned
<1>4. QuitAgrees'
    BY <1>0 DEF StreamEnds, QuitAgrees
<1> QED
    BY <1>1, <1>2, <1>3, <1>4, Frame DEF Inductive

LEMMA StreamReportsKeeps ==
    ASSUME Inductive, NEW t \in Terminals, StreamReports(t)
    PROVE  Inductive'
<1>0. TypeOK /\ OneTerminal(t) /\ QuitAgrees /\ {"main", "quit", "reader"} \subseteq Cleaners
    BY DEF Inductive, Cleaners
<1>1. /\ stream[t] = "ending"
      /\ stream' \in [Terminals -> {"none", "waiting", "streaming", "ending", "over"}]
      /\ \A u \in Terminals : u # t => stream'[u] = stream[u]
      /\ stream'[t] # "none"
      /\ OnlyCleanup(t, "reader")
  <2>1. CASE Step(t, "reader", "idle", "find") /\ UNCHANGED stream
    BY <1>0, <2>1, StepFacts DEF OnlyCleanup, StreamReports, TypeOK, Places
  <2>2. CASE stream' = [stream EXCEPT ![t] = "over"] /\ UNCHANGED cleanup
    BY <1>0, <2>2 DEF OnlyCleanup, StreamReports, TypeOK, Places
  <2> QED
    BY <2>1, <2>2 DEF OnlyCleanup, StreamReports
<1>2. /\ cleanup'[t]["reader"] \in {cleanup[t]["reader"], "find"}
      /\ cleanup'[t]["quit"] = cleanup[t]["quit"]
      /\ cleanup'[t]["main"] = cleanup[t]["main"]
  <2>1. CASE Step(t, "reader", "idle", "find")
    BY <1>0, <1>1, <2>1, StepFacts DEF OnlyCleanup, Places
  <2>2. CASE UNCHANGED cleanup
    BY <2>2
  <2> QED
    BY <2>1, <2>2, <1>0, <1>1 DEF OnlyCleanup, StreamReports
<1>3. UNCHANGED <<child, registered, closing, start, input, startups, attach, typing, main,
    phase, failed, quitting>>
    BY DEF StreamReports
<1>4. TypeOK'
    BY <1>0, <1>1, <1>2, <1>3 DEF OnlyCleanup, TypeOK, Places, AttachPlaces
<1>5. Others(t)
    BY <1>0, <1>1, <1>2, <1>3, NobodyAssumption DEF OnlyCleanup, Others
<1>6. OneTerminal(t)'
    BY <1>0, <1>1, <1>2, <1>3, NobodyAssumption DEF OnlyCleanup, OneTerminal, Fresh,
        StartAgrees, Winning, CleanupAgrees, SpawnAgrees, Owned
<1>7. QuitAgrees'
    BY <1>0, <1>1, <1>2, <1>3 DEF OnlyCleanup, QuitAgrees
<1> QED
    BY <1>4, <1>5, <1>6, <1>7, Frame DEF Inductive

-----------------------------------------------------------------------------
\* Steps of shutdown, which are about every terminal.

LEMMA ShutdownKeeps ==
    ASSUME Inductive, NEW q \in Quitters, Shutdown(q)
    PROVE  Inductive'
<1>1. TypeOK'
    BY DEF Inductive, Shutdown, TypeOK
<1>2. ASSUME NEW t \in Terminals
      PROVE  OneTerminal(t)'
    BY DEF Inductive, Shutdown, OneTerminal, Fresh, StartAgrees, CleanupAgrees, SpawnAgrees, Owned
<1>3. QuitAgrees'
    BY DEF Inductive, Shutdown, QuitAgrees, TypeOK
<1> QED
    BY <1>1, <1>2, <1>3 DEF Inductive

LEMMA CompleteKeeps ==
    ASSUME Inductive, Complete
    PROVE  Inductive'
<1>1. TypeOK'
    BY DEF Inductive, Complete, TypeOK
<1>2. ASSUME NEW t \in Terminals
      PROVE  OneTerminal(t)'
    BY DEF Inductive, Complete, OneTerminal, Fresh, StartAgrees, CleanupAgrees, SpawnAgrees, Owned
<1>3. QuitAgrees'
    BY DEF Inductive, Complete, QuitAgrees, TypeOK
<1> QED
    BY <1>1, <1>2, <1>3 DEF Inductive

LEMMA ShutdownReturnsKeeps ==
    ASSUME Inductive, NEW q \in Quitters, ShutdownReturns(q)
    PROVE  Inductive'
<1>1. TypeOK'
    BY DEF Inductive, ShutdownReturns, TypeOK
<1>2. ASSUME NEW t \in Terminals
      PROVE  OneTerminal(t)'
    BY DEF Inductive, ShutdownReturns, OneTerminal, Fresh, StartAgrees, CleanupAgrees, SpawnAgrees,
        Owned
<1>3. QuitAgrees'
    BY DEF Inductive, ShutdownReturns, MayReturn, QuitAgrees, TypeOK
<1> QED
    BY <1>1, <1>2, <1>3 DEF Inductive

\* The terminals of the registry become shutdown's, which answers for their children.
LEMMA TakeSessionsKeeps ==
    ASSUME Inductive, TakeSessions
    PROVE  Inductive'
<1>1. TypeOK /\ QuitAgrees /\ "quit" \in Cleaners /\ "main" \in Cleaners
    BY DEF Inductive, Cleaners
<1>2. /\ phase = "closing" /\ phase' = "cleaning" /\ registered' = {}
      /\ UNCHANGED <<child, start, stream, startups, attach, main, failed, quitting>>
    BY DEF TakeSessions
<1>3. ASSUME NEW t \in Terminals
      PROVE  /\ cleanup'[t] \in [Cleaners -> Places]
             /\ t \in registered => cleanup'[t]["quit"] = "mark"
             /\ t \notin registered => cleanup'[t] = cleanup[t]
             /\ \A k \in Cleaners : k # "quit" => cleanup'[t][k] = cleanup[t][k]
  <2>1. cleanup'[t] = IF t \in registered THEN [cleanup[t] EXCEPT !["quit"] = "mark"]
                                          ELSE cleanup[t]
    BY DEF TakeSessions
  <2> QED
    BY <1>1, <2>1 DEF TypeOK, Places
<1>4. TypeOK'
  <2>1. cleanup' \in [Terminals -> [Cleaners -> Places]]
    <3>1. cleanup' = [t \in Terminals |-> cleanup'[t]]
      BY DEF TakeSessions
    <3> QED
      BY <1>3, <3>1
  <2> QED
    BY <1>1, <1>2, <2>1 DEF TypeOK, TakeSessions, Places
<1>5. ASSUME NEW t \in Terminals
      PROVE  OneTerminal(t)'
  <2>1. OneTerminal(t)
    BY DEF Inductive
  <2>2. Fresh(t)'
    BY <1>2, <1>3, <2>1 DEF OneTerminal, Fresh
  <2>3. StartAgrees(t)'
    BY <1>2, <2>1 DEF OneTerminal, StartAgrees
  <2>4. CleanupAgrees(t)'
    BY <1>1, <1>2, <1>3, <2>1 DEF OneTerminal, CleanupAgrees
  <2>5. SpawnAgrees(t)'
    BY <1>1, <1>2, <1>3, <2>1 DEF OneTerminal, SpawnAgrees
  <2>6. Owned(t)'
    BY <1>1, <1>2, <1>3, <2>1 DEF OneTerminal, Owned
  <2> QED
    BY <2>2, <2>3, <2>4, <2>5, <2>6 DEF OneTerminal
<1>6. QuitAgrees'
    BY <1>1, <1>2 DEF QuitAgrees
<1> QED
    BY <1>4, <1>5, <1>6 DEF Inductive

-----------------------------------------------------------------------------
\* The invariant of a behaviour.

LEMMA InitEstablishes == Init => Inductive
<1> SUFFICES ASSUME Init PROVE Inductive
    OBVIOUS
<1>1. TypeOK
    BY DEF Init, TypeOK
<1>2. ASSUME NEW t \in Terminals
      PROVE  OneTerminal(t)
  <2>1. /\ child[t] = "none" /\ start[t] = "none" /\ stream[t] = "none" /\ startups[t] = 0
        /\ registered = {} /\ main = Nobody
        /\ \A a \in Attachers : attach[t][a] = "idle"
        /\ \A k \in Cleaners : cleanup[t][k] = "idle"
    BY DEF Init
  <2>2. "quit" \in Cleaners /\ "main" \in Cleaners
    BY DEF Cleaners
  <2>3. Fresh(t) /\ SpawnAgrees(t) /\ Owned(t)
    BY <2>1, <2>2, NobodyAssumption DEF Fresh, SpawnAgrees, Owned
  <2>4. StartAgrees(t)
    BY <2>1 DEF StartAgrees, Winning
  <2>5. CleanupAgrees(t)
    BY <2>1, <2>2 DEF CleanupAgrees
  <2> QED
    BY <2>3, <2>4, <2>5 DEF OneTerminal
<1>3. QuitAgrees
    BY DEF Init, QuitAgrees
<1> QED
    BY <1>1, <1>2, <1>3 DEF Inductive

LEMMA StutterKeeps == Inductive /\ UNCHANGED vars => Inductive'
BY DEF Inductive, TypeOK, OneTerminal, Fresh, StartAgrees, CleanupAgrees, SpawnAgrees, Owned,
    QuitAgrees, vars

LEMMA CleanupKeeps ==
    ASSUME Inductive, NEW t \in Terminals, NEW k \in Cleaners,
           CleanupStep(t, k) \/ ReapFails(t, k)
    PROVE  Inductive'
<1>1. CASE Find(t, k)
    BY <1>1, FindKeeps
<1>2. CASE Mark(t, k)
    BY <1>2, MarkKeeps
<1>3. CASE CancelStart(t, k)
    BY <1>3, CancelStartKeeps
<1>4. CASE Reap(t, k)
    BY <1>4, ReapKeeps
<1>5. CASE Take(t, k)
    BY <1>5, TakeKeeps
<1>6. CASE ReapFails(t, k)
    BY <1>6, ReapFailsKeeps
<1> QED
    BY <1>1, <1>2, <1>3, <1>4, <1>5, <1>6 DEF CleanupStep

LEMMA AttachmentKeeps ==
    ASSUME Inductive, NEW t \in Terminals, NEW a \in Attachers,
           AttachFinds(t, a) \/ AttachStep(t, a) \/ AttachWrote(t, a)
    PROVE  Inductive'
<1>1. CASE AttachFinds(t, a)
    BY <1>1, AttachFindsKeeps
<1>2. CASE AttachTakes(t, a)
    BY <1>2, AttachTakesKeeps
<1>3. CASE AttachReleases(t, a)
    BY <1>3, AttachReleasesKeeps
<1>4. CASE AttachWrites(t, a)
    BY <1>4, AttachWritesKeeps
<1>5. CASE AttachCloses(t, a)
    BY <1>5, AttachClosesKeeps
<1>6. CASE AttachWrote(t, a)
    BY <1>6, AttachWroteKeeps
<1> QED
    BY <1>1, <1>2, <1>3, <1>4, <1>5, <1>6 DEF AttachStep

LEMMA TerminalKeeps ==
    ASSUME Inductive, NEW t \in Terminals, TerminalNext(t)
    PROVE  Inductive'
<1>1. CASE Spawn(t) \/ SpawnFails(t) \/ CloseCommand(t) \/ Exit(t)
    BY <1>1, SpawnKeeps, SpawnFailsKeeps, CloseCommandKeeps, ExitKeeps
<1>2. CASE MainStep(t)
    BY <1>2, RegisterKeeps, StartStreamKeeps, MainReturnsKeeps DEF MainStep
<1>3. CASE \E k \in Cleaners : CleanupStep(t, k) \/ ReapFails(t, k)
    BY <1>3, CleanupKeeps
<1>4. CASE \E a \in Attachers : AttachFinds(t, a) \/ AttachStep(t, a) \/ AttachWrote(t, a)
    BY <1>4, AttachmentKeeps
<1>5. CASE TypeFinds(t) \/ TypeReserves(t) \/ TypeWrote(t)
    BY <1>5, TypeFindsKeeps, TypeReservesKeeps, TypeWroteKeeps
<1>6. CASE StreamStep(t) \/ StreamEnds(t)
    BY <1>6, StreamReleasedKeeps, StreamGivesUpKeeps, StreamEndsKeeps, StreamReportsKeeps
        DEF StreamStep
<1> QED
    BY <1>1, <1>2, <1>3, <1>4, <1>5, <1>6 DEF TerminalNext

\* No step of the specification leaves the invariant.
LEMMA NextKeeps == Inductive /\ [Next]_vars => Inductive'
<1> SUFFICES ASSUME Inductive, [Next]_vars PROVE Inductive'
    OBVIOUS
<1>1. CASE \E t \in Terminals : TerminalNext(t)
    BY <1>1, TerminalKeeps
<1>2. CASE ShutdownStep
    BY <1>2, TakeSessionsKeeps, CompleteKeeps, ShutdownReturnsKeeps DEF ShutdownStep
<1>3. CASE \E q \in Quitters : Shutdown(q)
    BY <1>3, ShutdownKeeps
<1>4. CASE UNCHANGED vars
    BY <1>4, StutterKeeps
<1> QED
    BY <1>1, <1>2, <1>3, <1>4 DEF Next

LEMMA Invariance == Spec => []Inductive
BY InitEstablishes, NextKeeps, PTL DEF Spec

-----------------------------------------------------------------------------
\* The theorems.

\* Every variable keeps its type: no terminal, attachment or phase of TerminalManager
\* leaves the states the code names.
THEOREM TerminalTypes == Spec => []TypeOK
<1>1. Inductive => TypeOK
    BY DEF Inductive
<1> QED
    BY <1>1, Invariance, PTL

\* Between fork and wait some place of the manager is responsible for every child:
\* the registry, the spawn that has not published it, or shutdown; a child whose kill
\* failed where nobody tries again is the only exception.
THEOREM ChildrenAreOwned == Spec => []ChildOwned
<1>1. Inductive => ChildOwned
    BY DEF Inductive, OneTerminal, Owned, ChildOwned
<1> QED
    BY <1>1, Invariance, PTL

\* However many attachments race for one terminal, one of them takes its start, and it
\* alone submits the saved command, once.
THEOREM StartupIsSubmittedOnce == Spec => []StartupOnce
<1>1. Inductive => StartupOnce
  <2> SUFFICES ASSUME Inductive, NEW t \in Terminals
               PROVE  /\ startups[t] <= 1
                      /\ \A a, b \in Attachers :
                            attach[t][a] \in {"startup", "writing", "ok"}
                            /\ attach[t][b] \in {"startup", "writing", "ok"} => a = b
    BY DEF StartupOnce
  <2>1. startups[t] \in {0, 1}
    BY DEF Inductive, TypeOK
  <2>2. startups[t] <= 1
    BY <2>1
  <2>3. StartAgrees(t)
    BY DEF Inductive, OneTerminal
  <2> QED
    BY <2>2, <2>3 DEF StartAgrees, Winning
<1> QED
    BY <1>1, Invariance, PTL

\* Whichever call of shutdown returns, and however many there are, every child whose id
\* the renderer got has been reaped, unless shutdown reports a failure: when it returns,
\* nobody but the exception of ChildrenAreOwned can be responsible for one.
THEOREM ShutdownReapsAll == Spec => []QuitReaps
<1>1. Inductive => QuitReaps
  <2> SUFFICES ASSUME Inductive, NEW q \in Quitters, quitting[q] = "returned", ~failed,
                      NEW t \in Terminals, Published(t)
               PROVE  child[t] = "reaped"
    BY DEF QuitReaps
  <2>1. phase = "complete" /\ registered = {} /\ cleanup[t]["quit"] \in {"idle", "done"}
    BY DEF Inductive, QuitAgrees
  <2>2. stream[t] # "none" /\ child[t] # "none"
    BY DEF Published, Inductive, OneTerminal, Fresh
  <2>3. cleanup[t]["quit"] = "done" => child[t] = "reaped"
    BY DEF Inductive, OneTerminal, CleanupAgrees
  <2>4. child[t] \notin {"running", "exited"}
    BY <2>1, <2>2, <2>3 DEF Inductive, OneTerminal, Owned
  <2> QED
    BY <2>2, <2>4 DEF Inductive, TypeOK
<1> QED
    BY <1>1, Invariance, PTL
=============================================================================
