-------------------------- MODULE LifecycleProofs --------------------------
(***************************************************************************)
(* Proofs about Lifecycle: its inductive invariant, what a clean exit and  *)
(* an answer mean, and that main.run makes the process ScanServer assumes. *)
(***************************************************************************)
EXTENDS Lifecycle, TLAPS

\* What Load makes of an empty file is a configuration.
LEMMA DefaultsAreTyped == Defaults \in Config
  BY DEF Defaults, Load, Config

\* A process starts in a state of the invariant.
LEMMA InitInv == Init => LifeInv
  <1> SUFFICES ASSUME Init PROVE LifeInv
      OBVIOUS
  <1>1. cfg \in Config
      BY DefaultsAreTyped DEF Init
  <1>2. TypeOK
      BY <1>1 DEF Init, TypeOK, Replies
  <1> QED
      BY <1>1, <1>2 DEF Init, LifeInv, CodeFits, SinkFits, ListenerFits, RequestsFit, Active, ExitClosesSink

\* Only a configuration that Validate accepts leads on to storage.
LEMMA LoadConfigInv ==
  ASSUME NEW file \in Files, LifeInv, LoadConfig(file) PROVE LifeInv'
  <1>1. TypeOK'
      BY FilesAssumption DEF LoadConfig, Fail, LifeInv, TypeOK, CodeFits, SinkFits, ListenerFits, RequestsFit, ExitClosesSink, Connected, Replies, Active, Answers, http, requests
  <1>2. CodeFits' /\ SinkFits' /\ ListenerFits' /\ ExitClosesSink'
      BY DEF Valid, LoadConfig, Fail, LifeInv, TypeOK, CodeFits, SinkFits, ListenerFits, RequestsFit, ExitClosesSink, Connected, Replies, Active, Answers, http, requests
  <1>3. RequestsFit'
      BY DEF LoadConfig, Fail, LifeInv, TypeOK, CodeFits, SinkFits, ListenerFits, RequestsFit, ExitClosesSink, Connected, Replies, Active, Answers, http, requests
  <1> QED
      BY <1>1, <1>2, <1>3 DEF LifeInv

\* A file that cannot be read leaves no sink behind.
LEMMA LoadFailsInv ==
  ASSUME LifeInv, LoadFails PROVE LifeInv'
  <1>1. TypeOK'
      BY DEF LoadFails, Fail, LifeInv, TypeOK, CodeFits, SinkFits, ListenerFits, RequestsFit, ExitClosesSink, Connected, Replies, Active, Answers, http, requests
  <1>2. CodeFits' /\ SinkFits' /\ ListenerFits' /\ ExitClosesSink'
      BY DEF Valid, LoadFails, Fail, LifeInv, TypeOK, CodeFits, SinkFits, ListenerFits, RequestsFit, ExitClosesSink, Connected, Replies, Active, Answers, http, requests
  <1>3. RequestsFit'
      BY DEF LoadFails, Fail, LifeInv, TypeOK, CodeFits, SinkFits, ListenerFits, RequestsFit, ExitClosesSink, Connected, Replies, Active, Answers, http, requests
  <1> QED
      BY <1>1, <1>2, <1>3 DEF LifeInv

\* The sink is the one the mode asks for, and precedes the listener.
LEMMA OpenStorageInv ==
  ASSUME LifeInv, OpenStorage PROVE LifeInv'
  <1>1. TypeOK'
      BY DEF OpenStorage, LifeInv, TypeOK, CodeFits, SinkFits, ListenerFits, RequestsFit, ExitClosesSink, Connected, Replies, Active, Answers, http, requests
  <1>2. CodeFits' /\ SinkFits' /\ ListenerFits' /\ ExitClosesSink'
      BY DEF Valid, OpenStorage, LifeInv, TypeOK, CodeFits, SinkFits, ListenerFits, RequestsFit, ExitClosesSink, Connected, Replies, Active, Answers, http, requests
  <1>3. RequestsFit'
      BY DEF OpenStorage, LifeInv, TypeOK, CodeFits, SinkFits, ListenerFits, RequestsFit, ExitClosesSink, Connected, Replies, Active, Answers, http, requests
  <1> QED
      BY <1>1, <1>2, <1>3 DEF LifeInv

\* run returns without a sink, and without a listener.
LEMMA StorageFailsInv ==
  ASSUME LifeInv, StorageFails PROVE LifeInv'
  <1>1. TypeOK'
      BY DEF StorageFails, Fail, LifeInv, TypeOK, CodeFits, SinkFits, ListenerFits, RequestsFit, ExitClosesSink, Connected, Replies, Active, Answers, http, requests
  <1>2. CodeFits' /\ SinkFits' /\ ListenerFits' /\ ExitClosesSink'
      BY DEF Valid, StorageFails, Fail, LifeInv, TypeOK, CodeFits, SinkFits, ListenerFits, RequestsFit, ExitClosesSink, Connected, Replies, Active, Answers, http, requests
  <1>3. RequestsFit'
      BY DEF StorageFails, Fail, LifeInv, TypeOK, CodeFits, SinkFits, ListenerFits, RequestsFit, ExitClosesSink, Connected, Replies, Active, Answers, http, requests
  <1> QED
      BY <1>1, <1>2, <1>3 DEF LifeInv

\* The listener is gone when its error is read.
LEMMA SelectErrInv ==
  ASSUME LifeInv, SelectErr PROVE LifeInv'
  <1>1. TypeOK'
      BY DEF SelectErr, LifeInv, TypeOK, CodeFits, SinkFits, ListenerFits, RequestsFit, ExitClosesSink, Connected, Replies, Active, Answers, http, requests
  <1>2. CodeFits' /\ SinkFits' /\ ListenerFits' /\ ExitClosesSink'
      BY DEF Valid, SelectErr, LifeInv, TypeOK, CodeFits, SinkFits, ListenerFits, RequestsFit, ExitClosesSink, Connected, Replies, Active, Answers, http, requests
  <1>3. RequestsFit'
      BY DEF SelectErr, LifeInv, TypeOK, CodeFits, SinkFits, ListenerFits, RequestsFit, ExitClosesSink, Connected, Replies, Active, Answers, http, requests
  <1> QED
      BY <1>1, <1>2, <1>3 DEF LifeInv

\* From Shutdown on nothing is listening.
LEMMA SelectSignalInv ==
  ASSUME LifeInv, SelectSignal PROVE LifeInv'
  <1>1. TypeOK'
      BY DEF SelectSignal, LifeInv, TypeOK, CodeFits, SinkFits, ListenerFits, RequestsFit, ExitClosesSink, Connected, Replies, Active, Answers, http, requests
  <1>2. CodeFits' /\ SinkFits' /\ ListenerFits' /\ ExitClosesSink'
      BY DEF Valid, SelectSignal, LifeInv, TypeOK, CodeFits, SinkFits, ListenerFits, RequestsFit, ExitClosesSink, Connected, Replies, Active, Answers, http, requests
  <1>3. RequestsFit'
      BY DEF SelectSignal, LifeInv, TypeOK, CodeFits, SinkFits, ListenerFits, RequestsFit, ExitClosesSink, Connected, Replies, Active, Answers, http, requests
  <1> QED
      BY <1>1, <1>2, <1>3 DEF LifeInv

\* A clean return finds no request under way.
LEMMA DrainedInv ==
  ASSUME LifeInv, Drained PROVE LifeInv'
  <1>1. TypeOK'
      BY DEF Drained, LifeInv, TypeOK, CodeFits, SinkFits, ListenerFits, RequestsFit, ExitClosesSink, Connected, Replies, Active, Answers, http, requests
  <1>2. CodeFits' /\ SinkFits' /\ ListenerFits' /\ ExitClosesSink'
      BY DEF Valid, Drained, LifeInv, TypeOK, CodeFits, SinkFits, ListenerFits, RequestsFit, ExitClosesSink, Connected, Replies, Active, Answers, http, requests
  <1>3. RequestsFit'
      BY DEF Drained, LifeInv, TypeOK, CodeFits, SinkFits, ListenerFits, RequestsFit, ExitClosesSink, Connected, Replies, Active, Answers, http, requests
  <1> QED
      BY <1>1, <1>2, <1>3 DEF LifeInv

\* Requests under way go on behind a return with an error.
LEMMA DrainTimesOutInv ==
  ASSUME LifeInv, DrainTimesOut PROVE LifeInv'
  <1>1. TypeOK'
      BY DEF DrainTimesOut, Fail, LifeInv, TypeOK, CodeFits, SinkFits, ListenerFits, RequestsFit, ExitClosesSink, Connected, Replies, Active, Answers, http, requests
  <1>2. CodeFits' /\ SinkFits' /\ ListenerFits' /\ ExitClosesSink'
      BY DEF Valid, DrainTimesOut, Fail, LifeInv, TypeOK, CodeFits, SinkFits, ListenerFits, RequestsFit, ExitClosesSink, Connected, Replies, Active, Answers, http, requests
  <1>3. RequestsFit'
      BY DEF DrainTimesOut, Fail, LifeInv, TypeOK, CodeFits, SinkFits, ListenerFits, RequestsFit, ExitClosesSink, Connected, Replies, Active, Answers, http, requests
  <1> QED
      BY <1>1, <1>2, <1>3 DEF LifeInv

\* The deferred Close leaves no open sink.
LEMMA CloseSinkInv ==
  ASSUME LifeInv, CloseSink PROVE LifeInv'
  <1>1. TypeOK'
      BY DEF CloseSink, LifeInv, TypeOK, CodeFits, SinkFits, ListenerFits, RequestsFit, ExitClosesSink, Connected, Replies, Active, Answers, http, requests
  <1>2. CodeFits' /\ SinkFits' /\ ListenerFits' /\ ExitClosesSink'
      BY DEF Valid, CloseSink, LifeInv, TypeOK, CodeFits, SinkFits, ListenerFits, RequestsFit, ExitClosesSink, Connected, Replies, Active, Answers, http, requests
  <1>3. RequestsFit'
      BY DEF CloseSink, LifeInv, TypeOK, CodeFits, SinkFits, ListenerFits, RequestsFit, ExitClosesSink, Connected, Replies, Active, Answers, http, requests
  <1> QED
      BY <1>1, <1>2, <1>3 DEF LifeInv

\* main ends with the sink closed and every request answered or cut.
LEMMA ExitInv ==
  ASSUME LifeInv, Exit PROVE LifeInv'
  <1>1. TypeOK'
      BY DEF Exit, Gone, LifeInv, TypeOK, CodeFits, SinkFits, ListenerFits, RequestsFit, ExitClosesSink, Connected, Replies, Active, Answers, http, requests
  <1>2. CodeFits' /\ SinkFits' /\ ListenerFits' /\ ExitClosesSink'
      BY DEF Valid, Exit, Gone, LifeInv, TypeOK, CodeFits, SinkFits, ListenerFits, RequestsFit, ExitClosesSink, Connected, Replies, Active, Answers, http, requests
  <1>3. RequestsFit'
      BY DEF Exit, Gone, LifeInv, TypeOK, CodeFits, SinkFits, ListenerFits, RequestsFit, ExitClosesSink, Connected, Replies, Active, Answers, http, requests
  <1> QED
      BY <1>1, <1>2, <1>3 DEF LifeInv

\* -print-tools ends a process that has nothing yet.
LEMMA PrintToolsInv ==
  ASSUME LifeInv, PrintTools PROVE LifeInv'
  <1>1. TypeOK'
      BY DEF PrintTools, LifeInv, TypeOK, CodeFits, SinkFits, ListenerFits, RequestsFit, ExitClosesSink, Connected, Replies, Active, Answers, http, requests
  <1>2. CodeFits' /\ SinkFits' /\ ListenerFits' /\ ExitClosesSink'
      BY DEF Valid, PrintTools, LifeInv, TypeOK, CodeFits, SinkFits, ListenerFits, RequestsFit, ExitClosesSink, Connected, Replies, Active, Answers, http, requests
  <1>3. RequestsFit'
      BY DEF PrintTools, LifeInv, TypeOK, CodeFits, SinkFits, ListenerFits, RequestsFit, ExitClosesSink, Connected, Replies, Active, Answers, http, requests
  <1> QED
      BY <1>1, <1>2, <1>3 DEF LifeInv

\* A killed process owes nobody a closed sink.
LEMMA CrashInv ==
  ASSUME LifeInv, Crash PROVE LifeInv'
  <1>1. TypeOK'
      BY DEF Crash, Gone, LifeInv, TypeOK, CodeFits, SinkFits, ListenerFits, RequestsFit, ExitClosesSink, Connected, Replies, Active, Answers, http, requests
  <1>2. CodeFits' /\ SinkFits' /\ ListenerFits' /\ ExitClosesSink'
      BY DEF Valid, Crash, Gone, LifeInv, TypeOK, CodeFits, SinkFits, ListenerFits, RequestsFit, ExitClosesSink, Connected, Replies, Active, Answers, http, requests
  <1>3. RequestsFit'
      BY DEF Crash, Gone, LifeInv, TypeOK, CodeFits, SinkFits, ListenerFits, RequestsFit, ExitClosesSink, Connected, Replies, Active, Answers, http, requests
  <1> QED
      BY <1>1, <1>2, <1>3 DEF LifeInv

\* A new process begins like the first one.
LEMMA RestartInv ==
  ASSUME LifeInv, Restart PROVE LifeInv'
  <1>1. TypeOK'
      BY DefaultsAreTyped DEF Restart, LifeInv, TypeOK, CodeFits, SinkFits, ListenerFits, RequestsFit, ExitClosesSink, Connected, Replies, Active, Answers, http, requests
  <1>2. CodeFits' /\ SinkFits' /\ ListenerFits' /\ ExitClosesSink'
      BY DEF Valid, Restart, LifeInv, TypeOK, CodeFits, SinkFits, ListenerFits, RequestsFit, ExitClosesSink, Connected, Replies, Active, Answers, http, requests
  <1>3. RequestsFit'
      BY DEF Restart, LifeInv, TypeOK, CodeFits, SinkFits, ListenerFits, RequestsFit, ExitClosesSink, Connected, Replies, Active, Answers, http, requests
  <1> QED
      BY <1>1, <1>2, <1>3 DEF LifeInv

\* A signal is noted, or kills a process that has nothing yet.
LEMMA SignalInv ==
  ASSUME LifeInv, Signal PROVE LifeInv'
  <1>1. TypeOK'
      BY DEF Signal, Gone, LifeInv, TypeOK, CodeFits, SinkFits, ListenerFits, RequestsFit, ExitClosesSink, Connected, Replies, Active, Answers, http, requests
  <1>2. CodeFits' /\ SinkFits' /\ ListenerFits' /\ ExitClosesSink'
      BY DEF Valid, Signal, Gone, LifeInv, TypeOK, CodeFits, SinkFits, ListenerFits, RequestsFit, ExitClosesSink, Connected, Replies, Active, Answers, http, requests
  <1>3. RequestsFit'
      BY DEF Signal, Gone, LifeInv, TypeOK, CodeFits, SinkFits, ListenerFits, RequestsFit, ExitClosesSink, Connected, Replies, Active, Answers, http, requests
  <1> QED
      BY <1>1, <1>2, <1>3 DEF LifeInv

\* The listener opens only while main waits at its select.
LEMMA BindInv ==
  ASSUME LifeInv, Bind PROVE LifeInv'
  <1>1. TypeOK'
      BY DEF Bind, LifeInv, TypeOK, CodeFits, SinkFits, ListenerFits, RequestsFit, ExitClosesSink, Connected, Replies, Active, Answers, http, requests
  <1>2. CodeFits' /\ SinkFits' /\ ListenerFits' /\ ExitClosesSink'
      BY DEF Valid, Bind, LifeInv, TypeOK, CodeFits, SinkFits, ListenerFits, RequestsFit, ExitClosesSink, Connected, Replies, Active, Answers, http, requests
  <1>3. RequestsFit'
      BY DEF Bind, LifeInv, TypeOK, CodeFits, SinkFits, ListenerFits, RequestsFit, ExitClosesSink, Connected, Replies, Active, Answers, http, requests
  <1> QED
      BY <1>1, <1>2, <1>3 DEF LifeInv

\* A listener that dies tells main so.
LEMMA ListenerDiesInv ==
  ASSUME LifeInv, ListenerDies PROVE LifeInv'
  <1>1. TypeOK'
      BY DEF ListenerDies, LifeInv, TypeOK, CodeFits, SinkFits, ListenerFits, RequestsFit, ExitClosesSink, Connected, Replies, Active, Answers, http, requests
  <1>2. CodeFits' /\ SinkFits' /\ ListenerFits' /\ ExitClosesSink'
      BY DEF Valid, ListenerDies, LifeInv, TypeOK, CodeFits, SinkFits, ListenerFits, RequestsFit, ExitClosesSink, Connected, Replies, Active, Answers, http, requests
  <1>3. RequestsFit'
      BY DEF ListenerDies, LifeInv, TypeOK, CodeFits, SinkFits, ListenerFits, RequestsFit, ExitClosesSink, Connected, Replies, Active, Answers, http, requests
  <1> QED
      BY <1>1, <1>2, <1>3 DEF LifeInv

\* A request comes in over a connection.
LEMMA ArriveInv ==
  ASSUME NEW r \in Requests, LifeInv, Arrive(r) PROVE LifeInv'
  <1>1. TypeOK'
      BY DEF Arrive, LifeInv, TypeOK, CodeFits, SinkFits, ListenerFits, RequestsFit, ExitClosesSink, Connected, Replies, Active, Answers, http, requests
  <1>2. CodeFits' /\ SinkFits' /\ ListenerFits' /\ ExitClosesSink'
      BY DEF Valid, Arrive, LifeInv, TypeOK, CodeFits, SinkFits, ListenerFits, RequestsFit, ExitClosesSink, Connected, Replies, Active, Answers, http, requests
  <1>3. RequestsFit'
      BY DEF Arrive, LifeInv, TypeOK, CodeFits, SinkFits, ListenerFits, RequestsFit, ExitClosesSink, Connected, Replies, Active, Answers, http, requests
  <1> QED
      BY <1>1, <1>2, <1>3 DEF LifeInv

\* An answer ends a request, and needs no listener.
LEMMA AnswerRequestInv ==
  ASSUME NEW r \in Requests, LifeInv, AnswerRequest(r) PROVE LifeInv'
  <1>1. TypeOK'
      BY DEF AnswerRequest, AnswerTo, Starts, Allowed, LifeInv, TypeOK, CodeFits, SinkFits, ListenerFits, RequestsFit, ExitClosesSink, Connected, Replies, Active, Answers, http, requests
  <1>2. CodeFits' /\ SinkFits' /\ ListenerFits' /\ ExitClosesSink'
      BY DEF Valid, AnswerRequest, AnswerTo, Starts, Allowed, LifeInv, TypeOK, CodeFits, SinkFits, ListenerFits, RequestsFit, ExitClosesSink, Connected, Replies, Active, Answers, http, requests
  <1>3. RequestsFit'
      BY DEF AnswerRequest, AnswerTo, Starts, Allowed, LifeInv, TypeOK, CodeFits, SinkFits, ListenerFits, RequestsFit, ExitClosesSink, Connected, Replies, Active, Answers, http, requests
  <1> QED
      BY <1>1, <1>2, <1>3 DEF LifeInv

\* A scan is started only for a client that had the key.
LEMMA StartScanInv ==
  ASSUME NEW r \in Requests, LifeInv, StartScan(r) PROVE LifeInv'
  <1>1. TypeOK'
      BY SentAssumption DEF Message, StartScan, Starts, LifeInv, TypeOK, CodeFits, SinkFits, ListenerFits, RequestsFit, ExitClosesSink, Connected, Replies, Active, Answers, http, requests
  <1>2. CodeFits' /\ SinkFits' /\ ListenerFits' /\ ExitClosesSink'
      BY DEF Valid, StartScan, Starts, LifeInv, TypeOK, CodeFits, SinkFits, ListenerFits, RequestsFit, ExitClosesSink, Connected, Replies, Active, Answers, http, requests
  <1>3. RequestsFit'
      BY DEF AnswerTo, Allowed, StartScan, Starts, LifeInv, TypeOK, CodeFits, SinkFits, ListenerFits, RequestsFit, ExitClosesSink, Connected, Replies, Active, Answers, http, requests
  <1> QED
      BY <1>1, <1>2, <1>3 DEF LifeInv

\* A handler that panics has answered its request.
LEMMA PanicInv ==
  ASSUME NEW r \in Requests, LifeInv, Panic(r) PROVE LifeInv'
  <1>1. TypeOK'
      BY DEF Panic, LifeInv, TypeOK, CodeFits, SinkFits, ListenerFits, RequestsFit, ExitClosesSink, Connected, Replies, Active, Answers, http, requests
  <1>2. CodeFits' /\ SinkFits' /\ ListenerFits' /\ ExitClosesSink'
      BY DEF Valid, Panic, LifeInv, TypeOK, CodeFits, SinkFits, ListenerFits, RequestsFit, ExitClosesSink, Connected, Replies, Active, Answers, http, requests
  <1>3. RequestsFit'
      BY DEF Panic, LifeInv, TypeOK, CodeFits, SinkFits, ListenerFits, RequestsFit, ExitClosesSink, Connected, Replies, Active, Answers, http, requests
  <1> QED
      BY <1>1, <1>2, <1>3 DEF LifeInv

-----------------------------------------------------------------------------
\* Every step of the process keeps the invariant.
LEMMA NextInv ==
  ASSUME LifeInv, [Next]_vars PROVE LifeInv'
  <1>1. CASE UNCHANGED vars
      <2>1. TypeOK' /\ Connected' = Connected
          BY <1>1 DEF vars, LifeInv, TypeOK, Connected
      <2>2. RequestsFit'
          BY <1>1, <2>1 DEF vars, LifeInv, RequestsFit
      <2> QED
          BY <1>1, <2>1, <2>2 DEF vars, LifeInv, CodeFits, SinkFits, ListenerFits, ExitClosesSink, Valid
  <1>2. CASE Run
      BY <1>2, LoadConfigInv, LoadFailsInv, OpenStorageInv, StorageFailsInv, SelectErrInv, SelectSignalInv, DrainedInv, DrainTimesOutInv, CloseSinkInv, ExitInv DEF Run
  <1>3. CASE PrintTools \/ Crash \/ Restart \/ Signal \/ Bind \/ ListenerDies
      BY <1>3, PrintToolsInv, CrashInv, RestartInv, SignalInv, BindInv, ListenerDiesInv
  <1>4. CASE \E r \in Requests : Serve(r)
      BY <1>4, ArriveInv, AnswerRequestInv, StartScanInv, PanicInv DEF Serve
  <1> QED
      BY <1>1, <1>2, <1>3, <1>4 DEF Next

\* Every reachable state satisfies the inductive invariant, for any
\* configuration files, keys and requests (main.run, ListenAndServe).
THEOREM InvariantHolds == Spec => []LifeInv
  BY InitInv, NextInv, PTL DEF Spec

\* The variables keep their types.
THEOREM TypeCorrect == Spec => []TypeOK
  <1>1. LifeInv => TypeOK
      BY DEF LifeInv
  <1> QED
      BY <1>1, InvariantHolds, PTL

\* However run comes to return, its sink is closed before the process ends
\* (the deferred Close).
THEOREM SinkIsClosed == Spec => []ExitClosesSink
  <1>1. LifeInv => ExitClosesSink
      BY DEF LifeInv
  <1> QED
      BY <1>1, InvariantHolds, PTL

-----------------------------------------------------------------------------
\* Which actions end a process or touch a reply.
LEMMA CutsAreNotClean ==
  ASSUME LifeInv, [Next]_vars, NEW r \in Requests,
         reply[r] \in Active, reply'[r] = "cut"
  PROVE  code' # "ok"
  <1> reply \in [Requests -> Replies]
      BY DEF LifeInv, TypeOK
  <1>0. reply' # reply
      BY DEF Active
  <1>1. Connected
      BY DEF LifeInv, RequestsFit
  <1>2. CASE Exit
      BY <1>1, <1>2 DEF Exit, Connected
  <1>3. CASE Crash
      BY <1>3 DEF Crash
  <1>4. CASE Signal
      BY <1>0, <1>4 DEF Signal, requests
  <1>5. CASE Run /\ ~ Exit
      BY <1>0, <1>5 DEF Run, LoadConfig, LoadFails, OpenStorage, StorageFails, SelectErr, SelectSignal, Drained, DrainTimesOut, CloseSink, requests
  <1>6. CASE PrintTools \/ Restart \/ Bind \/ ListenerDies \/ UNCHANGED vars
      BY <1>0, <1>6 DEF PrintTools, Restart, Bind, ListenerDies, vars, requests
  <1>7. CASE \E s \in Requests : Serve(s)
      <2> PICK s \in Requests : Serve(s)
          BY <1>7
      <2>1. AnswerTo(Sent[s]) # "cut"
          BY DEF AnswerTo
      <2> QED
          BY <2>1 DEF Serve, Arrive, AnswerRequest, StartScan, Panic, Active
  <1> QED
      BY <1>2, <1>3, <1>4, <1>5, <1>6, <1>7 DEF Next

\* "shut down cleanly" means that no request was cut off (Shutdown, Fail).
THEOREM CleanExit == Spec => CleanExitCutsNothing
  <1>1. ASSUME LifeInv, [Next]_vars
        PROVE  [\A r \in Requests :
                  reply[r] \in Active /\ reply'[r] = "cut" => code' # "ok"]_vars
      BY <1>1, CutsAreNotClean
  <1> QED
      BY <1>1, InvariantHolds, PTL DEF Spec, CleanExitCutsNothing

-----------------------------------------------------------------------------
\* A process with connections has a sink, and so a valid configuration.
LEMMA ConnectedIsConfigured ==
  ASSUME LifeInv, Connected
  PROVE  /\ cfg.api_key # ""
         /\ IF cfg.mode = "mongo" THEN sink \in {"open", "closed"}
                                  ELSE sink = "noop"
  BY DEF LifeInv, TypeOK, SinkFits, Connected, Valid

\* What the middleware lets through.
LEMMA AnswersNeedTheKey ==
  ASSUME LifeInv, NEW r \in Requests, AnswerRequest(r) \/ StartScan(r),
         Sent[r].route # "health", reply'[r] # "unauthorized"
  PROVE  cfg.api_key # "" /\ Sent[r].key = cfg.api_key
  <1> reply \in [Requests -> Replies]
      BY DEF LifeInv, TypeOK
  <1>1. reply[r] \in Active
      BY DEF AnswerRequest, StartScan, Active
  <1>2. cfg.api_key # ""
      BY <1>1, ConnectedIsConfigured DEF LifeInv, RequestsFit
  <1>3. Sent[r].key = cfg.api_key
      BY DEF LifeInv, RequestsFit, AnswerRequest, StartScan, Starts, AnswerTo, Allowed
  <1> QED
      BY <1>2, <1>3

\* What can be started.
LEMMA StartsAreConfigured ==
  ASSUME LifeInv, NEW r \in Requests, StartScan(r)
  PROVE  LET m == Sent[r] IN
         /\ m.key = cfg.api_key /\ m.key # ""
         /\ m.module \in Modules /\ cfg[m.module]
         /\ m.valid
         /\ IF cfg.mode = "mongo" THEN sink \in {"open", "closed"}
                                  ELSE sink = "noop"
  <1> reply \in [Requests -> Replies]
      BY DEF LifeInv, TypeOK
  <1>1. Connected
      BY DEF LifeInv, RequestsFit, StartScan, Active
  <1>2. /\ Sent[r].key = cfg.api_key
        /\ Sent[r].module \in Registered(cfg)
        /\ Sent[r].valid
      BY DEF StartScan, Starts, AnswerTo, Allowed
  <1> QED
      BY <1>1, <1>2, ConnectedIsConfigured DEF Registered

\* Only these steps change a reply to an answer, or start a scan.
LEMMA AnswersComeFromHandlers ==
  ASSUME [Next]_vars, reply \in [Requests -> Replies], NEW r \in Requests,
         \/ /\ reply'[r] # reply[r]
            /\ reply'[r] \in {"ok", "accepted", "created", "notFound", "badRequest"}
         \/ r \in accepted' \ accepted
  PROVE  \/ AnswerRequest(r) /\ accepted' = accepted
         \/ StartScan(r)
  <1>1. CASE \E s \in Requests : Serve(s)
      BY <1>1 DEF Serve, Arrive, AnswerRequest, StartScan, Panic
  <1>2. CASE Exit \/ Crash \/ Signal
      BY <1>2 DEF Exit, Crash, Signal, Gone, requests
  <1>3. CASE Run /\ ~ Exit
      BY <1>3 DEF Run, LoadConfig, LoadFails, OpenStorage, StorageFails, SelectErr, SelectSignal, Drained, DrainTimesOut, CloseSink, requests
  <1>4. CASE PrintTools \/ Restart \/ Bind \/ ListenerDies \/ UNCHANGED vars
      BY <1>4 DEF PrintTools, Restart, Bind, ListenerDies, vars, requests
  <1> QED
      BY <1>1, <1>2, <1>3, <1>4 DEF Next, Run

\* No request behind the key is answered to a client without it, and no scan
\* is started but for an enabled module and with its sink there
\* (requireAPIKey, handleScan, Validate, buildRegistry, buildStorage).
THEOREM Configured == Spec => ServedAsConfigured
  <1> DEFINE Served ==
        \A r \in Requests :
          LET m == Sent[r] IN
          /\ (/\ reply'[r] # reply[r]
              /\ m.route # "health"
              /\ reply'[r] \in {"ok", "accepted", "created", "notFound", "badRequest"})
             => cfg.api_key # "" /\ m.key = cfg.api_key
          /\ r \in accepted' \ accepted =>
                 /\ m.key = cfg.api_key /\ m.key # ""
                 /\ m.module \in Modules /\ cfg[m.module]
                 /\ m.valid
                 /\ IF cfg.mode = "mongo" THEN sink \in {"open", "closed"}
                                          ELSE sink = "noop"
  <1>1. ASSUME LifeInv, [Next]_vars PROVE [Served]_vars
      <2>1. reply \in [Requests -> Replies]
          BY <1>1 DEF LifeInv, TypeOK
      <2>2. ASSUME NEW r \in Requests, Sent[r].route # "health", reply'[r] # reply[r],
                   reply'[r] \in {"ok", "accepted", "created", "notFound", "badRequest"}
            PROVE  cfg.api_key # "" /\ Sent[r].key = cfg.api_key
          BY <1>1, <2>1, <2>2, AnswersComeFromHandlers, AnswersNeedTheKey
      <2>3. ASSUME NEW r \in Requests, r \in accepted' \ accepted
            PROVE  StartScan(r)
          BY <1>1, <2>1, <2>3, AnswersComeFromHandlers
      <2> QED
          BY <1>1, <2>2, <2>3, StartsAreConfigured
  <1> QED
      BY <1>1, InvariantHolds, PTL DEF Spec, ServedAsConfigured

-----------------------------------------------------------------------------
\* Each step of main is one of ProcessPromise's, or none.
LEMMA StepIsAllowed ==
  ASSUME LifeInv, Next
  PROVE  [Process!ProcessNext]_<<ServerState, accepted>>
  <1> USE DEF ServerState, Process!ProcessNext
  <1>1. CASE \E file \in Files : LoadConfig(file)
      BY <1>1 DEF LoadConfig, Fail, LifeInv, SinkFits, requests
  <1>2. CASE LoadFails \/ StorageFails
      BY <1>2 DEF LoadFails, StorageFails, Fail, LifeInv, SinkFits, requests
  <1>3. CASE OpenStorage
      BY <1>3 DEF OpenStorage, requests, Process!Begin
  <1>4. CASE SelectErr
      BY <1>4 DEF SelectErr, LifeInv, SinkFits, requests, Process!Stop
  <1>5. CASE SelectSignal
      BY <1>5 DEF SelectSignal, LifeInv, SinkFits, requests, Process!Stop
  <1>6. CASE Drained \/ DrainTimesOut
      BY <1>6 DEF Drained, DrainTimesOut, Fail, LifeInv, SinkFits, requests
  <1>7. CASE CloseSink
      BY <1>7 DEF CloseSink, requests, Process!Close
  <1>8. CASE Exit \/ Crash
      BY <1>8 DEF Exit, Crash, Gone, Process!End
  <1>9. CASE PrintTools \/ Restart
      BY <1>9 DEF PrintTools, Restart, requests
  <1>10. CASE Signal
      <2>1. CASE main \in {"loading", "closed"}
          BY <1>10, <2>1 DEF Signal, Gone, Process!End
      <2>2. CASE main \notin {"loading", "closed"}
          BY <1>10, <2>2 DEF Signal, requests
      <2> QED
          BY <2>1, <2>2
  <1>11. CASE Bind \/ ListenerDies
      BY <1>11 DEF Bind, ListenerDies, requests
  <1>12. ASSUME NEW r \in Requests, Serve(r)
         PROVE  [Process!ProcessNext]_<<ServerState, accepted>>
      <2>1. CASE StartScan(r)
          <3>1. ServerState # "down"
              BY <2>1 DEF StartScan, LifeInv, TypeOK, RequestsFit, Active, Connected, SinkFits
          <3>2. ServerState' = ServerState
              BY <2>1 DEF StartScan
          <3>3. accepted' = accepted \cup {r}
              BY <2>1 DEF StartScan
          <3>4. CASE r \in accepted
              BY <3>2, <3>3, <3>4
          <3>5. CASE r \notin accepted
              <4>1. Process!Accept(r)
                  BY <3>1, <3>2, <3>3, <3>5 DEF Process!Accept
              <4> QED
                  BY <4>1
          <3> QED
              BY <3>4, <3>5
      <2>2. CASE Arrive(r) \/ AnswerRequest(r) \/ Panic(r)
          BY <2>2 DEF Arrive, AnswerRequest, Panic
      <2> QED
          BY <1>12, <2>1, <2>2 DEF Serve
  <1> QED
      BY <1>1, <1>2, <1>3, <1>4, <1>5, <1>6, <1>7, <1>8, <1>9, <1>10, <1>11, <1>12 DEF Next, Run

\* main.run and net/http make of a process what ProcessPromise says of one,
\* which is what ScanServer takes for granted.
THEOREM ProcessRefinement == Spec => ImplementsProcess
  <1>1. Init => Process!ProcessInit
      BY DEF Init, Process!ProcessInit, ServerState
  <1>2. ASSUME LifeInv, [Next]_vars
        PROVE  [Process!ProcessNext]_<<ServerState, accepted>>
      <2>1. CASE UNCHANGED vars
          BY <2>1 DEF vars, requests, ServerState
      <2> QED
          BY <1>2, <2>1, StepIsAllowed
  <1> QED
      BY <1>1, <1>2, InvariantHolds, PTL
      DEF Spec, ImplementsProcess, Process!ProcessSpec, Process!processVars

=============================================================================
