--------------------------- MODULE ScanRefinement ---------------------------
(***************************************************************************)
(* ScanServer implements ScanPromise, for every value of the constants.    *)
(***************************************************************************)
EXTENDS ScanProofs

-----------------------------------------------------------------------------
(* How the refinement mapping moves.                                       *)

\* A run that has begun and moves on changes its own phase only.
LEMMA PhaseMoves ==
    ASSUME ScanInv, NEW r \in Requests, NEW to \in Live \cup {"done"},
           pc[r] \in Live, pc' = [pc EXCEPT ![r] = to], post' = post
    PROVE  /\ PhaseMap' = [PhaseMap EXCEPT ![r] = Phase(to)]
           /\ OfMap' = OfMap
           /\ OfMap[r] = Id(r)
           /\ PhaseMap[r] = Phase(pc[r])
<1>1. pc \in [Requests -> Pcs]
  BY DEF ScanInv, TypeOK
<1>2. \A s \in Requests : pc'[s] = IF s = r THEN to ELSE pc[s]
  BY <1>1
<1>3. Phase(to) # "none" /\ Phase(pc[r]) # "none"
  BY DEF Phase, Live
<1>4. PhaseMap' = [PhaseMap EXCEPT ![r] = Phase(to)]
  BY <1>2 DEF PhaseMap, Phase
<1>5. OfMap' = OfMap /\ OfMap[r] = Id(r)
  BY <1>2, <1>3 DEF OfMap, Id
<1> QED
  BY <1>4, <1>5 DEF PhaseMap

\* A run that stays in its phase, with rows and results as they were, is
\* not seen.
LEMMA SilentStep ==
    ASSUME ScanInv, NEW r \in Requests, NEW to \in Live \cup {"done"},
           pc[r] \in Live, pc' = [pc EXCEPT ![r] = to], post' = post,
           Phase(to) = Phase(pc[r]), RowMap' = RowMap, stored' = stored
    PROVE  UNCHANGED Promise!promiseVars
<1>1. PhaseMap' = PhaseMap /\ OfMap' = OfMap
  <2>1. PhaseMap[r] = Phase(to) /\ PhaseMap = [PhaseMap EXCEPT ![r] = @]
    BY PhaseMoves DEF PhaseMap
  <2> QED
    BY <2>1, PhaseMoves
<1> QED
  BY <1>1 DEF Promise!promiseVars

\* A run that ends without a word to the database gives up.
LEMMA GiveUpStep ==
    ASSUME ScanInv, NEW r \in Requests, NEW to \in {"done", "saveFailed"},
           pc[r] \in Live, Phase(pc[r]) = "live",
           pc' = [pc EXCEPT ![r] = to], post' = post,
           RowMap' = RowMap, stored' = stored
    PROVE  Promise!GiveUp(r)
<1>1. Phase(to) = "over" /\ to \in Live \cup {"done"}
  BY DEF Phase, Live
<1> QED
  BY <1>1, PhaseMoves DEF Promise!GiveUp

\* A run whose last write reached the row concludes.
LEMMA ConcludeStep ==
    ASSUME ScanInv, NEW r \in Requests, NEW to \in {"done", "saveFailed"},
           NEW verdict \in Terminal,
           pc[r] \in Live, Phase(pc[r]) = "live",
           pc' = [pc EXCEPT ![r] = to], post' = post, stored' = stored,
           RowMap' = [RowMap EXCEPT ![Id(r)] = verdict],
           verdict = "complete" => r \in stored
    PROVE  Promise!Conclude(r, verdict)
<1>1. Phase(to) = "over" /\ to \in Live \cup {"done"}
  BY DEF Phase, Live
<1> QED
  BY <1>1, PhaseMoves DEF Promise!Conclude

\* A command that left other rows alone moves the row map at one id.
LEMMA RowMapMoves ==
    ASSUME NEW id \in JobIds, OnlyRow(id), scanJobs'[id] # NoRow
    PROVE  RowMap' = [RowMap EXCEPT ![id] = scanJobs'[id].status]
BY DEF RowMap, RowStatus, OnlyRow

\* With the rows untouched, what their poller reads is too.
LEMMA RowMapStays ==
    ASSUME scanJobs' = scanJobs
    PROVE  RowMap' = RowMap
BY DEF RowMap, RowStatus

-----------------------------------------------------------------------------
(* The steps.                                                              *)

\* announce(Start) opens the row of a live run, or is a stutter.
LEMMA AnnounceStartRefines ==
    ASSUME ScanInv, NEW r \in Requests, AnnounceStart(r)
    PROVE  Promise!Announce(r) \/ UNCHANGED Promise!promiseVars
<1> DEFINE to == IF post[r].module = "ports" THEN "listing" ELSE "scanning"
<1>1. /\ pc[r] = "start" /\ pc' = [pc EXCEPT ![r] = to]
      /\ to \in {"listing", "scanning"}
      /\ post' = post /\ stored' = stored
  BY DEF AnnounceStart, GoTo, work
<1> HIDE DEF to
<1>2. /\ pc[r] \in Live /\ to \in Live \cup {"done"}
      /\ Phase(pc[r]) = "live" /\ Phase(to) = "live"
  BY <1>1 DEF Live, Phase
<1>3. CASE WriteStart(Id(r), JobOf(r))
  <2>1. /\ OnlyRow(Id(r)) /\ scanJobs'[Id(r)] \in Row
        /\ scanJobs'[Id(r)].status = "running"
    BY <1>2, <1>3, LiveFacts, WriteStartLemma DEF RowDescribes
  <2>2. RowMap' = [RowMap EXCEPT ![Id(r)] = "running"]
    BY <1>2, <2>1, LiveFacts, RowMapMoves, NoRowIsNotARow
  <2>3. r \notin stored
    BY <1>1 DEF ScanInv, StoredIsWritten, Written
  <2>4. /\ PhaseMap' = PhaseMap /\ OfMap' = OfMap /\ OfMap[r] = Id(r)
        /\ PhaseMap[r] = "live"
    <3>1. PhaseMap = [PhaseMap EXCEPT ![r] = @]
      BY DEF PhaseMap
    <3> QED
      BY <1>1, <1>2, <3>1, PhaseMoves
  <2> QED
    BY <1>1, <2>2, <2>3, <2>4 DEF Promise!Announce
<1>4. CASE UNCHANGED scanJobs
  BY <1>1, <1>2, <1>4, RowMapStays, SilentStep
<1> QED
  BY <1>3, <1>4 DEF AnnounceStart

\* announce(Progress) changes nothing a poller of the status sees.
LEMMA AnnounceProgressRefines ==
    ASSUME ScanInv, NEW r \in Requests, AnnounceProgress(r)
    PROVE  UNCHANGED Promise!promiseVars
<1> DEFINE to == IF post[r].module = "ports" THEN "scanning" ELSE "returning"
<1>1. /\ pc[r] = "progress" /\ pc' = [pc EXCEPT ![r] = to]
      /\ to \in {"scanning", "returning"}
      /\ post' = post /\ stored' = stored
  BY DEF AnnounceProgress, GoTo, work
<1> HIDE DEF to
<1>2. /\ pc[r] \in Live /\ to \in Live \cup {"done"}
      /\ Phase(pc[r]) = Phase(to)
  BY <1>1 DEF Live, Phase
<1>3. RowMap' = RowMap
  <2>1. CASE WriteProgress(Id(r), JobOf(r))
    <3>1. /\ OnlyRow(Id(r))
          /\ scanJobs'[Id(r)] = NoRow <=> scanJobs[Id(r)] = NoRow
          /\ scanJobs[Id(r)] # NoRow =>
                scanJobs'[Id(r)].status = scanJobs[Id(r)].status
      BY <1>2, <2>1, LiveFacts, WriteProgressLemma
    <3> QED
      BY <3>1 DEF RowMap, RowStatus, OnlyRow
  <2>2. CASE UNCHANGED scanJobs
    BY <2>2, RowMapStays
  <2> QED
    BY <2>1, <2>2 DEF AnnounceProgress
<1> QED
  BY <1>1, <1>2, <1>3, SilentStep

\* Every step of runJob up to the module's return is one the promise allows.
LEMMA ScanRefines ==
    ASSUME ScanInv, NEW r \in Requests, Scan(r)
    PROVE  Promise!Announce(r) \/ UNCHANGED Promise!promiseVars
<1>1. CASE AnnounceStart(r)
  BY <1>1, AnnounceStartRefines
<1>2. CASE AnnounceProgress(r)
  BY <1>2, AnnounceProgressRefines
<1>3. ASSUME NEW to \in {"progress", "scanning", "succeeded", "failing"},
             NEW from \in {"listing", "scanning", "returning"},
             GoTo(r, from, to), UNCHANGED <<scanJobs, post, stored>>
      PROVE  UNCHANGED Promise!promiseVars
  <2>1. /\ pc[r] \in Live /\ pc' = [pc EXCEPT ![r] = to]
        /\ to \in Live \cup {"done"} /\ Phase(to) = Phase(pc[r])
    BY <1>3 DEF GoTo, Live, Phase
  <2> QED
    BY <1>3, <2>1, RowMapStays, SilentStep
<1>4. CASE ListTargets(r)
  BY <1>3, <1>4 DEF ListTargets, sinkVars
<1>5. ASSUME NEW h \in Hosts, ReportHost(r, h)
      PROVE  UNCHANGED Promise!promiseVars
  BY <1>3, <1>5 DEF ReportHost, Report, sinkVars
<1>6. ASSUME NEW names \in SUBSET Hosts, ReportNames(r, names)
      PROVE  UNCHANGED Promise!promiseVars
  BY <1>3, <1>6 DEF ReportNames, Report, sinkVars
<1>7. CASE RunSucceeds(r)
  BY <1>3, <1>7 DEF RunSucceeds, sinkVars, work
<1>8. CASE RunFails(r)
  BY <1>3, <1>8 DEF RunFails, sinkVars, work
<1>9. CASE RunPanics(r)
  BY <1>3, <1>9 DEF RunPanics, sinkVars, work
<1> QED
  BY <1>1, <1>2, <1>4, <1>5, <1>6, <1>7, <1>8, <1>9 DEF Scan

\* SetStatus decides whether there is anything left to write.
LEMMA MarkRefines ==
    ASSUME ScanInv, NEW r \in Requests, NEW status \in Terminal,
           pc[r] \in {"succeeded", "failing"},
           pc' = [pc EXCEPT ![r] = SaveFrom(r, status)],
           UNCHANGED <<sinkVars, post, work>>
    PROVE  Promise!GiveUp(r) \/ UNCHANGED Promise!promiseVars
<1> DEFINE to == SaveFrom(r, status)
<1>1. to \in {"loading", "recording", "done", "saveFailed"}
  BY DEF SaveFrom
<1>2. /\ pc[r] \in Live /\ Phase(pc[r]) = "live"
      /\ to \in Live \cup {"done"}
  BY <1>1 DEF Live, Phase
<1>3. RowMap' = RowMap /\ stored' = stored /\ post' = post
  BY RowMapStays DEF sinkVars, work
<1>4. pc' = [pc EXCEPT ![r] = to]
  OBVIOUS
<1> HIDE DEF to
<1>5. CASE to \in {"done", "saveFailed"}
  BY <1>2, <1>3, <1>4, <1>5, GiveUpStep
<1>6. CASE to \in {"loading", "recording"}
  <2>1. Phase(to) = "live"
    BY <1>6 DEF Phase
  <2> QED
    BY <1>2, <1>3, <1>4, <2>1, SilentStep
<1> QED
  BY <1>1, <1>5, <1>6

\* A result write that was applied keeps the result; one that was not is
\* unseen, or the end of the run.
LEMMA ResultRefines ==
    ASSUME ScanInv, NEW r \in Requests,
           NEW to \in {"recording", "recordFailure", "saveFailed"},
           pc[r] \in {"loading", "merging"}, pc' = [pc EXCEPT ![r] = to],
           UNCHANGED <<scanJobs, post>>,
           stored' = stored \/ stored' = stored \cup {r}
    PROVE  \/ Promise!Keep(r)
           \/ Promise!GiveUp(r)
           \/ UNCHANGED Promise!promiseVars
<1>1. /\ pc[r] \in Live /\ Phase(pc[r]) = "live"
      /\ to \in Live \cup {"done"} /\ Phase(to) \in {"live", "over"}
      /\ Phase(to) = "over" => to = "saveFailed"
  BY DEF Live, Phase
<1>2. RowMap' = RowMap /\ post' = post
  BY RowMapStays
<1>3. CASE stored' = stored \cup {r}
  BY <1>1, <1>2, <1>3, PhaseMoves DEF Promise!Keep
<1>4. CASE stored' = stored /\ Phase(to) = "live"
  BY <1>1, <1>2, <1>4, SilentStep
<1>5. CASE stored' = stored /\ Phase(to) = "over"
  BY <1>1, <1>2, <1>5, GiveUpStep
<1> QED
  BY <1>1, <1>3, <1>4, <1>5

\* saveScanJob of the run's terminal job.
LEMMA VerdictRefines ==
    ASSUME ScanInv, NEW r \in Requests, NEW to \in {"done", "saveFailed"},
           pc[r] = "recording", pc' = [pc EXCEPT ![r] = to],
           UNCHANGED <<post, stored>>,
           WriteVerdict(Id(r), JobOf(r), JobOf(r).status, JobOf(r).error)
    PROVE  \E verdict \in Terminal : Promise!Conclude(r, verdict)
<1>1. pc[r] \in Live /\ Phase(pc[r]) = "live"
  BY DEF Live, Phase
<1>2. /\ JobOf(r).status \in Terminal
      /\ JobOf(r).status = "complete" => r \in stored
  BY DEF ScanInv, VerdictIsEarned
<1>3. JobOf(r).error \in Errors
  BY <1>1, LiveFacts DEF Job
<1>4. /\ OnlyRow(Id(r)) /\ scanJobs'[Id(r)] \in Row
      /\ scanJobs'[Id(r)].status = JobOf(r).status
  BY <1>1, <1>2, <1>3, LiveFacts, WriteVerdictLemma DEF RowDescribes
<1>5. RowMap' = [RowMap EXCEPT ![Id(r)] = JobOf(r).status]
  BY <1>1, <1>4, LiveFacts, RowMapMoves, NoRowIsNotARow
<1> QED
  BY <1>1, <1>2, <1>5, ConcludeStep

\* Save's record of a failed result write ends the run as failed.
LEMMA RecordFailureRefines ==
    ASSUME ScanInv, NEW r \in Requests, RecordFailure(r)
    PROVE  Promise!Conclude(r, "failed")
<1>1. /\ pc[r] = "recordFailure" /\ pc' = [pc EXCEPT ![r] = "saveFailed"]
      /\ post' = post /\ stored' = stored
  BY DEF RecordFailure, GoTo, work
<1>2. pc[r] \in Live /\ Phase(pc[r]) = "live"
  BY <1>1 DEF Live, Phase
<1>3. /\ OnlyRow(Id(r)) /\ scanJobs'[Id(r)] \in Row
      /\ scanJobs'[Id(r)].status = "failed"
  BY <1>2, LiveFacts, WriteVerdictLemma
     DEF RecordFailure, RowDescribes, Terminal, Errors
<1>4. RowMap' = [RowMap EXCEPT ![Id(r)] = "failed"]
  BY <1>2, <1>3, LiveFacts, RowMapMoves, NoRowIsNotARow
<1> QED
  BY <1>1, <1>2, <1>4, ConcludeStep DEF Terminal

\* Every step of persist and Save is one the promise allows.
LEMMA PersistRefines ==
    ASSUME ScanInv, NEW r \in Requests, Persist(r)
    PROVE  \/ Promise!Keep(r)
           \/ Promise!GiveUp(r)
           \/ \E verdict \in Terminal : Promise!Conclude(r, verdict)
           \/ UNCHANGED Promise!promiseVars
<1>1. CASE MarkComplete(r)
  BY <1>1, MarkRefines DEF MarkComplete, GoTo, Terminal
<1>2. CASE MarkFailed(r)
  BY <1>2, MarkRefines DEF MarkFailed, GoTo, Terminal
<1>3. CASE LoadCTEM(r)
  <2>1. /\ pc[r] = "loading" /\ pc' = [pc EXCEPT ![r] = "merging"]
        /\ scanJobs' = scanJobs /\ post' = post /\ stored' = stored
    BY <1>3 DEF LoadCTEM, GoTo, sinkVars
  <2>2. pc[r] \in Live /\ Phase("merging") = Phase(pc[r])
    BY <2>1 DEF Live, Phase
  <2> QED
    BY <2>1, <2>2, RowMapStays, SilentStep DEF Live
<1>4. CASE StoreMerged(r)
  BY <1>4, ResultRefines DEF StoreMerged, WriteResult, GoTo
<1>5. CASE ResultWriteFails(r)
  <2>1. PICK from \in {"loading", "merging"},
             to \in {"recordFailure", "saveFailed"} : GoTo(r, from, to)
    BY <1>5 DEF ResultWriteFails
  <2>2. /\ stored' = stored \/ stored' = stored \cup {r}
        /\ UNCHANGED <<scanJobs, post>>
    BY <1>5 DEF ResultWriteFails, WriteResult
  <2> QED
    BY <2>1, <2>2, ResultRefines DEF GoTo
<1>6. CASE RecordVerdict(r)
  BY <1>6, VerdictRefines DEF RecordVerdict, GoTo, work
<1>7. CASE RecordFailure(r)
  BY <1>7, RecordFailureRefines DEF Terminal
<1>8. CASE RecordingFails(r)
  <2>1. /\ pc[r] \in {"recording", "recordFailure"}
        /\ pc' = [pc EXCEPT ![r] = "saveFailed"]
        /\ UNCHANGED <<post, stored>>
    BY <1>8 DEF RecordingFails, GoTo, work
  <2>2. CASE scanJobs' = scanJobs
    <3>1. pc[r] \in Live /\ Phase(pc[r]) = "live"
      BY <2>1 DEF Live, Phase
    <3> QED
      BY <2>1, <2>2, <3>1, RowMapStays, GiveUpStep
  <2>3. CASE /\ pc[r] = "recording"
             /\ WriteVerdict(Id(r), JobOf(r), JobOf(r).status, JobOf(r).error)
    BY <2>1, <2>3, VerdictRefines
  <2> QED
    BY <1>8, <2>2, <2>3 DEF RecordingFails, GoTo
<1>9. ASSUME NEW from \in {"saveFailed", "saveErrored"},
             NEW to \in {"saveErrored", "done"},
             GoTo(r, from, to), UNCHANGED <<sinkVars, post, work>>
      PROVE  UNCHANGED Promise!promiseVars
  <2>1. /\ pc[r] \in Live /\ pc' = [pc EXCEPT ![r] = to]
        /\ to \in Live \cup {"done"} /\ Phase(to) = Phase(pc[r])
    BY <1>9 DEF GoTo, Live, Phase
  <2> QED
    BY <1>9, <2>1, RowMapStays, SilentStep DEF sinkVars, work
<1>10. CASE NoteSaveError(r)
  BY <1>9, <1>10 DEF NoteSaveError
<1>11. CASE FailAfterSave(r)
  BY <1>9, <1>11 DEF FailAfterSave
<1> QED
  BY <1>1, <1>2, <1>3, <1>4, <1>5, <1>6, <1>7, <1>8, <1>10, <1>11 DEF Persist

\* Every answer to a POST is one the promise allows.
LEMMA SubmitRefines ==
    ASSUME ScanInv, NEW r \in Requests, Submit(r)
    PROVE  \/ \E id \in JobIds : Promise!Begin(r, id)
           \/ UNCHANGED Promise!promiseVars
<1>0. pc \in [Requests -> Pcs] /\ post \in [Requests -> Post \cup {NoPost}]
  BY DEF ScanInv, TypeOK
<1> PICK p \in Posts : RejectScan(r, p) \/ AcceptScan(r, p) \/ RepeatScan(r, p)
  BY DEF Submit
<1>1. /\ pc[r] = "idle" /\ RowMap' = RowMap /\ stored' = stored
      /\ \A s \in Requests : s # r => pc'[s] = pc[s] /\ post'[s] = post[s]
  BY <1>0, RowMapStays
     DEF RejectScan, AcceptScan, RepeatScan, GoTo, sinkVars, work
<1>2. CASE RejectScan(r, p) \/ RepeatScan(r, p)
  <2>1. pc'[r] \in {"rejected", "repeated"}
    BY <1>0, <1>2 DEF RejectScan, RepeatScan, GoTo
  <2>2. PhaseMap' = PhaseMap /\ OfMap' = OfMap
    BY <1>1, <2>1 DEF PhaseMap, OfMap, Phase
  <2> QED
    BY <1>1, <2>2 DEF Promise!promiseVars
<1>3. CASE AcceptScan(r, p)
  <2>1. /\ p \in Post /\ p.id \in JobIds /\ ~ Known(p.id)
        /\ pc'[r] = "start" /\ post'[r] = p
    BY <1>0, <1>3 DEF AcceptScan, CreateIfAbsent, GoTo, Post
  <2>2. PhaseMap' = [PhaseMap EXCEPT ![r] = "live"]
    BY <1>1, <2>1 DEF PhaseMap, Phase
  <2>3. OfMap' = [OfMap EXCEPT ![r] = p.id]
    BY <1>1, <2>1 DEF OfMap, Phase
  <2>4. PhaseMap[r] = "none"
    BY <1>1 DEF PhaseMap, Phase
  <2>5. \A s \in Requests : OfMap[s] = p.id => PhaseMap[s] # "live"
    <3> SUFFICES ASSUME NEW s \in Requests, PhaseMap[s] = "live"
                 PROVE  OfMap[s] # p.id
      OBVIOUS
    <3>1. Phase(pc[s]) = "live"
      BY DEF PhaseMap
    <3>2. pc[s] \in Live
      BY <1>0, <3>1 DEF Phase, Pcs
    <3>3. OfMap[s] = Id(s) /\ Known(Id(s))
      BY <3>1, <3>2, LiveFacts DEF OfMap, Id
    <3> QED
      BY <2>1, <3>3
  <2> QED
    BY <1>1, <2>1, <2>2, <2>3, <2>4, <2>5 DEF Promise!Begin
<1> QED
  BY <1>2, <1>3

\* The end of the process ends every live run without touching a row.
LEMMA DieRefines ==
    ASSUME ScanInv, Die
    PROVE  Promise!Crash
<1>1. pc \in [Requests -> Pcs]
  BY DEF ScanInv, TypeOK
<1>2. \A r \in Requests :
          /\ Phase(pc'[r]) = IF Phase(pc[r]) = "live" THEN "over"
                             ELSE Phase(pc[r])
          /\ Phase(pc'[r]) = "none" <=> Phase(pc[r]) = "none"
  <2> SUFFICES ASSUME NEW r \in Requests
               PROVE /\ Phase(pc'[r]) = IF Phase(pc[r]) = "live" THEN "over"
                                        ELSE Phase(pc[r])
                     /\ Phase(pc'[r]) = "none" <=> Phase(pc[r]) = "none"
    OBVIOUS
  <2>1. pc'[r] = CASE pc[r] \in Live -> "dead"
                   [] pc[r] = "done" -> "past"
                   [] OTHER -> pc[r]
    BY DEF Die
  <2>2. pc[r] \in Pcs
    BY <1>1
  <2>3. CASE pc[r] \in Live
    BY <2>1, <2>3 DEF Phase, Live
  <2>4. CASE pc[r] = "done"
    BY <2>1, <2>4 DEF Phase, Live
  <2>5. CASE pc[r] \in {"idle", "rejected", "repeated", "dead", "past"}
    BY <2>1, <2>5 DEF Phase, Live
  <2> QED
    BY <2>2, <2>3, <2>4, <2>5 DEF Pcs
<1>3. PhaseMap' = [r \in Requests |-> IF PhaseMap[r] = "live" THEN "over"
                                      ELSE PhaseMap[r]]
  BY <1>2 DEF PhaseMap, Phase
<1>4. post' = post /\ scanJobs' = scanJobs /\ stored' = stored
  BY DEF Die, sinkVars
<1>5. OfMap' = OfMap
  BY <1>2, <1>4 DEF OfMap, Phase
<1> QED
  BY <1>3, <1>4, <1>5, RowMapStays DEF Promise!Crash

\* The service does to its rows only what ScanPromise allows: announce,
\* keep, then conclude, one live run per id, whatever fails in between.
THEOREM Refinement == Spec => ImplementsPromise
<1>1. Init => Promise!PromiseInit
  <2> SUFFICES ASSUME Init PROVE Promise!PromiseInit
    OBVIOUS
  <2>1. PhaseMap = [r \in Requests |-> "none"]
    BY DEF Init, PhaseMap, Phase
  <2>2. OfMap = [r \in Requests |-> NoPost]
    BY DEF Init, OfMap, Phase
  <2>3. RowMap = [id \in JobIds |-> "none"]
    BY DEF Init, SinkInit, RowMap, RowStatus
  <2> QED
    BY <2>1, <2>2, <2>3 DEF Init, Promise!PromiseInit
<1>2. ScanInv /\ [Next]_vars => [Promise!PromiseNext]_(Promise!promiseVars)
  <2> SUFFICES ASSUME ScanInv, [Next]_vars
               PROVE  Promise!PromiseNext \/ UNCHANGED Promise!promiseVars
    OBVIOUS
  <2>1. ASSUME NEW r \in Requests, Submit(r)
        PROVE  Promise!PromiseNext \/ UNCHANGED Promise!promiseVars
    BY <2>1, SubmitRefines DEF Promise!PromiseNext
  <2>2. ASSUME NEW r \in Requests, Scan(r)
        PROVE  Promise!PromiseNext \/ UNCHANGED Promise!promiseVars
    BY <2>2, ScanRefines DEF Promise!PromiseNext
  <2>3. ASSUME NEW r \in Requests, Persist(r)
        PROVE  Promise!PromiseNext \/ UNCHANGED Promise!promiseVars
    BY <2>3, PersistRefines
       DEF Promise!PromiseNext, Promise!Verdicts, Terminal
  <2>4. CASE Die
    BY <2>4, DieRefines DEF Promise!PromiseNext
  <2>5. CASE UNCHANGED <<scanJobs, pc, post, stored>>
    <3>1. PhaseMap' = PhaseMap /\ OfMap' = OfMap
      BY <2>5 DEF PhaseMap, OfMap, Phase
    <3> QED
      BY <2>5, <3>1, RowMapStays DEF Promise!promiseVars
  <2>6. CASE Signal \/ CloseSink \/ Restart \/ PlatformStep \/ UNCHANGED vars
    BY <2>5, <2>6 DEF Signal, CloseSink, Restart, PlatformStep,
       PlatformEdits, PlatformWrites, vars, sinkVars, work
  <2> QED
    BY <2>1, <2>2, <2>3, <2>4, <2>6 DEF Next, Process
<1> QED
  BY <1>1, <1>2, InvariantHolds, PTL DEF Spec, ImplementsPromise,
     Promise!PromiseSpec

=============================================================================
