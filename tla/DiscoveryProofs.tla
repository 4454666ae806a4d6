--------------------------- MODULE DiscoveryProofs ---------------------------
(***************************************************************************)
(* What Discovery guarantees, for a pipe of any size, any output of        *)
(* subfinder and files of amass of any length.                             *)
(***************************************************************************)
EXTENDS Discovery, SequenceTheorems, TLAPS

\* Run starts in a state of the invariant.
LEMMA InitDiscoveryInv == Init => DiscoveryInv
  <1> SUFFICES ASSUME Init PROVE DiscoveryInv
    OBVIOUS
  <1>1. script \in Seq(Lines)
    BY ScriptsAssumption DEF Init
  <1>2. pipe \in Seq(Lines) /\ Len(pipe) <= PipeSize
    BY PipeAssumption, EmptySeq DEF Init
  <1>3. QED BY <1>1, <1>2 DEF Init, DiscoveryInv, TypeOK

\* A line read, or one thrown away, leaves a pipe with room for one more.
LEMMA TailOfPipe ==
  ASSUME TypeOK, pipe # <<>>
  PROVE  /\ Tail(pipe) \in Seq(Lines)
         /\ Len(Tail(pipe)) <= PipeSize
  BY HeadTailProperties, PipeAssumption DEF TypeOK

\* The steps of subfinder keep the invariant: a line fits the pipe.
LEMMA ToolInv == ASSUME DiscoveryInv, Tool PROVE DiscoveryInv'
  <1>1. CASE ToolWrites
    <2>1. script' \in Seq(Lines)
      BY <1>1, HeadTailProperties DEF ToolWrites, DiscoveryInv, TypeOK
    <2>2. pipe' \in Seq(Lines) /\ Len(pipe') <= PipeSize
      BY <1>1, HeadTailProperties, AppendProperties, PipeAssumption
      DEF ToolWrites, HasRoom, DiscoveryInv, TypeOK
    <2>3. QED
      BY <1>1, <2>1, <2>2
      DEF ToolWrites, DiscoveryInv, TypeOK, reader, result
  <1>2. CASE ToolExits
    BY <1>2 DEF ToolExits, DiscoveryInv, TypeOK, reader, result
  <1>3. QED BY <1>1, <1>2 DEF Tool

\* The steps of Run up to its choice of what the pool gets.
LEMMA ReaderInv ==
  ASSUME DiscoveryInv, StartSubfinder \/ SkipSubfinder \/ ReadLine \/ Drain \/ PipeEnds
  PROVE  DiscoveryInv'
  <1>1. CASE StartSubfinder
    BY <1>1 DEF StartSubfinder, DiscoveryInv, TypeOK, reader, result
  <1>2. CASE SkipSubfinder
    BY <1>2 DEF SkipSubfinder, DiscoveryInv, TypeOK, process, reader, result
  <1>3. CASE ReadLine
    <2>1. pipe' \in Seq(Lines) /\ Len(pipe') <= PipeSize
      BY <1>3, TailOfPipe DEF ReadLine, DiscoveryInv
    <2>2. CASE Head(pipe) = "name"
      BY <1>3, <2>1, <2>2 DEF ReadLine, DiscoveryInv, TypeOK, result
    <2>3. CASE Head(pipe) # "name"
      BY <1>3, <2>1, <2>3 DEF ReadLine, DiscoveryInv, TypeOK, result
    <2>4. QED BY <2>2, <2>3
  <1>4. CASE Drain
    <2>1. pipe' \in Seq(Lines) /\ Len(pipe') <= PipeSize
      BY <1>4, TailOfPipe DEF Drain, DiscoveryInv
    <2>2. QED BY <1>4, <2>1 DEF Drain, DiscoveryInv, TypeOK, reader, result
  <1>5. CASE PipeEnds
    BY <1>5 DEF PipeEnds, DiscoveryInv, TypeOK, process, reader, result
  <1>6. QED BY <1>1, <1>2, <1>3, <1>4, <1>5

\* discover falls back only from a run of subfinder that found nothing.
LEMMA ReapInv == ASSUME DiscoveryInv, Reap PROVE DiscoveryInv'
  <1>1. PICK failed \in BOOLEAN :
          IF SubfinderIsUsable(failed)
          THEN stage' = "resolving" /\ entries' = names
          ELSE stage' = "fallback" /\ UNCHANGED entries
    BY DEF Reap
  <1>2. CASE names > 0
    BY <1>1, <1>2
    DEF Reap, SubfinderIsUsable, DiscoveryInv, TypeOK, process, reader
  <1>3. CASE ~ (names > 0)
    BY <1>1, <1>3
    DEF Reap, SubfinderIsUsable, DiscoveryInv, TypeOK, process, reader
  <1>4. QED BY <1>2, <1>3

\* runAmass returns nothing without an error only from a clean exit.
LEMMA AmassInv == ASSUME DiscoveryInv, AmassEnds PROVE DiscoveryInv'
  <1> PICK failed \in BOOLEAN, json \in Files, txt \in Files :
        /\ amassExit' = IF failed THEN "failed" ELSE "clean"
        /\ LET ok == /\ ~ ReadFails(json)
                     /\ json.read = 0 =>
                           /\ ~ ReadFails(txt)
                           /\ txt.read = 0 => AmassIsEmpty(failed)
           IN  /\ stage' = IF ok THEN "resolving" ELSE "returned"
               /\ verdict' = IF ok THEN "none" ELSE "error"
               /\ prefilled' = (ok /\ json.read > 0)
               /\ entries' = IF ~ ok THEN 0
                             ELSE IF json.read > 0 THEN json.read
                             ELSE txt.read
    BY DEF AmassEnds
  <1> DEFINE ok == /\ ~ ReadFails(json)
                   /\ json.read = 0 =>
                         /\ ~ ReadFails(txt)
                         /\ txt.read = 0 => AmassIsEmpty(failed)
  <1>1. json.read \in Nat /\ txt.read \in Nat
    BY EntriesAssumption DEF Files
  <1>2. ok \in BOOLEAN
    BY DEF ReadFails, AmassIsEmpty
  <1>3. names = 0 /\ stage = "amass" /\ verdict = "none"
    BY DEF AmassEnds, DiscoveryInv, TypeOK
  <1>4. UNCHANGED <<present, process, reader, expired, subs>>
    BY DEF AmassEnds
  <1>5. prefilled' \in BOOLEAN
    BY <1>2
  <1>6. CASE ok
    <2>1. stage' = "resolving" /\ verdict' = "none"
      BY <1>6
    <2>2. entries' \in Nat /\ (entries' = 0 => json.read = 0 /\ txt.read = 0)
      BY <1>1, <1>6
    <2>3. entries' = 0 => amassExit' = "clean"
      BY <1>6, <2>2 DEF AmassIsEmpty
    <2>4. amassExit' \in {"none", "clean", "failed"}
      OBVIOUS
    <2>5. QED
      BY <1>3, <1>4, <1>5, <2>1, <2>2, <2>3, <2>4
      DEF DiscoveryInv, TypeOK, process, reader
  <1>7. CASE ~ ok
    <2>1. stage' = "returned" /\ verdict' = "error" /\ entries' = 0
      BY <1>7
    <2>2. amassExit' \in {"none", "clean", "failed"}
      OBVIOUS
    <2>3. QED
      BY <1>3, <1>4, <1>5, <2>1, <2>2 DEF DiscoveryInv, TypeOK, process, reader
  <1>8. QED BY <1>6, <1>7

\* The pool answers for no more than it was given.
LEMMA ResolveInv == ASSUME DiscoveryInv, Resolve PROVE DiscoveryInv'
  <1>1. subs' \in Nat /\ (subs' = entries \/ (expired /\ ~ prefilled))
    BY DEF Resolve, DiscoveryInv, TypeOK
  <1>2. QED BY <1>1 DEF Resolve, DiscoveryInv, TypeOK, process, reader

\* Every step keeps the invariant.
LEMMA NextDiscoveryInv == DiscoveryInv /\ [Next]_vars => DiscoveryInv'
  <1> SUFFICES ASSUME DiscoveryInv, [Next]_vars PROVE DiscoveryInv'
    OBVIOUS
  <1>1. CASE Tool BY <1>1, ToolInv
  <1>2. CASE StartSubfinder \/ SkipSubfinder \/ ReadLine \/ Drain \/ PipeEnds
    BY <1>2, ReaderInv
  <1>3. CASE Reap BY <1>3, ReapInv
  <1>4. CASE GiveUp
    BY <1>4 DEF GiveUp, DiscoveryInv, TypeOK, process, reader
  <1>5. CASE StartAmass
    BY <1>5 DEF StartAmass, DiscoveryInv, TypeOK, process, reader, result
  <1>6. CASE AmassEnds BY <1>6, AmassInv
  <1>7. CASE Resolve BY <1>7, ResolveInv
  <1>8. CASE Expire
    BY <1>8 DEF Expire, DiscoveryInv, TypeOK, reader, result
  <1>9. CASE UNCHANGED vars
    BY <1>9 DEF vars, DiscoveryInv, TypeOK
  <1>10. QED
    BY <1>1, <1>2, <1>3, <1>4, <1>5, <1>6, <1>7, <1>8, <1>9 DEF Next, Run

\* In every reachable state of Run, what the pool gets came from the tool
\* that was asked last, and amass was asked only when subfinder had nothing.
THEOREM InvariantHolds == Spec => []DiscoveryInv
  BY InitDiscoveryInv, NextDiscoveryInv, PTL DEF Spec

\* The counters, the pipe (never over its size) and the stages keep their
\* types.
THEOREM TypeCorrect == Spec => []TypeOK
  <1>1. DiscoveryInv => TypeOK BY DEF DiscoveryInv
  <1>2. QED BY <1>1, InvariantHolds, PTL

\* A result without a subdomain is that of an amass which ended cleanly and
\* left nothing, or of a resolver whose deadline had passed.
THEOREM EarnedEmpty == Spec => []EmptyIsEarned
  <1>1. DiscoveryInv => EmptyIsEarned BY DEF DiscoveryInv, TypeOK, EmptyIsEarned
  <1>2. QED BY <1>1, InvariantHolds, PTL

\* Names read before a long line, a failure or the deadline are what Run
\* goes on with.
THEOREM PartialKept == Spec => []PartialReadIsKept
  <1>1. DiscoveryInv => PartialReadIsKept
    BY DEF DiscoveryInv, PartialReadIsKept
  <1>2. QED BY <1>1, InvariantHolds, PTL

=============================================================================
