----------------------------- MODULE Discovery ------------------------------
(***************************************************************************)
(* subdomain.Module.Run: subfinder read through a pipe, amass as the       *)
(* fallback, then the resolver pool, all under one deadline (runCtx).      *)
(*                                                                         *)
(* subfinder is a process of its own: it writes lines into a pipe of       *)
(* PipeSize lines and blocks while the pipe is full.  The reader stops at  *)
(* a line over scannerMaxLine, drains the rest, and only then waits.       *)
(*                                                                         *)
(*   begin      discover's checks and choice of tool                       *)
(*   reading    runSubfinder's scanner loop                                *)
(*   draining   io.Copy to io.Discard                                      *)
(*   waiting    cmd.Wait                                                   *)
(*   fallback   discover, past subfinder                                   *)
(*   amass      cmd.Run of amass, then its two files                       *)
(*   resolving  resolveAll or fillMissingIPs, then onProgress              *)
(*   returned   Run returned verdict                                       *)
(*                                                                         *)
(* Abstractions.  A line is a name or too long to be one; names are        *)
(* counted.  Where amass already gave an address is not modelled.          *)
(***************************************************************************)
EXTENDS Naturals, Sequences

CONSTANTS
    PipeSize,    \* lines the pipe holds, at least one
    Scripts,     \* what subfinder would write, as sequences of lines
    MaxEntries   \* bound on the entries of an amass output file

VARIABLES
    stage,      \* where Run is
    present,    \* the tools toolcheck.Present finds
    tool,       \* the subfinder process: off, running or exited
    script,     \* lines it has yet to write
    pipe,       \* lines written and not read
    names,      \* lines the reader took for names
    cutShort,   \* scanErr: the reader met a line that was too long
    entries,    \* names or records the pool gets
    prefilled,  \* they are amass records (fillMissingIPs), not bare names
    expired,    \* runCtx is done
    amassExit,  \* history: how amass ended: none, clean or failed
    verdict,    \* none, ok or error
    subs        \* length of the result

vars == <<stage, present, tool, script, pipe, names, cutShort, entries,
          prefilled, expired, amassExit, verdict, subs>>

Tools == {"subfinder", "amass"}
Lines == {"name", "long"}

ASSUME PipeAssumption == PipeSize \in Nat \ {0}
ASSUME ScriptsAssumption == Scripts \subseteq Seq(Lines)
ASSUME EntriesAssumption == MaxEntries \in Nat

TypeOK ==
    /\ stage \in {"begin", "reading", "draining", "waiting", "fallback",
                  "amass", "resolving", "returned"}
    /\ present \in SUBSET Tools
    /\ tool \in {"off", "running", "exited"}
    /\ script \in Seq(Lines)
    /\ pipe \in Seq(Lines) /\ Len(pipe) <= PipeSize
    /\ names \in Nat
    /\ cutShort \in BOOLEAN
    /\ entries \in Nat
    /\ prefilled \in BOOLEAN
    /\ expired \in BOOLEAN
    /\ amassExit \in {"none", "clean", "failed"}
    /\ verdict \in {"none", "ok", "error"}
    /\ subs \in Nat

Init ==
    /\ stage = "begin"
    /\ present \in SUBSET Tools
    /\ tool = "off"
    /\ script \in Scripts
    /\ pipe = <<>>
    /\ names = 0
    /\ cutShort = FALSE
    /\ entries = 0
    /\ prefilled = FALSE
    /\ expired = FALSE
    /\ amassExit = "none"
    /\ verdict = "none"
    /\ subs = 0

process == <<tool, script, pipe>>
reader == <<names, cutShort>>
result == <<entries, prefilled, amassExit, verdict, subs>>

-----------------------------------------------------------------------------
(* A file amass leaves, as parseAmassJSON and parseAmassTxt see it: what   *)
(* stopped the read, and how many entries came before that.                *)

Files ==
    [stop : {"missing", "unreadable"}, read : {0}]
    \cup [stop : {"eof", "long", "io"}, read : 0..MaxEntries]

\* readErr, and the errors of os.Open.
ReadFails(file) ==
    \/ file.stop \in {"unreadable", "io"}
    \/ file.stop = "long" /\ file.read = 0

-----------------------------------------------------------------------------
(* Broken variants, each put in place of its original to show that some    *)
(* property notices.                                                       *)

\* The scanner's error ends the read, and the pipe is abandoned.
ReadLineAbandons ==
    /\ stage = "reading"
    /\ pipe # <<>>
    /\ pipe' = Tail(pipe)
    /\ IF Head(pipe) = "name"
       THEN names' = names + 1 /\ UNCHANGED <<stage, cutShort>>
       ELSE stage' = "waiting" /\ cutShort' = TRUE /\ UNCHANGED names
    /\ UNCHANGED <<present, tool, script, expired, result>>

\* Any non-zero exit, or a cut-short read, sends discover off to amass.
SubfinderIsUsableStrict(failed) == names > 0 /\ ~ failed /\ ~ cutShort

\* amass's exit code is not consulted at all.
AmassIsEmptyLoose(failed) == TRUE

\* A clean exit is trusted although no name was read: no fallback.
SubfinderIsUsableAnyway(failed) == names > 0 \/ ~ failed

-----------------------------------------------------------------------------
\* discover chooses subfinder, and it starts, or discover goes on without
\* it.  No domain here fails IsValidHostname: handleScan checked it.
StartSubfinder ==
    /\ stage = "begin"
    /\ "subfinder" \in present
    /\ \/ ~ expired /\ stage' = "reading" /\ tool' = "running"
       \/ stage' = "fallback" /\ UNCHANGED tool   \* cmd.Start failed
    /\ UNCHANGED <<present, script, pipe, reader, expired, result>>

SkipSubfinder ==
    /\ stage = "begin"
    /\ "subfinder" \notin present
    /\ stage' = "fallback"
    /\ UNCHANGED <<present, process, reader, expired, result>>

HasRoom == Len(pipe) < PipeSize

\* subfinder writes a line, or exits having written all of them.
ToolWrites ==
    /\ tool = "running"
    /\ script # <<>>
    /\ HasRoom
    /\ pipe' = Append(pipe, Head(script))
    /\ script' = Tail(script)
    /\ UNCHANGED <<stage, present, tool, reader, expired, result>>

ToolExits ==
    /\ tool = "running"
    /\ script = <<>>
    /\ tool' = "exited"
    /\ UNCHANGED <<stage, present, script, pipe, reader, expired, result>>

ReadLine ==
    /\ stage = "reading"
    /\ pipe # <<>>
    /\ pipe' = Tail(pipe)
    /\ IF Head(pipe) = "name"
       THEN names' = names + 1 /\ UNCHANGED <<stage, cutShort>>
       ELSE stage' = "draining" /\ cutShort' = TRUE /\ UNCHANGED names
    /\ UNCHANGED <<present, tool, script, expired, result>>

Drain ==
    /\ stage = "draining"
    /\ pipe # <<>>
    /\ pipe' = Tail(pipe)
    /\ UNCHANGED <<stage, present, tool, script, reader, expired, result>>

\* End of file: the writer is gone and the pipe is empty.
PipeEnds ==
    /\ stage \in {"reading", "draining"}
    /\ pipe = <<>>
    /\ tool = "exited"
    /\ stage' = "waiting"
    /\ UNCHANGED <<present, process, reader, expired, result>>

\* discover keeps what subfinder found, whatever it and its exit code say.
SubfinderIsUsable(failed) == names > 0

\* cmd.Wait returned; the process failed, or did not.
Reap ==
    /\ stage = "waiting"
    /\ tool = "exited"
    /\ \E failed \in BOOLEAN :
          IF SubfinderIsUsable(failed)
          THEN stage' = "resolving" /\ entries' = names
          ELSE stage' = "fallback" /\ UNCHANGED entries
    /\ UNCHANGED <<present, process, reader, prefilled, expired, amassExit,
                   verdict, subs>>

\* discover: no tool left, no temporary directory, or no process (none
\* starts once the deadline has passed).
GiveUp ==
    /\ stage = "fallback"
    /\ stage' = "returned"
    /\ verdict' = "error"
    /\ UNCHANGED <<present, process, reader, entries, prefilled, expired,
                   amassExit, subs>>

StartAmass ==
    /\ stage = "fallback"
    /\ "amass" \in present
    /\ ~ expired
    /\ stage' = "amass"
    /\ UNCHANGED <<present, process, reader, expired, result>>

\* runAmass consults the command's own error only when both files are empty.
AmassIsEmpty(failed) == ~ failed

\* amass ended, by itself or killed at the deadline, and runAmass reads what
\* it left: the JSON file, and the text file if that held nothing.
AmassEnds ==
    /\ stage = "amass"
    /\ \E failed \in BOOLEAN, json, txt \in Files :
          /\ amassExit' = IF failed THEN "failed" ELSE "clean"
          /\ LET ok == /\ ~ ReadFails(json)
                       /\ json.read = 0 =>
                             /\ ~ ReadFails(txt)
                             /\ txt.read = 0 => AmassIsEmpty(failed)
             IN  /\ stage' = IF ok THEN "resolving" ELSE "returned"
                 /\ verdict' = IF ok THEN "none" ELSE "error"
                 /\ prefilled' = (ok /\ json.read > 0)
                 /\ entries' = IF ~ ok THEN 0
                               ELSE IF json.read > 0 THEN json.read
                               ELSE txt.read
    /\ UNCHANGED <<present, process, reader, expired, subs>>

\* fillMissingIPs answers for every entry it was given; resolveAll, once the
\* deadline has passed, for those its feeder still handed out.
Resolve ==
    /\ stage = "resolving"
    /\ stage' = "returned"
    /\ verdict' = "ok"
    /\ subs' \in IF expired /\ ~ prefilled THEN 0..entries ELSE {entries}
    /\ UNCHANGED <<present, process, reader, entries, prefilled, expired,
                   amassExit>>

\* runCtx ends: a running tool is killed.
Expire ==
    /\ ~ expired
    /\ stage # "returned"
    /\ expired' = TRUE
    /\ tool' = IF tool = "running" THEN "exited" ELSE tool
    /\ UNCHANGED <<stage, present, script, pipe, reader, result>>

-----------------------------------------------------------------------------
Tool == ToolWrites \/ ToolExits

Run ==
    \/ StartSubfinder
    \/ SkipSubfinder
    \/ ReadLine
    \/ Drain
    \/ PipeEnds
    \/ Reap
    \/ GiveUp
    \/ StartAmass
    \/ AmassEnds
    \/ Resolve

Next == Tool \/ Run \/ Expire

Spec == Init /\ [][Next]_vars

\* Both processes run, and amass ends (it is given -timeout); nothing says
\* the deadline has to pass.
FairSpec == Spec /\ WF_vars(Tool) /\ WF_vars(Run)

-----------------------------------------------------------------------------
(* What Run guarantees.                                                    *)

\* A success without a single subdomain has one of two origins.  Either no
\* tool named any and amass, asked last, ended cleanly: no failure of a tool
\* alone looks like "the domain has no subdomains" (runAmass).  Or names were
\* found and the deadline passed before resolveAll took them: names, not
\* addresses, are lost then (PartialBeatsNone is the claim that denies it).
EmptyIsEarned ==
    (verdict = "ok" /\ subs = 0) =>
        \/ entries = 0 /\ amassExit = "clean"
        \/ entries > 0 /\ expired /\ ~ prefilled

\* A line that is too long, a non-zero exit or the deadline costs names but
\* not the scan: what was read before is kept and amass is left alone.
PartialReadIsKept ==
    /\ names > 0 => amassExit = "none" /\ verdict # "error"
    /\ (verdict = "ok" /\ names > 0) => entries = names

\* The pool gets the names of the tool that was asked last; discover falls
\* back to amass only from a subfinder that named nothing; the result misses
\* entries only of bare names and after the deadline.  This is the inductive
\* invariant behind the theorems of DiscoveryProofs.
DiscoveryInv ==
    /\ TypeOK
    /\ verdict # "none" => stage = "returned"
    /\ stage \in {"begin", "fallback", "amass"} => names = 0
    /\ stage \in {"begin", "reading", "draining", "waiting", "fallback", "amass"}
          => amassExit = "none"
    /\ names > 0 => amassExit = "none" /\ verdict # "error"
    /\ (stage = "resolving" \/ verdict = "ok") =>
          /\ names > 0 => entries = names
          /\ entries = 0 => amassExit = "clean"
    /\ verdict = "ok" => subs = entries \/ (expired /\ ~ prefilled)

\* Run returns without the help of its deadline, however much subfinder
\* writes and wherever the reader stopped (the drain before cmd.Wait).
RunReturns == <>(stage = "returned")

\* subfinder.go: "a partial result beats none", for a run whose deadline
\* kills subfinder as well.
PartialBeatsNone == (verdict = "ok" /\ names > 0) => subs > 0

=============================================================================
