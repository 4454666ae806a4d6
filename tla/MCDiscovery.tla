---------------------------- MODULE MCDiscovery -----------------------------
(* Instances of Discovery for TLC. *)
EXTENDS Discovery, SequencesExt

\* Every output of at most four lines, twice what the pipe holds.
ShortScripts == SeqOf(Lines, 4)

=============================================================================
