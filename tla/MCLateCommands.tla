--------------------------- MODULE MCLateCommands ---------------------------
(***************************************************************************)
(* The instance of MCScanServer, with commands that come late.             *)
(***************************************************************************)
EXTENDS MCScanServer, LateCommands

\* One id for a scan of either kind, so that a late command can meet the row
\* of its successor, and a second scan that writes the array of the first.
LatePosts == {NamesOfAcme, PortsOfAcme, NamesOfZeta}

=============================================================================
