--------------------------- MODULE ProcessPromise ---------------------------
(***************************************************************************)
(* What scans may take for granted of the process they run in: its sink is *)
(* open before a scan is accepted, it is closed only once the process has  *)
(* begun to stop and at most once in a life, and nothing is accepted by a  *)
(* process that is gone.                                                   *)
(*                                                                         *)
(* The module stands between two others.  ScanServer is built on it: the   *)
(* steps of its process are Begin, Stop, Close and End, whenever they are  *)
(* enabled.  Lifecycle implements it: what main.run does to a process is   *)
(* one of these steps or none.  So no process that main.run makes is left  *)
(* out of what ScanServer is checked with.                                 *)
(***************************************************************************)
CONSTANT Requests

VARIABLES
    server,    \* up, stopping, closed (its sink closed) or down
    accepted   \* history: requests a scan was started for

processVars == <<server, accepted>>

ProcessStates == {"up", "stopping", "closed", "down"}

ProcessInit ==
    /\ server \in {"up", "down"}
    /\ accepted = {}

Begin == server = "down" /\ server' = "up"
Stop == server = "up" /\ server' = "stopping"
Close == server = "stopping" /\ server' = "closed"
End == server # "down" /\ server' = "down"

Accept(r) ==
    /\ server # "down"
    /\ r \notin accepted
    /\ accepted' = accepted \cup {r}
    /\ UNCHANGED server

ProcessNext ==
    \/ (Begin \/ Stop \/ Close \/ End) /\ UNCHANGED accepted
    \/ \E r \in Requests : Accept(r)

ProcessSpec == ProcessInit /\ [][ProcessNext]_processVars

=============================================================================
