------------------------------- MODULE PtpLink -------------------------------
(***************************************************************************)
(* What a PtpRuntime promises the threads that share it: commands go over  *)
(* the link one at a time and only while it is open, and a link that is    *)
(* being closed, or is closed, carries no command any more.                *)
(***************************************************************************)
CONSTANT Threads

VARIABLES
    phase,  \* "open", "closing" or "closed"
    users   \* the threads whose command is on the wire

linkVars == <<phase, users>>

LinkTypeOK ==
    /\ phase \in {"open", "closing", "closed"}
    /\ users \subseteq Threads

LinkInit ==
    /\ phase = "open"
    /\ users = {}

Begin(t) ==
    /\ phase = "open"
    /\ users = {}
    /\ users' = {t}
    /\ UNCHANGED phase

End(t) ==
    /\ users = {t}
    /\ users' = {}
    /\ UNCHANGED phase

\* No command is on the wire when the link starts to close.
StartClosing ==
    /\ phase = "open"
    /\ users = {}
    /\ phase' = "closing"
    /\ UNCHANGED users

Close ==
    /\ phase = "closing"
    /\ phase' = "closed"
    /\ UNCHANGED users

LinkNext ==
    \/ \E t \in Threads : Begin(t) \/ End(t)
    \/ StartClosing
    \/ Close

LinkSpec == LinkInit /\ [][LinkNext]_linkVars

=============================================================================
