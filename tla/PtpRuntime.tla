----------------------------- MODULE PtpRuntime -----------------------------
(***************************************************************************)
(* One PtpRuntime shared by the threads of the host: transactions          *)
(* (ptp_send, of libpict) and the shutdown of the connection               *)
(* (ptp_report_error, lib/fuji.c).                                         *)
(*                                                                         *)
(* Every statement of ptp_report_error that another thread can observe is  *)
(* a step of its own, because io_kill_switch is first read without the     *)
(* lock.  A transaction takes the lock, writes the command packet, waits   *)
(* for the response and releases the lock; it fails with an I/O error when *)
(* a kill switch is set or the link is gone.                               *)
(***************************************************************************)
EXTENDS PtpMutex

CONSTANT
    Connection  \* r->connection_type: "PTP_IP_USB" or "PTP_USB"

ASSUME ConnectionAssumption == Connection \in {"PTP_IP_USB", "PTP_USB"}

VARIABLES
    operation_kill_switch,  \* r->operation_kill_switch
    io_kill_switch,         \* r->io_kill_switch
    goodbyes,               \* goodbye packets ptp_report_error has sent
    closes,                 \* calls of ptpip_device_close or ptp_device_close
    session_open,           \* the camera has an open PTP session
    link_up,                \* the camera can be reached
    pc,                     \* where each thread is
    ret,                    \* where ptp_send returns to
    code                    \* the code argument of ptp_report_error

vars == <<owner, depth, operation_kill_switch, io_kill_switch, goodbyes,
          closes, session_open, link_up, pc, ret, code>>

PTP_IO_ERR == "PTP_IO_ERR"
Requested  == "requested"    \* code 0: an intentional disconnect

Codes == {Requested, PTP_IO_ERR}

\* Places inside ptp_send where its own hold on the lock is in force.
InSend == {"send_write", "send_read", "send_unlock"}

\* Places inside ptp_report_error between its lock and its unlock.
InReport == {"re_recheck", "re_stop", "re_goodbye", "re_close", "re_kill",
             "re_unlock"}

Places == {"idle", "send_lock", "re_lock"} \cup InSend \cup InReport

TypeOK ==
    /\ MutexTypeOK
    /\ operation_kill_switch \in BOOLEAN
    /\ io_kill_switch \in BOOLEAN
    /\ goodbyes \in Nat
    /\ closes \in Nat
    /\ session_open \in BOOLEAN
    /\ link_up \in BOOLEAN
    /\ pc \in [Threads -> Places]
    /\ ret \in [Threads -> {"idle", "re_stop"}]
    /\ code \in [Threads -> Codes]

\* A connected runtime: the session is open and nobody is using it.
Init ==
    /\ MutexInit
    /\ operation_kill_switch = FALSE
    /\ io_kill_switch = FALSE
    /\ goodbyes = 0
    /\ closes = 0
    /\ session_open = TRUE
    /\ link_up = TRUE
    /\ pc = [t \in Threads |-> "idle"]
    /\ ret = [t \in Threads |-> "idle"]
    /\ code = [t \in Threads |-> PTP_IO_ERR]

Goto(t, from, to) ==
    /\ pc[t] = from
    /\ pc' = [pc EXCEPT ![t] = to]

switches == <<operation_kill_switch, io_kill_switch>>
device   == <<goodbyes, closes>>

-----------------------------------------------------------------------------
(* Transactions.                                                           *)

\* A callback of the module sends a command.
CallSend(t) ==
    /\ Goto(t, "idle", "send_lock")
    /\ ret' = [ret EXCEPT ![t] = "idle"]
    /\ UNCHANGED <<mutexVars, switches, device, session_open, link_up, code>>

SendLock(t) ==
    /\ Goto(t, "send_lock", "send_write")
    /\ ptp_mutex_lock(t)
    /\ UNCHANGED <<switches, device, session_open, link_up, ret, code>>

\* The packet can be written: no kill switch is set and the link works.
CanWrite ==
    /\ ~operation_kill_switch
    /\ ~io_kill_switch
    /\ link_up

SendWrite(t) ==
    /\ Goto(t, "send_write", IF CanWrite THEN "send_read" ELSE "send_unlock")
    /\ UNCHANGED <<mutexVars, switches, device, session_open, link_up, ret, code>>

\* The response arrives, or the wait for it ends because the link is gone.
\* The camera that answers CloseSession has closed its session.
SendRead(t) ==
    /\ Goto(t, "send_read", "send_unlock")
    /\ session_open' = (session_open /\ ~(link_up /\ ret[t] = "re_stop"))
    /\ UNCHANGED <<mutexVars, switches, device, link_up, ret, code>>

SendUnlock(t) ==
    /\ Goto(t, "send_unlock", ret[t])
    /\ ptp_mutex_unlock(t)
    /\ UNCHANGED <<switches, device, session_open, link_up, ret, code>>

-----------------------------------------------------------------------------
(* ptp_report_error.                                                       *)

\* The call, and the first look at io_kill_switch, taken without the lock.
ReportCall(t) ==
    \E c \in Codes :
        /\ Goto(t, "idle", IF io_kill_switch THEN "idle" ELSE "re_lock")
        /\ code' = [code EXCEPT ![t] = c]
        /\ UNCHANGED <<mutexVars, switches, device, session_open, link_up, ret>>

\* Mutant: the lock is not taken.
ReportLockForgotten(t) ==
    /\ Goto(t, "re_lock", "re_recheck")
    /\ UNCHANGED <<mutexVars, switches, device, session_open, link_up, ret, code>>

ReportLock(t) ==
    /\ Goto(t, "re_lock", "re_recheck")
    /\ ptp_mutex_lock(t)
    /\ UNCHANGED <<switches, device, session_open, link_up, ret, code>>

\* Mutant: the early return leaves the lock held.
ReportGiveUpLocked(t) ==
    /\ io_kill_switch
    /\ Goto(t, "re_recheck", "idle")
    /\ UNCHANGED <<mutexVars, switches, device, session_open, link_up, ret, code>>

\* The second look: somebody else may have shut the connection down while
\* this thread waited for the lock.
ReportGiveUp(t) ==
    /\ io_kill_switch
    /\ Goto(t, "re_recheck", "idle")
    /\ ptp_mutex_unlock(t)
    /\ UNCHANGED <<switches, device, session_open, link_up, ret, code>>

\* Mutant: no second look.
ReportGoOnUnchecked(t) ==
    /\ Goto(t, "re_recheck", IF code[t] = Requested THEN "send_lock" ELSE "re_stop")
    /\ ret' = [ret EXCEPT ![t] = "re_stop"]
    /\ UNCHANGED <<mutexVars, switches, device, session_open, link_up, code>>

\* Mutant: the session is left open.
ReportGoOnHastily(t) ==
    /\ ~io_kill_switch
    /\ Goto(t, "re_recheck", "re_stop")
    /\ ret' = [ret EXCEPT ![t] = "re_stop"]
    /\ UNCHANGED <<mutexVars, switches, device, session_open, link_up, code>>

\* An intentional disconnect closes the session first, with a transaction.
ReportGoOn(t) ==
    /\ ~io_kill_switch
    /\ Goto(t, "re_recheck", IF code[t] = Requested THEN "send_lock" ELSE "re_stop")
    /\ ret' = [ret EXCEPT ![t] = "re_stop"]
    /\ UNCHANGED <<mutexVars, switches, device, session_open, link_up, code>>

\* Mutant: the switch that forbids transactions is not set.
StopOperationsForgotten(t) ==
    /\ Goto(t, "re_stop", IF Connection = "PTP_IP_USB" THEN "re_goodbye" ELSE "re_close")
    /\ UNCHANGED <<mutexVars, switches, device, session_open, link_up, ret, code>>

StopOperations(t) ==
    /\ Goto(t, "re_stop", IF Connection = "PTP_IP_USB" THEN "re_goodbye" ELSE "re_close")
    /\ operation_kill_switch' = TRUE
    /\ UNCHANGED <<mutexVars, io_kill_switch, device, session_open, link_up, ret, code>>

Goodbye(t) ==
    /\ Goto(t, "re_goodbye", "re_close")
    /\ goodbyes' = goodbyes + 1
    /\ UNCHANGED <<mutexVars, switches, closes, session_open, link_up, ret, code>>

CloseDevice(t) ==
    /\ Goto(t, "re_close", "re_kill")
    /\ closes' = closes + 1
    /\ UNCHANGED <<mutexVars, switches, goodbyes, session_open, link_up, ret, code>>

\* Mutant: the switch is not set.
KillIoForgotten(t) ==
    /\ Goto(t, "re_kill", "re_unlock")
    /\ UNCHANGED <<mutexVars, switches, device, session_open, link_up, ret, code>>

KillIo(t) ==
    /\ Goto(t, "re_kill", "re_unlock")
    /\ io_kill_switch' = TRUE
    /\ UNCHANGED <<mutexVars, operation_kill_switch, device, session_open, link_up, ret, code>>

\* Mutant: one unlock too many.
ReportUnlockTwice(t) ==
    /\ Goto(t, "re_unlock", "idle")
    /\ owner' = NoThread
    /\ depth' = depth - 2
    /\ UNCHANGED <<switches, device, session_open, link_up, ret, code>>

ReportUnlock(t) ==
    /\ Goto(t, "re_unlock", "idle")
    /\ ptp_mutex_unlock(t)
    /\ UNCHANGED <<switches, device, session_open, link_up, ret, code>>

-----------------------------------------------------------------------------

\* The camera is switched off, leaves the network or is unplugged.
LoseLink ==
    /\ link_up
    /\ link_up' = FALSE
    /\ UNCHANGED <<mutexVars, switches, device, session_open, pc, ret, code>>

Send(t) ==
    \/ SendLock(t)
    \/ SendWrite(t)
    \/ SendRead(t)
    \/ SendUnlock(t)

Report(t) ==
    \/ ReportLock(t)
    \/ ReportGiveUp(t)
    \/ ReportGoOn(t)
    \/ StopOperations(t)
    \/ Goodbye(t)
    \/ CloseDevice(t)
    \/ KillIo(t)
    \/ ReportUnlock(t)

Next ==
    \/ \E t \in Threads : CallSend(t) \/ ReportCall(t) \/ Send(t) \/ Report(t)
    \/ LoseLink

\* A thread inside a call keeps running, a read ends with the camera's answer
\* or with the socket's timeout, and a thread that waits for the lock gets it
\* if the lock keeps becoming free.  Nobody has to make a call.
Fairness ==
    \A t \in Threads :
        /\ WF_vars(Send(t) \/ Report(t))
        /\ SF_vars(SendLock(t))
        /\ SF_vars(ReportLock(t))

Spec == Init /\ [][Next]_vars /\ Fairness

-----------------------------------------------------------------------------
(* Properties.                                                             *)

\* However many threads report an error or ask for a disconnect at the same
\* time, the camera gets one goodbye packet at most and the device is closed
\* once at most (the two looks at io_kill_switch, lib/fuji.c:34-39).
TeardownOnce ==
    /\ goodbyes <= 1
    /\ closes <= 1

\* A thread that waits for a response waits on an open device that has not
\* been said goodbye to: no shutdown overtakes another thread's transaction,
\* and no command follows the goodbye packet.
NoTransactionAfterGoodbye ==
    \A t \in Threads :
        pc[t] = "send_read" => goodbyes = 0 /\ closes = 0

\* A disconnect the user asked for closes the PTP session before it closes
\* the device, as long as the camera can be reached (lib/fuji.c:41-45).
SessionClosedFirst ==
    \A t \in Threads :
        (pc[t] \in {"re_goodbye", "re_close", "re_kill"} /\ code[t] = Requested /\ link_up)
            => ~session_open

\* The lock is held by the thread that is between a lock and its unlock and
\* by nobody else, and it is free when every thread has returned: no early
\* return leaves it held.
LockDiscipline ==
    /\ \A t \in Threads : pc[t] \in InSend \cup InReport => owner = t
    /\ (\A t \in Threads : pc[t] = "idle") => owner = NoThread /\ depth = 0

\* Whoever calls ptp_report_error on a live connection comes back, and then
\* I/O is off: a shutdown never waits for ever, whatever the other threads do.
ShutdownCompletes ==
    \A t \in Threads :
        pc[t] = "re_lock" ~> (pc[t] = "idle" /\ io_kill_switch)

-----------------------------------------------------------------------------
(* The runtime implements PtpLink.                                         *)

linkPhase ==
    IF closes > 0 THEN "closed"
    ELSE IF operation_kill_switch THEN "closing" ELSE "open"

linkUsers == {t \in Threads : pc[t] = "send_read"}

Link == INSTANCE PtpLink WITH phase <- linkPhase, users <- linkUsers

\* The threads of a runtime see a link that carries one command at a time
\* until it starts to close, closes once and stays closed: the lock and the
\* kill switches of lib/fuji.c:33-62 are enough for that.
ImplementsLink == Link!LinkSpec

=============================================================================
