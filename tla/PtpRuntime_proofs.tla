-------------------------- MODULE PtpRuntime_proofs --------------------------
(***************************************************************************)
(* Proofs about PtpRuntime, for any set of threads and either connection.  *)
(*                                                                         *)
(* The invariant that carries them ties the state of the lock to the       *)
(* places of the threads (LockInv) and the progress of the shutdown to the *)
(* place of the thread that performs it (PhaseInv).  The lock makes that   *)
(* thread unique, and the two kill switches differ only while it is at     *)
(* work: that is why the second look at io_kill_switch is conclusive.      *)
(***************************************************************************)
EXTENDS PtpRuntime, TLAPS

\* t holds the lock for the whole of ptp_report_error.
Outer(t) ==
    \/ pc[t] \in InReport
    \/ pc[t] \in InSend \cup {"send_lock"} /\ ret[t] = "re_stop"

\* t holds the lock for a transaction.
Inner(t) == pc[t] \in InSend

LockInv ==
    \A t \in Threads :
        /\ owner = t <=> Outer(t) \/ Inner(t)
        /\ owner = t => depth = (IF Outer(t) THEN 1 ELSE 0) + (IF Inner(t) THEN 1 ELSE 0)

FreeInv == owner = NoThread <=> depth = 0

ClosingPlaces == {"re_goodbye", "re_close", "re_kill"}

\* t is in ptp_report_error and has not stopped the operations yet.
Before(t) ==
    \/ pc[t] = "re_stop"
    \/ pc[t] \in InSend \cup {"send_lock"} /\ ret[t] = "re_stop"

PhaseInv ==
    /\ ~operation_kill_switch => ~io_kill_switch /\ goodbyes = 0 /\ closes = 0
    /\ io_kill_switch => goodbyes <= 1 /\ closes = 1
    /\ operation_kill_switch /\ ~io_kill_switch => \E t \in Threads : pc[t] \in ClosingPlaces
    /\ \A t \in Threads :
        /\ pc[t] = "send_read" \/ Before(t) => ~operation_kill_switch
        /\ pc[t] \in ClosingPlaces => operation_kill_switch /\ ~io_kill_switch
        /\ pc[t] = "re_goodbye" => goodbyes = 0 /\ closes = 0
        /\ pc[t] = "re_close" => goodbyes <= 1 /\ closes = 0
        /\ pc[t] = "re_kill" => goodbyes <= 1 /\ closes = 1

\* t has closed the session, if the camera could be reached.
SessionDone(t) ==
    \/ pc[t] \in {"re_stop"} \cup ClosingPlaces
    \/ pc[t] = "send_unlock" /\ ret[t] = "re_stop"

SessionInv ==
    \A t \in Threads : SessionDone(t) /\ code[t] = Requested /\ link_up => ~session_open

IInv == TypeOK /\ LockInv /\ FreeInv /\ PhaseInv /\ SessionInv

-----------------------------------------------------------------------------
(* The invariant is inductive.                                             *)

\* Every step keeps the variables in their types.
LEMMA TypeStep ==
    ASSUME TypeOK, LockInv, FreeInv, [Next]_vars
    PROVE  TypeOK'
<1> USE ThreadAssumption DEF TypeOK, MutexTypeOK, Goto, mutexVars, switches, device,
    Places, InSend, InReport, Codes, CanLock, ptp_mutex_lock, ptp_mutex_unlock
<1>0. CASE UNCHANGED vars
  BY <1>0 DEF vars
<1>1. ASSUME NEW t \in Threads, CallSend(t) PROVE TypeOK'
  BY <1>1 DEF CallSend
<1>2. ASSUME NEW t \in Threads, ReportCall(t) PROVE TypeOK'
  BY <1>2 DEF ReportCall
<1>3. ASSUME NEW t \in Threads, SendLock(t) PROVE TypeOK'
  BY <1>3 DEF SendLock
<1>4. ASSUME NEW t \in Threads, SendWrite(t) PROVE TypeOK'
  BY <1>4 DEF SendWrite
<1>5. ASSUME NEW t \in Threads, SendRead(t) PROVE TypeOK'
  BY <1>5 DEF SendRead
<1>6. ASSUME NEW t \in Threads, SendUnlock(t) PROVE TypeOK'
  BY <1>6 DEF SendUnlock, LockInv, FreeInv, Outer, Inner
<1>7. ASSUME NEW t \in Threads, ReportLock(t) PROVE TypeOK'
  BY <1>7 DEF ReportLock
<1>8. ASSUME NEW t \in Threads, ReportGiveUp(t) PROVE TypeOK'
  BY <1>8 DEF ReportGiveUp, LockInv, FreeInv, Outer, Inner
<1>9. ASSUME NEW t \in Threads, ReportGoOn(t) PROVE TypeOK'
  BY <1>9 DEF ReportGoOn
<1>10. ASSUME NEW t \in Threads, StopOperations(t) PROVE TypeOK'
  BY <1>10 DEF StopOperations
<1>11. ASSUME NEW t \in Threads, Goodbye(t) PROVE TypeOK'
  BY <1>11 DEF Goodbye
<1>12. ASSUME NEW t \in Threads, CloseDevice(t) PROVE TypeOK'
  BY <1>12 DEF CloseDevice
<1>13. ASSUME NEW t \in Threads, KillIo(t) PROVE TypeOK'
  BY <1>13 DEF KillIo
<1>14. ASSUME NEW t \in Threads, ReportUnlock(t) PROVE TypeOK'
  BY <1>14 DEF ReportUnlock, LockInv, FreeInv, Outer, Inner
<1>15. CASE LoseLink
  BY <1>15 DEF LoseLink
<1> QED
  BY <1>0, <1>1, <1>2, <1>3, <1>4, <1>5, <1>6, <1>7, <1>8, <1>9, <1>10, <1>11, <1>12, <1>13, <1>14, <1>15 DEF Next, Send, Report

\* Every step keeps the lock with the thread whose place says so.
LEMMA LockStep ==
    ASSUME TypeOK, LockInv, FreeInv, [Next]_vars
    PROVE  (LockInv /\ FreeInv)'
<1> USE ThreadAssumption DEF TypeOK, MutexTypeOK, LockInv, FreeInv, Outer, Inner, Goto,
    mutexVars, switches, device, Places, InSend, InReport,
    CanLock, ptp_mutex_lock, ptp_mutex_unlock
<1>0. CASE UNCHANGED vars
  BY <1>0 DEF vars
<1>1. ASSUME NEW t \in Threads, CallSend(t) PROVE (LockInv /\ FreeInv)'
  BY <1>1 DEF CallSend
<1>2. ASSUME NEW t \in Threads, ReportCall(t) PROVE (LockInv /\ FreeInv)'
  BY <1>2 DEF ReportCall
<1>3. ASSUME NEW t \in Threads, SendLock(t) PROVE (LockInv /\ FreeInv)'
  BY <1>3 DEF SendLock
<1>4. ASSUME NEW t \in Threads, SendWrite(t) PROVE (LockInv /\ FreeInv)'
  BY <1>4 DEF SendWrite
<1>5. ASSUME NEW t \in Threads, SendRead(t) PROVE (LockInv /\ FreeInv)'
  BY <1>5 DEF SendRead
<1>6. ASSUME NEW t \in Threads, SendUnlock(t) PROVE (LockInv /\ FreeInv)'
  BY <1>6 DEF SendUnlock
<1>7. ASSUME NEW t \in Threads, ReportLock(t) PROVE (LockInv /\ FreeInv)'
  BY <1>7 DEF ReportLock
<1>8. ASSUME NEW t \in Threads, ReportGiveUp(t) PROVE (LockInv /\ FreeInv)'
  BY <1>8 DEF ReportGiveUp
<1>9. ASSUME NEW t \in Threads, ReportGoOn(t) PROVE (LockInv /\ FreeInv)'
  BY <1>9 DEF ReportGoOn
<1>10. ASSUME NEW t \in Threads, StopOperations(t) PROVE (LockInv /\ FreeInv)'
  BY <1>10 DEF StopOperations
<1>11. ASSUME NEW t \in Threads, Goodbye(t) PROVE (LockInv /\ FreeInv)'
  BY <1>11 DEF Goodbye
<1>12. ASSUME NEW t \in Threads, CloseDevice(t) PROVE (LockInv /\ FreeInv)'
  BY <1>12 DEF CloseDevice
<1>13. ASSUME NEW t \in Threads, KillIo(t) PROVE (LockInv /\ FreeInv)'
  BY <1>13 DEF KillIo
<1>14. ASSUME NEW t \in Threads, ReportUnlock(t) PROVE (LockInv /\ FreeInv)'
  BY <1>14 DEF ReportUnlock
<1>15. CASE LoseLink
  BY <1>15 DEF LoseLink
<1> QED
  BY <1>0, <1>1, <1>2, <1>3, <1>4, <1>5, <1>6, <1>7, <1>8, <1>9, <1>10, <1>11, <1>12, <1>13, <1>14, <1>15 DEF Next, Send, Report

\* Every step keeps the shutdown consistent with the place of its thread: the
\* lock makes every other thread wait outside.
LEMMA PhaseStep ==
    ASSUME TypeOK, LockInv, FreeInv, PhaseInv, [Next]_vars
    PROVE  PhaseInv'
<1> USE ThreadAssumption DEF TypeOK, MutexTypeOK, LockInv, FreeInv, Outer, Inner, PhaseInv,
    ClosingPlaces, Before, Goto, mutexVars, switches, device,
    Places, InSend, InReport, CanLock, ptp_mutex_lock, ptp_mutex_unlock
<1>0. CASE UNCHANGED vars
  BY <1>0 DEF vars
<1>1. ASSUME NEW t \in Threads, CallSend(t) PROVE PhaseInv'
  BY <1>1 DEF CallSend
<1>2. ASSUME NEW t \in Threads, ReportCall(t) PROVE PhaseInv'
  BY <1>2 DEF ReportCall
<1>3. ASSUME NEW t \in Threads, SendLock(t) PROVE PhaseInv'
  BY <1>3 DEF SendLock
<1>4. ASSUME NEW t \in Threads, SendWrite(t) PROVE PhaseInv'
  BY <1>4 DEF SendWrite, CanWrite
<1>5. ASSUME NEW t \in Threads, SendRead(t) PROVE PhaseInv'
  BY <1>5 DEF SendRead
<1>6. ASSUME NEW t \in Threads, SendUnlock(t) PROVE PhaseInv'
  BY <1>6 DEF SendUnlock
<1>7. ASSUME NEW t \in Threads, ReportLock(t) PROVE PhaseInv'
  BY <1>7 DEF ReportLock
<1>8. ASSUME NEW t \in Threads, ReportGiveUp(t) PROVE PhaseInv'
  BY <1>8 DEF ReportGiveUp
<1>9. ASSUME NEW t \in Threads, ReportGoOn(t) PROVE PhaseInv'
  BY <1>9 DEF ReportGoOn
<1>10. ASSUME NEW t \in Threads, StopOperations(t) PROVE PhaseInv'
  BY <1>10 DEF StopOperations
<1>11. ASSUME NEW t \in Threads, Goodbye(t) PROVE PhaseInv'
  BY <1>11 DEF Goodbye
<1>12. ASSUME NEW t \in Threads, CloseDevice(t) PROVE PhaseInv'
  BY <1>12 DEF CloseDevice
<1>13. ASSUME NEW t \in Threads, KillIo(t) PROVE PhaseInv'
  BY <1>13 DEF KillIo
<1>14. ASSUME NEW t \in Threads, ReportUnlock(t) PROVE PhaseInv'
  BY <1>14 DEF ReportUnlock
<1>15. CASE LoseLink
  BY <1>15 DEF LoseLink
<1> QED
  BY <1>0, <1>1, <1>2, <1>3, <1>4, <1>5, <1>6, <1>7, <1>8, <1>9, <1>10, <1>11, <1>12, <1>13, <1>14, <1>15 DEF Next, Send, Report

\* Every step keeps the session closed from the transaction that closes it on.
LEMMA SessionStep ==
    ASSUME TypeOK, PhaseInv, SessionInv, [Next]_vars
    PROVE  SessionInv'
<1> USE ThreadAssumption DEF TypeOK, PhaseInv, SessionInv, SessionDone, ClosingPlaces,
    Before, Goto, switches, device, Places, InSend, InReport
<1>0. CASE UNCHANGED vars
  BY <1>0 DEF vars
<1>1. ASSUME NEW t \in Threads, CallSend(t) PROVE SessionInv'
  BY <1>1 DEF CallSend
<1>2. ASSUME NEW t \in Threads, ReportCall(t) PROVE SessionInv'
  BY <1>2 DEF ReportCall
<1>3. ASSUME NEW t \in Threads, SendLock(t) PROVE SessionInv'
  BY <1>3 DEF SendLock
<1>4. ASSUME NEW t \in Threads, SendWrite(t) PROVE SessionInv'
  BY <1>4 DEF SendWrite, CanWrite
<1>5. ASSUME NEW t \in Threads, SendRead(t) PROVE SessionInv'
  BY <1>5 DEF SendRead
<1>6. ASSUME NEW t \in Threads, SendUnlock(t) PROVE SessionInv'
  BY <1>6 DEF SendUnlock
<1>7. ASSUME NEW t \in Threads, ReportLock(t) PROVE SessionInv'
  BY <1>7 DEF ReportLock
<1>8. ASSUME NEW t \in Threads, ReportGiveUp(t) PROVE SessionInv'
  BY <1>8 DEF ReportGiveUp
<1>9. ASSUME NEW t \in Threads, ReportGoOn(t) PROVE SessionInv'
  BY <1>9 DEF ReportGoOn
<1>10. ASSUME NEW t \in Threads, StopOperations(t) PROVE SessionInv'
  BY <1>10 DEF StopOperations
<1>11. ASSUME NEW t \in Threads, Goodbye(t) PROVE SessionInv'
  BY <1>11 DEF Goodbye
<1>12. ASSUME NEW t \in Threads, CloseDevice(t) PROVE SessionInv'
  BY <1>12 DEF CloseDevice
<1>13. ASSUME NEW t \in Threads, KillIo(t) PROVE SessionInv'
  BY <1>13 DEF KillIo
<1>14. ASSUME NEW t \in Threads, ReportUnlock(t) PROVE SessionInv'
  BY <1>14 DEF ReportUnlock
<1>15. CASE LoseLink
  BY <1>15 DEF LoseLink
<1> QED
  BY <1>0, <1>1, <1>2, <1>3, <1>4, <1>5, <1>6, <1>7, <1>8, <1>9, <1>10, <1>11, <1>12, <1>13, <1>14, <1>15 DEF Next, Send, Report

-----------------------------------------------------------------------------

LEMMA Initially == Init => IInv
<1> SUFFICES ASSUME Init PROVE IInv
  OBVIOUS
<1> USE ThreadAssumption DEF Init, MutexInit
<1>1. TypeOK
  BY DEF TypeOK, MutexTypeOK, Places, Codes
<1>2. LockInv /\ FreeInv
  BY DEF LockInv, FreeInv, Outer, Inner, InSend, InReport
<1>3. PhaseInv
  BY DEF PhaseInv, ClosingPlaces, Before, InSend
<1>4. SessionInv
  BY DEF SessionInv, SessionDone, ClosingPlaces
<1> QED
  BY <1>1, <1>2, <1>3, <1>4 DEF IInv

LEMMA Invariance == Spec => []IInv
<1>1. IInv /\ [Next]_vars => IInv'
  BY TypeStep, LockStep, PhaseStep, SessionStep DEF IInv
<1> QED
  BY Initially, <1>1, PTL DEF Spec

\* The variables of the runtime keep their types.
THEOREM TypeCorrect == Spec => []TypeOK
<1>1. IInv => TypeOK
  BY DEF IInv
<1> QED
  BY Invariance, <1>1, PTL

\* ptp_report_error says goodbye once and closes the device once, whatever
\* number of threads call it and wherever they overtake each other.
THEOREM OneTeardown == Spec => []TeardownOnce
<1>1. IInv => TeardownOnce
  <2> SUFFICES ASSUME IInv PROVE TeardownOnce
    OBVIOUS
  <2>1. CASE ~operation_kill_switch \/ io_kill_switch
    BY <2>1 DEF IInv, TypeOK, PhaseInv, TeardownOnce
  <2>2. CASE operation_kill_switch /\ ~io_kill_switch
    <3>1. PICK t \in Threads : pc[t] \in ClosingPlaces
      BY <2>2 DEF IInv, PhaseInv
    <3> QED
      BY <3>1 DEF IInv, PhaseInv, ClosingPlaces, TeardownOnce
  <2> QED
    BY <2>1, <2>2
<1> QED
  BY Invariance, <1>1, PTL

\* No thread is ever waiting for a response on a device that another thread
\* has said goodbye to or closed.
THEOREM NoLateTransaction == Spec => []NoTransactionAfterGoodbye
<1>1. IInv => NoTransactionAfterGoodbye
  BY DEF IInv, PhaseInv, NoTransactionAfterGoodbye
<1> QED
  BY Invariance, <1>1, PTL

\* A disconnect the user asked for ends the PTP session before it closes the
\* device, if the camera can be reached.
THEOREM SessionFirst == Spec => []SessionClosedFirst
<1>1. IInv => SessionClosedFirst
  BY DEF IInv, SessionInv, SessionDone, ClosingPlaces, SessionClosedFirst
<1> QED
  BY Invariance, <1>1, PTL

\* The lock is with the thread that is between its lock and its unlock, and
\* free when every thread has returned.
THEOREM LockIsDisciplined == Spec => []LockDiscipline
<1>1. IInv => LockDiscipline
  <2> SUFFICES ASSUME IInv PROVE LockDiscipline
    OBVIOUS
  <2>1. \A t \in Threads : pc[t] \in InSend \cup InReport => owner = t
    BY DEF IInv, LockInv, Outer, Inner
  <2>2. (\A t \in Threads : pc[t] = "idle") => owner = NoThread
    BY DEF IInv, TypeOK, MutexTypeOK, LockInv, Outer, Inner, InSend, InReport
  <2> QED
    BY <2>1, <2>2 DEF IInv, FreeInv, LockDiscipline
<1> QED
  BY Invariance, <1>1, PTL

-----------------------------------------------------------------------------
(* The runtime implements PtpLink.                                         *)

LEMMA LinkInitially == Init => Link!LinkInit
BY DEF Init, Link!LinkInit, linkPhase, linkUsers

\* The lock leaves room for one thread on the wire.
LEMMA OneUser ==
    ASSUME IInv, NEW t \in Threads, owner = t
    PROVE  linkUsers \subseteq {t}
BY DEF IInv, LockInv, Inner, InSend, linkUsers

\* Every step of the runtime is a step of the link or leaves it unchanged.
LEMMA LinkStep ==
    ASSUME IInv, [Next]_vars
    PROVE  [Link!LinkNext]_(Link!linkVars)
<1> USE DEF Link!linkVars, linkPhase, linkUsers
<1> DEFINE Unchanged == UNCHANGED <<linkPhase, linkUsers>>
<1>0. CASE UNCHANGED vars
  BY <1>0 DEF vars
<1>1. CASE LoseLink
  BY <1>1 DEF LoseLink, device, switches
<1>2. ASSUME NEW t \in Threads, SendWrite(t) PROVE Link!Begin(t) \/ Unchanged
  <2>1. owner = t
    BY <1>2 DEF IInv, LockInv, Inner, InSend, SendWrite, Goto
  <2>2. linkUsers = {}
    BY <1>2, <2>1, OneUser DEF SendWrite, Goto
  <2>3. CASE CanWrite
    <3>1. linkPhase = "open"
      BY <2>3 DEF CanWrite, IInv, PhaseInv
    <3>2. linkUsers' = {t} /\ UNCHANGED linkPhase
      BY <1>2, <2>2, <2>3 DEF SendWrite, Goto, device, switches, IInv, TypeOK
    <3> QED
      BY <2>2, <3>1, <3>2 DEF Link!Begin
  <2>4. CASE ~CanWrite
    BY <1>2, <2>4 DEF SendWrite, Goto, device, switches, IInv, TypeOK
  <2> QED
    BY <2>3, <2>4
<1>3. ASSUME NEW t \in Threads, SendRead(t) PROVE Link!End(t)
  <2>1. owner = t
    BY <1>3 DEF IInv, LockInv, Inner, InSend, SendRead, Goto
  <2>2. linkUsers = {t}
    BY <1>3, <2>1, OneUser DEF SendRead, Goto
  <2>3. linkUsers' = {} /\ UNCHANGED linkPhase
    BY <1>3, <2>2 DEF SendRead, Goto, device, switches, IInv, TypeOK
  <2> QED
    BY <2>2, <2>3 DEF Link!End
<1>4. ASSUME NEW t \in Threads, StopOperations(t) PROVE Link!StartClosing
  <2>1. owner = t
    BY <1>4 DEF IInv, LockInv, Outer, InReport, StopOperations, Goto
  <2>2. linkUsers = {}
    BY <1>4, <2>1, OneUser DEF StopOperations, Goto
  <2>3. linkPhase = "open"
    BY <1>4 DEF StopOperations, Goto, IInv, PhaseInv, Before
  <2>4. linkUsers' = {}
    BY <1>4, <2>2 DEF StopOperations, Goto, IInv, TypeOK
  <2>5. linkPhase' = "closing"
    BY <1>4, <2>3 DEF StopOperations, device, IInv, PhaseInv, Before, Goto
  <2> QED
    BY <2>2, <2>3, <2>4, <2>5 DEF Link!StartClosing
<1>5. ASSUME NEW t \in Threads, CloseDevice(t) PROVE Link!Close
  <2>1. linkPhase = "closing" /\ linkPhase' = "closed"
    BY <1>5 DEF CloseDevice, Goto, switches, IInv, PhaseInv, ClosingPlaces
  <2>2. UNCHANGED linkUsers
    BY <1>5 DEF CloseDevice, Goto, IInv, TypeOK
  <2> QED
    BY <2>1, <2>2 DEF Link!Close
<1>6. ASSUME NEW t \in Threads,
             \/ CallSend(t) \/ ReportCall(t)
             \/ SendLock(t) \/ SendUnlock(t)
             \/ ReportLock(t) \/ ReportGiveUp(t) \/ ReportGoOn(t)
             \/ Goodbye(t) \/ KillIo(t) \/ ReportUnlock(t)
      PROVE  Unchanged
  BY <1>6 DEF CallSend, ReportCall, SendLock, SendUnlock, ReportLock, ReportGiveUp,
     ReportGoOn, Goodbye, KillIo, ReportUnlock, Goto, switches, device, IInv, TypeOK
<1> QED
  BY <1>0, <1>1, <1>2, <1>3, <1>4, <1>5, <1>6 DEF Next, Send, Report, Link!LinkNext

\* For the threads that share it, the runtime is a link that carries one
\* command at a time, closes when none is on the wire and closes for good.
THEOREM Refinement == Spec => ImplementsLink
BY Invariance, LinkInitially, LinkStep, PTL DEF Spec, ImplementsLink, Link!LinkSpec

=============================================================================
