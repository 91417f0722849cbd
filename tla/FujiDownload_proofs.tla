------------------------ MODULE FujiDownload_proofs ------------------------
(***************************************************************************)
(* Proofs about FujiDownload, for any set of threads, any file size and    *)
(* any size of chunks.                                                     *)
(*                                                                         *)
(* LockInv says that a thread holds the lock exactly while it is in a      *)
(* file; everything else follows from the thread's own progress (DataInv), *)
(* from the fact that only the holder of the lock replaces current_job     *)
(* while no live image is asked for (CancelInv), and from the fact that    *)
(* correct sizes, once on, have somebody who will turn them off or who has *)
(* reported an error (SizeInv).                                            *)
(***************************************************************************)
EXTENDS FujiDownload, TLAPS

\* A thread has one kind of job, and what it returned once it is out of it.
KindInv ==
    /\ \A t \in LiveThreads : pc[t] \in {"idle", "live", "finish", "done"}
    /\ \A t \in FileThreads : pc[t] # "live"
    /\ \A t \in Threads : result[t] # "none" => pc[t] \in {"finish", "done"}

LockInv ==
    /\ \A t \in Threads : pc[t] \in InFile <=> owner = t
    /\ depth = IF owner = NoThread THEN 0 ELSE 1

IInv == TypeOK /\ KindInv /\ LockInv

\* A thread of a file that is asked for or being transferred.
Pending(t) == pc[t] \in {"lock"} \cup InFile

SizeInv ==
    correct_size =>
        /\ Transport = "WIRELESS_COMM"
        /\ \E t \in FileThreads : Pending(t) \/ result[t] \notin {"none", OK}

\* Except over WIRELESS_COMM.
DataInv ==
    \A t \in FileThreads :
        /\ pc[t] \notin {"events", "reset"}
        /\ pc[t] \in {"idle", "set_size", "lock", "get_info"} => read[t] = 0
        /\ pc[t] \in {"check", "partial"} => size[t] = FullSize /\ read[t] < FullSize
        /\ pc[t] = "end" /\ rc[t] = OK => read[t] = FullSize
        /\ result[t] = OK => read[t] = FullSize
        /\ read[t] <= FullSize

\* While no live image is asked for.
CancelInv ==
    \A t \in FileThreads :
        /\ pc[t] \in {"check", "partial"} => current_job = t
        /\ pc[t] \in {"idle", "events", "set_size", "lock", "get_info", "partial"} => late[t] = 0
        /\ late[t] > 0 => t \in cancelled
        /\ late[t] <= 1

-----------------------------------------------------------------------------
(* Types, jobs and the lock.                                               *)

LEMMA InitIInv == Init => IInv
<1> SUFFICES ASSUME Init PROVE IInv
  OBVIOUS
<1>1. TypeOK
  <2>1. MutexTypeOK
    BY DEF Init, MutexInit, MutexTypeOK
  <2>2. pc \in [Threads -> Places] /\ rc \in [Threads -> Returns] /\ result \in [Threads -> Returns \cup {"none"}]
    BY DEF Init, Places, Returns, OK
  <2>3. size \in [Threads -> Nat] /\ read \in [Threads -> Nat] /\ late \in [Threads -> Nat]
    BY DEF Init
  <2> QED
    BY <2>1, <2>2, <2>3 DEF Init, TypeOK
<1>2. KindInv
  BY DownloadAssumption DEF Init, KindInv
<1>3. LockInv
  BY ThreadAssumption DEF Init, MutexInit, LockInv, InFile
<1> QED
  BY <1>1, <1>2, <1>3 DEF IInv

\* Every step keeps the variables in their types.
LEMMA TypeStep ==
    ASSUME IInv, [Next]_vars
    PROVE  TypeOK'
<1> USE ThreadAssumption, DownloadAssumption DEF IInv, TypeOK, MutexTypeOK, KindInv, LockInv, Goto,
    Transaction, Answer, Succeeds, HandOver, LowerOf, CanLock, ptp_mutex_lock, ptp_mutex_unlock, mutexVars,
    sharedVars, localVars, Places, InFile, Returns, OK, CHECK_CODE, IO_ERR, RUNTIME_ERR, CANCELED, ReportedSize
<1>0. CASE UNCHANGED vars
  BY <1>0 DEF vars, sharedVars, localVars
<1>1. ASSUME NEW t \in Threads, Request(t) PROVE TypeOK'
  BY <1>1 DEF Request
<1>2. ASSUME NEW t \in Threads, EventsBefore(t) PROVE TypeOK'
  BY <1>2 DEF EventsBefore
<1>3. ASSUME NEW t \in Threads, SetSize(t) PROVE TypeOK'
  <2>1. rc' \in [Threads -> Returns]
    <3>1. PICK c \in Returns : UNCHANGED rc \/ rc' = [rc EXCEPT ![t] = c]
      BY <1>3 DEF SetSize
    <3> QED
      BY <3>1
  <2>2. correct_size' \in BOOLEAN
    BY <1>3 DEF SetSize
  <2> QED
    BY <1>3, <2>1, <2>2 DEF SetSize
<1>4. ASSUME NEW t \in Threads, TakeLock(t) PROVE TypeOK'
  BY <1>4 DEF TakeLock
<1>5. ASSUME NEW t \in Threads, GetInfo(t) PROVE TypeOK'
  BY <1>5 DEF GetInfo
<1>6. ASSUME NEW t \in Threads, CheckCancel(t) PROVE TypeOK'
  BY <1>6 DEF CheckCancel
<1>7. ASSUME NEW t \in Threads, Chunk(t) PROVE TypeOK'
  BY <1>7 DEF Chunk
<1>8. ASSUME NEW t \in Threads, ChunkFails(t) PROVE TypeOK'
  BY <1>8 DEF ChunkFails
<1>9. ASSUME NEW t \in Threads, ChunkBreaks(t) PROVE TypeOK'
  BY <1>9 DEF ChunkBreaks
<1>10. ASSUME NEW t \in Threads, End(t) PROVE TypeOK'
  BY <1>10 DEF End
<1>11. ASSUME NEW t \in Threads, EventsAfter(t) PROVE TypeOK'
  BY <1>11 DEF EventsAfter
<1>12. ASSUME NEW t \in Threads, ResetSize(t) PROVE TypeOK'
  <2>1. PICK c \in Returns : rc' = [rc EXCEPT ![t] = c] /\ result' = [result EXCEPT ![t] = c]
    BY <1>12 DEF ResetSize
  <2>2. correct_size' \in BOOLEAN
    BY <1>12 DEF ResetSize
  <2>3. MutexTypeOK'
    BY <1>12 DEF ResetSize
  <2>4. /\ pc' = [pc EXCEPT ![t] = "finish"]
        /\ UNCHANGED <<dead, current_job, cancelled, size, read, late>>
    BY <1>12 DEF ResetSize
  <2>5. rc' \in [Threads -> Returns] /\ result' \in [Threads -> Returns \cup {"none"}]
    BY <2>1
  <2> QED
    BY <2>2, <2>3, <2>4, <2>5
<1>13. ASSUME NEW t \in Threads, RequestLive(t) PROVE TypeOK'
  BY <1>13 DEF RequestLive
<1>14. ASSUME NEW t \in Threads, LiveChunk(t) PROVE TypeOK'
  BY <1>14 DEF LiveChunk
<1>15. ASSUME NEW t \in Threads, LiveFails(t) PROVE TypeOK'
  BY <1>15 DEF LiveFails
<1>16. ASSUME NEW t \in Threads, Finish(t) PROVE TypeOK'
  BY <1>16 DEF Finish
<1>17. ASSUME NEW t \in Threads, Cancel(t) PROVE TypeOK'
  BY <1>17 DEF Cancel
<1>18. CASE LoseLink
  BY <1>18 DEF LoseLink
<1> QED
  BY <1>0, <1>1, <1>2, <1>3, <1>4, <1>5, <1>6, <1>7, <1>8, <1>9, <1>10, <1>11, <1>12, <1>13, <1>14, <1>15, <1>16, <1>17, <1>18 DEF Next, File, Live, AllDone

\* Every step leaves a thread with its kind of job.
LEMMA KindStep ==
    ASSUME IInv, [Next]_vars
    PROVE  KindInv'
<1> USE DownloadAssumption DEF IInv, TypeOK, KindInv, Goto, sharedVars, localVars,
    Places, InFile, HandOver
<1>0. CASE UNCHANGED vars
  BY <1>0 DEF vars, sharedVars, localVars
<1>1. ASSUME NEW t \in Threads, Request(t) PROVE KindInv'
  BY <1>1 DEF Request
<1>2. ASSUME NEW t \in Threads, EventsBefore(t) PROVE KindInv'
  BY <1>2 DEF EventsBefore
<1>3. ASSUME NEW t \in Threads, SetSize(t) PROVE KindInv'
  BY <1>3 DEF SetSize
<1>4. ASSUME NEW t \in Threads, TakeLock(t) PROVE KindInv'
  BY <1>4 DEF TakeLock
<1>5. ASSUME NEW t \in Threads, GetInfo(t) PROVE KindInv'
  BY <1>5 DEF GetInfo
<1>6. ASSUME NEW t \in Threads, CheckCancel(t) PROVE KindInv'
  BY <1>6 DEF CheckCancel
<1>7. ASSUME NEW t \in Threads, Chunk(t) PROVE KindInv'
  BY <1>7 DEF Chunk
<1>8. ASSUME NEW t \in Threads, ChunkFails(t) PROVE KindInv'
  BY <1>8 DEF ChunkFails
<1>9. ASSUME NEW t \in Threads, ChunkBreaks(t) PROVE KindInv'
  BY <1>9 DEF ChunkBreaks
<1>10. ASSUME NEW t \in Threads, End(t) PROVE KindInv'
  BY <1>10 DEF End
<1>11. ASSUME NEW t \in Threads, EventsAfter(t) PROVE KindInv'
  BY <1>11 DEF EventsAfter
<1>12. ASSUME NEW t \in Threads, ResetSize(t) PROVE KindInv'
  BY <1>12 DEF ResetSize
<1>13. ASSUME NEW t \in Threads, RequestLive(t) PROVE KindInv'
  BY <1>13 DEF RequestLive
<1>14. ASSUME NEW t \in Threads, LiveChunk(t) PROVE KindInv'
  BY <1>14 DEF LiveChunk
<1>15. ASSUME NEW t \in Threads, LiveFails(t) PROVE KindInv'
  BY <1>15 DEF LiveFails
<1>16. ASSUME NEW t \in Threads, Finish(t) PROVE KindInv'
  BY <1>16 DEF Finish
<1>17. ASSUME NEW t \in Threads, Cancel(t) PROVE KindInv'
  BY <1>17 DEF Cancel
<1>18. CASE LoseLink
  BY <1>18 DEF LoseLink
<1> QED
  BY <1>0, <1>1, <1>2, <1>3, <1>4, <1>5, <1>6, <1>7, <1>8, <1>9, <1>10, <1>11, <1>12, <1>13, <1>14, <1>15, <1>16, <1>17, <1>18 DEF Next, File, Live, AllDone

\* Every step leaves the lock with the thread that is in a file.
LEMMA LockStep ==
    ASSUME IInv, [Next]_vars
    PROVE  LockInv'
<1> USE ThreadAssumption, DownloadAssumption DEF IInv, TypeOK, MutexTypeOK, KindInv, LockInv, Goto,
    Transaction, CanLock, ptp_mutex_lock, ptp_mutex_unlock, mutexVars, localVars, Places, InFile
<1>0. CASE UNCHANGED vars
  BY <1>0 DEF vars, sharedVars, localVars
<1>1. ASSUME NEW t \in Threads, Request(t) PROVE LockInv'
  BY <1>1 DEF Request
<1>2. ASSUME NEW t \in Threads, EventsBefore(t) PROVE LockInv'
  BY <1>2 DEF EventsBefore
<1>3. ASSUME NEW t \in Threads, SetSize(t) PROVE LockInv'
  BY <1>3 DEF SetSize
<1>4. ASSUME NEW t \in Threads, TakeLock(t) PROVE LockInv'
  BY <1>4 DEF TakeLock
<1>5. ASSUME NEW t \in Threads, GetInfo(t) PROVE LockInv'
  BY <1>5 DEF GetInfo
<1>6. ASSUME NEW t \in Threads, CheckCancel(t) PROVE LockInv'
  BY <1>6 DEF CheckCancel
<1>7. ASSUME NEW t \in Threads, Chunk(t) PROVE LockInv'
  BY <1>7 DEF Chunk
<1>8. ASSUME NEW t \in Threads, ChunkFails(t) PROVE LockInv'
  BY <1>8 DEF ChunkFails
<1>9. ASSUME NEW t \in Threads, ChunkBreaks(t) PROVE LockInv'
  BY <1>9 DEF ChunkBreaks
<1>10. ASSUME NEW t \in Threads, End(t) PROVE LockInv'
  BY <1>10 DEF End
<1>11. ASSUME NEW t \in Threads, EventsAfter(t) PROVE LockInv'
  BY <1>11 DEF EventsAfter
<1>12. ASSUME NEW t \in Threads, ResetSize(t) PROVE LockInv'
  BY <1>12 DEF ResetSize
<1>13. ASSUME NEW t \in Threads, RequestLive(t) PROVE LockInv'
  BY <1>13 DEF RequestLive
<1>14. ASSUME NEW t \in Threads, LiveChunk(t) PROVE LockInv'
  BY <1>14 DEF LiveChunk
<1>15. ASSUME NEW t \in Threads, LiveFails(t) PROVE LockInv'
  BY <1>15 DEF LiveFails
<1>16. ASSUME NEW t \in Threads, Finish(t) PROVE LockInv'
  BY <1>16 DEF Finish
<1>17. ASSUME NEW t \in Threads, Cancel(t) PROVE LockInv'
  BY <1>17 DEF Cancel
<1>18. CASE LoseLink
  BY <1>18 DEF LoseLink
<1> QED
  BY <1>0, <1>1, <1>2, <1>3, <1>4, <1>5, <1>6, <1>7, <1>8, <1>9, <1>10, <1>11, <1>12, <1>13, <1>14, <1>15, <1>16, <1>17, <1>18 DEF Next, File, Live, AllDone

\* The three facts together are inductive.
LEMMA Invariance == Spec => []IInv
<1>1. IInv /\ [Next]_vars => IInv'
  BY TypeStep, KindStep, LockStep DEF IInv
<1> QED
  BY InitIInv, <1>1, PTL DEF Spec

\* Every variable of the downloads keeps its type: no thread unlocks a lock it
\* does not hold.
THEOREM TypeCorrect == Spec => []TypeOK
<1>1. IInv => TypeOK
  BY DEF IInv
<1> QED
  BY Invariance, <1>1, PTL

\* The files of two threads never alternate on the wire, and the lock is free
\* when every job has ended.
THEOREM FilesTakeTurns == Spec => []OneFileAtATime
<1>1. IInv => OneFileAtATime
  <2> SUFFICES ASSUME IInv PROVE OneFileAtATime
    OBVIOUS
  <2>1. \A t \in FileThreads : pc[t] \in InFile => owner = t
    BY DownloadAssumption DEF IInv, LockInv
  <2>2. (\A t \in Threads : pc[t] = "done") => owner = NoThread
    BY DEF IInv, LockInv, InFile, TypeOK, MutexTypeOK
  <2> QED
    BY <2>1, <2>2 DEF OneFileAtATime
<1> QED
  BY Invariance, <1>1, PTL

-----------------------------------------------------------------------------
(* Correct sizes are turned off again.                                     *)

\* Correct sizes that are on have a download that will turn them off, or one
\* that has failed.
LEMMA SizeStep ==
    ASSUME IInv, SizeInv, [Next]_vars
    PROVE  SizeInv'
<1> USE DownloadAssumption DEF IInv, TypeOK, KindInv, Goto, mutexVars, sharedVars, localVars, Transaction,
    Answer, Succeeds, Places, InFile, OK, CHECK_CODE, IO_ERR, RUNTIME_ERR, CANCELED,
    SizeInv, Pending
<1>0. CASE UNCHANGED vars
  BY <1>0 DEF vars, sharedVars, localVars
<1>1. ASSUME NEW t \in Threads, Request(t) PROVE SizeInv'
  BY <1>1 DEF Request
<1>2. ASSUME NEW t \in Threads, EventsBefore(t) PROVE SizeInv'
  BY <1>2 DEF EventsBefore
<1>3. ASSUME NEW t \in Threads, SetSize(t) PROVE SizeInv'
  BY <1>3 DEF SetSize
<1>4. ASSUME NEW t \in Threads, TakeLock(t) PROVE SizeInv'
  BY <1>4 DEF TakeLock
<1>5. ASSUME NEW t \in Threads, GetInfo(t) PROVE SizeInv'
  BY <1>5 DEF GetInfo
<1>6. ASSUME NEW t \in Threads, CheckCancel(t) PROVE SizeInv'
  BY <1>6 DEF CheckCancel
<1>7. ASSUME NEW t \in Threads, Chunk(t) PROVE SizeInv'
  BY <1>7 DEF Chunk
<1>8. ASSUME NEW t \in Threads, ChunkFails(t) PROVE SizeInv'
  BY <1>8 DEF ChunkFails
<1>9. ASSUME NEW t \in Threads, ChunkBreaks(t) PROVE SizeInv'
  BY <1>9 DEF ChunkBreaks
<1>10. ASSUME NEW t \in Threads, End(t) PROVE SizeInv'
  BY <1>10 DEF End
<1>11. ASSUME NEW t \in Threads, EventsAfter(t) PROVE SizeInv'
  BY <1>11 DEF EventsAfter
<1>12. ASSUME NEW t \in Threads, ResetSize(t) PROVE SizeInv'
  BY <1>12 DEF ResetSize
<1>13. ASSUME NEW t \in Threads, RequestLive(t) PROVE SizeInv'
  BY <1>13 DEF RequestLive
<1>14. ASSUME NEW t \in Threads, LiveChunk(t) PROVE SizeInv'
  BY <1>14 DEF LiveChunk
<1>15. ASSUME NEW t \in Threads, LiveFails(t) PROVE SizeInv'
  BY <1>15 DEF LiveFails
<1>16. ASSUME NEW t \in Threads, Finish(t) PROVE SizeInv'
  BY <1>16 DEF Finish
<1>17. ASSUME NEW t \in Threads, Cancel(t) PROVE SizeInv'
  BY <1>17 DEF Cancel
<1>18. CASE LoseLink
  BY <1>18 DEF LoseLink
<1> QED
  BY <1>0, <1>1, <1>2, <1>3, <1>4, <1>5, <1>6, <1>7, <1>8, <1>9, <1>10, <1>11, <1>12, <1>13, <1>14, <1>15, <1>16, <1>17, <1>18 DEF Next, File, Live, AllDone

\* Downloads that have all succeeded leave the camera on placeholder sizes,
\* for any number of downloads and whatever the camera rejects.
THEOREM SizesAreRestored == Spec => []SizesRestored
<1>1. Init => SizeInv
  BY DEF Init, SizeInv
<1>2. IInv /\ SizeInv /\ [Next]_vars => SizeInv'
  BY SizeStep
<1>3. IInv /\ SizeInv => SizesRestored
  BY DownloadAssumption DEF IInv, KindInv, SizeInv, SizesRestored, Pending, InFile, OK
<1> QED
  BY Invariance, <1>1, <1>2, <1>3, PTL DEF Spec

\* Sizes that were granted are turned off only by a download that returns.
LEMMA HoldStep ==
    ASSUME IInv, GrantedSizesHold, [Next]_vars
    PROVE  GrantedSizesHold'
<1> USE DownloadAssumption DEF IInv, TypeOK, KindInv, Goto, mutexVars, sharedVars, localVars, Transaction,
    Answer, Succeeds, Places, InFile, OK, CHECK_CODE, IO_ERR, RUNTIME_ERR, CANCELED,
    GrantedSizesHold
<1>0. CASE UNCHANGED vars
  BY <1>0 DEF vars, sharedVars, localVars
<1>1. ASSUME NEW t \in Threads, Request(t) PROVE GrantedSizesHold'
  BY <1>1 DEF Request
<1>2. ASSUME NEW t \in Threads, EventsBefore(t) PROVE GrantedSizesHold'
  BY <1>2 DEF EventsBefore
<1>3. ASSUME NEW t \in Threads, SetSize(t) PROVE GrantedSizesHold'
  <2>1. CASE Transport # "WIRELESS_COMM"
    BY <2>1, <1>3
  <2>2. CASE Transport = "WIRELESS_COMM"
    <3>1. PICK c \in Returns : rc' = [rc EXCEPT ![t] = c] /\ correct_size' = IF c = OK THEN TRUE ELSE correct_size
      BY <1>3, <2>2 DEF SetSize
    <3>2. result' = result /\ pc' = [pc EXCEPT ![t] = "lock"]
      BY <1>3 DEF SetSize
    <3> QED
      BY <3>1, <3>2
  <2> QED
    BY <2>1, <2>2
<1>4. ASSUME NEW t \in Threads, TakeLock(t) PROVE GrantedSizesHold'
  BY <1>4 DEF TakeLock
<1>5. ASSUME NEW t \in Threads, GetInfo(t) PROVE GrantedSizesHold'
  BY <1>5 DEF GetInfo
<1>6. ASSUME NEW t \in Threads, CheckCancel(t) PROVE GrantedSizesHold'
  BY <1>6 DEF CheckCancel
<1>7. ASSUME NEW t \in Threads, Chunk(t) PROVE GrantedSizesHold'
  BY <1>7 DEF Chunk
<1>8. ASSUME NEW t \in Threads, ChunkFails(t) PROVE GrantedSizesHold'
  BY <1>8 DEF ChunkFails
<1>9. ASSUME NEW t \in Threads, ChunkBreaks(t) PROVE GrantedSizesHold'
  BY <1>9 DEF ChunkBreaks
<1>10. ASSUME NEW t \in Threads, End(t) PROVE GrantedSizesHold'
  BY <1>10 DEF End
<1>11. ASSUME NEW t \in Threads, EventsAfter(t) PROVE GrantedSizesHold'
  BY <1>11 DEF EventsAfter
<1>12. ASSUME NEW t \in Threads, ResetSize(t) PROVE GrantedSizesHold'
  BY <1>12 DEF ResetSize
<1>13. ASSUME NEW t \in Threads, RequestLive(t) PROVE GrantedSizesHold'
  BY <1>13 DEF RequestLive
<1>14. ASSUME NEW t \in Threads, LiveChunk(t) PROVE GrantedSizesHold'
  BY <1>14 DEF LiveChunk
<1>15. ASSUME NEW t \in Threads, LiveFails(t) PROVE GrantedSizesHold'
  BY <1>15 DEF LiveFails
<1>16. ASSUME NEW t \in Threads, Finish(t) PROVE GrantedSizesHold'
  BY <1>16 DEF Finish
<1>17. ASSUME NEW t \in Threads, Cancel(t) PROVE GrantedSizesHold'
  BY <1>17 DEF Cancel
<1>18. CASE LoseLink
  BY <1>18 DEF LoseLink
<1> QED
  BY <1>0, <1>1, <1>2, <1>3, <1>4, <1>5, <1>6, <1>7, <1>8, <1>9, <1>10, <1>11, <1>12, <1>13, <1>14, <1>15, <1>16, <1>17, <1>18 DEF Next, File, Live, AllDone

\* A granted request for correct sizes is lost only to another download that
\* has returned, for any number of downloads.
THEOREM GrantedSizesAreKept == Spec => []GrantedSizesHold
<1>1. Init => GrantedSizesHold
  BY DownloadAssumption DEF Init, GrantedSizesHold
<1>2. IInv /\ GrantedSizesHold /\ [Next]_vars => GrantedSizesHold'
  BY HoldStep
<1> QED
  BY Invariance, <1>1, <1>2, PTL DEF Spec

-----------------------------------------------------------------------------
(* What a download hands over, except over WIRELESS_COMM.                  *)

\* The progress of a download and what it returns fit together.
LEMMA DataStep ==
    ASSUME Transport # "WIRELESS_COMM", IInv, DataInv, [Next]_vars
    PROVE  DataInv'
<1> USE DownloadAssumption DEF IInv, TypeOK, KindInv, Goto, mutexVars, sharedVars, localVars, Transaction,
    Answer, Succeeds, HandOver, LowerOf, Places, InFile, OK, CHECK_CODE, IO_ERR, RUNTIME_ERR, CANCELED,
    ReportedSize, DataInv
<1>0. CASE UNCHANGED vars
  BY <1>0 DEF vars, sharedVars, localVars
<1>1. ASSUME NEW t \in Threads, Request(t) PROVE DataInv'
  BY <1>1 DEF Request
<1>2. ASSUME NEW t \in Threads, EventsBefore(t) PROVE DataInv'
  BY <1>2 DEF EventsBefore
<1>3. ASSUME NEW t \in Threads, SetSize(t) PROVE DataInv'
  BY <1>3 DEF SetSize
<1>4. ASSUME NEW t \in Threads, TakeLock(t) PROVE DataInv'
  BY <1>4 DEF TakeLock
<1>5. ASSUME NEW t \in Threads, GetInfo(t) PROVE DataInv'
  BY <1>5 DEF GetInfo
<1>6. ASSUME NEW t \in Threads, CheckCancel(t) PROVE DataInv'
  BY <1>6 DEF CheckCancel
<1>7. ASSUME NEW t \in Threads, Chunk(t) PROVE DataInv'
  BY <1>7 DEF Chunk
<1>8. ASSUME NEW t \in Threads, ChunkFails(t) PROVE DataInv'
  BY <1>8 DEF ChunkFails
<1>9. ASSUME NEW t \in Threads, ChunkBreaks(t) PROVE DataInv'
  BY <1>9 DEF ChunkBreaks
<1>10. ASSUME NEW t \in Threads, End(t) PROVE DataInv'
  BY <1>10 DEF End
<1>11. ASSUME NEW t \in Threads, EventsAfter(t) PROVE DataInv'
  BY <1>11 DEF EventsAfter
<1>12. ASSUME NEW t \in Threads, ResetSize(t) PROVE DataInv'
  BY <1>12 DEF ResetSize
<1>13. ASSUME NEW t \in Threads, RequestLive(t) PROVE DataInv'
  BY <1>13 DEF RequestLive
<1>14. ASSUME NEW t \in Threads, LiveChunk(t) PROVE DataInv'
  BY <1>14 DEF LiveChunk
<1>15. ASSUME NEW t \in Threads, LiveFails(t) PROVE DataInv'
  BY <1>15 DEF LiveFails
<1>16. ASSUME NEW t \in Threads, Finish(t) PROVE DataInv'
  BY <1>16 DEF Finish
<1>17. ASSUME NEW t \in Threads, Cancel(t) PROVE DataInv'
  BY <1>17 DEF Cancel
<1>18. CASE LoseLink
  BY <1>18 DEF LoseLink
<1> QED
  BY <1>0, <1>1, <1>2, <1>3, <1>4, <1>5, <1>6, <1>7, <1>8, <1>9, <1>10, <1>11, <1>12, <1>13, <1>14, <1>15, <1>16, <1>17, <1>18 DEF Next, File, Live, AllDone

LEMMA DataInvariance ==
    ASSUME Transport # "WIRELESS_COMM"
    PROVE  Spec => []DataInv
<1>1. Init => DataInv
  BY DownloadAssumption DEF Init, DataInv, OK
<1>2. IInv /\ DataInv /\ [Next]_vars => DataInv'
  BY DataStep
<1> QED
  BY Invariance, <1>1, <1>2, PTL DEF Spec

\* A download that reports success has handed over the whole file.
THEOREM SuccessMeansComplete ==
    ASSUME Transport # "WIRELESS_COMM"
    PROVE  Spec => []SuccessIsComplete
<1>1. DataInv => SuccessIsComplete
  BY DEF DataInv, SuccessIsComplete
<1> QED
  BY DataInvariance, <1>1, PTL

-----------------------------------------------------------------------------
(* Cancels, while no live image is asked for.                              *)

\* Only the thread in the loop is the current job.
LEMMA CancelStep ==
    ASSUME LiveThreads = {}, IInv, CancelInv, [Next]_vars
    PROVE  CancelInv'
<1> USE DownloadAssumption DEF IInv, TypeOK, LockInv, KindInv, Goto, CanLock, mutexVars, sharedVars, localVars, Transaction,
    Answer, Succeeds, HandOver, LowerOf, Places, InFile, OK, CHECK_CODE, IO_ERR, RUNTIME_ERR, CANCELED,
    CancelInv
<1>0. CASE UNCHANGED vars
  BY <1>0 DEF vars, sharedVars, localVars
<1>1. ASSUME NEW t \in Threads, Request(t) PROVE CancelInv'
  BY <1>1 DEF Request
<1>2. ASSUME NEW t \in Threads, EventsBefore(t) PROVE CancelInv'
  BY <1>2 DEF EventsBefore
<1>3. ASSUME NEW t \in Threads, SetSize(t) PROVE CancelInv'
  BY <1>3 DEF SetSize
<1>4. ASSUME NEW t \in Threads, TakeLock(t) PROVE CancelInv'
  BY <1>4 DEF TakeLock
<1>5. ASSUME NEW t \in Threads, GetInfo(t) PROVE CancelInv'
  BY <1>5 DEF GetInfo
<1>6. ASSUME NEW t \in Threads, CheckCancel(t) PROVE CancelInv'
  BY <1>6 DEF CheckCancel
<1>7. ASSUME NEW t \in Threads, Chunk(t) PROVE CancelInv'
  BY <1>7 DEF Chunk
<1>8. ASSUME NEW t \in Threads, ChunkFails(t) PROVE CancelInv'
  BY <1>8 DEF ChunkFails
<1>9. ASSUME NEW t \in Threads, ChunkBreaks(t) PROVE CancelInv'
  BY <1>9 DEF ChunkBreaks
<1>10. ASSUME NEW t \in Threads, End(t) PROVE CancelInv'
  BY <1>10 DEF End
<1>11. ASSUME NEW t \in Threads, EventsAfter(t) PROVE CancelInv'
  BY <1>11 DEF EventsAfter
<1>12. ASSUME NEW t \in Threads, ResetSize(t) PROVE CancelInv'
  BY <1>12 DEF ResetSize
<1>13. ASSUME NEW t \in Threads, RequestLive(t) PROVE CancelInv'
  BY <1>13 DEF RequestLive
<1>14. ASSUME NEW t \in Threads, LiveChunk(t) PROVE CancelInv'
  BY <1>14 DEF LiveChunk
<1>15. ASSUME NEW t \in Threads, LiveFails(t) PROVE CancelInv'
  BY <1>15 DEF LiveFails
<1>16. ASSUME NEW t \in Threads, Finish(t) PROVE CancelInv'
  BY <1>16 DEF Finish
<1>17. ASSUME NEW t \in Threads, Cancel(t) PROVE CancelInv'
  BY <1>17 DEF Cancel
<1>18. CASE LoseLink
  BY <1>18 DEF LoseLink
<1> QED
  BY <1>0, <1>1, <1>2, <1>3, <1>4, <1>5, <1>6, <1>7, <1>8, <1>9, <1>10, <1>11, <1>12, <1>13, <1>14, <1>15, <1>16, <1>17, <1>18 DEF Next, File, Live, AllDone

LEMMA CancelInvariance ==
    ASSUME LiveThreads = {}
    PROVE  Spec => []CancelInv
<1>1. Init => CancelInv
  BY DownloadAssumption DEF Init, CancelInv
<1>2. IInv /\ CancelInv /\ [Next]_vars => CancelInv'
  BY CancelStep
<1> QED
  BY Invariance, <1>1, <1>2, PTL DEF Spec

\* A cancelled download hands at most one more chunk to the host.
THEOREM CancelStopsTheDownload ==
    ASSUME LiveThreads = {}
    PROVE  Spec => []CancelIsPrompt
<1>1. CancelInv => CancelIsPrompt
  BY DEF CancelInv, CancelIsPrompt
<1> QED
  BY CancelInvariance, <1>1, PTL

\* The check for a cancel asks about the job of its own download.
THEOREM TheCheckIsAboutTheJob ==
    ASSUME LiveThreads = {}
    PROVE  Spec => []ChecksOwnJob
<1>1. CancelInv => ChecksOwnJob
  BY DEF CancelInv, ChecksOwnJob
<1> QED
  BY CancelInvariance, <1>1, PTL

-----------------------------------------------------------------------------
(* Except over WIRELESS_COMM the downloads implement FileTransfer.         *)

LEMMA TransferInitially == Init => Transfer!TransferInit
BY DownloadAssumption DEF Init, Transfer!TransferInit, transferStage, InFile, OK

\* Seen as a transfer, nothing has happened.
Unmoved == UNCHANGED <<transferStage, [t \in FileThreads |-> read[t]]>>

\* Every step of a download is a step of a transfer or leaves it unchanged.
LEMMA TransferStep ==
    ASSUME Transport # "WIRELESS_COMM", IInv, DataInv, [Next]_vars
    PROVE  [Transfer!TransferNext]_(Transfer!transferVars)
<1> USE DownloadAssumption DEF IInv, TypeOK, KindInv, DataInv, Goto, mutexVars, sharedVars, localVars,
    Transaction, transferStage, Unmoved, Places, InFile, Returns, OK, CHECK_CODE, IO_ERR, RUNTIME_ERR, CANCELED
<1>0. CASE UNCHANGED vars
  BY <1>0 DEF vars, Transfer!transferVars
<1>1. ASSUME NEW t \in Threads, TakeLock(t) PROVE t \in FileThreads /\ Transfer!Start(t)
  <2>1. t \in FileThreads
    BY <1>1 DEF TakeLock
  <2>2. owner = NoThread
    BY <1>1, ThreadAssumption DEF TakeLock, ptp_mutex_lock, CanLock, LockInv
  <2>3. Transfer!Running = {}
    BY <2>2, ThreadAssumption DEF Transfer!Running, LockInv
  <2>4. transferStage[t] = "asked" /\ transferStage' = [transferStage EXCEPT ![t] = "running"]
    BY <1>1, <2>1 DEF TakeLock
  <2> QED
    BY <1>1, <2>1, <2>3, <2>4 DEF Transfer!Start, Transfer!Advance, TakeLock
<1>2. ASSUME NEW t \in Threads, Chunk(t) PROVE t \in FileThreads /\ Transfer!Deliver(t)
  <2>1. t \in FileThreads
    BY <1>2 DEF Chunk
  <2>2. transferStage[t] = "running" /\ UNCHANGED transferStage
    BY <1>2, <2>1 DEF Chunk
  <2>3. PICK n \in 1 .. LowerOf(size[t] - read[t], MaxChunk) : read' = [read EXCEPT ![t] = @ + n]
    BY <1>2 DEF Chunk, HandOver
  <2>4. read[t] + n \in (read[t] + 1) .. FullSize
    BY <1>2, <2>1, <2>3 DEF Chunk, LowerOf
  <2>5. [u \in FileThreads |-> read'[u]] = [[u \in FileThreads |-> read[u]] EXCEPT ![t] = read[t] + n]
    BY <2>1, <2>3
  <2> QED
    BY <2>1, <2>2, <2>4, <2>5 DEF Transfer!Deliver
<1>3. ASSUME NEW t \in Threads, End(t) PROVE t \in FileThreads /\ (Transfer!Succeed(t) \/ Transfer!Fail(t))
  <2>1. t \in FileThreads /\ transferStage[t] = "running"
    BY <1>3 DEF End
  <2>2. CASE rc[t] = OK
    <3>1. transferStage' = [transferStage EXCEPT ![t] = "ok"]
      BY <1>3, <2>1, <2>2 DEF End
    <3>2. read[t] = FullSize
      BY <1>3, <2>1, <2>2 DEF End
    <3> QED
      BY <1>3, <2>1, <3>1, <3>2 DEF End, Transfer!Succeed, Transfer!Advance
  <2>3. CASE rc[t] # OK
    <3>1. transferStage' = [transferStage EXCEPT ![t] = "failed"]
      BY <1>3, <2>1, <2>3 DEF End
    <3> QED
      BY <1>3, <2>1, <3>1 DEF End, Transfer!Fail, Transfer!Advance
  <2> QED
    BY <2>2, <2>3
<1>4. ASSUME NEW t \in Threads, ChunkBreaks(t) PROVE t \in FileThreads /\ Transfer!Fail(t)
  <2>1. t \in FileThreads /\ transferStage[t] = "running"
    BY <1>4 DEF ChunkBreaks
  <2>2. transferStage' = [transferStage EXCEPT ![t] = "failed"]
    BY <1>4, <2>1 DEF ChunkBreaks
  <2> QED
    BY <1>4, <2>1, <2>2 DEF ChunkBreaks, Transfer!Fail, Transfer!Advance
<1>5. ASSUME NEW t \in Threads, SetSize(t) \/ GetInfo(t) \/ CheckCancel(t) \/ ChunkFails(t) PROVE Unmoved
  BY <1>5 DEF SetSize, GetInfo, CheckCancel, ChunkFails
<1>6. ASSUME NEW t \in Threads, Request(t) PROVE Unmoved
  BY <1>6 DEF Request
<1>7. ASSUME NEW t \in Threads, EventsBefore(t) \/ EventsAfter(t) \/ ResetSize(t) PROVE FALSE
  BY <1>7 DEF EventsBefore, EventsAfter, ResetSize
<1>8. ASSUME NEW t \in Threads, RequestLive(t) PROVE Unmoved
  BY <1>8 DEF RequestLive
<1>9. ASSUME NEW t \in Threads, LiveChunk(t) PROVE Unmoved
  BY <1>9 DEF LiveChunk, HandOver
<1>10. ASSUME NEW t \in Threads, LiveFails(t) PROVE Unmoved
  BY <1>10 DEF LiveFails
<1>11. ASSUME NEW t \in Threads, Finish(t) \/ Cancel(t) PROVE Unmoved
  BY <1>11 DEF Finish, Cancel
<1>12. CASE LoseLink
  BY <1>12 DEF LoseLink, Transfer!transferVars
<1> QED
  BY <1>0, <1>1, <1>2, <1>3, <1>4, <1>5, <1>6, <1>7, <1>8, <1>9, <1>10, <1>11, <1>12
     DEF Next, File, Live, AllDone, vars, Transfer!TransferNext, Transfer!transferVars

\* Files are transferred one after the other, each grows to its full length,
\* and a transfer succeeds only with the whole file.
THEOREM TransferRefinement ==
    ASSUME Transport # "WIRELESS_COMM"
    PROVE  Spec => ImplementsTransfer
BY Invariance, DataInvariance, TransferInitially, TransferStep, PTL
   DEF Spec, ImplementsTransfer, Transfer!TransferSpec

=============================================================================
