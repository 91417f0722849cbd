---------------------------- MODULE FujiDownload ----------------------------
(***************************************************************************)
(* Downloads: on_request_file_contents (lib/module.c) with                 *)
(* fuji_download_file_ex (lib/fuji.c) for a file of the card and           *)
(* app_ptp_download_file (lib/module.c) for an image of the live feed,     *)
(* called from several threads of the host on one runtime.                 *)
(*                                                                         *)
(* A PTP transaction is one step that needs the lock to be free or in the  *)
(* hands of its thread: PtpRuntime shows that nothing can come between the *)
(* command and the response.  What the threads share is the lock, the      *)
(* camera's property 0xD227 and the module's current_job.                  *)
(***************************************************************************)
EXTENDS PtpMutex

CONSTANTS
    FileThreads,    \* threads that download a file of the card
    LiveThreads,    \* threads that download from the live feed
    Transport,      \* fuji->transport
    FullSize,       \* the size of a file, in some unit
    SmallSize,      \* what the camera reports as the size while 0xD227 is 0
    MaxChunk        \* FUJI_MAX_PARTIAL_OBJECT, in the same unit

ASSUME DownloadAssumption ==
    /\ Threads = FileThreads \cup LiveThreads
    /\ FileThreads \cap LiveThreads = {}
    /\ Transport \in {"USB", "WIRELESS_COMM", "XAPP_WIRELESS_COMM"}
    /\ SmallSize \in Nat \ {0}
    /\ FullSize \in Nat /\ FullSize > SmallSize
    /\ MaxChunk \in Nat \ {0}

VARIABLES
    dead,           \* the link is gone or shut down: transactions fail
    correct_size,   \* the camera's EnableCorrectFileSize_D227
    current_job,    \* mod->priv->current_job; the job of a thread is its name
    cancelled,      \* the jobs the user has cancelled
    pc,             \* where each thread is
    size,           \* oi.compressed_size of each thread
    read,           \* bytes handed to the host: the local variable read
    rc,             \* the local variable rc
    result,         \* what the download function returned
    late            \* chunks handed to the host since the job was cancelled

sharedVars == <<dead, correct_size, current_job, cancelled>>
localVars  == <<pc, size, read, rc, result, late>>
vars == <<mutexVars, sharedVars, localVars>>

OK          == "OK"
CHECK_CODE  == "PTP_CHECK_CODE"
IO_ERR      == "PTP_IO_ERR"
RUNTIME_ERR == "PTP_RUNTIME_ERR"
CANCELED    == "PTP_CANCELED"
Returns == {OK, CHECK_CODE, IO_ERR, RUNTIME_ERR, CANCELED}

\* Places of a thread that holds the lock for a whole file.
InFile == {"get_info", "check", "partial", "end", "reset"}

Places == {"idle", "events", "set_size", "lock", "live", "finish", "done"} \cup InFile

TypeOK ==
    /\ MutexTypeOK
    /\ dead \in BOOLEAN
    /\ correct_size \in BOOLEAN
    /\ current_job \in Threads \cup {NoThread}
    /\ cancelled \subseteq Threads
    /\ pc \in [Threads -> Places]
    /\ size \in [Threads -> Nat]
    /\ read \in [Threads -> Nat]
    /\ rc \in [Threads -> Returns]
    /\ result \in [Threads -> Returns \cup {"none"}]
    /\ late \in [Threads -> Nat]

\* A connected camera after fuji_setup; current_job is still the job that
\* made the connection, which is none of these.
Init ==
    /\ MutexInit
    /\ dead = FALSE
    /\ correct_size = FALSE
    /\ current_job = NoThread
    /\ cancelled = {}
    /\ pc = [t \in Threads |-> "idle"]
    /\ size = [t \in Threads |-> 0]
    /\ read = [t \in Threads |-> 0]
    /\ rc = [t \in Threads |-> OK]
    /\ result = [t \in Threads |-> "none"]
    /\ late = [t \in Threads |-> 0]

Goto(t, from, to) ==
    /\ pc[t] = from
    /\ pc' = [pc EXCEPT ![t] = to]

\* A transaction of thread t: it needs the lock for its duration and leaves
\* it as it was.
Transaction(t) == CanLock(t) /\ UNCHANGED mutexVars

\* The transaction succeeds, the camera rejects it, or the link is dead.
Succeeds == ~dead
Answer(c) == IF dead THEN c = IO_ERR ELSE c \in {OK, CHECK_CODE}

LowerOf(a, b) == IF a < b THEN a ELSE b

-----------------------------------------------------------------------------
(* fuji_download_file_ex: before the lock.                                 *)

\* on_request_file_contents for a file of the card.
Request(t) ==
    /\ t \in FileThreads
    /\ Goto(t, "idle", CASE Transport = "WIRELESS_COMM" -> "events"
                         [] Transport = "XAPP_WIRELESS_COMM" -> "set_size"
                         [] OTHER -> "lock")
    /\ UNCHANGED <<mutexVars, sharedVars, size, read, rc, result, late>>

\* fuji_get_events; an error ends the download before it has begun.  A camera
\* that rejects the poll, or the picture that a poll queues, is fine.
EventsBefore(t) ==
    LET c == IF Succeeds THEN OK ELSE IO_ERR IN
    /\ Goto(t, "events", IF c = OK THEN "set_size" ELSE "finish")
    /\ Transaction(t)
    /\ rc' = [rc EXCEPT ![t] = c]
    /\ result' = IF c = OK THEN result ELSE [result EXCEPT ![t] = c]
    /\ UNCHANGED <<sharedVars, size, read, late>>

\* Mutant: correct sizes are never asked for.
SetSizeForgotten(t) ==
    /\ Goto(t, "set_size", "lock")
    /\ UNCHANGED <<mutexVars, sharedVars, size, read, rc, result, late>>

\* Ask for correct sizes (WIRELESS_COMM), or choose the quality with 0xD226
\* (XAPP, where the answer is dropped).  The download goes on whatever the
\* answer is.
SetSize(t) ==
    \E c \in Returns :
        /\ Answer(c)
        /\ Goto(t, "set_size", "lock")
        /\ Transaction(t)
        /\ IF Transport = "WIRELESS_COMM"
           THEN /\ correct_size' = IF c = OK THEN TRUE ELSE correct_size
                /\ rc' = [rc EXCEPT ![t] = c]
           ELSE UNCHANGED <<correct_size, rc>>
        /\ UNCHANGED <<dead, current_job, cancelled, size, read, result, late>>

\* Mutant: the lock is not taken.
TakeLockForgotten(t) ==
    /\ Goto(t, "lock", "get_info")
    /\ UNCHANGED <<mutexVars, sharedVars, size, read, rc, result, late>>

TakeLock(t) ==
    /\ Goto(t, "lock", "get_info")
    /\ ptp_mutex_lock(t)
    /\ UNCHANGED <<sharedVars, size, read, rc, result, late>>

-----------------------------------------------------------------------------
(* fuji_download_file_ex: under the lock.                                  *)

\* The size the camera reports.
ReportedSize ==
    IF Transport = "WIRELESS_COMM" /\ ~correct_size THEN SmallSize ELSE FullSize

\* ptp_get_object_info and, when it succeeds, the callback download_init,
\* which makes this job the current one.
GetInfo(t) ==
    \E c \in Returns :
        /\ Answer(c)
        /\ Goto(t, "get_info", IF c = OK THEN "check" ELSE "end")
        /\ Transaction(t)
        /\ rc' = [rc EXCEPT ![t] = c]
        /\ size' = IF c = OK THEN [size EXCEPT ![t] = ReportedSize] ELSE size
        /\ current_job' = IF c = OK THEN t ELSE current_job
        /\ UNCHANGED <<dead, correct_size, cancelled, read, result, late>>

\* Mutant: a cancel leaves the return code of the last transaction.
CheckCancelQuietly(t) ==
    /\ Goto(t, "check", IF current_job \in cancelled THEN "end" ELSE "partial")
    /\ UNCHANGED <<mutexVars, sharedVars, size, read, rc, result, late>>

\* app_check_thread_cancel, which asks about the module's current_job.
CheckCancel(t) ==
    LET stop == current_job \in cancelled IN
    /\ Goto(t, "check", IF stop THEN "end" ELSE "partial")
    /\ rc' = IF stop THEN [rc EXCEPT ![t] = CANCELED] ELSE rc
    /\ UNCHANGED <<mutexVars, sharedVars, size, read, result, late>>

\* n more bytes are handed to the host.
HandOver(t, n) ==
    /\ read' = [read EXCEPT ![t] = @ + n]
    /\ late' = IF t \in cancelled THEN [late EXCEPT ![t] = @ + 1] ELSE late

\* Mutant: a chunk that is not of the maximal size is taken to be the last.
ChunkShortIsLast(t) ==
    \E n \in 1 .. LowerOf(size[t] - read[t], MaxChunk) :
        /\ Succeeds
        /\ Goto(t, "partial", IF n < MaxChunk THEN "end" ELSE "check")
        /\ Transaction(t)
        /\ HandOver(t, n)
        /\ rc' = [rc EXCEPT ![t] = OK]
        /\ UNCHANGED <<sharedVars, size, result>>

\* Mutant: the check for a cancel is outside the loop.
ChunkUnchecked(t) ==
    \E n \in 1 .. LowerOf(size[t] - read[t], MaxChunk) :
        /\ Succeeds
        /\ Goto(t, "partial", IF read[t] + n >= size[t] THEN "end" ELSE "partial")
        /\ Transaction(t)
        /\ HandOver(t, n)
        /\ rc' = [rc EXCEPT ![t] = OK]
        /\ UNCHANGED <<sharedVars, size, result>>

\* ptp_get_partial_object answers with a chunk and handle_add takes it.
Chunk(t) ==
    \E n \in 1 .. LowerOf(size[t] - read[t], MaxChunk) :
        /\ Succeeds
        /\ Goto(t, "partial", IF read[t] + n >= size[t] THEN "end" ELSE "check")
        /\ Transaction(t)
        /\ HandOver(t, n)
        /\ rc' = [rc EXCEPT ![t] = OK]
        /\ UNCHANGED <<sharedVars, size, result>>

\* The camera rejects the request, answers with nothing, or handle_add does
\* not want the chunk.
ChunkFails(t) ==
    \E c \in {CHECK_CODE, RUNTIME_ERR, CANCELED} :
        /\ Succeeds
        /\ Goto(t, "partial", "end")
        /\ Transaction(t)
        /\ rc' = [rc EXCEPT ![t] = c]
        /\ UNCHANGED <<sharedVars, size, read, result, late>>

\* Mutant: the early return leaves the lock held.
ChunkBreaksLocked(t) ==
    /\ ~Succeeds
    /\ Goto(t, "partial", "finish")
    /\ rc' = [rc EXCEPT ![t] = IO_ERR]
    /\ result' = [result EXCEPT ![t] = IO_ERR]
    /\ UNCHANGED <<mutexVars, sharedVars, size, read, late>>

\* Any other error of the transaction: unlock and return at once.
ChunkBreaks(t) ==
    /\ ~Succeeds
    /\ Goto(t, "partial", "finish")
    /\ ptp_mutex_unlock(t)
    /\ rc' = [rc EXCEPT ![t] = IO_ERR]
    /\ result' = [result EXCEPT ![t] = IO_ERR]
    /\ UNCHANGED <<sharedVars, size, read, late>>

\* Mutant: one unlock too many.
EndUnlocksTwice(t) ==
    /\ Transport # "WIRELESS_COMM"
    /\ Goto(t, "end", "finish")
    /\ owner' = NoThread
    /\ depth' = depth - 2
    /\ result' = [result EXCEPT ![t] = rc[t]]
    /\ UNCHANGED <<sharedVars, size, read, rc, late>>

\* The label end: for the transports that have nothing to reset (0xD226 is
\* set back for XAPP, and its return code is not looked at).
End(t) ==
    /\ Transport # "WIRELESS_COMM"
    /\ Goto(t, "end", "finish")
    /\ ptp_mutex_unlock(t)
    /\ result' = [result EXCEPT ![t] = rc[t]]
    /\ UNCHANGED <<sharedVars, size, read, rc, late>>

\* The label end for WIRELESS_COMM: rc becomes that of fuji_get_events ...
EventsAfter(t) ==
    LET c == IF Succeeds THEN OK ELSE IO_ERR IN
    /\ Transport = "WIRELESS_COMM"
    /\ rc' = [rc EXCEPT ![t] = c]
    /\ IF c = OK
       THEN /\ Goto(t, "end", "reset")
            /\ Transaction(t)
            /\ UNCHANGED result
       ELSE /\ Goto(t, "end", "finish")
            /\ ptp_mutex_unlock(t)
            /\ result' = [result EXCEPT ![t] = c]
    /\ UNCHANGED <<sharedVars, size, read, late>>

\* Mutant: correct sizes are not turned off.
ResetSizeForgotten(t) ==
    /\ Goto(t, "reset", "finish")
    /\ ptp_mutex_unlock(t)
    /\ result' = [result EXCEPT ![t] = rc[t]]
    /\ UNCHANGED <<sharedVars, size, read, rc, late>>

\* ... and then that of the transaction that turns correct sizes off again: a
\* camera that rejects it keeps them on.
ResetSize(t) ==
    \E c \in Returns :
        /\ Answer(c)
        /\ Goto(t, "reset", "finish")
        /\ ptp_mutex_unlock(t)
        /\ correct_size' = IF c = OK THEN FALSE ELSE correct_size
        /\ rc' = [rc EXCEPT ![t] = c]
        /\ result' = [result EXCEPT ![t] = c]
        /\ UNCHANGED <<dead, current_job, cancelled, size, read, late>>

-----------------------------------------------------------------------------
(* The live feed.                                                          *)

\* on_request_file_contents for an image of the live feed: the job becomes
\* the current one before anything is locked.
RequestLive(t) ==
    /\ t \in LiveThreads
    /\ Goto(t, "idle", "live")
    /\ current_job' = t
    /\ size' = [size EXCEPT ![t] = FullSize]
    /\ UNCHANGED <<mutexVars, dead, correct_size, cancelled, read, rc, result, late>>

\* One round of app_ptp_download_file, with its own lock and unlock.  A chunk
\* that is not of the maximal size is taken to be the last one.
LiveChunk(t) ==
    \E n \in 0 .. LowerOf(size[t] - read[t], MaxChunk) :
        /\ Succeeds
        /\ Goto(t, "live", IF n = MaxChunk THEN "live" ELSE "finish")
        /\ Transaction(t)
        /\ IF n > 0 THEN HandOver(t, n) ELSE UNCHANGED <<read, late>>
        /\ result' = IF n = MaxChunk THEN result ELSE [result EXCEPT ![t] = OK]
        /\ UNCHANGED <<sharedVars, size, rc>>

LiveFails(t) ==
    \E c \in {CHECK_CODE, IO_ERR} :
        /\ Answer(c)
        /\ Goto(t, "live", "finish")
        /\ Transaction(t)
        /\ result' = [result EXCEPT ![t] = c]
        /\ UNCHANGED <<sharedVars, size, read, rc, late>>

-----------------------------------------------------------------------------

\* The end of on_request_file_contents: the host gets the end marker.
Finish(t) ==
    /\ Goto(t, "finish", "done")
    /\ UNCHANGED <<mutexVars, sharedVars, size, read, rc, result, late>>

Cancel(t) ==
    /\ t \notin cancelled
    /\ pc[t] # "done"
    /\ cancelled' = cancelled \cup {t}
    /\ UNCHANGED <<mutexVars, dead, correct_size, current_job, localVars>>

\* The camera is gone, or ptp_report_error has shut the runtime down.
LoseLink ==
    /\ ~dead
    /\ dead' = TRUE
    /\ UNCHANGED <<mutexVars, correct_size, current_job, cancelled, localVars>>

File(t) ==
    \/ EventsBefore(t) \/ SetSize(t) \/ TakeLock(t) \/ GetInfo(t) \/ CheckCancel(t)
    \/ Chunk(t) \/ ChunkFails(t) \/ ChunkBreaks(t)
    \/ End(t) \/ EventsAfter(t) \/ ResetSize(t)

Live(t) == LiveChunk(t) \/ LiveFails(t)

\* Every job has ended: nothing more is asked of the module.
AllDone ==
    /\ \A t \in Threads : pc[t] = "done"
    /\ UNCHANGED vars

Next ==
    \/ \E t \in Threads : Request(t) \/ RequestLive(t) \/ File(t) \/ Live(t) \/ Finish(t) \/ Cancel(t)
    \/ LoseLink
    \/ AllDone

\* A thread inside a job keeps running, and gets the lock if the lock keeps
\* becoming free; the host need not ask for anything and nobody has to cancel.
Fairness ==
    \A t \in Threads :
        /\ WF_vars(File(t) \/ Live(t) \/ Finish(t))
        /\ SF_vars(EventsBefore(t) \/ SetSize(t) \/ TakeLock(t) \/ Live(t))

Spec == Init /\ [][Next]_vars /\ Fairness

-----------------------------------------------------------------------------
(* Properties.                                                             *)

InLoop(t) == pc[t] \in {"check", "partial"}

\* A file is downloaded under the lock from its GetObjectInfo to its last
\* chunk: the files of two threads never alternate on the wire, and the lock
\* is free again once every job has ended, on every path out of the function.
OneFileAtATime ==
    /\ \A t \in FileThreads : pc[t] \in InFile => owner = t
    /\ (\A t \in Threads : pc[t] = "done") => owner = NoThread

\* A download of a card file that reports success has handed the whole file
\* to the host, whatever the size of the chunks and whoever cancelled what.
SuccessIsComplete ==
    \A t \in FileThreads : result[t] = OK => read[t] = FullSize

\* Between two checks at most one chunk is transferred: a cancelled download
\* hands at most one more chunk to the host (lib/fuji.c:816-849).
CancelIsPrompt ==
    \A t \in FileThreads : late[t] <= 1

\* The check for a cancel asks about the job of the download it belongs to.
\* current_job is one variable of the module: lib/module.c:389 sets it under
\* the lock, lib/module.c:409 without it.
ChecksOwnJob ==
    \A t \in FileThreads : pc[t] = "check" => current_job = t

\* A camera that is left on correct sizes has had a download that failed: when
\* all that were asked for have succeeded, it reports placeholder sizes again,
\* as it did before (lib/fuji.h:157), in whatever order they took the lock,
\* whatever the camera rejected and whether or not the link is alive.
SizesRestored ==
    (\A t \in FileThreads : pc[t] = "idle" \/ (pc[t] = "done" /\ result[t] = OK))
        => ~correct_size

\* Correct sizes are asked for before the lock and turned off by whoever ends
\* first (lib/fuji.c:806, 867): a download whose request the camera granted
\* loses them only to another download that has already returned, never to
\* one that is still to come, and so never when it is alone.
GrantedSizesHold ==
    \A t \in FileThreads :
        Transport = "WIRELESS_COMM" /\ pc[t] \in {"lock", "get_info"} /\ rc[t] = OK
            => correct_size \/ \E u \in FileThreads \ {t} : result[u] # "none"

\* A download that did not transfer everything the camera announced, because
\* it was cancelled or rejected, does not report success.
StoppedIsNotSuccess ==
    \A t \in FileThreads : result[t] = OK => size[t] > 0 /\ read[t] = size[t]

\* Every download that the host asks for returns.
DownloadsEnd ==
    \A t \in Threads : pc[t] # "idle" ~> pc[t] = "done"

-----------------------------------------------------------------------------
(* Except over WIRELESS_COMM, the downloads implement FileTransfer.        *)

transferStage ==
    [t \in FileThreads |->
        IF result[t] = OK THEN "ok"
        ELSE IF result[t] # "none" THEN "failed"
        ELSE IF pc[t] \in InFile THEN "running" ELSE "asked"]

Transfer == INSTANCE FileTransfer WITH
    Jobs <- FileThreads, Length <- FullSize,
    stage <- transferStage, got <- [t \in FileThreads |-> read[t]]

\* Files are transferred one after the other and succeed only when whole.
ImplementsTransfer == Transfer!TransferSpec

=============================================================================
