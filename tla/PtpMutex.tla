------------------------------ MODULE PtpMutex ------------------------------
(***************************************************************************)
(* The lock of a PtpRuntime, as the library uses it.  ptp_mutex_lock and   *)
(* ptp_mutex_unlock belong to libpict, which is not in this repository:    *)
(* they are modelled from their uses.  fuji_download_file_ex calls         *)
(* fuji_get_events, and on_request_thumbnail calls fuji_get_thumb, while   *)
(* the calling thread already holds the lock, so the lock is recursive:    *)
(* an owner and the number of times the owner has taken it.                *)
(***************************************************************************)
EXTENDS Naturals

CONSTANTS
    Threads,    \* the threads the host calls the module from
    NoThread    \* the owner of a free lock

ASSUME ThreadAssumption == NoThread \notin Threads

VARIABLES
    owner,      \* the thread that holds the lock, or NoThread
    depth       \* how many times the owner holds it

mutexVars == <<owner, depth>>

MutexTypeOK ==
    /\ owner \in Threads \cup {NoThread}
    /\ depth \in Nat

MutexInit ==
    /\ owner = NoThread
    /\ depth = 0

\* Thread t can take the lock: it is free, or t is taking it once more.
CanLock(t) == owner \in {NoThread, t}

ptp_mutex_lock(t) ==
    /\ CanLock(t)
    /\ owner' = t
    /\ depth' = depth + 1

ptp_mutex_unlock(t) ==
    /\ owner = t
    /\ owner' = IF depth = 1 THEN NoThread ELSE t
    /\ depth' = depth - 1

=============================================================================
