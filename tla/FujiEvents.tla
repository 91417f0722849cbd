----------------------------- MODULE FujiEvents -----------------------------
(***************************************************************************)
(* fuji_get_events (lib/fuji.c): polling the camera for what has changed.  *)
(*                                                                         *)
(* The camera tells a change once: an answer lists what has changed since  *)
(* the last one, in an order of its own.  The client works through the     *)
(* list where libpict has received it, in the one response buffer of the   *)
(* runtime, and some entries make it send further commands, whose answers  *)
(* go to the same buffer.  The lock is held for the whole poll, so the     *)
(* polling threads (on_idle_tick, the downloads) are one client here; the  *)
(* camera changes between any two of its steps.                            *)
(***************************************************************************)
EXTENDS Naturals, Sequences, SequencesExt

CONSTANTS
    Transports,     \* values of fuji->transport
    States,         \* values that CameraState_DF00 takes
    MaxObjects,     \* bound: pictures in the camera's memory, ObjectCount
    MaxChanges,     \* bound: changes of the camera's properties
    MaxEvents,      \* bound: the length of a list, a uint16
    MaxValue        \* bound: the value of an entry that is no event

ASSUME EventsAssumption ==
    /\ Transports \subseteq {"WIRELESS_COMM", "WIRELESS_TETHER"}
    /\ States \subseteq {1, 2, 6} /\ 2 \in States
    /\ MaxObjects \in Nat /\ MaxChanges \in Nat
    /\ MaxEvents \in Nat /\ MaxEvents >= 4 /\ MaxValue \in Nat

VARIABLES
    transport,  \* fuji->transport
    offers,     \* camera: whether it has pictures to transfer (a state of 1)
    cam,        \* camera: the value of each property
    untold,     \* camera: the properties whose change it has not told
    changes,    \* changes so far
    fuji,       \* the fields of the private data that events update
    buffer,     \* the payload that ev points to: a list of events
    i,          \* index into ev->events, from 1
    a,          \* the object handles, a copy of its own
    y,          \* index into the loop over them, from 1
    pc,         \* "idle", "apply", "queue", "handles" or "objects"
    rc,         \* what the last poll returned
    refused,    \* a command sent on account of an event has not succeeded
    queue       \* the set of objects given to app_queue_file_for_download

setting == <<transport, offers>>
vars == <<setting, cam, untold, changes, fuji, buffer, i, a, y, pc, rc, refused, queue>>
pollVars == <<fuji, buffer, i, a, y, pc, rc, refused, queue>>

\* CameraState_DF00, ObjectCount_D222, SelectedImgsMode_D220 and
\* FreeSDRAMImages; the last says how many pictures the memory holds, and the
\* picture with handle n is object n.
Fields == {"camera_state", "num_objects", "selected_imgs_mode"}
Props  == Fields \cup {"FreeSDRAMImages"}

FUJI_MULTIPLE_TRANSFER == 1

Values(p) ==
    CASE p = "camera_state" -> IF offers THEN States ELSE States \ {FUJI_MULTIPLE_TRANSFER}
      [] p = "selected_imgs_mode" -> 0 .. 1
      [] OTHER -> 0 .. MaxObjects

Event(p) == [code |-> p, value |-> cam[p]]

\* What the list may look like when another answer has been received over it:
\* its length is part of that answer, and so are its entries, of which
\* anything can be read.
Foreign == [code |-> "foreign", value |-> 0]
Overwritten == {[n \in 1 .. length |-> Foreign] : length \in 0 .. MaxEvents}

Read(e) ==
    IF e = Foreign THEN [code : Props \cup {"other"}, value : 0 .. MaxValue] ELSE {e}

TypeOK ==
    /\ transport \in Transports /\ offers \in BOOLEAN
    /\ \A p \in Props : cam[p] \in Values(p)
    /\ untold \subseteq Props
    /\ changes \in 0 .. MaxChanges
    /\ \A p \in Fields : fuji[p] \in Nat
    /\ \A n \in DOMAIN buffer : buffer[n] \in [code : Props \cup {"foreign"}, value : Nat]
    /\ i \in 1 .. MaxEvents + 1
    /\ a \in Seq(1 .. MaxObjects)
    /\ y \in 1 .. Len(a) + 1
    /\ pc \in {"idle", "apply", "queue", "handles", "objects"}
    /\ rc \in {"OK", "PTP_IO_ERR", "PTP_CHECK_CODE"}
    /\ refused \in BOOLEAN
    /\ queue \subseteq 1 .. MaxObjects + 1

\* After fuji_setup: the client knows the camera.
Init ==
    /\ transport \in Transports /\ offers \in BOOLEAN
    /\ \E s \in Values("camera_state") :
          cam = [p \in Props |-> IF p = "camera_state" THEN s ELSE 0]
    /\ untold = {} /\ changes = 0
    /\ fuji = [p \in Fields |-> cam[p]]
    /\ buffer = <<>> /\ i = 1 /\ a = <<>> /\ y = 1
    /\ pc = "idle" /\ rc = "OK" /\ refused = FALSE /\ queue = {}

\* The camera changes p; the new value is told by the next poll.
Change(p) ==
    /\ changes < MaxChanges
    /\ changes' = changes + 1
    /\ \E v \in Values(p) \ {cam[p]} : cam' = [cam EXCEPT ![p] = v]
    /\ untold' = untold \cup {p}
    /\ UNCHANGED <<setting, pollVars>>

\* EventsList_D212 is answered ...
Poll ==
    /\ pc = "idle"
    /\ \E order \in SetToSeqs(untold) : buffer' = [n \in DOMAIN order |-> Event(order[n])]
    /\ untold' = {}
    /\ i' = 1
    /\ pc' = "apply"
    /\ rc' = "OK"
    /\ UNCHANGED <<setting, cam, changes, fuji, a, y, refused, queue>>

\* ... or rejected, which is not an error.
PollRejected ==
    /\ pc = "idle"
    /\ rc' = "OK"
    /\ UNCHANGED <<setting, cam, untold, changes, fuji, buffer, i, a, y, pc, refused, queue>>

\* ... or nothing is received.
PollFails ==
    /\ pc = "idle"
    /\ rc' = "PTP_IO_ERR"
    /\ UNCHANGED <<setting, cam, untold, changes, fuji, buffer, i, a, y, pc, refused, queue>>

\* Mutant: the last event is taken for the end of the list.
EndedEarly == i >= Len(buffer)

\* The length is read again from the buffer for every event.
Ended == i > Len(buffer)

\* fuji_get_events returns c: its locals go, and the list is not read again.
Returns(c) ==
    /\ pc' = "idle" /\ rc' = c
    /\ buffer' = <<>> /\ i' = 1 /\ a' = <<>> /\ y' = 1

PollEnds ==
    /\ pc = "apply"
    /\ Ended
    /\ Returns("OK")
    /\ UNCHANGED <<setting, cam, untold, changes, fuji, refused, queue>>

\* One event of the list.  A camera with pictures to transfer, and in wireless
\* tethering one with pictures in its memory, is asked for them.
Apply ==
    /\ pc = "apply"
    /\ ~Ended
    /\ \E e \in Read(buffer[i]) :
          LET queues == e.code = "camera_state" /\ e.value = FUJI_MULTIPLE_TRANSFER
              tether == e.code = "FreeSDRAMImages" /\ transport = "WIRELESS_TETHER"
          IN  /\ fuji' = IF e.code \in Fields THEN [fuji EXCEPT ![e.code] = e.value] ELSE fuji
              /\ pc' = CASE queues -> "queue" [] tether -> "handles" [] OTHER -> pc
              /\ i' = IF queues \/ tether THEN i ELSE i + 1
    /\ UNCHANGED <<setting, cam, untold, changes, buffer, a, y, rc, refused, queue>>

\* A command fails: fuji_get_events returns its code.
CommandFails(c) ==
    /\ Returns(c)
    /\ refused' = TRUE
    /\ UNCHANGED <<setting, cam, untold, changes, fuji, queue>>

\* app_queue_file_for_download of object o: the camera gives its information
\* and the host gets the file, or it does not and that is no error.  An answer
\* with data replaces the list, one without may leave it.
FileQueued(o) ==
    /\ queue' = queue \cup {o}
    /\ buffer' \in Overwritten
    /\ UNCHANGED <<setting, cam, untold, changes, fuji, a, rc, refused>>

InfoRejected ==
    /\ refused' = TRUE
    /\ buffer' \in Overwritten \cup {buffer}
    /\ UNCHANGED <<setting, cam, untold, changes, fuji, a, rc, queue>>

QueueFile(o) == FileQueued(o) \/ InfoRejected

\* The first picture that waits to be transferred.
QueueOne ==
    /\ pc = "queue"
    /\ \/ /\ QueueFile(1)
          /\ pc' = "apply"
          /\ i' = i + 1
          /\ UNCHANGED y
       \/ CommandFails("PTP_IO_ERR")

\* GetObjectHandles, whose answer is copied.
GetHandles ==
    /\ pc = "handles"
    /\ \/ /\ a' = [n \in 1 .. cam["FreeSDRAMImages"] |-> n]
          /\ buffer' \in Overwritten
          /\ y' = 1
          /\ pc' = "objects"
          /\ UNCHANGED <<setting, cam, untold, changes, fuji, i, rc, refused, queue>>
       \/ \E c \in {"PTP_IO_ERR", "PTP_CHECK_CODE"} : CommandFails(c)

\* The handle that is queued has the index of the event, not that of the loop.
\* Past the end of the array it is whatever is there.
Picked == IF i <= Len(a) THEN {a[i]} ELSE 1 .. MaxObjects + 1

\* Mutant: a picture whose information is rejected is asked for again.
QueueObjectsAgain ==
    /\ pc = "objects"
    /\ y <= Len(a)
    /\ \/ /\ \E o \in Picked : FileQueued(o)
          /\ y' = y + 1
          /\ UNCHANGED <<pc, i>>
       \/ InfoRejected /\ UNCHANGED <<pc, i, y>>
       \/ CommandFails("PTP_IO_ERR")

\* Mutant: the loop goes on for one more than there are handles.
QueueObjectsPast ==
    /\ pc = "objects"
    /\ y <= Len(a) + 1
    /\ \E o \in Picked : QueueFile(o)
    /\ y' = y + 1
    /\ UNCHANGED <<pc, i>>

QueueObjects ==
    /\ pc = "objects"
    /\ y <= Len(a)
    /\ \/ /\ \E o \in Picked : QueueFile(o)
          /\ y' = y + 1
          /\ UNCHANGED <<pc, i>>
       \/ CommandFails("PTP_IO_ERR")

ObjectsEnd ==
    /\ pc = "objects"
    /\ y > Len(a)
    /\ pc' = "apply"
    /\ i' = i + 1
    /\ a' = <<>> /\ y' = 1
    /\ UNCHANGED <<setting, cam, untold, changes, fuji, buffer, rc, refused, queue>>

InPoll == PollEnds \/ Apply \/ QueueOne \/ GetHandles \/ QueueObjects \/ ObjectsEnd

Next ==
    \/ \E p \in Props : Change(p)
    \/ Poll \/ PollRejected \/ PollFails
    \/ InPoll

\* A poll that has begun goes on, the host's tick starts another one for ever,
\* and a camera that is asked again and again answers once in a while.
Fairness ==
    /\ WF_vars(InPoll)
    /\ SF_vars(Poll)

Spec == Init /\ [][Next]_vars /\ Fairness

-----------------------------------------------------------------------------
(* Properties.                                                             *)

\* A camera on account of whose events no command is sent.
Quiet == transport = "WIRELESS_COMM" /\ ~offers

\* Between two polls the client of a quiet camera knows the value of every
\* property whose change has been told: "Receives events once, and updates info
\* struct with changes" (lib/fuji.h:134).  A change that is missed is not told
\* again.  Other cameras' events may be lost: the answers to the commands
\* overwrite those that are not applied yet.
Tracks ==
    (Quiet /\ pc = "idle" /\ rc = "OK") =>
        \A p \in Fields \ untold : fuji[p] = cam[p]

\* When a quiet camera comes to rest the client comes to agree with it.
Settles ==
    Quiet => <>[](\A p \in Fields : fuji[p] = cam[p])

\* Every poll returns, with the lock, however the list is overwritten.
PollsReturn ==
    pc # "idle" ~> pc = "idle"

\* In wireless tethering every picture that the camera has told of is queued
\* for download, unless a command has failed: "this mode forces all pictures
\* to be uploaded" (docs/dev.md:34).
AllPicturesQueued ==
    (transport = "WIRELESS_TETHER" /\ pc = "idle" /\ ~refused /\ "FreeSDRAMImages" \notin untold) =>
        1 .. cam["FreeSDRAMImages"] \subseteq queue

=============================================================================
