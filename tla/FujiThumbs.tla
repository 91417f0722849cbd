----------------------------- MODULE FujiThumbs -----------------------------
(***************************************************************************)
(* A thumbnail for the host (on_request_thumbnail, fuji_get_thumb).  The   *)
(* thumbnail is handed over where libpict received it, in the one response *)
(* buffer of the runtime, which the answer to the next command of any      *)
(* thread replaces.  In PC AutoSave it is looked for in the EXIF data at   *)
(* the start of the file, of which more is fetched as it is needed.        *)
(* Lengths are in kilobytes.                                               *)
(***************************************************************************)
EXTENDS Naturals, Sequences

CONSTANTS
    Objects,    \* handles of the objects asked for
    Layouts     \* EXIF data: what must have been fetched, in this order (needs),
                \* how many of these before the thumbnail is known (knownAt),
                \* and whether there is one (thumb)

VARIABLES
    r,          \* priv->r: the runtime in use, 0 for NULL
    life,       \* what has become of each runtime
    lock,       \* the thread that has the mutex of the runtime, or "none"
    data,       \* r->data: the last answer, and the object it is about
    transport,  \* fuji->transport
    newer,      \* remote_version > 0x20006
    allowed,    \* allow_autosave_thumbnails
    th,         \* the place in on_request_thumbnail
    asked,      \* the object asked for
    exif,       \* its layout, how much of it is there, the next of its needs
    polls       \* the events asked for after the EXIF data

thumbVars == <<th, asked, exif, polls>>
runtimeVars == <<r, life, lock, data, transport, newer, allowed>>

NoAnswer == [kind |-> "nothing", obj |-> 0]

\* A camera that is there answers; the events may be rejected.
Answer(kind, o) == life[r] = "open" /\ data' = [kind |-> kind, obj |-> o]
EventsPolled == life[r] = "open" /\ (Answer("events", 0) \/ UNCHANGED data)

NoExif == [layout |-> CHOOSE l \in Layouts : TRUE, have |-> 0, next |-> 1]

ThumbInit ==
    /\ lock = "none" /\ data = NoAnswer
    /\ transport = "unset" /\ newer = FALSE /\ allowed = FALSE
    /\ th = "idle" /\ asked = 0 /\ exif = NoExif /\ polls = 0

InThumb == {"lock", "get", "info", "thumb", "events", "part", "parse", "after",
            "give", "empty", "error"}

Thumb(from, to) == th = from /\ th' = to

\* A command fails.  As long as the length is 0 the host gets no thumbnail and
\* no error, whatever the code is; the length is set before the last events.
ThumbFails ==
    /\ th \in {"info", "thumb", "events", "part", "after"}
    /\ th' = IF th = "after" THEN "error" ELSE "empty"
    /\ UNCHANGED <<runtimeVars, asked, exif, polls>>

\* Mutant: the lock is only taken for each command.
TakeNoLock ==
    /\ Thumb("lock", "get")
    /\ UNCHANGED <<runtimeVars, asked, exif, polls>>

TakeLock ==
    /\ Thumb("lock", "get")
    /\ lock = "none"
    /\ lock' = "job"
    /\ UNCHANGED <<r, life, data, transport, newer, allowed, asked, exif, polls>>

fuji_get_thumb ==
    /\ th = "get"
    /\ th' = CASE transport = "AUTOSAVE" /\ allowed -> "events"
               [] transport = "AUTOSAVE" /\ ~allowed -> "empty"
               [] transport # "AUTOSAVE" /\ newer -> "info"
               [] OTHER -> "thumb"
    /\ UNCHANGED <<runtimeVars, asked, exif, polls>>

\* A newer camera wants its object information to be asked for first; the host
\* is told.
GetObjectInfo ==
    /\ Thumb("info", "thumb")
    /\ Answer("info", asked)
    /\ UNCHANGED <<r, life, lock, transport, newer, allowed, asked, exif, polls>>

\* An answer under 100 bytes is no thumbnail.
GetThumbnail ==
    /\ th = "thumb"
    /\ th' \in {"give", "empty"}
    /\ Answer("thumb", asked)
    /\ UNCHANGED <<r, life, lock, transport, newer, allowed, asked, exif, polls>>

\* ptp_get_partial_exif: the lock is taken again, and the events are polled.
ExifEvents ==
    /\ Thumb("events", "part")
    /\ EventsPolled
    /\ UNCHANGED <<r, life, lock, transport, newer, allowed, asked, exif, polls>>

\* The first 16 kilobytes, copied to a buffer of the call.
GetPartialObject ==
    /\ Thumb("part", "parse")
    /\ Answer("part", asked)
    /\ \E l \in Layouts : exif' = [layout |-> l, have |-> 16, next |-> 1]
    /\ UNCHANGED <<r, life, lock, transport, newer, allowed, asked, polls>>

Need == exif.layout.needs[exif.next]
Parsed == exif.next > Len(exif.layout.needs)
There == ~Parsed /\ Need <= exif.have
Missing == ~Parsed /\ Need > exif.have

\* exif_start_raw comes to the next place in the file that it needs, which is
\* there (ensure_size) ...
ExifThere ==
    /\ Thumb("parse", "parse")
    /\ There
    /\ exif' = [exif EXCEPT !.next = @ + 1]
    /\ UNCHANGED <<runtimeVars, asked, polls>>

\* ... or is fetched, with a kilobyte more (my_add) ...
my_add ==
    /\ Thumb("parse", "parse")
    /\ Missing
    /\ exif' = [exif EXCEPT !.next = @ + 1, !.have = Need + 1]
    /\ Answer("part", asked)
    /\ UNCHANGED <<r, life, lock, transport, newer, allowed, asked, polls>>

\* The end of the parser, which the failure of a fetch also is.  Its result is
\* only logged: what counts is whether a thumbnail was come across.
ExifEnds ==
    /\ th = "parse"
    /\ Parsed \/ Missing
    /\ th' = IF exif.layout.thumb /\ exif.next > exif.layout.knownAt
             THEN "after" ELSE "empty"
    /\ polls' = 0
    /\ UNCHANGED <<runtimeVars, asked, exif>>

\* The events are polled four times more, into the buffer of the runtime.
EventsAfter ==
    /\ th = "after"
    /\ polls' = polls + 1
    /\ th' = IF polls' = 4 THEN "give" ELSE "after"
    /\ EventsPolled
    /\ UNCHANGED <<r, life, lock, transport, newer, allowed, asked, exif>>

\* The call returns; its locals are forgotten.
ThumbEnds ==
    /\ th' = "idle" /\ asked' = 0 /\ exif' = NoExif /\ polls' = 0
    /\ data' = NoAnswer

\* The payload is handed over, and the mutex released.
GiveThumb ==
    /\ th = "give"
    /\ ThumbEnds
    /\ lock' = "none"
    /\ UNCHANGED <<r, life, transport, newer, allowed>>

\* Mutant: the early return does not release the mutex.
GiveEmptyLocked ==
    /\ th = "empty"
    /\ ThumbEnds
    /\ UNCHANGED <<r, life, lock, transport, newer, allowed>>

GiveEmpty ==
    /\ th = "empty"
    /\ ThumbEnds
    /\ lock' = "none"
    /\ UNCHANGED <<r, life, transport, newer, allowed>>

ThumbStep ==
    \/ TakeLock \/ fuji_get_thumb \/ GetObjectInfo \/ GetThumbnail
    \/ ExifEvents \/ GetPartialObject \/ ExifThere \/ my_add \/ ExifEnds
    \/ EventsAfter \/ GiveThumb \/ GiveEmpty \/ ThumbFails
=============================================================================
