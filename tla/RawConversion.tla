--------------------------- MODULE RawConversion ---------------------------
(***************************************************************************)
(* RAW files converted by the camera (fuji_process_raf) and the backup of  *)
(* its settings, on a camera connected as in FujiUsb.  The host sends a    *)
(* RAW file, merges the user's profile into the camera's, sets the result, *)
(* starts the conversion, and looks for an object in the camera up to      *)
(* twenty times.  A call may fail at every step, and what it leaves in the *)
(* camera is there for the next one.                                       *)
(***************************************************************************)
EXTENDS FujiUsb, ProfileD185, ProfileXml

CONSTANTS
    Jobs,           \* how many RAW files are converted, one after the other
    CameraProfiles, \* binary profiles a camera answers with
    UserFiles,      \* the user's profile files; none that is missing
    Garbage,        \* what an uninitialised variable may hold
    Leftovers       \* what an uninitialised struct FujiProfile may hold

ASSUME JobsAssumption == Jobs \in Nat \ {0}

VARIABLES
    job,        \* the number of the running or last conversion, 0 for none
    raf,        \* camera: the job whose RAW file was sent last
    setBy,      \* camera: the job that set the profile, 0 for its own
    pending,    \* camera: the conversion that is running, <<>> or <<object>>
    objects,    \* camera: its results, oldest first
    fetched,    \* the binary profile the camera answered with
    file,       \* the user's profile file of this job
    packed,     \* what fp_create_d185 returned
    polls,      \* how often the host has looked for an object
    list,       \* the object handles it got last
    output,     \* [1 .. Jobs]: what was written to the output file
    stale       \* the jobs begun while the camera still had an older result

link == <<transport, usbMode, handshakes, connects>>
profileVars == <<fetched, file, packed>>
others == <<link, job, raf, setBy, pending, objects, profileVars, polls, list,
            output, stale>>
vars == <<pc, others>>

MaxPolls == 20
NoObject == [raf |-> 0, setBy |-> 0]
Torn == [raf |-> -1, setBy |-> -1]      \* cut short when it was written
NotPacked == [rc |-> -1, bin |-> NULL]

\* The locals of fuji_process_raf that hold profiles, when none is used later.
ForgetProfiles == fetched' = NULL /\ file' = NULL /\ packed' = NotPacked

\* Places in fuji_process_raf.
InConversion == {"raf_info", "raf_send", "get_profile", "merge",
                 "set_profile", "start", "poll", "get_object", "delete"}
InBackup == {"backup_info", "backup_get", "restore_info", "restore_send"}
InSetup == {"handshake", "open_session", "device_info", "get_mode"}

Init ==
    /\ UsbInit
    /\ job = 0 /\ raf = 0 /\ setBy = 0
    /\ pending = <<>> /\ objects = <<>> /\ list = <<>>
    /\ fetched = NULL /\ file = NULL /\ packed = NotPacked
    /\ polls = 0
    /\ output = [j \in 1 .. Jobs |-> NoObject]
    /\ stale = {}

\* A call returns, and the connection stays.
Finish == pc' = "ready" /\ polls' = 0 /\ list' = <<>> /\ ForgetProfiles

\* A step that fails, or that changes nothing more, ends the call.
End(from) ==
    /\ pc = from
    /\ Finish
    /\ UNCHANGED <<link, job, raf, setBy, pending, objects, output, stale>>

\* A step that only asks the camera.
Ask(from, to) == Goto(from, to) /\ UNCHANGED others

\* History: a result that no earlier call took is in the camera, or comes.
NoteStale == stale' = IF pending # <<>> \/ objects # <<>>
                      THEN stale \cup {job + 1} ELSE stale

\* Mutant: the transport is not looked at.
process_raf_anywhere ==
    /\ Goto("ready", "raf_info")
    /\ job < Jobs
    /\ job' = job + 1
    /\ file' \in UserFiles
    /\ NoteStale
    /\ UNCHANGED <<link, raf, setBy, pending, objects, fetched, packed, polls,
                   list, output>>

\* fuji_process_raf, up to the first transaction.  The RAW file is opened
\* first, and may not be there.
fuji_process_raf ==
    /\ pc = "ready"
    /\ job < Jobs
    /\ job' = job + 1
    /\ NoteStale
    /\ \/ /\ transport = "RAW_CONV"
          /\ pc' = "raf_info"
          /\ file' \in UserFiles
          /\ UNCHANGED <<fetched, packed, polls, list>>
       \/ Finish
    /\ UNCHANGED <<link, raf, setBy, pending, objects, output>>

\* fuji_send_raf
fuji_send_object_info_ex == Ask("raf_info", "raf_send")

fuji_send_object_ex ==
    /\ Goto("raf_send", "get_profile")
    /\ raf' = job
    /\ UNCHANGED <<link, job, setBy, pending, objects, profileVars, polls, list,
                   output, stale>>

GetProfile ==
    /\ Goto("get_profile", "merge")
    /\ fetched' \in CameraProfiles
    /\ UNCHANGED <<link, job, raf, setBy, pending, objects, file, packed, polls,
                   list, output, stale>>

\* What the two profiles parse to (fixed, so that each is parsed once).
UserProfile == [f \in UserFiles |-> fp_parse_fp1(f)]
CameraProfile ==
    [before \in Leftovers |-> [b \in CameraProfiles |-> fp_parse_d185(b, before)]]

\* Mutant: the user's profile replaces the camera's.
MergedWhole(before) == UserProfile[file].fp

\* The camera's profile with the user's settings.  The result code of
\* fp_parse_d185 is not looked at: a profile that is too short leaves in fp
\* what was there before.
Merged(before) ==
    fp_apply_profile(UserProfile[file].fp, CameraProfile[before][fetched].fp)

\* What the caller's variable holds before each word is packed.
Stacks(fp) ==
    {[i \in Words |-> IF i \in DOMAIN g THEN g[i] ELSE 0] :
        g \in [Unset(fp) -> Garbage]}

\* A profile file that cannot be parsed ends the call (one that is missing
\* ends the process, fp/src/xml.c:291).  A profile that cannot be packed
\* does not: profile_len is unsigned, so it is never below zero.
MergeProfiles ==
    /\ pc = "merge"
    /\ IF UserProfile[file].rc # 0
       THEN Finish
       ELSE /\ pc' = "set_profile"
            /\ \E before \in Leftovers : \E stack \in Stacks(Merged(before)) :
                    packed' = fp_create_d185(Merged(before), stack)
            /\ UNCHANGED <<fetched, file, polls, list>>
    /\ UNCHANGED <<link, job, raf, setBy, pending, objects, output, stale>>

\* Mutant: the result code is not looked at.
SetProfileUnchecked ==
    /\ Goto("set_profile", "start")
    /\ setBy' \in {setBy, job}
    /\ ForgetProfiles
    /\ UNCHANGED <<link, job, raf, pending, objects, polls, list, output, stale>>

\* The last use of the profiles.
SetProfile ==
    /\ Goto("set_profile", "start")
    /\ setBy' = job
    /\ ForgetProfiles
    /\ UNCHANGED <<link, job, raf, pending, objects, polls, list, output, stale>>

StartRawConversion ==
    /\ Goto("start", "poll")
    /\ pending' = <<[raf |-> raf, setBy |-> setBy]>>
    /\ UNCHANGED <<link, job, raf, setBy, objects, profileVars, polls, list,
                   output, stale>>

\* The camera has converted the file.
CameraConverts ==
    /\ pending # <<>>
    /\ objects' = objects \o pending
    /\ pending' = <<>>
    /\ UNCHANGED <<pc, link, job, raf, setBy, profileVars, polls, list, output,
                   stale>>

\* Mutant: no limit.
PollForever ==
    /\ Goto("poll", "poll")
    /\ objects = <<>>
    /\ polls' = 1 - polls
    /\ UNCHANGED <<link, job, raf, setBy, pending, objects, profileVars, list,
                   output, stale>>

\* Nothing there yet: the host looks again in a second.  After the twentieth
\* time (End) the call returns 0, and there is no output.
PollNothing ==
    /\ Goto("poll", "poll")
    /\ objects = <<>>
    /\ polls < MaxPolls - 1
    /\ polls' = polls + 1
    /\ UNCHANGED <<link, job, raf, setBy, pending, objects, profileVars, list,
                   output, stale>>

PollFound ==
    /\ Goto("poll", "get_object")
    /\ objects # <<>>
    /\ list' = objects
    /\ polls' = 0
    /\ UNCHANGED <<link, job, raf, setBy, pending, objects, profileVars, output,
                   stale>>

\* Mutant: an output that does not open does not end the call.
FetchWithoutFile ==
    /\ Goto("get_object", "delete")
    /\ output' \in {output, [output EXCEPT ![job] = Head(list)]}
    /\ UNCHANGED <<link, job, raf, setBy, pending, objects, profileVars, polls,
                   list, stale>>

\* The object is fetched, and written to the output.  (If the output does not
\* open, the call ends.)  What fwrite and fclose return is not looked at, so
\* that an output the disk did not take whole goes on as a whole one does.
FetchObject ==
    /\ Goto("get_object", "delete")
    /\ \E written \in {Head(list), Torn} :
            output' = [output EXCEPT ![job] = written]
    /\ UNCHANGED <<link, job, raf, setBy, pending, objects, profileVars, polls,
                   list, stale>>

\* The object whose handle is the first of the list.
DeleteObject ==
    /\ pc = "delete"
    /\ \E i \in DOMAIN objects :
        /\ objects[i] = Head(list)
        /\ objects' = RemoveAt(objects, i)
    /\ Finish
    /\ UNCHANGED <<link, job, raf, setBy, pending, output, stale>>

\* The backup of the settings is object 0.
fujiusb_download_backup ==
    \/ transport = "RAW_CONV" /\ Ask("ready", "backup_info")
    \/ transport # "RAW_CONV" /\ End("ready")

BackupInfo == Ask("backup_info", "backup_get")

\* Restoring does not look at the transport.  A file over 100000 bytes is
\* refused; one that is read short is logged, and sent all the same.
fujiusb_restore_backup == Ask("ready", "restore_info") \/ End("ready")

RestoreInfo == Ask("restore_info", "restore_send")

Usb ==
    /\ UsbNext
    /\ UNCHANGED <<job, raf, setBy, pending, objects, profileVars, polls, list,
                   output, stale>>

Next ==
    \/ fuji_process_raf \/ fujiusb_download_backup \/ fujiusb_restore_backup
    \/ fuji_send_object_info_ex \/ fuji_send_object_ex \/ GetProfile
    \/ MergeProfiles \/ SetProfile \/ StartRawConversion
    \/ PollNothing \/ PollFound \/ FetchObject \/ DeleteObject
    \/ BackupInfo \/ RestoreInfo
    \/ \E p \in (InConversion \cup InBackup) \ {"merge"} : End(p)
    \/ Usb \/ CameraConverts

Places == InConversion \cup InBackup \cup InSetup \cup {"idle", "ready"}

\* The library goes on with a call it is in.
GoesOn ==
    /\ pc \notin {"idle", "ready"}
    /\ pc' \in Places /\ polls' \in 0 .. MaxPolls /\ handshakes' \in 0 .. 3

Fairness == WF_<<pc, polls, handshakes>>(GoesOn)

Spec == Init /\ [][Next]_vars /\ Fairness
-----------------------------------------------------------------------------
TypeOK ==
    /\ pc \in Places
    /\ transport \in {"WIRELESS_TETHER"} \cup {Feature(m) : m \in UsbModes}
    /\ job \in 0 .. Jobs /\ raf \in 0 .. job /\ setBy \in 0 .. job
    /\ stale \subseteq 1 .. job
    /\ Len(pending) <= 1 /\ Len(objects) <= Jobs
    /\ handshakes \in 0 .. 3
    /\ polls \in 0 .. MaxPolls
    /\ packed.rc \in {-1, 629}

\* fuji_process_raf and fujiusb_download_backup talk only to a camera that is
\* in the mode for RAW conversion and backup: the transport that their guard
\* reads is the mode of the camera connected now, whatever cameras and modes
\* were connected before it and however their set-up ended.
OnlyInRawMode == pc \in InConversion \cup (InBackup \ {"restore_info",
                                                       "restore_send"})
                    => usbMode = 6

\* A profile a camera answers with and the library has the tables for survives
\* being parsed and packed, whatever the profile variable held before: the
\* words of the known settings come back, the packed profile parses to the
\* same profile, and every setting has a text.  The test of the profile
\* library does this to the profiles of three cameras (parse_raw_files).
RoundTrip ==
    pc = "merge" /\ Readable(fetched) =>
        \A before \in Leftovers :
            LET in == CameraProfile[before][fetched]
                out == fp_create_d185(in.fp, [i \in Words |-> 0])
            IN /\ in.rc = 0 /\ out.rc > 0
               /\ \A i \in 1 .. fetched.n_props :
                    D185Props[i] \in Unknown \/ out.bin.words[i]
                                                  = WordOf(fetched, i)
               /\ fp_parse_d185(out.bin, before) = in
               /\ fp_dump_struct(in.fp) = 0

\* The settings fp_apply_profile leaves out because they are untested reach
\* the camera as the camera reported them, and the film simulation as the
\* user chose it: neither parsing, merging nor packing mixes up the words of a
\* profile that the library has the tables for.
UntestedAreKept ==
    packed.rc > 0 /\ Readable(fetched) =>
        \A i \in Words :
            /\ D185Props[i] \in {"LensModulationOpt", "ColorSpace", "Clarity"}
                => packed.bin.words[i] = WordOf(fetched, i)
            /\ D185Props[i] = "FilmSimulation"
                => packed.bin.words[i] = UserProfile[file].fp[D185Props[i]]

\* An output is the conversion of the call's own RAW file with the profile the
\* call set, whole or cut short by the disk, unless an earlier call had left
\* its result in the camera (it timed out, could not open its output or could
\* not delete the object).
OutputIsOwn ==
    \A j \in 1 .. Jobs \ stale :
        output[j] \in {NoObject, Torn, [raf |-> j, setBy |-> j]}

\* A result leaves the camera only after the call has opened its output and
\* handed that very result to the disk: nothing that fails in the camera, in
\* the connection or in opening the output loses a converted picture, also one
\* of an earlier call.  What the disk does with it is not looked at, and a
\* result of which it kept a part only is deleted all the same (Torn).
NoResultLost ==
    [][\A i \in DOMAIN objects :
            (\A k \in DOMAIN objects' : objects'[k] # objects[i])
                => output'[job] \in {objects[i], Torn}]_vars

\* Every call of the library returns, whatever the camera does.
CallsReturn == (pc \notin {"idle", "ready"}) ~> (pc \in {"idle", "ready"})

\* A profile that could not be packed is not set: "Error creating d185"
\* (lib/fuji_usb.c:374) is meant to end the call.
UnpackableIsNotSet == pc = "set_profile" => packed.rc > 0
=============================================================================
