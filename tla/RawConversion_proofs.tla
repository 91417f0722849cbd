------------------------ MODULE RawConversion_proofs ------------------------
(***************************************************************************)
(* Proofs about RawConversion, for any number of conversions and of        *)
(* connections, any profiles and any content of uninitialised memory: a    *)
(* conversion talks to a camera in the mode for it only, its output is     *)
(* that of its own file and profile, no result is lost, and the merged     *)
(* profile has the settings of the camera and of the user that it should.  *)
(***************************************************************************)
EXTENDS RawConversion, ProfileD185_proofs

(* Where a conversion has not started the camera yet, and where it has.    *)
Before == {"raf_info", "raf_send", "get_profile", "merge", "set_profile", "start"}
RafSent == {"get_profile", "merge", "set_profile", "start"}
After == {"poll", "get_object", "delete"}
Own(j) == [raf |-> j, setBy |-> j]
RawOnly == InConversion \cup {"backup_info", "backup_get"}

\* The transport is the mode of the camera from the end of the set-up on, and
\* the guards of the two calls have looked at it.
ModeInv ==
    /\ usbMode \in UsbModes
    /\ pc \in InConversion \cup InBackup \cup {"ready"} => transport = Feature(usbMode)
    /\ pc \in RawOnly => transport = "RAW_CONV"

\* The running conversion has an output.
JobInv ==
    /\ job \in 0 .. Jobs /\ (pc \in InConversion => job \in 1 .. Jobs)
    /\ stale \subseteq 1 .. job
    /\ output = [j \in 1 .. Jobs |-> output[j]]
    /\ OutputIsOwn

\* What is in the camera is the conversion's own from the place where it is
\* sent, and unless something was there when the call began nothing else is.
SentInv ==
    /\ pc \in RafSent => raf = job
    /\ pc = "start" => setBy = job

CleanInv == job \notin stale =>
    /\ pc \in Before => pending = <<>> /\ objects = <<>>
    /\ pc \in After => pending \in Seq({Own(job)}) /\ objects \in Seq({Own(job)})
    /\ pc \in {"get_object", "delete"} => list \in Seq({Own(job)}) /\ list # <<>>

\* The results in the camera, and what may still become one.
Object == [raf : 0 .. Jobs, setBy : 0 .. Jobs]

\* Every conversion leaves one result at most: those in the camera, the one it
\* works on and the one the running call will ask for are of different jobs.
CountInv ==
    /\ pending \in Seq(Object) /\ objects \in Seq(Object)
    /\ Len(pending) <= 1
    /\ Len(objects) + Len(pending) + (IF pc \in Before THEN 1 ELSE 0) <= job

\* The places, and the counters of the host and of the camera.
PlaceInv == pc \in Places

Transports == {"WIRELESS_TETHER"} \cup {Feature(m) : m \in UsbModes}

NumberInv ==
    /\ transport \in Transports
    /\ job \in 0 .. Jobs /\ raf \in 0 .. job /\ setBy \in 0 .. job
    /\ handshakes \in 0 .. 3
    /\ polls \in 0 .. MaxPolls

TypeInv == PlaceInv /\ NumberInv

\* What is about to be deleted has been written, as far as the disk took it.
WrittenInv == pc = "delete" => output[job] \in {Head(list), Torn}

\* The profiles: what is packed is the merge of the fetched profile and the
\* user's file, over some content of uninitialised memory.
HoldsFile == {"raf_info", "raf_send", "get_profile", "merge", "set_profile"}

ProfileInv ==
    /\ pc \in HoldsFile => file \in UserFiles
    /\ pc \in {"merge", "set_profile"} => fetched \in CameraProfiles
    /\ packed.rc \in {-1, 629}
    /\ packed.rc > 0 => /\ pc = "set_profile" /\ UserProfile[file].rc = 0
                       /\ \E before \in Leftovers : \E stack \in Stacks(Merged(before)) :
                            packed = fp_create_d185(Merged(before), stack)

IInv == /\ ModeInv /\ JobInv /\ SentInv /\ CleanInv
        /\ CountInv /\ TypeInv /\ WrittenInv /\ ProfileInv

-----------------------------------------------------------------------------
(* A sequence without one of its elements has all the others.               *)
LEMMA RemoveAtProperties ==
    ASSUME NEW S, NEW s \in Seq(S), NEW i \in 1 .. Len(s)
    PROVE  /\ RemoveAt(s, i) \in Seq(S)
           /\ Len(RemoveAt(s, i)) = Len(s) - 1
           /\ \A j \in 1 .. Len(s) : j # i =>
                \E k \in DOMAIN RemoveAt(s, i) : RemoveAt(s, i)[k] = s[j]
<1> DEFINE l == SubSeq(s, 1, i - 1)
           r == SubSeq(s, i + 1, Len(s))
<1>1. /\ l \in Seq(S) /\ Len(l) = i - 1
      /\ \A k \in 1 .. i - 1 : l[k] = s[k]
  <2>1. \A k \in 1 .. i - 1 : s[k] \in S
    OBVIOUS
  <2> QED  BY <2>1, SubSeqProperties
<1>2. /\ r \in Seq(S) /\ Len(r) = Len(s) - i
      /\ \A k \in 1 .. Len(s) - i : r[k] = s[k + i]
  <2>1. \A k \in i + 1 .. Len(s) : s[k] \in S
    OBVIOUS
  <2> QED  BY <2>1, SubSeqProperties
<1>3. RemoveAt(s, i) = l \o r
  BY DEF RemoveAt
<1> HIDE DEF l, r
<1>4. /\ l \o r \in Seq(S) /\ Len(l \o r) = Len(s) - 1
      /\ \A k \in 1 .. Len(s) - 1 : (l \o r)[k] = IF k <= i - 1 THEN l[k] ELSE r[k - (i - 1)]
  <2>1. /\ l \o r \in Seq(S) /\ Len(l \o r) = Len(l) + Len(r)
        /\ \A k \in 1 .. Len(l) + Len(r) :
                (l \o r)[k] = IF k <= Len(l) THEN l[k] ELSE r[k - Len(l)]
    BY <1>1, <1>2, ConcatProperties
  <2>2. Len(l) + Len(r) = Len(s) - 1 /\ Len(l) = i - 1
    BY <1>1, <1>2
  <2> QED  BY <2>1, <2>2
<1>5. DOMAIN (l \o r) = 1 .. Len(s) - 1
  BY <1>4, LenProperties
<1>6. ASSUME NEW j \in 1 .. Len(s), j # i
      PROVE  \E k \in DOMAIN (l \o r) : (l \o r)[k] = s[j]
  <2>1. CASE j < i
    <3>1. j \in 1 .. Len(s) - 1 /\ j \in 1 .. i - 1
      BY <2>1
    <3>2. (l \o r)[j] = l[j] /\ l[j] = s[j]
      BY <3>1, <1>1, <1>4
    <3> QED  BY <3>1, <3>2, <1>5
  <2>2. CASE j > i
    <3>1. j - 1 \in 1 .. Len(s) - 1 /\ ~(j - 1 <= i - 1) /\ j - i \in 1 .. Len(s) - i
      BY <2>2
    <3>2. (l \o r)[j - 1] = r[(j - 1) - (i - 1)]
      BY <3>1, <1>4
    <3>3. r[(j - 1) - (i - 1)] = s[j]
      <4>1. (j - 1) - (i - 1) = j - i /\ (j - i) + i = j
        OBVIOUS
      <4> QED  BY <3>1, <4>1, <1>2
    <3> QED  BY <3>1, <3>2, <3>3, <1>5
  <2> QED  BY <1>6, <2>1, <2>2
<1> QED  BY <1>3, <1>4, <1>6

LEMMA InitInv == Init => IInv
<1> SUFFICES ASSUME Init PROVE IInv
  OBVIOUS
<1> USE JobsAssumption DEF Init, UsbInit
<1>1. ModeInv
  BY DEF ModeInv, InConversion, InBackup, RawOnly
<1>2. JobInv
  BY DEF JobInv, OutputIsOwn, InConversion
<1>3. SentInv /\ CleanInv
  BY DEF SentInv, CleanInv, Before, RafSent, After
<1>4. CountInv
  BY DEF CountInv, Before
<1>5. TypeInv
  BY DEF TypeInv, PlaceInv, NumberInv, Transports, Places, UsbModes, Feature, NoMode, MaxPolls
<1>6. WrittenInv /\ ProfileInv
  BY DEF WrittenInv, ProfileInv, HoldsFile, NotPacked
<1> QED  BY <1>1, <1>2, <1>3, <1>4, <1>5, <1>6 DEF IInv

\* The only steps to a place of a conversion are those within it and its
\* beginning; the camera and its mode stay.
LEMMA ModeStep ==
    ASSUME ModeInv, [Next]_vars
    PROVE  ModeInv'
<1> USE DEF ModeInv, InConversion, InBackup, RawOnly, vars, others, link, Goto
<1>0. CASE UNCHANGED vars
  BY <1>0
<1>1. CASE \/ fuji_process_raf \/ fujiusb_download_backup
  BY <1>1 DEF fuji_process_raf, fujiusb_download_backup, Ask, End, Finish
<1>2. CASE fujiusb_restore_backup
  BY <1>2 DEF fujiusb_restore_backup, Ask, End, Finish
<1>3. CASE \/ fuji_send_object_info_ex \/ fuji_send_object_ex \/ GetProfile
           \/ SetProfile \/ StartRawConversion
  BY <1>3 DEF fuji_send_object_info_ex, fuji_send_object_ex, GetProfile, SetProfile,
      StartRawConversion, Ask
<1>4. CASE MergeProfiles
  BY <1>4 DEF MergeProfiles, Finish
<1>5. CASE PollNothing \/ PollFound \/ FetchObject \/ BackupInfo \/ RestoreInfo
  BY <1>5 DEF PollNothing, PollFound, FetchObject, BackupInfo, RestoreInfo, Ask
<1>6. CASE DeleteObject
  BY <1>6 DEF DeleteObject, Finish
<1>7. ASSUME NEW p \in (InConversion \cup InBackup) \ {"merge"}, End(p)
      PROVE  ModeInv'
  BY <1>7 DEF End, Finish
<1>8. CASE Usb
  <2>1. CASE GetUsbMode
    BY <1>8, <2>1 DEF GetUsbMode, Connected, NotConnected
  <2>2. CASE \/ fujiusb_try_connect \/ fujitether_setup \/ Handshake
             \/ OpenSession \/ GetDeviceInfo \/ Unplug
    BY <2>2 DEF fujiusb_try_connect, fujitether_setup, Handshake, OpenSession,
        GetDeviceInfo, Unplug, NotConnected
  <2> QED  BY <1>8, <2>1, <2>2 DEF Usb, UsbNext
<1>9. CASE CameraConverts
  BY <1>9 DEF CameraConverts
<1> QED
  BY <1>0, <1>1, <1>2, <1>3, <1>4, <1>5, <1>6, <1>7, <1>8, <1>9 DEF Next

\* The conversion's own result and no other.
LEMMA OwnStep ==
    ASSUME JobInv, SentInv, CleanInv, [Next]_vars
    PROVE  JobInv' /\ SentInv' /\ CleanInv'
<1> USE JobsAssumption DEF JobInv, SentInv, CleanInv, OutputIsOwn, Before, RafSent, After,
    Own, NoObject, Torn, InConversion, vars, others, link, Goto
<1>0. CASE UNCHANGED vars
  BY <1>0
<1>1. CASE fuji_process_raf
  <2>1. /\ job' = job + 1 /\ job' \in 1 .. Jobs
        /\ pc' \in {"raf_info", "ready"}
        /\ UNCHANGED <<raf, setBy, pending, objects, output>>
    BY <1>1 DEF fuji_process_raf, Finish
  <2>2. /\ stale \subseteq stale' /\ stale' \subseteq stale \cup {job'}
        /\ job' \notin stale' => pending = <<>> /\ objects = <<>>
    BY <1>1 DEF fuji_process_raf, NoteStale
  <2> QED  BY <2>1, <2>2
<1>2. CASE fujiusb_download_backup \/ fujiusb_restore_backup
  BY <1>2 DEF fujiusb_download_backup, fujiusb_restore_backup, Ask, End, Finish
<1>3. CASE fuji_send_object_info_ex \/ fuji_send_object_ex \/ GetProfile \/ SetProfile
  BY <1>3 DEF fuji_send_object_info_ex, fuji_send_object_ex, GetProfile, SetProfile, Ask
<1>4. CASE MergeProfiles
  BY <1>4 DEF MergeProfiles, Finish
<1>5. CASE StartRawConversion
  <2>1. /\ raf = job /\ setBy = job /\ pc' = "poll"
        /\ pending' = <<Own(job)>>
        /\ UNCHANGED <<job, raf, setBy, objects, output, stale>>
    BY <1>5 DEF StartRawConversion
  <2>2. pending' \in Seq({Own(job)})
    BY <2>1
  <2>3. job \notin stale => objects' \in Seq({Own(job)})
    BY <1>5, <2>1 DEF StartRawConversion
  <2>4. JobInv' /\ SentInv'
    BY <2>1, <1>5 DEF StartRawConversion
  <2>5. CleanInv'
    BY <2>1, <2>2, <2>3
  <2> QED  BY <2>4, <2>5
<1>6. CASE PollNothing \/ PollFound \/ BackupInfo \/ RestoreInfo
  BY <1>6 DEF PollNothing, PollFound, BackupInfo, RestoreInfo, Ask
<1>7. CASE FetchObject
  <2>1. job \notin stale => Head(list) = Own(job)
    BY <1>7 DEF FetchObject
  <2>2. PICK written \in {Head(list), Torn} : output' = [output EXCEPT ![job] = written]
    BY <1>7 DEF FetchObject
  <2> QED  BY <1>7, <2>1, <2>2 DEF FetchObject
<1>8. CASE DeleteObject
  BY <1>8 DEF DeleteObject, Finish
<1>9. ASSUME NEW p \in (InConversion \cup InBackup) \ {"merge"}, End(p)
      PROVE  JobInv' /\ SentInv' /\ CleanInv'
  BY <1>9 DEF End, Finish
<1>10. CASE Usb
  <2>1. pc' \in {"idle", "ready", "handshake", "open_session", "device_info", "get_mode"}
    BY <1>10 DEF Usb, UsbNext, fujiusb_try_connect, fujitether_setup, Handshake,
        OpenSession, GetDeviceInfo, GetUsbMode, Unplug, Connected, NotConnected
  <2> QED  BY <1>10, <2>1 DEF Usb
<1>11. CASE CameraConverts
  BY <1>11 DEF CameraConverts
<1> QED
  BY <1>0, <1>1, <1>2, <1>3, <1>4, <1>5, <1>6, <1>7, <1>8, <1>9, <1>10, <1>11 DEF Next

\* The places that the steps of the set-up lead from and to.
LEMMA UsbPlaces ==
    ASSUME Usb
    PROVE  pc \in InSetup \cup {"idle", "ready"} /\ pc' \in InSetup \cup {"idle", "ready"}
BY DEF Usb, UsbNext, fujiusb_try_connect, fujitether_setup, Handshake, OpenSession,
    GetDeviceInfo, GetUsbMode, Unplug, Connected, NotConnected, Goto, InSetup

LEMMA PlaceStep ==
    ASSUME PlaceInv, [Next]_vars
    PROVE  PlaceInv'
<1> USE DEF PlaceInv, Places, InConversion, InBackup, Goto, others
<1>0. CASE UNCHANGED vars
  BY <1>0 DEF vars
<1>1. CASE fuji_process_raf \/ MergeProfiles \/ DeleteObject
  BY <1>1 DEF fuji_process_raf, MergeProfiles, DeleteObject, Finish
<1>2. CASE fujiusb_download_backup \/ fujiusb_restore_backup
  BY <1>2 DEF fujiusb_download_backup, fujiusb_restore_backup, Ask, End, Finish
<1>3. CASE fuji_send_object_info_ex \/ fuji_send_object_ex \/ GetProfile
  BY <1>3 DEF fuji_send_object_info_ex, fuji_send_object_ex, GetProfile, Ask
<1>4. CASE SetProfile \/ StartRawConversion \/ PollNothing \/ PollFound \/ FetchObject
  BY <1>4 DEF SetProfile, StartRawConversion, PollNothing, PollFound, FetchObject
<1>5. CASE BackupInfo \/ RestoreInfo
  BY <1>5 DEF BackupInfo, RestoreInfo, Ask
<1>6. ASSUME NEW p \in (InConversion \cup InBackup) \ {"merge"}, End(p)
      PROVE  PlaceInv'
  BY <1>6 DEF End, Finish
<1>7. CASE Usb
  BY <1>7, UsbPlaces DEF InSetup
<1>8. CASE CameraConverts
  BY <1>8 DEF CameraConverts
<1> QED
  BY <1>0, <1>1, <1>2, <1>3, <1>4, <1>5, <1>6, <1>7, <1>8 DEF Next

LEMMA NumberStep ==
    ASSUME ModeInv, NumberInv, [Next]_vars
    PROVE  NumberInv'
<1> USE JobsAssumption DEF NumberInv, MaxPolls, link, Goto
<1>0. CASE UNCHANGED vars
  BY <1>0 DEF vars, others
<1>1. CASE fuji_process_raf
  BY <1>1 DEF fuji_process_raf, Finish
<1>2. CASE MergeProfiles
  BY <1>2 DEF MergeProfiles, Finish
<1>3. CASE DeleteObject
  BY <1>3 DEF DeleteObject, Finish
<1>4. ASSUME NEW p, End(p)
      PROVE  NumberInv'
  BY <1>4 DEF End, Finish
<1>5. ASSUME NEW from, NEW to, Ask(from, to)
      PROVE  NumberInv'
  BY <1>5 DEF Ask, others
<1>6. CASE fujiusb_download_backup \/ fujiusb_restore_backup
  BY <1>4, <1>5, <1>6 DEF fujiusb_download_backup, fujiusb_restore_backup
<1>7. CASE fuji_send_object_info_ex \/ BackupInfo \/ RestoreInfo
  BY <1>5, <1>7 DEF fuji_send_object_info_ex, BackupInfo, RestoreInfo
<1>8. CASE fuji_send_object_ex \/ GetProfile \/ SetProfile \/ StartRawConversion
  BY <1>8 DEF fuji_send_object_ex, GetProfile, SetProfile, StartRawConversion
<1>9. CASE PollNothing
  BY <1>9 DEF PollNothing
<1>10. CASE PollFound
  BY <1>10 DEF PollFound
<1>11. CASE FetchObject
  BY <1>11 DEF FetchObject
<1>12. CASE Usb
  <2> USE <1>12 DEF Usb
  <2>1. CASE fujiusb_try_connect \/ fujitether_setup
    <3>1. {"USB", "WIRELESS_TETHER"} \subseteq Transports
      BY DEF Transports, UsbModes, Feature, NoMode
    <3> QED  BY <2>1, <3>1 DEF fujiusb_try_connect, fujitether_setup
  <2>2. CASE Handshake
    BY <2>2 DEF Handshake
  <2>3. CASE OpenSession \/ GetDeviceInfo \/ Unplug
    BY <2>3 DEF OpenSession, GetDeviceInfo, Unplug
  <2>4. CASE GetUsbMode
    <3>1. transport' \in Transports
      BY <2>4 DEF GetUsbMode, ModeInv, Transports
    <3> QED  BY <2>4, <3>1 DEF GetUsbMode
  <2> QED  BY <2>1, <2>2, <2>3, <2>4 DEF UsbNext
<1>13. CASE CameraConverts
  BY <1>13 DEF CameraConverts
<1> QED
  BY <1>0, <1>1, <1>2, <1>3, <1>4, <1>6, <1>7, <1>8, <1>9, <1>10, <1>11, <1>12, <1>13 DEF Next

\* A result more needs a conversion more, and a delete takes one away.
LEMMA CountStep ==
    ASSUME NumberInv, CountInv, [Next]_vars
    PROVE  CountInv'
<1> USE JobsAssumption DEF CountInv, Before, Object, Goto, link
<1>0. CASE UNCHANGED vars
  BY <1>0 DEF vars, others
<1>1. CASE fuji_process_raf
  <2>1. /\ job \in Nat /\ job' = job + 1 /\ pc = "ready" /\ UNCHANGED <<pending, objects>>
    BY <1>1 DEF fuji_process_raf, NumberInv
  <2> QED  BY <2>1
<1>2. CASE MergeProfiles
  <2>1. pc = "merge" /\ UNCHANGED <<pending, objects, job>>
    BY <1>2 DEF MergeProfiles
  <2>2. Len(objects) \in Nat /\ Len(pending) \in Nat /\ job \in Nat
    <3> HIDE DEF Object
    <3> QED  BY LenProperties DEF NumberInv
  <2> QED  BY <2>1, <2>2
<1>3. ASSUME NEW p, End(p)
      PROVE  CountInv'
  BY <1>3 DEF End, Finish, NumberInv
<1>4. CASE fujiusb_download_backup \/ fujiusb_restore_backup
  BY <1>3, <1>4 DEF fujiusb_download_backup, fujiusb_restore_backup, Ask, others
<1>5. CASE fuji_send_object_info_ex \/ fuji_send_object_ex \/ GetProfile \/ SetProfile
  BY <1>5 DEF fuji_send_object_info_ex, fuji_send_object_ex, GetProfile, SetProfile, Ask, others
<1>6. CASE StartRawConversion
  <2>1. [raf |-> raf, setBy |-> setBy] \in Object
    BY DEF NumberInv
  <2>2. /\ pc = "start" /\ pc' = "poll"
        /\ pending' = <<[raf |-> raf, setBy |-> setBy]>>
        /\ objects' = objects /\ job' = job
    BY <1>6 DEF StartRawConversion
  <2> HIDE DEF Object
  <2>3. pending' \in Seq(Object) /\ Len(pending') = 1
    BY <2>1, <2>2
  <2>4. Len(objects) \in Nat /\ Len(pending) \in Nat /\ job \in Nat
    BY LenProperties DEF NumberInv
  <2>5. Len(objects) + 1 <= job
    BY <2>2, <2>4
  <2> QED  BY <2>2, <2>3, <2>4, <2>5
<1>7. CASE PollNothing \/ PollFound \/ FetchObject \/ BackupInfo \/ RestoreInfo
  BY <1>7 DEF PollNothing, PollFound, FetchObject, BackupInfo, RestoreInfo, Ask, others
<1>8. CASE DeleteObject
  <2> HIDE DEF Object
  <2>1. PICK i \in DOMAIN objects : objects' = RemoveAt(objects, i)
    BY <1>8 DEF DeleteObject
  <2>2. objects' \in Seq(Object) /\ Len(objects') = Len(objects) - 1
    BY <2>1, RemoveAtProperties, LenProperties
  <2>3. /\ pc = "delete" /\ pc' = "ready" /\ pending' = pending /\ job' = job
        /\ job \in Nat
    BY <1>8 DEF DeleteObject, Finish, NumberInv
  <2> QED  BY <2>2, <2>3, LenProperties
<1>9. CASE Usb
  BY <1>9, UsbPlaces DEF Usb, InSetup
<1>10. CASE CameraConverts
  <2> HIDE DEF Object
  <2>1. objects' = objects \o pending /\ pending' = <<>> /\ pc' = pc /\ job' = job
    BY <1>10 DEF CameraConverts
  <2>2. objects' \in Seq(Object) /\ Len(objects') = Len(objects) + Len(pending)
    BY <2>1, ConcatProperties
  <2>3. pending' \in Seq(Object) /\ Len(pending') = 0
    BY <2>1, EmptySeq
  <2> QED  BY <2>1, <2>2, <2>3, LenProperties
<1> QED
  BY <1>0, <1>1, <1>2, <1>3, <1>4, <1>5, <1>6, <1>7, <1>8, <1>9, <1>10 DEF Next

\* The object is written before it is deleted, and the list is not asked again.
LEMMA WrittenStep ==
    ASSUME JobInv, WrittenInv, [Next]_vars
    PROVE  WrittenInv'
<1> USE DEF WrittenInv, Goto, link
<1>0. CASE UNCHANGED vars
  BY <1>0 DEF vars, others
<1>1. CASE fuji_process_raf \/ MergeProfiles \/ DeleteObject
  BY <1>1 DEF fuji_process_raf, MergeProfiles, DeleteObject, Finish
<1>2. ASSUME NEW p, End(p)
      PROVE  WrittenInv'
  BY <1>2 DEF End, Finish
<1>3. CASE fujiusb_download_backup \/ fujiusb_restore_backup
  BY <1>2, <1>3 DEF fujiusb_download_backup, fujiusb_restore_backup, Ask
<1>4. CASE fuji_send_object_info_ex \/ fuji_send_object_ex \/ GetProfile \/ SetProfile
  BY <1>4 DEF fuji_send_object_info_ex, fuji_send_object_ex, GetProfile, SetProfile, Ask
<1>5. CASE StartRawConversion \/ PollNothing \/ PollFound \/ BackupInfo \/ RestoreInfo
  BY <1>5 DEF StartRawConversion, PollNothing, PollFound, BackupInfo, RestoreInfo, Ask
<1>6. CASE FetchObject
  <2>1. job \in 1 .. Jobs /\ output = [j \in 1 .. Jobs |-> output[j]]
    BY <1>6 DEF FetchObject, JobInv, InConversion
  <2>2. PICK written \in {Head(list), Torn} : output' = [output EXCEPT ![job] = written]
    BY <1>6 DEF FetchObject
  <2> QED  BY <1>6, <2>1, <2>2 DEF FetchObject
<1>7. CASE Usb
  BY <1>7, UsbPlaces DEF InSetup
<1>8. CASE CameraConverts
  BY <1>8 DEF CameraConverts
<1> QED
  BY <1>0, <1>1, <1>2, <1>3, <1>4, <1>5, <1>6, <1>7, <1>8 DEF Next

\* A packed profile exists between its merge and its use only.
LEMMA ProfileStep ==
    ASSUME ProfileInv, [Next]_vars
    PROVE  ProfileInv'
<1>a. ASSUME UNCHANGED <<fetched, file, packed>>, pc' = pc
      PROVE  ProfileInv'
  BY <1>a DEF ProfileInv, Merged
<1>b. ASSUME ForgetProfiles, pc' \notin HoldsFile
      PROVE  ProfileInv'
  BY <1>b DEF ProfileInv, HoldsFile, ForgetProfiles, NotPacked
<1>c. ASSUME UNCHANGED packed, pc # "set_profile", pc' \notin HoldsFile
      PROVE  ProfileInv'
  BY <1>c DEF ProfileInv, HoldsFile
<1>d. ASSUME UNCHANGED packed, pc # "set_profile",
             file' \in UserFiles, pc' \notin {"merge", "set_profile"}
      PROVE  ProfileInv'
  BY <1>d DEF ProfileInv
<1> USE DEF Goto, link, profileVars, HoldsFile
<1>0. CASE UNCHANGED vars
  BY <1>0, <1>a DEF vars, others
<1>1. CASE fuji_process_raf
  <2>1. CASE Finish
    BY <2>1, <1>b DEF Finish
  <2>2. CASE UNCHANGED packed /\ pc' = "raf_info" /\ file' \in UserFiles
    BY <1>1, <2>2, <1>d DEF fuji_process_raf
  <2> QED  BY <1>1, <2>1, <2>2 DEF fuji_process_raf
<1>2. CASE DeleteObject
  BY <1>2, <1>b DEF DeleteObject, Finish
<1>3. ASSUME NEW p, End(p)
      PROVE  ProfileInv'
  BY <1>3, <1>b DEF End, Finish
<1>4. CASE fujiusb_download_backup \/ fujiusb_restore_backup
  BY <1>3, <1>4, <1>c DEF fujiusb_download_backup, fujiusb_restore_backup, Ask, others
<1>5. CASE fuji_send_object_info_ex \/ fuji_send_object_ex
  BY <1>5, <1>d DEF fuji_send_object_info_ex, fuji_send_object_ex, Ask, others, ProfileInv
<1>6. CASE GetProfile
  BY <1>6 DEF GetProfile, ProfileInv
<1>7. CASE MergeProfiles
  <2>1. CASE Finish
    BY <2>1, <1>b DEF Finish
  <2>2. CASE /\ UserProfile[file].rc = 0 /\ pc' = "set_profile"
             /\ \E before \in Leftovers : \E stack \in Stacks(Merged(before)) :
                    packed' = fp_create_d185(Merged(before), stack)
             /\ UNCHANGED <<fetched, file, polls, list>>
    <3>0. PICK before \in Leftovers : \E stack \in Stacks(Merged(before)) :
                packed' = fp_create_d185(Merged(before), stack)
      BY <2>2
    <3>1. PICK stack \in Stacks(Merged(before)) :
                packed' = fp_create_d185(Merged(before), stack)
      BY <3>0
    <3>2. packed'.rc \in {-1, 629}
      BY <3>1 DEF fp_create_d185
    <3>3. Merged(before)' = Merged(before)
      BY <2>2 DEF Merged
    <3>4. \E b \in Leftovers : \E s \in Stacks(Merged(b))' :
                packed' = fp_create_d185(Merged(b), s)'
      BY <3>1, <3>3
    <3>5. fetched \in CameraProfiles /\ file \in UserFiles
      BY <1>7 DEF ProfileInv, MergeProfiles
    <3>6. (UserProfile[file].rc = 0)'
      BY <2>2 DEF UserProfile
    <3> QED  BY <2>2, <3>2, <3>4, <3>5, <3>6 DEF ProfileInv
  <2> QED  BY <1>7, <2>1, <2>2 DEF MergeProfiles
<1>8. CASE SetProfile
  BY <1>8, <1>b DEF SetProfile
<1>9. CASE StartRawConversion \/ PollNothing \/ PollFound \/ FetchObject
  BY <1>9, <1>c DEF StartRawConversion, PollNothing, PollFound, FetchObject
<1>10. CASE Usb
  BY <1>10, <1>c, UsbPlaces DEF Usb, InSetup
<1>11. CASE CameraConverts
  BY <1>11, <1>a DEF CameraConverts
<1>12. CASE BackupInfo \/ RestoreInfo
  BY <1>12, <1>c DEF BackupInfo, RestoreInfo, Ask, others
<1> QED
  BY <1>0, <1>1, <1>2, <1>3, <1>4, <1>5, <1>6, <1>7, <1>8, <1>9, <1>10, <1>11, <1>12 DEF Next

\* The inductive invariant.
THEOREM Invariance == Spec => []IInv
<1>1. IInv /\ [Next]_vars => IInv'
  BY ModeStep, OwnStep, PlaceStep, NumberStep, CountStep, WrittenStep, ProfileStep
  DEF IInv, TypeInv
<1> QED  BY InitInv, <1>1, PTL DEF Spec

\* Only a camera in the mode for RAW conversion is asked for a conversion or
\* for its backup, after any sequence of connections.
THEOREM RawModeOnly == Spec => []OnlyInRawMode
<1>1. ModeInv => OnlyInRawMode
  BY DEF ModeInv, OnlyInRawMode, RawOnly, InBackup, InConversion, UsbModes, Feature, NoMode
<1> QED  BY Invariance, <1>1, PTL DEF IInv

\* The output of a conversion is of its own file and profile, for any number of
\* conversions that fail or time out at any place; a conversion that began
\* while an older result was in the camera is excepted.
THEOREM OutputOfTheFile == Spec => []OutputIsOwn
<1>1. JobInv => OutputIsOwn
  BY Zenon DEF JobInv
<1> QED  BY Invariance, <1>1, PTL DEF IInv

\* Every variable of a conversion keeps its type, and the camera never holds
\* more results than there were conversions.
THEOREM TypeCorrect == Spec => []TypeOK
<1>1. IInv => TypeOK
  <2> SUFFICES ASSUME IInv PROVE TypeOK
    OBVIOUS
  <2>1. Len(pending) <= 1 /\ Len(objects) <= Jobs
    <3>1. /\ pending \in Seq(Object) /\ objects \in Seq(Object) /\ Len(pending) <= 1
          /\ Len(objects) + Len(pending) + (IF pc \in Before THEN 1 ELSE 0) <= job
      BY DEF IInv, CountInv
    <3>2. Len(objects) \in Nat /\ Len(pending) \in Nat
      BY <3>1, LenProperties
    <3>3. job \in 0 .. Jobs
      BY DEF IInv, TypeInv, NumberInv
    <3> QED  BY <3>1, <3>2, <3>3, JobsAssumption
  <2> QED
    BY <2>1 DEF IInv, TypeInv, PlaceInv, NumberInv, Transports, JobInv, ProfileInv, TypeOK
<1> QED  BY Invariance, <1>1, PTL

\* A result leaves the camera only after it has been handed to the disk as the
\* output of the running call (which may keep a part of it only, since fwrite
\* and fclose are not looked at), whatever else fails and whatever earlier
\* calls left there.
THEOREM ResultsAreKept == Spec => NoResultLost
<1> DEFINE Kept == \A i \in DOMAIN objects :
                        (\A k \in DOMAIN objects' : objects'[k] # objects[i])
                            => output'[job] \in {objects[i], Torn}
<1>1. ASSUME IInv, Next PROVE Kept
  <2>1. CASE objects' = objects
    BY <2>1
  <2>2. CASE DeleteObject
    <3>1. PICK r \in DOMAIN objects : /\ objects[r] = Head(list)
                                      /\ objects' = RemoveAt(objects, r)
      BY <2>2 DEF DeleteObject
    <3>2. output' = output /\ output[job] \in {Head(list), Torn}
      BY <1>1, <2>2 DEF DeleteObject, IInv, WrittenInv
    <3>3. \A i \in DOMAIN objects : i # r => \E k \in DOMAIN objects' : objects'[k] = objects[i]
      <4>1. objects \in Seq(Object) /\ DOMAIN objects = 1 .. Len(objects)
        BY <1>1, LenProperties DEF IInv, CountInv
      <4> QED  BY <3>1, <4>1, RemoveAtProperties
    <3> QED  BY <3>1, <3>2, <3>3
  <2>3. CASE CameraConverts
    <3>1. objects' = objects \o pending
      BY <2>3 DEF CameraConverts
    <3>2. \A i \in DOMAIN objects : i \in DOMAIN objects' /\ objects'[i] = objects[i]
      <4>1. objects \in Seq(Object) /\ pending \in Seq(Object)
        BY <1>1 DEF IInv, CountInv
      <4> QED  BY <3>1, <4>1, ConcatProperties, LenProperties
    <3> QED  BY <3>2
  <2>4. ASSUME ~DeleteObject, ~CameraConverts
        PROVE  objects' = objects
    BY <1>1, <2>4 DEF Next, fuji_process_raf, fujiusb_download_backup, fujiusb_restore_backup,
        fuji_send_object_info_ex, fuji_send_object_ex, GetProfile, MergeProfiles, SetProfile,
        StartRawConversion, PollNothing, PollFound, FetchObject, BackupInfo, RestoreInfo, End,
        Ask, Usb, others
  <2> QED  BY <2>1, <2>2, <2>3, <2>4
<1>2. IInv /\ [Next]_vars => [Kept]_vars
  BY <1>1
<1> QED  BY Invariance, <1>2, PTL DEF Spec, NoResultLost

-----------------------------------------------------------------------------
(* Profiles.                                                               *)

\* What fp_apply_profile takes from where, and that it looks settings up as
\* the camera's processor does.
LEMMA MergedSettings ==
    ASSUME fetched \in CameraProfiles, Readable(fetched), NEW before \in Leftovers
    PROVE  /\ \A f \in Fields \cap {"LensModulationOpt", "ColorSpace", "Clarity"} :
                    Merged(before)[f] = parse_words(fetched).fp[f]
           /\ Merged(before)["FilmSimulation"] = UserProfile[file].fp["FilmSimulation"]
           /\ Table(Merged(before)) = Table([IOPCode |-> fetched.iop_code])
<1>0. Listed(fetched) /\ fp_parse_d185(fetched, before) = parse_words(fetched)
  BY DEF Readable, fp_parse_d185
<1>1. PICK from, to : from = UserProfile[file].fp /\ to = parse_words(fetched).fp
  OBVIOUS
<1>2. Merged(before) = [f \in Fields |-> IF f \in Applied THEN from[f] ELSE to[f]]
  BY <1>0, <1>1 DEF Merged, CameraProfile, fp_apply_profile
<1>3. {"FilmSimulation", "IOPCode"} \subseteq Fields
  BY FieldNames DEF WithWord, WithoutWord
<1>4. /\ "FilmSimulation" \in Applied
      /\ Applied \cap {"LensModulationOpt", "ColorSpace", "Clarity", "IOPCode"} = {}
  BY <1>3 DEF Applied
<1>5. Merged(before).IOPCode = fetched.iop_code
  BY <1>0, <1>1, <1>2, <1>3, <1>4, ParsedProcessor
<1>6. Table(Merged(before)) = Table([IOPCode |-> fetched.iop_code])
  BY <1>5, SameTables
<1> QED  BY <1>1, <1>2, <1>3, <1>4, <1>6

\* Every profile that a camera answers with and the library has the tables for
\* survives the library's round trip, whatever call fetched it and whatever
\* was in memory (fp_parse_d185, fp_create_d185).
THEOREM ProfilesRoundTrip == Spec => []RoundTrip
<1>1. ASSUME IInv, pc = "merge", Readable(fetched), NEW before \in Leftovers
      PROVE  LET in == CameraProfile[before][fetched]
                 out == fp_create_d185(in.fp, [i \in Words |-> 0])
             IN /\ in.rc = 0 /\ out.rc > 0
                /\ \A i \in 1 .. fetched.n_props :
                    D185Props[i] \in Unknown \/ out.bin.words[i] = WordOf(fetched, i)
                /\ fp_parse_d185(out.bin, before) = in
                /\ fp_dump_struct(in.fp) = 0
  <2>1. fetched \in CameraProfiles
    BY <1>1 DEF IInv, ProfileInv
  <2>2. CameraProfile[before][fetched] = fp_parse_d185(fetched, before)
    BY <2>1 DEF CameraProfile
  <2> QED  BY <1>1, <2>2, CameraProfileRoundTrip
<1>2. IInv => RoundTrip
  BY <1>1 DEF RoundTrip
<1> QED  BY Invariance, <1>2, PTL

\* The settings that fp_apply_profile leaves out are set as the camera
\* reported them and the film simulation as the user's file names it, whatever
\* was in the uninitialised variable when the words were packed.
THEOREM UntestedSettingsAreKept ==
    ASSUME \A f \in UserFiles : fp_parse_fp1(f).rc = 0
                => fp_parse_fp1(f).fp["FilmSimulation"] \in Values(fp_film_sim)
    PROVE  Spec => []UntestedAreKept
<1>1. ASSUME IInv, packed.rc > 0, Readable(fetched), NEW i \in Words
      PROVE  /\ D185Props[i] \in {"LensModulationOpt", "ColorSpace", "Clarity"}
                    => packed.bin.words[i] = WordOf(fetched, i)
             /\ D185Props[i] = "FilmSimulation"
                    => packed.bin.words[i] = UserProfile[file].fp[D185Props[i]]
  <2>1. /\ pc = "set_profile" /\ file \in UserFiles /\ fetched \in CameraProfiles
        /\ UserProfile[file].rc = 0
    BY <1>1 DEF IInv, ProfileInv, HoldsFile
  <2>2. Listed(fetched)
    BY <1>1 DEF Readable
  <2>a. PICK before \in Leftovers : \E stack : packed = fp_create_d185(Merged(before), stack)
    BY <1>1 DEF IInv, ProfileInv
  <2>3. PICK stack : packed = fp_create_d185(Merged(before), stack)
    BY <2>a
  <2>4. packed.bin.words[i] = get_prop(Merged(before), i, stack[i]).out
    BY <1>1, <2>3 DEF fp_create_d185
  <2>5. ASSUME D185Props[i] \in WithWord,
               Merged(before)[D185Props[i]] \in Values(Table(Merged(before))[D185Props[i]])
        PROVE  packed.bin.words[i] = Merged(before)[D185Props[i]]
    BY <2>4, <2>5 DEF get_prop, copy_value_if_valid, WithWord, Unknown
  <2>6. CASE D185Props[i] \in {"LensModulationOpt", "ColorSpace", "Clarity"}
    <3>1. D185Props[i] \in WithWord /\ D185Props[i] \in Fields
      BY <2>6, FieldNames DEF WithWord
    <3>2. Merged(before)[D185Props[i]] = WordOf(fetched, i)
      <4>1. Merged(before)[D185Props[i]] = parse_words(fetched).fp[D185Props[i]]
        BY <1>1, <2>1, <2>6, <3>1, MergedSettings
      <4>2. parse_words(fetched).fp[D185Props[i]] = WordOf(fetched, i)
        BY <2>2, <3>1, ListedProfile
      <4> QED  BY <4>1, <4>2
    <3>3. WordOf(fetched, i) \in Values(Table(Merged(before))[D185Props[i]])
      BY <1>1, <2>1, <2>2, <2>6, MergedSettings DEF Listed, Unknown
    <3> QED  BY <2>5, <2>6, <3>1, <3>2, <3>3
  <2>7. CASE D185Props[i] = "FilmSimulation"
    <3>1. Merged(before)["FilmSimulation"] = UserProfile[file].fp["FilmSimulation"]
      BY <1>1, <2>1, MergedSettings
    <3>2. Merged(before)["FilmSimulation"] \in Values(fp_film_sim)
      BY <2>1, <3>1 DEF UserProfile
    <3>3. Table(Merged(before))["FilmSimulation"] = fp_film_sim
      BY DEF Table
    <3> QED  BY <2>5, <2>7, <3>1, <3>2, <3>3 DEF WithWord
  <2> QED  BY <2>6, <2>7
<1>2. IInv => UntestedAreKept
  BY <1>1 DEF UntestedAreKept
<1> QED  BY Invariance, <1>2, PTL

\* Where the words of a packed profile come from, except those that were packed
\* from uninitialised memory.
WordsAreMerged ==
    packed.rc > 0 =>
        \E before \in Leftovers :
            LET user == UserProfile[file].fp
                camera == CameraProfile[before][fetched].fp
            IN \A i \in Words \ Unset(Merged(before)) :
                /\ D185Props[i] \in WithWord => packed.bin.words[i]
                        = IF D185Props[i] \in Applied THEN user[D185Props[i]]
                                                      ELSE camera[D185Props[i]]
                /\ D185Props[i] = "GRAIN_EFFECT_AND_SIZE" => packed.bin.words[i]
                        = user["GrainEffect"] + user["GrainEffectSize"]

\* Every setting that is merged reaches the camera as the user's file has it
\* and every other one as the camera reported it, for any profiles at all:
\* packing (fp_create_d185) refuses a value that is in no table, and puts none
\* in the place of another.
THEOREM EverySettingIsMerged == Spec => []WordsAreMerged
<1>1. ASSUME NEW before \in Leftovers, NEW stack, packed.rc > 0,
             packed = fp_create_d185(Merged(before), stack),
             NEW i \in Words \ Unset(Merged(before)),
             NEW user, user = UserProfile[file].fp,
             NEW camera, camera = CameraProfile[before][fetched].fp
      PROVE  /\ D185Props[i] \in WithWord => packed.bin.words[i]
                    = IF D185Props[i] \in Applied THEN user[D185Props[i]]
                                                  ELSE camera[D185Props[i]]
             /\ D185Props[i] = "GRAIN_EFFECT_AND_SIZE" => packed.bin.words[i]
                    = user["GrainEffect"] + user["GrainEffectSize"]
  <2>2. Packable(Merged(before)) /\ packed.bin.words[i] = get_prop(Merged(before), i, stack[i]).out
    BY <1>1 DEF fp_create_d185
  <2>3. get_prop(Merged(before), i, 0).rc = 0
    BY <2>2 DEF Packable
  <2>4. \A f \in Fields : Merged(before)[f] = IF f \in Applied THEN user[f] ELSE camera[f]
    BY <1>1 DEF Merged, fp_apply_profile
  <2>5. CASE D185Props[i] \in WithWord
    <3> DEFINE f == D185Props[i]
    <3>1. f \in Fields /\ f \notin Unknown /\ f # "GRAIN_EFFECT_AND_SIZE"
      BY <2>5, FieldNames DEF WithWord, Unknown
    <3>2. ~(Merged(before)[f] = 0 /\ 0 \notin Values(Table(Merged(before))[f]))
      BY <3>1 DEF Unset
    <3>3. /\ get_prop(Merged(before), i, 0) = copy_value_if_valid(Merged(before)[f], 0, Table(Merged(before))[f])
          /\ get_prop(Merged(before), i, stack[i])
                = copy_value_if_valid(Merged(before)[f], stack[i], Table(Merged(before))[f])
      BY <3>1 DEF get_prop
    <3>4. get_prop(Merged(before), i, stack[i]).out = Merged(before)[f]
      BY <2>3, <3>2, <3>3, Accepted, SameCode
    <3> QED  BY <2>2, <2>4, <3>1, <3>4
  <2>6. CASE D185Props[i] = "GRAIN_EFFECT_AND_SIZE"
    <3>1. Merged(before)["GrainEffect"] # 0
      BY <2>6, SmallIsZero DEF Unset, Unknown
    <3> DEFINE grain(v) == copy_value_if_valid(Merged(before)["GrainEffect"], v,
                                               Table(Merged(before))["GrainEffect"])
               size(v) == copy_value_if_valid(Merged(before)["GrainEffectSize"], v,
                                              Table(Merged(before))["GrainEffectSize"])
    <3>2. grain(0).rc = 0 /\ size(0).rc = 0
      BY <2>3, <2>6 DEF get_prop, Unknown
    <3>3. grain(stack[i]).rc = 0 /\ size(stack[i]).rc = 0
      BY <3>2, SameCode
    <3>4. /\ grain(stack[i]).out = Merged(before)["GrainEffect"]
          /\ size(stack[i]).out = Merged(before)["GrainEffectSize"]
      BY <3>1, <3>3, Accepted, SmallIsZero
    <3>5. get_prop(Merged(before), i, stack[i]).out = grain(stack[i]).out + size(stack[i]).out
      BY <2>6 DEF get_prop, Unknown
    <3>6. {"GrainEffect", "GrainEffectSize"} \subseteq Fields \cap Applied
      BY FieldNames DEF Applied, GrainSettings
    <3> QED  BY <2>2, <2>4, <2>6, <3>4, <3>5, <3>6 DEF WithWord
  <2> QED  BY <2>5, <2>6
<1>2. IInv => WordsAreMerged
  <2> SUFFICES ASSUME IInv, packed.rc > 0 PROVE WordsAreMerged
    BY DEF WordsAreMerged
  <2>0. PICK before \in Leftovers : \E stack : packed = fp_create_d185(Merged(before), stack)
    BY DEF IInv, ProfileInv
  <2>1. PICK stack : packed = fp_create_d185(Merged(before), stack)
    BY <2>0
  <2> QED  BY <2>1, <1>1 DEF WordsAreMerged
<1> QED  BY Invariance, <1>2, PTL
=============================================================================
