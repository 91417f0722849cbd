-------------------------- MODULE FujiModule_proofs --------------------------
(***************************************************************************)
(* Proofs about FujiModule, for any cameras, layouts and setup options and *)
(* any number of runtimes and jobs.                                        *)
(***************************************************************************)
EXTENDS FujiModule, TLAPS

\* A pairing that has got past the token or the acknowledgement is with a
\* camera that knows this client, or with one of the secure pairing that is
\* connected again.  Its signature is one that has been saved.
PairInv ==
    /\ bt \in {"name", "props", "save"} =>
          camera \in accepted \/ (camera \in Secure /\ ~isNew)
    /\ bt \in {"bond", "status"} => camera \in Secure
    /\ bt \in InPairing /\ ~isNew => camera \in signatures

\* What the host holds is c's connection, unless c could not be read.
Known(c) == c \notin unread => ssid = c /\ password \in {NoCamera, c}

\* The device in use is known, except in the step between reading another
\* camera's properties and making it the device in use.
WifiInv ==
    /\ dev # NoCamera /\ bt # "save" => Known(dev)
    /\ bt \in InWifi \cup {"save"} => Known(camera)

\* A place without polls after the EXIF data is told apart by the count.
ThumbInv == polls \in Nat /\ ThumbIsOwn

\* The action of SavedIsAccepted.
SavedIsAcceptedStep ==
    /\ signatures' \ signatures \subseteq accepted
    /\ bt = "save" /\ bt' = "idle" =>
          camera \in accepted \/ (camera \in Secure /\ ~isNew)

IInv == TypeOK /\ PairInv /\ WifiInv /\ ThumbInv

\* Every step keeps the variables in their types.
LEMMA TypeStep ==
    ASSUME TypeOK, [Next]_vars
    PROVE  TypeOK'
<1> USE ModuleAssumption, BluetoothAssumption DEF TypeOK, Running, InPairing, InWifi, InThumb, Places, Wifi, Usb, Runtimes,
    SetupOptions, vars, btVars, runtimeVars, thumbVars, moduleVars, tickVars, priv
<1>0. CASE UNCHANGED vars
  BY <1>0 DEF vars
<1>1. CASE on_try_connect_wifi
  BY <1>1 DEF on_try_connect_wifi, fuji_ptp_new, Starts
<1>2. CASE on_try_connect_usb
  BY <1>2 DEF on_try_connect_usb, fuji_ptp_new, Starts
<1>3. CASE on_try_connect_bluetooth
  BY <1>3 DEF on_try_connect_bluetooth, Starts, fuji_connect_bluetooth, At
<1>4. CASE SwitchWifi
  BY <1>4 DEF SwitchWifi, Starts, fuji_bluetooth_connect_to_wifi, At
<1>5. CASE AllowThumbs
  BY <1>5 DEF AllowThumbs, Starts
<1>6. CASE on_request_thumbnail
  BY <1>6 DEF on_request_thumbnail, Starts
<1>7. CASE SetupOption
  BY <1>7 DEF SetupOption
<1>8. CASE fuji_discover_thread
  BY <1>8 DEF fuji_discover_thread
<1>9. CASE ptpip_connect
  BY <1>9 DEF ptpip_connect
<1>10. CASE fujitether_setup
  BY <1>10 DEF fujitether_setup, Goes, handle_ptperr
<1>11. CASE fuji_setup
  BY <1>11 DEF fuji_setup
<1>12. CASE ptp_close
  BY <1>12 DEF ptp_close, Goes
<1>13. CASE ForgetRuntime
  BY <1>13 DEF ForgetRuntime, Goes
<1>14. CASE UsbOpen
  BY <1>14 DEF UsbOpen
<1>15. CASE fujiusb_setup
  BY <1>15 DEF fujiusb_setup, Goes
<1>16. CASE BluetoothStep
  <2>1. CASE DeviceConnect
    BY <1>16, <2>1 DEF BluetoothStep, DeviceConnect
  <2>2. CASE CreateBond
    BY <1>16, <2>2 DEF BluetoothStep, CreateBond, At
  <2>3. CASE WriteStatus
    BY <1>16, <2>3 DEF BluetoothStep, WriteStatus, At
  <2>4. CASE WriteToken
    BY <1>16, <2>4 DEF BluetoothStep, WriteToken, At
  <2>5. CASE send_client_name
    BY <1>16, <2>5 DEF BluetoothStep, send_client_name, At
  <2>6. CASE fill_props
    BY <1>16, <2>6 DEF BluetoothStep, fill_props, At
  <2>7. CASE SaveSignature
    BY <1>16, <2>7 DEF BluetoothStep, SaveSignature, Returns
  <2>8. CASE Trigger
    BY <1>16, <2>8 DEF BluetoothStep, Trigger, At
  <2>9. CASE Watch
    BY <1>16, <2>9 DEF BluetoothStep, Watch, Returns
  <2>10. CASE BtFails
    BY <1>16, <2>10 DEF BluetoothStep, BtFails, Returns
  <2> QED  BY <1>16, <2>1, <2>2, <2>3, <2>4, <2>5, <2>6, <2>7, <2>8, <2>9, <2>10 DEF BluetoothStep, BtStep
<1>17. CASE ThumbnailStep
  <2>1. CASE TakeLock
    BY <1>17, <2>1 DEF ThumbnailStep, TakeLock, Thumb
  <2>2. CASE fuji_get_thumb
    BY <1>17, <2>2 DEF ThumbnailStep, fuji_get_thumb
  <2>3. CASE GetObjectInfo
    BY <1>17, <2>3 DEF ThumbnailStep, GetObjectInfo, Thumb, Answer
  <2>4. CASE GetThumbnail
    BY <1>17, <2>4 DEF ThumbnailStep, GetThumbnail, Answer
  <2>5. CASE ExifEvents
    BY <1>17, <2>5 DEF ThumbnailStep, ExifEvents, Thumb, EventsPolled, Answer
  <2>6. CASE GetPartialObject
    BY <1>17, <2>6 DEF ThumbnailStep, GetPartialObject, Thumb, Answer
  <2>7. CASE ExifThere
    BY <1>17, <2>7 DEF ThumbnailStep, ExifThere, Thumb
  <2>8. CASE my_add
    BY <1>17, <2>8 DEF ThumbnailStep, my_add, Thumb, Answer
  <2>9. CASE ExifEnds
    BY <1>17, <2>9 DEF ThumbnailStep, ExifEnds
  <2>10. CASE EventsAfter
    BY <1>17, <2>10 DEF ThumbnailStep, EventsAfter, EventsPolled, Answer
  <2>11. CASE GiveThumb
    BY <1>17, <2>11 DEF ThumbnailStep, GiveThumb, ThumbEnds
  <2>12. CASE GiveEmpty
    BY <1>17, <2>12 DEF ThumbnailStep, GiveEmpty, ThumbEnds
  <2>13. CASE ThumbFails
    BY <1>17, <2>13 DEF ThumbnailStep, ThumbFails
  <2> QED  BY <1>17, <2>1, <2>2, <2>3, <2>4, <2>5, <2>6, <2>7, <2>8, <2>9, <2>10, <2>11, <2>12, <2>13 DEF ThumbnailStep, ThumbStep
<1>18. CASE ThumbnailError
  BY <1>18 DEF ThumbnailError, Goes, ThumbEnds, handle_ptperr
<1>19. CASE on_idle_tick
  BY <1>19 DEF on_idle_tick
<1>20. CASE TickDevice
  BY <1>20 DEF TickDevice
<1>21. CASE TickPoll
  BY <1>21 DEF TickPoll, Answer
<1>22. CASE TickError
  <2>1. fatal' \in BOOLEAN
    BY <1>22, Zenon DEF TickError, handle_ptperr
  <2>2. polled' = 0 /\ tick' = "idle" /\ dev' \in {dev, NoCamera}
    BY <1>22 DEF TickError, handle_ptperr
  <2>3. UNCHANGED <<btVars, runtimeVars, thumbVars, job, jobs, usb, freed>>
    BY <1>22 DEF TickError
  <2> QED  BY <2>1, <2>2, <2>3
<1>23. CASE on_request_file_metadata
  BY <1>23 DEF on_request_file_metadata, AnswerUnderLock, Answer, handle_ptperr
<1>24. CASE on_request_liveview_frame
  BY <1>24 DEF on_request_liveview_frame, AnswerUnderLock, Answer
<1>25. CASE on_disconnect
  BY <1>25 DEF on_disconnect
<1>26. CASE on_free
  <2>1. fatal' \in BOOLEAN /\ freed' \in BOOLEAN
    BY <1>26, Zenon DEF on_free
  <2>2. /\ dev' = NoCamera /\ r' = 0
         /\ UNCHANGED <<bt, camera, linked, accepted, lock, thumbVars, job, jobs, usb,
                        tickVars>>
    BY <1>26 DEF on_free
  <2>3. life' \in [Runtimes -> {"none", "connecting", "open", "dead", "closed"}]
    BY <1>26 DEF on_free
  <2> QED  BY <2>1, <2>2, <2>3
<1>27. ASSUME NEW k \in Runtimes, LinkLost(k) PROVE TypeOK'
  BY <1>27 DEF LinkLost
<1>28. CASE BluetoothLost
  BY <1>28 DEF BluetoothLost
<1>29. ASSUME NEW c \in Cameras, CameraForgets(c),
           UNCHANGED <<runtimeVars, thumbVars, job, jobs, moduleVars, tickVars>>
    PROVE TypeOK'
  BY <1>29 DEF CameraForgets
<1> QED
  BY <1>0, <1>1, <1>2, <1>3, <1>4, <1>5, <1>6, <1>7, <1>8, <1>9, <1>10, <1>11, <1>12, <1>13, <1>14, <1>15, <1>16, <1>17, <1>18, <1>19, <1>20, <1>21, <1>22, <1>23, <1>24, <1>25, <1>26, <1>27, <1>28, <1>29
  DEF Next, JobStart, JobStep, Tick, Poll, Camera

-----------------------------------------------------------------------------
(* Bluetooth.                                                              *)

\* The steps that change what is known of a camera; all others can at most
\* forget the device.
LEMMA BtFrame ==
    ASSUME TypeOK, [Next]_vars
    PROVE  \/ BluetoothStep
           \/ (\E c \in Cameras : fuji_connect_bluetooth(c)) /\ dev' = dev
           \/ SwitchWifi
           \/ on_free /\ ~Running
           \/ (\E c \in Cameras : CameraForgets(c)) /\ dev' = dev
           \/ /\ UNCHANGED <<bt, camera, isNew, accepted, priv, signatures>>
              /\ dev' \in {dev, NoCamera}
<1> USE DEF vars, btVars, priv, moduleVars
<1>0. CASE UNCHANGED vars
  BY <1>0
<1>1. CASE on_try_connect_wifi \/ on_try_connect_usb
  BY <1>1 DEF on_try_connect_wifi, on_try_connect_usb
<1>2. CASE on_try_connect_bluetooth \/ SwitchWifi
  BY <1>2 DEF on_try_connect_bluetooth
<1>3. CASE AllowThumbs \/ on_request_thumbnail
  BY <1>3 DEF AllowThumbs, on_request_thumbnail
<1>4. CASE SetupOption \/ fuji_discover_thread \/ fuji_setup
  BY <1>4 DEF SetupOption, fuji_discover_thread, fuji_setup
<1>5. CASE fujitether_setup
  BY <1>5 DEF fujitether_setup, handle_ptperr
<1>6. CASE ptpip_connect \/ UsbOpen \/ ptp_close \/ ForgetRuntime \/ fujiusb_setup
  BY <1>6 DEF ptpip_connect, UsbOpen, ptp_close, ForgetRuntime, fujiusb_setup
<1>7. CASE ThumbnailStep
  BY <1>7 DEF ThumbnailStep
<1>8. CASE ThumbnailError
  BY <1>8 DEF ThumbnailError, handle_ptperr
<1>9. CASE on_idle_tick \/ TickDevice \/ TickPoll
  BY <1>9 DEF on_idle_tick, TickDevice, TickPoll
<1>10. CASE TickError
  BY <1>10 DEF TickError, handle_ptperr
<1>11. CASE on_request_file_metadata \/ on_request_liveview_frame
  BY <1>11 DEF on_request_file_metadata, on_request_liveview_frame, AnswerUnderLock,
      handle_ptperr
<1>12. CASE on_disconnect
  BY <1>12 DEF on_disconnect
<1>13. CASE on_free
  BY <1>13 DEF on_free, TypeOK
<1>14. ASSUME NEW k \in Runtimes, LinkLost(k)
       PROVE  UNCHANGED <<btVars, dev>>
  BY <1>14 DEF LinkLost
<1>15. CASE BluetoothLost
  BY <1>15 DEF BluetoothLost
<1> QED
  BY <1>0, <1>1, <1>2, <1>3, <1>4, <1>5, <1>6, <1>7, <1>8, <1>9, <1>10, <1>11, <1>12,
     <1>13, <1>14, <1>15
  DEF Next, JobStart, JobStep, Tick, Poll, Camera

LEMMA PairStep ==
    ASSUME TypeOK, PairInv, [Next]_vars
    PROVE  PairInv' /\ SavedIsAcceptedStep
<1> USE DEF PairInv, SavedIsAcceptedStep, Running, InPairing, InWifi
<1>1. CASE BluetoothStep
  <2>1. CASE DeviceConnect
    <3>1. /\ bt = "connect"
          /\ bt' \in IF camera \in Secure THEN {"bond", "status"} ELSE {"token"}
          /\ UNCHANGED <<camera, isNew, accepted, signatures>>
      BY <2>1 DEF DeviceConnect, priv
    <3> QED  BY <3>1
  <2>2. CASE CreateBond
    BY <2>2 DEF CreateBond, At
  <2>3. CASE WriteStatus
    <3>1. camera' \in accepted' \/ (camera' \in Secure /\ ~isNew')
      BY <2>3 DEF WriteStatus, At
    <3> QED  BY <2>3, <3>1 DEF WriteStatus, At
  <2>4. CASE WriteToken
    BY <2>4 DEF WriteToken, At
  <2>5. CASE send_client_name \/ fill_props
    BY <2>5 DEF send_client_name, fill_props, At
  <2>6. CASE SaveSignature
    BY <2>6 DEF SaveSignature, Returns
  <2>7. CASE Trigger \/ Watch \/ BtFails
    BY <2>7 DEF Trigger, Watch, BtFails, At, Returns
  <2> QED  BY <1>1, <2>1, <2>2, <2>3, <2>4, <2>5, <2>6, <2>7 DEF BluetoothStep, BtStep
<1>2. ASSUME NEW c \in Cameras, fuji_connect_bluetooth(c)
      PROVE  PairInv' /\ SavedIsAcceptedStep
  BY <1>2 DEF fuji_connect_bluetooth, At
<1>3. CASE SwitchWifi
  BY <1>3 DEF SwitchWifi, fuji_bluetooth_connect_to_wifi, At
<1>4. CASE on_free /\ ~Running
  BY <1>4 DEF on_free
<1>5. ASSUME NEW c \in Cameras, CameraForgets(c)
      PROVE  PairInv' /\ SavedIsAcceptedStep
  BY <1>5 DEF CameraForgets
<1>6. CASE UNCHANGED <<bt, camera, isNew, accepted, priv, signatures>>
  BY <1>6
<1> QED  BY BtFrame, <1>1, <1>2, <1>3, <1>4, <1>5, <1>6

LEMMA WifiStep ==
    ASSUME TypeOK, WifiInv, [Next]_vars
    PROVE  WifiInv'
<1> USE BluetoothAssumption DEF WifiInv, Known, Running, InPairing, InWifi, priv
<1>1. CASE BluetoothStep
  <2>1. CASE fill_props
    BY <1>1, <2>1 DEF BluetoothStep, fill_props, At, TypeOK
  <2>2. CASE SaveSignature
    BY <1>1, <2>2 DEF BluetoothStep, SaveSignature, Returns
  <2>3. CASE Trigger
    BY <1>1, <2>3 DEF BluetoothStep, Trigger, At
  <2>4. CASE \/ DeviceConnect \/ CreateBond \/ WriteStatus \/ WriteToken
             \/ send_client_name \/ Watch \/ BtFails
    <3>1. UNCHANGED <<priv, dev>> /\ bt # "save"
      BY <1>1, <2>4 DEF BluetoothStep, DeviceConnect, CreateBond, WriteStatus, WriteToken,
          send_client_name, Watch, BtFails, At, Returns
    <3>2. bt' \notin InWifi \cup {"save"}
      BY <1>1, <2>4 DEF BluetoothStep, DeviceConnect, CreateBond, WriteStatus, WriteToken,
          send_client_name, Watch, BtFails, At, Returns
    <3> QED  BY <3>1, <3>2
  <2> QED  BY <1>1, <2>1, <2>2, <2>3, <2>4 DEF BluetoothStep, BtStep
<1>2. ASSUME NEW c \in Cameras, fuji_connect_bluetooth(c), dev' = dev
      PROVE  WifiInv'
  BY <1>2 DEF fuji_connect_bluetooth, At
<1>3. CASE SwitchWifi
  BY <1>3 DEF SwitchWifi, fuji_bluetooth_connect_to_wifi, At, moduleVars
<1>4. CASE on_free /\ ~Running
  BY <1>4 DEF on_free
<1>5. ASSUME NEW c \in Cameras, CameraForgets(c), dev' = dev
      PROVE  WifiInv'
  BY <1>5 DEF CameraForgets
<1>6. CASE /\ UNCHANGED <<bt, camera, isNew, accepted, priv, signatures>>
           /\ dev' \in {dev, NoCamera}
  BY <1>6
<1> QED  BY BtFrame, <1>1, <1>2, <1>3, <1>4, <1>5, <1>6

-----------------------------------------------------------------------------
(* Thumbnails.                                                             *)

\* Whatever else happens, the buffer stays while the job has the mutex.
LEMMA ThumbFrame ==
    ASSUME TypeOK, [Next]_vars
    PROVE  \/ ThumbnailStep
           \/ th' # "give" /\ polls' \in {polls, 0}
           \/ UNCHANGED <<th, asked, polls, data>>
<1> USE DEF vars, thumbVars, runtimeVars, moduleVars
<1>0. CASE UNCHANGED vars
  BY <1>0
<1>1. CASE on_try_connect_wifi \/ on_try_connect_usb
  BY <1>1 DEF on_try_connect_wifi, on_try_connect_usb, Starts, TypeOK
<1>2. CASE on_try_connect_bluetooth \/ SwitchWifi \/ AllowThumbs \/ on_request_thumbnail
  BY <1>2 DEF on_try_connect_bluetooth, SwitchWifi, AllowThumbs, on_request_thumbnail
<1>3. CASE \/ SetupOption \/ fuji_discover_thread \/ fujitether_setup \/ fuji_setup
           \/ ptpip_connect \/ UsbOpen \/ ptp_close \/ ForgetRuntime \/ fujiusb_setup
  BY <1>3 DEF SetupOption, fuji_discover_thread, fujitether_setup, fuji_setup,
      ptpip_connect, UsbOpen, ptp_close, ForgetRuntime, fujiusb_setup
<1>4. CASE BluetoothStep
  BY <1>4 DEF BluetoothStep
<1>5. CASE ThumbnailError
  BY <1>5 DEF ThumbnailError, ThumbEnds
<1>6. CASE on_idle_tick \/ TickDevice \/ TickError
  BY <1>6 DEF on_idle_tick, TickDevice, TickError
<1>7. CASE TickPoll
  BY <1>7 DEF TickPoll, TypeOK
<1>8. CASE on_request_file_metadata \/ on_request_liveview_frame
  BY <1>8 DEF on_request_file_metadata, on_request_liveview_frame, AnswerUnderLock, TypeOK
<1>9. CASE on_disconnect \/ on_free \/ BluetoothLost
  BY <1>9 DEF on_disconnect, on_free, BluetoothLost
<1>10. ASSUME NEW k \in Runtimes, LinkLost(k) PROVE UNCHANGED <<thumbVars, data>>
  BY <1>10 DEF LinkLost
<1>11. CASE UNCHANGED <<runtimeVars, thumbVars, job, jobs, moduleVars, tickVars>>
  BY <1>11
<1> QED
  BY <1>0, <1>1, <1>2, <1>3, <1>4, <1>5, <1>6, <1>7, <1>8, <1>9, <1>10, <1>11
  DEF Next, JobStart, JobStep, Tick, Poll, Camera

LEMMA ThumbInvStep ==
    ASSUME TypeOK, ThumbInv, [Next]_vars
    PROVE  ThumbInv'
<1> USE DEF ThumbInv, ThumbIsOwn
<1>1. CASE ThumbnailStep
  <2>1. CASE GetThumbnail
    BY <2>1 DEF GetThumbnail, Answer
  <2>2. CASE EventsAfter
    BY <2>2 DEF EventsAfter
  <2>3. CASE GiveThumb \/ GiveEmpty
    BY <2>3 DEF GiveThumb, GiveEmpty, ThumbEnds
  <2>4. CASE \/ TakeLock \/ fuji_get_thumb \/ GetObjectInfo \/ ExifEvents
             \/ GetPartialObject \/ ExifThere \/ my_add \/ ExifEnds \/ ThumbFails
    BY <2>4 DEF TakeLock, fuji_get_thumb, GetObjectInfo, ExifEvents, GetPartialObject,
        ExifThere, my_add, ExifEnds, ThumbFails, Thumb
  <2> QED  BY <1>1, <2>1, <2>2, <2>3, <2>4 DEF ThumbnailStep, ThumbStep
<1>2. CASE th' # "give" /\ polls' \in {polls, 0}
  BY <1>2
<1>3. CASE UNCHANGED <<th, asked, polls, data>>
  BY <1>3
<1> QED  BY ThumbFrame, <1>1, <1>2, <1>3

-----------------------------------------------------------------------------
LEMMA InitInv == Init => IInv
<1> SUFFICES ASSUME Init PROVE IInv
  OBVIOUS
<1> USE ModuleAssumption, BluetoothAssumption DEF Init, BtInit, ThumbInit
<1>1. TypeOK
  <2>1. r \in 0 .. MaxRuntimes /\ polled \in 0 .. MaxRuntimes /\ jobs \in 0 .. MaxJobs
    OBVIOUS
  <2> QED  BY <2>1 DEF TypeOK, Running, InPairing, InWifi, InThumb, Places, Runtimes
<1>2. PairInv /\ WifiInv /\ ThumbInv
  BY DEF PairInv, InPairing, WifiInv, InWifi, ThumbInv, ThumbIsOwn
<1> QED  BY <1>1, <1>2 DEF IInv

\* The inductive invariant.
THEOREM Invariance == Spec => []IInv
<1>1. IInv /\ [Next]_vars => IInv'
  BY TypeStep, PairStep, WifiStep, ThumbInvStep DEF IInv
<1> QED  BY InitInv, <1>1, PTL DEF Spec

\* The variables stay in their types; the mutex is the job's exactly from
\* taking it for a thumbnail to releasing it, on every path (lib/module.c:116).
THEOREM TypeCorrect == Spec => []TypeOK
BY Invariance, PTL DEF IInv

\* The thumbnail handed over is the one asked for, unless it is from EXIF data.
THEOREM ThumbnailIsTheOneAskedFor == Spec => []ThumbIsOwn
BY Invariance, PTL DEF IInv, ThumbInv

\* The network handed to the host is the network of the camera that was told
\* to start it, unless that camera's name or password could not be read.
THEOREM NetworkOfTheCamera == Spec => []WifiIsOwn
<1>1. WifiInv => WifiIsOwn
  BY DEF WifiInv, WifiIsOwn, Known, InWifi
<1> QED  BY Invariance, <1>1, PTL DEF IInv

\* A signature is saved for the first time for a camera that knows this client,
\* for any number of cameras, pairings that fail and pairings the camera's user
\* deletes; the call ends well with one that does not only if the camera, of the
\* secure pairing, is connected again with a signature saved before.
THEOREM SavedSignaturesAreAccepted == Spec => SavedIsAccepted
<1>1. IInv /\ [Next]_vars => SavedIsAcceptedStep \/ UNCHANGED vars
  BY PairStep DEF IInv
<1> QED  BY Invariance, <1>1, PTL DEF Spec, SavedIsAccepted, SavedIsAcceptedStep
=============================================================================
