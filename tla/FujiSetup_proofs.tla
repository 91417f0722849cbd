--------------------------- MODULE FujiSetup_proofs ---------------------------
(***************************************************************************)
(* Proofs about FujiSetup, for any versions a camera may give, any of the  *)
(* states of lib/fujiptp.h and any number of changes of the screen: a setup*)
(* that returns 0 was let in, the modes fit the camera, and the camera     *)
(* follows the user's screen as long as it refuses nothing.                *)
(***************************************************************************)
EXTENDS FujiSetup, TLAPS

Early == {"handshake", "cancel_1", "cancel_2", "handshake_again", "open_session"}
BeforeRound == {"mode_events", "xapp_gallery", "config_version", "storage",
                "start_liveview"}
Round == {"end_liveview", "gallery", "end"}
LvPlaces == {"lv_xapp", "lv_again", "lv_note", "lv_capture", "lv_sockets"}
GaPlaces == {"ga", "ga_version"}
AfterMode == BeforeRound \cup Round \cup LiveviewPlaces

\* Types, with what keeps the counters within the bound: an id is used up by
\* every capture, and by a socket that is connected after it.
CountInv ==
    /\ pc \in LvPlaces => transaction <= MaxTransactions \/ pc = "lv_sockets"
    /\ pc \in Early \cup BeforeRound \cup {"first_events", "wait", "versions", "init_mode"}
          => transaction = 1
    /\ event_sockets <= transaction - (IF pc = "lv_sockets" THEN 2 ELSE 1)
    /\ video_sockets <= event_sockets

(* TypeOK in parts.                                                        *)
PlacesTyped ==
    /\ pc \in SetupPlaces \cup LiveviewPlaces \cup {"idle", "failed"}
    /\ back \in {"end_liveview", "gallery", "end", "to_liveview", "leaving", "to_gallery"}
    /\ rc \in Codes /\ result \in Codes \cup {"none"}
    /\ screen \in {"gallery", "liveview"} /\ handshakes \in 0 .. 2
FlagsTyped ==
    /\ opened_liveview_sockets \in BOOLEAN /\ alive \in BOOLEAN /\ refused \in BOOLEAN
    /\ session_open \in BOOLEAN /\ moved \in BOOLEAN /\ cancelled \in BOOLEAN
    /\ offered \in BOOLEAN
ValuesTyped ==
    /\ transport \in Transports
    /\ remote_version \in RemoteVersions \cup {0}
    /\ remote_image_view_version \in ViewVersions \cup {0, 5}
    /\ camera_state \in {-1, 0, FUJI_REMOTE_ACCESS} \cup GrantedStates
    /\ cam_state \in {0, FUJI_REMOTE_ACCESS} \cup GrantedStates
    /\ cam_remote \in RemoteVersions /\ cam_view \in ViewVersions \cup {5}
    /\ client_mode \in {0, 1, 2, 3, 5, 11, 20, 22}
CountsTyped ==
    /\ transaction \in 1 .. MaxTransactions + 1
    /\ open_capture_trans_id \in 0 .. transaction
    /\ capture \in 0 .. transaction - 1
    /\ event_sockets \in Nat /\ video_sockets \in Nat
    /\ CountInv
TypeInv == PlacesTyped /\ FlagsTyped /\ ValuesTyped /\ CountsTyped

\* What the places of the setup have established.  Wireless tethering never
\* comes to them, and is offered no screens.
AccessInv ==
    /\ camera_state \notin {FUJI_WAIT_FOR_ACCESS, -1} => cam_state # FUJI_WAIT_FOR_ACCESS
    /\ result = OK \/ pc \notin Early \cup {"failed"} => session_open
    /\ pc \in Early \cup {"first_events"} => result = "none"
    /\ transport = "WIRELESS_TETHER" =>
          pc \in Early \cup {"idle", "failed"} /\ camera_state = 0
    /\ \/ pc \in {"versions", "init_mode"} \cup AfterMode
       \/ result = OK /\ transport # "WIRELESS_TETHER"
       => camera_state \notin {FUJI_WAIT_FOR_ACCESS, -1}
    /\ pc \in AfterMode \/ (result = OK /\ transport # "WIRELESS_TETHER")
       => client_mode # 0

OfferedInv == offered => result = OK /\ transport # "WIRELESS_TETHER"

\* A client that goes by the newer application is with a camera that has it.
VersionInv ==
    /\ pc \in {"init_mode", "idle"} \cup AfterMode /\ Xapp => cam_remote >= 131079
    /\ ModeFitsTransport

\* Where the procedures return to.
BackInv ==
    /\ pc \in LvPlaces => back \in {"end_liveview", "to_liveview"}
    /\ pc = "el" => back \in {"gallery", "leaving"}
    /\ pc \in GaPlaces => back \in {"end", "to_gallery"}
    /\ pc \in {"to_liveview", "leaving", "to_gallery"} => back = pc
    /\ pc \in SetupPlaces \/ back \in Round => screen = "gallery"

\* The camera at each place, as long as it has refused nothing.
Remote == remote_version # -1
Live == pc \in {"el", "end_liveview", "to_liveview"} \/ (pc = "idle" /\ screen = "liveview")
LiveModes == {FUJI_REMOTE_MODE, FUJI_MODE_REMOTE_LIVE_VIEW_XAPP}
WithLiveview ==
    \/ pc \in {"el", "ga", "ga_version", "to_liveview", "leaving", "to_gallery"} \cup Round
    \/ pc = "idle" /\ offered
\* The first gallery of a camera that fuji_setup does not take through liveview.
BeforeLiveview ==
    pc = "idle" /\ screen = "gallery" /\ transaction = 1 /\ client_mode = FUJI_REMOTE_MODE
InGallery ==
    \/ pc \in {"end", "to_gallery"}
    \/ pc = "idle" /\ offered /\ screen = "gallery" /\ transaction > 1

CameraInv == ~refused =>
    /\ rc # OK => pc \in Early \cup {"failed"}
    /\ event_sockets = video_sockets
    /\ Live => IF Remote THEN capture # 0 /\ client_mode \in LiveModes /\ opened_liveview_sockets
                         ELSE capture = 0
    /\ pc \notin {"lv_sockets", "failed"} /\ ~Live => capture = 0
    /\ pc = "lv_sockets" => capture # 0
    /\ pc \in {"lv_note", "lv_capture", "lv_sockets"} => Remote /\ client_mode \in LiveModes
    /\ WithLiveview /\ Remote /\ ~Xapp => opened_liveview_sockets \/ BeforeLiveview
    /\ pc = "lv_again" /\ Remote /\ ~opened_liveview_sockets => client_mode \in LiveModes
    /\ pc \in BeforeRound \cup {"lv_xapp"} /\ Remote /\ ~Xapp /\ ~opened_liveview_sockets
          => client_mode = FUJI_REMOTE_MODE
    /\ pc = "ga_version" => client_mode = GalleryMode
    /\ InGallery /\ remote_image_view_version # -1 => client_mode = GalleryMode

IInv ==
    /\ TypeInv /\ AccessInv /\ OfferedInv /\ VersionInv /\ BackInv
    /\ VideoSocketOnce /\ CameraInv

-----------------------------------------------------------------------------
\* The places: a procedure returns to the place it was called from.
LEMMA PlacesStep ==
    ASSUME BackInv, PlacesTyped, [Next]_vars
    PROVE  PlacesTyped'
<1> USE DEF Step, Call, Return, OnwardOr, OnwardOrReturn, SetupReturns, Answer,
    Refused, vars, liveviewVars, versionVars, captureVars, cameraVars, progressVars,
    outcomeVars, OK, CHECK_CODE, IO_ERR, RUNTIME_ERR, CANCELED, SetupPlaces,
    LiveviewPlaces, LvPlaces, GaPlaces, Round, Codes, BackInv, PlacesTyped
<1>1. CASE Handshake \/ CheckCancel \/ HandshakeAgain
  BY <1>1 DEF Handshake, CheckCancel, HandshakeAgain
<1>2. CASE OpenSession
  BY <1>2 DEF OpenSession
<1>3. CASE FirstEvents \/ WaitForAccess \/ AccessGranted \/ ModeEvents
  BY <1>3 DEF FirstEvents, WaitForAccess, AccessGranted, ModeEvents, GetEvents,
      NoAccess
<1>4. CASE GetVersions
  BY <1>4 DEF GetVersions
<1>5. CASE InitMode
  BY <1>5 DEF InitMode, PreferredMode
<1>6. CASE XappGallery \/ ConfigVersion \/ Storage
  BY <1>6 DEF XappGallery, ConfigVersion, Storage, Transactions
<1>7. CASE ThroughLiveview
  BY <1>7 DEF ThroughLiveview
<1>8. CASE LiveviewStep
  <2>1. CASE ConfigXapp \/ ConfigAgain
    BY <1>8, <2>1 DEF LiveviewStep, ConfigXapp, ConfigAgain, Announce, Events
  <2>2. CASE NoteTransaction \/ OpenCapture
    BY <1>8, <2>2 DEF LiveviewStep, NoteTransaction, OpenCapture
  <2>3. CASE ConnectSockets
    BY <1>8, <2>3 DEF LiveviewStep, ConnectSockets, Events
  <2>4. CASE EndLiveview
    BY <1>8, <2>4 DEF LiveviewStep, EndLiveview, Events
  <2>5. CASE EnterGallery
    BY <1>8, <2>5 DEF LiveviewStep, EnterGallery, Announce, Events, GalleryMode
  <2>6. CASE GalleryVersion
    BY <1>8, <2>6 DEF LiveviewStep, GalleryVersion, Events
  <2> QED  BY <1>8, <2>1, <2>2, <2>3, <2>4, <2>5, <2>6 DEF LiveviewStep, Procedures
<1>9. CASE ScreenStep
  BY <1>9 DEF ScreenStep, Screens, SwitchScreen, ToLiveview, Leaving, ToGallery
<1>10. CASE Grant \/ Move \/ Cancel \/ OtherStep \/ LinkStep \/ UNCHANGED vars
  BY <1>10 DEF Grant, Move, Cancel, OtherStep, OtherTransaction, LinkStep, LoseLink
<1> QED  BY <1>1, <1>2, <1>3, <1>4, <1>5, <1>6, <1>7, <1>8, <1>9, <1>10 DEF Next, Client, Rest

\* The flags stay flags, whatever an answer is.
LEMMA FlagsStep ==
    ASSUME FlagsTyped, [Next]_vars
    PROVE  FlagsTyped'
<1> USE DEF Step, Call, Return, OnwardOr, OnwardOrReturn, SetupReturns, Answer,
    Refused, vars, liveviewVars, versionVars, captureVars, cameraVars, progressVars,
    outcomeVars, OK, CHECK_CODE, IO_ERR, RUNTIME_ERR, CANCELED, FlagsTyped
<1>1. CASE Handshake \/ CheckCancel \/ HandshakeAgain
  BY <1>1 DEF Handshake, CheckCancel, HandshakeAgain
<1>2. CASE OpenSession
  BY <1>2 DEF OpenSession
<1>3. CASE FirstEvents \/ WaitForAccess \/ AccessGranted \/ ModeEvents
  BY <1>3 DEF FirstEvents, WaitForAccess, AccessGranted, ModeEvents, GetEvents,
      NoAccess
<1>4. CASE GetVersions
  <2>1. \E c \in {OK, CHECK_CODE, IO_ERR} :
           /\ refused' = (refused \/ c # OK)
           /\ \/ UNCHANGED offered
              \/ offered' = (c = OK /\ HasLiveview)
    BY <1>4 DEF GetVersions
  <2>2. refused' \in BOOLEAN /\ offered' \in BOOLEAN
    BY <2>1, Zenon
  <2>3. UNCHANGED <<opened_liveview_sockets, alive, session_open, moved, cancelled>>
    BY <1>4 DEF GetVersions
  <2> QED  BY <2>2, <2>3
<1>5. CASE InitMode
  BY <1>5 DEF InitMode, PreferredMode
<1>6. CASE XappGallery \/ ConfigVersion \/ Storage
  BY <1>6 DEF XappGallery, ConfigVersion, Storage, Transactions
<1>7. CASE ThroughLiveview
  BY <1>7 DEF ThroughLiveview
<1>8. CASE LiveviewStep
  <2>1. CASE ConfigXapp \/ ConfigAgain
    BY <1>8, <2>1 DEF LiveviewStep, ConfigXapp, ConfigAgain, Announce, Events
  <2>2. CASE NoteTransaction \/ OpenCapture
    BY <1>8, <2>2 DEF LiveviewStep, NoteTransaction, OpenCapture
  <2>3. CASE ConnectSockets
    BY <1>8, <2>3 DEF LiveviewStep, ConnectSockets, Events
  <2>4. CASE EndLiveview
    BY <1>8, <2>4 DEF LiveviewStep, EndLiveview, Events
  <2>5. CASE EnterGallery
    BY <1>8, <2>5 DEF LiveviewStep, EnterGallery, Announce, Events, GalleryMode
  <2>6. CASE GalleryVersion
    BY <1>8, <2>6 DEF LiveviewStep, GalleryVersion, Events
  <2> QED  BY <1>8, <2>1, <2>2, <2>3, <2>4, <2>5, <2>6 DEF LiveviewStep, Procedures
<1>9. CASE ScreenStep
  BY <1>9 DEF ScreenStep, Screens, SwitchScreen, ToLiveview, Leaving, ToGallery
<1>10. CASE Grant \/ Move \/ Cancel \/ OtherStep \/ LinkStep \/ UNCHANGED vars
  BY <1>10 DEF Grant, Move, Cancel, OtherStep, OtherTransaction, LinkStep, LoseLink
<1> QED  BY <1>1, <1>2, <1>3, <1>4, <1>5, <1>6, <1>7, <1>8, <1>9, <1>10 DEF Next, Client, Rest

\* What is read, stored or announced is a value of its own range.
LEMMA ValuesStep ==
    ASSUME ValuesTyped, [Next]_vars
    PROVE  ValuesTyped'
<1> USE SetupAssumption DEF Step, Call, Return, OnwardOr, OnwardOrReturn,
    SetupReturns, Answer, Refused, vars, liveviewVars, versionVars, captureVars,
    cameraVars, progressVars, outcomeVars, OK, CHECK_CODE, IO_ERR, RUNTIME_ERR, CANCELED,
    FUJI_WAIT_FOR_ACCESS, FUJI_MULTIPLE_TRANSFER, FUJI_FULL_ACCESS, FUJI_PC_AUTO_SAVE,
    FUJI_REMOTE_ACCESS, FUJI_VIEW_MULTIPLE, FUJI_VIEW_ALL_IMGS, FUJI_OLD_REMOTE,
    FUJI_REMOTE_MODE, FUJI_MODE_REMOTE_IMG_VIEW, FUJI_MODE_REMOTE_IMG_VIEW_XAPP,
    FUJI_MODE_REMOTE_LIVE_VIEW_XAPP, Xapp, Transports, ValuesTyped, GalleryMode
<1>1. CASE Handshake \/ CheckCancel \/ HandshakeAgain
  BY <1>1 DEF Handshake, CheckCancel, HandshakeAgain
<1>2. CASE OpenSession
  BY <1>2 DEF OpenSession
<1>3. CASE FirstEvents \/ WaitForAccess \/ AccessGranted \/ ModeEvents
  BY <1>3 DEF FirstEvents, WaitForAccess, AccessGranted, ModeEvents, GetEvents,
      NoAccess
<1>4. CASE GetVersions
  BY <1>4 DEF GetVersions
<1>5. CASE InitMode
  BY <1>5 DEF InitMode, PreferredMode
<1>6. CASE XappGallery \/ ConfigVersion \/ Storage
  BY <1>6 DEF XappGallery, ConfigVersion, Storage, Transactions
<1>7. CASE ThroughLiveview
  BY <1>7 DEF ThroughLiveview
<1>8. CASE LiveviewStep
  <2>1. CASE ConfigXapp \/ ConfigAgain
    BY <1>8, <2>1 DEF LiveviewStep, ConfigXapp, ConfigAgain, Announce, Events
  <2>2. CASE NoteTransaction \/ OpenCapture
    BY <1>8, <2>2 DEF LiveviewStep, NoteTransaction, OpenCapture
  <2>3. CASE ConnectSockets
    BY <1>8, <2>3 DEF LiveviewStep, ConnectSockets, Events
  <2>4. CASE EndLiveview
    BY <1>8, <2>4 DEF LiveviewStep, EndLiveview, Events
  <2>5. CASE EnterGallery
    BY <1>8, <2>5 DEF LiveviewStep, EnterGallery, Announce, Events, GalleryMode
  <2>6. CASE GalleryVersion
    BY <1>8, <2>6 DEF LiveviewStep, GalleryVersion, Events
  <2> QED  BY <1>8, <2>1, <2>2, <2>3, <2>4, <2>5, <2>6 DEF LiveviewStep, Procedures
<1>9. CASE ScreenStep
  BY <1>9 DEF ScreenStep, Screens, SwitchScreen, ToLiveview, Leaving, ToGallery
<1>10. CASE Grant \/ Move \/ Cancel \/ OtherStep \/ LinkStep \/ UNCHANGED vars
  BY <1>10 DEF Grant, Move, Cancel, OtherStep, OtherTransaction, LinkStep, LoseLink
<1> QED  BY <1>1, <1>2, <1>3, <1>4, <1>5, <1>6, <1>7, <1>8, <1>9, <1>10 DEF Next, Client, Rest

\* Ids and sockets: an id is taken by every capture, and a socket is connected
\* after one at most.
LEMMA CountsStep ==
    ASSUME PlacesTyped, BackInv, CountsTyped, [Next]_vars
    PROVE  CountsTyped'
<1> USE LiveviewAssumption DEF Step, Call, Return, OnwardOr, OnwardOrReturn,
    SetupReturns, Answer, Refused, vars, liveviewVars, versionVars, captureVars,
    cameraVars, progressVars, outcomeVars, OK, CHECK_CODE, IO_ERR, RUNTIME_ERR, CANCELED,
    SetupPlaces, LiveviewPlaces, Early, BeforeRound, Round, LvPlaces, GaPlaces, AfterMode,
    CountsTyped, CountInv, PlacesTyped, BackInv
<1>1. CASE Handshake \/ CheckCancel \/ HandshakeAgain
  BY <1>1 DEF Handshake, CheckCancel, HandshakeAgain
<1>2. CASE OpenSession
  BY <1>2 DEF OpenSession
<1>3. CASE FirstEvents \/ WaitForAccess \/ AccessGranted \/ ModeEvents
  BY <1>3 DEF FirstEvents, WaitForAccess, AccessGranted, ModeEvents, GetEvents,
      NoAccess
<1>4. CASE GetVersions
  BY <1>4 DEF GetVersions
<1>5. CASE InitMode
  BY <1>5 DEF InitMode, PreferredMode
<1>6. CASE XappGallery \/ ConfigVersion \/ Storage
  BY <1>6 DEF XappGallery, ConfigVersion, Storage, Transactions
<1>7. CASE ThroughLiveview
  BY <1>7 DEF ThroughLiveview
<1>8. CASE LiveviewStep
  <2>1. CASE ConfigXapp \/ ConfigAgain
    BY <1>8, <2>1 DEF LiveviewStep, ConfigXapp, ConfigAgain, Announce, Events
  <2>2. CASE NoteTransaction \/ OpenCapture
    BY <1>8, <2>2 DEF LiveviewStep, NoteTransaction, OpenCapture
  <2>3. CASE ConnectSockets
    BY <1>8, <2>3 DEF LiveviewStep, ConnectSockets, Events
  <2>4. CASE EndLiveview
    BY <1>8, <2>4 DEF LiveviewStep, EndLiveview, Events
  <2>5. CASE EnterGallery
    BY <1>8, <2>5 DEF LiveviewStep, EnterGallery, Announce, Events, GalleryMode
  <2>6. CASE GalleryVersion
    BY <1>8, <2>6 DEF LiveviewStep, GalleryVersion, Events
  <2> QED  BY <1>8, <2>1, <2>2, <2>3, <2>4, <2>5, <2>6 DEF LiveviewStep, Procedures
<1>9. CASE ScreenStep
  BY <1>9 DEF ScreenStep, Screens, SwitchScreen, ToLiveview, Leaving, ToGallery
<1>10. CASE Grant \/ Move \/ Cancel \/ OtherStep \/ LinkStep \/ UNCHANGED vars
  BY <1>10 DEF Grant, Move, Cancel, OtherStep, OtherTransaction, LinkStep, LoseLink
<1> QED  BY <1>1, <1>2, <1>3, <1>4, <1>5, <1>6, <1>7, <1>8, <1>9, <1>10 DEF Next, Client, Rest

\* Nothing beyond the poll loop is reached, and nothing is returned, before the
\* camera has said that it lets the client in.
LEMMA AccessStep ==
    ASSUME ValuesTyped, BackInv, OfferedInv, AccessInv, [Next]_vars
    PROVE  AccessInv'
<1> USE SetupAssumption DEF Step, Call, Return, OnwardOr, OnwardOrReturn,
    SetupReturns, Answer, Refused, vars, liveviewVars, versionVars, captureVars,
    cameraVars, progressVars, outcomeVars, OK, CHECK_CODE, IO_ERR, RUNTIME_ERR, CANCELED,
    FUJI_WAIT_FOR_ACCESS, FUJI_MULTIPLE_TRANSFER, FUJI_FULL_ACCESS, FUJI_PC_AUTO_SAVE,
    FUJI_REMOTE_ACCESS, FUJI_VIEW_MULTIPLE, FUJI_VIEW_ALL_IMGS, FUJI_OLD_REMOTE,
    FUJI_REMOTE_MODE, FUJI_MODE_REMOTE_IMG_VIEW, FUJI_MODE_REMOTE_IMG_VIEW_XAPP,
    FUJI_MODE_REMOTE_LIVE_VIEW_XAPP, SetupPlaces, LiveviewPlaces, Early, BeforeRound,
    Round, LvPlaces, GaPlaces, AfterMode, Xapp, AccessInv, OfferedInv, BackInv,
    ValuesTyped, GalleryMode
<1>1. CASE Handshake \/ CheckCancel \/ HandshakeAgain
  BY <1>1 DEF Handshake, CheckCancel, HandshakeAgain
<1>2. CASE OpenSession
  BY <1>2 DEF OpenSession
<1>3. CASE FirstEvents \/ WaitForAccess \/ AccessGranted \/ ModeEvents
  <2>1. CASE FirstEvents
    <3>1. /\ camera_state' \in {-1, cam_state}
          /\ UNCHANGED <<cam_state, transport, client_mode, session_open>>
          /\ pc = "first_events" /\ pc' \in {"wait", "failed"} /\ result' \in {result, IO_ERR}
      BY <2>1 DEF FirstEvents, GetEvents
    <3> QED  BY <3>1
  <2>2. CASE WaitForAccess
    BY <2>2 DEF WaitForAccess, GetEvents, NoAccess
  <2>3. CASE AccessGranted
    BY <2>3 DEF AccessGranted, NoAccess
  <2>4. CASE ModeEvents
    BY <2>4 DEF ModeEvents, GetEvents
  <2> QED  BY <1>3, <2>1, <2>2, <2>3, <2>4
<1>4. CASE GetVersions
  BY <1>4 DEF GetVersions
<1>5. CASE InitMode
  BY <1>5 DEF InitMode, PreferredMode
<1>6. CASE XappGallery \/ ConfigVersion \/ Storage
  BY <1>6 DEF XappGallery, ConfigVersion, Storage, Transactions
<1>7. CASE ThroughLiveview
  BY <1>7 DEF ThroughLiveview
<1>8. CASE LiveviewStep
  <2>1. CASE ConfigXapp \/ ConfigAgain
    BY <1>8, <2>1 DEF LiveviewStep, ConfigXapp, ConfigAgain, Announce, Events
  <2>2. CASE NoteTransaction \/ OpenCapture
    BY <1>8, <2>2 DEF LiveviewStep, NoteTransaction, OpenCapture
  <2>3. CASE ConnectSockets
    BY <1>8, <2>3 DEF LiveviewStep, ConnectSockets, Events
  <2>4. CASE EndLiveview
    BY <1>8, <2>4 DEF LiveviewStep, EndLiveview, Events
  <2>5. CASE EnterGallery
    BY <1>8, <2>5 DEF LiveviewStep, EnterGallery, Announce, Events, GalleryMode
  <2>6. CASE GalleryVersion
    BY <1>8, <2>6 DEF LiveviewStep, GalleryVersion, Events
  <2> QED  BY <1>8, <2>1, <2>2, <2>3, <2>4, <2>5, <2>6 DEF LiveviewStep, Procedures
<1>9. CASE ScreenStep
  BY <1>9 DEF ScreenStep, Screens, SwitchScreen, ToLiveview, Leaving, ToGallery
<1>10. CASE Grant \/ Move \/ Cancel \/ OtherStep \/ LinkStep \/ UNCHANGED vars
  BY <1>10 DEF Grant, Move, Cancel, OtherStep, OtherTransaction, LinkStep, LoseLink
<1> QED  BY <1>1, <1>2, <1>3, <1>4, <1>5, <1>6, <1>7, <1>8, <1>9, <1>10 DEF Next, Client, Rest

\* The transport is corrected before anything is chosen from it.
LEMMA VersionStep ==
    ASSUME ValuesTyped, BackInv, OfferedInv, AccessInv, VersionInv, [Next]_vars
    PROVE  VersionInv'
<1> USE SetupAssumption DEF Step, Call, Return, OnwardOr, OnwardOrReturn,
    SetupReturns, Answer, Refused, vars, liveviewVars, versionVars, captureVars,
    cameraVars, progressVars, outcomeVars, OK, CHECK_CODE, IO_ERR, RUNTIME_ERR, CANCELED,
    FUJI_WAIT_FOR_ACCESS, FUJI_MULTIPLE_TRANSFER, FUJI_FULL_ACCESS, FUJI_PC_AUTO_SAVE,
    FUJI_REMOTE_ACCESS, FUJI_VIEW_MULTIPLE, FUJI_VIEW_ALL_IMGS, FUJI_OLD_REMOTE,
    FUJI_REMOTE_MODE, FUJI_MODE_REMOTE_IMG_VIEW, FUJI_MODE_REMOTE_IMG_VIEW_XAPP,
    FUJI_MODE_REMOTE_LIVE_VIEW_XAPP, SetupPlaces, LiveviewPlaces, Early, BeforeRound,
    Round, LvPlaces, GaPlaces, AfterMode, Xapp, VersionInv, ModeFitsTransport, AccessInv,
    OfferedInv, BackInv, ValuesTyped, GalleryMode
<1>1. CASE Handshake \/ CheckCancel \/ HandshakeAgain
  BY <1>1 DEF Handshake, CheckCancel, HandshakeAgain
<1>2. CASE OpenSession
  BY <1>2 DEF OpenSession
<1>3. CASE FirstEvents \/ WaitForAccess \/ AccessGranted \/ ModeEvents
  BY <1>3 DEF FirstEvents, WaitForAccess, AccessGranted, ModeEvents, GetEvents,
      NoAccess
<1>4. CASE GetVersions
  BY <1>4 DEF GetVersions
<1>5. CASE InitMode
  BY <1>5 DEF InitMode, PreferredMode
<1>6. CASE XappGallery \/ ConfigVersion \/ Storage
  BY <1>6 DEF XappGallery, ConfigVersion, Storage, Transactions
<1>7. CASE ThroughLiveview
  BY <1>7 DEF ThroughLiveview
<1>8. CASE LiveviewStep
  <2>1. CASE ConfigXapp \/ ConfigAgain
    BY <1>8, <2>1 DEF LiveviewStep, ConfigXapp, ConfigAgain, Announce, Events
  <2>2. CASE NoteTransaction \/ OpenCapture
    BY <1>8, <2>2 DEF LiveviewStep, NoteTransaction, OpenCapture
  <2>3. CASE ConnectSockets
    BY <1>8, <2>3 DEF LiveviewStep, ConnectSockets, Events
  <2>4. CASE EndLiveview
    BY <1>8, <2>4 DEF LiveviewStep, EndLiveview, Events
  <2>5. CASE EnterGallery
    BY <1>8, <2>5 DEF LiveviewStep, EnterGallery, Announce, Events, GalleryMode
  <2>6. CASE GalleryVersion
    BY <1>8, <2>6 DEF LiveviewStep, GalleryVersion, Events
  <2> QED  BY <1>8, <2>1, <2>2, <2>3, <2>4, <2>5, <2>6 DEF LiveviewStep, Procedures
<1>9. CASE ScreenStep
  BY <1>9 DEF ScreenStep, Screens, SwitchScreen, ToLiveview, Leaving, ToGallery
<1>10. CASE Grant \/ Move \/ Cancel \/ OtherStep \/ LinkStep \/ UNCHANGED vars
  BY <1>10 DEF Grant, Move, Cancel, OtherStep, OtherTransaction, LinkStep, LoseLink
<1> QED  BY <1>1, <1>2, <1>3, <1>4, <1>5, <1>6, <1>7, <1>8, <1>9, <1>10 DEF Next, Client, Rest

\* The liveview screen is offered for success in a state that has it.
LEMMA SetupReturnsOffers ==
    ASSUME NEW c, SetupReturns(c)
    PROVE  result' = c /\ (offered' => c = OK /\ HasLiveview)
BY Zenon DEF SetupReturns

\* The outcome is that of a return, or is left alone, and no transport becomes
\* a tether.
LEMMA OutcomeFrame ==
    ASSUME PlacesTyped, [Next]_vars
    PROVE  /\ UNCHANGED outcomeVars \/ \E c \in Codes : SetupReturns(c)
           /\ transport' \in {transport, "WIRELESS_COMM"}
<1> USE DEF Step, Call, Return, OnwardOr, OnwardOrReturn, Answer, Refused, vars,
    liveviewVars, versionVars, captureVars, cameraVars, progressVars, outcomeVars, OK,
    CHECK_CODE, IO_ERR, RUNTIME_ERR, CANCELED, Codes, PlacesTyped
<1>1. CASE Handshake \/ CheckCancel \/ HandshakeAgain
  BY <1>1 DEF Handshake, CheckCancel, HandshakeAgain
<1>2. CASE OpenSession
  BY <1>2 DEF OpenSession
<1>3. CASE FirstEvents \/ WaitForAccess \/ AccessGranted \/ ModeEvents
  BY <1>3 DEF FirstEvents, WaitForAccess, AccessGranted, ModeEvents, GetEvents,
      NoAccess
<1>4. CASE GetVersions
  BY <1>4 DEF GetVersions
<1>5. CASE InitMode
  BY <1>5 DEF InitMode, PreferredMode
<1>6. CASE XappGallery \/ ConfigVersion \/ Storage
  BY <1>6 DEF XappGallery, ConfigVersion, Storage, Transactions
<1>7. CASE ThroughLiveview
  BY <1>7 DEF ThroughLiveview
<1>8. CASE LiveviewStep
  <2>1. CASE ConfigXapp \/ ConfigAgain
    BY <1>8, <2>1 DEF LiveviewStep, ConfigXapp, ConfigAgain, Announce, Events
  <2>2. CASE NoteTransaction \/ OpenCapture
    BY <1>8, <2>2 DEF LiveviewStep, NoteTransaction, OpenCapture
  <2>3. CASE ConnectSockets
    BY <1>8, <2>3 DEF LiveviewStep, ConnectSockets, Events
  <2>4. CASE EndLiveview
    BY <1>8, <2>4 DEF LiveviewStep, EndLiveview, Events
  <2>5. CASE EnterGallery
    BY <1>8, <2>5 DEF LiveviewStep, EnterGallery, Announce, Events, GalleryMode
  <2>6. CASE GalleryVersion
    BY <1>8, <2>6 DEF LiveviewStep, GalleryVersion, Events
  <2> QED  BY <1>8, <2>1, <2>2, <2>3, <2>4, <2>5, <2>6 DEF LiveviewStep, Procedures
<1>9. CASE ScreenStep
  BY <1>9 DEF ScreenStep, Screens, SwitchScreen, ToLiveview, Leaving, ToGallery
<1>10. CASE Grant \/ Move \/ Cancel \/ OtherStep \/ LinkStep \/ UNCHANGED vars
  BY <1>10 DEF Grant, Move, Cancel, OtherStep, OtherTransaction, LinkStep, LoseLink
<1> QED  BY <1>1, <1>2, <1>3, <1>4, <1>5, <1>6, <1>7, <1>8, <1>9, <1>10 DEF Next, Client, Rest

\* Wireless tethering is offered no screens.
LEMMA OfferedStep ==
    ASSUME PlacesTyped, AccessInv, OfferedInv, [Next]_vars
    PROVE  OfferedInv'
<1>1. transport' = "WIRELESS_TETHER" => transport = "WIRELESS_TETHER"
  BY OutcomeFrame
<1>2. CASE UNCHANGED outcomeVars
  BY <1>1, <1>2 DEF OfferedInv, outcomeVars
<1>3. ASSUME NEW c \in Codes, SetupReturns(c), offered'
      PROVE  result' = OK /\ transport' # "WIRELESS_TETHER"
  <2>1. result' = OK /\ HasLiveview
    BY <1>3, SetupReturnsOffers, Zenon
  <2> QED  BY <1>1, <2>1 DEF AccessInv, HasLiveview, FUJI_REMOTE_ACCESS,
      FUJI_MODE_REMOTE_IMG_VIEW, FUJI_MODE_REMOTE_IMG_VIEW_XAPP
<1> QED  BY <1>2, <1>3, OutcomeFrame, Zenon DEF OfferedInv

\* Each procedure is called from the places that it may return to.
LEMMA BackStep ==
    ASSUME BackInv, [Next]_vars
    PROVE  BackInv'
<1> USE DEF Step, Call, Return, OnwardOr, OnwardOrReturn, SetupReturns, Answer,
    Refused, vars, liveviewVars, versionVars, captureVars, cameraVars, progressVars,
    outcomeVars, OK, CHECK_CODE, IO_ERR, RUNTIME_ERR, CANCELED, SetupPlaces,
    LiveviewPlaces, Early, BeforeRound, Round, LvPlaces, GaPlaces, AfterMode, BackInv
<1>1. CASE Handshake \/ CheckCancel \/ HandshakeAgain
  BY <1>1 DEF Handshake, CheckCancel, HandshakeAgain
<1>2. CASE OpenSession
  BY <1>2 DEF OpenSession
<1>3. CASE FirstEvents \/ WaitForAccess \/ AccessGranted \/ ModeEvents
  BY <1>3 DEF FirstEvents, WaitForAccess, AccessGranted, ModeEvents, GetEvents,
      NoAccess
<1>4. CASE GetVersions
  BY <1>4 DEF GetVersions
<1>5. CASE InitMode
  BY <1>5 DEF InitMode, PreferredMode
<1>6. CASE XappGallery \/ ConfigVersion \/ Storage
  BY <1>6 DEF XappGallery, ConfigVersion, Storage, Transactions
<1>7. CASE ThroughLiveview
  BY <1>7 DEF ThroughLiveview
<1>8. CASE LiveviewStep
  <2>1. CASE ConfigXapp \/ ConfigAgain
    BY <1>8, <2>1 DEF LiveviewStep, ConfigXapp, ConfigAgain, Announce, Events
  <2>2. CASE NoteTransaction \/ OpenCapture
    BY <1>8, <2>2 DEF LiveviewStep, NoteTransaction, OpenCapture
  <2>3. CASE ConnectSockets
    BY <1>8, <2>3 DEF LiveviewStep, ConnectSockets, Events
  <2>4. CASE EndLiveview
    BY <1>8, <2>4 DEF LiveviewStep, EndLiveview, Events
  <2>5. CASE EnterGallery
    BY <1>8, <2>5 DEF LiveviewStep, EnterGallery, Announce, Events, GalleryMode
  <2>6. CASE GalleryVersion
    BY <1>8, <2>6 DEF LiveviewStep, GalleryVersion, Events
  <2> QED  BY <1>8, <2>1, <2>2, <2>3, <2>4, <2>5, <2>6 DEF LiveviewStep, Procedures
<1>9. CASE ScreenStep
  BY <1>9 DEF ScreenStep, Screens, SwitchScreen, ToLiveview, Leaving, ToGallery
<1>10. CASE Grant \/ Move \/ Cancel \/ OtherStep \/ LinkStep \/ UNCHANGED vars
  BY <1>10 DEF Grant, Move, Cancel, OtherStep, OtherTransaction, LinkStep, LoseLink
<1> QED  BY <1>1, <1>2, <1>3, <1>4, <1>5, <1>6, <1>7, <1>8, <1>9, <1>10 DEF Next, Client, Rest

\* The sockets and the flag change together.
LEMMA SocketStep ==
    ASSUME FlagsTyped, VideoSocketOnce, [Next]_vars
    PROVE  VideoSocketOnce'
<1> USE DEF Step, Call, Return, OnwardOr, OnwardOrReturn, SetupReturns, Answer,
    Refused, vars, liveviewVars, versionVars, captureVars, cameraVars, progressVars,
    outcomeVars, OK, CHECK_CODE, IO_ERR, RUNTIME_ERR, CANCELED, FlagsTyped,
    VideoSocketOnce
<1>1. CASE Handshake \/ CheckCancel \/ HandshakeAgain
  BY <1>1 DEF Handshake, CheckCancel, HandshakeAgain
<1>2. CASE OpenSession
  BY <1>2 DEF OpenSession
<1>3. CASE FirstEvents \/ WaitForAccess \/ AccessGranted \/ ModeEvents
  BY <1>3 DEF FirstEvents, WaitForAccess, AccessGranted, ModeEvents, GetEvents,
      NoAccess
<1>4. CASE GetVersions
  BY <1>4 DEF GetVersions
<1>5. CASE InitMode
  BY <1>5 DEF InitMode, PreferredMode
<1>6. CASE XappGallery \/ ConfigVersion \/ Storage
  BY <1>6 DEF XappGallery, ConfigVersion, Storage, Transactions
<1>7. CASE ThroughLiveview
  BY <1>7 DEF ThroughLiveview
<1>8. CASE LiveviewStep
  <2>1. CASE ConfigXapp \/ ConfigAgain
    BY <1>8, <2>1 DEF LiveviewStep, ConfigXapp, ConfigAgain, Announce, Events
  <2>2. CASE NoteTransaction \/ OpenCapture
    BY <1>8, <2>2 DEF LiveviewStep, NoteTransaction, OpenCapture
  <2>3. CASE ConnectSockets
    BY <1>8, <2>3 DEF LiveviewStep, ConnectSockets, Events
  <2>4. CASE EndLiveview
    BY <1>8, <2>4 DEF LiveviewStep, EndLiveview, Events
  <2>5. CASE EnterGallery
    BY <1>8, <2>5 DEF LiveviewStep, EnterGallery, Announce, Events, GalleryMode
  <2>6. CASE GalleryVersion
    BY <1>8, <2>6 DEF LiveviewStep, GalleryVersion, Events
  <2> QED  BY <1>8, <2>1, <2>2, <2>3, <2>4, <2>5, <2>6 DEF LiveviewStep, Procedures
<1>9. CASE ScreenStep
  BY <1>9 DEF ScreenStep, Screens, SwitchScreen, ToLiveview, Leaving, ToGallery
<1>10. CASE Grant \/ Move \/ Cancel \/ OtherStep \/ LinkStep \/ UNCHANGED vars
  BY <1>10 DEF Grant, Move, Cancel, OtherStep, OtherTransaction, LinkStep, LoseLink
<1> QED  BY <1>1, <1>2, <1>3, <1>4, <1>5, <1>6, <1>7, <1>8, <1>9, <1>10 DEF Next, Client, Rest

\* The camera goes along with the thread, as long as it refuses nothing.
LEMMA CameraStep ==
    ASSUME TypeInv, AccessInv, OfferedInv, BackInv, VideoSocketOnce, CameraInv, [Next]_vars
    PROVE  CameraInv'
<1> USE LiveviewAssumption, SetupAssumption DEF Step, Call, Return, OnwardOr,
    OnwardOrReturn, SetupReturns, Answer, Refused, vars, liveviewVars, versionVars,
    captureVars, cameraVars, progressVars, outcomeVars, OK, CHECK_CODE, IO_ERR,
    RUNTIME_ERR, CANCELED, FUJI_WAIT_FOR_ACCESS, FUJI_MULTIPLE_TRANSFER, FUJI_FULL_ACCESS,
    FUJI_PC_AUTO_SAVE, FUJI_REMOTE_ACCESS, FUJI_VIEW_MULTIPLE, FUJI_VIEW_ALL_IMGS,
    FUJI_OLD_REMOTE, FUJI_REMOTE_MODE, FUJI_MODE_REMOTE_IMG_VIEW,
    FUJI_MODE_REMOTE_IMG_VIEW_XAPP, FUJI_MODE_REMOTE_LIVE_VIEW_XAPP, SetupPlaces,
    LiveviewPlaces, Early, BeforeRound, Round, LvPlaces, GaPlaces, AfterMode, Xapp,
    Remote, Live, LiveModes, WithLiveview, InGallery, TypeInv, ValuesTyped, FlagsTyped,
    CountsTyped, CountInv, AccessInv, OfferedInv, BackInv, VideoSocketOnce, CameraInv,
    GalleryMode, BeforeLiveview
<1>1. CASE Handshake \/ CheckCancel \/ HandshakeAgain
  BY <1>1 DEF Handshake, CheckCancel, HandshakeAgain
<1>2. CASE OpenSession
  BY <1>2 DEF OpenSession, HasLiveview
<1>3. CASE FirstEvents \/ WaitForAccess \/ AccessGranted \/ ModeEvents
  BY <1>3 DEF FirstEvents, WaitForAccess, AccessGranted, ModeEvents, GetEvents,
      NoAccess
<1>4. CASE GetVersions
  BY <1>4 DEF GetVersions
<1>5. CASE InitMode
  BY <1>5 DEF InitMode, PreferredMode
<1>6. CASE XappGallery \/ ConfigVersion \/ Storage
  BY <1>6 DEF XappGallery, ConfigVersion, Storage, Transactions
<1>7. CASE ThroughLiveview
  BY <1>7 DEF ThroughLiveview
<1>8. CASE LiveviewStep
  <2>1. CASE ConfigXapp \/ ConfigAgain
    BY <1>8, <2>1 DEF LiveviewStep, ConfigXapp, ConfigAgain, Announce, Events
  <2>2. CASE NoteTransaction \/ OpenCapture
    BY <1>8, <2>2 DEF LiveviewStep, NoteTransaction, OpenCapture
  <2>3. CASE ConnectSockets
    <3>1. ~refused' => ~refused /\ rc' = OK
      BY <2>3, Zenon DEF ConnectSockets
    <3>2. CASE ~alive \/ opened_liveview_sockets
      <4>1. ~refused' => alive /\ opened_liveview_sockets
        BY <2>3, <3>1, <3>2 DEF ConnectSockets
      <4>2. /\ pc = "lv_sockets" /\ pc' = back
            /\ UNCHANGED <<opened_liveview_sockets, event_sockets, video_sockets, capture,
                           client_mode, versionVars, screen, outcomeVars, back, transaction>>
        BY <1>8, <2>3, <3>2 DEF LiveviewStep, ConnectSockets
      <4> QED  BY <3>1, <4>1, <4>2
    <3>3. CASE alive /\ ~opened_liveview_sockets
      <4>1. ~refused' => /\ event_sockets' = event_sockets + 1
                         /\ video_sockets' = video_sockets + 1
                         /\ opened_liveview_sockets'
        BY <2>3, <3>1, <3>3 DEF ConnectSockets
      <4>2. /\ pc = "lv_sockets" /\ pc' = back
            /\ UNCHANGED <<capture, client_mode, versionVars, screen, outcomeVars, back,
                           transaction>>
        BY <1>8, <2>3 DEF LiveviewStep, ConnectSockets
      <4> QED  BY <3>1, <3>3, <4>1, <4>2
    <3> QED  BY <3>2, <3>3
  <2>4. CASE EndLiveview
    BY <1>8, <2>4 DEF LiveviewStep, EndLiveview, Events
  <2>5. CASE EnterGallery
    BY <1>8, <2>5 DEF LiveviewStep, EnterGallery, Announce, Events, GalleryMode
  <2>6. CASE GalleryVersion
    BY <1>8, <2>6 DEF LiveviewStep, GalleryVersion, Events
  <2> QED  BY <1>8, <2>1, <2>2, <2>3, <2>4, <2>5, <2>6 DEF LiveviewStep, Procedures
<1>9. CASE ScreenStep
  BY <1>9 DEF ScreenStep, Screens, SwitchScreen, ToLiveview, Leaving, ToGallery
<1>10. CASE Grant \/ Move \/ Cancel \/ OtherStep \/ LinkStep \/ UNCHANGED vars
  BY <1>10 DEF Grant, Move, Cancel, OtherStep, OtherTransaction, LinkStep, LoseLink
<1> QED  BY <1>1, <1>2, <1>3, <1>4, <1>5, <1>6, <1>7, <1>8, <1>9, <1>10 DEF Next, Client, Rest

-----------------------------------------------------------------------------
(* Any private data block that Init describes satisfies the invariant.     *)
LEMMA InitInv == Init => IInv
<1> SUFFICES ASSUME Init PROVE IInv
  OBVIOUS
<1> USE LiveviewAssumption, SetupAssumption DEF Init, OK, FUJI_WAIT_FOR_ACCESS,
    FUJI_REMOTE_ACCESS, SetupPlaces, LiveviewPlaces, Early, BeforeRound, Round, LvPlaces,
    GaPlaces, AfterMode, Xapp
<1>1. PlacesTyped
  BY DEF PlacesTyped, Codes
<1>2. FlagsTyped
  BY Zenon DEF FlagsTyped
<1>3. ValuesTyped /\ CountsTyped
  BY DEF ValuesTyped, CountsTyped, CountInv
<1>4. AccessInv /\ OfferedInv
  BY DEF AccessInv, OfferedInv
<1>5. VersionInv /\ BackInv
  BY DEF VersionInv, BackInv, ModeFitsTransport, FUJI_MODE_REMOTE_IMG_VIEW,
      FUJI_MODE_REMOTE_IMG_VIEW_XAPP, FUJI_MODE_REMOTE_LIVE_VIEW_XAPP
<1>6. VideoSocketOnce
  BY DEF VideoSocketOnce
<1>7. CameraInv
  BY DEF CameraInv, Live, WithLiveview, InGallery, Remote
<1> QED  BY <1>1, <1>2, <1>3, <1>4, <1>5, <1>6, <1>7 DEF IInv, TypeInv

(* Every step keeps all of its parts.                                     *)
LEMMA StepInv == IInv /\ [Next]_vars => IInv'
BY PlacesStep, FlagsStep, ValuesStep, CountsStep, AccessStep, VersionStep, OfferedStep,
   BackStep, SocketStep, CameraStep DEF IInv, TypeInv

\* The inductive invariant.
THEOREM Invariance == Spec => []IInv
BY InitInv, StepInv, PTL DEF Spec

\* The parts of the type invariant make up TypeOK: a socket is connected at
\* most once per id, so there are never more sockets than ids.
THEOREM TypeCorrect == Spec => []TypeOK
<1>1. IInv => TypeOK
  <2> SUFFICES ASSUME IInv PROVE TypeOK
    OBVIOUS
  <2>1. PlacesTyped /\ FlagsTyped /\ ValuesTyped /\ CountsTyped
    BY DEF IInv, TypeInv
  <2>2. event_sockets \in 0 .. MaxTransactions /\ video_sockets \in 0 .. MaxTransactions
    BY <2>1, LiveviewAssumption DEF CountsTyped, CountInv
  <2> QED  BY <2>1, <2>2 DEF TypeOK, PlacesTyped, FlagsTyped, ValuesTyped, CountsTyped
<1> QED  BY <1>1, Invariance, PTL

\* A fuji_setup that returned 0 has a session and, unless it tethers, was let
\* in by the camera's user and has told the camera its mode, whatever the
\* camera answered, held back or rejected on the way.
THEOREM SetupLeavesAReadyCamera == Spec => []Ready
<1>1. IInv => Ready
  BY DEF IInv, AccessInv, Ready
<1> QED  BY <1>1, Invariance, PTL

\* The modes of the newer application are only set on a camera that has them,
\* for any remote version: fuji_setup corrects the transport first.
THEOREM NewModesNeedANewCamera == Spec => []ModeFitsTransport
<1>1. IInv => ModeFitsTransport
  BY DEF IInv, VersionInv
<1> QED  BY <1>1, Invariance, PTL

\* The liveview socket is connected at most once and opened_liveview_sockets
\* says whether it is, however often the screens are switched.
THEOREM LiveviewSocketIsConnectedOnce == Spec => []VideoSocketOnce
<1>1. IInv => VideoSocketOnce
  BY DEF IInv
<1> QED  BY <1>1, Invariance, PTL

\* As long as the camera has refused nothing, its capture, its mode and its
\* sockets are those of the user's screen, for any number of screen switches
\* and of commands that other threads send in between.
THEOREM CameraFollowsTheScreen == Spec => []ScreenMatchesCamera
<1>1. IInv => ScreenMatchesCamera
  <2> SUFFICES ASSUME IInv, pc = "idle", offered, ~refused
               PROVE  /\ screen = "gallery" => capture = 0
                      /\ (screen = "liveview" /\ remote_version # -1) =>
                            /\ capture # 0
                            /\ client_mode \in {FUJI_REMOTE_MODE, FUJI_MODE_REMOTE_LIVE_VIEW_XAPP}
                            /\ event_sockets = 1 /\ video_sockets = 1
                      /\ (screen = "gallery" /\ transaction > 1 /\ remote_image_view_version # -1)
                            => client_mode = GalleryMode
    BY DEF ScreenMatchesCamera
  <2>1. CameraInv /\ VideoSocketOnce
    BY DEF IInv
  <2>2. screen = "gallery" => capture = 0
    BY <2>1 DEF CameraInv, Live
  <2>3. (screen = "liveview" /\ remote_version # -1) =>
           /\ capture # 0
           /\ client_mode \in {FUJI_REMOTE_MODE, FUJI_MODE_REMOTE_LIVE_VIEW_XAPP}
           /\ event_sockets = 1 /\ video_sockets = 1
    BY <2>1 DEF CameraInv, Live, Remote, LiveModes, VideoSocketOnce
  <2>4. (screen = "gallery" /\ transaction > 1 /\ remote_image_view_version # -1)
           => client_mode = GalleryMode
    BY <2>1 DEF CameraInv, InGallery
  <2> QED  BY <2>2, <2>3, <2>4
<1> QED  BY <1>1, Invariance, PTL

=============================================================================
