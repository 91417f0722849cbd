----------------------------- MODULE FujiSetup -----------------------------
(***************************************************************************)
(* fuji_setup (lib/fuji.c): from a connected command socket to a gallery,  *)
(* and then the screens of FujiLiveview.                                   *)
(*                                                                         *)
(* The camera lets the client in when its user presses OK, tells its state *)
(* through events that it may hold back or reject, can change the state    *)
(* later, can reject any transaction and can go away at any time.  What it *)
(* is (cam_...) and what the client believes (the fields of fuji) are      *)
(* different variables.                                                    *)
(***************************************************************************)
EXTENDS FujiLiveview

CONSTANTS
    RemoteVersions,     \* values the camera may give for 0xDF24
    GrantedStates       \* camera states in which the client is let in

ASSUME SetupAssumption ==
    /\ RemoteVersions \subseteq Int
    /\ GrantedStates \subseteq {1, 2, 3, 6, 11, 20}

VARIABLES
    session_open,   \* camera: a PTP session is open
    moved,          \* camera: its user has changed its state
    cam_remote,     \* camera: RemoteVersion_DF24
    cancelled,      \* the user has cancelled the job that connects
    handshakes,     \* handshakes that have been attempted
    result,         \* what fuji_setup returned, "none" before
    offered         \* the host has been told that there is a liveview screen

progressVars == <<session_open, moved, cam_remote, cancelled, handshakes>>
outcomeVars == <<result, offered>>
vars == <<liveviewVars, progressVars, outcomeVars>>

RUNTIME_ERR == "PTP_RUNTIME_ERR"
CANCELED    == "PTP_CANCELED"
Codes == {OK, CHECK_CODE, IO_ERR, RUNTIME_ERR, CANCELED}

SetupPlaces == {"handshake", "cancel_1", "cancel_2", "handshake_again", "open_session",
                "first_events", "wait", "versions", "init_mode", "mode_events",
                "xapp_gallery", "config_version", "storage", "start_liveview",
                "end_liveview", "gallery", "end"}

LiveviewPlaces == {"lv_xapp", "lv_again", "lv_note", "lv_capture", "lv_sockets", "el", "ga", "ga_version",
                   "to_liveview", "leaving", "to_gallery"}

\* A private data block of zeros; on_try_connect_wifi has chosen the transport
\* and connected the command socket.
Init ==
    /\ pc = "handshake" /\ back = "end" /\ rc = OK
    /\ transport \in Transports
    /\ remote_version = 0 /\ remote_image_view_version = 0
    /\ opened_liveview_sockets = FALSE
    /\ open_capture_trans_id = 0 /\ transaction = 1
    /\ camera_state = 0
    /\ screen = "gallery"
    /\ alive = TRUE /\ refused = FALSE
    /\ cam_state = FUJI_WAIT_FOR_ACCESS /\ moved = FALSE
    /\ cam_remote \in RemoteVersions /\ cam_view \in ViewVersions
    /\ client_mode = 0 /\ capture = 0
    /\ event_sockets = 0 /\ video_sockets = 0
    /\ session_open \in BOOLEAN
    /\ cancelled = FALSE /\ handshakes = 0
    /\ result = "none" /\ offered = FALSE

\* The states with liveview: remote access, and two that are also modes.
HasLiveview ==
    camera_state \in {FUJI_REMOTE_ACCESS, FUJI_MODE_REMOTE_IMG_VIEW,
                      FUJI_MODE_REMOTE_IMG_VIEW_XAPP}

\* fuji_setup returns c; on_try_connect_wifi then offers the screens that the
\* state stands for.
SetupReturns(c) ==
    /\ Step(IF c = OK THEN "idle" ELSE "failed", c)
    /\ result' = c
    /\ offered' = (c = OK /\ HasLiveview)

\* Go on to place p after success, return c from fuji_setup otherwise.
OnwardOr(c, p) ==
    \/ c = OK /\ Step(p, OK) /\ UNCHANGED outcomeVars
    \/ c # OK /\ SetupReturns(c)

-----------------------------------------------------------------------------
(* Handshake and session.                                                  *)

\* ptpip_fuji_connect_handshake: accepted, rejected by the camera, or broken.
Handshake ==
    /\ pc = "handshake"
    /\ handshakes' = 1
    /\ \E c \in {OK, RUNTIME_ERR, IO_ERR} :
        /\ alive \/ c = IO_ERR
        /\ Step(CASE c = OK -> "open_session" [] c = RUNTIME_ERR -> "cancel_2" [] OTHER -> "cancel_1", c)
    /\ UNCHANGED <<screen, camera_state, versionVars, captureVars, cameraVars,
                   session_open, moved, cam_remote, cancelled, outcomeVars>>

\* The checks for a cancel after a failure: two of them, with a pause between
\* them, when the transfer failed and one when the camera said no.
CheckCancel ==
    /\ pc \in {"cancel_1", "cancel_2"}
    /\ \/ cancelled /\ SetupReturns(CANCELED)
       \/ /\ ~cancelled
          /\ Step(IF pc = "cancel_1" THEN "cancel_2" ELSE "handshake_again", rc)
          /\ UNCHANGED outcomeVars
    /\ UNCHANGED <<screen, camera_state, versionVars, captureVars, cameraVars, progressVars>>

HandshakeAgain ==
    /\ pc = "handshake_again"
    /\ handshakes' = 2
    /\ \E c \in {OK, RUNTIME_ERR, IO_ERR} :
        /\ alive \/ c = IO_ERR
        /\ OnwardOr(c, "open_session")
    /\ UNCHANGED <<screen, camera_state, versionVars, captureVars, cameraVars,
                   session_open, moved, cam_remote, cancelled>>

\* OpenSession; a camera whose session is open already says so, which is as
\* good.  Wireless tethering needs no more.
OpenSession ==
    /\ pc = "open_session"
    /\ \E c \in {OK, CHECK_CODE, IO_ERR} :
        /\ Answer(c)
        /\ session_open' = (session_open \/ c = OK)
        /\ IF c = OK /\ transport = "WIRELESS_TETHER"
           THEN SetupReturns(OK)
           ELSE OnwardOr(c, "first_events")
    /\ UNCHANGED <<screen, camera_state, versionVars, captureVars, cameraVars,
                   moved, cam_remote, cancelled, handshakes>>

-----------------------------------------------------------------------------
(* Access.                                                                 *)

\* Mutant: the state is not stored.
GetEventsUnread(before, p) ==
    \/ /\ alive
       /\ camera_state' = before
       /\ Step(p, OK)
       /\ UNCHANGED outcomeVars
    \/ /\ ~alive
       /\ camera_state' = before
       /\ SetupReturns(IO_ERR)

\* fuji_get_events when before is what the client thinks of the state.
GetEvents(before, p) ==
    \/ /\ alive
       /\ camera_state' \in {before, cam_state}
       /\ Step(p, OK)
       /\ UNCHANGED outcomeVars
    \/ /\ ~alive
       /\ camera_state' = before
       /\ SetupReturns(IO_ERR)

\* The state of the last session is forgotten first.
FirstEvents ==
    /\ pc = "first_events"
    /\ GetEvents(-1, "wait")
    /\ UNCHANGED <<screen, versionVars, captureVars, cameraVars, progressVars>>

\* Mutant: a state that has not been told yet is taken for access.
NoAccessYet == camera_state = FUJI_WAIT_FOR_ACCESS

NoAccess == camera_state \in {FUJI_WAIT_FOR_ACCESS, -1}

\* The loop that polls until the camera has let us in.
WaitForAccess ==
    /\ pc = "wait"
    /\ NoAccess
    /\ GetEvents(camera_state, "wait")
    /\ UNCHANGED <<screen, versionVars, captureVars, cameraVars, progressVars>>

AccessGranted ==
    /\ pc = "wait"
    /\ ~NoAccess
    /\ Step("versions", rc)
    /\ UNCHANGED <<screen, camera_state, versionVars, captureVars, cameraVars, progressVars, outcomeVars>>

-----------------------------------------------------------------------------
(* Versions and mode.                                                      *)

\* Mutant: the transport is not corrected.
GetVersionsOnly ==
    /\ pc = "versions"
    /\ \E c \in {OK, CHECK_CODE, IO_ERR} :
        /\ Answer(c)
        /\ OnwardOr(c, "init_mode")
        /\ \/ /\ c = OK
              /\ remote_image_view_version' = cam_view
              /\ remote_version' = cam_remote
              /\ UNCHANGED transport
           \/ /\ c # OK
              /\ remote_image_view_version' \in {remote_image_view_version, cam_view}
              /\ UNCHANGED <<transport, remote_version>>
        /\ Refused(c)
    /\ UNCHANGED <<screen, camera_state, captureVars, alive, cam_state, cam_view, client_mode,
                   capture, event_sockets, video_sockets, progressVars>>

\* 0xDF22, 0xDF25, 0xDF21 and 0xDF24.  A camera that came through Bluetooth
\* but has an older remote version is treated like one that did not.  A failure
\* may come after the second of them.
GetVersions ==
    /\ pc = "versions"
    /\ \E c \in {OK, CHECK_CODE, IO_ERR} :
        /\ Answer(c)
        /\ OnwardOr(c, "init_mode")
        /\ \/ /\ c = OK
              /\ remote_image_view_version' = cam_view
              /\ remote_version' = cam_remote
              /\ transport' = IF Xapp /\ cam_remote < 131079 (* 0x20007 *) THEN "WIRELESS_COMM" ELSE transport
           \/ /\ c # OK
              /\ remote_image_view_version' \in {remote_image_view_version, cam_view}
              /\ UNCHANGED <<transport, remote_version>>
        /\ Refused(c)
    /\ UNCHANGED <<screen, camera_state, captureVars, alive, cam_state, cam_view, client_mode,
                   capture, event_sockets, video_sockets, progressVars>>

\* The mode fuji_config_init_mode prefers, from the transport, the remote
\* version and the state.
PreferredMode ==
    CASE Xapp -> FUJI_MODE_REMOTE_IMG_VIEW_XAPP
      [] ~Xapp /\ (remote_version # -1 \/ camera_state = FUJI_REMOTE_ACCESS) -> FUJI_REMOTE_MODE
      [] ~Xapp /\ remote_version = -1 /\ camera_state = FUJI_MULTIPLE_TRANSFER -> FUJI_VIEW_MULTIPLE
      [] ~Xapp /\ remote_version = -1 /\ camera_state = FUJI_PC_AUTO_SAVE -> FUJI_OLD_REMOTE
      [] OTHER -> FUJI_VIEW_ALL_IMGS

InitMode ==
    /\ pc = "init_mode"
    /\ \E c \in {OK, CHECK_CODE, IO_ERR} :
        /\ Answer(c)
        /\ OnwardOr(c, "mode_events")
        /\ client_mode' = IF c = OK THEN PreferredMode ELSE client_mode
        /\ Refused(c)
    /\ UNCHANGED <<screen, camera_state, versionVars, captureVars, alive, cam_state, cam_view,
                   capture, event_sockets, video_sockets, progressVars>>

ModeEvents ==
    /\ pc = "mode_events"
    /\ GetEvents(camera_state, "xapp_gallery")
    /\ UNCHANGED <<screen, versionVars, captureVars, cameraVars, progressVars>>

\* Transactions that change nothing of this model; those that fail with a
\* code of tolerated are passed over.  They lead to the place p.
Transactions(tolerated, p) ==
    /\ \E c \in {OK, CHECK_CODE, IO_ERR} :
        /\ Answer(c)
        /\ OnwardOr(IF c \in tolerated THEN OK ELSE c, p)
        /\ Refused(c)
    /\ UNCHANGED <<alive, cam_state, cam_view, client_mode, capture, event_sockets, video_sockets>>

\* fuji_xapp_config_gallery, which the camera may reject.
XappGallery ==
    /\ pc = "xapp_gallery"
    /\ \/ Xapp /\ Transactions({CHECK_CODE}, "config_version")
       \/ ~Xapp /\ Step("config_version", OK) /\ UNCHANGED <<cameraVars, outcomeVars>>
    /\ UNCHANGED <<screen, camera_state, versionVars, captureVars, progressVars>>

\* The early return for a camera that sends its pictures by itself, then
\* fuji_config_version, nothing for XAPP, and correct sizes for AutoSave.
ConfigVersion ==
    /\ pc = "config_version"
    /\ \/ /\ camera_state = FUJI_MULTIPLE_TRANSFER
          /\ SetupReturns(OK)
          /\ UNCHANGED cameraVars
       \/ /\ camera_state # FUJI_MULTIPLE_TRANSFER
          /\ \/ ~Xapp /\ Transactions({}, "storage")
             \/ Xapp /\ Step("storage", OK) /\ UNCHANGED <<cameraVars, outcomeVars>>
    /\ UNCHANGED <<screen, camera_state, versionVars, captureVars, progressVars>>

\* StorageID, which a camera need not have.
Storage ==
    /\ pc = "storage"
    /\ Transactions({CHECK_CODE}, "start_liveview")
    /\ UNCHANGED <<screen, camera_state, versionVars, captureVars, progressVars>>

\* The round through liveview of a camera with remote mode: the calls of
\* fuji_config_liveview, fuji_end_liveview and fuji_config_image_gallery.
ThroughLiveview ==
    /\ \/ /\ pc = "start_liveview"
          /\ remote_version # -1 /\ camera_state = FUJI_REMOTE_ACCESS /\ ~Xapp
          /\ Call("lv_xapp", "end_liveview")
          /\ UNCHANGED <<rc, outcomeVars>>
       \/ /\ pc = "start_liveview"
          /\ ~(remote_version # -1 /\ camera_state = FUJI_REMOTE_ACCESS /\ ~Xapp)
          /\ SetupReturns(OK)
       \/ /\ pc = "end_liveview" /\ rc = OK
          /\ Call("el", "gallery")
          /\ UNCHANGED <<rc, outcomeVars>>
       \/ /\ pc = "gallery" /\ rc = OK
          /\ Call("ga", "end")
          /\ UNCHANGED <<rc, outcomeVars>>
       \/ /\ pc = "end" \/ (pc \in {"end_liveview", "gallery"} /\ rc # OK)
          /\ SetupReturns(rc)
    /\ UNCHANGED <<screen, camera_state, versionVars, captureVars, cameraVars, progressVars>>

-----------------------------------------------------------------------------
(* The camera, its user and the user of the client.                        *)

\* OK is pressed on the camera.
Grant ==
    /\ cam_state = FUJI_WAIT_FOR_ACCESS
    /\ cam_state' \in GrantedStates
    /\ UNCHANGED <<pc, back, rc, screen, camera_state, versionVars, captureVars, alive, cam_view,
                   client_mode, capture, event_sockets, video_sockets, refused, progressVars, outcomeVars>>

\* The camera's user makes it do something else, once.
Move ==
    /\ cam_state # FUJI_WAIT_FOR_ACCESS
    /\ ~moved
    /\ moved' = TRUE
    /\ cam_state' \in GrantedStates \ {cam_state}
    /\ UNCHANGED <<pc, back, rc, screen, camera_state, versionVars, captureVars, alive, cam_view,
                   client_mode, capture, event_sockets, video_sockets, refused,
                   session_open, cam_remote, cancelled, handshakes, outcomeVars>>

Cancel ==
    /\ ~cancelled
    /\ result = "none"
    /\ cancelled' = TRUE
    /\ UNCHANGED <<liveviewVars, session_open, moved, cam_remote, handshakes, outcomeVars>>

LiveviewStep == Procedures /\ UNCHANGED <<progressVars, outcomeVars>>

ScreenStep == offered /\ Screens /\ UNCHANGED <<progressVars, outcomeVars>>

OtherStep == OtherTransaction /\ UNCHANGED <<progressVars, outcomeVars>>

LinkStep == LoseLink /\ UNCHANGED <<progressVars, outcomeVars>>

\* The setup has failed, or the user does nothing.
Rest == pc \in {"idle", "failed"} /\ UNCHANGED vars

Client ==
    \/ Handshake \/ CheckCancel \/ HandshakeAgain \/ OpenSession
    \/ FirstEvents \/ WaitForAccess \/ AccessGranted
    \/ GetVersions \/ InitMode \/ ModeEvents \/ XappGallery \/ ConfigVersion
    \/ Storage \/ ThroughLiveview \/ LiveviewStep

Next == Client \/ ScreenStep \/ Grant \/ Move \/ Cancel \/ OtherStep \/ LinkStep \/ Rest

\* The thread keeps running; somebody presses OK; and a camera that is asked
\* again and again does not hold its state back for ever.
Fairness ==
    /\ WF_vars(Client)
    /\ WF_vars(Grant)
    /\ SF_vars(WaitForAccess /\ camera_state' = cam_state)

Spec == Init /\ [][Next]_vars /\ Fairness

-----------------------------------------------------------------------------
TypeOK ==
    /\ pc \in SetupPlaces \cup LiveviewPlaces \cup {"idle", "failed"}
    /\ back \in {"end_liveview", "gallery", "end", "to_liveview", "leaving", "to_gallery"}
    /\ rc \in Codes
    /\ transport \in Transports
    /\ remote_version \in RemoteVersions \cup {0}
    /\ remote_image_view_version \in ViewVersions \cup {0, 5}
    /\ opened_liveview_sockets \in BOOLEAN
    /\ transaction \in 1 .. MaxTransactions + 1
    /\ open_capture_trans_id \in 0 .. transaction
    /\ camera_state \in {-1, 0, FUJI_REMOTE_ACCESS} \cup GrantedStates
    /\ screen \in {"gallery", "liveview"}
    /\ alive \in BOOLEAN
    /\ refused \in BOOLEAN
    /\ cam_state \in {0, FUJI_REMOTE_ACCESS} \cup GrantedStates
    /\ cam_remote \in RemoteVersions
    /\ cam_view \in ViewVersions \cup {5}
    /\ client_mode \in {0, 1, 2, 3, 5, 11, 20, 22}
    /\ capture \in 0 .. transaction - 1
    /\ event_sockets \in 0 .. MaxTransactions
    /\ video_sockets \in 0 .. MaxTransactions
    /\ session_open \in BOOLEAN
    /\ moved \in BOOLEAN
    /\ cancelled \in BOOLEAN
    /\ handshakes \in 0 .. 2
    /\ result \in Codes \cup {"none"}
    /\ offered \in BOOLEAN

\* A setup that has returned 0 has a session, was let in by the camera's user
\* (the poll loop never takes "not told yet" for an answer) and has told the
\* camera its mode, on every path through the early returns.  Wireless
\* tethering asks for the session only.
Ready ==
    result = OK =>
        /\ session_open
        /\ transport # "WIRELESS_TETHER" =>
              /\ cam_state # FUJI_WAIT_FOR_ACCESS
              /\ camera_state \notin {FUJI_WAIT_FOR_ACCESS, -1}
              /\ client_mode # 0

\* The modes of the newer application are set only on a camera that has them:
\* the transport is corrected (fuji_setup) before the mode is chosen from it
\* (fuji_config_init_mode), and the screens choose from the corrected one.
ModeFitsTransport ==
    /\ client_mode \in {FUJI_MODE_REMOTE_IMG_VIEW_XAPP, FUJI_MODE_REMOTE_LIVE_VIEW_XAPP} =>
          cam_remote >= 131079
    /\ client_mode = FUJI_MODE_REMOTE_IMG_VIEW => ~Xapp

\* As long as nothing has been refused, the camera does what the user's screen
\* shows: it has an open capture and both extra sockets on the liveview screen,
\* no capture elsewhere, and it is in a mode of that screen.
ScreenMatchesCamera ==
    (pc = "idle" /\ offered /\ ~refused) =>
        /\ screen = "gallery" => capture = 0
        /\ (screen = "liveview" /\ remote_version # -1) =>
              /\ capture # 0
              /\ client_mode \in {FUJI_REMOTE_MODE, FUJI_MODE_REMOTE_LIVE_VIEW_XAPP}
              /\ event_sockets = 1 /\ video_sockets = 1
        /\ (screen = "gallery" /\ transaction > 1 /\ remote_image_view_version # -1) =>
              client_mode = GalleryMode

\* However often the screens are switched and whatever fails on the way, the
\* liveview socket is connected once, and the flag says so.
VideoSocketOnce ==
    video_sockets = (IF opened_liveview_sockets THEN 1 ELSE 0)

\* fuji_setup returns: the poll for access ends once the camera's user has
\* pressed OK and the camera tells it.  Without the user it goes on polling,
\* whether the job has been cancelled or not.
SetupEnds == <>(result # "none")

=============================================================================
