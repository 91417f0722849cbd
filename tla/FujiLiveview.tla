---------------------------- MODULE FujiLiveview ----------------------------
(***************************************************************************)
(* Entering and leaving liveview and the image gallery (lib/fuji.c), and   *)
(* on_switch_screen (lib/module.c), which the host calls when the user     *)
(* changes the screen.                                                     *)
(*                                                                         *)
(* The three procedures run on behalf of a caller: back is the place they  *)
(* return to, with their return code in rc.  Transactions that follow each *)
(* other with nothing between them but "if (rc) return rc" are one step,   *)
(* which fails where any of them fails; what the first of them did to the  *)
(* camera before a later one fails is part of the step.                    *)
(***************************************************************************)
EXTENDS Integers

CONSTANTS
    MaxTransactions,    \* bound: transaction ids that this model counts
    ViewVersions        \* values the camera may give for 0xDF25

ASSUME LiveviewAssumption ==
    /\ MaxTransactions \in Nat \ {0}
    /\ ViewVersions \subseteq Int

VARIABLES
    pc,                         \* place of the thread
    back,                       \* place the procedure in progress returns to
    rc,                         \* last return code
    transport,                  \* fuji->transport
    remote_version,             \* fuji->remote_version, -1 without remote mode
    remote_image_view_version,  \* fuji->remote_image_view_version
    opened_liveview_sockets,    \* fuji->opened_liveview_sockets
    open_capture_trans_id,      \* fuji->open_capture_trans_id
    transaction,                \* r->transaction, the next id; only ids that
                                \* matter for a capture are counted
    camera_state,               \* fuji->camera_state, -1 until an event has told it
    screen,                     \* the host's screen: "gallery" or "liveview"
    alive,                      \* the command socket works
    cam_state,                  \* camera: CameraState_DF00
    cam_view,                   \* camera: RemoteGetObjectVersion_DF25
    client_mode,                \* camera: the last ClientState_DF01
    capture,                    \* camera: id of the open capture, 0 for none
    event_sockets,              \* sockets connected to the camera's event port
    video_sockets,              \* sockets connected to its liveview port
    refused                     \* a transaction or connection has failed

\* What the client has read from the camera, and what it keeps of a capture.
versionVars == <<transport, remote_version, remote_image_view_version>>
captureVars == <<opened_liveview_sockets, open_capture_trans_id, transaction>>
cameraVars  == <<alive, cam_state, cam_view, client_mode, capture, event_sockets, video_sockets, refused>>
liveviewVars == <<pc, back, rc, screen, camera_state, versionVars, captureVars, cameraVars>>

OK         == "OK"
CHECK_CODE == "PTP_CHECK_CODE"
IO_ERR     == "PTP_IO_ERR"

Transports == {"WIRELESS_COMM", "XAPP_WIRELESS_COMM", "AUTOSAVE", "WIRELESS_TETHER"}

\* Values of CameraState_DF00 and of ClientState_DF01 (lib/fujiptp.h).
FUJI_WAIT_FOR_ACCESS   == 0
FUJI_MULTIPLE_TRANSFER == 1
FUJI_FULL_ACCESS       == 2
FUJI_PC_AUTO_SAVE      == 3
FUJI_REMOTE_ACCESS     == 6

FUJI_VIEW_MULTIPLE == 1
FUJI_VIEW_ALL_IMGS == 2
FUJI_OLD_REMOTE    == 3
FUJI_REMOTE_MODE   == 5
FUJI_MODE_REMOTE_IMG_VIEW       == 11
FUJI_MODE_REMOTE_IMG_VIEW_XAPP  == 20
FUJI_MODE_REMOTE_LIVE_VIEW_XAPP == 22

Xapp == transport = "XAPP_WIRELESS_COMM"

\* The camera's answer to a transaction.
Answer(c) == IF alive THEN c \in {OK, CHECK_CODE} ELSE c = IO_ERR

\* fuji_get_events: the camera tells its state, has nothing to tell or
\* rejects the request, which fuji_get_events reports as success.
Events == camera_state' \in {camera_state, IF alive THEN cam_state' ELSE camera_state}

\* Call a procedure at place p, to come back to b.
Call(p, b) ==
    /\ pc' = p
    /\ back' = b

Step(p, c) ==
    /\ pc' = p
    /\ rc' = c
    /\ UNCHANGED back

\* Return from the procedure with code c.
Return(c) == Step(back, c)

\* Go on to place p after success, return otherwise.
OnwardOrReturn(c, p) == Step(IF c = OK THEN p ELSE back, c)

Refused(c) == refused' = (refused \/ c # OK)

-----------------------------------------------------------------------------
(* fuji_config_liveview.                                                   *)

\* The state and the mode that the client announces; the camera may have
\* adopted either when a later transaction of the step fails.
Announce(c, mode) ==
    \/ /\ alive
       /\ cam_state' = FUJI_REMOTE_ACCESS
       /\ client_mode' \in {mode} \cup (IF c = OK THEN {} ELSE {client_mode})
    \/ /\ c # OK
       /\ UNCHANGED <<cam_state, client_mode>>

ConfigXapp ==
    /\ pc = "lv_xapp"
    /\ \/ /\ Xapp
          /\ \E c \in {OK, CHECK_CODE, IO_ERR} :
                /\ Answer(c)
                /\ Announce(c, FUJI_MODE_REMOTE_LIVE_VIEW_XAPP)
                /\ OnwardOrReturn(c, "lv_again")
                /\ Refused(c)
       \/ /\ ~Xapp
          /\ Step("lv_again", OK)
          /\ UNCHANGED <<cam_state, client_mode, refused>>
    /\ UNCHANGED <<screen, camera_state, versionVars, captureVars, alive, cam_view, capture,
                   event_sockets, video_sockets>>

\* Nothing more without remote mode; on a later entry the state, the mode and
\* the version are announced again.
ConfigAgain ==
    /\ pc = "lv_again"
    /\ \/ /\ remote_version = -1 \/ ~opened_liveview_sockets
          /\ Step(IF remote_version = -1 THEN back ELSE "lv_note", OK)
          /\ UNCHANGED <<cam_state, client_mode, camera_state, refused>>
       \/ /\ remote_version # -1 /\ opened_liveview_sockets
          /\ \E c \in {OK, CHECK_CODE, IO_ERR} :
                /\ Answer(c)
                /\ Announce(c, FUJI_REMOTE_MODE)
                /\ Events
                /\ OnwardOrReturn(c, "lv_note")
                /\ Refused(c)
    /\ UNCHANGED <<screen, versionVars, captureVars, alive, cam_view, capture, event_sockets,
                   video_sockets>>

\* Mutant: the id after the next one is noted.
NoteTransactionLate ==
    /\ pc = "lv_note"
    /\ Step("lv_capture", rc)
    /\ open_capture_trans_id' = transaction + 1
    /\ UNCHANGED <<screen, camera_state, versionVars, opened_liveview_sockets, transaction, cameraVars>>

\* The id of the next transaction is noted without the lock.
NoteTransaction ==
    /\ pc = "lv_note"
    /\ Step("lv_capture", rc)
    /\ open_capture_trans_id' = transaction
    /\ UNCHANGED <<screen, camera_state, versionVars, opened_liveview_sockets, transaction, cameraVars>>

\* InitOpenCapture takes the next id.  A camera with an open capture rejects
\* it or starts over.
OpenCapture ==
    /\ pc = "lv_capture"
    /\ transaction' = transaction + 1
    /\ \E c \in {OK, CHECK_CODE, IO_ERR} :
        /\ Answer(c)
        /\ OnwardOrReturn(c, "lv_sockets")
        /\ capture' = IF c = OK THEN transaction ELSE capture
        /\ Refused(c)
    /\ UNCHANGED <<screen, camera_state, versionVars, opened_liveview_sockets, open_capture_trans_id,
                   alive, cam_state, cam_view, client_mode, event_sockets, video_sockets>>

\* Another thread (on_idle_tick polls the events every second) sends a
\* command between the two.
OtherTransaction ==
    /\ pc = "lv_capture"
    /\ transaction < MaxTransactions
    /\ transaction' = transaction + 1
    /\ UNCHANGED <<pc, back, rc, screen, camera_state, versionVars, opened_liveview_sockets,
                   open_capture_trans_id, cameraVars>>

\* Mutant: the flag is not set.
ConnectSocketsUnmarked ==
    /\ pc = "lv_sockets"
    /\ UNCHANGED cam_state
    /\ Events
    /\ \/ /\ ~alive \/ opened_liveview_sockets
          /\ Return(IF alive THEN OK ELSE IO_ERR)
          /\ Refused(rc')
          /\ UNCHANGED <<event_sockets, video_sockets>>
       \/ /\ alive /\ ~opened_liveview_sockets
          /\ \E events, video \in BOOLEAN :
                /\ video => events
                /\ Return(IF video THEN OK ELSE IO_ERR)
                /\ Refused(rc')
                /\ event_sockets' = event_sockets + (IF events THEN 1 ELSE 0)
                /\ video_sockets' = video_sockets + (IF video THEN 1 ELSE 0)
    /\ UNCHANGED <<screen, versionVars, captureVars, alive, cam_view, client_mode, capture>>

\* fuji_get_events, then the two extra sockets of the first entry: events,
\* and video once events is connected.
ConnectSockets ==
    /\ pc = "lv_sockets"
    /\ UNCHANGED cam_state
    /\ Events
    /\ \/ /\ ~alive \/ opened_liveview_sockets
          /\ Return(IF alive THEN OK ELSE IO_ERR)
          /\ Refused(rc')
          /\ UNCHANGED <<opened_liveview_sockets, event_sockets, video_sockets>>
       \/ /\ alive /\ ~opened_liveview_sockets
          /\ \E events, video \in BOOLEAN :
                /\ video => events
                /\ Return(IF video THEN OK ELSE IO_ERR)
                /\ Refused(rc')
                /\ event_sockets' = event_sockets + (IF events THEN 1 ELSE 0)
                /\ video_sockets' = video_sockets + (IF video THEN 1 ELSE 0)
                /\ opened_liveview_sockets' = video
    /\ UNCHANGED <<screen, versionVars, open_capture_trans_id, transaction, alive, cam_view,
                   client_mode, capture>>

-----------------------------------------------------------------------------
(* fuji_end_liveview.                                                      *)

\* TerminateOpenCapture names the capture by the id that was noted.
EndLiveview ==
    /\ pc = "el"
    /\ UNCHANGED cam_state
    /\ \/ /\ remote_version = -1
          /\ Return(OK)
          /\ UNCHANGED <<camera_state, capture, refused>>
       \/ /\ remote_version # -1
          /\ Events
          /\ \E c \in {OK, CHECK_CODE, IO_ERR} :
                /\ Answer(c)
                /\ c = OK => capture = open_capture_trans_id
                /\ Return(c)
                /\ capture' = IF c = OK THEN 0 ELSE capture
                /\ Refused(c)
    /\ UNCHANGED <<screen, versionVars, captureVars, alive, cam_view, client_mode,
                   event_sockets, video_sockets>>

-----------------------------------------------------------------------------
(* fuji_config_image_gallery.                                              *)

GalleryMode == IF Xapp THEN FUJI_MODE_REMOTE_IMG_VIEW_XAPP ELSE FUJI_MODE_REMOTE_IMG_VIEW

\* Up to and including the mode.
EnterGallery ==
    /\ pc = "ga"
    /\ \/ /\ transport = "WIRELESS_TETHER" \/ remote_image_view_version = -1
          /\ Return(OK)
          /\ UNCHANGED <<cam_state, client_mode, camera_state, refused>>
       \/ /\ transport # "WIRELESS_TETHER" /\ remote_image_view_version # -1
          /\ \E c \in {OK, CHECK_CODE, IO_ERR} :
                /\ Answer(c)
                /\ Announce(c, GalleryMode)
                /\ Events
                /\ OnwardOrReturn(c, "ga_version")
                /\ Refused(c)
    /\ UNCHANGED <<screen, versionVars, captureVars, alive, cam_view, capture, event_sockets,
                   video_sockets>>

\* fuji_xapp_config_gallery, or the version 0xDF25, read and raised to 5.
\* What was read is stored before its return code is looked at: after a
\* failure it is whatever the response held.
GalleryVersion ==
    /\ pc = "ga_version"
    /\ UNCHANGED cam_state
    /\ Events
    /\ \E c \in {OK, CHECK_CODE, IO_ERR} :
        /\ Answer(c)
        /\ Return(c)
        /\ Refused(c)
        /\ \/ /\ Xapp
              /\ UNCHANGED <<remote_image_view_version, cam_view>>
           \/ /\ ~Xapp
              /\ IF c = OK THEN remote_image_view_version' = cam_view
                 ELSE remote_image_view_version' \in ViewVersions
              /\ cam_view' = IF c = OK THEN 5 ELSE cam_view
    /\ UNCHANGED <<screen, transport, remote_version, captureVars, alive, client_mode, capture,
                   event_sockets, video_sockets>>

-----------------------------------------------------------------------------
(* on_switch_screen.                                                       *)

\* Mutant: liveview is left without fuji_end_liveview.
SwitchScreenHastily ==
    /\ pc = "idle"
    /\ \/ screen = "gallery" /\ transaction < MaxTransactions /\ Call("lv_xapp", "to_liveview")
       \/ screen = "liveview" /\ Call("ga", "to_gallery")
    /\ UNCHANGED <<rc, screen, camera_state, versionVars, captureVars, cameraVars>>

\* The user opens liveview, or leaves it.  Between two screens that are not
\* liveview the callback does nothing.
SwitchScreen ==
    /\ pc = "idle"
    /\ \/ screen = "gallery" /\ transaction < MaxTransactions /\ Call("lv_xapp", "to_liveview")
       \/ screen = "liveview" /\ Call("el", "leaving")
    /\ UNCHANGED <<rc, screen, camera_state, versionVars, captureVars, cameraVars>>

\* The callback reports an error and the host stays where it was.
ToLiveview ==
    /\ pc = "to_liveview"
    /\ pc' = "idle"
    /\ screen' = IF rc = OK THEN "liveview" ELSE screen
    /\ UNCHANGED <<back, rc, camera_state, versionVars, captureVars, cameraVars>>

\* fuji_end_liveview has returned: its return code is not looked at.
Leaving ==
    /\ pc = "leaving"
    /\ Call("ga", "to_gallery")
    /\ UNCHANGED <<rc, screen, camera_state, versionVars, captureVars, cameraVars>>

\* Neither is that of fuji_config_image_gallery.
ToGallery ==
    /\ pc = "to_gallery"
    /\ pc' = "idle"
    /\ screen' = "gallery"
    /\ UNCHANGED <<back, rc, camera_state, versionVars, captureVars, cameraVars>>

LoseLink ==
    /\ alive
    /\ alive' = FALSE
    /\ UNCHANGED <<pc, back, rc, screen, camera_state, versionVars, captureVars, cam_state,
                   cam_view, client_mode, capture, event_sockets, video_sockets, refused>>

Procedures ==
    \/ ConfigXapp \/ ConfigAgain \/ NoteTransaction \/ OpenCapture \/ ConnectSockets
    \/ EndLiveview
    \/ EnterGallery \/ GalleryVersion

Screens == SwitchScreen \/ ToLiveview \/ Leaving \/ ToGallery

=============================================================================
