----------------------------- MODULE Bluetooth -----------------------------
(***************************************************************************)
(* Bluetooth (lib/bluetooth.c): pairing with a camera, or connecting again *)
(* to one whose signature was saved, and having the camera start its       *)
(* access point.  One job of the host runs these calls, one after the      *)
(* other; every exchange with the camera is a step, and may fail.  The     *)
(* counts of references to GATT services and characteristics are left out. *)
(***************************************************************************)
CONSTANTS
    Cameras,
    Secure,     \* the cameras that have the secure pairing service only
    NoCamera

ASSUME BluetoothAssumption == Secure \subseteq Cameras /\ NoCamera \notin Cameras

VARIABLES
    bt,         \* the place in the running call, or "idle"
    camera,     \* the camera the call is about
    isNew,      \* saved == NULL: no signature was given
    linked,     \* the cameras that are connected
    accepted,   \* camera: those that know this client
    ssid,       \* priv->wifi_ssid: whose it is, NoCamera for none
    password,   \* priv->wifi_password: whose it is, NoCamera if not hidden
    unread,     \* history: the cameras whose SSID or password was not read
    signatures  \* the cameras whose signature the host has saved

btVars == <<bt, camera, isNew, linked, accepted, ssid, password, unread,
            signatures>>
priv == <<ssid, password, unread>>

BtInit ==
    /\ bt = "idle" /\ camera = NoCamera /\ isNew = FALSE
    /\ linked = {} /\ accepted = {} /\ unread = {} /\ signatures = {}
    /\ ssid = NoCamera /\ password = NoCamera

InPairing == {"connect", "bond", "status", "token", "name", "props", "save"}
InWifi == {"trigger", "watch"}

At(from, to) == bt = from /\ bt' = to
Returns(from) == bt = from /\ bt' = "idle" /\ camera' = NoCamera /\ isNew' = FALSE
Running == bt # "idle"

\* Any exchange may fail: the call returns an error, and releases nothing.
BtFails ==
    /\ \E from \in (InPairing \ {"props", "save"}) \cup InWifi : Returns(from)
    /\ UNCHANGED <<linked, accepted, priv, signatures>>

\* fuji_connect_bluetooth, up to the connection.
fuji_connect_bluetooth(c) ==
    /\ At("idle", "connect")
    /\ camera' = c
    /\ isNew' \in (IF c \in signatures THEN BOOLEAN ELSE {TRUE})
    /\ UNCHANGED <<linked, accepted, priv, signatures>>

\* A new camera must be advertising that it is in pairing mode (BtFails).
\* pak_bt_device_connect, and a look for the service of the older pairing.
DeviceConnect ==
    /\ bt = "connect"
    /\ linked' = linked \cup {camera}
    /\ bt' = CASE camera \notin Secure -> "token"
               [] camera \in Secure /\ isNew -> "bond"
               [] OTHER -> "status"
    /\ UNCHANGED <<camera, isNew, accepted, priv, signatures>>

CreateBond ==
    /\ At("bond", "status")
    /\ UNCHANGED <<camera, isNew, linked, accepted, priv, signatures>>

\* The status is read and written back with the acknowledgement, which makes
\* this client known after a new bond.  A camera that is connected again with
\* its saved signature is not asked for anything else: the call goes on though
\* it may have forgotten the client (the TODO before DeviceConnect), or is
\* refused (BtFails).
WriteStatus ==
    /\ At("status", "name")
    /\ accepted' = IF isNew THEN accepted \cup {camera} ELSE accepted
    /\ UNCHANGED <<camera, isNew, linked, priv, signatures>>

\* Mutant: a rejected token does not end the call.
WriteTokenUnchecked ==
    /\ At("token", "name")
    /\ accepted' = IF isNew THEN accepted \cup {camera} ELSE accepted
    /\ UNCHANGED <<camera, isNew, linked, priv, signatures>>

\* A camera takes the token it advertises, or one of a client it knows.  One
\* that has forgotten the client rejects it (BtFails).
WriteToken ==
    /\ At("token", "name")
    /\ isNew \/ camera \in accepted
    /\ accepted' = accepted \cup {camera}
    /\ UNCHANGED <<camera, isNew, linked, priv, signatures>>

send_client_name ==
    /\ At("name", "props")
    /\ UNCHANGED <<camera, isNew, linked, accepted, priv, signatures>>

\* What cannot be read stays as the last camera left it: its SSID, and its
\* password, since wifi_ssid_is_hidden is never reset.  The result code of
\* fill_props is not looked at.
fill_props ==
    /\ At("props", "save")
    /\ \/ UNCHANGED <<ssid, password>>
       \/ ssid' = camera /\ password' \in {password, camera}
    /\ unread' = IF ssid' = camera /\ password' \in {camera, NoCamera}
                 THEN unread \ {camera} ELSE unread \cup {camera}
    /\ UNCHANGED <<camera, isNew, linked, accepted, signatures>>

\* The subscriptions, whose failures are only logged, and the signature.
SaveSignature ==
    /\ Returns("save")
    /\ signatures' = signatures \cup {camera}
    /\ UNCHANGED <<linked, accepted, priv>>

\* fuji_bluetooth_connect_to_wifi: the camera is told to start its access
\* point ...
fuji_bluetooth_connect_to_wifi(c) ==
    /\ At("idle", "trigger")
    /\ camera' = c
    /\ UNCHANGED <<isNew, linked, accepted, priv, signatures>>

Trigger ==
    /\ At("trigger", "watch")
    /\ UNCHANGED <<camera, isNew, linked, accepted, priv, signatures>>

\* ... and says that it has, or that it is busy, or nothing in time.  The host
\* is given the connection unless the camera is busy; that nothing came is the
\* result all the same.
Watch ==
    /\ Returns("watch")
    /\ UNCHANGED <<linked, accepted, priv, signatures>>

\* The user of the camera deletes the pairing that the host has saved.
CameraForgets(c) ==
    /\ c \in accepted \cap signatures
    /\ ~Running
    /\ accepted' = accepted \ {c}
    /\ UNCHANGED <<bt, camera, isNew, linked, priv, signatures>>

BtStep ==
    \/ DeviceConnect \/ CreateBond \/ WriteStatus \/ WriteToken
    \/ send_client_name \/ fill_props \/ SaveSignature \/ Trigger \/ Watch
    \/ BtFails
=============================================================================
