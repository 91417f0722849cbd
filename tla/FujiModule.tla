----------------------------- MODULE FujiModule -----------------------------
(***************************************************************************)
(* The module of the host (lib/module.c): connecting over Wi-Fi, USB and   *)
(* Bluetooth, the thread that ticks once a second, requests, and going.    *)
(* The runtime pointer (r) and the Bluetooth device (dev) are shared by    *)
(* the callbacks without a lock.  One job is followed step by step: the    *)
(* tick, the wish to disconnect and requests of other threads come between *)
(* any two of its steps.  The host frees the module when nothing runs.     *)
(***************************************************************************)
EXTENDS Bluetooth, FujiThumbs, FiniteSets

CONSTANTS
    MaxRuntimes,    \* bound: connections over Wi-Fi and USB
    MaxJobs,        \* bound: jobs
    Options         \* setup options: a subset of SetupOptions

SetupOptions == {"wifi", "wifi-from-bt-xapp", "local-network", "other", "NULL"}
Runtimes == 1 .. MaxRuntimes

ASSUME ModuleAssumption ==
    MaxRuntimes \in Nat \ {0} /\ MaxJobs \in Nat /\ Options \subseteq SetupOptions

VARIABLES
    job,        \* the place in the running job
    jobs,       \* jobs so far
    usb,        \* the runtimes that are PTP_USB
    dev,        \* priv->dev, NoCamera for NULL
    tick,       \* the place in on_idle_tick
    polled,     \* the runtime pointer it read
    fatal,      \* pak_rt_fatal_error has been called
    freed       \* on_free has been called

moduleVars == <<usb, dev, fatal, freed>>
tickVars == <<tick, polled>>
vars == <<btVars, runtimeVars, thumbVars, job, jobs, moduleVars, tickVars>>

Wifi == {"option", "connect", "discover", "tether", "setup", "close", "forget"}
Usb == {"usb_open", "usb_setup"}
Places == Wifi \cup Usb \cup {"idle", "pairing", "to_wifi", "thumb"}

Init ==
    /\ BtInit /\ ThumbInit
    /\ r = 0 /\ life = [k \in Runtimes |-> "none"]
    /\ job = "idle" /\ jobs = 0 /\ usb = {} /\ dev = NoCamera
    /\ tick = "idle" /\ polled = 0
    /\ fatal = FALSE /\ freed = FALSE

Starts(place) ==
    /\ job = "idle" /\ ~freed /\ jobs < MaxJobs
    /\ job' = place
    /\ jobs' = jobs + 1

Goes(from, to) == job = from /\ job' = to /\ UNCHANGED jobs

\* Mutant: the error is left to the Bluetooth device, if there is one.
handle_ptperr_kept ==
    fatal' = (fatal \/ dev = NoCamera) /\ UNCHANGED dev

\* handle_ptperr of PTP_IO_ERR: fatal when there is no Bluetooth device, which
\* is forgotten otherwise.
handle_ptperr ==
    /\ fatal' = (fatal \/ dev = NoCamera)
    /\ dev' = NoCamera

-----------------------------------------------------------------------------
(* Connecting over Wi-Fi and USB.                                          *)

\* fuji_ptp_new: a runtime that was in use is not closed.
fuji_ptp_new ==
    /\ \E k \in Runtimes :
          /\ life[k] = "none" /\ \A i \in 1 .. k - 1 : life[i] # "none"
          /\ r' = k
          /\ life' = [life EXCEPT ![k] = "connecting"]
    /\ lock' = "none" /\ data' = NoAnswer
    /\ newer' = FALSE /\ allowed' = FALSE /\ transport' = "unset"

on_try_connect_wifi ==
    /\ Starts("option")
    /\ fuji_ptp_new
    /\ UNCHANGED <<btVars, thumbVars, moduleVars, tickVars>>

\* Without a setup option the job ends with the runtime there.
SetupOption ==
    /\ job = "option"
    /\ \E option \in Options :
          /\ job' = CASE option = "NULL" -> "idle"
                      [] option = "local-network" -> "discover"
                      [] option = "other" -> "close"
                      [] OTHER -> "connect"
          /\ transport' = CASE option = "wifi" -> "WIRELESS_COMM"
                            [] option = "wifi-from-bt-xapp" -> "XAPP_WIRELESS_COMM"
                            [] OTHER -> transport
    /\ UNCHANGED <<btVars, thumbVars, jobs, r, life, lock, data, newer, allowed,
                   moduleVars, tickVars>>

\* A camera is found, or this client has been registered with one (the job
\* ends with the runtime there), or nothing, or the job is cancelled.
fuji_discover_thread ==
    /\ job = "discover"
    /\ \/ /\ job' = "connect"
          /\ transport' \in {"AUTOSAVE", "WIRELESS_TETHER"}
       \/ job' \in {"idle", "close", "setup"} /\ UNCHANGED transport
    /\ UNCHANGED <<btVars, thumbVars, jobs, r, life, lock, data, newer, allowed,
                   moduleVars, tickVars>>

ptpip_connect ==
    /\ job = "connect"
    /\ \/ /\ job' = IF transport = "WIRELESS_TETHER" THEN "tether" ELSE "setup"
          /\ life' = [life EXCEPT ![r] = IF @ = "connecting" THEN "open" ELSE @]
       \/ job' = "close" /\ UNCHANGED life
    /\ UNCHANGED <<btVars, thumbVars, jobs, r, lock, data, transport, newer, allowed,
                   moduleVars, tickVars>>

\* A tether that fails keeps its runtime.
fujitether_setup ==
    /\ Goes("tether", "idle")
    /\ handle_ptperr \/ UNCHANGED <<fatal, dev>>    \* success, or another error
    /\ UNCHANGED <<btVars, thumbVars, runtimeVars, usb, freed, tickVars>>

\* fuji_setup.  The last use of the connection before the host has it.
fuji_setup ==
    /\ job = "setup"
    /\ UNCHANGED jobs
    /\ \/ job' = "idle" /\ life[r] = "open" /\ newer' \in BOOLEAN
       \/ job' = "close" /\ UNCHANGED newer
    /\ UNCHANGED <<btVars, thumbVars, r, life, lock, data, transport, allowed,
                   moduleVars, tickVars>>

\* cleanup: the runtime is closed ...
ptp_close ==
    /\ Goes("close", "forget")
    /\ life' = [life EXCEPT ![r] = "closed"]
    /\ UNCHANGED <<btVars, thumbVars, r, lock, data, transport, newer, allowed,
                   moduleVars, tickVars>>

\* ... and forgotten.
ForgetRuntime ==
    /\ Goes("forget", "idle")
    /\ r' = 0
    /\ UNCHANGED <<btVars, thumbVars, life, lock, data, transport, newer, allowed,
                   moduleVars, tickVars>>

\* Over USB the runtime is kept when connecting to the device or setting it
\* up fails.
on_try_connect_usb ==
    /\ Starts("usb_open")
    /\ fuji_ptp_new
    /\ usb' = usb \cup {r'}
    /\ UNCHANGED <<btVars, thumbVars, dev, fatal, freed, tickVars>>

UsbOpen ==
    /\ job = "usb_open"
    /\ UNCHANGED jobs
    /\ \/ job' = "usb_setup"
          /\ life' = [life EXCEPT ![r] = IF @ = "connecting" THEN "open" ELSE @]
       \/ job' = "idle" /\ UNCHANGED life
    /\ UNCHANGED <<btVars, thumbVars, r, lock, data, transport, newer, allowed,
                   moduleVars, tickVars>>

fujiusb_setup ==
    /\ Goes("usb_setup", "idle")
    /\ transport' \in {transport, "USB"}
    /\ UNCHANGED <<btVars, thumbVars, r, life, lock, data, newer, allowed,
                   moduleVars, tickVars>>

-----------------------------------------------------------------------------
(* Bluetooth.                                                              *)

on_try_connect_bluetooth ==
    /\ Starts("pairing")
    /\ \E c \in Cameras : fuji_connect_bluetooth(c)
    /\ UNCHANGED <<runtimeVars, thumbVars, moduleVars, tickVars>>

\* Mutant: the device is kept whatever the call returns.
BluetoothStepKept ==
    /\ job \in {"pairing", "to_wifi"}
    /\ BtStep
    /\ job' = IF bt' = "idle" THEN "idle" ELSE job
    /\ dev' = IF bt' = "idle" THEN camera ELSE dev
    /\ UNCHANGED <<runtimeVars, thumbVars, jobs, usb, fatal, freed, tickVars>>

\* The device is kept only when all went well; a camera that is connected
\* already stays connected.
BluetoothStep ==
    /\ job \in {"pairing", "to_wifi"}
    /\ BtStep
    /\ job' = IF bt' = "idle" THEN "idle" ELSE job
    /\ dev' = IF bt = "save" THEN camera ELSE dev
    /\ UNCHANGED <<runtimeVars, thumbVars, jobs, usb, fatal, freed, tickVars>>

\* on_prop_changed of "switch-wifi".  The device is not compared with NULL; a
\* press without one is left out.
SwitchWifi ==
    /\ Starts("to_wifi")
    /\ dev # NoCamera
    /\ fuji_bluetooth_connect_to_wifi(dev)
    /\ UNCHANGED <<runtimeVars, thumbVars, moduleVars, tickVars>>

\* The same of "autosave-thumbnails", a widget of a camera in PC AutoSave.
AllowThumbs ==
    /\ Starts("idle")
    /\ r # 0 /\ transport = "AUTOSAVE"
    /\ allowed' = ~allowed
    /\ UNCHANGED <<btVars, thumbVars, r, life, lock, data, transport, newer,
                   moduleVars, tickVars>>

-----------------------------------------------------------------------------
(* Requests.                                                               *)

on_request_thumbnail ==
    /\ Starts("thumb")
    /\ r # 0
    /\ th' = "lock"
    /\ asked' \in Objects
    /\ UNCHANGED <<btVars, runtimeVars, exif, polls, moduleVars, tickVars>>

ThumbnailStep ==
    /\ job = "thumb"
    /\ ThumbStep
    /\ job' = IF th' = "idle" THEN "idle" ELSE "thumb"
    /\ UNCHANGED <<btVars, jobs, moduleVars, tickVars>>

\* An error other than those: the mutex is released first.
ThumbnailError ==
    /\ th = "error"
    /\ Goes("thumb", "idle")
    /\ ThumbEnds
    /\ lock' = "none"
    /\ handle_ptperr
    /\ UNCHANGED <<btVars, r, life, transport, newer, allowed, usb, freed, tickVars>>

\* Requests of another thread, which hold the mutex while they have an answer
\* in the buffer.  (It matters while the job gets a thumbnail.)  That metadata
\* cannot be had is an error for the host, that a frame cannot is not.
AnswerUnderLock(kind) ==
    /\ job = "thumb" /\ lock = "none"
    /\ Answer(kind, 0)
    /\ UNCHANGED <<btVars, thumbVars, r, life, lock, transport, newer, allowed, job,
                   jobs, moduleVars, tickVars>>

on_request_file_metadata ==
    \/ AnswerUnderLock("info")
    \/ /\ job = "thumb" /\ lock = "none" /\ life[r] # "open"
       /\ handle_ptperr
       /\ UNCHANGED <<btVars, thumbVars, runtimeVars, job, jobs, usb, freed, tickVars>>

on_request_liveview_frame == AnswerUnderLock("frame")

-----------------------------------------------------------------------------
(* The tick, and going.                                                    *)

on_idle_tick ==
    /\ tick = "idle" /\ ~freed
    /\ polled' = r
    /\ tick' = IF r = 0 THEN "device" ELSE "poll"
    /\ UNCHANGED <<btVars, runtimeVars, thumbVars, job, jobs, moduleVars>>

\* fuji_get_events, which holds the mutex, or ptpusb_get_status.  A runtime
\* that is no longer the one in use has another mutex and buffer.  One that a
\* job has closed meanwhile is freed memory: the poll may seem to succeed, or
\* to fail in any way (TickError).  That the host crashes is left out.
TickPoll ==
    /\ tick = "poll" /\ life[polled] \in {"open", "closed"}
    /\ polled = r => lock = "none"
    /\ tick' = "device"
    /\ \/ job = "thumb" /\ polled = r /\ polled \notin usb
             /\ Answer("events", 0)
       \/ UNCHANGED data
    /\ UNCHANGED <<btVars, r, life, lock, transport, newer, allowed, thumbVars, job,
                   jobs, moduleVars, polled>>

\* It fails.  A USB device that has gone is PTP_NO_DEVICE, or PTP_IO_ERR.
TickError ==
    /\ tick = "poll" /\ life[polled] # "open"
    /\ polled = r => lock = "none"
    /\ tick' = "idle" /\ polled' = 0
    /\ \/ handle_ptperr
       \/ (polled \in usb \/ life[polled] = "closed") /\ UNCHANGED <<fatal, dev>>
    /\ UNCHANGED <<btVars, runtimeVars, thumbVars, job, jobs, usb, freed>>

\* A Bluetooth device that is no longer connected is fatal.
TickDevice ==
    /\ tick = "device"
    /\ tick' = "idle" /\ polled' = 0
    /\ fatal' = (fatal \/ (dev # NoCamera /\ dev \notin linked))
    /\ UNCHANGED <<btVars, runtimeVars, thumbVars, job, jobs, usb, dev, freed>>

\* The connection is shut down, with the mutex, and the device disconnected;
\* neither pointer is cleared.
on_disconnect ==
    /\ ~freed
    /\ r # 0 \/ dev # NoCamera
    /\ r # 0 => lock = "none"
    /\ life' = [k \in Runtimes |->
                    IF k = r /\ life[k] \in {"open", "connecting"} THEN "dead"
                    ELSE life[k]]
    /\ linked' = linked \ {dev}
    /\ UNCHANGED <<bt, camera, isNew, accepted, priv, signatures, r, lock, data,
                   transport, newer, allowed, thumbVars, job, jobs, moduleVars,
                   tickVars>>

\* The runtime is closed, and the private data is gone.
on_free ==
    /\ ~freed /\ job = "idle" /\ tick = "idle"
    /\ freed' = TRUE
    /\ life' = [k \in Runtimes |-> IF k = r THEN "closed" ELSE life[k]]
    /\ r' = 0 /\ dev' = NoCamera /\ fatal' = FALSE
    /\ ssid' = NoCamera /\ password' = NoCamera /\ unread' = {}
    /\ UNCHANGED <<bt, camera, isNew, linked, accepted, signatures, lock, data,
                   transport, newer, allowed, thumbVars, job, jobs, usb, tickVars>>

\* The camera goes out of range.
LinkLost(k) ==
    /\ life[k] = "open"
    /\ life' = [life EXCEPT ![k] = "dead"]
    /\ UNCHANGED <<btVars, r, lock, data, transport, newer, allowed, thumbVars, job,
                   jobs, moduleVars, tickVars>>

\* The same of the device in use; of another one nobody would notice.
BluetoothLost ==
    /\ dev \in linked
    /\ linked' = linked \ {dev}
    /\ UNCHANGED <<bt, camera, isNew, accepted, priv, signatures, runtimeVars, thumbVars,
                   job, jobs, moduleVars, tickVars>>

Camera == ~freed /\
    \/ \E k \in Runtimes : LinkLost(k)
    \/ BluetoothLost
    \/ \E c \in Cameras : CameraForgets(c)
          /\ UNCHANGED <<runtimeVars, thumbVars, job, jobs, moduleVars, tickVars>>

JobStep ==
    \/ SetupOption \/ fuji_discover_thread \/ ptpip_connect \/ fujitether_setup
    \/ fuji_setup \/ ptp_close \/ ForgetRuntime \/ UsbOpen \/ fujiusb_setup
    \/ BluetoothStep \/ ThumbnailStep \/ ThumbnailError

JobStart ==
    \/ on_try_connect_wifi \/ on_try_connect_usb \/ on_try_connect_bluetooth
    \/ SwitchWifi \/ AllowThumbs \/ on_request_thumbnail

Tick == on_idle_tick \/ TickDevice
Poll == TickPoll \/ TickError

Next ==
    \/ JobStart \/ JobStep
    \/ Tick \/ Poll
    \/ on_request_file_metadata \/ on_request_liveview_frame
    \/ on_disconnect \/ on_free
    \/ Camera

\* The host ticks, a job goes on, and a mutex that is free again and again is
\* got in the end.
Fairness == WF_vars(JobStep) /\ WF_vars(Tick) /\ SF_vars(Poll)

Spec == Init /\ [][Next]_vars /\ Fairness
-----------------------------------------------------------------------------
(* Properties.                                                             *)

TypeOK ==
    /\ r \in 0 .. MaxRuntimes /\ polled \in 0 .. MaxRuntimes
    /\ life \in [Runtimes -> {"none", "connecting", "open", "dead", "closed"}]
    /\ job \in Places /\ jobs \in 0 .. MaxJobs
    /\ usb \subseteq Runtimes /\ dev \in Cameras \cup {NoCamera}
    /\ tick \in {"idle", "poll", "device"}
    /\ fatal \in BOOLEAN /\ freed \in BOOLEAN
    /\ bt \in InPairing \cup InWifi \cup {"idle"}
    /\ Running <=> job \in {"pairing", "to_wifi"}
    /\ camera \in IF Running THEN Cameras ELSE {NoCamera}
    /\ linked \subseteq Cameras /\ accepted \subseteq Cameras
    /\ th \in InThumb \cup {"idle"} /\ (th # "idle" <=> job = "thumb")
    /\ lock = IF th \in {"idle", "lock"} THEN "none" ELSE "job"

\* The host gets the thumbnail it asked for: neither the tick nor the object
\* information that some cameras need changes the buffer before it is handed
\* over, nor does any other thread.  Not so for a thumbnail from EXIF data: the
\* events polled after it may have replaced it.
ThumbIsOwn ==
    th = "give" /\ polls = 0 => data = [kind |-> "thumb", obj |-> asked]

\* The Wi-Fi connection that the host is given is that of the camera that was
\* told to start it, unless its name or password could not be read when it
\* was connected last: then they may be those of another camera.
WifiIsOwn ==
    bt = "watch" /\ camera \notin unread =>
        ssid = camera /\ password \in {NoCamera, camera}

\* A signature is saved for the first time only for a camera that knows this
\* client, and so does every camera at the end of the call, with one exception:
\* a camera of the secure pairing that is connected again may have forgotten
\* the client, which lib/bluetooth.c:433 leaves to do.
SavedIsAccepted ==
    [][/\ signatures' \ signatures \subseteq accepted
       /\ bt = "save" /\ bt' = "idle" =>
             camera \in accepted \/ (camera \in Secure /\ ~isNew)]_vars

\* A network connection that is dead is reported to the host as a fatal error,
\* though the first failing poll only drops the Bluetooth device if there is
\* one: "on_disconnect will be called" (lib/module.c:25).
DeadIsReported ==
    \A k \in Runtimes :
        (r = k /\ life[k] = "dead" /\ k \notin usb) ~> (fatal \/ r # k)
=============================================================================
