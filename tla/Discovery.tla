----------------------------- MODULE Discovery -----------------------------
(***************************************************************************)
(* fuji_discover_thread (lib/discovery.c): finding a camera on the local   *)
(* network, and what on_try_connect_wifi (lib/module.c) does next.         *)
(*                                                                         *)
(* A camera in PC AutoSave broadcasts a datagram, is notified over TCP and *)
(* then connects to the invite server of the client (docs/autosave.md); a  *)
(* camera in wireless tethering hears the client's broadcast and connects  *)
(* to its tether server.  Datagrams are lost and repeated, every system    *)
(* call can fail, and the camera can go away at any time.  open is the set *)
(* of the sockets of the client that exist, stored anywhere or not.        *)
(***************************************************************************)
EXTENDS Integers

VARIABLES
    pc,         \* place of the client
    open,       \* sockets of the client
    result,     \* what fuji_discover_thread returns, "none" before
    inbox,      \* AutoSave sockets with a datagram to read
    calls,      \* the tether server has a connection to accept
    mode,       \* camera: "register", "connect" or "tether"
    cam,        \* camera: how far it is
    cancelled,  \* the user has cancelled the job
    connected   \* the command socket of the runtime is connected

clientVars == <<pc, open, result, connected>>
cameraVars == <<mode, cam>>
vars == <<clientVars, inbox, calls, cameraVars, cancelled>>

REGISTERED == "FUJI_D_REGISTERED"
GO_PTP     == "FUJI_D_GO_PTP"
D_CANCELED == "FUJI_D_CANCELED"
Failed     == "-1"

\* The sockets that close_all_sockets knows: DiscoveryState has their fds.
Stored == {"reg", "con", "tether", "pcss"}
Sockets == Stored \cup {"local", "notify", "invite", "request"}

Opening == {"local_ip", "open_reg", "open_con", "open_tether", "open_pcss"}
Talking == {"notify", "ack", "listen", "await", "recv", "reply", "tether"}

Init ==
    /\ pc = "local_ip" /\ open = {} /\ result = "none"
    /\ inbox = {} /\ calls = FALSE
    /\ mode \in {"register", "connect", "tether"} /\ cam = "calling"
    /\ cancelled = FALSE /\ connected = FALSE

Goto(from, to) ==
    /\ pc = from
    /\ pc' = to

\* The thread is about to return c: the stored sockets are closed first.
Return(from, c) ==
    /\ Goto(from, "close")
    /\ result' = c

world == <<inbox, calls, cameraVars, cancelled, connected>>

-----------------------------------------------------------------------------
(* Opening the sockets.                                                    *)

\* get_local_ip: the socket is closed again after success only.
LocalIp ==
    /\ \/ Goto("local_ip", "open_reg") /\ UNCHANGED <<open, result>>
       \/ Goto("local_ip", "returned") /\ open' = {"local"} /\ result' = Failed
    /\ UNCHANGED world

\* One socket of try_connect_all_sockets; a datagram socket that cannot be
\* bound is closed, the other two are not.
OpenSocket(s, from, to) ==
    /\ \/ Goto(from, to) /\ open' = open \cup {s} /\ UNCHANGED result
       \/ Return(from, Failed) /\ UNCHANGED open
       \/ s \in {"tether", "pcss"} /\ Return(from, Failed) /\ open' = open \cup {"local"}
    /\ UNCHANGED world

OpenSockets ==
    \/ OpenSocket("reg", "open_reg", "open_con")
    \/ OpenSocket("con", "open_con", "open_tether")
    \/ OpenSocket("tether", "open_tether", "open_pcss")
    \/ OpenSocket("pcss", "open_pcss", "idle")

-----------------------------------------------------------------------------
(* state_idle.                                                             *)

\* What select has found, in the order in which it is looked at.
Ready(s) ==
    CASE s = "register" -> "register" \in inbox
      [] s = "connect" -> "connect" \in inbox /\ "register" \notin inbox
      [] s = "tether" -> calls /\ inbox = {}

\* Mutant: the answer to a greeting does not depend on its port.
GreetingOnce ==
    /\ pc = "idle"
    /\ \E s \in inbox :
        /\ Ready(s)
        /\ pc' = "notify"
        /\ result' = REGISTERED
        /\ inbox' = inbox \ {s}
    /\ UNCHANGED <<open, connected, calls, cameraVars, cancelled>>

\* A datagram is read; result is what the thread will return if all goes well.
Greeting ==
    /\ pc = "idle"
    /\ \E s \in inbox :
        /\ Ready(s)
        /\ pc' = "notify"
        /\ result' = IF s = "register" THEN REGISTERED ELSE GO_PTP
        /\ inbox' = inbox \ {s}
    /\ UNCHANGED <<open, connected, calls, cameraVars, cancelled>>

\* An error of recvfrom is not seen (its return value is converted to an
\* unsigned length): a zero is written far out of the buffer, and whatever the
\* buffer holds is taken for the datagram, or cannot be.  That the write ends
\* the process is left out.
GreetingUnread ==
    /\ pc = "idle"
    /\ \E s \in inbox :
        /\ Ready(s)
        /\ \/ /\ pc' = "notify"
              /\ result' = IF s = "register" THEN REGISTERED ELSE GO_PTP
           \/ Return("idle", Failed)
    /\ UNCHANGED <<open, world>>

TetherCall ==
    /\ Ready("tether")
    /\ Goto("idle", "tether")
    /\ UNCHANGED <<open, result, world>>

\* Mutant: the cancel is not looked at.
NothingForEver ==
    /\ inbox = {} /\ ~calls
    /\ pc = "idle"
    /\ UNCHANGED vars

\* Nothing within a second: another round, unless the job is cancelled.
Nothing ==
    /\ inbox = {} /\ ~calls
    /\ \/ cancelled /\ Return("idle", D_CANCELED)
       \/ ~cancelled /\ pc = "idle" /\ UNCHANGED <<pc, result>>
    /\ UNCHANGED <<open, world>>

\* The broadcast cannot be sent, select fails, or the datagram is empty.
IdleFails ==
    /\ Return("idle", Failed)
    /\ UNCHANGED <<open, world>>

-----------------------------------------------------------------------------
(* respond_to_datagram.                                                    *)

\* connect_to_notify_server: an error before the wait leaves the socket, the
\* end of the wait without a connection closes it.
Notify ==
    /\ \/ /\ cam = "calling" /\ mode # "tether"
          /\ Goto("notify", "ack")
          /\ open' = open \cup {"notify"}
          /\ cam' = "notified"
          /\ UNCHANGED result
       \/ /\ Return("notify", Failed)
          /\ open' \in {open, open \cup {"notify"}}
          /\ UNCHANGED cam
    /\ UNCHANGED <<inbox, calls, mode, cancelled, connected>>

\* The answer of the camera.  An error of recv is not seen (its return value
\* is converted to an unsigned length): the code looks for the text of an
\* answer in a buffer that was never written, and may find either.
Ack ==
    /\ \/ cam \in {"accepted", "inviting", "gone"} /\ Goto("ack", "listen") /\ UNCHANGED result
       \/ cam \in {"rejected", "gone"} /\ Return("ack", Failed)
    /\ open' = open \ {"notify"}
    /\ UNCHANGED world

-----------------------------------------------------------------------------
(* start_invite_server.                                                    *)

Listen ==
    /\ \/ Goto("listen", "await") /\ open' = open \cup {"invite"} /\ UNCHANGED result
       \/ Return("listen", Failed) /\ open' \in {open, open \cup {"invite"}}
    /\ UNCHANGED world

\* A connection within 30 seconds; accept may fail.
Await ==
    /\ \/ /\ cam = "inviting"
          /\ Goto("await", "recv")
          /\ open' = open \cup {"request"}
          /\ UNCHANGED result
       \/ /\ cam = "inviting"
          /\ Return("await", Failed)
          /\ UNCHANGED open
       \/ /\ cam # "inviting"
          /\ Return("await", Failed)
          /\ open' = open \ {"invite"}
    /\ UNCHANGED world

\* The request arrives, or what arrives cannot be used.
Recv ==
    /\ cam \in {"inviting", "gone"}
    /\ \/ Goto("recv", "reply") /\ UNCHANGED result
       \/ Return("recv", Failed)
    /\ UNCHANGED <<open, world>>

\* Mutant: the listening socket is left open.
ReplyOnly ==
    /\ \/ Goto("reply", "close") /\ open' = open \ {"request"} /\ UNCHANGED result
       \/ Return("reply", Failed) /\ UNCHANGED open
    /\ cam' = IF cam = "inviting" /\ result' # Failed THEN "done" ELSE cam
    /\ UNCHANGED <<inbox, calls, mode, cancelled, connected>>

Reply ==
    /\ \/ Goto("reply", "close") /\ open' = open \ {"request", "invite"} /\ UNCHANGED result
       \/ Return("reply", Failed) /\ UNCHANGED open
    /\ cam' = IF cam = "inviting" /\ result' # Failed THEN "done" ELSE cam
    /\ UNCHANGED <<inbox, calls, mode, cancelled, connected>>

\* fuji_tether_accept: the request and its answer are one exchange; an error
\* leaves the accepted socket open.
Tether ==
    /\ \/ Return("tether", GO_PTP) /\ UNCHANGED open
       \/ Return("tether", Failed) /\ open' \in {open, open \cup {"request"}}
    /\ calls' = FALSE
    /\ cam' = IF cam = "inviting" /\ result' # Failed THEN "done" ELSE cam
    /\ UNCHANGED <<inbox, mode, cancelled, connected>>

-----------------------------------------------------------------------------
(* The end of the thread and of on_try_connect_wifi.                       *)

CloseAll ==
    /\ Goto("close", "returned")
    /\ open' = open \ Stored
    /\ UNCHANGED <<result, world>>

\* GO_PTP connects the command socket; an error or a registration ends the
\* attempt; everything else goes on to the setup.
TryConnect ==
    /\ pc = "returned"
    /\ \/ /\ result = GO_PTP
          /\ pc' \in {"setup", "over"}
          /\ connected' = (pc' = "setup")
       \/ /\ result \in {Failed, REGISTERED}
          /\ pc' = "over"
          /\ UNCHANGED connected
       \/ /\ result = D_CANCELED
          /\ pc' = "setup"
          /\ UNCHANGED connected
    /\ UNCHANGED <<open, result, inbox, calls, cameraVars, cancelled>>

-----------------------------------------------------------------------------
(* The camera.                                                             *)

Camera(from, to) ==
    /\ cam = from
    /\ cam' = to
    /\ UNCHANGED <<clientVars, inbox, mode, cancelled>>

\* A datagram reaches the socket that is bound to its port, or nobody.
Broadcast ==
    /\ cam = "calling"
    /\ \/ mode = "register" /\ "reg" \in open
       \/ mode = "connect" /\ "con" \in open
    /\ inbox' = inbox \cup {mode}
    /\ UNCHANGED <<clientVars, calls, cameraVars, cancelled>>

\* A camera in wireless tethering has heard the client.
TetherConnect ==
    /\ mode = "tether" /\ {"tether", "pcss"} \subseteq open
    /\ Camera("calling", "inviting")
    /\ calls' = TRUE

AnswerNotify ==
    /\ \E c \in {"accepted", "rejected"} : Camera("notified", c)
    /\ UNCHANGED calls

\* The camera connects to the invite server; it does not find one that is not
\* listening yet, and tries again or goes away.
Invite ==
    /\ "invite" \in open
    /\ Camera("accepted", "inviting")
    /\ UNCHANGED calls

Leave ==
    /\ \E c \in {"calling", "notified", "accepted", "inviting"} : Camera(c, "gone")
    /\ UNCHANGED calls

Cancel ==
    /\ ~cancelled
    /\ cancelled' = TRUE
    /\ UNCHANGED <<clientVars, inbox, calls, cameraVars>>

Over ==
    /\ pc \in {"setup", "over"}
    /\ UNCHANGED vars

Client ==
    \/ LocalIp \/ OpenSockets
    \/ Greeting \/ TetherCall \/ Nothing
    \/ Notify \/ Ack \/ Listen \/ Await \/ Recv \/ Reply \/ Tether
    \/ CloseAll \/ TryConnect

Next ==
    \/ Client \/ IdleFails \/ GreetingUnread
    \/ Broadcast \/ TetherConnect \/ AnswerNotify \/ Invite \/ Leave
    \/ Cancel \/ Over

\* The thread keeps running, and a camera that has been notified answers or is
\* found to be gone: the reads of the client have no end of their own.  The
\* broadcasts need not happen, nobody has to cancel, and no round of the wait
\* has to fail.
Fairness ==
    /\ WF_vars(Client)
    /\ WF_vars(AnswerNotify)

Spec == Init /\ [][Next]_vars /\ Fairness

-----------------------------------------------------------------------------
(* Properties.                                                             *)

\* A thread that has found a camera, registered with one or been cancelled
\* leaves no socket behind ("All connections closed", docs/autosave.md:33).
ClosedAfterSuccess ==
    (pc \in {"returned", "setup", "over"} /\ result # Failed) => open = {}

\* The client and the camera mean the same: the client registers with a camera
\* that wants to register, goes on to PTP with one that wants to connect, and
\* only when that camera has come to its server.
Agreement ==
    (pc \in {"returned", "setup", "over"} /\ result \in {REGISTERED, GO_PTP}) =>
        /\ result = REGISTERED <=> mode = "register"
        /\ cam \in {"done", "gone"}

\* A cancelled search comes to an end, from whatever place.
CancelEnds ==
    cancelled ~> pc \in {"setup", "over"}

\* The setup begins on a connected command socket: "Assumes cmd socket is
\* valid" (lib/fuji.c:341).
SetupHasSocket ==
    pc = "setup" => connected

=============================================================================
