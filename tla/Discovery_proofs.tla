-------------------------- MODULE Discovery_proofs --------------------------
(***************************************************************************)
(* Proofs about Discovery: whatever the camera does, whichever system call *)
(* fails and whenever the user cancels, a search that succeeds leaves no   *)
(* socket behind and means what the camera means.                          *)
(***************************************************************************)
EXTENDS Discovery, TLAPS

Ended == {"returned", "setup", "over"}
Places == Opening \cup Talking \cup {"idle", "close"} \cup Ended

\* The place of the thread within respond_to_datagram and the invite server.
Answering == {"notify", "ack", "listen", "await", "recv", "reply"}

\* The sockets that close_all_sockets does not know, by place: each is closed
\* on the way that does not fail.
Unstored(p) ==
    IF p = "ack" THEN {"notify"}
    ELSE IF p = "await" THEN {"invite"}
    ELSE IF p \in {"recv", "reply"} THEN {"invite", "request"} ELSE {}

\* What the answer to a camera in mode m is.
AnswerTo(m) == IF m = "register" THEN REGISTERED ELSE GO_PTP

TypeInv ==
    /\ pc \in Places
    /\ open \subseteq Sockets
    /\ result \in {"none", REGISTERED, GO_PTP, D_CANCELED, Failed}
    /\ inbox \subseteq {"register", "connect"}
    /\ calls \in BOOLEAN /\ cancelled \in BOOLEAN /\ connected \in BOOLEAN
    /\ mode \in {"register", "connect", "tether"}
    /\ cam \in {"calling", "notified", "accepted", "rejected", "inviting",
                "gone", "done"}

\* On a way that has not failed, what is open is stored or closed later.
SocketInv ==
    /\ pc \notin Ended /\ result # Failed => open \subseteq Stored \cup Unstored(pc)
    /\ ClosedAfterSuccess

\* Only the camera there is calls; result is the answer to it from the
\* datagram on, and the camera has come when its connection is accepted.
AnswerInv ==
    /\ inbox \subseteq {mode} \ {"tether"}
    /\ calls => mode = "tether" /\ cam \in {"inviting", "gone"}
    /\ pc \in Opening \cup {"idle", "tether"} => result = "none"
    /\ pc \in Answering => mode # "tether" /\ result = AnswerTo(mode)
    /\ pc = "tether" => mode = "tether"
    /\ pc \in {"recv", "reply", "tether"} => cam \in {"inviting", "gone"}
    /\ pc \in {"close"} \cup Ended /\ result \in {REGISTERED, GO_PTP} =>
            result = AnswerTo(mode) /\ cam \in {"done", "gone"}

\* The command socket is connected on the way from GO_PTP to the setup, and
\* the only other way there is that of a cancelled search.
SetupInv ==
    /\ result = D_CANCELED => cancelled
    /\ pc = "setup" => (result = GO_PTP /\ connected) \/ result = D_CANCELED

IInv == TypeInv /\ SocketInv /\ AnswerInv /\ SetupInv

-----------------------------------------------------------------------------
LEMMA InitInv == Init => IInv
BY DEF Init, IInv, TypeInv, SocketInv, AnswerInv, SetupInv, ClosedAfterSuccess, Places, Opening,
    Talking, Ended, Answering, Sockets, Stored, REGISTERED, GO_PTP, D_CANCELED, Failed

\* Every step of the thread and of on_try_connect_wifi.
LEMMA ClientStep ==
    ASSUME IInv, Client \/ IdleFails \/ GreetingUnread
    PROVE  IInv'
<1> USE DEF IInv, TypeInv, SocketInv, AnswerInv, SetupInv, ClosedAfterSuccess, Places, Opening,
    Talking, Ended, Answering, Unstored, AnswerTo, Sockets, Stored, REGISTERED, GO_PTP, D_CANCELED,
    Failed, Goto, Return, world, clientVars, cameraVars, vars
<1>1. CASE LocalIp
  BY <1>1 DEF LocalIp
<1>2. CASE OpenSockets
  <2>1. CASE OpenSocket("reg", "open_reg", "open_con")
    BY <2>1 DEF OpenSocket
  <2>2. CASE OpenSocket("con", "open_con", "open_tether")
    BY <2>2 DEF OpenSocket
  <2>3. CASE OpenSocket("tether", "open_tether", "open_pcss")
    BY <2>3 DEF OpenSocket
  <2>4. CASE OpenSocket("pcss", "open_pcss", "idle")
    BY <2>4 DEF OpenSocket
  <2> QED  BY <1>2, <2>1, <2>2, <2>3, <2>4 DEF OpenSockets
<1>3. CASE Greeting
  BY <1>3 DEF Greeting, Ready
<1>u. CASE GreetingUnread
  BY <1>u DEF GreetingUnread, Ready
<1>4. CASE TetherCall
  BY <1>4 DEF TetherCall, Ready
<1>5. CASE Nothing
  BY <1>5 DEF Nothing
<1>6. CASE IdleFails
  BY <1>6 DEF IdleFails
<1>7. CASE Notify
  BY <1>7 DEF Notify
<1>8. CASE Ack
  BY <1>8 DEF Ack
<1>9. CASE Listen
  BY <1>9 DEF Listen
<1>10. CASE Await
  BY <1>10 DEF Await
<1>11. CASE Recv
  BY <1>11 DEF Recv
<1>12. CASE Reply
  BY <1>12 DEF Reply
<1>13. CASE Tether
  BY <1>13 DEF Tether
<1>14. CASE CloseAll
  BY <1>14 DEF CloseAll
<1>15. CASE TryConnect
  BY <1>15 DEF TryConnect
<1> QED
  BY <1>1, <1>2, <1>3, <1>u, <1>4, <1>5, <1>6, <1>7, <1>8, <1>9, <1>10, <1>11, <1>12,
     <1>13, <1>14, <1>15 DEF Client

\* The camera and the user, at any place of the client.
LEMMA CameraStep ==
    ASSUME IInv, Broadcast \/ TetherConnect \/ AnswerNotify \/ Invite \/ Leave \/ Cancel
    PROVE  IInv'
<1> USE DEF IInv, TypeInv, SocketInv, AnswerInv, SetupInv, ClosedAfterSuccess, Places, Opening,
    Talking, Ended, Answering, Unstored, AnswerTo, Sockets, Stored, REGISTERED, GO_PTP, D_CANCELED,
    Failed, Camera, clientVars, cameraVars
<1>1. CASE Broadcast
  BY <1>1 DEF Broadcast
<1>2. CASE TetherConnect
  BY <1>2 DEF TetherConnect
<1>3. CASE AnswerNotify
  BY <1>3 DEF AnswerNotify
<1>4. CASE Invite
  BY <1>4 DEF Invite
<1>5. CASE Leave
  BY <1>5 DEF Leave
<1>6. CASE Cancel
  BY <1>6 DEF Cancel
<1> QED  BY <1>1, <1>2, <1>3, <1>4, <1>5, <1>6

\* The inductive invariant.
THEOREM Invariance == Spec => []IInv
<1>1. ASSUME IInv, [Next]_vars PROVE IInv'
  <2>1. CASE UNCHANGED vars
    BY <1>1, <2>1 DEF IInv, TypeInv, SocketInv, AnswerInv, SetupInv, ClosedAfterSuccess, vars,
        clientVars, cameraVars
  <2>2. CASE Over
    BY <1>1, <2>1, <2>2 DEF Over
  <2> QED  BY <1>1, <2>1, <2>2, ClientStep, CameraStep DEF Next
<1> QED  BY InitInv, <1>1, PTL DEF Spec

\* A search that ends without an error (a camera found, a registration, a
\* cancel) has closed every socket that it or the invite server opened.
THEOREM NoSocketLeft == Spec => []ClosedAfterSuccess
<1>1. IInv => ClosedAfterSuccess
  BY DEF IInv, SocketInv
<1> QED  BY Invariance, <1>1, PTL

\* The client registers with a camera that wants to register and goes on to
\* PTP with one that wants to connect, and only when that camera has come to
\* it, whatever datagrams are lost or repeated and however the talk breaks off.
THEOREM ClientAndCameraAgree == Spec => []Agreement
<1>1. IInv => Agreement
  BY DEF IInv, TypeInv, AnswerInv, Agreement, Ended, AnswerTo, REGISTERED, GO_PTP
<1> QED  BY Invariance, <1>1, PTL

\* The setup begins without a command socket ("Assumes cmd socket is valid",
\* lib/fuji.c:341) after a cancelled search only.
THEOREM OnlyACancelSkipsTheSocket == Spec => [](SetupHasSocket \/ cancelled)
<1>1. IInv => SetupHasSocket \/ cancelled
  BY DEF IInv, SetupInv, SetupHasSocket
<1> QED  BY Invariance, <1>1, PTL
=============================================================================
