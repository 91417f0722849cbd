------------------------------ MODULE FujiUsb ------------------------------
(***************************************************************************)
(* Connecting to a camera over USB, or over the network as a tether, and   *)
(* finding out which of its USB modes the camera is in.  The caller owns   *)
(* the runtime: connecting is sequential.  Every transaction is one step,  *)
(* which may fail.                                                         *)
(***************************************************************************)
EXTENDS Naturals

CONSTANT MaxConnects    \* bound: how often the caller connects

VARIABLES
    pc,             \* the place in the running call, "idle" or "ready"
    transport,      \* fuji->transport
    usbMode,        \* the mode set in the camera's menu
    handshakes,     \* failed attempts of ptpip_fuji_connect_handshake
    connects        \* calls of fujiusb_try_connect and fujitether_setup

usbVars == <<pc, transport, usbMode, handshakes, connects>>

\* A camera answers the mode property with a number (1 is a mode the library
\* does not know), or does not have the property (NoMode: card reader, movie
\* shooting).
NoMode == 0
UsbModes == {5, 6, 8, 1, NoMode}

Feature(mode) ==
    CASE mode = 5 -> "USB_TETHER_SHOOT"
      [] mode = 6 -> "RAW_CONV"
      [] mode = 8 -> "WEBCAM"
      [] mode = NoMode -> "USB_CARD_READER"
      [] OTHER -> "USB"

Goto(from, to) == pc = from /\ pc' = to

\* The set-up returns, with 0 or with an error.
Connected == pc' = "ready"
NotConnected == pc' = "idle"

UsbInit ==
    /\ pc = "idle"
    /\ transport = "USB"
    /\ usbMode \in UsbModes
    /\ handshakes = 0
    /\ connects = 0

\* The first camera, or the one asked for, is opened; it may not be there, or
\* opening it may fail.
fujiusb_try_connect ==
    /\ pc = "idle"
    /\ connects < MaxConnects
    /\ connects' = connects + 1
    /\ transport' = "USB"
    /\ pc' = "open_session" \/ NotConnected
    /\ UNCHANGED <<usbMode, handshakes>>

\* The tether over the network is told its transport by the discovery.
fujitether_setup ==
    /\ connects < MaxConnects
    /\ connects' = connects + 1
    /\ Goto("idle", "handshake")
    /\ transport' = "WIRELESS_TETHER"
    /\ handshakes' = 0
    /\ UNCHANGED usbMode

\* Mutant: the user is asked once too often.
HandshakeOnceMore ==
    /\ pc = "handshake"
    /\ \/ pc' = "open_session" /\ handshakes' = 0
       \/ handshakes < 4 /\ handshakes' = handshakes + 1 /\ UNCHANGED pc
       \/ NotConnected /\ handshakes' = 0
    /\ UNCHANGED <<transport, usbMode, connects>>

\* A camera whose user has not pressed OK yet refuses: PTP_RUNTIME_ERR is
\* tried again, four times in all.
Handshake ==
    /\ pc = "handshake"
    /\ \/ pc' = "open_session" /\ handshakes' = 0
       \/ handshakes < 3 /\ handshakes' = handshakes + 1 /\ UNCHANGED pc
       \/ NotConnected /\ handshakes' = 0    \* refused again, or another error
    /\ UNCHANGED <<transport, usbMode, connects>>

\* fujiusb_setup: a session that is open already (PTP_CHECK_CODE) will do.
OpenSession ==
    /\ pc = "open_session"
    /\ pc' = "device_info" \/ NotConnected
    /\ UNCHANGED <<transport, usbMode, handshakes, connects>>

GetDeviceInfo ==
    /\ pc = "device_info"
    /\ pc' = "get_mode" \/ NotConnected
    /\ UNCHANGED <<transport, usbMode, handshakes, connects>>

\* Mutant: an answer that is none of the known modes is a RAW converter.
GetUsbModeLenient ==
    /\ pc = "get_mode"
    /\ transport' = IF usbMode = 5 THEN "USB_TETHER_SHOOT" ELSE "RAW_CONV"
    /\ Connected
    /\ UNCHANGED <<usbMode, handshakes, connects>>

\* A camera without the property is classified, but its result code stays the
\* one that fujiusb_setup returns.
GetUsbMode ==
    /\ pc = "get_mode"
    /\ \/ /\ transport' = Feature(usbMode)
          /\ IF usbMode = NoMode THEN NotConnected ELSE Connected
       \/ NotConnected /\ UNCHANGED transport
    /\ UNCHANGED <<usbMode, handshakes, connects>>

\* The user unplugs the camera and may choose another mode in its menu.
Unplug ==
    /\ pc = "ready"
    /\ connects < MaxConnects
    /\ pc' = "idle"
    /\ usbMode' \in UsbModes
    /\ UNCHANGED <<transport, handshakes, connects>>

UsbNext ==
    \/ fujiusb_try_connect \/ fujitether_setup \/ Handshake
    \/ OpenSession \/ GetDeviceInfo \/ GetUsbMode \/ Unplug
=============================================================================
