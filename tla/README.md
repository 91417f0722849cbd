# libfuji in TLA+

libfuji lets a host application (through libpak, `lib/module.c`) or a command
line (`lib/cli.c`) talk to Fujifilm cameras over Wi-Fi, Bluetooth and USB. The
protocol underneath is PTP; its transport, the command buffer and the lock are
in libpict, which is a submodule and not part of this repository. The
specifications here cover the parts in which several threads, a camera that can
refuse or leave, and a long protocol meet, and the profile library that the RAW
conversion uses. Everything is written in TLA+ and checked with TLC; the
results that matter most, for every number of threads, cameras, files and
changes, are proved with TLAPS.

## Inventory

Sources are relative to `src/`.

| Component | State | Operations | Interacts with | Modules |
|---|---|---|---|---|
| Runtime and shutdown (`lib/fuji.c`) | lock, `io_kill_switch`, `operation_kill_switch`, session, transaction counter | `ptp_send` (libpict), `ptp_report_error`, `fuji_reset_ptp` | every callback of the module, each on a thread of the host | `PtpMutex`, `PtpLink`, `PtpRuntime` |
| Downloads (`lib/fuji.c`, `lib/module.c`) | camera property 0xD227, `current_job`, `to_read_target`, the caller's file | `fuji_download_file_ex`, `app_ptp_download_file`, `on_request_file_contents`, cancel checks | runtime lock, event polling | `FujiDownload`, `FileTransfer` |
| Setup, liveview, gallery (`lib/fuji.c`, `lib/module.c`) | `transport`, `camera_state`, versions, `open_capture_trans_id`, extra sockets | `fuji_setup` and what it calls, `fuji_config_liveview`, `fuji_end_liveview`, `fuji_config_image_gallery`, `on_switch_screen` | camera state machine, its user, event polling | `FujiLiveview`, `FujiSetup` |
| Event polling (`lib/fuji.c`, `lib/module.c`) | the fields events update, the one response buffer | `fuji_get_events`, `app_queue_file_for_download` | setup, downloads, `on_idle_tick` | `FujiEvents` |
| Discovery (`lib/discovery.c`, `lib/module.c`) | four stored sockets and four passing ones, the greeting | `fuji_discover_thread`, its servers, `on_try_connect_wifi` | camera over UDP and TCP, setup | `Discovery` |
| Module lifecycle (`lib/module.c`) | `mod->priv`, the runtime pointer, the Bluetooth device | connecting, `handle_ptperr`, `on_idle_tick`, requests, `on_disconnect`, `on_free` | all of the above | `FujiModule` |
| Thumbnails and EXIF (`lib/fuji.c`, `lib/exif.c`) | response buffer, a growing copy of the file's head | `fuji_get_thumb`, `ptp_get_partial_exif`, the IFD parser | runtime lock, other requests | `FujiThumbs` |
| Bluetooth (`lib/bluetooth.c`) | connected devices, signature, SSID and password | `fuji_connect_bluetooth`, `fuji_bluetooth_connect_to_wifi` | setup (`OPTION_WIFI_FROM_BT_XAPP`) | `Bluetooth` |
| USB, tether, RAW (`lib/fuji_usb.c`) | camera mode, objects in the camera | `fujiusb_try_connect`, `fujiusb_setup`, `fujitether_setup`, `fuji_process_raf`, backups | runtime, profile codec | `FujiUsb`, `RawConversion` |
| Profile codec (`fp/src/`) | one profile record | binary and XML to record, merge, record to binary | RAW conversion | `ProfileTables`, `ProfileD185`, `ProfileXml` |
| Device properties (`lib/data.c`) | property list | parsers of the list and of the init packet | setup, USB | |
| Protocol tables, command line, tester, `ezxml.c` | | constants, drivers, third-party code | | |

What is hard, per component, and what makes it correct:

* **Runtime.** Several callbacks fail at once and each reports it. The shutdown
  must happen once, must not overtake another thread's transaction, and must
  not leave the lock behind.
* **Downloads.** A loop of transactions under a recursive lock, with five ways
  out, a property of the camera to switch on before and off after, and one
  `current_job` for all threads. Success must mean the whole file, a cancel
  must be prompt, files must take turns.
* **Setup and screens.** The camera's user, the events and the versions decide
  which of several paths is taken. What the client believes must fit what the
  camera is in, after any number of screen changes.
* **Events.** A change is told once. It must be stored, although handling an
  event may send commands whose answers overwrite the list being read.
* **Discovery.** Lost datagrams, a camera that leaves, sockets to close on
  every path, and an outcome the camera must agree with.
* **Lifecycle.** A tick, a disconnect and a job share a pointer that the job
  drops when connecting fails.
* **Thumbnails.** The picture is handed to the host inside the buffer that the
  next command of any thread overwrites.
* **Bluetooth.** Each exchange may fail; a signature must not be saved for a
  camera that does not know the client, and one camera's network must not be
  taken for another's.
* **USB and RAW.** A conversion that fails in the middle leaves a file, a
  profile or a result in the camera, where the next one finds it.
* **Codec.** Tables with gaps, one word that holds two settings, a value that
  is never written. What a camera answers must survive the round trip.

`PROJECT.json` lists the hazards at their lines.

## Plan

Done, in this order: `PtpMutex`, `PtpLink`, `PtpRuntime`; `FujiDownload`,
`FileTransfer`; `FujiLiveview`, `FujiSetup`; `FujiEvents`; `Discovery`;
`FujiUsb`, the profile modules and `RawConversion`; `Bluetooth`, `FujiThumbs`
and `FujiModule`; proofs for all of them.

Left:

1. `fuji_setup` step by step under the ticks of `FujiModule` (a poll of
   `on_idle_tick` between the -1 and the first poll of the setup).
2. The live feed: `current_downloading_oi` together with the events that set
   it.

## Modules

### PtpMutex, PtpLink, PtpRuntime

`PtpMutex` is the recursive lock: `owner` and `depth`. That it is recursive is
read off its uses (`fuji_download_file_ex` calls `fuji_get_events`, and both
lock). `PtpRuntime` has one `pc` per thread and one action per statement of
`ptp_report_error` that others can observe:

| Action | Code (`lib/fuji.c`) |
|---|---|
| `ReportCall` | the first look at `io_kill_switch`, without the lock (34) |
| `ReportLock`, `ReportGiveUp`, `ReportGoOn` | lock, second look, `CloseSession` for an intentional disconnect (35-45) |
| `StopOperations`, `Goodbye`, `CloseDevice`, `KillIo`, `ReportUnlock` | 47-64 |
| `SendLock`, `SendWrite`, `SendRead`, `SendUnlock` | a transaction of libpict, external |

`LoseLink` is the camera going away. `PtpLink` says what threads are promised:
commands one at a time, none once the link is closing, one close. The
refinement maps the switches to a phase and the threads that wait for a
response to `users`.

### FujiDownload, FileTransfer

A transaction is one step here, which needs the lock to be free or in the hands
of its thread; `PtpRuntime` is the reason why that is enough. `FileThreads` run
`fuji_download_file_ex` (`Request` to `Finish`, in the order of the code, the
five exits being `CheckCancel`, `ChunkFails`, `ChunkBreaks`, `End` and
`EventsAfter`/`ResetSize`); `LiveThreads` run `app_ptp_download_file`, which
locks per chunk. A chunk has any size from 1 to what is left. `FileTransfer`
is the host's view: files one after the other, success only when whole.

### FujiLiveview, FujiSetup, MCFujiSetup

`FujiLiveview` has the three procedures and `on_switch_screen`; `back` is the
place a procedure returns to. `FujiSetup` extends it with `fuji_setup` from the
handshake to the gallery. What the camera is (`cam_state`, `cam_view`,
`client_mode`, `capture`) is kept apart from what the client believes.
Consecutive transactions with nothing but `if (rc) return rc` between them are
one step that fails where any of them fails. Every transaction can be rejected,
and the camera can leave anywhere. `MCFujiSetup` gives the version numbers,
negative ones among them.

### FujiEvents

`buffer` is the response buffer the list is read from. A command whose answer
carries data replaces it by one of `Overwritten`: lists of any length up to
`MaxEvents` whose entries are `Foreign`, and a foreign entry reads (`Read`) as
any of the four properties with any value up to `MaxValue`, or as none of them.
In the code the length is a `uint16`; TLC is given a small `MaxEvents`, the
proofs hold for every one. The handles of a tether are picked with the index of
the event, and past their end any handle may be read (`Picked`). `Quiet`
cameras are those for whose events the client sends no command (not a tether,
and no pictures waiting to be transferred). `Tracks` and `Settles` are about
them; of the others the model shows that events are lost and that foreign ones
are stored.

### Discovery

The places of `fuji_discover_thread`, with the set `open` of all sockets that
exist (`Stored` are those `close_all_sockets` knows), the datagrams that wait,
and a camera that calls, is notified, answers, comes to the invite server or
leaves. Each system call may fail at each place. The code does not see the
errors of `recvfrom` and `recv`, whose results it stores as unsigned:
`GreetingUnread` goes on with whatever is in the buffer, as if the datagram had
been read, or fails on it, and the answer is left open in `Ack`.

### Bluetooth, FujiThumbs, FujiModule, MCFujiModule

`FujiModule` is the composition: it extends the other two, and its jobs stand
for `fuji_discover_thread` and `fuji_setup` by their outcomes.

* `Bluetooth` has the exchanges of `fuji_connect_bluetooth` (`DeviceConnect`,
  `CreateBond`, `WriteStatus` or `WriteToken`, `send_client_name`,
  `fill_props`, `SaveSignature`) and of `fuji_bluetooth_connect_to_wifi`
  (`Trigger`, `Watch`). `Secure` cameras bond and acknowledge, the others take
  a token. `accepted` is what the cameras remember, `signatures` what the host
  has saved; `CameraForgets` is the user of the camera deleting the pairing.
  The acknowledgement (`WriteStatus`) makes the client known after a new bond
  only; a secure camera that is connected again and has forgotten the client
  may let the call go on or fail it.
  `ssid` and `password` name the camera whose they are.
* `FujiThumbs` has `on_request_thumbnail` and `fuji_get_thumb` with the lock,
  the object information that newer cameras want to be asked for first, and
  the EXIF path. An EXIF layout is the order in which the parser needs places
  of the file (`needs`, in kilobytes); `ExifThere` and `my_add` are the two
  outcomes of its callback. `data` says what the response buffer holds and of
  which object; it is set back when the call is over, which nothing reads.
* `FujiModule` has `r` and `dev`, the pointers that all callbacks share,
  and `life`, what has become of each runtime. `on_idle_tick` reads `r` once
  (`polled`) and uses it in a later step. A runtime which was closed in between
  is freed memory: `TickPoll` and `TickError` let the poll seem to succeed, or
  fail with or without being reported; that it crashes is left out. Of the jobs
  one runs at a time; the tick, the wish to disconnect and the requests of other
  threads (which answer into the same buffer under the lock) come between any
  two of its steps.

### FujiUsb, RawConversion, MCRawConversion

`FujiUsb` is connecting: over USB or as a tether, four handshakes while the
camera's user thinks, the session, and the mode property that becomes
`transport`. `Unplug` lets the user change the mode in between. `RawConversion`
adds `fuji_process_raf` transaction by transaction, the camera's side (`raf`,
`setBy`, `pending`, `objects`) and the backups. `End(p)` is the failure of the
step at p, or the twentieth look for an object that is not there. `output`
records for each job what its file got, all of a result or, since what `fwrite`
and `fclose` return is not looked at, a part of it (`Torn`); `stale` says which
jobs found an older result. `Leftovers` is what the uninitialised profile
variable may hold when `fp_parse_d185` returns without touching it, which
`Merged` takes over, since its result code is not looked at.
`MCRawConversion` takes its profiles from the files of the repository
(`fp/d185`, `fp/fp1/Day.FP1`), varies some of their settings, and adds a
profile that is too short, one without a processor code and one with a word
that is in no table.

### ProfileTables, ProfileD185, ProfileXml

Pure operators. A table is a function from texts to 32-bit values, which are
written as the signed integers of the same bits. `fp_create_d185` maps
`get_prop` over the words. `fp_parse_d185` returns at once for a profile that
is too short, and without words for one whose text is no processor code;
otherwise (`parse_words`) it parses each word by
`parse_d185_prop` up to the first that is in error. Since no two words are
stored in the same setting (`StoredIn`, and the lemma `WordsAreApart`), each is
parsed into the profile of the beginning and the results are put together, which
makes a definition without recursion that can be reasoned about. `fp_parse_fp1`
folds `parse_xml_prop` over the elements of a file that is already parsed into
pairs; there a later element may replace an earlier one. `Listed` and
`Readable` (listed, with a header that can be parsed) are not code: they are the
hypotheses under which the round trip is stated and proved.
`copy_value_if_valid` gives what the output holds
afterwards, which for a zero that is not listed is what it held before: in
`fp_create_d185` that is the content of an uninitialised variable, a parameter
here (`stack`).

## Runs

| Run | Asks | Bounds |
|---|---|---|
| `PtpRuntime_wifi` | one shutdown, in order, after the others' transactions; returns; implements `PtpLink` | 3 threads: one that shuts down, one that queues behind it, one in a transaction |
| `FujiDownload_xapp` | turns, whole files, prompt cancels, every download returns; implements `FileTransfer` | 2 files of size 3, chunks up to 2, so that a file takes 2 or 3 chunks |
| `FujiDownload_wireless` | placeholder sizes are back after downloads that succeed; granted sizes are lost only to a download that has returned | 2 card files and 1 live image, placeholder size 1 |
| `FujiSetup_screens` | let in, mode fits, screen matches camera, one video socket, setup ends | all transports, the six camera states that let a client in, cameras without remote mode and with versions on both sides of the switch-over, up to 4 captures or foreign transactions |
| `FujiEvents_poll` | a successful poll has stored everything; client and camera agree in the end; every poll returns | 3 changes of 4 properties, 1 picture, lists of up to 4 entries, foreign ones with the values 0 and 1; WIRELESS_COMM and wireless tethering, with and without pictures to transfer |
| `Discovery_network` | agreement on the outcome, sockets closed, a cancel ends it | none: the state space is finite |
| `RawConversion_usb` | only in RAW mode, profiles survive the codec, merge word by word, outputs are their own, no result is deleted before it is handed to the disk, calls return | 2 conversions, 2 connections, 11 camera profiles of three processors, three of them not readable, 9 user files, two contents of uninitialised memory |
| `FujiModule_jobs` | thumbnail and network are the right ones, new signatures are of cameras that know the client, dead links are reported | 3 jobs, 2 runtimes, 2 cameras (one of each pairing), 3 EXIF layouts, three setup options (the other two take the same paths) |

Three threads show every interleaving of the roles in the lock protocol; a
fourth would only repeat one, and the proofs cover any number. Two captures are
enough for a wrong capture id, four let the user come back twice. Four entries
hold all properties at once, and a foreign list of any length up to that is
shorter or longer than what is left of the one it replaces; a second picture
adds nothing to what the poll stores, and is in `FujiEvents_pictures`. Two
conversions are enough for one to find what the other left. Three jobs let a
connection fail, a second one replace it, and a thumbnail be asked for; or one
camera be paired, another one fail half-way, and the first be told to switch to
Wi-Fi. The layouts have a thumbnail inside the first 16 kilobytes, one for which more
has to be fetched, and a file without one.

### Disagreements between code and text

Each is a run that TLC ends with a counterexample.

* `FujiDownload_cancelled` (`StoppedIsNotSuccess`). "Respects cancel signals"
  (`lib/fuji.h:156`). Over WIRELESS_COMM the clean-up after the label `end`
  assigns the codes of its own transactions to `rc`, so a cancelled or rejected
  download returns 0.
* `FujiEvents_pictures` (`AllPicturesQueued`). "this mode forces all pictures
  to be uploaded" (`docs/dev.md:34`). The loop over the handles counts with `y`
  and queues `a->data[i]`.
* `Discovery_cancelled` (`SetupHasSocket`). "Assumes cmd socket is valid"
  (`lib/fuji.c:341`). `FUJI_D_CANCELED` falls through to `fuji_setup`, and
  nothing has been connected.
* `RawConversion_unpackable` (`UnpackableIsNotSet`). "Error creating d185"
  (`lib/fuji_usb.c:374`) is never logged: `profile_len` is unsigned, and a
  profile that cannot be packed is set with -1 for its length.

### In the models, without a run

What the code does, and what a reader of a counterexample or of an exclusion in
a property will meet:

* Downloads: one that ends turns correct sizes off although the next one has
  turned them on and waits for the lock (`SetSize` before `TakeLock`), which
  `GrantedSizesHold` has to except. A camera that rejects the reset of 0xD227
  stays on correct sizes, and the download reports that error (`ResetSize`). A
  request for a live image replaces `current_job` while a card download is in
  its loop, which then follows the cancel of the other; `lib/app.h:25` says
  "the current downloader thread". `ChecksOwnJob` states it, and
  `TheCheckIsAboutTheJob` proves it as long as no live image is asked for.
* Liveview: the capture id is read without the lock (`NoteTransaction`,
  `OtherTransaction`).
* Events: of a camera that is not `Quiet`, the rest of a list is lost when a
  picture's information is received over it, and the poll returns 0
  ("Receives events once, and updates info struct with changes",
  `lib/fuji.h:134`).
* Discovery: after an error of `recvfrom` a zero is written far outside the
  buffer (`lib/discovery.c:619`, 635); the model goes on without the crash.
* Thumbnails: after the EXIF data four polls go to the buffer (`EventsAfter`),
  and the pointer that is handed over is into that buffer. `ThumbIsOwn` leaves
  these aside. Any failure before the length is set, of the link too, is an
  empty thumbnail and not reported (`ThumbFails`, `lib/module.c:436`).
* Module: a tether that fails, a missing option, a registration and every
  failure over USB keep the runtime. `handle_ptperr` forgets the Bluetooth
  device without releasing it. A tick that has read `r` may poll a runtime that
  has been closed and freed since (`TickPoll`).
* Bluetooth: a pairing that fails leaves the camera connected. A secure camera
  that has forgotten the client may be connected again with the saved signature
  and the call may end well; "we must abort", says the note to do at
  `lib/bluetooth.c:433`. `SavedIsAccepted` excepts it by name.
  `wifi_ssid_is_hidden` is never reset, so a camera without a hidden
  network is offered with the password of the one before (`unread`).
* RAW conversion: the object is deleted from the camera whether or not the disk
  took it (`lib/fuji_usb.c:405`), so that a full disk loses the picture; a job
  may fetch what an earlier one left (`stale`). A profile that `fp_parse_d185`
  rejects is merged all the same, and one that is too short leaves the
  variable uninitialised (`Leftovers`). A profile file that is missing ends the
  process (`fp/src/xml.c:291`), so `UserFiles` has none.
* Codec: a zero that its table does not list is packed as whatever the variable
  held (`Unset`; `ShootingCondition` is never read from a file). In a file the
  elements WBShiftB, LensModulationOpt and SmoothSkinEffect are stored in other
  fields. Grain OFF with LARGE is the same word as STRONG with SMALL.

## Fairness

* A thread inside a call keeps running (weak fairness of its steps: `Client`,
  `InPoll`, `JobStep`, and in `RawConversion` `GoesOn`, every step that changes
  place or counter). A read ends with the answer of the camera or the time-out
  of the socket.
* A thread that waits for the lock gets it if it keeps becoming free (strong
  fairness of the locking steps, `Poll` in `FujiModule`). POSIX mutexes do not
  promise this to a single waiter; holders release the lock after a bounded
  number of transactions, and the system scheduler does not pass a waiter by
  for ever.
* The host ticks (`Tick` in `FujiModule`): libpak calls `on_idle_tick` about
  once a second.
* Nobody has to make a call, cancel, or press a button; the exceptions are
  named: `SetupEnds` assumes that OK is pressed (`Grant`) and that a camera
  which is polled for ever tells its state once; `Settles` assumes that polls
  are answered once in a while; `CancelEnds` assumes that a notified camera
  answers or leaves, since the reads of `lib/discovery.c` have no time-out.
* No failure is ever fair: where an action is the failure of a call, it is not
  under a fairness condition that would make it happen, except as one of the
  ways in which a call goes on.

## Proofs

Eight modules, one per component, for every value of the constants. The
assumptions are those of the modules: `NoThread` is no thread and `NoCamera` no
camera, the connection and the transports are among those named, sizes are
naturals with the placeholder smaller than the file and chunks of at least one
unit, versions are integers, camera states are the ones of `lib/fujiptp.h`,
bounds are naturals, and a list of events has room for the four properties.
In each the invariant that is proved inductive (`IInv`) is
more than the properties, for the reasons given, and has been checked by TLC on
the instance of the component's run before it was proved.

`PtpRuntime_proofs`. The type invariant is not inductive, because `depth - 1`
is a natural only if the thread that unlocks holds the lock. `LockInv` ties
`owner` and `depth` to the places of the threads; since `ptp_report_error`
holds the lock across `CloseSession`, a thread can hold it once or twice, which
`Outer` and `Inner` tell apart. `PhaseInv` ties the two switches and the
counters to the place of the thread that shuts down. The lock makes that thread
unique, and the switches differ only while it is at work, which is why the
second look at `io_kill_switch` is conclusive: `OneTeardown`,
`NoLateTransaction`. `SessionInv` gives `SessionFirst`. `LinkStep` shows that
each step is a step of `PtpLink` or none (`Refinement`).

`FujiDownload_proofs`. `LockInv` says that a thread owns the lock exactly while
it is in a file, once; with `KindInv` (which thread has which job) and `TypeOK`
it is inductive: `TypeCorrect`, `FilesTakeTurns`. On top of it:

* `SizeInv`: correct sizes that are on have a download that will turn them off
  or one that has reported an error (`SizesAreRestored`, every transport).
  `GrantedSizesAreKept` is inductive with the type invariant: only `ResetSize`
  turns sizes off, and it sets the result of its thread.
* `DataInv`, except over WIRELESS_COMM: the place, the bytes read and the
  return code fit together (`SuccessMeansComplete`). The exclusion is needed:
  over WIRELESS_COMM the return code is overwritten.
* `CancelInv`, while no live image is asked for: only the holder of the lock is
  the current job (`CancelStopsTheDownload`, `TheCheckIsAboutTheJob`).
* `TransferStep`: each step is a step of `FileTransfer` or none
  (`TransferRefinement`, except over WIRELESS_COMM).

`FujiSetup_proofs`. The type invariant needs `CountInv`: a socket is connected
only after a capture has taken an id, so ids bound sockets. `AccessInv` says
what each place of the setup has established (beyond the poll loop
`camera_state` is a real state, and the camera's own state is never "wait"
again), which gives `SetupLeavesAReadyCamera`; `VersionInv` that the transport
is corrected by the time anything is chosen from it
(`NewModesNeedANewCamera`). `BackInv` says where the procedures return to,
without which nothing is known of the place after a return. `CameraInv` follows
capture, mode and sockets through every place as long as nothing has been
refused, and gives `CameraFollowsTheScreen`.

`FujiEvents_proofs`. `PlaceTyped` and `ListTyped` keep the index at most one
past the longest list that a length can announce, whatever replaces the list
while an entry is handled (`TypeCorrect`); the index of the handles is not
bounded by their number. `QuietInv`: while a quiet
camera's list is read, every change that was told is stored or still ahead in
the list, and what is ahead is the newest value or has a newer one that waits
to be told (`NoChangeIsMissed`).

`FujiModule_proofs`. `TypeOK` contains the tie of the lock to the place of the
thumbnail request. `PairInv` says that past the token or the acknowledgement
the camera knows the client, or is a secure one that is connected again, whose
signature has been saved before (`SavedSignaturesAreAccepted`); `WifiInv` says
that the device in use is the one whose network is held, except in the step
between reading another camera and adopting it (`NetworkOfTheCamera`).
`ThumbnailIsTheOneAskedFor` is inductive with it.

`Discovery_proofs`. The model has no parameters, so its run is exhaustive; the
proofs say why it holds. `SocketInv`: on a way that has not failed, a socket is
one that `close_all_sockets` knows or one that the place it is at will close
(`NoSocketLeft`). `AnswerInv`: from the datagram to the end the result is the
answer to what this camera called for, and the camera has come when its
connection is accepted (`ClientAndCameraAgree`). `SetupInv` gives
`OnlyACancelSkipsTheSocket`: the disagreement shown by `Discovery_cancelled` is
the only one of its kind.

`RawConversion_proofs`.

* `ModeInv`: from the end of a set-up `transport` is the mode of the camera, and
  inside a conversion it is the one the guard saw (`RawModeOnly`).
* `SentInv` and `CleanInv`: the file and the profile in the camera are those of
  the running job from the place on where they were sent, and unless something
  was there at the beginning so is all that comes out (`OutputOfTheFile`).
* `CountInv`: results in the camera, the one that is converted and the one that
  the running call will still ask for are of different jobs. The bound of
  `TypeOK` on the results is not inductive without it (`TypeCorrect`).
* `WrittenInv`: what is about to be deleted has been handed to the disk, which
  may have kept a part (`Torn`). With `RemoveAtProperties`, that a sequence
  without one of its elements keeps all the others, it gives `ResultsAreKept`.
* `ProfileInv`: what is packed is the merge of the fetched profile and of the
  user's file of this job, over some content of uninitialised memory. It gives
  `EverySettingIsMerged`, without a hypothesis on the profiles: each word comes
  from the user or from the camera as `fp_apply_profile` says, save the words
  of `Unset`. With the theorem of the codec it gives `ProfilesRoundTrip` and
  `UntestedSettingsAreKept`.

The last two theorems are about profiles that are `Readable`, which is part of
the properties (the run has others too, of which nothing is claimed but
`EverySettingIsMerged` and what does not depend on the profile), and the last
has the hypothesis that a user's file that can be parsed names a film
simulation (`FilesNameAFilm` in `MCRawConversion`, evaluated by TLC).
`Readable` says that the header can be parsed, that the words are in the tables
for the camera's processor, that the grain is 1 to 5, and that no more words
are there than announced; the profiles of the repository are readable
(`ProfilesAreReadable`). Both are needed: `fp_parse_d185` stops at a word that
is in no table, and the missing film simulation of a file is packed from
uninitialised memory.

`ProfileD185_proofs`. No behaviours, but every profile. Of single words: for any
content of uninitialised memory, packing depends on it only in the words of
`Unset` (`OnlyUnsetWordsVary`), the word of grain and size can be taken apart
again (`GrainRoundTrip`, with the one combination for which it cannot excluded),
and a listed value of a setting of its own comes back (`WordRoundTrip`). Of whole
profiles: `ParsedProfile` says what each field holds when no word is in error,
`ListedProfile` that the words of a listed profile are its settings, and
`PackedProfile` that packing gives these words again and that they are listed.
`CameraProfileRoundTrip` puts them together: the words come back, parsing what
was packed gives the same profile, and every setting of it has a text.

Only model-checked:

* Liveness (`ShutdownCompletes`, `DownloadsEnd`, `SetupEnds`, `Settles`,
  `PollsReturn`, `CancelEnds`, `CallsReturn`, `DeadIsReported`): the prover has
  no rules for fairness and `ENABLED` here. Every other property of a passing
  run is the statement of a theorem.
* What the fold of `fp_parse_fp1` computes for every file would need induction
  over data. The run evaluates it on the user's files, and the theorems take
  its result as it is.

## Assumptions about code outside the repository

libpict: the lock is recursive; `ptp_send` takes it, looks at the kill switches
after it has it, and releases it; transaction ids count up; answers are
received into one buffer per runtime; `ptp_close` ends a runtime. libpak:
callbacks may come from different threads, one request per thread at a time;
the connecting callbacks and requests that are followed step by step do not
overlap each other, and `on_free` comes when nothing runs. The camera: checks
the id of a capture that is to be ended, tells each change of a property once,
converts one RAW file at a time and lists its objects oldest
first; it takes a token that it advertises or one of a client it knows.

## Not modelled

* Device properties (`lib/data.c`): `fuji_register_device_info` is one pass
  over one answer, and nothing in these models reads what it stores.
* Protocol tables are constants. Command line, tester and `jank.c` are straight
  drivers. `ezxml.c` is third-party code; `ProfileXml` starts from its result.
* Bluetooth shutter commands and the location, which write to the camera and
  keep no state; the counts of references to services and characteristics.
* `fuji_get_device_info` over USB and the battery, which only ask. The old code
  at the end of `fuji_usb.c` is not built, and `fuji_tether_download` is unused.
* Writing an XML profile (`fp_dump_struct` is modelled as far as its lookups).
* Wording, logging, progress bars, storage information and metadata everywhere.
