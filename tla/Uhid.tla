-------------------------------- MODULE Uhid --------------------------------
(***************************************************************************)
(* The read side and the life cycle of the USB HID driver                  *)
(* (src/sys/dev/usb/input/uhid.c): the end of uhid_attach (report sizes,   *)
(* usb_fifo_attach, the InputDevice and its registration), uhid_detach     *)
(* statement by statement, the interrupt-in callback that feeds a mouse    *)
(* to the input core, the control read callback of immediate mode, and     *)
(* the /dev/uhid reader through the fifo methods uhid_open, uhid_close,    *)
(* uhid_start_read, uhid_stop_read and the USB_SET_IMMED ioctl.            *)
(*                                                                         *)
(* Four actors interleave.  The attach/detach thread holds no lock.  USB   *)
(* callbacks run with sc_mtx held and are one step each.  The reader's     *)
(* fifo methods run with sc_mtx held (usb_fifo calls them under the fifo   *)
(* mutex, which is sc_mtx).  The device completes or fails what is         *)
(* pending.  usbd_transfer_start on a transfer that is not transferring    *)
(* runs its USB_ST_SETUP callback; the model makes that one step.          *)
(*                                                                         *)
(* Before attach, uhid_probe asks usb_test_quirk whether the device is to *)
(* be ignored; that lookup calls through the hook usb_test_quirk_p, which *)
(* the quirk module's unload (UsbDynamic) may reset at any time.  Ticks   *)
(* of the clock interleave with everything; a caller inside the quirk     *)
(* module's lookup leaves it within MaxRun ticks.                         *)
(***************************************************************************)
EXTENDS Naturals, UsbDynamic, UhidIoctl

CONSTANTS
    UHID_BSIZE,       \* bytes, the buffer size of the interrupt transfers
    MOUSE_DATA_LEN,   \* report length mouse_report_events accepts
    FRAME_NUM,        \* buffers of the RX fifo (UHID_FRAME_NUM)
    ReportSizes,      \* values hid_report_size may return for the input report
    MaxReports,       \* saturation bound of the count of mouse reports pushed
    MaxRun,           \* most ticks a caller spends inside the quirk module's lookup
    IoctlMaxLens,     \* values of ugd_maxlen a caller passes
    RepDescSizes      \* values of sc_repdesc_size

ASSUME
    /\ {UHID_BSIZE, MOUSE_DATA_LEN, FRAME_NUM, MaxReports} \subseteq Nat \ {0}
    /\ ReportSizes \subseteq Nat
    /\ MaxRun \in Nat
    /\ IoctlMaxLens \subseteq Nat /\ RepDescSizes \subseteq Nat

\* The two read transfers; the write ones belong to UhidWrite.
Xfers == {"INTR_DT_RD", "CTRL_DT_RD"}

\* Not transferring, submitted, released by usbd_transfer_unsetup.
XferStates == {"off", "pending", "unsetup"}

\* Where the attach/detach thread is: in uhid_probe (before the quirk
\* lookup, inside it), probe refused, before a statement of uhid_attach
\* (a_*), attached, before a statement of uhid_detach (d_*), or gone.
Phases == {"probe", "p_quirk", "rejected", "a_setup", "a_fifo", "a_alloc", "a_register", "a_null",
           "attached",
           "d_stop", "d_unreg", "d_free", "d_null", "d_fifo", "d_unsetup",
           "gone"}

\* What sc->input_dev points at: nothing, an allocated InputDevice not yet
\* registered, a registered one, an unregistered one, freed memory.
InputDevStates == {"null", "alloc", "registered", "unregistered", "freed"}

VARIABLES
    phase,      \* the attach/detach thread
    proto,      \* uaa->info.bInterfaceProtocol: "mouse" or "other"
    isize,      \* sc->sc_isize
    inputDev,   \* sc->input_dev
    xfer,       \* sc->sc_xfer[UHID_INTR_DT_RD] and sc->sc_xfer[UHID_CTRL_DT_RD]
    immed,      \* UHID_FLAG_IMMED in sc->sc_flags
    fifoUp,     \* the fifo exists: between usb_fifo_attach and usb_fifo_detach
    rxOpen,     \* a reader has the fifo open with FREAD
    reading,    \* "no", or the mode a blocked read() started in
    rxData,     \* buffers of data queued in the RX fifo
    rxErr,      \* flag_iserror of the RX fifo (usb_fifo_put_data_error)
    reports,    \* mouse reports pushed to the input core (saturating)
    misuse,     \* history: the wrong uses of input_dev the callback made
    probeIn,    \* the function uhid_probe's quirk lookup is executing, or "none"
    probeRun    \* ticks uhid_probe has spent inside that function

\* usb_test_quirk_p, quirkMod and pauseLeft come from UsbDynamic.

uhidVars == <<phase, proto, isize, inputDev, xfer, immed, fifoUp, rxOpen,
              reading, rxData, rxErr, reports, misuse>>

vars == <<uhidVars, hookVars, probeIn, probeRun>>

IsMouse == proto = "mouse"

TypeOK ==
    /\ phase \in Phases
    /\ proto \in {"mouse", "other"}
    \* the transfer lengths are set from sc_isize: it must fit the buffers
    /\ isize \in 0..UHID_BSIZE
    /\ inputDev \in InputDevStates
    /\ xfer \in [Xfers -> XferStates]
    /\ immed \in BOOLEAN
    /\ fifoUp \in BOOLEAN /\ rxOpen \in BOOLEAN
    /\ reading \in {"no", "immed", "intr"}
    /\ rxData \in 0..FRAME_NUM
    /\ rxErr \in BOOLEAN
    /\ reports \in 0..MaxReports
    /\ misuse \subseteq {"deref_freed", "push_unregistered"}
    /\ HookTypeOK
    /\ probeIn \in {"none"} \cup Targets
    /\ probeRun \in 0..MaxRun

(* device_probe of a new interface, with a zeroed softc; the quirk       *)
(* module may be loaded or not.                                            *)
Init ==
    /\ phase = "probe"
    /\ proto \in {"mouse", "other"}
    /\ isize = 0
    /\ inputDev = "null"
    /\ xfer = [x \in Xfers |-> "off"]
    /\ immed = FALSE
    /\ fifoUp = FALSE /\ rxOpen = FALSE
    /\ reading = "no" /\ rxData = 0 /\ rxErr = FALSE
    /\ reports = 0
    /\ misuse = {}
    /\ HookInit
    /\ probeIn = "none" /\ probeRun = 0

-----------------------------------------------------------------------------
(* usbd_transfer_start and usbd_transfer_stop of one read transfer.  A    *)
(* started transfer that is not transferring runs its SETUP callback,     *)
(* given as the new state; a pending one is left alone.  Stopping a       *)
(* pending transfer runs its callback with USB_ERR_CANCELLED.              *)
Start(x, setupState) ==
    xfer' = IF xfer[x] = "off" THEN [xfer EXCEPT ![x] = setupState] ELSE xfer

\* USB_ST_SETUP of uhid_intr_read_callback: set the length, submit.
IntrRdSetup == "pending"

\* USB_ST_SETUP of uhid_read_callback: submit only if the fifo has room.
ReadSetup == IF rxData < FRAME_NUM THEN "pending" ELSE "off"

\* uhid_read_callback on USB_ERR_CANCELLED takes the default branch.
CancelErr(x) == xfer[x] = "pending" /\ x = "CTRL_DT_RD"

(* uhid_stop_read: stop both read transfers.                               *)
StopRead ==
    /\ xfer' = [x \in Xfers |-> IF xfer[x] = "unsetup" THEN "unsetup" ELSE "off"]
    /\ rxErr' = (rxErr \/ CancelErr("CTRL_DT_RD"))

(* uhid_start_read: the control pipe in immediate mode, else the          *)
(* interrupt pipe.                                                         *)
StartRead ==
    IF immed THEN Start("CTRL_DT_RD", ReadSetup)
             ELSE Start("INTR_DT_RD", IntrRdSetup)

-----------------------------------------------------------------------------
(* Probe, and the quirk hook it calls through.                            *)

(* uhid_probe: not host mode, or no match in uhid_devs, is ENXIO; else   *)
(* usb_test_quirk(uaa, UQ_HID_IGNORE), which after the device's own auto *)
(* quirks (any of which also refuses) calls through usb_test_quirk_p.     *)
UhidProbe ==
    /\ phase = "probe"
    /\ \/ /\ phase' = "rejected"
          /\ UNCHANGED probeIn
       \/ /\ phase' = "p_quirk"
          /\ probeIn' = usb_test_quirk_p
    /\ UNCHANGED <<probeRun, proto, isize, inputDev, xfer, immed, fifoUp,
                   rxOpen, reading, rxData, rxErr, reports, misuse, hookVars>>

(* The quirk lookup returns: the default matches nothing; the module's    *)
(* table may list the device as UQ_HID_IGNORE.  A match is ENXIO, else    *)
(* probe succeeds and the bus attaches the driver.                        *)
UhidProbeQuirkDone ==
    /\ phase = "p_quirk"
    /\ \E found \in IF probeIn = "quirk_module" THEN BOOLEAN ELSE {usb_test_quirk_w} :
          phase' = IF found THEN "rejected" ELSE "a_setup"
    /\ probeIn' = "none" /\ probeRun' = 0
    /\ UNCHANGED <<proto, isize, inputDev, xfer, immed, fifoUp, rxOpen,
                   reading, rxData, rxErr, reports, misuse, hookVars>>

(* A tick of the clock.  A caller inside the quirk module's lookup has    *)
(* returned before MaxRun ticks pass (the bet of usb_quirk_unload).        *)
Tick ==
    /\ probeIn = "quirk_module" => probeRun < MaxRun
    /\ HookTick
    /\ probeRun' = IF probeIn = "quirk_module" THEN probeRun + 1 ELSE probeRun
    /\ UNCHANGED <<uhidVars, probeIn>>

-----------------------------------------------------------------------------
(* Attach.                                                                 *)

(* Seeded fault: the input size is not truncated to UHID_BSIZE.           *)
AttachSizes_NoTruncate ==
    /\ phase = "a_setup"
    /\ \/ /\ \E s \in ReportSizes : isize' = s
          /\ phase' = "a_fifo"
       \/ /\ phase' = "d_stop"
          /\ UNCHANGED isize
    /\ UNCHANGED <<proto, inputDev, xfer, immed, fifoUp, rxOpen, reading,
                   rxData, rxErr, reports, misuse>>

(* usbd_transfer_setup, the report descriptor and set-idle, then          *)
(* hid_report_size for the input report, truncated to UHID_BSIZE.  A      *)
(* failing transfer setup or missing descriptor goes to uhid_detach.      *)
AttachSizes ==
    /\ phase = "a_setup"
    /\ \/ /\ \E s \in ReportSizes :
                isize' = IF s > UHID_BSIZE THEN UHID_BSIZE ELSE s
          /\ phase' = "a_fifo"
       \/ /\ phase' = "d_stop"
          /\ UNCHANGED isize
    /\ UNCHANGED <<proto, inputDev, xfer, immed, fifoUp, rxOpen, reading,
                   rxData, rxErr, reports, misuse>>

(* usb_fifo_attach: from here on a reader may open /dev/uhid.  On failure *)
(* goto detach.                                                            *)
AttachFifo ==
    /\ phase = "a_fifo"
    /\ \/ /\ fifoUp' = TRUE
          /\ phase' = "a_alloc"
       \/ /\ phase' = "d_stop"
          /\ UNCHANGED fifoUp
    /\ UNCHANGED <<proto, isize, inputDev, xfer, immed, rxOpen, reading,
                   rxData, rxErr, reports, misuse>>

(* sc->input_dev = zalloc(...), then its type and name from the           *)
(* interface protocol.  A failed zalloc leaves it NULL and attach is done.*)
AttachAlloc ==
    /\ phase = "a_alloc"
    /\ \/ /\ inputDev' = "alloc"
          /\ phase' = "a_register"
       \/ /\ phase' = "attached"
          /\ UNCHANGED inputDev
    /\ UNCHANGED <<proto, isize, xfer, immed, fifoUp, rxOpen, reading,
                   rxData, rxErr, reports, misuse>>

(* RegisterInputDevice.  Success: a mouse clears UHID_FLAG_IMMED and      *)
(* starts the interrupt-in transfer under sc_mtx.  Failure: free the      *)
(* device (the NULL store is the next statement).                          *)
AttachRegister ==
    /\ phase = "a_register"
    /\ \/ /\ inputDev' = "registered"
          /\ IF IsMouse
             THEN /\ immed' = FALSE
                  /\ Start("INTR_DT_RD", IntrRdSetup)
             ELSE UNCHANGED <<immed, xfer>>
          /\ phase' = "attached"
       \/ /\ inputDev' = "freed"
          /\ phase' = "a_null"
          /\ UNCHANGED <<immed, xfer>>
    /\ UNCHANGED <<proto, isize, fifoUp, rxOpen, reading, rxData, rxErr, reports, misuse>>

(* sc->input_dev = NULL after the failed registration.                    *)
AttachNull ==
    /\ phase = "a_null"
    /\ inputDev' = "null"
    /\ phase' = "attached"
    /\ UNCHANGED <<proto, isize, xfer, immed, fifoUp, rxOpen, reading,
                   rxData, rxErr, reports, misuse>>

-----------------------------------------------------------------------------
(* Detach, one statement per step; the thread holds no lock.               *)

(* The bus detaches the device.                                            *)
DetachBegin ==
    /\ phase = "attached"
    /\ phase' = "d_stop"
    /\ UNCHANGED <<proto, isize, inputDev, xfer, immed, fifoUp, rxOpen,
                   reading, rxData, rxErr, reports, misuse>>

(* if (sc->input_dev): a mouse's interrupt-in transfer is stopped; the    *)
(* intr read callback ignores USB_ERR_CANCELLED.                           *)
DetachStop ==
    /\ phase = "d_stop"
    /\ \/ /\ inputDev # "null"
          /\ IF IsMouse
             THEN xfer' = [xfer EXCEPT !["INTR_DT_RD"] =
                             IF @ = "unsetup" THEN @ ELSE "off"]
             ELSE UNCHANGED xfer
          /\ phase' = "d_unreg"
       \/ /\ inputDev = "null"
          /\ phase' = "d_fifo"
          /\ UNCHANGED xfer
    /\ UNCHANGED <<proto, isize, inputDev, immed, fifoUp, rxOpen, reading,
                   rxData, rxErr, reports, misuse>>

(* UnregisterInputDevice, free, and the NULL store: three statements.    *)
DetachUnreg ==
    /\ phase = "d_unreg"
    /\ inputDev' = "unregistered"
    /\ phase' = "d_free"
    /\ UNCHANGED <<proto, isize, xfer, immed, fifoUp, rxOpen, reading,
                   rxData, rxErr, reports, misuse>>

DetachFree ==
    /\ phase = "d_free"
    /\ inputDev' = "freed"
    /\ phase' = "d_null"
    /\ UNCHANGED <<proto, isize, xfer, immed, fifoUp, rxOpen, reading,
                   rxData, rxErr, reports, misuse>>

DetachNull ==
    /\ phase = "d_null"
    /\ inputDev' = "null"
    /\ phase' = "d_fifo"
    /\ UNCHANGED <<proto, isize, xfer, immed, fifoUp, rxOpen, reading,
                   rxData, rxErr, reports, misuse>>

(* usb_fifo_detach: the device node goes away; an open reader is closed  *)
(* through uhid_stop_read and uhid_close, a blocked read returns.         *)
DetachFifo ==
    /\ phase = "d_fifo"
    /\ IF rxOpen THEN StopRead ELSE UNCHANGED <<xfer, rxErr>>
    /\ fifoUp' = FALSE /\ rxOpen' = FALSE
    /\ reading' = "no" /\ rxData' = 0
    /\ phase' = "d_unsetup"
    /\ UNCHANGED <<proto, isize, inputDev, immed, reports, misuse>>

(* usbd_transfer_unsetup: cancel and release every transfer.  The rest of *)
(* uhid_detach frees the descriptor and the mutex.                        *)
DetachUnsetup ==
    /\ phase = "d_unsetup"
    /\ xfer' = [x \in Xfers |-> "unsetup"]
    /\ phase' = "gone"
    /\ UNCHANGED <<proto, isize, inputDev, immed, fifoUp, rxOpen, reading,
                   rxData, rxErr, reports, misuse>>

-----------------------------------------------------------------------------
(* The /dev/uhid reader, through the fifo methods.                         *)

(* uhid_open with FREAD: clear UHID_FLAG_IMMED under sc_mtx, then         *)
(* allocate FRAME_NUM buffers of sc_isize + 1 bytes; ENOMEM leaves the    *)
(* fifo closed (with the flag already cleared).                            *)
UhidOpen ==
    /\ fifoUp /\ ~rxOpen
    /\ immed' = FALSE
    /\ \/ /\ rxOpen' = TRUE
          /\ rxData' = 0 /\ rxErr' = FALSE
       \/ UNCHANGED <<rxOpen, rxData, rxErr>>
    /\ UNCHANGED <<phase, proto, isize, inputDev, xfer, fifoUp, reading,
                   reports, misuse>>

(* Seeded fault: uhid_stop_read stops only the control read transfer.      *)
UhidClose_KeepIntr ==
    /\ rxOpen /\ reading = "no"
    /\ xfer' = [xfer EXCEPT !["CTRL_DT_RD"] = IF @ = "unsetup" THEN @ ELSE "off"]
    /\ rxErr' = (rxErr \/ CancelErr("CTRL_DT_RD"))
    /\ rxOpen' = FALSE /\ rxData' = 0
    /\ UNCHANGED <<phase, proto, isize, inputDev, immed, fifoUp, reading,
                   reports, misuse>>

(* The last close: the fifo stops reading (uhid_stop_read), then          *)
(* uhid_close frees the buffers.  A blocked read holds a reference, so    *)
(* there is none.                                                          *)
UhidClose ==
    /\ rxOpen /\ reading = "no"
    /\ StopRead
    /\ rxOpen' = FALSE /\ rxData' = 0
    /\ UNCHANGED <<phase, proto, isize, inputDev, immed, fifoUp, reading,
                   reports, misuse>>

(* read() or poll() finds the RX fifo empty and calls uhid_start_read; a  *)
(* read() that was not blocked yet now blocks, in the current mode.       *)
ReadStart ==
    /\ fifoUp /\ rxOpen /\ rxData = 0 /\ ~rxErr
    /\ StartRead
    /\ reading' = IF reading = "no" THEN IF immed THEN "immed" ELSE "intr"
                  ELSE reading
    /\ UNCHANGED <<phase, proto, isize, inputDev, immed, fifoUp, rxOpen,
                   rxData, rxErr, reports, misuse>>

(* read() dequeues a buffer, or a blocked read() returns EIO after         *)
(* usb_fifo_put_data_error.                                                 *)
ReadDone ==
    /\ rxOpen
    /\ \/ /\ rxData > 0
          /\ rxData' = rxData - 1
       \/ /\ rxErr /\ reading # "no" /\ rxData = 0
          /\ UNCHANGED rxData
    /\ reading' = "no"
    /\ UNCHANGED <<phase, proto, isize, inputDev, xfer, immed, fifoUp, rxOpen,
                   rxErr, reports, misuse>>

(* ioctl(USB_SET_IMMED, data) on a descriptor open for reading.  A        *)
(* non-zero value sets the flag under sc_mtx once the test read           *)
(* uhid_get_report(sc_isize) succeeded; a failed test (EPERM for a device *)
(* without an input report, ENOMEM, ENXIO) leaves it as it was, a step    *)
(* the model leaves implicit.  Zero clears the flag.                        *)
IoctlSetImmed ==
    /\ rxOpen
    /\ \/ immed' = FALSE
       \/ /\ \E r \in UhidGetReport("null", isize) : r.err = "OK"
          /\ immed' = TRUE
    /\ UNCHANGED <<phase, proto, isize, inputDev, xfer, fifoUp, rxOpen,
                   reading, rxData, rxErr, reports, misuse>>

-----------------------------------------------------------------------------
(* The device and the callbacks.                                           *)

MIN2(x, y) == IF x < y THEN x ELSE y

(* USB_ST_TRANSFERRED of uhid_intr_read_callback with actlen bytes: if    *)
(* sc->input_dev is set and its devType is INDEV_TYPE_MOUSE, hand the     *)
(* data to mouse_report_events, which pushes the events of a report of    *)
(* MOUSE_DATA_LEN bytes; then resubmit.  Reading devType out of freed     *)
(* memory may give either answer.  The error path (stall and resubmit)    *)
(* changes no modelled state.                                               *)
IntrRdDone(actlen) ==
    /\ xfer["INTR_DT_RD"] = "pending"
    /\ \E seenMouse \in IF inputDev = "freed" THEN BOOLEAN ELSE {IsMouse} :
          LET pushes == inputDev # "null" /\ seenMouse /\ actlen = MOUSE_DATA_LEN
          IN /\ reports' = IF pushes THEN MIN2(reports + 1, MaxReports) ELSE reports
             /\ misuse' = misuse
                    \cup (IF inputDev = "freed" THEN {"deref_freed"} ELSE {})
                    \cup (IF pushes /\ inputDev # "registered"
                          THEN {"push_unregistered"} ELSE {})
    /\ UNCHANGED <<phase, proto, isize, inputDev, xfer, immed, fifoUp, rxOpen,
                   reading, rxData, rxErr>>

(* USB_ST_TRANSFERRED of uhid_read_callback: usb_fifo_put_data of one     *)
(* buffer (lost if none is free), no resubmit.                             *)
CtrlRdDone ==
    /\ xfer["CTRL_DT_RD"] = "pending"
    /\ xfer' = [xfer EXCEPT !["CTRL_DT_RD"] = "off"]
    /\ rxData' = MIN2(rxData + 1, FRAME_NUM)
    /\ UNCHANGED <<phase, proto, isize, inputDev, immed, fifoUp, rxOpen,
                   reading, rxErr, reports, misuse>>

(* Seeded fault: a failed control read is dropped silently.               *)
CtrlRdError_NoErr ==
    /\ xfer["CTRL_DT_RD"] = "pending"
    /\ xfer' = [xfer EXCEPT !["CTRL_DT_RD"] = "off"]
    /\ UNCHANGED <<phase, proto, isize, inputDev, immed, fifoUp, rxOpen,
                   reading, rxData, rxErr, reports, misuse>>

(* The control read fails (or times out after 1 s): bomb out with         *)
(* usb_fifo_put_data_error.                                                 *)
CtrlRdError ==
    /\ xfer["CTRL_DT_RD"] = "pending"
    /\ xfer' = [xfer EXCEPT !["CTRL_DT_RD"] = "off"]
    /\ rxErr' = TRUE
    /\ UNCHANGED <<phase, proto, isize, inputDev, immed, fifoUp, rxOpen,
                   reading, rxData, reports, misuse>>

Attach ==
    AttachSizes \/ AttachFifo \/ AttachAlloc \/ AttachRegister \/ AttachNull

Detach ==
    \/ DetachBegin \/ DetachStop \/ DetachUnreg \/ DetachFree \/ DetachNull
    \/ DetachFifo \/ DetachUnsetup

Reader == UhidOpen \/ UhidClose \/ ReadStart \/ ReadDone \/ IoctlSetImmed

Device ==
    \/ \E actlen \in 0..isize : IntrRdDone(actlen)
    \/ CtrlRdDone
    \/ CtrlRdError

Driver == Attach \/ Detach \/ Reader \/ Device

\* A step of the driver leaves the hook and uhid_probe alone.
DriverStep(A) == A /\ UNCHANGED <<hookVars, probeIn, probeRun>>

Probe == UhidProbe \/ UhidProbeQuirkDone

QuirkModule ==
    /\ usb_quirk_unload \/ UnloadDone
    /\ UNCHANGED <<uhidVars, probeIn, probeRun>>

Next ==
    \/ DriverStep(Driver)
    \/ Probe
    \/ QuirkModule
    \/ Tick

(* The control transfers time out after one second (uhid_config), so a    *)
(* pending control read ends; a reader woken by the fifo returns.  The    *)
(* bus, the user and the interrupt pipe (no timeout) owe nothing.         *)
Spec == Init /\ [][Next]_vars
            /\ WF_vars(DriverStep(CtrlRdDone \/ CtrlRdError))
            /\ WF_vars(DriverStep(ReadDone))

-----------------------------------------------------------------------------
(* Properties.                                                             *)

(* uhid_intr_read_callback dereferences sc->input_dev (line 206) with     *)
(* sc_mtx held, while uhid_attach and uhid_detach free it without the     *)
(* lock and only then clear the pointer, and stop the interrupt pipe only *)
(* for a mouse, which a reader of /dev/uhid can restart.  The callback    *)
(* must never read a freed InputDevice nor push events into one that is  *)
(* not registered.                                                          *)
UhidInputDevSafe == misuse = {}

(* uhid_attach starts the interrupt-in pipe of a registered mouse         *)
(* (line 883) and uhid_detach stops it (line 904): while the mouse is     *)
(* attached and registered its reports must keep flowing, so the pipe is  *)
(* pending.                                                                 *)
UhidMouseArmed ==
    (phase = "attached" /\ IsMouse /\ inputDev = "registered")
        => xfer["INTR_DT_RD"] = "pending"

(* No orphaned polling: the interrupt-in pipe is pending only on behalf   *)
(* of an open reader (uhid_start_read) or of a registered mouse           *)
(* (uhid_attach).  uhid_stop_read, at close and at usb_fifo_detach, and   *)
(* the mouse stop in uhid_detach must leave no one else's pipe running.   *)
UhidIntrRdOwned ==
    xfer["INTR_DT_RD"] = "pending" => rxOpen \/ (IsMouse /\ inputDev = "registered")

(* A read() that blocks in immediate mode returns: the control read that  *)
(* uhid_start_read submits delivers a report or an error into the fifo.  *)
UhidImmedReadProgress == reading = "immed" ~> reading = "no"

(* A read() that blocks in the default mode returns: uhid_start_read      *)
(* submits the interrupt-in transfer for it, so its data should reach     *)
(* the fifo.                                                                *)
UhidIntrReadProgress == reading = "intr" ~> reading = "no"

(* usb_quirk_unload resets usb_test_quirk_p and then pauses hz ticks     *)
(* before the quirk module's text is unmapped, betting that a uhid_probe  *)
(* which loaded the old pointer has left the module's lookup by then.     *)
(* No caller may still be executing inside the quirk module once it is    *)
(* unloaded.                                                               *)
UsbQuirkNoStaleCall ==
    ~(probeIn = "quirk_module" /\ quirkMod = "unloaded")

\* The report sizes uhid_attach can leave, after truncation to UHID_BSIZE.
TruncSizes == {MIN(s, UHID_BSIZE) : s \in ReportSizes}

\* FREAD and FWRITE of a descriptor that can make an ioctl now: one open
\* for reading exists only while a reader has the fifo open.
OpenModes(reader) == IF reader THEN {<<TRUE, FALSE>>, <<TRUE, TRUE>>, <<FALSE, TRUE>>}
                       ELSE {<<FALSE, TRUE>>}

\* The descriptor request, with the report sizes unused.
DescCopyBounded(reader) ==
    \A m \in IoctlMaxLens, u \in UserBufs, d \in RepDescSizes, fl \in OpenModes(reader) :
        LET a  == [type |-> "input", maxlen |-> m, data |-> u, on |-> FALSE]
            sz == [size |-> [x \in ReportTypes |-> 0], id |-> [x \in ReportTypes |-> FALSE],
                   desc |-> d]
        IN \A r \in UhidIoctlCall("GET_REPORT_DESC", fl[1], fl[2], a, sz) :
              r.copied <= MIN(m, d)

\* The report requests, with the descriptor size unused.
ReportCopyBounded(reader) ==
    \A cmd \in {"GET_REPORT", "SET_REPORT"}, t \in ReportTypes, m \in IoctlMaxLens,
       u \in UserBufs, s \in TruncSizes, fl \in OpenModes(reader), hasId \in BOOLEAN :
        LET a  == [type |-> t, maxlen |-> m, data |-> u, on |-> FALSE]
            sz == [size |-> [input |-> isize, output |-> s, feature |-> s, other |-> 0],
                   id   |-> [x \in ReportTypes |-> hasId],
                   desc |-> 0]
        IN \A r \in UhidIoctlCall(cmd, fl[1], fl[2], a, sz) :
              /\ r.copied <= MIN(m, sz.size[t])
              /\ r.idRead /\ m = 0 => r.err = "EPERM" /\ r.copied = 0

(* USB_GET_REPORT, USB_SET_REPORT and USB_GET_REPORT_DESC move bytes      *)
(* between a kernel buffer and the caller's ugd_data, which holds          *)
(* ugd_maxlen bytes.  Whatever the report type and whether it has an ID,  *)
(* the sizes uhid_attach left, the descriptor's mode and the failures on  *)
(* the way (zero length, malloc, the device, faults), no call moves more  *)
(* than MIN(ugd_maxlen, the size of the report or descriptor): the        *)
(* caller's buffer is never overrun and no byte past the report is read.  *)
(* The one byte outside this bound is the report ID, which the code reads *)
(* from ugd_data before it looks at ugd_maxlen: when ugd_maxlen is 0 that  *)
(* read must be the only access and the call must fail (EPERM from the    *)
(* zero-length request) without a report going to or from the device.    *)
UhidIoctlCopyBounded ==
    fifoUp => DescCopyBounded(rxOpen) /\ ReportCopyBounded(rxOpen)

(* The comment of USB_GET_REPORT_DESC says a call with ugd_data NULL asks *)
(* for the descriptor length only: such a call that succeeds should hand  *)
(* the caller ugd_actlen, as every successful GET_REPORT_DESC should.     *)
UhidRepDescLenReported ==
    fifoUp =>
    \A m \in IoctlMaxLens, u \in UserBufs, d \in RepDescSizes :
        \A r \in GetReportDesc(d, m, u) : r.err = "OK" => r.told

(* A reader that set immediate mode keeps it until it clears it itself   *)
(* (USB_SET_IMMED 0) or closes: no other actor's step clears              *)
(* UHID_FLAG_IMMED under an open reader.  uhid_attach clears it when it   *)
(* registers a mouse (line 882), after usb_fifo_attach let readers in.    *)
UhidImmedKept ==
    [][(rxOpen /\ rxOpen' /\ immed /\ ~immed') => IoctlSetImmed]_vars

====
