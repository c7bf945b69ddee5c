# TLA+ models of the sampled FreeBSD sources

This directory holds TLA+ specifications of the code under `src/`, the
TLC configurations that check them, and `PROJECT.json`, which records
the components, the runs, the mutants, the mapping from each definition
to the source lines it models, the findings and the hazards.

## The system

The sources are eight files of the OpenHarmony port of FreeBSD:

| file | what it is |
|---|---|
| `sys/dev/usb/net/if_urndis.c` | RNDIS USB Ethernet driver: control channel, bulk RX, bulk TX, life cycle |
| `sys/dev/usb/input/uhid.c` | USB HID driver: interrupt/control transfers, usb_fifo, ioctls |
| `lib/libc/stdlib/qsort.c` | Bentley–McIlroy quicksort |
| `contrib/libexecinfo/unwind.c` | backtrace via `_Unwind_Backtrace` |
| `sys/dev/usb/usb_dynamic.c` | default hooks of loadable USB modules |
| `sys/compat/linuxkpi/.../pagemap.h`, `lib/msun/src/e_lgammal.c`, `lib/libc/include/fpmath.h` | inline wrappers, an alias, a layout |

`spec.md` describes the RNDIS driver, the core of the sample.

### RNDIS driver parts and how they interact

* **Control channel.** `urndis_ctrl_send` and `urndis_ctrl_recv` are
  blocking control requests. They drop `sc_mtx` while waiting, but the
  attach thread is their only caller. `urndis_ctrl_recv` reads into the
  single buffer `sc_response_buf`. `urndis_ctrl_handle` then dispatches
  on the response type:
  * init checks the status, the device flags and the medium, then
    records `sc_lim_pktsz`;
  * query bounds-checks the info buffer and returns a view into the
    buffer;
  * reset may call `urndis_ctrl_set` from inside the handler.
* **Life cycle.** `urndis_attach` runs Initialize, Query(address) and
  Set(filter), then `uether_ifattach`. Any failure jumps to
  `urndis_detach`, which unsets the transfers, detaches the interface
  and sends Halt.
* **Bulk RX.** One transfer of `RNDIS_RX_MAXLEN` bytes. Its callback
  splits the received bytes into packet messages. It checks each header
  and copies each frame into a pbuf (`urndis_bulk_read`) for the stack.
  It resubmits on every normal exit, clears a stall on error, and does
  nothing on cancel.
* **Bulk TX.** One transfer with `RNDIS_TX_FRAMES_MAX` sub-frames. Its
  callback dequeues frames from `ue_txq`, frees any frame too big for a
  sub-frame, and submits the slots it filled. On error it clears the
  stall and packs again; the failed batch is gone.
* **Start and stop.** `urndis_init` and `urndis_stop` set and clear
  `IFF_DRV_RUNNING` and start or stop both bulk transfers
  (`urndis_start`).
* **Locking.** Every callback runs with `sc_mtx` held. A callback is
  therefore one atomic step, or one step per loop iteration while no
  other action is enabled.

### uhid driver parts and how they interact

* **Attach and detach.** `uhid_attach` sets up four transfers and reads
  the report sizes, truncating them to `UHID_BSIZE`. It then calls
  `usb_fifo_attach`, from which point `/dev/uhid` can be opened. Last,
  it allocates and registers an `InputDevice`, and for a mouse starts
  the interrupt-in transfer. `uhid_detach` stops that transfer for a
  mouse, then unregisters, frees and clears `sc->input_dev`, all without
  `sc_mtx`. It then detaches the fifo and unsets the transfers.
* **Read side.** The raw reader goes through the usb_fifo methods, which
  run under `sc_mtx`. `uhid_start_read` starts the control read
  (GET_REPORT) in immediate mode and the interrupt read otherwise.
  `uhid_stop_read` stops both. Only the control read fills the fifo.
  The interrupt read hands a mouse's reports to the input core.
* **Write side.** `uhid_start_write` starts the control write
  (SET_REPORT) in immediate mode or when there is no interrupt-out
  endpoint, and the interrupt write otherwise. Both callbacks take
  bytes from the one TX fifo with `usb_fifo_get_data`. The control
  write takes the ID byte and the payload in two calls and checks the
  length. The interrupt write packs up to a packet of bytes across
  writes.
* **Ioctls.** `uhid_ioctl` runs without `sc_mtx`. GET_REPORT and
  SET_REPORT make a synchronous request (`uhid_get_report`,
  `uhid_set_report`) of `MIN(ugd_maxlen, size)` bytes for the report
  type's size. GET_REPORT_DESC copies out at most `ugd_maxlen` bytes of
  the descriptor. USB_SET_IMMED does a test read before it sets the
  flag under `sc_mtx`. Unknown commands go on to `uhid_ioctl_post`.
* **Shared state.** The interrupt-in transfer is shared between the
  mouse and the raw reader. `UHID_FLAG_IMMED` is shared between the
  reader's ioctl and both start functions.

### The quirk hook and uhid's probe

`uhid_probe` refuses a device that is not in host mode or not in
`uhid_devs`. Otherwise it asks `usb_test_quirk(uaa, UQ_HID_IGNORE)`,
which calls through the function pointer `usb_test_quirk_p`
(`usb_dynamic.c`). The loadable quirk module points that hook at its own
lookup. Its unload handler, `usb_quirk_unload`, points it back at
`usb_test_quirk_w` and then calls `pause("WAIT", hz)`. The pause is not
a synchronisation: it bets that any CPU inside the module's lookup
leaves within one second ("XXX this is a tradeoff"). After that the
module's text is unmapped. `uhid_probe` is the only caller under `src/`.

### qsort

`local_qsort` is the Bentley–McIlroy quicksort. It uses insertion sort
below 7 elements, med3 or the ninther for the pivot, a four-region
partition, and the two `vecswap`s. It recurses on the smaller side and
loops on the larger. `qsort_s` first checks its arguments and returns
`EINVAL` through the constraint handler; it checks the array, the
comparator and `es` only when `n` is not 0.

## Modules

| module | models | state ↔ code |
|---|---|---|
| `UrndisRx` | RX transfer and its callback | `rxState` = the usb_xfer state; `offset`/`actlen` = the callback's locals; `rxFrames` = the regions copied by `urndis_bulk_read` |
| `UrndisTx` | TX transfer, send queue, start/stop | `txq` = `ue_txq`; `slots` = the packed sub-frames; `wire`, `dropped`, `lost` = history of where each frame went |
| `UrndisCtrl` | control channel and attach/detach | `rbuf`/`ract` = `sc_response_buf` and the last transfer length; `view` = `buf`/`bufsz` of the query; `depth` = nested Sets; `phase` = position in attach/detach |
| `Qsort` | `local_qsort` | `arr` = the array; `step` = the label the code is at; the pointers and `swap_cnt` = its locals; `stack` = the frames of the recursive calls (`a`, `n`, `pn`, `d1`, `d2` and the return point); `result` = what `qsort_s` returns; `args` = which argument the caller of `qsort_s` got wrong, if any (a history variable) |
| `Uhid` | uhid attach/detach, read side, mouse | `phase` = the statement attach/detach is at; `inputDev` = what `sc->input_dev` points at; `xfer` = the two read transfers; `immed` = `UHID_FLAG_IMMED`; `rxOpen`/`reading`/`rxData`/`rxErr` = the RX fifo and a blocked read; `misuse` = history of wrong uses of the input device |
| `UhidIoctl` | `uhid_ioctl`, `uhid_ioctl_post`, `uhid_get_report`, `uhid_set_report` | operators only: each returns the set of outcomes of a call (error, bytes moved to or from `ugd_data`, whether `ugd_actlen` was copied back) |
| `UhidWrite` | uhid write side | `txq` = the TX fifo's buffers (write number, offset, length); `ctrl`/`ctrlRep` and `intr`/`intrPkt` = the two write transfers and what they carry; `txErr` = the fifo error flag; `ctrlSent`, `intrSent`, `dropped` = history of where each write went |
| `UrndisTxChannel` | what the TX path promises | `pending` = frames accepted and not yet settled; `wire` = frames delivered in order; `gone` = frames discarded |
| `UsbDynamic` | `usb_test_quirk_p` and `usb_quirk_unload` | `usb_test_quirk_p` = the hook; `quirkMod` = the quirk module (loaded, inside its unload, unmapped); `pauseLeft` = ticks of `pause` still to run |
| `MC_*` | instances for TLC | small sizes, device field values, response families |

In every module each code path of a handler is a disjunct of its
action. The device is the environment: header fields, response words
and transfer lengths range over small sets. In those sets the largest
value stands for every u32 larger than the buffer.

* **`UrndisRx`.** One loop iteration of `urndis_bulk_read_callback` is
  `RxParseMsg(msg)`, whose guard is the seven checks in code order
  (`ValidPacketMsg`). Its three disjuncts are:
  * bad header → `goto tr_setup`;
  * frame copied, cursor advanced by `rm_len`;
  * pbuf allocation failed → return.

  `RxLoopDone` is the fall-through to `tr_setup`.
* **`UrndisTx`.** The packing loop is the recursive operator `PackFrom`.
  `TrSetup` packs and submits only when a slot is filled. `StartTx` is
  `usbd_transfer_start`, a no-op on a pending transfer. `TxError(k)`
  delivers a prefix of `k` sub-frames and loses the rest.
* **`UrndisCtrl`.** `Received` overwrites only the words the transfer
  carried. The response fields sit at their word positions in
  `urndis_comp_hdr` and the completion structs. `CtrlHandle` and its
  handlers are operators that return the return value, the view and
  `sc_lim_pktsz`. A reset completion with `rm_adrreset` set begins a
  nested Set. `AttachThread` groups every step of the attach thread.

* **`Qsort`.** There is one action per label of `local_qsort`. A step
  is one iteration of a loop, a recursive call pushes a frame, a return
  pops one, and `goto loop` reuses the frame. `Med3`, `Swap` and
  `VecSwap` are operators. `QsortSorts` compares the result with a
  reference: the sorted permutation of the input. A call starts either
  at `entry` (`qsort`) or at `qsort_s`, whose step `QsortS` chooses any
  set of wrong arguments and refuses the call when `Rejects` says so.
* **`Uhid`.** The attach/detach thread is one action per statement,
  because it holds no lock between statements. The callbacks and the
  fifo methods each take one step, because they run under `sc_mtx`.
  `usbd_transfer_start` on an idle transfer runs its SETUP callback, and
  the model makes that the same step (`Start`). `IoctlSetImmed` sets
  the flag only for a device with an input report: for `sc_isize` = 0
  the test read in `uhid_get_report` fails with EPERM. Reading `devType` out
  of freed memory is undefined, so the model lets it give either
  answer.
* **`UrndisTxChannel` and the refinement.** The abstract channel has a
  queue of pending frames and three steps: accept a frame, refuse it
  at once, or settle a prefix of the queue onto the wire while any
  set of the frames behind it is discarded. `UrndisTx` maps to it with
  `pending <- slots \o txq` and `gone <- dropped \cup lost`
  (`Channel == INSTANCE UrndisTxChannel WITH ...`). The property
  `TxRefinesChannel == Channel!Spec` says that every TX behaviour is a
  channel behaviour: the packer, the submit, the error path with its
  partial delivery, and init/stop never reorder, duplicate or forget a
  frame.
* **`UsbDynamic` and the probe in `Uhid`.** `Uhid` extends `UsbDynamic`.
  `UhidProbe` is the refusal of lines 719–724 or the load of
  `usb_test_quirk_p` at line 726 (`probeIn` records which function the
  probe is running). `UhidProbeQuirkDone` is the return of the lookup:
  the module's table may list the device, and the default matches
  nothing (`usb_test_quirk_w`). A match refuses; otherwise attach
  begins. `usb_quirk_unload` resets the pointer and starts a pause of
  `HZ` ticks, and `UnloadDone` unmaps the module when the pause is
  over. `Tick` advances time for the pause and for a probe inside the
  module's lookup, which by assumption leaves within `MaxRun` ticks.
  The driver's actions leave the hook alone (`DriverStep`).
* **`UhidIoctl` and the ioctls in `Uhid`.** The caller's argument is
  abstracted to the report type, `ugd_maxlen`, and `ugd_data` (NULL, a
  mapped buffer, or a faulting address). A failed malloc, a device
  that does not answer, and a fault on the argument structure are
  nondeterministic outcomes. Only USB_SET_IMMED changes driver state.
  Its flag update is the `Uhid` action `IoctlSetImmed`, which sets the
  flag only when an outcome of the test read `UhidGetReport(sc_isize)`
  succeeds. The other calls are checked as operators in every state of
  `Uhid`. They read `sc_isize` and whether a reader is open; the output
  and feature sizes range over the truncated report sizes.
* **`UhidWrite`.** `usb_fifo_get_data` is modelled by its two modes.
  With `what = 0` (`Take`, recursive) it takes bytes across buffers,
  dequeuing each buffer it empties. With `what = 1` (in `Payload`) it
  takes one buffer. `CtrlSetup` and `IntrSetup` are the SETUP code of
  the two write callbacks. Each returns the new queue and what it
  submitted, and `SetCtrl`/`SetIntr` apply that. A SET_REPORT records
  the offset in its write where its payload begins (`poff`), so that
  `RepBytes` and `PieceBytes` name the bytes each transfer carried.
  `uhid_detach`'s effect on an open writer is that of the last close
  (`UhidClose`) and is not a separate action.

## Runs

| run | cfg | expect | shows |
|---|---|---|---|
| rx_safety | UrndisRx_safety.cfg | pass | the parse cursor stays inside the received bytes (`RxCursorInBounds`) |
| rx_allocfail | UrndisRx_allocfail.cfg | violation | a failed `pbuf_alloc` returns without re-arm (line 909) |
| rx_overread | UrndisRx_overread.cfg | violation | the checks admit a data region ending past the received bytes (lines 890–894, 817) |
| tx | UrndisTx.cfg | pass | frames reach the device in order at most once; the queue drains while running; the TX path refines `UrndisTxChannel` (`TxRefinesChannel`) |
| ctrl | UrndisCtrl.cfg | pass | the query view lies in `sc_response_buf`; attach continues only with an address of `NETIF_MAX_HWADDR_LEN`, up to two levels of reset-handler nesting |
| ctrl_fresh | UrndisCtrl_fresh.cfg | violation | a short response gives a view over stale words (line 451) |
| ctrl_nesting | UrndisCtrl_nesting.cfg | violation | Set nests inside reset handling without bound (line 620) |
| qsort_scaled | Qsort_scaled.cfg | pass | every array of up to 8 elements over 4 values is sorted, nothing past `n` is touched, both scans keep the four-region invariant, each nested call sorts at most half its caller's range (`StackHalves`), and no `qsort_s` call with a NULL array or comparator, `es` = 0 or a size above `RSIZE_MAX` gets past the checks of `qsort_s` and the `n < 2` return of `local_qsort_s` into the sorting loop, where the array, `cmp` and `es` are used (`QsortSArgsUsed`) |
| uhid | Uhid.cfg | pass | no GET_REPORT, SET_REPORT or GET_REPORT_DESC moves more than `MIN(ugd_maxlen, size)` bytes, in any state of the fifo and on any failure path, and the report ID byte read from `ugd_data` with `ugd_maxlen` = 0 ends in EPERM before any transfer (`UhidIoctlCopyBounded`); `sc_isize` fits the buffers; the interrupt-in transfer is pending only for a registered mouse or an open reader (`UhidIntrRdOwned`); a blocked immediate-mode read always returns (`UhidImmedReadProgress`); with the quirk module unloading during probe, no probe is inside the module once it is unmapped, provided it leaves within the pause (`UsbQuirkNoStaleCall`) |
| uhid_uaf | Uhid_uaf.cfg | violation | the interrupt-in callback reads `sc->input_dev` after it is freed (line 206 against 877–878 and 907–909) |
| uhidw | UhidWrite.cfg | pass | with up to four writes, the interrupt pipe delivers bytes in order; no byte of any write reaches the device twice, on one pipe or across both when `USB_SET_IMMED` moves a half-sent write (`UhidBytesOnce`); without an interrupt-out endpoint, and with 1-byte writes whose ID byte empties a buffer among the others, a write of exactly `sc_osize` bytes goes out only as a SET_REPORT of its own, in write order (`UhidWriteFramed`), and each such write is sent, discarded by an error or close, or stranded behind the fifo error (`UhidWellFormedSent`); if the interrupt-out pipe keeps completing, every write in flight leaves it (`UhidWriteDrains`) |
| uhidw_idonly | UhidWrite_idonly.cfg | violation | with a report ID and `sc_osize` = 1, a one-byte write is consumed without being sent and without an error (lines 265 and 283) |

The following checks are kept outside the run list in `PROJECT.json`,
which holds one violation run per defect class. Each fails as described
and is recorded as a hazard:

| cfg | property | shows |
|---|---|---|
| UrndisCtrl_negotiated.cfg | `AttachNegotiated` | Initialize answered by SET_CMPLT lets attach go on (line 471) |
| Uhid_mouse.cfg | `UhidMouseArmed` | open, then close, of `/dev/uhid` stops a registered mouse's interrupt-in transfer (line 406) |
| Uhid_intrread.cfg | `UhidIntrReadProgress` | a read() in the default mode blocks for ever: the interrupt callback never calls `usb_fifo_put_data` (line 204) |
| Uhid_quirkslow.cfg | `UsbQuirkNoStaleCall` | a probe preempted inside the quirk lookup for the whole pause (`MaxRun` = `HZ`) runs unmapped text (usb_dynamic.c line 89) |
| Uhid_repdesc.cfg | `UhidRepDescLenReported` | USB_GET_REPORT_DESC with `ugd_data` NULL, commented "descriptor length only", breaks before copying back the structure with `ugd_actlen` (line 571) |
| Uhid_immedlost.cfg | `UhidImmedKept` | a reader opens `/dev/uhid` after `usb_fifo_attach` and sets immediate mode; registering the mouse then clears the flag under it (line 882), so its reads wait on the interrupt pipe (line 204) |
| UhidWrite_framing.cfg | `UhidReportsFromOneWrite` | with a report ID, a 1-byte write becomes the ID byte of a SET_REPORT whose payload is the next write (lines 265 and 283); the cause is the one `uhidw_idonly` shows |
| Qsort.cfg | `TypeOK`, `QsortSorts`, `PartitionInvariant` | pass at the code's own thresholds (7 and 40), where up to 8 elements see only med3 and one level of partition |

A further disagreement is documented but has no cfg. On a device with
an interrupt-out endpoint, a `USB_SET_IMMED` toggle can let the control
pipe send the tail of a write that the interrupt pipe began (line 414).
For this reason `UhidWriteFramed` claims framing only for devices
without that endpoint. `UhidBytesOnce` shows that the tail is sent
once and not resent: a report is framed wrongly, but no byte is
duplicated.
Each property of a passing run has a mutant in `PROJECT.json`: a
plausible bug in the mapped code, seeded as an operator named
`<Def>_<Fault>` that TLC finds violating the property.

## Bounds

* **RX.** `RNDIS_RX_MAXLEN` = 6 units, header 2, field offset 1,
  minimum frame 1, maximum frame 3. Field values range over 0..7, so 7
  stands for huge. These sizes allow two back-to-back messages, a
  message with padding, every check failing on its own, and a region
  that ends past the buffer.
* **TX.** 2 slots, capacity 4, header 2, frame lengths {1, 2, 3}, at
  most 4 frames. Length 3 is too big, and length 2 fits exactly at the
  boundary. Four frames give two full batches or a batch with a drop.
* **Control.** A buffer of 16 words, a header offset of 2 and an address
  of 2 words. The response families vary every field a handler reads,
  the status, and full or short transfers. The code does not bound the
  nesting of Sets inside reset handling; the cfgs cut the exploration
  at `MaxDepth` = 2 with the state constraint `DepthBound`, so a nested
  Set's reply can nest once more. For this reason no liveness property
  is checked for the control channel: whether attach ends depends on
  the device ending the nesting.

* **Qsort.** 8 elements over the values 1..4, with every `n` from 0 to
  8. The insertion-sort and ninther thresholds are scaled from 7 and 40
  to 3 and 6 (`Qsort_scaled.cfg`). That way 8 elements reach the
  ninther, med3, nested recursion on both sides and both `vecswap`
  boundaries. `qsort_s` is called with good arguments and with each of the five
  wrong ones, for every `n` including 0 and 1 (the checks stop at the
  first fault, so a call with several takes the path of one). Four values give runs of equal keys, which exercise the
  equal-key regions. `Qsort.cfg` keeps the real thresholds.
* **Uhid.** `UHID_BSIZE` = 8, and report sizes {0, 3, 4, 9}: 0 is a
  device without an input report, 9 must be truncated, and 4 is the
  mouse report length. `FRAME_NUM` = 2, so the
  fifo can fill and the control read's SETUP can decline to submit. The
  mouse report count saturates at 2. Both protocols and every failure
  in attach are explored. `HZ` = 2 and `MaxRun` = 1: the unload can
  begin before, during and after a probe's lookup, and its pause can
  run partly while the probe is inside. `MaxRun` = 2 = `HZ` in
  `Uhid_quirkslow.cfg` is the smallest case where the bet fails.
  `ugd_maxlen` ranges over {0, 1, 16}: 0, below every report size,
  and above the buffers. The descriptor size is 2 or 20, below and above
  the largest `ugd_maxlen`.
* **UhidWrite.** `UHID_BSIZE` = 4, output sizes {3, 6} (6 truncates to
  4), write lengths {1, 2, 3, 4} and 4 writes. These give writes shorter
  than, equal to and longer than a report, and a 1-byte write whose ID
  byte empties its buffer. The interrupt pipe can take
  a write in part, and four writes let an IMMED toggle move a half-sent
  write to the control pipe while later writes are queued behind it. For `uhidw_idonly` the size and the write length are
  1.

## Fairness

* **RX.** `RxCallback` is weakly fair: once entered, the callback runs
  to its end under the lock.
* **TX.** Completion or error of a pending TX transfer is weakly fair:
  the host controller ends every submitted transfer, at the latest by
  its timeout.
* **No fairness.** The stack, the administrator (init and stop) and the
  device's choice of data are not fair.
* **Uhid.** The control read is weakly fair, because its transfer has
  a one-second timeout in `uhid_config`. A blocked `read()` returning
  what is queued is weakly fair. The interrupt pipes have no timeout,
  and the reader, attach/detach and the device's data have no fairness.
  The runs set `CHECK_DEADLOCK FALSE` because after `uhid_detach` the
  softc is gone. The clock and the quirk module's unload have no
  fairness. The fairness conditions are written over `DriverStep(A)`,
  so that they leave the hook variables unchanged.
* **UhidWrite.** Only the control write is weakly fair, for the same
  timeout. A device may NAK the interrupt-out pipe for ever. That is why
  `UhidWellFormedSent` is stated for devices without that endpoint.
  `UhidWriteDrains` therefore takes the interrupt pipe's fairness as a
  hypothesis (`WF => ...`) instead of assuming it in `Spec`.
  Closing and reopening the fifo is always possible, so no state is a
  deadlock.
* **Qsort.** Checked for safety. Its runs set `CHECK_DEADLOCK FALSE`
  because `done` is final.
* **Control.** Checked for safety only. Every control transfer has a
  2000 ms timeout, but the code does not bound the nesting of Sets in
  reset handling, and the exploration is cut at `MaxDepth` (see
  Bounds), so a liveness property would only check the cut. The runs
  set `CHECK_DEADLOCK FALSE` because a detached device is final.

## Not modelled, and the plan

* `urndis_intr_read_callback` only re-arms itself.
* The alternate-setting scan in attach.
* `pagemap.h`, `e_lgammal.c` and `fpmath.h` have no state or control
  worth a model.

* The value of the report ID byte that GET/SET_REPORT read from
  `ugd_data`. It changes only the ID sent to the device. That it is
  read, whatever `ugd_maxlen` is, is modelled.
  `ugen_fill_deviceinfo` is outside `src/`; it is reduced to success or
  a failed copy.
* The usb_fifo, usbd_transfer and input-core code is outside `src/`.
  It is modelled from its documented behaviour (`Start`, `Take`,
  `Write`, `ReadStart`, `ReadDone`, marked spec_modelled).
* The locking inside `usbd_transfer_stop`, which uhid_detach calls
  without `sc_mtx`. Stop is one atomic step.

* `usb_quirk_ioctl_p`, `usb_temp_unload` and `usb_bus_unload` in
  `usb_dynamic.c`. They reset hooks that no code under `src/` calls, so
  nothing races with them.
* `unwind.c` (`backtrace` and its `tracer`). It is a dozen lines of
  sequential code. Its one edge, the `(size_t)~0` sentinel for the
  skipped first frame, is reached only with `len` = `SIZE_MAX`. spec.md
  puts unwind routines out of scope, and the project's checks go to
  the drivers and qsort.

Compositions left out, and why:
* **RX and TX together.** The two urndis data paths share only
  `IFF_DRV_RUNNING` and the start and stop of their transfers. Each
  module models `urndis_init` and `urndis_stop` for its own transfer,
  and their product has no state either path reads from the other.
* **The two uhid fifo directions together.** `Uhid` and `UhidWrite`
  share `sc_mtx` and the IMMED flag. The flag is an input to both, and
  every value is explored in each module. Their product exceeds the
  time a run may take.
