# TLA+ models of the Qualcomm USB kernel drivers

The repository holds the drivers for Qualcomm modems: three Linux kernel modules under `src/src/linux`
(`qcom_usbnet`, `qcom_usb`, `qcom_serial`) with a parser for INF files, and the Windows drivers under
`src/src/windows` (an NDIS miniport on a USB transport, a serial driver, a QDSS driver, a filter). This project models
the parts in which several threads, completion routines and timers share state. File names below without a path are
files of `qcom_usbnet` (`qmidevice.c`, `qcom_usbnet_main.c`), `qcom_usb` (`qcom_usb_main.c`), `windows/ndis` (`MP*.c`),
`windows/transport/usb` (`USB*.c`) and `windows/wdfserial` (`QC*.c`).

Contents: [the system](#the-system), [modules](#modules), [runs](#runs), [fairness](#fairness), [proofs](#proofs),
[findings](#findings), [what the models show beside the properties](#what-the-models-show-beside-the-properties),
[what is only checked, and what is not modelled](#what-is-only-checked-and-what-is-not-modelled), [plan](#plan).
How to run: `tlc -workers 2 -config <cfg> <MC module>` for a run, `tlapm <module>` for the proofs.

## The system

### Linux: `qcom_usbnet`, network device and QMI control channel

| Component | State | Operations | Interacts with |
|---|---|---|---|
| QMI client data store (`sClientMemList`) | per client ID: `mList` of responses, `mReadNotifyList` of waiters | `ReadSync`, `ReadSyncTimeout`, `ReadAsync`, `ReadCallback`, `AddToReadMemList`, `PopFromReadMemList`, `AddToNotifyList`, `NotifyAndPopNotifyList`, `ReleaseClientID` | callers' semaphores on their stacks; the read pipe; all under `mClientMemLock`, one critical section per list operation |
| QMI writes | per client: `mURBList`; per call: an URB, a semaphore on the stack | `WriteSync`, `WriteSyncCallback`, `WriteAsync`, `WriteAsyncCallback`, `AddToURBList`, `PopFromURBList` | USB core; `ReleaseClientID` kills what is on the list |
| QMI read pipe | `mpIntURB`, `mpReadURB` | `StartRead`, `KillRead`, `IntCallback`, `ResubmitIntURB` | an interrupt submits the read URB, its completion (`ReadCallback`) submits the interrupt URB |
| Indication thread | list of indications, semaphore | `GobiWaitForResponses`, `AddToProcessIndList` | `ReadCallback` fills the list; `DeregisterQMIDevice` stops the thread |
| Client IDs, registration | `mClientMemList`, `mQMICTLTransactionID`, `mbQMIValid`, `mbQMIReadyStatus` | `GetClientID`, `ReleaseClientID`, `RegisterQMIDevice`, `QMIReady`, `DeregisterQMIDevice` | every request is a `WriteSync` and a `ReadSyncTimeout` on client QMICTL |
| Character device | per file: `sQMIFilpStorage` | open, ioctl, read, write, poll, close (as `flush`) | the calls above; removal of the device |
| Asynchronous QMI I/O | `sIoData` of each request | `UserspaceReadIter`, `UserspaceWriteIter`, their workers | `ReadAsync`, `WriteAsync` |
| Uplink aggregation | `tx_curr_skb`, `tx_rem_skb`, timer, tasklet, limits | `aggr_tx_frame`, `cdc_ncm_tx_timer_cb`, `cdc_ncm_txpath_bh`, sysfs | usbnet's transmit path; limits negotiated by the indication thread |
| Probe, unbind, suspend, resume, device pool | lists of idle and active contexts | `GobiUSBNetProbe`, `GobiNetDriverUnbind`, `GobiSuspend`, `GobiResume`, `GobiAcquireDevice` | all of the above |
| QMI messages (`qmi.c`), QMAP headers (`qmap.c`) | none | fill and parse buffers | all of the above |

### Linux: `qcom_usb`, diagnostics, QDSS and DPL devices

| Component | State | Operations | Interacts with |
|---|---|---|---|
| Bulk-IN path | circular buffer (`mStartIdx`, `mEndIdx`, `mBufEmptyStatus`), `mBulkUrbList`, `mBulkUrbBuffList` | `BlkCallback`, `AddToReadMemList`, `AddToQueue`, `CopyFromReadMemList`, `PopFromQueueAndSubmit`, open, release, suspend, resume | host controller; readers, who copy with `mReadMemLock` dropped |
| Blocking reads | `mRxNotifyPool`, `mpReadNotifyList`, events (`qcom_event.c`) | `ReadSyncBlk`, `NotifyUserRequest`, `AddToNotifyList`, `RemoveNotification`, `ClearNotifyList`, flush | `BlkCallback` announces data; the chosen reader copies |
| Synchronous writes | `mTxBufferPool` | `PrepareTxUrbBuffer`, `UserspaceQTIDevWrite`, its completion | host controller |
| Asynchronous I/O | list of `qtidev_aio_data`, work items | `processIo`, `ioData_enqueue`, `ioData_dequeue`, `aio_cancel`, workers | `BlkCallback` |
| Probe, disconnect, device list, sysfs | `mRefCount`, lists of contexts | `QTIDevUSBProbe`, `QTIDevUSBDisconnect`, `QtiAcquireDevice` | all of the above |

`qcom_serial` is a thin layer over the kernel's usb-serial.

### Windows

| Component | State | Operations | Interacts with |
|---|---|---|---|
| NDIS miniport: OID requests and QMI (`MPOID.c`, `MPWork.c`, `MPUsb.c`, `MPQMI.c`, `MPMain.c`) | `OIDFreeList`, `OIDWaitingList`, `OidRequestList`, `CtrlWriteList`, `CtrlWritePendingList`, control reads, `PendingCtrlRequests`, busy counters | `MPOID_QueryInformation`, `MPOID_SetInformation`, `MPWork_WorkThread` (reads, writes, answers), `MPOID_MiniportCancelOidRequest`, `MPMAIN_MiniportReset` and its timer DPC | NDIS above, the transport below; the DPC takes the lists back while the thread works |
| NDIS miniport: data path, external clients, QMICTL, message layout (`MPTX.c`, `MPRX.c`, `MPIOC.c`, `MPQCTL.c`, `MPQMUX.c`) | transmit and receive lists, clients of `MPIOC.c` | | as above |
| USB transport: multi-transfer writes (`USBMWT.c`, `USBWT.c`) | `WriteDataQueue`, idle, pending and completion queues of buffers, `MWTSentIrpQueue`, `mwtState` | `USBMWT_WriteThread`, `USBWT_Enqueue`, flow control, stop, resume, purge, `USBWT_CancelWriteThread` | interrupt thread (flow control, completion of requests), dispatch thread (power, cleanup), the bus |
| USB transport: reads, interrupt pipe, power (`USBMRD.c`, `USBRD.c`, `USBINT.c`, `USBPWR.c`, `USBPNP.c`) | queues of the read thread, power state | | as above |
| Serial driver: reads (`QCRD.c`) | read URBs, ring buffer, `ReadQueue`, `TimeoutReadQueue`, timer | `QCRD_ReadRequestHandlerThread`, open, close, D0 entry and exit, purge ioctl | the framework's queues; the device |
| Serial driver: writes, registry, multiplexed ports (`QCWT.c`, `QCPNP.c`) | list of URBs | | as above |
| QDSS driver, filter driver | little of their own | | the framework |

### What is hard, and what makes a component correct

The components run in process context, in kernel threads, in completion handlers of transfers, in timers, DPCs and
tasklets. Critical sections are short and decisions are made between them, so that the order of the steps of two
actors is what matters; `hazards` in `PROJECT.json` lists the places with their lines; more of them, of parts without
a property, are listed [below](#what-the-models-show-beside-the-properties) and in the [plan](#plan).

* *Data store.* Each response goes to one reader, the oldest match first; a notifier only touches a semaphore that
  exists; no sleeper is out of reach of every notifier; calls return.
* *Writes.* A call takes its own URB back, frees it when it cannot complete any more, loses none, returns.
* *Read pipe and indications.* One transfer at a time; no indication waits for a thread that sleeps; indications are
  handled in the order of the modem.
* *Client IDs.* An ID stands for one client and one file; a request gets its own answer although the transaction IDs
  come round; a close is not blocked.
* *Bulk-IN path.* The application reads the bytes the device sent: none lost, doubled or swapped, though the indices
  move under a reader that copies without the lock, and URBs queue up behind a full buffer.
* *Blocking reads.* One reader at a time copies; a reader told of data finds it; no wake-up is lost; nobody starves.
* *Uplink aggregation.* A packet is held, handed over or counted as dropped, once; packets stay in order; a frame
  is not overfilled; held packets leave without help of later ones.
* *OID requests.* A request of NDIS is completed once, with its own answer, or aborted; the modem owes no more answers
  than the limit; the counters that a reset waits for are true; nothing pends for good.
* *Windows writes.* A write is in one place, whatever stops, flow-offs, purges and closes do; the device gets the
  writes in order; the thread does not sleep beside work; who waits for the thread gets its answer.
* *Serial reads.* Bytes and reads meet in order; a read that waits gets the data there is, has its time-out, and has
  URBs with the device to wait for.

## Modules

| Module | What it is |
|---|---|
| `QMIClientMem` | one client of the QMI data store |
| `QMIResponseStore` | abstract specification of the data store; `QMIClientMem!StoreSpec` is the refinement |
| `QMIClientMemProofs` | theorems about `QMIClientMem` |
| `QMIWriteSync` | synchronous writes and the URB lists of the clients |
| `QMIReadPipe` | interrupt and read URB, indication thread, the end of `DeregisterQMIDevice` |
| `QMIClientIDs` | client IDs, files and deregistration; extends `QMIReadPipe` and composes the two |
| `QMIClientIDsProofs` | theorems about `QMIClientIDs` and `QMIReadPipe` |
| `UsbBulkRead` | circular buffer, queue and URBs of the diagnostics device |
| `UsbByteStream` | abstract specification: a byte stream; `UsbBulkRead!StreamSpec` is the refinement |
| `UsbBulkReadProofs` | theorems about `UsbBulkRead` |
| `UsbReadNotify` | which reader of the diagnostics device copies, and when |
| `UsbReadNotifyProofs` | theorems about `UsbReadNotify` |
| `TxAggregation` | uplink aggregation, its timer and tasklet |
| `UsbnetTransmitProofs` | theorems about `QMIWriteSync` and `TxAggregation`, the two ways out of the network driver |
| `NdisOidRequests` | Windows: OID requests, QMI messages, control reads, reset |
| `NdisOidRequestsProofs` | theorems about `NdisOidRequests` |
| `UsbMultiWrite` | Windows: writes of the USB transport with several transfers in flight |
| `UsbMultiWriteProofs` | theorems about `UsbMultiWrite` |
| `WdfSerialRead` | Windows: reads of the serial driver |
| `WdfSerialReadProofs` | theorems about `WdfSerialRead` |
| `MC...` | constants for the runs, one module per component (`MCUsbnetTransmit` has two, the writes and the packets) |

Conventions. Variables and actions have the names of the source. An action is one critical section, or the code
between two critical sections; where a reader, writer or thread is in its function is a `pc`. Definitions marked
*variant* are not part of a specification: each is a plausible mistake at one definition, and shows which property
would catch it (`mutants` in `PROJECT.json`). `map` gives the source lines of every definition. History variables
(`calm`, `health`, `overtaken`, ...) guard no action of the code; they say up to where a property is claimed.

**QMIClientMem.** `ReadSync` and `ReadSyncTimeout` are one set of actions: pop (`PopFromReadMemList`, `PopNothing`),
register (`AddToNotifyList`), sleep (`Down`, `Interrupted`), look again (`Recheck`, `RemoveOwnEntry`). `ReadCallback`,
`AddToReadMemList`, `CallbackNotify`, `CallbackUp` are the completion of the read URB: `NotifyAndPopNotifyList`
unlinks an entry in one step and runs `up()` on its semaphore in another, as the code does after it has dropped the
lock. `ReleaseClientID` notifies all waiters in the same two steps, empties the lists and frees the client. A
response is a number and a transaction ID; ID 0 is a wildcard for a request and for a notification, not for what a
pop of another ID may take. A sleep that is cut short (`Interrupts`) is a signal in `ReadSync`, a timeout in
`ReadSyncTimeout`. Left out: `ReadAsync` and its callbacks, several clients and broadcasts, memory allocation.

**QMIWriteSync.** `WriteSync` from the allocation of its URB to its return: a message that cannot be filled, a setup
packet that cannot be allocated (which loses the URB), a submission that fails, the timeout, the check of the device,
the pop of the head of the list and the branch for an URB that is not one's own. `ClientOf` gives each writer its
client: requests for client IDs all write for QMICTL, and several threads may write to one file. The loop of
`ReleaseClientID` is `ReleasePop`, `ReleaseKill` and `ReleaseFree`, with the steps of calls in between; a call may
submit an URB that a release has killed, or freed. `freed` counts the calls of `usb_free_urb`, and nothing in the model
depends on it; `owner` is whose URB an URB is. `Private(c)`: client `c` has one writer and is not being released.

**QMIReadPipe** starts when `RegisterQMIDevice` has returned and the indication thread runs: the QMICTL client and the
driver's own WDS client exist. `IntCallback...`, `ReadCallback`, `ReadCallbackError`, `StoreAndResubmit` are the two
completions with their error paths, `AddToProcessIndList` and `UpIndication` what the callback does with an
indication, `TestShouldStop` to `HandleIndication` the loop of the thread, `DeregisterTail` what `DeregisterQMIDevice`
does after the clients are released. Left out: broadcasts, MUX clients, `StartRead`, suspend and resume.

**QMIClientIDs.** `GetClientID` asks the modem, waits, tests that the ID is new, adds the client and, for a file, sets
`mClientID`: each is a critical section of its own. `ReleaseRequest` tells the modem, `FindInWalk`, `DrainClient`,
`DeleteClientMem` and `WalkOn` are the loop over `mClientMemList` with the lock dropped and taken between its rounds.
`DeregisterQMIDevice` and `ReleaseNext` walk the same list. `ReadSyncTimeout` on QMICTL is what `QMIResponseStore`
promises: the oldest stored answer with the transaction ID, or a failure, and answers that came late stay stored. The
transaction ID is a counter, `TxMod` the number of values it has on the wire. `Limits` are families of bounds, one of
which a behaviour keeps to, so that long sequences of requests need not be combined with every fault of the pipe.

**UsbBulkRead.** The bytes the device sends while it is open are numbered from each close on, so that order and loss
are visible. `BlkCallback` stores a transfer and submits the URB again, or puts it on `mBulkUrbBuffList`. `CopyFromReadMemList` chooses among the four
ways to copy in the source (`short`, `all`, `flat`, `leg1` then `leg2` or `leg3`); each copy runs with the lock
dropped, and what follows it (`FirstLeg`, `LastLeg`, `Fault`) uses values read before. `PopFromQueueAndSubmit` is one
round of its loop, under the lock. `SubmitAllReadUrb`, of an open and of a resume, goes from URB to URB: `SubmitRead`
submits one, `MarkSubmitted` marks it later, when it may have completed; a refusal (`RefuseRead`) ends it, and with it
the open, whose URBs stay in flight. The URBs of an open that failed complete without an application and end as
`failed` (what those that completed before the refusal stored stays in the ring). Release and suspend kill the URBs in one step.
`Consumers` are the threads that can be in `CopyFromReadMemList` at a time; the run uses one, and that it is one is what
`SingleCopier` of `UsbReadNotify` says, as long as no sleep was cut short and no flush came in between. `calm` ends
when `SubmitAllReadUrb` submits an URB whose data still waits in the queue, as a resume does, or when a resume is
refused an URB; suspends and resumes before that are part of the calm. Asynchronous reads, the disconnect, two threads
that open the device at a time, and the power reference an open that fails keeps are left out.

**UsbReadNotify.** The pool of slots, the list, `mInProcess` and the events of each slot. Data is a number of bytes.
`BeginCopy` and `EndCopy` stand for `CopyFromReadMemList`; between them the lock is free. `WaitExpires` is a timeout
or a signal. The flush is what any `close` of a descriptor of the device does. `calm` records that none of these has
happened.

**TxAggregation.** `Aggregate` is one call of `aggr_tx_frame`, under `ctx->mtx`: `Todo` is the swap of the new packet
with the remainder, `Put` the loop (each round, `PutNext`, puts the next packet if it `Fits`, and a call meets two
packets at most, the remainder and the new one), `Kept` and `CountDrops` what happens to packets that are not put, `Hold` and
`Send` the two ends. `StartXmit(d)` is `tx_fixup` under the transmit lock of device `d`, which is held until
usbnet has queued the frame (`Enqueue`). The timer chain is `TimerCb` (timer), `TxpathBh` (tasklet, which counts down
or decides to flush) and `Flush` (the NULL packet). `Negotiate` is the start thread that writes the limits of the
modem, one after the other and without the lock. `calm` records that every packet fits a frame and every allocation
has succeeded. The specification is `TxSpec`, with fairness `TxFairSpec`.

**NdisOidRequests.** `TakeOid`, `SubmitOid`, `SubmitFails` and `SubmitReturns` are `MPOID_QueryInformation` and its twin for sets: an
OID structure is taken and a message composed, with the client ID of the moment, in one step, queued in another. A
message is a request, a step (the handler of an answer may ask for more, `MPQMUX_ComposeQMUXReq`) and a service. The
work thread is a round of control reads (`MPWork_PostControlReads`, `MP_USBPostControlRead`), writes
(`MPWork_PostWriteRequests`, `MP_USBSendControlRequest`, `WriteDone`, `WritesEnd`) and answers
(`MPWork_ResolveRequests` to `ReadIsFree`), each as many steps as it takes locks. `oid[o].ref` is the address of the
NDIS request, which a later request may have again. The reset is `MPMAIN_MiniportReset` and its DPC, with both of its
ends: the queues become empty, or `RESET_TIMEOUT` rounds have passed (`TimeoutReads`, `TimeoutWrites`,
`TimeoutOids`). `Purge` and `CancelRead` are what the transport does with the control reads of a reset, `Answer` is
the modem. `health` is "lossy" once an allocation failed, an answer found no pending read, or the DPC freed an OID
the work thread had in hand; it is "over", and the model ends, when an entry is unlinked that is in no list, or when a
reset has timed out, which leaves the counters wrong. Left out: the data queues, the transactions of QMICTL,
indications, OIDs that wait for another OID, the `SEND_CONTROL` IRPs of a purge, the disconnect, clients of `MPIOC.c`, and the test
of `IsQmiWorking` before the writes (`MPWork.c:572`): the flag is set before there is a client ID, messages come to
`CtrlWriteList` once there are client IDs, and `MPMAIN_MoveQMIRequests` wakes the thread then.

**UsbMultiWrite.** `StartWrite` and `Enqueue` are `USBWT_Write` and `USBWT_Enqueue`; the `Thread` is
`USBMWT_WriteThread`, with its states in `thread.state` and one action per event and state; `BusComplete` is the
completion routine, `EmptyCompletionQueue` the interrupt thread's. `Standby` to `WakeupResume` are the dispatch
thread, `FlowOff`, `FlowOffTimeout` and `FlowOn` the interrupt thread, `CleanupAbort` and `CleanupPurge` the cleanup
IRP of a miniport's reset, `Close` and `CloseDone` the close. Writes are numbered as they are accepted. `overtaken`,
`stale` and `resent` are histories: a drain that was started during another one, a flow-off that changed again before
the thread had answered, a flow-off that met a failed transfer. Left out: cancel routines (the miniport never cancels a
write), the ten seconds of a flow-off unless the thread has ended, partial transfers, the burst timer, the creation of
the thread (the first part of `USBWT_Enqueue`), and `USBWT_WriteThread`, the older thread with one transfer at a time.

**WdfSerialRead.** The thread `QCRD_ReadRequestHandlerThread` with one action per event (`FileCreate` to `Timeout`),
its loop over completed URBs (`Completion`, `Collect`, `Collected`), the handling of an arrived read (`Arrive...`,
`Forward`), the drains (`DrainWaiting`, `DrainQueue`, `Drained`) and the submission of URBs. `SendReadUrbs` (create,
power-up, purge) sends any number of the free URBs; one that is refused goes back to the free list, and no event is
set. `Resend` tries a refused URB again, until `NumOfRetriesOnError` failures in a row make it set the device failed
(`thread.failed`); its waits between the tries are left out, and so is the difference between a refusal and a reset
that fails. `Abort...` and
`Clear` are the purge ioctl, `D0Exit`, `D0Entry` and `QueueStarted` the power callbacks, `TimerExpires` and
`ReadTimeoutDpc` the timer. The thread answers a close in time: `QCPNP_EvtFileClose` gives up after one second and
goes on, which it may do only while the thread sleeps between its tries to send (see
[below](#what-the-models-show-beside-the-properties)). Assumed of the framework: the ready callback comes when `ReadQueue` stops being empty or is
started again while it is not; `WdfIoQueueStopAndPurgeSynchronously` waits for the reads the driver holds; a port is
opened by one file at a time. `kind` is the class of time-outs an application has set, chosen in `Init`. Left out:
removal, the scan for the wait mask, multiplexed ports, the limit of 2000 failed completions.

Comments of the source and the code. The headers of `AddToNotifyList`, `PopFromReadMemList` and
`NotifyAndPopNotifyList` say that the caller must hold `mClientMemLock`; the functions take the lock themselves, and
the model follows the code. The comment at `MPMain.c:1111` says that the worker is kicked when a reset has found the
queues empty; the branch for NDIS 6 below it does not do so, and neither does the model.

## Runs

Every bound is a constant of a configuration; deadlock is not checked because each system may come to rest: bounded
inputs run out, a device may have nothing to do, a closed one stops.

| Run | Configuration | What it shows |
|---|---|---|
| `client_mem` | 2 readers, requests for any or for ID 1, 2 responses of ID 1 or 2, sleeps may be cut short, fair | `NoOrphanWaiter`, `ReadSyncReturns`, and that the lists implement `QMIResponseStore` (`StoreSpec`) |
| `client_mem_dangling` | the same with IDs 0, 1, 2 | finding 1 |
| `usbnet_transmit`, writes | 3 writers, 2 of them on one client, 2 URBs, failures, timeouts, releases, fair | `PopsOwnURB`, `SemaphoreInScope`, `NoURBLost`, `FreedAtRest`, `WriteSyncReturns` |
| `usbnet_transmit`, packets | 2 network devices, 3 packets of lengths 2 and 3, frames of 3, then 2 or 6, fair | `OrderKept`, `EveryPacketOnce`, `FrameFits`, `HeldHasTimer`, `PacketLeaves` |
| `write_release` | the writers of `usbnet_transmit`, 1 URB, no timeouts | finding 2 |
| `bulk_stream` | 3 URBs, buffer of 4, transfers of 1 or 2, 7 bytes, requests of 1, 2, 5, suspends | `StreamIntact`, `ReaderWindow`, `URBNotLost`, `FreeSpaceAgrees`, and that the path implements `UsbByteStream` (`StreamSpec`) |
| `read_notify` | 3 readers, 3 slots, 2 bytes, timeouts and flushes, fair | `SingleCopier`, `FillHasData`, `HeadIsTold`, `ReaderServed` |
| `qmi_device` | 2 files, 3 client IDs, 3 transaction IDs, up to 4 requests or 2 indications and faults | `OwnAnswer`, `IDsDistinct`, `OneTransfer`, `IndicationsCounted`, `HandledInOrder` |
| `qmi_close` | the same | finding 3 |
| `ndis_requests` | 2 OIDs, 1 control read, 1 service with a limit of 1, 2 requests or own messages, 1 reset or failed allocation, fair | `OwnAnswer`, `LimitKept`, `CountsAgree`, `RequestEnds` |
| `win_write` | 2 buffers, 2 writes, 1 retry, 2 of standby, flow-off, purge and removal, beside a close | `WriteInOnePlace`, `WriterAwake`, `DeliveredInOrder`, `RequestsRemembered`, `DrainGoesOn` |
| `serial_read` | 2 URBs of 2 bytes, ring of 2, 3 bytes, 2 reads, every class of time-outs, 2 of close, power-down and purge | `ServedInOrder`, `WaiterGetsData`, `WaitingReadTimed`, `WaiterFed` |
| `serial_queued` | the same with 1 close, power-down or purge | finding 4 |

`usbnet_transmit` is two questions in one run: a behaviour of `MCUsbnetTransmit` moves the writes or the packets and
leaves the other part as it started, since neither reads what the other writes.

Why the bounds are enough.

* *Data store.* Races need a notifier, a sleeper and a thread that takes the sleeper's response: two readers. With two
  responses a reader can be woken twice for what the other one takes, and responses can be stored behind one another.
  A request for ID 1 and one for any, with responses 1 or 2, give a match, a mismatch and a wildcard. The theorems hold
  for any number of responses. `ReadSyncReturns` is stated for one reader, since readers may be permuted.
* *Writes.* Two writers of one client and one of another: calls that find each other's URB beside one that must not.
  Two URBs are two calls at a time or one after the other, so that a call can start on a list that another call or a
  release has left something on. The theorems hold for any number.
* *Bulk-IN path.* Four bytes with transfers of two wrap the buffer within seven bytes, fill it exactly, leave
  `mEndIdx` at `mBufflen`, and let all three URBs queue behind it. With three URBs an open can be refused one while
  another has completed and a third has not. A request of 5 is larger than the buffer, one of 1
  smaller than a transfer. The theorems hold for any sizes.
* *Blocking reads.* A reader that copies, one that is next, one that comes in behind: three. With as many slots as
  readers a slot is reused while its last reader still copies (after a flush). `ReaderServed` is stated for one of
  them, since readers may be permuted.
* *Aggregation.* With the probed limit of 3, packets of 2 and 3 cannot share a frame, so that every second packet is a
  remainder; with 6 two share one; with 2 a packet of 3 never fits. `CDC_NCM_TIMER_PENDING_CNT` and
  `CDC_NCM_RESTART_TIMER_DATAGRAM_CNT` are 2, two packets per frame are the datagram limit.
* *Client IDs.* Two files and the deregistration are three walkers of one list; three values of a transaction ID and
  four requests let the IDs come round once, past the 0 that is skipped. Three client IDs, one of them the driver's
  own, leave one for each file and let the modem run out. The theorems about the pipe and the indications hold for any
  bounds.
* *OID requests.* With one control read and a limit of one, every second message meets the limit and every second
  answer has to wait for a read; two requests are enough for a late answer to meet the address of the request that
  came after; one fault is a reset or a failed allocation at any step of the thread. The clean-up of a reset that timed out is one
  step, since the model ends with it.
* *Windows writes.* Two buffers have two transfers in flight; the second write needs a zero-length packet, which waits
  for a buffer. Two requests make one drain meet another and a flow-off meet a purge.
* *Serial reads.* A URB as large as the ring makes the second one wait in the completion list; a read of one byte and
  one of two leave and need a remainder.

## Fairness

* `QMIClientMem`: a thread in a call is scheduled again, and a timeout that is set expires (weak fairness of
  `Continue(r) \/ Interrupted(r)`). No fairness for the start of calls, for callbacks and releases, or for the device,
  which may never answer.
* `QMIWriteSync`: a call that can go on does, and `down_timeout` expires. No fairness for completions.
* `UsbReadNotify`: a reader that was woken runs. `ReaderServed` assumes in its statement that data keeps coming;
  there is no fairness for the device, for timeouts or for new reads.
* `TxAggregation`: the kernel runs timers and tasklets, and a transmission that has begun ends. No fairness for the
  network stack or the modem.
* `NdisOidRequests`: the scheduler runs the work thread, the NDIS thread that has taken an OID, and the reset's DPC
  (a timer that is set again expires); the transport completes and cancels reads; a modem answers every message while
  a control read is with it (`Usb`). The last one is the modem's part, not the driver's: `RequestEnds` says that
  nothing in the driver keeps an answered request. No fairness for new requests, cancellations, resets or the start of
  QMI.
* The other specifications have safety properties only. What would be liveness in `UsbMultiWrite` and `WdfSerialRead`
  is said of states instead: a thread that waits with nothing signalled has nothing to do (`WriterAwake`,
  `WaiterGetsData`, `WaiterFed`), and every request is answered, or something is still on the way that answers it
  (`RequestsRemembered`, `DrainGoesOn`, `WaitingReadTimed`).

## Proofs

All proofs are checked by TLAPS; assumptions are the named assumptions on the constants in each module.

**QMIClientMemProofs** (any set of readers, any IDs, any number of responses)

* `TypeCorrect`: `Spec => []TypeOK`.
* `NoOrphan`: `Spec => []NoOrphanWaiter`, with or without sleeps that are cut short. `TypeOK /\ NoOrphanWaiter` is
  inductive: an entry leaves the list either with a notifier that still has its function to run, or by its own
  thread, which is then awake.
* `NoDangling`: `Interrupts = FALSE => (Spec => []NoDanglingUp)`. `NoDanglingUp` alone is not inductive: that a
  notifier finds its thread asleep needs that nobody else has an entry of the same thread. `OneEntryPerWaiter` says
  so, and is the inductive strengthening. The premise is the exact border of finding 1.
* `StoreImplemented`: `Spec => StoreSpec`, the refinement of `QMIResponseStore`. A pop takes the first match of the
  list, the abstract store gives out the oldest; `StoreOrder` makes the two the same: the stored responses ascend,
  none is newer than the last one that arrived, and what the callback holds is newer than all of them.

**UsbnetTransmitProofs, `QMIWriteSync`** (any writers, clients and URBs, shared or not, with and without releases and
time-outs)

* `WriteInvariant`: `Spec => []WriteInv`, from which the four theorems below follow. Its parts: `Types`; `Calls` (a call
  has one URB, of its client, and nobody else's call has it); `Completions` (a semaphore that was upped belongs to an
  URB that has completed, so that a call which got it may free without a kill); `Places` (the URB of a call is on the
  list of its client once, or with the release that took it off, or with the call, and has not been freed as long as
  it is listed or with the call); `OwnList` and `OwnersLive` (of a private client the list holds the URB of its
  writer's call and nothing else, and its URBs belong to calls).
* `FreesAtRest`: `FreedAtRest`, whoever shares a list with whom and whatever is released meanwhile: what a call frees is
  neither in flight nor freed before. What it does not say of releases is finding 2.
* `PopsOwn`: `PopsOwnURB`; `CallbackInScope`: `SemaphoreInScope`; `URBsOwned`: `NoURBLost`. They are about the URBs of
  private clients, beside clients that are shared or released: one writer is not an assumption about the system.
  For a client with two writers they are false, and [below](#what-the-models-show-beside-the-properties) is what
  happens there; the code has nothing that keeps two threads from writing for one client.

**UsbnetTransmitProofs, `TxAggregation`** (any devices, lengths, limits of the probe and of the modem, constants of the
timer; from `AggrAssumption` and `FrameAssumption`)

* `TxInvariant`: `TxSpec => []TxInv`, where `TxInv` is `FramesInv /\ PacketsInv /\ RoomForHeld /\ HeldHasTimer`. Each of
  the four theorems below needs a part of it. What a call of `aggr_tx_frame` does is stated once, without the code of
  the loop: `RoundDone` and `LoopDone` say that the loop moves packets from the front of the list to the end of the
  frame and keeps its geometry, `KeptParts` that remainder and drops are what is left, `AggregateEffect` puts them
  together.
* `FramesAlwaysFit`: `FrameFits` is inductive with `TxTypes`. The frame carries its own size, so that a change of
  `tx_max` while it is being filled does not matter: the loop compares with `tx_curr_size`.
* `PacketsAlwaysOnce`: `EveryPacketOnce`, from `Apart` and `AllNumbered`. Frames of two devices are in no order, so their
  packets are only known to be different; what is held is newer than everything handed over, by `HeldIsNewest`,
  because one lock covers the whole call.
* `OrderAlwaysKept`: `OrderKept`, from `HeldIsNewest` and `QueueInOrder`: while one device transmits, its transmit lock
  is held until usbnet has queued the frame. That no two devices do is its premise, not an assumption of the invariant.
* `HeldAlwaysHasTimer`: `HeldHasTimer`. A call with a packet starts the timer, or it sends the frame and leaves the timer
  as it is; then it may keep a packet only if something was held before, which had its timer. The flush has used up
  its timer, so it must keep nothing. Both need `RoomForHeld`: a packet that fits every limit has room in an empty
  frame, and no remainder waits behind a frame with packets in it (`CalmLoop`, `AggregateRoom`, `TimerStep`).

**QMIClientIDsProofs** (any files, client IDs, transaction IDs, bounds and families of limits)

* `TypeCorrect`: `TypeOK`, from the invariant `Types`, which adds the types of the records of calls.
* `OneTransferTheorem`: `OneTransfer` is inductive as it stands: `StepCases` shows that whatever files, calls and the
  deregistration do leaves the two URBs alone, or kills them.
* `IndicationsCountedTheorem`: `IndicationsCounted`, with `OneTransfer`: a second callback would replace the one that
  still has its `up()` to do.
* `HandledInOrderTheorem`: `HandledInOrder` from `InOrder`, which orders the whole way of an indication: what is
  handled is older than what the thread holds, that than the list, that than what the callback holds, that than what
  the modem has not delivered, and each list ascends. A lemma per step that moves an indication on.
* `OwnAnswerTheorem`: `OwnAnswer`, from `OwnCalls` (the numbers of the requests under way) and `SameTx` (equal
  transaction IDs are a multiple of `TxMod` requests apart).
* `IDsDistinctTheorem`: `IDsDistinct`. A client ID is followed on its way from the modem to the file and back:
  `Owners` gives each ID that the modem counts as given out at most one place (an answer on its way, the callback, the
  stored answers, a call, an open file), `Entered` says that what a call is about to add is not on the list, and
  `Walk` that QMICTL is the first entry of the list and the first client `DeregisterQMIDevice` releases, after which
  no release reaches the modem. `EndAssumption`: the head of the list is no client ID.

**UsbBulkReadProofs** (any buffer, any number of URBs, any transfer and request sizes; one consumer, which is the
premise `OneReader`; the properties are claimed until a queued URB is submitted or a resume is refused one, `calm`)

* `StreamOrder`: `StreamIntact`; `WindowStays`: `ReaderWindow`; `NodeForEveryURB`: `QueueHasNode`;
  `FreeSpaceIsWhatFits`: `FreeSpaceAgrees`. All follow from one invariant, `IInv`, whose invariance is the theorem
  `Invariance`. `StreamIntact` needs the position of a copying reader (`Window`), which needs to know which index may
  move (`Front`); both need that the empty flag and the indices agree (`RingInv`) and that a queued URB is not in
  flight (`QueueInv`). `RestInv`: nobody reads while URBs are being submitted, so that an open that fails has given
  nothing to a reader, and what came in it is the beginning of the next stream. The lemmas `AddAppends`,
  `CopiedIsFront`, `AdvanceTakesFront` state what the index arithmetic does to the contents of the buffer; the rest is
  one lemma per action.
* `URBsKept`: `URBNotLost`, by induction over every open, close, suspend and resume: an URB that waits to be submitted
  is in the queue, and none in the queue is in flight. The comment of `URBNotLost` names the three ways in which the
  code takes an URB out of use.
* `ImplementsStream`: `Spec => StreamSpec`, the refinement of `UsbByteStream`: a copy is one abstract read, everything
  else but a transfer, an open and a close is a stutter. That a read gets no byte the device has not sent is
  `QueueIntact`, which bounds what is queued by what was sent.

**UsbReadNotifyProofs** (any number of readers, slots and bytes)

* `TypeCorrect`: `TypeOK`, whatever is cut short or flushed.
* `OneCopies`: `SingleCopier`; `ToldFindsData`: `FillHasData`. Both hold until the first sleep cut short or flush
  (`calm`), and follow from `IInv`: while it is calm, only the slot at the head of the list has an event or
  `mInProcess` set, only while data is stored, and only the reader of that slot is awake. `SingleCopier` alone is not
  inductive: it says nothing of a reader that was told and has not begun to copy. `OneCopies` is the reason why
  `UsbBulkReadProofs` may assume one consumer.
* `WakeUpKept`: `HeadIsTold`, which is claimed always, with sleeps cut short and flushes. It follows from `ToldInv`:
  no slot is listed twice, each one listed belongs to a reader in its call, and if it is marked (`mInProcess`), to one
  that is awake or has an event (`Known`); while data is stored, the slot at the head is marked (`HeadMarked`).

**NdisOidRequestsProofs** (any services, OIDs, control reads, requests, resets and failed allocations)

* `InvariantHolds`: `Invariant`, the conjunction of `Types`, `Owed` (the outstanding answers of a service are at most
  `PendingCtrlRequests` and those a reset forgot), `Orderly` (a message is in one place and of a request that was
  started, an OID element in one list or with one owner; the counters of reads and writes), `OidsCounted` and `Served`
  (an element in use serves the request it was taken for). The last two end with the first loss of a message or OID.
* `LimitKeptAlways`: `LimitKept`; `CountsAgreeAlways`: `CountsAgree`; `OwnAnswerAlways`: `OwnAnswer`. The attempt to
  prove `OwnAnswer` showed that its exception must name requests that *ended* without their answer, and not only those
  that were aborted: a request that failed behind a sent message leaves an answer on its way, too.

**UsbMultiWriteProofs** (any number of buffers, writes, retries and requests)

* `InvariantHolds`: `Invariant`. `BufferInOnePlace` and `TransfersRecorded` follow a buffer from `idle` to the bus and
  back; `CloseKnown`, `StopsKnown`, `FlowKnown` and `AckOwed` say, of each thing that can keep the thread from
  sending, who knows of it and will let it go on; `LooksAgain` is what the thread still has to look at before it sleeps.
* `WriterAwakeAlways`: `WriterAwake`; `RequestsRememberedAlways`: `RequestsRemembered`; `DrainGoesOnAlways`:
  `DrainGoesOn`. `BufferAssumption`, at least one buffer, is what `USBMWT_InitializeMultiWriteElements` ensures.
* `WriteInOnePlaceAlways`: `WriteInOnePlace`. `WriteInvariant` says it with sets instead of counts: what waits, what
  the transfers carry, what records keep after their transfer came back, what is on its way to the caller and what was
  answered are disjoint and make up `1..accepted`, and nothing is in a place twice (`Apart`, `CarriedOnce`,
  `KeptOnce`). `Records`: a transfer that is not back has one record, of the write it carries.
* `DeliveredInOrderAlways`: `DeliveredInOrder`, from `OrderInvariant`. `Ascending`: the records, then the queue, are in
  the order of acceptance, always; `FlowOffQuiet`: a flow-off leaves nothing with the bus, and only in one does a
  record outlive its transfer; `Served`: what was delivered is older than what is with the bus, waits, or will be sent
  back. The model collects the writes of a list by their positions (`Irps`), so that no recursive definition is in the
  way.

**WdfSerialReadProofs** (any number and size of URBs, any ring, reads, bytes and classes of time-outs)

* `InvariantHolds`: `Invariant`. `URBsCounted` and `Stream` (what the applications got, the ring and the completed URBs
  hold ascends, and is all that was sent and not dropped) concern the data; `OneWaits`, `ReadTimed` and `Reads` the
  reads; `PortKnown` and `PortOpened` what the thread knows of the port; `Noticed`, `RingSeen` and `FreeSent` say that
  what lies in a completed URB, in the ring or on the free list while a read waits has an event set that makes the
  thread look. For `FreeSent` each place that may leave a refused URB on the free list is a case of its own: at a
  create no read waits yet, and the step that takes one goes on to `Resend`; the power-up sets the arrival itself; a
  purge beside a read that waits finds URBs to send only if some had completed, and their completion event is still
  set; `Resend` goes on until all are sent or the device is set failed.
* `ServedInOrderAlways`: `ServedInOrder`; `WaiterGetsDataAlways`: `WaiterGetsData`; `WaitingReadTimedAlways`:
  `WaitingReadTimed`; `WaiterFedAlways`: `WaiterFed`.

## Findings

Each is a run that TLC must find violated; `findings` in `PROJECT.json` quotes the line of the source it contradicts.

1. `client_mem_dangling` (`qmidevice.c:2198`): a notifier unlinks an entry, drops the lock, and then runs `up()`; a
   thread whose sleep ends in between finds its entry gone, returns, and its semaphore is gone with its stack frame.
2. `write_release` (`qmidevice.c:1834`): `ReleaseClientID` kills and frees an URB that a call has listed and not yet
   submitted; the kill does nothing, and the call submits the URB after it, or after the free.
3. `qmi_close` (`qmidevice.c:1858`): `ReleaseClientID` returns with `mClientMemLock` held when its client is not on
   the list any more, which is so for every file that `DeregisterQMIDevice` closes by hand; the second one waits.
4. `serial_queued` (`QCRD.c:607`): a read is looked at when it arrives and not again; behind a read that was timed out
   or answered at once it stays in `ReadQueue`, without its time-out, until data or another read comes.

## What the models show beside the properties

Behaviour of the code that the models contain and that no property of a passing run can exclude. The premises of the
properties (`calm`, `health`, `stale`, ...) are drawn along these lines.

* *Data store.* A response between the look for data and the registration wakes nobody (`qmidevice.c:1127`). A reader
  that registers while its client is being released sleeps on a client that is gone (1824). `ReadSyncTimeout` starts
  the whole `READ_TIMEOUT` again after each wake-up (1271): messages that are not for the call, or that another thread
  takes, keep it as much longer as there are such messages; `ReadSyncReturns` is about what comes after them.
* *Writes.* Two writers of one client, as on QMICTL: when their URBs complete in another order than they were listed,
  the one that returns first pops the other's URB, lists its own again and fails, although its message was sent
  ("This shouldn't happen", `qmidevice.c:1520`); the list keeps the URB of a call that is gone. An URB whose setup
  packet cannot be allocated is lost (1400-1405).
* *Read pipe and client IDs.* `kthread_stop` waits for a thread that sleeps, when `up()` was skipped because the thread
  was on its way to the semaphore (4251), and is called for a thread that has ended by itself. QMICTL is released first, and nothing tells the
  modem of the other clients (4091). After the first match `ReleaseClientID` walks on without the lock, over entries
  another thread may have freed (1819). A failed submission ends the pipe until the next resume (654, 725). The
  message copy leaks when the deregistration drops the list (4243).
* *Bulk-IN path.* A resume submits URBs whose data waits in the queue (`qcom_usb_main.c:3964`): the data is overwritten,
  and there may be no node for the URB (3102), so that `QueueHasNode` ends with `calm`. `SubmitAllReadUrb` marks an URB
  as submitted when it may already be queued (3236); a reader takes it off the queue and does not submit it. An open
  that fails (774) leaves URBs in flight that store data as long as the reference count is that of an open device; the
  next application reads these bytes (`StreamIntact` counts them to its stream). An URB that completes with an error
  is not submitted again before a close (2897). The first release of a DPL device stops its reads, and no open starts
  them (879).
* *Blocking reads.* A reader that times out and is told of data before it takes the lock leaves the event set in its
  slot (1366); the next reader in that slot copies beside another one.
* *Aggregation.* After a failed allocation the packet leaves only with the next one (`qcom_usbnet_main.c:1669`); a
  packet longer than `tx_max` never leaves (1696); frames of two devices of one modem reach the bus in either order
  (1922).
* *OID requests.* The assertions `nBusyWrite == 0` (`MPMain.c:1033`) and `nBusyOID == 0` (1077) fail when the DPC runs
  while the work thread or a caller holds an element. After a reset with answers outstanding the limit is exceeded for
  good by their number (1030; `LimitKept` counts them in `forgot`). A message above the limit goes to the end of the
  list and ends the round, so that messages are reordered and those of other services wait (`MPWork.c:612`). A
  message composed before the client IDs are known and queued after `MPMAIN_MoveQMIRequests` is never sent
  (`MPQMUX.c:3982`). A control read without an IRP stays on the pending list (`MPUsb.c:1047`). The late answer of a
  cancelled request completes the one that has its address (`MPOID.c:581`). An OID that a reset has cleaned drains
  `OidRequestList` without completing anything (`MPOID.c:579`), and a reset that times out completes nothing
  (`MPMain.c:1667`).
* *Windows writes.* A stop, purge or flow-off during a cancellation overwrites `mwtState`; `bCancelled` is then never
  set and `USBWT_CancelWriteThread` waits without a time-out (`USBMWT.c:816`, `USBWT.c:410`). A second flow-off may be
  answered by the late answer to the first. A write that failed before a flow-off is sent again behind later ones. A
  cleanup IRP whose purge meets another state stays, and later ones are cancelled.
* *Serial reads.* `KeCancelTimer` does not recall a queued DPC: the next read is timed out early (`QCRD.c:825`). With a
  read interval, data behind a full ring waits for a further read (1095). Time-outs of the class "return when any"
  with a constant of 0 have no timer, though the comment speaks of a smaller one. URBs that are refused when the port is
  opened stay on the free list, and nothing tries them again (1557) until a read arrives or a URB completes: the read of
  finding 4, whose arrival was handled before the create, then waits without any URB. A close that the thread
  answers later than one second (`QCPNP.c:1162`, outside the model) leaves its event set; the thread handles the create of
  the next open first, which comes before the close in the array of events, and then closes the open port.

## What is only checked, and what is not modelled

Checked by TLC only:

* liveness (`ReadSyncReturns`, `WriteSyncReturns`, `ReaderServed`, `PacketLeaves`, `RequestEnds`), which is out of the
  reach of TLAPS.

Every invariant of the passing runs and both refinements have a theorem, under the premises named above.
`PROJECT.json` names the hazards that no property covers, with the reason: mostly that the code does not keep what a
property would say, in which case the properties beside it say where they end.

Not modelled yet: see the plan. Not modelled at all: the contents of QMI messages (the modules abstract them to client
or service, transaction and number), which are the bulk of `MPQMUX.c` and its header, the largest files of the
repository, and of `qmi.c`; registry, parameters, tracing and the WWAN tables of the miniport; the INF parser
(sequential, no state); scripts, installers and build files; code for kernels before 2.6.35 and for configurations
that are not compiled. Allocations of a few bytes succeed, except where their failure decides what happens to data or
to a request.

## Plan

Done: the ten component modules above; two abstract specifications, with both refinements proved; a theorem for
every invariant of every passing run.

Components, in this order: writes of the diagnostics device (pool of buffers, timeout, disconnect) and its life cycle
(reference count, open, release, disconnect with readers); suspend and resume with the QMI read pipe; the multi-buffer
reads of the Windows transport; the write thread of the Windows serial driver; the clients of `MPIOC.c`; the transmit
path of the miniport; asynchronous I/O of both Linux drivers; the TLV search of `qmi.c` as an operator against a
reference definition.

### Further hazards of the parts in the plan

* Registration: the thread exits by itself and clears `pGobiWaitThread` while `DeregisterQMIDevice` tests it
  (`qmidevice.c:4695`); an early return with the thread running (4121); `QMIReady` sends the same request again and an
  earlier answer comes late (4473); indications before the thread has initialised its lock and semaphore.
* Character device: two threads in the ioctl get two IDs for one file (2505); a close unlocks a mutex it did not get
  (2710). `ReadCallback` walks the list for a broadcast without the lock (563).
* Power and pool: a resume that fails in `StartRead` after usbnet resumed (`qcom_usbnet_main.c:542`);
  `GobiAcquireDevice` between its two lists (155).
* Uplink path around the aggregation: `tx_fixup` before the modem is ready (1893); the timer started while unbind
  cancels it (1832).
* Asynchronous I/O: `WriteAsyncCallback` takes the head of the list for its own URB (`qmidevice.c:3107`); `WriteAsync`
  frees the setup packet in flight (3314); `processIo` unlocks twice (`qcom_usb_main.c:2296`); the worker's length
  when the indices are equal (1967); two threads in `CopyFromReadMemList` (1375).
* Diagnostics device: two writers in one buffer (`qcom_usb_main.c:1541`); a write that leaves with its URB in flight
  (1701); bytes sent between reading the count and killing the URB (1712); two threads that both find the device not
  open (712); the power reference an open that fails keeps (774); the pool of notify slots exhausted (1245); the buffer emptied under a reader (3903).
* Windows: an external client tests and increments `PendingCtrlRequests` under another lock than the work thread
  (`MPIOC.c:3500`); the serial write thread removes the head of its list on a failed send (`QCWT.c:162`).
