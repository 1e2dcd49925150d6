# Verification of packages_ex

`packages_ex` is an OpenWrt feed. Most of its lines are vendored drivers, boot
loaders and packaging. The program logic of its own is a handful of daemons,
scripts and plugins that keep a remote gateway reachable and serve its pages;
among the drivers, the one for the aic8800 USB adapter carries the concurrency
that decides whether the gateway's WLAN stays up. This directory holds TLA+
models of both, the TLC runs that check them on small instances, and the
theorems that TLAPS proves about them.

## 1. Inventory

| component | state it keeps | operations | talks to | hard parts |
|---|---|---|---|---|
| `wwan_watch` (network/utils/wwan-watch) | `cloud_last`, `wwan_ip_last_got`, `wwan_not_exits`, `wwan_reset_times` | main loop, `watch_wwan_status`, `check_wwan_status`, `watch_cloud_status`, `check_and_reset`, `reset_wwan_module`, `repower_wwan_module` | 3ginfo (popen), netifd (ubus, ifup, ifdown), GPIO lines, `/tmp/sysinfo/cloud_status`, procd | death inside a reset, stale time stamps, clock steps, an administrator who acts in the middle of a pass |
| `wwan.lua` | a cache of netifd's dump, flushed per call | `get_wwan_iface`, `get_wwan_status` | uci state of 3ginfo, ubus | a dump that fails; which interface an alias stands for |
| `cloud_watch` (network/utils/cloud-watch) | `cloud_last`, `ping_last`, `reset_times`, `gpio_export` | main loop, `sysinfo_module`, `watch_cloud_status`, `restart_wanpwrc` | sysinfo, status file, ping, GPIO or a service, `reboot`, procd | the ladder to a reboot, a recovery that comes late in a pass, death while the line is off |
| BACnet client plugin (bacnet/luci-app-bacnet-client) | files in `/tmp/bac`: lists, `.get` markers, `.last` stamps, `.tmp` files | rpcd calls, `_cron`, `devlist`, `objlistjson`, `eventlist`, `eventlistjson`, `get_collectd`, background workers | crond, LuCI pages, BACnet devices, the process table | overlapping runs, a barrier by counting processes, requests lost between marker and run, devices that fall silent |
| aic8800 command manager (`rwnx_cmds.c`, `rwnx_msg_tx.c`) | the array of command slots, the queue `cmds`, `queue_sz`, flags and completion of each command, one buffer and one URB | `rwnx_send_msg`, `cmd_mgr_queue`, `cmd_mgr_queue_force_defer`, `cmd_mgr_task_process`, `cmd_mgr_msgind`, `cmd_mgr_drain`, `rwnx_cmd_mgr_deinit`, `aicwf_set_cmd_tx` | cfg80211's callers, the device, the receive thread, the disconnect | pushes outside the lock, confirmations that name only a kind, time-outs that leave the queue as it is, fatal signals, a drain beside waiting tasks |
| aic8800 receive reorder buffer (`rwnx_rx.c`) | for each station and traffic identifier `enable`, `ind_sn`, the sorted list, a timer and a work; a pool of frames | `reord_process_unit`, `reord_flush_tid`, `reord_timeout_handler`, `reord_timeout_worker`, `reord_init_sta`, `reord_deinit_sta` | the receive thread, the network stack, the message thread | numbers that wrap, the timer against its deletion, memory freed beside its users |
| aic8800 transmit path (`aicwf_usb.c`, `rwnx_txq.c`) | lists of free and posted URBs, `tbusy`, the queue of frames, a completion that triggers the thread | `aicwf_frame_tx`, `aicwf_usb_bus_txdata`, `aicwf_usb_tx_process`, `aicwf_usb_tx_complete`, `aicwf_usb_suspend`, `aicwf_usb_resume` | the network stack, the USB core, power management | two flow controls on one queue, suspend and resume beside sender and thread |
| aic8800 receive path, cfg80211 glue, firmware loading | URBs of the receive side; tables | receive completion, handlers of indications, formatting of messages | the parts above | planned or without logic of its own |
| 3ginfo (network/3ginfo) | uci state: device, network; the PIN marker | query, detection, PIN entry | modem ports | caches that outlive a modem reset |
| `cloud_watch` of the BMR200 (kooiot/bmr200) | both ladders of the two daemons above | one loop | netifd, GPIO, network service | two remedies that share a power line |
| `auto_upgrader` (utils/auto-ugprader) | `check_last`, a partial download | check, download, verify, `sysupgrade` | opkg, wget | a background upgrade whose result nobody sees |
| `xr_usb_watch` (utils/xr-usb-watch) | none | detect ports, reset the hub | sysfs, GPIO | a port that never appears |
| phone USB tethering (network/utils/phone-usb-tether) | the `android_usb` interface | hotplug add and remove | netifd, uci | overlapping events |
| `rk_io` (utils/rk_io) | none | one access to registers | `/dev/mem` | arithmetic at the width of addresses |
| pages, `signalstrength.lua`, log rotation, factory test | none | rendering, printing | the calls above | - |
| other drivers, boot, libs, bacnet-stack, strongswan, modemdata, other packaging | - | - | - | vendored; left aside |

What makes them correct: a watchdog must act when connectivity is gone, must
not act when it is there, must climb its ladder of remedies one rung at a time
with the promised pauses, must leave the modem and the interface usable
whatever interrupts it, and must respect an administrator; the BACnet cron job
must publish complete lists, must serve every request it was asked for, and its
runs must end. A command of the driver must be confirmed by the answer to it
and to nobody else, in the order of the queue, and no answer may be written to
memory of a caller that has returned; a received frame must be delivered once
and in order and must not wait for ever behind a lost one; a frame to send must
not be forgotten and a stopped queue must be woken; no buffer may be lost.
`PROJECT.json` lists the hazards at their lines.

## 2. Modules

### ResetLadder

The abstract specification of a watchdog's remedies: `Rungs` soft remedies, then
a hard one. `sight`, the watchdog's view of connectivity, is part of its state: it
cannot be true unless the count is zero (`See`), so that no remedy before a sight
counts for the next hard one. Only a sight, the hard remedy and the death of the
process (`Die`) take the count back. Both daemons are shown to implement it
(`LadderSpec` in each). `sight` is mapped to what the code's passes see: in
WwanWatch the part of a pass after an address was found, in CloudWatch the part
after an online check that succeeded, which is a ping that was answered or, with
no host to ping, an online status. An online status whose ping fails is not a
sight, and the code keeps the count over it.

### WwanWatch

One pass of the Lua loop, cut where it calls out to something that may change or
fail meanwhile.

| module | code (`wwan_watch`) |
|---|---|
| `Query`, `QueryCrash`, `SlowAnswer` | `exec_json('3ginfo json')`, the test of the iccid, the log line that concatenates nil |
| `ReadIface` (`Disabled`) | `watch_wwan_status`: no interface, disabled, or a failed call |
| `ReadAddr` (`AddressSeen`, `MissingFor`), `AddrCrash` | `check_wwan_status` and `get_wwan_status` |
| `ReadCloud` (`OfflineAge`), `Ping` | `watch_cloud_status` |
| `CheckAndReset` (`Threshold`, `ResetsLeft`) | `check_and_reset`, both remedies |
| `IfDown`, `PowerOff`, `PowerOn`, `Settle`, `IfUp` | `reset_wwan_module`, `repower_wwan_module` |
| `Sleep`, `Nap`, `Respawn`, `Kill` | sleeps of the loop, procd |
| `LinkUp` ... `AdminUp`, `SimChange`, `CloudChange`, `ConfigChange`, `ClockStep` | netifd, the modem, the cloud agent, 3ginfo's cache, the clock |

The variables `cloudAge` and `ipAge` are the code's stamps seen from now
(`now - cloud_last`), so that time has no bound; an age saturates at `MaxAge`,
above all thresholds it is compared with. `lost`, `via` and `job` are the
argument, the caller and the remedy of `check_and_reset`; `downBy`, `cut`,
`raced` and `sinceAct` are history for the properties. The board is one with an
on/off, reset or supply line (without any line a reset is only a restart of the
interface and of `uqmi`, which has fewer states). LEDs, the log and the text of
`wwan_info` are left out.

### CloudWatch

The same for `cloud_watch`: `Query` is `sysinfo_module` with the export of the
GPIO line, `ReadStatus`, `OnlineCheck`, `Verdict` and `ModuleCheck` are the four
parts of `watch_cloud_status` in their order (`PingOk`, `PingFailed` the two ends
of a ping), `PowerOff` and `PowerOn` are
`restart_wanpwrc` and the bookkeeping after it. `DeviceF` chooses between the
GPIO line and the service. A reboot does not stop the loop at once: the pass
goes on until the action `Reboot` happens. `seen`, `pinged` and `unpaid` are
history: what the pass read, how its check ended, and the time that passed since
a pass last found both ages within the limit, less 120 seconds for each restart.

### BacCron

The `_cron` branch of the rpcd script, one action for each command that another
process can see. One crond does not start the job while its last run is still
there; a restarted crond does (installing the package restarts it, `Makefile:37`),
so `Crons` bounds how many runs overlap. Workers are the
background calls of `get_devlist` and `get_objlist`. The process table is not a
variable: `Pidof` counts the runs, the workers and the subshell of the command
substitution, which is what `pidof bacnetclient` prints for a run. Files are
modelled by their existence, or by the set of devices in them: the markers
`get` and `objGet`, the age `due` of the `.last` files, `devTmp`, `devlist`,
`objlist`. `RpcMark` and `RpcObj` are the calls of the pages, `Silence` and
`Answers` the devices. `Wanted` is the test of the marker after the interval has
set it. `request` is history: whether a page's request has been looked at by a
run (`read`), has come to nothing because `bacwi` failed, is open still, or is
answered; removing its marker alone does not answer it. The text of the lists, the mails and the samples for
collectd are left out.

### CommandFifo and CmdMgr

`CommandFifo` is what a command manager promises: commands are confirmed in the
order in which they were accepted, leave the queue only after that, and once
something has timed out nothing is accepted any more.

`CmdMgr` is the code. A slot stands for the entry of `cmd_array` and for the
task that called `rwnx_send_msg` with it; actions are the sections between two
points where another task can come in (a lock released, a wait begun, a call of
the USB core).

| module | code |
|---|---|
| `Send`, `Free`, `Failed` | `rwnx_cmd_malloc`, `rwnx_cmd_free`, `rwnx_send_msg` before and after the queue |
| `MayQueue`, `Full`, `Reject`, `Defers`, `Link`, `Wake` | `cmd_mgr_queue` up to the push, `cmd_mgr_queue_force_defer` |
| `Push`, `Transmit`, `Pushed`, `PushTimeout`, `UrbDone` | `aicwf_set_cmd_tx`, `aicwf_usb_bus_txmsg`, `aicwf_usb_send_msg_complete` |
| `Finish`, `Leave`, `Expire`, `GiveUp` | the wait of `cmd_mgr_queue` and both its ends |
| `Answer` (`Matches`, `Confirm`) | `cmd_mgr_msgind`, `cmd_complete` |
| `WorkStart` ... `WorkGiveUp` (`ToPush`) | `cmd_mgr_task_process` |
| `Unplug`, `Drain`, `Deinit` | `aicwf_usb_bus_stop`, `cmd_mgr_drain`, `rwnx_cmd_mgr_deinit` |

A command is its kind: a `query` has a buffer on its caller's stack, `set` has
none, `traffic` (`ME_TRAFFIC_IND_REQ`) and `remove` are always left to the
worker, `plain` messages are not confirmed. Confirmations name the kind only, as
`reqid` does. `urb`, `buf` and `device` hold requests with the mark `own`, which
says whether the slot still holds the command of that request: the ghost that
tells an own answer from a stranger's. `hist` and `harm` are history. A
`list_del` of an entry that is not linked is recorded as `doubleUnlink`; what it
does to memory is not modelled further.

### OrderedDelivery and RxReorder

`OrderedDelivery` is what a reorder buffer promises, in sets: a frame is taken in
only after all that was delivered and only once; what waits leaves from its low
end and is delivered, whether because the gap before it was filled (`Accept`) or
given up (`Skip`); only a buffer that is being closed discards what waits, and
only an empty or closing one starts anew.

`RxReorder` is the code, for one station and one traffic identifier. A frame is its absolute number; the code
sees it modulo `Modulus` (4096). Actors: the receive thread (`rx`), the timer
(`armed`, `firing`), its work (`queued`, `running`), the thread that takes the
station down (`dpc`). `Arrive`, `Lookup`, `Enabled` and `Unit` are
`reord_process_unit` with its two locks, `Pulled`, `Place`, `Advanced` and
`Ready` the helpers it calls (`reord_need_check`, `reord_rxframe_enqueue`,
`reord_rxframes_process`, `reord_rxframes_ind`); `FlushLookup` ... `FlushWork`
are `reord_flush_tid`, `DeinitStart` ... `DeinitFree` are `reord_deinit_sta`.
Use of memory after `DeinitFree` is recorded in `harm` and the model goes on
without it. `seen` is the history of what was delivered in sequence. `Comes` is
the peer: how far its frames jump ahead (`Spread`) or fall behind (`Delay`), and
how far it may get while a frame waits in the list (`Lag`). A frame that is
sorted in pulls the window along; only frames that are dropped for an empty pool
or do not go through the list let the peer run ahead of one that waits, and the
timer (`REORDER_UPDATE_TIME`) ends that. An empty list may be any number of
turns behind. The loop of `reord_rxframes_process` stops at the first frame
beyond `ind_sn`; `Advanced` looks at all of them, which for a sorted list is the
same.

### UsbTx

The way of a data frame from the network queue to the device. URBs are counted:
`free`, `post` (waiting for the thread), `air` (in the USB core). `Xmit` is
`rwnx_txq_queue_skb`; `Process` ... `Restart` are a pass of `rwnx_hwq_process`
under `tx_lock`, with `aicwf_frame_tx` (`FrameTx`, `FrameStop`) and
`aicwf_usb_bus_txdata` (`TxData`, `Post`, `Check`) in it; `Complete` and
`Settle` are `aicwf_usb_tx_complete`, before and under `tx_flow_lock`;
`ThreadWait` ... `ThreadSubmit` are `usb_bustx_thread`; `SuspendStop` ...
`CoreSuspend` and `Attach` ... `ResumeWake` are suspend and resume, in the order
of the code. The bus has two states: the sender reads `usb_dev->state` (`usb`),
the thread that was triggered reads `bus_if->state` (`bus`), and
`aicwf_usb_state_change` writes the one before the other (`SuspendUsb`,
`SuspendBus`; `ResumeUsb`, `ResumeBus`). The stack is kept out by a stopped queue
and by nothing else: `netif_device_attach` wakes it (`Attach`) before the bus is
started, so frames come in while the bus is down and while
`aicwf_usb_tx_prepare` empties the list. A submission succeeds until the USB core
suspends the device. `tbusy` and `flow` are the two flow controls that share the
one queue. `late` and `hist` are history: a queue stopped after the resume by a
frame that had seen the bus down; a failed submission; a trigger that was pending
when the bus went down, or was given between the two writes that bring it up
(`early`); a sender or thread at work while it came up.

The driver's three models share no state but the bus that goes down; each has
it as its own action (`Unplug`, `BusDown`, `SuspendUsb` with `SuspendBus`).

## 3. Runs

| run | instance | shows |
|---|---|---|
| `wwan_safety` | 3 resets, thresholds 2 and 1, one death, one clock step, failing ubus | the modem and the interface after a reset (`ModuleLeftAsFound`); no repower with an address (`RepowerMeansNoAddress`); hands off a disabled interface, but for the race the code has (`DisabledIsLeftAlone`); what a death in a reset costs for ever (`PowerLossIsFinal`); the ladder (`LadderSpec`) |
| `wwan_stale` | the code's own 300, 120, 60 and 15 seconds in units of 30, card unreadable at times | **violated** `NextCheckTwoMinutesLater`: the first finding |
| `wwan_liveness` | 2 resets, one clock step, slow answers, broken status file | `WindowCloses`, `MissingAddressEscalates`, `MissingCloudIsActedOn` |
| `cloud_safety` | the code's proportions in units of 60 seconds, a module that may not be found, a host for the online check, all status files, one death | `LadderSpec`, `RebootAfterFailedPing`, `RestartsAreSpaced` |
| `cloud_empty` | the agent stops | **violated** `EmptyFileSkipsChecking`: the second finding |
| `cloud_liveness` | small thresholds, one death, one clock step, a card that may be missing, a host that comes and goes | `PowerComesBack`, `OfflineEndsInReboot` |
| `bac_overlap` | 1 device, 2 overlapping runs, throttle within reach | `CollectAfterWorkers`; `BarriersDeadlock`, the property that states what overlap does |
| `bac_liveness` | 1 device that may fall silent, 1 run at a time, polling pages, calls of `deveventlist` | `ListIsComplete`, `RequestsAreAnswered`, `PolledObjectsAreRead` |
| `cmd_safety` | 2 slots, all five kinds of command, one fatal signal, time-outs, a disconnect at any moment; symmetric slots | whose memory and whose completion an answer reaches (`NoAnswerToDeadStack`, `OwnAnswer`); one command on its way (`OneAtATime`, `OverwriteNeedsPlain`); count, wake lock and slots (`AwakeWhileQueued`, `DoubleUnlinkNeedsDrain`, `SlotsAccountedFor`); what a time-out costs (`DeferredIsStranded`) |
| `cmd_fifo` | 3 slots, a queue of 2, all confirmed kinds, no signal, no disconnect | the abstract queue (`FifoSpec`); no wake-up of the worker is lost (`DeferredEnds`) |
| `rx_reorder` | window 4, modulus 16, pool 2, six frames that start at 13 and so wrap, 2 ahead or 1 behind, flush, deinit, bus down | the list (`HeldInWindow`, `PoolConserved`); delivery (`DeliveredOnce`, `InOrder`) and the abstract buffer (`DeliverySpec`); the timer (`GapsEnd`); the memory (`FreedWhenQuiet`) |
| `usb_tx` | 3 URBs, marks 1 and 2, a queue of 2, failing submissions, suspend and resume at any moment | `UrbsConserved`; who wakes a stopped queue (`StopIsUndone`, `StopEnds`); the thread (`NoFrameForgotten`, `QuietSuspendIsSafe`) |

The type invariants of all modules are theorems (for RxReorder that includes that
`ind` keeps its width), so no run repeats them.

Properties that name an exception ("unless a drain", "but for a late stop")
describe a race the code really has: the exception's history variable is set
exactly where the race begins, the runs reach it, and the property says that
nothing else leads there.

Bounds. The thresholds of the daemons are small, but keep the order the code's
have (a pass is shorter than the pause between remedies, the online check starts
before the first threshold); `wwan_stale` and `cloud_safety` use the code's
proportions because their properties depend on them. `MaxSteps` and `MaxKills`
bound steps of the clock and deaths to one: a second death finds the state that
the first one left or a fresh one, and the proofs hold for any number. Two
overlapping runs of the cron job are the smallest overlap; a third one only
waits as well. Three command slots (`cmd_fifo`) are one more than the queue, so that a
caller is refused, one is deferred and one is on its way at the same time. Two
(`cmd_safety`) are enough for a command under way with one behind it or one that
is pushed outside the queue, for every pair of kinds; the properties of this run
are theorems for any number of slots. The window of the reorder buffer is a quarter of the modulus, and with `Lag` it
fills half a turn, as far as `2 * (Window + Lag) <= Modulus` goes (the code has a
window of 64 of 4096); a frame may come up to two ahead of the
highest one, or be the one behind it, late or repeated; a pool of two runs out
with one frame in the list and one in hand. An empty list that
falls whole turns behind the peer needs more than this run's six frames; the
theorems cover it. Three URBs are the least with a high mark below their number
and above the low one: the queue stops when none is free and is woken when all
are, with one state of the pool at and one between the marks. The safety
properties of the run are theorems for any number.
In units of 60 seconds (`cloud_safety`) the limits 180, 120 and 60 are exact; the
pause of 15 seconds and the 12 of a restart become one unit and none, which the
theorems do not assume.
`CHECK_DEADLOCK FALSE` is set where the
program really stops: two runs at their barriers, a run that spins, a
disconnected driver, the end of the peer's frames, a dead transmit thread.

Findings. (1) `wwan_ip_last_got` is not renewed while the card cannot be read;
afterwards several resets follow pass by pass, against the comment that the next
check is two minutes later. (With a card that is always readable the property
holds.) (2) `cloud_watch` reboots also when the status file is empty, where the
comment says checking is skipped.

Seen while modelling, without a run: without an online-check host `cloud_watch`
reboots a device in a pass that has read "online", because the count is only
cleared when the last ping is more than a minute old (lines 206 to 212). The
loop of `eventlistjson` (line 638) has no increment: one call of `deveventlist`
stops the cron job and every later run (`bac_overlap` has such runs); the access
list of the plugin does not offer this call to the pages, the script's own
`list` does. The reachable exceptions of the driver's properties: an answer to a
killed caller's command confirms the next owner of the slot, or another command
of the kind (`OwnAnswer`); the drain makes owners unlink their entries a second
time (`DoubleUnlinkNeedsDrain`); commands deferred behind one that timed out
stay for ever (`DeferredIsStranded`); a station is freed with its timer pending
when the work ran between `del_timer_sync` and `cancel_work_sync`
(`FreedWhenQuiet`); a queue stays stopped after a failed submission or after a
stop that comes later than the resume (`StopIsUndone`); a
trigger pending at a suspend, or given while a resume brings the bus up, ends the
transmit thread (`QuietSuspendIsSafe`).

Fairness. `FairSpec` of the daemons: `WF_vars(Pass)`, a process that runs is
scheduled, and procd starts it again; in CloudWatch also `WF_vars(Reboot)`, a
reboot that was ordered happens. The world is never fair. `FairSpec` of BacCron:
crond launches runs, runs and workers are scheduled; a worker that tries again
and again meets a time at which its device answers, if there are such times
(strong fairness). Nothing makes a device answer: a run whose worker asks a
silent one, like a run that spins over the device list, may stay so for ever.
That is `Blocked`, the exception that `RequestsAreAnswered` and
`PolledObjectsAreRead` name; both say that nothing else keeps a request from
being looked at. `PolledSpec` adds that an open page keeps making its calls, also
between two runs: the pages poll every few seconds, the runs start once a minute.
`FairSpec` of CmdMgr: every task that can go on does, the workqueue runs, the
controller ends a transfer. The device is not fair, it need not answer: every
wait of the manager has a time-out. New commands are not fair either; a query
may poll for ever while others keep the queue filled, so `DeferredEnds` speaks
of the commands that are in the queue. `FairSpec` of RxReorder: the timer
expires, its handler and its work run, a station that is being taken down is
taken down; the receive thread is not fair, so a gap must end without another
frame. `FairSpec` of UsbTx: sender, controller, thread and power management
run. The strong fairness of `FrameTx` says that credits come back: a pass may
end for want of them, but not every pass before its first frame.

## 4. Proofs

Each component's proofs hold for every value of the constants that satisfies
the `ASSUME`s of its module; the invariants and action properties of its runs
are what TLC has checked on the small instances.

`WwanWatch_proofs`. `TypeCorrect`; `Invariance` of `IInv`;
`LeavesModuleAsFound`, `RepowerNeedsMissingAddress`, `LeavesDisabledAlone`; the
action properties `PowerLossForEver`, `StrandedForEver`; `ImplementsLadder`, the refinement of
ResetLadder. None of the invariants is inductive alone. `IInv` adds to `TypeOK`:
a remedy is in progress exactly from its decision to its `ifup` (`JobInv`),
which ties `job` to the loop; on the cloud's path the count of resets is zero
(`CloudInv`), which is why that path cannot repower and why the ladder's sight of
an address holds (`Sighted`); with the lines off the loop
is in a reset or stops at 3ginfo (`PowerInv`); an interface that a watchdog left
down is not looked at past `ReadIface` (`DownInv`). Every part is proved
preserved with one step for each action; the control part and the device part
are separate lemmas because they read different variables.

`UsbTx_proofs`. `TypeCorrect`, `ConservesUrbs`, `StopsAreUndone`,
`FramesAreSubmitted`, `QuietSuspend`, all from `Invariance`.
`IInv` adds what the place in suspend and resume says of the two states of the
bus (`PowerInv`), that a posted frame is looked after already when the resume has
found the list empty (`PostedInv`), and what a quiet suspend and a quiet resume
leave to the thread: while it would end on a trigger, one that is there was
pending at the suspend or early at the resume (`QuietInv`).
`WakeIsComing`, half of `StopIsUndone`, needs the conservation of the URBs and `HighWater < Urbs`: were
all the URBs free, the last completion would have woken the queue.

`CloudWatch_proofs`. `TypeCorrect`; `ImplementsLadder`, the refinement of
ResetLadder, from a bound on the count at each place of the loop (`CountInv`) and
from the count being zero after a successful check (`SightInv`).
`SpacesRestarts`, for every choice of the constants. Its invariant (`SpacedInv`):
an age is never further over the limit than `unpaid`, by a credit more between
the decision for a restart and its end, and `unpaid` never falls a whole credit
below zero. An age grows with `unpaid` and is below the limit where `unpaid`
is reset; a restart takes the same credit from both. This needs
`CreditAssumption`, a credit no larger than the limit, as the code's 120 and 180
seconds are. `RebootsFollowFailedPing` needs more than the module's `ASSUME`s,
and says so. It holds under `Proportions`: a host for the online check, no clock
step, and an order of the thresholds that the code's 180, 120, 60, 12 and 15
seconds have. Its invariant (`PingInv`): `ping_last` is never the younger of the
two stamps, and after a restart it is still so old that the next pass pings.

`BacCron_proofs`, for any number of runs, devices and workers. `TypeCorrect`;
`WorkersComeFirst`, `BarriersNeverOpen`; `ListsAreComplete` under `NoOverlap`.
The lemma they share, `BarrierMeansAlone`, counts processes: a run at a barrier
contributes two, itself and its subshell, so a count of at most two leaves no
other run and no worker. `ListInv` adds for the list that a device the run has
found is still to come, with a worker, or has its file.

`CmdMgr_proofs`. `TypeCorrect`, `StacksAreSafe`, `AwakeExactly`, `UnlinkedOnce`,
`SlotsAccounted`, from `Invariance`: no slot is in the queue twice (`Inj`), a
caller under way has its slot and its entry (`CallerInv`), a deferred command
was left behind by its caller and belongs to the worker alone (`DeferInv`,
`WorkerInv`), what is queued is in use until a time-out (`LiveInv`). Two lemmas
on sequences say what `list_add_tail` and `list_del` do to the set of queued
slots; each group of actions has a lemma of its own.

`CmdOrder_proofs` (on top of it). `SendsOneAtATime`, `AnswersAreOwn`, and
`ImplementsFifo`: without signals and disconnect the manager implements
`CommandFifo`, time-outs included. The argument is a mutual induction
(`OrderInvariance`). A confirmation names only a kind, so it finds the right
command because only one is under way: what is in the buffer, in the URB or in
the device is the request of the one queued command that waits for a
confirmation (`UrbLive`, `DevLive`). And only one is under way because a caller
pushes when the last entry is neither waiting to be pushed nor to be confirmed,
and the worker pushes only the head (`HeadInv`, `PushInv`, `WorkPushInv`,
`BothInv`), which both leave only when they were completed by the right answer
(`DoneInv`). A kill, a time-out or a drain ends the induction (`Good`), and the
theorem of `OwnAnswer` says no more. The refinement maps the list to entries
that wait as long as `WAIT_CFM` is set; a step of the manager is a step of the
abstract queue or leaves it alone.

`CmdStuck_proofs` (on top of that). `OverwritesNeedPlain` and `StrandsDeferred`.
Two lemmas say when the mark `WAIT_PUSH` comes and goes (`MarkSet`, `MarkKept`);
with them everything behind a deferred command is deferred (`BehindInv`). A
time-out leaves a command in the queue that was pushed and whose task never
unlinks it (`Pinned`, `StuckInv`): it stands before all the deferred ones, and
the worker, which looks at the head only, stops at it. The URB is free when a
command is pushed because a request in it would be a live one (`PushAlone` of the
order).

`RxReorder_proofs`. First the memory: `ConservesPool` and `FreesWhenQuiet`, from
`Invariance`. Only lengths matter there: how many frames leave the list
(`ReadyType`), that one is inserted (`InsertType`). `DisabledInv` says that a
disabled list is empty with its timer off, `QuietInv` that a station taken down
undisturbed stays so, `GoneInv` that nobody sorts into a list that is gone.

Then the order: `TypeCorrect`, `HoldsInWindow`, `DeliversOnce` and
`DeliversInOrder`, from `OrderInvariance`. The code never sees a frame, only its
number modulo `Modulus`; what is claimed is about frames. `OrderInv` connects the
two: while the list is in use, `ind` stands for some number `a` that is past all
that was delivered and before all that waits, which lies in the window behind it
(`Anchor`); the list is sorted (`Ascending`) and recent (`Recent`), and so is the
frame in hand (`CurInv`). Everything the code compares is then within half a
turn, where `SN_LESS` and `SN_EQUAL` are the order and the equality of frames
(`SnLessNear`, `SnSame`). One lemma for each helper says what it does to frames:
`PlaceIs` and `InsertOrder` for the sorted place, `PulledIs` for the window,
`AdvancedIs` for `reord_rxframes_process`, `ReadyIs` for `reord_rxframes_ind`,
`FlowOrder` for the last two together. When the list is empty the peer may be far
ahead, and a frame that looks as if it followed closely may be whole turns on:
`NotBehind` moves `a` by these turns, which is sound because nothing waits. The
arithmetic (`ModSplit` to `ModSub`) is proved from the definition of the
quotient. `Advanced` is a recursive function; that it is what its body says
(`AdvancedDef`) and what it computes (`AdvancedIs`) are inductions over the list,
done with a set of numbers in place of a predicate (`SetInduction`, from the
minimum of a well-founded relation).

`ImplementsDelivery` is the refinement of `OrderedDelivery`: `waiting` is the set
of the list, `delivered` is `seen`, and the buffer is open while nobody takes the
station down. A frame sorted in is an `Accept` (`SortAccepts`), the timer's work
and a flush are a `Skip` (`WorkSkips`), enabling the list anew is a `Restart`.
What the invariants of the order do not say and this does: every frame that
leaves the list is delivered (`FlowParts`).

The proof needs `2 * (Window + Lag) <= Modulus`. Without it TLC finds `InOrder`
violated, for instance with a window of three of eight and a `Lag` of six: frame
12 is missing and 14 waits, the next frames do not go through the list, then 20
comes, a whole turn after 12, is taken for it and delivered before 14. With half a
turn (a `Lag` of five, a window of two) the same happens to a list that is enabled
anew while its station is being taken down. The code has no guard against this; it
relies on the timer, which gives a gap up after 50 ms.

Only model-checked: every liveness property (liveness under fairness and
`ENABLED` are out of this prover's reach). The two violations of the findings
are counterexamples of TLC.

## 5. Plan

In this order; each module with its run, properties and mutants.

1. The aic8800 receive path: its URBs, the two threads, reassembly; composed
   with CmdMgr's `Answer` and RxReorder's `Arrive`.
2. `ThreeGInfo`: the cache of device and network and the PIN marker, composed
   with WwanWatch's repower.
3. `BmrCloudWatch`: the variant with both ladders in one loop.
4. `BacMail`: event mails and their deduplication over runs that end early.
5. `AutoUpgrader`, `XrUsbWatch`, `PhoneTether`.
6. `WwanIface` and `RkIo`: pure algorithms against reference definitions.

Hazards met in parts that are not modelled, which these modules are for: the
PIN marker that survives a repower (`3ginfo:50`) and the empty device that is
cached by a test that is always true (`detect_wwan.sh:33`); the window of a
segmented read that shrinks without a lower bound (`bacnetclient:556`), values
kept from the previous device (`:677`), events mailed twice by a run that ends
between mail and `mv` (`:471`); an empty checksum file that fits any download
(`auto_upgrader:82`) and an upgrade whose failure nobody sees (`:92`); a port
that never appears and resets the hub every ten seconds (`xr_usb_watch:66`); the
delayed half of an add event after the remove event (`90-android-tether:32`);
the end of a mapping computed from a signed length (`rk_io.c:277`). In the
driver: the list of posted URBs walked with its lock released at unload
(`aicwf_usb.c:1930`), a URB filled from an uninitialised pointer when the
aligned copy cannot be allocated (`:1844`).

## 6. Not modelled

Vendored code other than the three parts of the aic8800 driver (the other
drivers, boot loaders, libraries, the BACnet stack, strongSwan, modemdata): by
far the largest part of the tree's lines, and most of it firmware images and
register tables. Packaging, web pages, tables and formatting: no logic of this
feed's own, or no state. LEDs, logs and the text of status files inside the
modelled daemons, the contents of commands and frames inside the driver: no
property is about them. In the transmit path, connecting and leaving a network,
the choice among queues and stations, and credits: they decide which frame is
next, not what happens to its URB. The SDIO variant of the driver, which the
package does not build.
