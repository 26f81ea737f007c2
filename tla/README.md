# LanPulse in TLA+

LanPulse streams a desktop's system audio to one phone on the LAN. A background service
(`src/desktop-service`, Rust) captures audio, serves an HTTP control API and sends RTP over
UDP; a desktop window (`src/desktop-app`, Rust) starts and watches that service; native Android
(`src/mobile/shared`, Kotlin) and iOS (`src/mobile/iosApp`, Swift) players pair with it, keep a
lease alive, receive and play. This directory holds the specifications of the parts whose
behaviour depends on order, time and failure, the TLC runs that check them, and the theorems
TLAPS has proved about them. `PROJECT.json` names the source lines behind every definition.

## 1. The system

### 1.1 Desktop service

| Part | State it keeps | Operations | Interacts with |
|---|---|---|---|
| Control API and session state (`control.rs`, `state.rs`) | the device that holds the lease, the RTP target and its generation, pairing PIN age, failures and block | connect (resume, or PIN and claim), heartbeat, disconnect, status | phones and the desktop window by HTTP; the media task through target and generation |
| Lease expirer (`main.rs`) | none of its own | takes back an expired lease every second | session state |
| Media task (`media/sender.rs`, `rtp.rs`, supervisor in `main.rs`) | cached target and generation, the capture worker, RTP number, 64-packet retransmit cache, retry delay | one loop iteration per frame; fallback to the tone; restart after an error | session state, a capture worker, the phone's UDP socket |
| Capture worker (`media/capture.rs`, `signal.rs`, `source.rs`, `pipewire_capture.rs`, `macos_capture.rs`) | two SPSC rings of frames, a spare and a current frame, drop counter, eventfd, stop and finished flags | capture callback, receive, recycle, shutdown | capture thread and media task share it |
| Discovery responder (`discovery.rs`) | socket | one reply per request, until an error | phones and `lanpulse-discover` by broadcast |
| Start-up (`main.rs`, `startup.rs`, `config/`) | options, both sockets, LAN address | check the options, bind the first free port of each range, print the ready line | the desktop window reads the line; other programs hold ports |

### 1.2 Desktop window

The window's thread (`app.rs`, `ui.rs`, `tray.rs`) draws frames, takes clicks and, once per frame or
operation, drains the events of a worker thread (`service/controller.rs`). The worker
(`service/runtime.rs`, `process.rs`, `http.rs`) takes commands from a channel, spawns the service
and reads its ready line, polls `/api/status` every 1.2 s, disconnects devices over HTTP, kills and
waits. State: the snapshot shown, busy and poll-pending flags, settings; the two channels; the
child, what it announced and its last status.

### 1.3 Phones

* Android: the buttons send intents to `LanPulsePlaybackService`, which runs commands in coroutines
  around a mutex, connects, heartbeats, reconnects every three seconds and stops itself.
  `RtpAudioReceiver` has a receive thread and a playback coroutine joined by two SPSC rings of
  packets, a jitter buffer over a 16-bit sequence, retransmit requests, rebuffering, adaptive delay
  and clock-drift correction.
* iOS: `LanPulseSession` guards its tasks with a token, reconnects with the PIN only;
  `RTPAudioReceiver` schedules a bounded pool of buffers whose completions carry a generation.
* Shared: the screen controller and the pairing code parser.

### 1.4 What is hard, and what makes each part correct

* Session state: target and device sit behind different locks, the clock is read before a lock is
  waited for, requests of two phones and the expirer interleave, replies get lost and requests
  come late. *Correct*: one lease, taken over only when free or run out; RTP goes to its holder;
  a stale disconnect harms nobody; a running session never needs the PIN; a block runs its course;
  an abandoned lease ends.
* Media task: it reads generation and target without holding a lock across both; a session may end
  at any await; any call may fail; numbers wrap, skip and restart. *Correct*: it ends up at the
  session's target and leaves the old one within a round; one capture thread; the cache answers
  truly; back-off bounded; it streams again.
* Capture worker: the capture callback must never wait or run out of frames, and the sender must
  never sleep on a full ring. *Correct*: frames, packets and bytes all accounted for; no lost wake-up;
  shutdown returns; RTP gaps where packets were dropped (this one fails, see findings).
* Phones: reconnect against a lease that may still be theirs, heartbeats that fail while audio
  plays, explicit disconnects that race a connect. *Correct*: after a disconnect nothing plays and no
  lease is left; a transient failure is survived; nobody ends another phone's session.
* Receivers: packets cross threads and a ring indexed by the low bits of a wrapping number.
  *Correct*: no packet is owned twice or lost, playback order is sequence order, a sender restart is
  recognised, the pool suffices.
* Desktop window: three actors, two channels, a process that may die, be slow or never get ready.
  *Correct*: no process is left behind; every operation is answered once, truly, and quitting
  returns; the window shows what the worker holds, and the ports that are announced are held.
* Discovery: *correct* if what is announced can be reached (this one fails, see findings).

`PROJECT.json` lists these hazards line by line, with the properties that watch each one.

## 2. Plan

1. **done** `Lease` (abstract), `SessionState`, `SenderTarget`, with `SessionStateProofs` and
   `SenderTargetProofs`: the lease and its target, the most important promise of the system.
2. **done** `CaptureRing` with `CaptureRingProofs`: the lock-free path from capture to sender.
3. **done** `MediaSender` with `MediaSenderProofs` (and `Modular`): the rest of the media task and
   its supervisor.
4. **done** `JitterBuffer` and `RtpReceiver` with `RtpReceiverProofs`: Android's receive thread,
   playback coroutine and jitter buffer.
5. **done** `ServiceStart`, `ServiceWorker`, `Desktop`: a service process from its command line to
   serving, the worker thread that owns it, the window above both; `Discovery` on `ServiceStart`.
6. **done** `PhoneService`: Android's playback service over a faulty network and the lease.
7. **done** Proofs about these: `DesktopProofs`, `PhoneServiceProofs`, and that the desktop the phone
   talks to keeps to `Lease` as `SessionState` does.
8. For the receiver: retransmit requests and their bookkeeping; that a restarted stream is
   recognised, against a sender that numbers in order; `playDirect`.
9. Bounded checks of the adaptive delay, drift correction and playback clock; iOS session and
   receiver; shared controller.

Where one instance answers several questions they share a run.

## 3. The modules and the code

**`Lease`** is the abstract specification: one renewable lease, granted when free, run out or
already one's own; renewed, moved, released or expired; a session that has ended never returns.

**`SessionState`** has one process per HTTP request in progress (`Handlers`), the lease expirer and
the media task's write of `--target`. `pc` names the await points of `control.rs` and `state.rs`:
one step per lock acquisition, per write to `target`, per generation bump, per clock read before a
lock wait. A `connect` is resume, then the PIN (`authorize_pairing_pin`), then `connect_device`,
with every refusal. Requests carry any session id a phone may know, so a stale or repeated request
arriving late is just one more request. Diagnostics, JSON and wording are left out.

**`SenderTarget`** extends it with the loop top of `run_media_sender`: load the generation, compare,
fetch the target, send, fail and restart. **`CaptureRing`** is one life of a `CaptureWorker`: a step
is one access to shared state (a ring, the counter, a flag, the eventfd). A frame is its place in
the capture; the producer splits chunks of `Chunks` bytes into packets of `PacketBytes`. The tone
and the platform callbacks are the same producer with different chunks.

**`MediaSender`** is the whole of `run_media_sender` under `spawn_media_supervisor`: target read in
one step (refined by `SenderTarget`), workers that deliver frames with drops before them (refined by
`CaptureRing`), numbers by position mod `SeqNumbers`, `RetransmitCache` by slot,
`service_retransmit_requests` with its budget, fallback, every error return, retry delay. Positions
are kept unwrapped beside the code's 16-bit number so that properties can say which packet is meant.
`mode` "system" is `--source pipewire` or `screencapturekit`; that the platform has no such source is
one of the ways `OpenFails`, before the status names it. `--target` is left to `SenderTarget`.

**`JitterBuffer`** gives each function of `RtpJitterBuffer.kt` as an operator on a record: slots by
the low bits of the number, late or new by half the range, pruning, the evidence for a restarted
stream. A packet is its number; packets the buffer lets go of go back to the pool. **`RtpReceiver`**
is `playBuffered` around it: the receive thread (poll the pool, receive, offer to the ring, signal)
and the playback coroutine, with a step for each access to a ring or the signal. `at` names where
the coroutine is: "entering" to "filled" are `rebuffer` up to its wait, "prebuffering" its writes,
"looping" to "resuming" the playback loop. `Receive(n)` takes any number at any time, so loss,
duplicates, reordering, retransmissions and a sender that starts anew are all in it. What depends on
clocks and the `AudioTrack` is a choice: underruns, the target of the adaptive controller, how much
to prebuffer, whether to wait or conceal, each timeout. Retransmit requests change no state that
another step reads and are left out. A ring's push is taken to be visible at once.

**`ServiceStart`** is a service process: `procs[p].at` names its place in `main.rs`, and a step is
one call that others can tell apart: options read and checked, a TCP or UDP port tried, the ready
line written (the pipe may be closed by then), serving, dying. Ports are small numbers; other
programs take and free them. The address is the one of `hostname -I` with the least `ipv4_score`,
else that of the default route, else loopback. **`ServiceWorker`** adds the worker thread and its
two channels; `worker.at` names the place in its loop, `worker.doing` the command at hand.
**`Desktop`** adds the window: operations drain the events first (`pump`) and then decide, buttons
are drawn from what was shown before that, a quit shuts the worker down and joins it; `Sanitize` is
`AppSettings::sanitize` and must agree with `Options::validate`. **`Discovery`** puts the responder
and those who probe it over `ServiceStart`: datagrams get lost and overtake each other, the first
error ends the responder.

**`PhoneService`** has the commands of `LanPulsePlaybackService` (coroutines waiting for
`commandMutex`, in any order), its playback jobs (`jobs[j].at` names the place in `runPlaybackLoop`
and `playOnce`; a job survives its service while a request blocks it) and what Android still has to
tell the service, in order: intents, and `onDestroy` after `stopSelf`. `RequestFails` is a request
lost, or served after the phone has given up on it, or served with its answer lost; `Incompatible`
gives a granted session back because its format cannot be played, and `ClickFails` is a command
Android does not pass on to the service. The desktop answers in one step and keeps only the lease:
holder, session and socket. `PhoneServiceProofs` maps these to `Lease`, as `SessionState` is mapped,
without a clock: a lease that runs out is released, the other phone's session has no number, and
retired are the numbers given before. Hearing is having one's socket as the lease's target; what
`MediaSender` and `RtpReceiver` show is not repeated. A lease does not run out while an answer that
renewed it is on its way (5 s at most, against 15 s).

**`Modular`** holds the arithmetic of rings indexed by low bits. **`*Proofs`** modules extend their
subject. **`MC*`** modules only instantiate; `PhoneService` needs none. Definitions introduced by "A
faulty version" are deliberate bugs, not part of any specification: putting one in place of the
definition after it must violate the property it is paired with in `PROJECT.json`, which shows the
property bites.

## 4. The runs

| Run | Instance | What it shows |
|---|---|---|
| `lease` | 2 phones, 2 addresses, 2 requests in progress, 3 in all, lease 2 of 4 time units, one start of the sender | types; RTP routed to the holder (`RoutedToDevice`); `ResumeBeforePin`; `ImplementsLease` (refinement of `Lease`) |
| `pairing` | right and wrong PINs, status polls that renew the PIN, block 2, PIN life 2, `--target` | `BlockRunsItsCourse` |
| `sender` | one phone that moves between 2 addresses, `--target`, two starts of the sender, two requests | `CacheCoherent`; `SenderFollowsTarget` and `AbandonedLeaseEnds` under fairness |
| `capture` | ring of 2, packets of 2 bytes, chunks off the packet boundary, 16 bytes | `NeverStarved`, `NothingUnaccounted`, `BytesKept`, `NeverEarly`; no lost wake-up (`SenderWakes`); `ShutdownReturns` |
| `media` | 2 phones, numbers mod 4, cache of 2, 5 positions, 2 requests in the socket and in a round, 2 failures | `OneWorker`, `ResendsWhatWasAsked`, `RecentIsCached`, `OneLateRound`, `LabelNamesSource` |
| `medialive` | the same without requests, 3 failures | `StreamsAgain` and `ToneStops` under fairness |
| `desktop` | one process at a time, 2 ports, one wanted by another program, default and broken settings, a full event channel | `NoStrayService`, `OptionsAgree`, `BusyWhileOwed`, `ReportsAreTrue`, `ShownAgrees`, `AnnouncedPortsHeld`; `AnswersCome` and `QuitReturns` under fairness |
| `phone` | 2 jobs, 2 commands, 3 failures, refused starts of the service among both | `OneJob`, `LateDisconnectHarmless`; `DisconnectLasts` and `StreamReturns` under fairness |
| `receiver` | numbers mod 6, window of 2, ring of 1, pool of 5, restart after 2 late packets in order | `PoolNeverExhausted`, `HeldAhead`, `NoLostWakeup`; the pool never takes back more than it gave (`ReceiverTypeOK`) |
| `statustorn`, `capturegap`, `staleaddress` | small versions of the above; two services, a phone and `lanpulse-discover` on a desktop that changes networks | the findings below |

The bounds are small because the cases are: two requests suffice for every pairwise race, and a
third would only repeat one; lease and PIN lives of 1 to 3 let time pass before, at and after a
limit; numbers mod 4 over 5 positions wrap, and a cache of 2 is overrun and skipped over; two
failures in a row reach the limit of the back-off. Phones are interchangeable in `media`, which
checks no liveness, so it uses their symmetry; `medialive` needs no requests, because answering them
never decides where the loop goes next. In `receiver` a number space of three windows has late, new
and far packets in each slot; nothing there is bounded but the sizes. In `desktop` nothing is
bounded but the sizes either: clicks, frames, deaths and restarts go on for ever, one click not
handled yet can meet every state, and a start takes a process only when the last one has been waited
for, so a second identity changes nothing (the safety properties were also checked with two, 386,000
states). In `phone` a second command can overtake, follow or precede the first at every point, the
second job is the one an old instance leaves behind, and three failures are a stream that breaks, a
reconnect that is lost or late and one more; 3 commands with 2 failures (4.2 million states, too
slow to repeat each time) show nothing new. `MaxTime`, `MaxRequests`, `MaxBytes`, `MaxPosition`,
`MaxFailures`, `MaxCommands` and the like only end a behaviour. `CHECK_DEADLOCK FALSE` stands where
such an end, or a worker or receiver that is closed, is a proper stop; `sender`, `media`,
`medialive` and `desktop` check deadlock. The liveness properties of `MediaSender` name the position
bound (`Stuck`) as an excuse; together with `OneLateRound`, which needs no fairness, they say the
stream goes to the right phone.

Fairness: tokio polls every ready task and its `RwLock` is first come first served (strong fairness
for steps that take the lock); the sender's loop and the supervisor's timer go on; a capture thread
told to stop stops, because every source polls the flag; the tone delivers a frame per period. In the
window the threads are scheduled, requests and the wait for the ready line have time limits, and a
frame is drawn every 300 ms at least. On the phone coroutines and the main thread are scheduled,
requests have time limits, and requests that do arrive are served; an abandoned lease expires
(`AbandonedLeaseEnds`). A system capture may stay silent for ever, phones and users need do nothing,
and nothing need fail or, having failed, recover.

## 5. What is proved

For every value of the constants that satisfies the modules' named assumptions:

* `SessionStateProofs`: `TypeOK`, `RoutedToDevice`, `ResumeBeforePin`, `StaleDisconnectHarmless`,
  `BlockRunsItsCourse` and the refinement `ImplementsLease`. The inductive invariant adds to the
  properties who holds the device lock (exactly the task between its two writes), what that task
  has written, and where a session id can be (a fresh one in its own request only, never among the
  retired): `RoutedToDevice` is not inductive without the first two, nor the refinement's "an ended
  session never returns" without the third.
* `SenderTargetProofs`: every behaviour of the service with its sender is one of the service, and
  `CacheCoherent`: what the sender fetched is at least as new as the generation it compared with.
* `CaptureRingProofs`: all six safety properties of `CaptureRing`, for every ring, packet and chunk
  size. `NeverStarved` follows from conservation: if the callback held no frame and the second ring
  none, the first ring (at most `QueueItems`) and the sender (one) would have to hold all
  `QueueItems + 2`. The strengthening is what the capture thread holds at each of its steps
  (`Holding`) and a bound on every queued packet's number (`QueuedLate`) that makes `NeverEarly`
  survive a pop.
* `MediaSenderProofs`: types, `OneWorker`, `RecentIsCached`, `ResendsWhatWasAsked`, `OneLateRound`,
  `LabelNamesSource`. `OneLateRound` is carried by `OnTime`: until its frame is sent a stale sender
  has sent nothing, and from then on what it has sent again and what it may still read add up to one
  round. The cache argument is that each slot holds the largest sent position that falls on it
  (`Newest`); two positions in one slot are a ring apart, and wrapping first does not change the
  slot because the ring's size divides the number of sequence numbers (`Modular`).

* `RtpReceiverProofs`: all four properties of `RtpReceiver`, for every size of ring, window and
  number space. Each operation of the buffer keeps it `Sound` (its count is the number of packets it
  holds, each in its slot and within half the range of the one expected); `Nearer` is the arithmetic
  at its heart, that moving on by one keeps every other packet ahead. `Accounted` then adds up pool,
  ring, buffer and the two hands: at most one packet is ever missing, dropped by a failed write as
  the coroutine ends, so an empty pool would need more packets than ring, buffer and hands can hold.
  `NoLostWakeup` needs `Waking` at every place from the end of a drain to the wait.

* `DesktopProofs`: all seven safety properties of `Desktop`, for any number of process identities,
  ports, settings and clicks. `DesktopInv` strengthens them along the path of a service. A process
  has bound what its place in `main.rs` says, within the ranges it read (`ProcessOK`); the worker
  knows every process that there is, and what it has heard is what a living one wrote (`Children`,
  `WorkerOK`); a start under way means there is no service, and a failed one leaves none. For the
  window, `BusyWhileOwed` counts commands, work and answers of each kind: with at most one of each,
  an answer of a start can never be read in another's place (`StartAlone`). `UpToDate` and
  `NoneOlder` say how far what is on its way may be behind: the last snapshot sent is the worker's
  state but while it works, and none is of an earlier service, which is why the pairing code shown
  is that of the living one (`AnnouncedPortsHeld`). `OptionsAgree` rests on `Sanitized`: whatever the
  fields hold, `sanitize` makes it one that `validate` leaves alone.
* `PhoneServiceProofs`: `PhoneTypeOK`, `OneJob`, `LateDisconnectHarmless`, and that no two jobs
  share a session, for any number of jobs, commands and failures. A new job is launched only when
  the service's own has ended, and every other is cancelled already: `OneJob`, together with
  `AliveOK` (commands belong to an instance). A disconnect is harmless because of four facts kept
  together: a job has one request on its way at most and waits for its answer (`RequestsOK`); a
  session that plays was granted (`GrantsOK`); no two jobs ever know the same session
  (`SessionsApart`); and what is given back is known to no job that may still play (`GivenBack`).
  The last alone is not inductive: a late answer could bring a session back. `GoesOn` and `Asks`
  name what any step of a job does to these, so that most of its actions are a short instance of one
  lemma; an answer, and the failure of a request, are instances of `Replies`. `LeaseImplemented`
  then shows that this desktop is one that `Lease` allows, so the phone is checked against nothing
  the contract rules out; that it also does everything the handlers of `SessionState` may do is read
  off the code, not proved.
* `SessionStateProofs` also draws from the refinement what a phone relies on: `NoTakeover`,
  `NoRevival`.

`RingTypeOK`, `FramesConserved` and `StaleDisconnectHarmless` are proved without a run of their own:
`NeverStarved` rests on the first two, and `LateDisconnectHarmless` is the third seen from the phone.
The inductive invariants of the last two modules were run through TLC before they were proved
(`DesktopInv` with two process identities, 386,000 states; `PhoneInv`, and the
steps that `Lease` allows, within the bounds of `phone`).

Only model-checked: everything under fairness (`SenderFollowsTarget`, `AbandonedLeaseEnds`,
`SenderWakes`, `ShutdownReturns`, `StreamsAgain`, `ToneStops`, `AnswersCome`, `QuitReturns`,
`DisconnectLasts`, `StreamReturns`), since the prover has no support for fairness and ENABLED. Every
safety property of a passing run is proved. What the violation runs show is a trace, and is not a
matter of proof. No module has RECURSIVE operators.

## 6. Findings

* `statustorn`: a status response reads target and device under two locks in turn, so it can pair
  the device of one moment with the target of another.
* `capturegap`: drops are credited to the oldest queued frame, not to the place where packets were
  dropped, so the RTP gap opens up to a whole queue early. It is never late (`NeverEarly`) and once
  the queue has drained the clocks agree (`NothingUnaccounted`).
* `staleaddress`: the address in the control URL is read once, so after a change of networks the
  responder announces one the desktop no longer has.

Seen while modelling, without a document that says otherwise: with `--target`, a documented
override, every start of the sender writes that address over a connected phone's, whose lease runs
on; after an error of the sender the status goes on naming the last source although nothing is
captured, until the next session starts; a retransmit slot survives for as long as its numbers are
skipped, so under a very long regular pattern of drops a wrapped number could be answered with an
old packet (`ResendsWhatWasAsked` states exactly what is promised); Android's `rebuffer`, unlike its
playback loop, does not look for a restarted stream, so one that restarts while the buffer fills is
found late until the stream times out (the exception in `NoLostWakeup`); a phone whose capture is
silent is noticed gone only with the next frame; `stopSession` shows Idle before `stopSelf`, so a
Connect that the same instance takes in between is destroyed with it and the phone goes on showing
Connecting until Disconnect is pressed (the same happens to a Connect delivered between a failure's
`stopSelf` and `onDestroy`, and is what makes `DisconnectLasts` hold: without it an overtaken
Disconnect would leave a later job playing).

## 7. Not modelled

* Payload bytes and conversions, QoS, packet statistics, logging and log rotation, wording, JSON,
  translations, layout, the clipboard; the unsupported platforms; scripts and the test receiver.
* Desktop window: the settings file, hiding to the tray, the notice that settings are saved while a
  start is under way, an error of `try_wait`, after which the code forgets the child, and a window
  that is killed, whose service is then an orphan until it is stopped by hand.
* Service: a frame pushed between the empty pop and the finished flag is given up with the worker
  (it is in `CaptureRing`, where nothing promises otherwise); macOS queues of capture callbacks.
* Android: wake and Wi-Fi locks, media buttons, notifications, `START_REDELIVER_INTENT` after the
  process is killed, retransmit requests (`RtpNackRequester`), `playDirect`, the adaptive delay and
  drift correction, the QR scanner.
* iOS: its session (a disconnect in mid-connect without a session id, a reconnect with the PIN only)
  and its receiver (buffer pools whose completions outlive their playback).
* The screens of the phones and their shared controller, which keep what a field shows.

`PROJECT.json` lists each with its sources and, under "hazards", the lines where it matters.
