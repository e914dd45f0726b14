# Backhaul: a TLA+ verification project

Backhaul is a reverse tunnel: a *server* accepts local connections (a *flow*
each) and carries them over connections that a *client* has dialled to it, to
targets behind the client. The transport that carries most of the program's own
logic is `wsmux`: a pool of WebSocket connections (through CDNs that cut long
connections), a multiplexer (`internal/smux`, a fork of smux) on each, and flows
that are **moved** from one connection to another while they run, or **resumed**
on another when the one they are on dies. Beside it there are simpler transports
(ws, tcp, tcpmux, udp) and one over DNS. This project models these mechanisms,
checks them with TLC, and proves most of their safety properties with TLAPS.

Contents: [the system](#1-the-system), [the modules](#2-the-modules),
[the runs](#3-the-runs), [the proofs](#4-the-proofs),
[findings](#5-where-code-and-comments-disagree),
[assumptions and omissions](#6-assumptions-and-what-is-left-out),
[the plan](#7-plan), [how to run it](#8-running-it).

## 1. The system

### Components

| Component | Source (`src/internal/...`) | State it keeps | Operations | Correct when |
|---|---|---|---|---|
| Flow pumps (`PumpSwapper`) | `utils/handlers/promotable_pump.go`, `promotable_pump_resume.go` | current and next tunnel, freeze/install/switch flags, byte counts of both directions, suspension, what was acknowledged | upload and download pump, `FreezeUp`, `Thaw`, `Install`, `Promote`, `Suspend`, `ResumeBegin`/`ResumeFinish`, `Abort`, `flushAck`, `release` | no byte lost, repeated or reordered; no truncation passed for an end; no pump waits for ever |
| Replay ring | `utils/handlers/replay.go` | circular storage, offset of its oldest byte, limit | `append`, `ackTo`, `readAt`, `waitFree`, `setLimit`, `discard` | it holds exactly the unacknowledged bytes, within its limit, and its sender is woken |
| Replay budget | `utils/handlers/replay_budget.go` | bytes charged, per process and per flow | `Open`, `Grow`, `Release` | the charge is the sum of what flows hold |
| Half-close envelope | `utils/handlers/halfclose_conn.go` | header of the current record, ended flags of both directions | `Read`, `Write`, `CloseWrite`, `AbortWrite`, `ServeAcks`, `Close` | END only after all data; an ACK is neither data nor lost |
| Multiplexer | `smux/` | streams, token bucket, shaper queues, window counters modulo 2^32 | `OpenStream`, `Write`, `Read`, `Close`, `SetReceiveWindow`, `sendLoop`, `recvLoop` | the windows are kept, tokens conserved, no wake-up lost, EOF after all data |
| wsmux server: moving flows | `server/transport/wsmux_resume.go`, `wsmux_session.go` | the flow registry: sessions a flow is on or moving to | `migrateFlow`, `resumeOnce`, `driveResume`, `reopenFlow`, `moveFlowsOff`, `retireSession` | a session is retired only when no flow needs it |
| wsmux session pool | `server/transport/wsmux_session.go`, `wsmux_pool.go`, `client/transport/wsmux.go`, `shrink_gate.go` | sessions and their age, the rotation gate, requests on their way, dials, the pool's size, shrink tokens | admit, rotate, await a replacement, retire, ask again, refill, grow, shrink | every retired session was replaced first, by a session of its own |
| wsmux server: dispatch | `server/transport/wsmux_dispatch.go`, `wsmux_pool.go` | queue of local connections, setup permits, slots, reservations of legs | plain and striped setup, hand-off, promotion, stop | each permit is given back once; each connection is served or closed |
| wsmux control channel | `server/transport/wsmux.go`, `wsmux_grace.go`, `client/transport/wsmux.go` | control connection, grace timer and its epoch, restart claim, generation, handlers and readers | adopt, lose, grace expiry, reconnect, restart, reload | a reattached channel is not torn down by an old timer; a loss never lasts for ever |
| wsmux client: flows | `client/transport/wsmux.go`, `wsmux_gone.go` | flows, remembered ids, stripe groups | attach, resume, open, assemble | a flow is started once |
| Striped connection | `utils/striping/` | chunks by sequence, reassembly budget, legs | `Write`, `Read`, `admit`, reroute, end markers, parity | the stream is the bytes written, in order; no deadlock on the budget |
| DNS reliable stream | `transport/dns/rel/` | segments in flight, SACK marks, segments out of order, window | `Next`, `Recv`, `Read`, `Write`, `SetMSS` | a reliable stream over lossy exchanges |
| ws transport | `*/transport/ws.go` | control channel, idle connections, hand-over locks, pool counters | hand-over, keep-alive, rotation, pool, restarts | a connection is a flow's or idle, never both |
| tcp, tcpmux transports | `*/transport/tcp.go`, `tcpmux.go` | control channel, queues, sessions and their streams, counters | handshake, hand-over, re-queueing, restarts | the ends find each other again; the counters are what they count |
| udp, UDP over tcp | `*/transport/udp.go`, `accept_udp.go` | sessions per source address, tunnels, channels | first datagram, congestion, end of a session | no send on a closed channel; a successor is left alone |
| DNS tunnel, FEC, probes, start-up, web monitor, dialers | see `PROJECT.json` | | | |

`PROJECT.json` lists every component with its sources, and whether and how far it
is modelled.

### How the parts interact

An upload pump at each end reads its app and writes to the flow's tunnel (a smux
stream with the half-close envelope); a download pump reads the tunnel and
writes to the app. With *replay*, what is sent is kept in the replay ring until
the peer acknowledges it on the same tunnel.

* **Move** (`migrateFlow`, before a session is retired): the server opens a
  stream on another session and asks; the client freezes its upload at a write
  boundary and accepts; the server freezes its own; the ends exchange how many
  bytes each has sent; each installs the tunnel: its upload continues on the new
  one at once, its download reads the old one up to the peer's count and then
  switches.
* **Resume** (`driveResume`, after a session died): both ends are suspended,
  their pumps park; the ends exchange how many bytes each has *delivered*, and
  each replays from there out of its ring.
* Below, smux shares one connection between streams: each stream has a window
  that the reader keeps open, and the session has a bucket of tokens that its
  one `recvLoop` waits for.
* Above, the **pool** keeps sessions for the flows: the server asks for a
  connection with a signal on the **control channel**, the client dials; an
  ageing session asks for its own replacement and is retired when it has come.
  When the control channel is lost the server holds the pool for a grace period
  and the client reconnects; both may restart, which stops a generation of
  goroutines, waits for them and publishes the next.
* **Dispatch** takes an accepted local connection through a queue, a permit and
  a slot to one stream (plain) or several (striped) and hands it to a flow.
* The other transports have the same parts in simpler form: a control channel,
  signals that ask for connections, a queue of them, and handle loops that give
  each to a local connection.

### What is hard about it

Two goroutines per end, an acknowledger, handshake goroutines of which several
may run, two processes, and sessions that die between any two of their steps.
The swap's bookkeeping is shared and is changed in several critical sections;
pumps sleep in reads that somebody must remember to wake; counts go stale; a
handshake may time out on one side only. In smux, `recvLoop` sleeps for
everybody, control frames overtake data, two callers send window updates, and
counters wrap after 4 GiB. In the pool and on the control channel, decisions are
taken on counts that were read without a lock, requests are lost or swallowed,
timers of an old loss meet a new connection, and several goroutines of two
generations exist at once. In dispatch, one connection's setup may be ended by
its guard, its context, its sessions or itself, and each has something to give
back. A striped reader must neither deadlock on its budget nor fail a flow that
misses nothing. The `hazards` in `PROJECT.json` name each of these at its line
with the properties that would catch it going wrong; one without a property says
why.

## 2. The modules

| Module | Models | Extends |
|---|---|---|
| `RetainedBytes` | what a replay ring promises (abstract) | |
| `ReplayRing` | `replay.go` and its sender, `waitReplayRoom` | |
| `PumpSwapper` | both ends of one flow and the tunnels between them | |
| `ResumableFlow` | moving and resuming, handshakes, failing sessions, the specification and its properties | `PumpSwapper` |
| `ResumableFlowProofs` | theorems about it | `ResumableFlow` |
| `MCFlow` | the scenarios of its runs | `ResumableFlow` |
| `FlowTable` | where a flow is on record, who moves it, and who knows it: the registries of both ends | |
| `FlowStateProofs` | theorems about the ring and the tables | `ReplayRing`, `FlowTable` |
| `MCFlowState` | the ring and the tables, for one run | `ReplayRing`, `FlowTable` |
| `SmuxStream` | flow control of a smux session, protocol version 2 | |
| `ServerControl` | control channel, grace and generations of the wsmux server | |
| `ControlPlane` | the client's side, a network that fails, the specification | `ServerControl` |
| `ControlPlaneProofs` | theorems about both | `ControlPlane` |
| `SessionPool` | sessions between both ends: admission, rotation, requests, dials, pool size | |
| `SessionPoolProofs` | theorems about it | `SessionPool` |
| `Dispatch`, `MCDispatch` | from a local connection to a flow | |
| `DispatchProofs` | theorems about it | `Dispatch` |
| `Striping` | one direction of a striped connection | |
| `StripingProofs` | theorems about it | `Striping` |
| `DnsRel` | one direction of the DNS carrier's reliable stream | |
| `StreamProofs` | theorems about both reliable streams | `SmuxStream`, `DnsRel` |
| `TunnelCommon` | what ws, tcp, tcpmux and udp share | |
| `WsTunnels` | the ws transport | `TunnelCommon` |
| `StreamTunnels` | tcp and tcpmux, and the control channel of udp | `TunnelCommon` |
| `UdpSessions` | datagrams: udp, and udp over tcp | `StreamTunnels` |
| `Transports`, `MCTransports` | their composition: one of them runs | `WsTunnels`, `UdpSessions` |
| `TransportsProofs` | theorems about all of them | `Transports` |

A definition whose comment begins with *Mutant* or *A seeded fault* is a
deliberately wrong variant of the one that follows, named in `PROJECT.json` under
`mutants`; no specification uses it.

Payload is abstracted in the same way everywhere: byte (or chunk) number *i* of a
direction **is** the number *i*, so a lost, repeated or misplaced byte is visible
in what the reader has got. Connections, sessions and timers are *slots* that are
used again once nothing refers to them, so that their number bounds what exists
at a time and not the length of a behaviour; where that is impossible a constant
`Max...` names the bound.

### ReplayRing

`buf`, `cap`, `head`, `size`, `base`, `limit`, `space` are the fields of
`replayRing` (`cap` is `len(buf)`), `pc` and `want` are the sender. `CheckFree`
and `WakeSpace` are `waitFree`'s loop, `GrowTimer` and `Wake` the timer and the
other reasons for which `waitReplayRoom` goes on, `AppendBytes` the append with the
doubling of the storage, `Ack` is `ackTo` with any offset at all (late, repeated,
beyond what was sent), `Discard` gives replay up. The check for room and the
append are separate steps, as in the code. The sizes (64 KiB, 1 MiB, ...) are
constants; the proofs hold for all of them.

### PumpSwapper and ResumableFlow

`flow[e]` is one end: the fields of `PumpSwapper` (`cur`, `next`, `freezeReq`,
`frozen`, `installed`, `upSwitched`, `dlSwitched`, `upLimit`, `dlLimit`,
`upEnded`, ...), the ring as its two offsets `base` and `end` (that is what
`ReplayRing` and its refinement of `RetainedBytes` justify), the goroutines
(`up`, `dl`, `ack`, and `att[t]`, the handshake on tunnel *t*), the deadlines
that are armed on the app's socket, and the app (`read`, `got`, `st`).
`tun[t][e]` is an end's side of a tunnel: the records on their way to it, and
the envelope's state.

| Code | Definitions |
|---|---|
| `pumpAppToTunnel` | `UpBoundary`, `UpSend`, `UpFull`, `UpEOF`, `UpEnd`, `UpWake`, `UpSwitched`, `UpReplay` (together `Upload`) |
| `pumpTunnelToApp` | `DlData`, `DlAck`, `DlOverrun`, `DlWake`, `DlEndOrFail`, `DlDecide`, `DlSwitch`, `DlSwitched` (`Download`) |
| `noteDelivered`, `kickAck`, `flushAck` | `KickAck`, `FlushAck` |
| `halfCloseConn` | `Written`, `WriteMay`, `Popped`, `Ended`, `Closed`, `EndWritten`, `ServeAcks` |
| `Suspend`, `Abort`, `switched`, `release` | `Suspended`, `Aborted`, `Switched`, `Release` |
| `migrateFlow`, `resumeOnce` (server) | `OpenMove`, `OpenResume`, `ReadVerdict` |
| `handleAttachStream`, `handleResumeAttach` (client) | `ReadAttach`, `WriteAccept`, `FailLeg` |
| `FreezeUp`, `Thaw`, `exchangeCounts`, `finishFrozen`, `Install` | `Reserved`, `Frozen`, `Thawed`, `WriteCount`, `Counted`, `CountFailed`, `Install` |
| `ResumeBegin`, `ResumeFinish` | `ResumeBegin`, `ResumeFinish`, `ReplayEnded` |
| `driveResume`, `moveFlowsOff`, `retireSession` (for this flow) | `SessionLost`, `GiveUpMove`, `Retire` |

A step is one critical section of the swapper's mutex or one blocking operation.
The two critical sections in which a pump takes `p.next` and reports its switch
are two steps (`UpWake`, `UpSwitched`), and so are `flushAck`'s choice, write and
record. `Cut` lets a session die with any prefix of what is in flight in each
direction still readable. A *scenario* (chosen in the initial state) says how much
each app sends, who closes, how many tunnels, moves and dead sessions there are
and what else may go wrong, so that one run covers several questions without
their product.

### FlowTable

The bytes of a flow are left to `ResumableFlow`; here a swap is asked for, recorded,
built, installed and reported, by any of the goroutines that may move the flow.
`entry` is the server's `resumableFlow` (`sess`, `at`, `swaps`); `moves` is what
`Recorded` says of `actor`, the goroutines: `"drive"` is `driveResume`, a member of
`Movers` one goroutine of `moveFlowsOff`. The stream an actor asked on, the header on
its way to the client and the client's answer are `on`, `header`, `verdict`; a
session's line may be stuck for any time, and a header on it arrives late.
`Took`, `Installed` and `Report` are steps of their own (the swapper runs one swap
at a time, but whoever ran it reports when it is scheduled), and so are a
retirement (`Retire`) and the look for the flows on the session
(`MigrateFlowsOff`). `known` and `gone` are the client's `promotableFlows` and
`goneFlows`; the look-up of `handleAttachStream` and `neverSeen` are two steps,
because they are two critical sections. `started` is a history variable: how often
the target was dialled. How long a finished flow is remembered is its kind (`kept`):
`Expires` assumes what the constants `goneFor` and `reopenedFor` are chosen for.

### SmuxStream

`snd[s]` and `rcv[s]` are the two ends' `Stream` with the goroutines that use
them; `shaper`, `wire`, `recv`, `bucket`, `notify`, `back`, `upd` are the
sessions. `writeV2` is `LoadCounters`, `LoadWindow`, `NextFrame`, `FrameWritten`,
`Sleep`: the counters it loads one by one are loaded in separate steps, and
`update` stores its two in separate steps (`RecvBack`, `StoreWindow`). `tryReadv2`
is `TryRead`, `ReturnTokens` and `ReaderUpdate`; `SetReceiveWindow` runs beside
it (`WindowSet`), excluded only by `updLock`. `StreamClosed` gives the tokens of
unread data back. `Plus` and `Minus` are the 32-bit arithmetic with 2^32 scaled to
`Mod`; `Carried` lets a stream start just before the wrap.

### ServerControl and ControlPlane

A control connection goes through `upgrade` (its HTTP request), `Adopt`
(`adoptControl`), `Serve` (`channelHandler`), and is lost in several ways
(`ReadFails`, `WriteFails`, `ClosedByClient`), each of which calls
`OnControlLost` as a step of its own, later. `timers` are the grace timers that
were armed, each with the loss it was armed for being current or not;
`GraceExpires` is the callback's count of live sessions and `GraceDecides` its
decision under the lock, between which anything may happen. `claimed` is the
restart claim, `restarts` the requests that have not run. `RestartStops`,
`JoinTimesOut` and `RestartPublishes` are `Restart`. The client's side is the same
with `ReconnectBegins`, `ReconnectWaits`, `ReconnectDials` and
`ReconnectGivesUp` for `reconnectControl`. The messages SG_Closed on their way are
`toS` and `toC`; a cut loses them.

### SessionPool

`rotation[x]` is a session's rotation: ageing, queued at the gate (`gate`, the
mutex-like channel), waiting for its replacement (`AwaitReplacement`, `Reask`
after the timeout), retired (`RetireIfReplaced`), drained. The request goes
through `reqNewConnChan` (dropped when full), a signal (lost when the control
channel dies), the shrink gate (swallowed by a token) and a dial (which may
fail). `Refill`, `Grow` and `Shrink` are `poolMaintainer`. `paid[y]` is a history
variable: how many retirements took `y` for their replacement.

### Dispatch

`conn[c]` is how far a local connection is: queued, waiting for a slot,
reserving, opening, sending its header, active, over. `GuardFires` is the
setup's guard, a goroutine that closes what the attempt has opened when its time
is over or the generation stops, `Settled` how the attempt learns of it.
`ReservePlain`, `ReserveStriped` and `SelectLegs` reserve streams of sessions,
the latter spread over edges. `promoter[c]` is `watchPromotion` with `promoteFlow`, a
worker of its own next to a heavy plain flow: it opens legs on several sessions
(`PromoteBegins`), asks the client (`PromoteAsks`), and swaps (`PromoteSwaps`) or
closes them (`PromoteFails`). The flow may end at any point of that. When the
context ends while legs are being opened, the promoter returns and leaves its
opener behind, which closes what it opens later (`PromoteLeaves`, `OpenerCloses`).
`SessionDies`, `SessionJoins` and `Stop` happen at any time.

### Striping

`Write` numbers a chunk and `Enqueue` or `WriteRefused` ends it: between the two the
connection may be closed for writing, torn down or broken off. `TakeJob` and
`WriteChunk` are a leg's write worker, `Reroute` is the watchdog that queues a copy
of a chunk that is stuck on a leg. `CloseWrite` may come at any time, also beside a
`Write` (the other direction, or a cancelled context, closes too); it waits for the
workers (`WorkerEnds`, or `FlushTimesOut`), reads the total under the writer's mutex
(`ReadTotal`) and writes it on every leg (`EndMarker`). The receiver knows the total
from the marker alone (`total`), and `got` is what its caller has been given. The
receiver's leg readers are `ReadHeader`, `ParkLook`, `ReadPayload`, `ForceAwaited`
(the charge over the limit), `Put` (the hand-over to `Read`); `Deliver`, `Stash`, `Consume`, `ReturnEOF`, `ReturnError`
and the two looks at parked legs (`ParkFirstLook`, `ParkDrain`, `ParkSecondLook`)
are `Read`. `used` is the reassembly budget's charge.

### DnsRel

`NextNew`, `NextResend` (with `Split` when the segment size has shrunk) and
`NextAck` are `Next`; `RecvAck` and `RecvData` are the two halves of `Recv`.
`After` is the wrapping comparison, with 2^32 scaled to `M`. `Lose` and `Repeat`
are the network; delivery is in any order.

### Transports

`WsTunnels`: `cli[c]` and `srv[c]` are the two ends of an idle connection,
`lock[c]` its hand-over lock, `ka[c]` its keep-alive worker, `loop[h]` a handle
loop. A ping is three steps: it is written under the lock (`KaPing`), the lock is
released (`KaWrote`, or `KaWriteFails` when the write failed, which it also does on
an open connection once a loop has set its deadline), and after a failed one the
connection is closed (`KaCloses`), by which time a loop may hold the lock. `spoiled`
are the connections on which a write has failed. `StreamTunnels`: `arrived` is the server's queue of connections, of which
one may be the control dial; `sess[x]` is a tcpmux session with the streams it
carries. `UdpSessions`: `active` is the listener's table of addresses, `ent[e]` a
session, which may be congested and replaced by a successor. In each, `Restart`
is two steps, with whatever the old generation still does in between.

## 3. The runs

Every property of a passing run has a mutant of the code that breaks it
(`PROJECT.json`). `Next` of every module is fully exercised by the passing runs.

| Run | Distinct states | Question and answer |
|---|---|---|
| `flow_state` | 1.14 million | What is kept of a flow. Its bytes: through wrap, growth, a limit that is no power of two, release and discard the ring implements `RetainedBytes` and reads back what it holds (`ReadAtOK`), and its sender is woken. Its place: the session that carries the flow is on record in whatever order swaps are reported (`CarrierOnRecord`), and somebody takes it off a session that was retired, even one that was picked, retired and looked at before the move to it was on record (`NotLeftBehind`). Its identity: however its openings are held up, asked for again and dropped, the target is dialled once (`StartedOnce`). |
| `flow` | 216 thousand | A flow without replay is moved between any two of three bytes, a flow with replay is moved while its ring is full, one loses its session, and a move of a flow that cannot be resumed times out at one end or both with two bytes and an end under way: no byte is lost, repeated or out of order (`Integrity`), no truncation passes for an end (`CleanEnd`), nobody gives up early (`NothingCutShort`), and under fairness whoever is sent to gets everything and is told that it is over (`Completes`). |
| `faults` | 746 thousand | Handshakes that time out at one end or both, a dead session, retired sessions, a flow that is given up on, a failing app and a resume window that runs out: no pump asleep that somebody waits for (`PumpsAreWoken`), no acknowledgement forgotten, retirement is not noticed (`Undisturbed`), no deadlock. |
| `smux` | 426 thousand | One stream whose window is larger than the session's bucket, wrapping counters, and one of: its window changed, an early close, a timeout. |
| `control` | 966 thousand | The control channel is cut, refused, re-dialled, said goodbye on, either end reloads: a claimed restart and a control channel exclude each other (`ClaimExcludesControl`), a loss is always watched (`LossIsWatched`), a late loss leaves the new channel alone (`LateLossIsHarmless`), nothing of a generation runs twice (`NothingTwice`), and the grace ends (`GraceEnds`). |
| `pool` | 300 thousand | Sessions age and rotate while requests are dropped, lost, swallowed and dials fail: no new session pays for two retirements, and a rotation gets its replacement (`RotationProceeds`). |
| `dispatch` | 451 thousand | Connections are set up, handed over, promoted and given up while sessions die and join and the generation stops: slots, permits and reservations balance (`BooksBalance`), the guard never closes a flow it handed over and nothing of a connection outlives it (`HandedOffOrClosed`), everything queued is served or closed (`SetupEnds`). |
| `striping` | 5.34 million | Legs deliver out of step into a budget smaller than the stream, with copies, and `CloseWrite` comes at any time, beside a `Write` too; a leg is cut, a source breaks off or a flush times out. The budget is charged for what is held (`BudgetConserved`), the caller is given the chunks as they were written and a clean end only after every chunk that `Write` had taken (`LosslessOrLoud`), a close without faults loses none (`CloseIsLossless`), and a flow that misses nothing is not failed for its budget (`NeverStarved`). |
| `dns` | 129 thousand | Across the wrap of sequence numbers, with loss, repetition and reordering, closing windows and re-cut segments: in order and once, nothing is withheld that the peer lacks (`SackedIsHeld`), everything arrives (`Delivered`). |
| `transports` | 715 thousand | ws, tcp, tcpmux, udp with queues of one and one fault anywhere: the counters are what they count, no send on a closed channel, a successor keeps its entry, a handed-over connection is the flow's, and the ends of tcp, tcpmux and udp find each other again (`Reconnects`). |
| `nil_tunnel`, `ws_rotation` | | Counterexamples: see [section 5](#5-where-code-and-comments-disagree). |

Each module states its type invariant; of the ring, the control channel, the
pool, dispatch and striping it is proved (`TypeCorrect`, `ControlTyped`,
`PoolTyped`, `DispatchTyped`, `StripingTyped`).

**Bounds.**

* Flows: a tunnel is used once, so the numbers of a scenario bound the history
  of a flow, not what happens in one episode; two tunnels are enough for a swap
  and three for a swap or resume on top of another. Pumps treat bytes alike, and
  the interesting places of a byte are before, at and behind a count; a ring
  limit of one makes every second byte wait. Where the client's app sends nothing,
  both ends still run the same code, and their parts in the handshakes differ
  only in who asks.
* `flow_state`: the ring's sizes are scaled to its first allocation. Three sessions
  are the one a flow leaves, the one it is put on and one to leave that for; four
  streams are the opening, a question, its reopening and one attempt more. The two
  kinds of behaviour (a flow whose opening is held up; a flow that runs while two
  sessions are retired) are explored apart. Two movers with two attempts each,
  and stalls together with retirements, were checked with fewer streams.
* `smux`: five bytes in frames of at most two pass the window (4), the bucket (2),
  the initial window (2) and the wrap (16, starting at 14). One stream is checked;
  what streams share is the bucket and the wire, and about those the theorems
  `NeverAsleep`, `EndIsEnd`, `NoTokenLost` and `WindowRespected` are for any
  number of streams.
* `control`: two connections exist at a time, so an old and a new one always can;
  one fault (cut, failed dial or reload) suffices for each, because an SG_Closed
  of one end is what the other then has to deal with. Two restart requests of the
  client overlap.
* `pool`: three slots are a retiring session, its replacement and a rival for it.
  Two sessions rotating at the same time are reached through growth
  (`MaxSize` 2).
* `dispatch`: two connections compete for slots of two sessions on two edges,
  plain against striped and striped against striped, with a queue of one and one
  try of a promotion. A further try begins where the first did, with no leg open;
  the theorems are for any number.
* `striping`: three chunks over two legs with room for one make the awaited chunk
  wait behind a later one on the other leg; the third is what a copy overtakes.
  After a source that broke off or a flush that timed out two chunks are followed
  (`Reading`): one that was taken, and one that races the close.
  A behaviour is followed until `Read` has returned its end or error.
* `dns`: three bytes from sequence number 6 of 8 cross the wrap; segments of two
  that are re-cut to one.
* `transports`: channels and pools of one are both empty and full within a few
  steps; three sources of datagrams are a session, its successor and one more in
  the queue.

**Fairness.** Weak fairness of each goroutine's next step (scheduled goroutines
run) and of its armed timers. None for failures, timeouts of a peer, early closes,
moves, reloads: they need not happen. Beyond that:

* `flow`: of `OpenResume` while the flow is suspended and there is a session left
  (`driveResume` retries until then). Where weak fairness of a disjunction is used
  (`Upload`, `Handshake`, `Writer`), the disjuncts are the steps of one goroutine.
* `control`: of the grace timer alone. Nothing is asked of the client or the
  network, so the grace ends without them.
* `pool`: of admission, settling, asking again, retirement, refill and dials; the
  control channel comes back (`control` and its grace are about that).
* `dispatch`: of workers, their guards, the promoters and the
  dispatcher; a flow must end only once the generation is stopped.
* `dns`: strong fairness of resending the oldest segment. It is the one whose
  timer always runs, but each acknowledgement may disable the step by making
  another the oldest. A packet that is not lost arrives.
* `transports`: strong fairness of the handshake with a control dial: a client
  that dials for ever is once answered before its two seconds are over. Of the ws
  server, strong fairness of what waits beside other work that may come again and
  again: a mutex (`LoopLocks`; Go's hands itself to a waiter that starves), a timer
  that stays fired (`LoopExpires`) and a closed channel (`KaTold`, `KaStops`). The
  lasso of `ws_rotation` is therefore not one of starvation: the lock is never free.

**Deadlock** is checked in `flow`, `faults`, `control`, `pool` and `striping`.
In `flow_state`, `smux`, `dispatch` and `dns` everything may be done and over; in
`transports` nothing has to happen once no connection comes from outside.

## 4. The proofs

`tlapm` checks every proof to its leaves; nothing is assumed but the named
`ASSUME`s on the constants, which TLC evaluates in the runs.

**ReplayRing** (`FlowStateProofs`, assumption `RingAssumption`: the sizes are
naturals, positive where the code's are, and the largest limit is no smaller than
the first). The inductive invariant is

    Inv == TypeOK /\ ContentOK /\ Bounded /\ NoLostWakeup /\ SenderOK

`SenderOK` is the strengthening: a sender that has been granted room still has it
when it appends, because only ACKs and growth happen in between and both add room.
Without it `Bounded` is not inductive: check and append are two critical
sections. `ContentOK` says slot `(head+i) % cap` holds byte `base+i`; that an append
preserves it through wrap and growth is `StoreOK`, which rests on `Wrap` (the slots
of fewer than `cap` successive bytes are distinct), and `AckOK` does the same for
acknowledgements that shrink or free the storage. From `Inv`:

* `TypeCorrect`, `ContentCorrect`, `BoundKept`, `SenderWoken`: the invariants of
  the ring, for all sizes, lengths and acknowledgements;
* `ReplayFaithful`: `readAt` returns the flow's bytes from any offset, clipped
  to what is retained;
* `Refinement`: `Spec => ImplementsRetainedBytes`: every step retains the next
  bytes, forgets the oldest ones, or changes nothing one can see.

**SmuxStream** (`StreamProofs`, `SmuxAssumption`). Four invariants, for any
number of streams and any sizes.

`NeverAsleep`: `Spec => []RecvLoopWoken`. The invariant is inductive as it stands: the
only steps that raise the bucket signal it (`TokensBackAwakes`), and no step but
`recvLoop`'s own takes the signal away or puts it to sleep (`OthersKeepAwake`,
`WriterAside`).

`EndIsEnd`: `Spec => []EOFMeansAll`, from `EOFInv`. The property speaks only of a
reader that was told of the end, and says nothing of bytes still under way, so it
is far from inductive. `EOFInv` adds, for each stream:

* `LineOK`: what the receiver has buffered and then what is on the wire (the
  stream's *line*) are runs of bytes in order, behind what is read, and every byte
  that the writer counts as sent is read or among them;
* `LineBefore`: nothing in the line lies beyond what the writer counts as sent, as
  long as no Write failed or the frame of the failed one is still queued;
* `OneQueued`: one data frame of a stream is queued at a time, and it holds the bytes
  that the writer sends next;
* `SynOnce`, `SynFirst`: the SYN exists once, and no data is ahead of it;
* `FinLast`: behind the FIN of a Write that succeeded there is no data.

A FIN is a control frame and overtakes data in the queue, and a frame that a
timed-out Write left there may therefore follow it. That is why the property is
about Writes that succeeded. The step proof does not go through the conjuncts once
per action but sorts the actions by what they do to one stream: what its writer does
(`Goes`, `Stops`, `Opens`, `Ends`, `Writes`), what the send loop puts on the wire
(`SendsCtrl`, `SendsData`), what the receiver takes off it (`Gets`) and what the
reader does (`Rests`, `Takes`, `Hears`, `LetsGo`, `Forgets`), with one lemma per kind.

`NoTokenLost`: `Spec => []TokensConserved`. A token is in the bucket, held for a
byte that is buffered, or in the hands of a `Read` or `Close` that has yet to give
it back. The tokens held are a sum over streams, and what a stream holds a sum over
its pieces: the module begins with lemmas about the community modules' folds
(`SumLess`, `SumChange`, `SumGrows`, `SumShift`), each by a least counterexample, and
from them every step is one of "this stream holds that much more or less"
(`HeldChanges`, `TokensMoved`).

`WindowRespected`: `Spec => []WindowKept`. Counters wrap anywhere and are loaded and
stored one at a time, so the invariant is about where counts come from: there is one
number *c* of bytes the stream had carried before such that every count of what was
read, in a counter, in a frame or in a local variable, is *c* plus a number the
reader has had (`CountsAre`). A count is therefore old at worst, and what `writeV2`
takes for in flight is no less than what is (`InFlightOK`, `NeverTooFew`); from
that follows what is granted, queued, on the wire and unread together
(`BytesOK`).

**DnsRel** (`StreamProofs`, `RelAssumption`). `StreamInOrder` and
`SackedSegmentsHeld`: `RelSpec => []InOrder` and `RelSpec => []SackedIsHeld`, for any
ring of sequence numbers that is twice as large as what is written, any segment and
buffer sizes and any losses, repetitions and orders of arrival. `RelInv` puts every
sequence number back at its place in the stream: a segment anywhere (to be resent,
on the network, out of order at the receiver) holds the bytes of the stream at the
place its number stands for (`IsSeg`); an acknowledgement, however late, stands for
bytes the receiver has (`AckOK`); and every byte of a segment that is marked is held
by the receiver (`SackOK`). That the wrapping comparison
orders two numbers as their places are ordered needs the ring to be twice as large
as what is under way. The filter of `RecvAck` (`Kept`) and the re-cut of a segment
(`Split`) have lemmas of their own.

**PumpSwapper and ResumableFlow** (`ResumableFlowProofs`, `SwapperAssumption`), for any
traffic and any number of tunnels, moves, dead sessions and faults, on two
conditions.

* `Prompted`: no handshake outlives a later resume (section 6).
* `Untorn`: no `Suspend` falls between a pump's move to the new tunnel and the
  `switched()` by which it reports it. This is the interleaving of the finding
  `nil_tunnel`, so without it the theorems are false: the flag that is left
  completes the next swap too early, and `Install` then wakes a pump on a tunnel it
  does not read. A flow that is never moved, or has no replay, is
  always untorn.

`PumpsWoken`: `Spec /\ []Prompted /\ []Untorn => []PumpsAreWoken`,
`AcksNotForgotten` the same for `NoForgottenAck`, and `NextPublished` for
`NextIsPublished`: the property the run `nil_tunnel` violates holds in every
behaviour that is untorn, so the interleaving of the finding is the only cause.
The invariant is `FlowInv`. Each end of it (`EndInv`) says where its goroutines stand
to each other:

* `Reserving`: one handshake at a time has the flow frozen, the flags of a swap
  are set in their order, and a suspension takes the reservation away;
* `UpWoken`, `DlWoken`: whoever is waited for has its deadline armed, is at its
  boundary, or has something to read. `DlWoken` speaks of the bytes still to come
  (`dlBytes < dlLimit`), which is what makes it survive a delivery;
* `ParkedIs`, `Settling`: a resume that exchanges counts has both pumps parked;
* `UpPlace`, `DlPlace`: which tunnel a pump is on, by the flags of the swap;
* `AckOK`: `NoForgottenAck`, strengthened to hold while the upload is frozen, and the
  flush that has still to record what it sent is one for the tunnel in use.

A step changes one end and some sides of tunnels. Ends are records of 32 fields, so
the proof first says of every change (`Suspended`, `Switched`, `Install`, `KickAck`, ...)
that it keeps `EndInv`, whatever the tunnels, then of every operation on a tunnel
that sides only grow, close or lose their head (`Grows`, `ClosedAt`, `EndedAt`), and
puts them together per action.

For flows that are never moved (`Still`: the scenario asks for no move) two more
theorems follow, with any number of dead sessions, resumes and faults and with replay
or without: `ResumedIntact`, `Spec /\ []Prompted /\ []Still => []Integrity`, and
`ResumedEndsClean`, the same for `CleanEnd`. `Untorn` is no hypothesis here, it is
a consequence. The invariant is `Faithful` on top of `FlowInv`, and places every record
of every tunnel in the stream:

* `Local`, of one end: it has not been touched by a move, the ring ends where the app
  has been read to (`Taken`: all but a byte that is held back), the tunnel its pumps
  use is the current one, and what it has delivered is `1, 2, 3, ...`;
* `Line(q, a, b, m, L, u)`: the records of `q` take their reader from byte `a` to byte
  `b`, data in order and nothing beyond `m`, and END only behind all `L` bytes of an
  upload that has ended;
* `Follows`: what is on its way to an end that is on the tunnel, or is about to be,
  is a line that starts at what it has delivered. As long as the session lives it
  ends where the peer writes next (`WritesFrom`), which during a replay is the
  offset to replay from;
* `Tied`: a resume's count is on its way once, to an end that is not on the tunnel
  yet, and says what its sender has delivered; data and END come only from an end
  that is on the tunnel, and the peer of an end that has not said its count is not.

A session that dies shortens lines (`LinePart`) and drops the obligation on
where they end. That is why a resume needs the counts: `ResumeFinish` re-establishes
it from the peer's count, which is what the peer has delivered, and an empty line.
Most steps only drift (`Drifts`: own queues are read, closed or left alone, and the
peer's grow by records that carry no bytes), and one lemma serves them all
(`ReadyBound`); writing data or END (`SentBound`), saying a count, `ResumeFinish`
(`ResumedBound`), delivering a byte (`TookBound`), opening a tunnel and losing a session
have their own.

**FlowTable** (`FlowStateProofs`, `FlowAssumption`). Three invariants, each on top
of `Shape` (types of the tables and of the actors' records), for any number of
sessions, movers, attempts and streams:

* `CarrierIsOnRecord`. Reports arrive in any order, so `CarrierOnRecord` says
  nothing of a report that is still to come. `CarrierInv` adds that whoever is about
  to install has the latest swap number, ahead of the entry and of every other
  report (`HolderIsLatest`, `SwapsCount`), and that the flow's tunnel is on record for
  good or is to be reported by the one that installed it (`TunnelRecorded`).
* `NobodyLeftBehind`. `RetiredTakenCareOf` strengthens `NotLeftBehind`: a mover
  counts as taking care only until it has installed a tunnel, and after that only
  for the session it is still to look at. Without this a mover that has just put the
  flow on a retired session would count for both.
* `DialledOnce`. `OpeningInv` relates the client's memory to the openings still on
  their way: "never seen" is remembered for as long as the server may act on it,
  there is one opening while no long record exists, and a flow that ended is refused
  for as long as an opening may get through.

**ServerControl and ControlPlane** (`ControlPlaneProofs`, `ControlAssumption`,
`FaultAssumption`), for any number of connections, requests and faults.
`ClaimsExclude` and `LossesAreWatched` need `ServerInv`: a claim implies that no
channel is registered **and** that its restart is still queued (`ClaimHeld`), a
loss has its timer until then (`LossTimed`), and only one connection is the first of
its generation (`FirstIsOne`). `OneOfEach` also needs the client's side
(`ClientInv`): whoever may dial is alone, either the dialer of a generation before
any handler runs or the one `reconnectControl` that took the registered
connection off (`OneDials`), and maintainers are started by the dialer only
(`DialerFirst`). `LateLossKeepsSuccessor` is the action property, step by step.

**SessionPool** (`SessionPoolProofs`, `PoolAssumption`): `GateNotLost` and
`PaysOnce` from `RotationInv`. That no replacement pays twice is not inductive:
the decision looks at sessions newer than a mark, so the invariant has to say that
every session that has paid and is still eligible is older than the mark of the
rotation that decides now (`PayersSeen`), and that a queued session has paid for
nobody (`QueuedIsNew`).

**Dispatch** (`DispatchProofs`, `DispatchAssumption`), for any number of
connections, sessions, legs and permits. `DispatchInv` has the counters as tallies
(`Tallies`, `Reservations`: how many connections are at a place) and what ties the
place of a connection to what it holds (`WayInv`: the session it reserves, its
guard, its streams, the queue, the one acceptor; and `PromoterMeans`: only a promoter
that is at work has legs open). A counter moves by one when one
connection changes its place, which is one lemma about cardinalities (`TallyMoves`)
used for all counters and all steps. From it `BooksAreBalanced`, `HandedOff` and,
with `Limits`, `DispatchTyped`.

**Striping** (`StripingProofs`, `StripingAssumption`), for any number of legs and
chunks, any queue, channel and budget. `StripingInv` says that chunks are numbered
in the order in which they leave `writeQueue` and that whatever is anywhere has
left it (`NumberedInOrder`), that a leg's reader handles the head of its leg
(`OnTheLeg`), that one reader at most claims the awaited chunk (`ForcedOnce`), what
the budget is charged for (`Charged`, `WithinLimit`), that the caller has been given
`0, 1, 2, ...` up to the chunk that is being copied out (`GotInOrder`), that a total,
wherever it is (read, on a leg, received), is one read at or after the close and so no
smaller than what is owed (`MarkedWhole`), and `Sound`: while `Read` is open and
nothing was lost, every chunk is with the sender, on a leg ahead of any later one, or
gathered (`NothingMissing`). From it `BudgetIsConserved`, `EndIsWhole` and `NotStarved`.
`EndIsWhole` is about what the caller was given: `complete` compares `nextSeq` with the
number that came in a marker, so the proof follows that number from the sender's
counter over the leg, and each chunk from the leg through channel and `pending` to the
caller. `Sound` is what makes `NotStarved` provable: the code fails a flow after two
looks at the legs with the channel drained in between, so the invariant has to
remember what the first look saw (`LookMeans`).

**Transports** (`TransportsProofs`; `TunnelAssumption`, `WsAssumption`,
`StreamAssumption`, `UdpAssumption`), for any number of connections, sessions,
sources and tunnels. `CountersAreTrue` rests on `PoolInv` (ws) and `MuxInv` (tcpmux: what is
queued, what a handler holds and what a session carries are disjoint, each thing
once), and counts with `CountMoves`. `NeverSentOnClosed` and `SuccessorStays` rest
on `UdpInv`: the entry of an address is a session of that address, and a session
waits in the queue at most once. `HandedOverStays` is an action property of the ws
server and needs `HandInv`: a loop that writes holds the lock and is the only one with
the connection (`LoopMeans`), what is in the queue is in it once (`WaitsOnce`), and a
worker whose ping failed has spoiled its connection, while a flow's connection is not
spoiled (`LockMeans`). The last is why the late close of a failed ping cannot hit a
flow: it may hit a connection that a loop has locked, but on such a connection the
loop's own write fails as well.

Each of these invariants was checked by TLC on the instance of its run before it
was proved, except `Faithful`, which asks for a function that nothing bounds; of that
one TLC has seen the consequences, `Integrity` and `CleanEnd`. Two assumptions came out of the proofs, and the code satisfies them:
sets of connections, sessions and legs are finite (they are counted), and a value
that stands for "none" is not one of them.

**How sums and sequences are proved about.** The prover has no induction on data (the
library's theorems take an operator). A least counterexample does the same work: the
set of sizes at which a statement fails has a least member (`LeastNat`, from the
library's `WFMin`), and at that member the statement holds after all. What a fold
over a set computes is characterised in this way (`AddsExists`, `AddsAgree`).

**Model-checked only.** Liveness and `ENABLED` are beyond the prover. Within its
reach but not proved: `Integrity` and `CleanEnd` of `ResumableFlow` for flows that are
moved, `NothingCutShort` and `Undisturbed`; `CloseIsLossless` of `Striping`. A move has two tunnels in use at once, so
one stream is spread over two queues; `NothingCutShort` and `Undisturbed` also need to know why a flow was
given up.

## 5. Where code and comments disagree

Two runs are expected to be violated. Each states what a comment of the source
says, and `PROJECT.json` quotes the line.

1. `nil_tunnel`: a pump takes `p.next` and calls `switched()` in two critical
   sections. A `Suspend` in between clears the swap and `switched()` then sets a
   flag of a swap that no longer exists. The swap after the resume is thereby
   completed too early and the other pump takes a nil `p.next`.
2. `ws_rotation`: `closeIdleTunnel` keeps the hand-over lock of the connection it
   retires, and the connection stays in the queue. A handle loop that takes it
   from there waits for the lock for ever; its local connection is neither
   served nor closed.

Others that were met while modelling, each outside what the runs state:

* A session that dies between the exchange of counts and the server's `Install`
  makes the server send ABORT on the new tunnel, to an end that has switched
  already: the flow ends, although it could be resumed
  (`promotable_pump.go:626-641`). `NothingCutShort` therefore speaks of flows that
  are not being moved.
* `ResumeFinish` does not check that it finishes the suspension its `ResumeBegin`
  belonged to (`promotable_pump_resume.go:330`): a handshake overtaken by a whole
  other resume replays bytes that were delivered meanwhile. `Prompt` assumes that
  none is.
* The smux read that brings the consumed count to exactly 2^32 resets `incr` but
  sends no update, since 0 means nothing to send (`smux/stream.go:191-201`). With a
  window no larger than a frame, which only a configuration makes so, writer and
  reader wait for ever; larger windows recover at the next read, which `smux`
  shows.
* The client's `Restart` empties its tables of running and finished flows
  (`client/transport/wsmux.go:536-539`). A server that has heard nothing of a flow
  and resumes it behind such a restart is told that it was never seen, and
  the flow is opened a second time; that needs the server to keep its generation
  through the client's restart. `StartedOnce` is about one generation of the client.
* A FIN that arrives before the opener has registered its stream is dropped
  (`smux/session.go:206-217`). The model has the opener register first.
* A stale control handler that acts on SG_Closed restarts its end although a newer
  channel is up, and the other end's answer can make it do so again. Hence no
  property of `control` says that the ends stay connected.
* In the striped reader, a leg that ends cleanly while another is parked gives no
  wake-up; the stall timer is what ends the wait. And `writeLeg`'s comment puts
  rerouted chunks first, while Go's `select` chooses at random: order does not
  matter to any property here.
* The client's `Restart` over tcp, tcpmux and udp sets `poolConnections` to 0 while
  dialers of the old generation still hold their +1 and take it off later, so it
  may fall below what is open. It only feeds the pool's load average, which is a
  free choice in the model; over ws, where it decides on dials, the old dialers
  are joined first (`CountersTrue`).
* `tcp`'s handle loop looks at its 3 s budget only between tunnels, and drops the
  connection it holds without closing it when its context ends.
* A control dial that arrives while the server has a control channel is handed out
  as a tunnel (tcp) or queued as a dead session (tcpmux).
* `udp.go:558-559` deletes from the listener's map without its mutex.

## 6. Assumptions and what is left out

Timing that the models assume:

* **Handshakes end before a later resume does** (`Prompt`): they are bounded by
  timeouts of seconds.
* **An opener registers its stream before the peer's answer arrives.**
* **A session is retired once the server has no stream on it and the flow is
  elsewhere** (`Retire`): the server waits (`retireSettle`, 200 ms) before it
  closes; what the client has not read by then is lost in the model.
* **Records of flows outlive the questions about them** (`Expires`): a finished flow is
  remembered for two minutes, longer than the server resumes it; one that was
  opened again for fifteen, longer than a connection lives that may still hold an
  opening.
* **The two seconds a tcp, tcpmux or udp restart sleeps outlast the workers that
  can run.** Those that are blocked for longer stay, as in the code.

Steps that are one in the model and several in the code, because nothing
between them can be seen by another goroutine or changes an outcome: reading the
app and sending what was read (the deadline that wakes a pump is looked at before
the read); dropping a tunnel together with the `Suspend` or `Abort` that calls
for it; reading the peer's count and `Install`; `resetAcked` with `switched` and
`ResumeFinish`. In `SmuxStream`: the shaper's hand-off to `sendLoop` with the
write on the connection; the sequence number with the enqueueing; the number
written with the write's result (a stream has one writer). In `StreamTunnels`:
the enqueueing of a local connection and its count.

In `SessionPool`, `DecideWhen` is one step where the code takes the gate, reads its
mark and asks in three; a rotation that holds the gate is alone in reading the mark,
and a session that joins or dies between the three is one that did so before or
after. This one is a simplification and not an equivalence: a session that closes
just then still asks in the code, and does not here.

Left out of the modelled parts:

* flows: the bytes of a flow that is opened again (`Reopen`; `FlowTable` has its
  control), replay given up at a promotion to a striped group;
* in the registry: promoted flows, whose groups are moved and regrouped as a whole
  (`regroupFlowsOn`), more than one flow (movers share nothing but
  `migrateParallel`), and restarts;
* inside the half-close envelope: partly read headers, its locks, and write
  deadlines. A record is read or written whole or not at all;
* in smux: version 1 (no windows), keepalive (its occasional extra signal to
  `recvLoop` is left out on purpose: `RecvLoopWoken` shows that it is not needed),
  the accept backlog, read deadlines, the shaper's capacity of 1024 requests, and
  congestion of the direction that carries the window updates; a session's
  death is `Cut` in `ResumableFlow`;
* in replays: a write that misses its deadline on a tunnel that is alive
  (`promotable_pump_resume.go:251`). The flow is suspended again, as it is when the
  tunnel dies under the replay, which is modelled;
* in the pool: how old a shrink token is (a token of any age swallows a signal, as
  in the code), the capacity 100 of `controlFlow` (`MaxTokens` instead), scores,
  stall marks and capacity estimates (a free choice of session);
* in dispatch: the configuration error of FEC, the throttling of `requestGrowth`,
  `withoutStalled`; they only narrow a choice that is free here;
* in striping: `window.go`, deadlines, the process-wide part of the budget; at
  most one fault per behaviour. A frame is on a leg whole or not at all, so the end
  marker that is written after a flush timed out, next to a worker that may still be
  writing, comes before or after that worker's frame;
* in the DNS stream: the clamps of window and buffer sizes at 65535
  (`rel.go:208-210`, `393-398`), and a `Write` that blocks on a full send buffer;
* in the transports: the restart of ws on a signal that no client sends. That a
  WebSocket connection refuses to write once a write on it has failed (`spoiled`) is
  a promise of its library, not of the code here. The copying of a flow's bytes, keep-alive of idle udp
  tunnels, datagram payloads. An address whose session has lost its tunnel stays
  in the table, as in the code, until the server restarts;
* data rates: the scores, capacities and timers that decide *when* something is
  done are nondeterministic choices.

Not modelled yet: the replay budget, the client's stripe groups, parity (FEC), the
sessions and polling of the DNS tunnel.

Not modelled because there is nothing for a model checker in them: formats
(`utils/binary.go`, DNS codec), dialers and TLS, logging, the web monitor, probes
and speed tests, the buffer allocator, test tools, configuration parsing. The
wire messages appear as records.

## 7. Plan

Proofs: `Integrity` and `CleanEnd` of `ResumableFlow` for flows that are moved (the line
of an end then runs through the old tunnel up to the promised count and goes on in
the new one); after that `Undisturbed`.

Then what is not modelled: `ReplayBudget`, composed with several rings; striped
groups in `FlowTable` and their assembly at the client; parity; the sessions of the
DNS tunnel.

## 8. Running it

    tlc -workers 2 -config MCFlow.cfg MCFlow             # any run of PROJECT.json
    tlapm FlowStateProofs.tla                            # any proof module
