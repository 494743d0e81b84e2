# TLA+ models of wsupp

This directory holds TLA+ specifications of `wsupp`, the WPA2-PSK
supplicant daemon in `src/`, and the TLC configurations that check them.
`PROJECT.json` records, in machine-readable form:

- the components and their status;
- every run, with the properties it checks;
- a mutant for each property;
- the map from each definition to the source lines it models;
- the findings;
- the hazards of the code.

## 1. The system

`wsupp` is a single-threaded daemon. Its main loop (`src/wsupp.c`, `main`)
blocks in `ppoll` on the following descriptors, and serves the ready ones
in this fixed order (`check_polled_fds`):

1. the control-socket clients;
2. netlink;
3. the raw EAPOL socket;
4. the control listener;
5. rfkill.

A single timer is passed to `ppoll` as a relative timeout. When `ppoll`
returns 0, `timer_expired` dispatches on `authstate`. Signal handlers only
set `sigterm` or reap the DHCP child. Signals are delivered only inside
`ppoll`. Every iteration ends with `save_config`.

| Part | Source | State | Operations |
|------|--------|-------|------------|
| EAPOL key negotiation | `wsupp_eapol.c` | `eapolstate`, `eapolsends`, `replay`, `anonce`, `snonce`, KCK/KEK/PTK/GTK, the rawsock | `prime_eapol_state`, `allow_eapol_sends`, `handle_rawsock` → `dispatch` → `recv_packet_1`/`recv_packet_3`/`recv_group_1` → `send_packet_2`/`send_packet_4`/`send_group_2`, `reset_eapol_state` |
| Connection manager, netlink | not in `src/` (modelled from `spec.md` §4.2) | `authstate`, `ap`, scan table | `start_connect`, `abort_connection`, `start_disconnect`, CONNECT/DISCONNECT events |
| Event loop, timer, signals | `wsupp.c` | `opermode`, `timerset`, `sigterm`, `pollset` | `timer_expired`, `xshutdown`, `check_*`, `update_pollfds` |
| Control socket | `wsupp_cntrl.c` | `conns[]` with `rep` (report subscription) | `cmd_status`, `cmd_scan`, `cmd_neutral`, `cmd_connect`, `cmd_forget`, `send_report`, `handle_conn`, `handle_control` |
| PSK store | `wsupp_config.c` | `config`, `blocklen`, `datalen`, `modified` | `load_config`, `extend_config`/`remap_config`, `save_psk`, `load_psk`, `drop_psk`, `save_config`, `drop_config`, `load_state`/`save_state` |
| Rfkill | `wsupp_rfkill.c`, `check_rfkill` in `wsupp.c` | `rfkill`, `rfkilled`, `rfkidx` | `retry_rfkill`, `handle_rfkill`/`handle_event`, `match_rfkill`, `bring_iface_up`, `check_rfkill` |
| DHCP child | `wsupp_ifmon.c` | `dhcpid` | `trigger_dhcp`, `kill_dhcp`, `reap_dhcp` |
| IE parser | `wsupp_sta_ies.c` | none (pure) | `parse_station_ies`, `parse_rsn_ie`, `get2le`, `get4be` |
| KDE walk | `wsupp_eapol.c` | `GTK`, `gtkindex` | `fetch_gtk`, `store_gtk` |
| Client tool | `wifi*.c` | none across runs | argument handling, message building, output |
| Control-message receive | `nlusctl/recv_msg.c` | `struct urbuf`: `buf`, `mptr`, `rptr`, `end`, `msg` | `uc_recvmsg`, `shift_buf`, `take_complete_msg` |

### How the parts interact

- A connection attempt (`cmd_connect`, or automatically) calls
  `start_connect`. This primes the EAPOL machine (`WAITING_1_4`, sends
  off) before ASSOCIATE is sent.
- The AP's 1/4 arrives on the rawsock. It may come before or after
  netlink reports CONNECT, and CONNECT calls `allow_eapol_sends`.
- After 3/4 and 4/4, `send_packet_4` installs the PTK and the GTK and
  calls `handle_connect`, which sets CONNECTED.
- Group rekeys (1/2, 2/2) arrive at any time while NEGOTIATED.
- A failed check, a failed `sendto`, a DISCONNECT event, the connect
  timer, or a NEUTRAL command ends in `abort_connection` or
  `start_disconnect`.
- The rawsock is never closed between associations. Frames queued for
  one association can be read during the next.
- The kernel queues an rfkill event on `/dev/rfkill` for every block
  change of every radio. wsupp follows one adopted radio. On unblock it
  must bring the interface up itself, because the kernel does not.

### What is hard here (see `hazards` in PROJECT.json)

- The race between 1/4 and the CONNECT event.
- Frames that are lost, reordered, retransmitted or stale, and forged
  frames.
- The timer, a relative `ppoll` timeout that any activity restarts.
- Coalescing signals.
- Buffer accounting and the 100-byte line buffer in the PSK store.
- Off-by-one bounds in the IE parser and the KDE walk.
- Messages cut anywhere by a stream socket, and a receive buffer that is
  compacted under them.
- rfkill events that are read after the radio's state has changed again.

## 2. Plan

Modules are listed in order of importance. All items are done.

1. **`Eapol`** (done). The handshake and the rekey, composed with:
   - the kernel link;
   - an IEEE 802.11 authenticator;
   - the netlink events;
   - a lossy, reordering radio;
   - an attacker;
   - the connect timer and `cmd_neutral`.

   `MCEapol` instantiates it.
2. **`PskStore`** (done), with the abstract **`PskMap`** it refines. It
   models the config buffer as a sequence of lines, with SSID escaping
   and the 100-byte line buffers byte by byte.
3. **`Daemon`** (done). It models:
   - the main loop step by step;
   - the control socket and its clients;
   - SIGTERM and the shutdown;
   - the DHCP child;
   - the connection manager's requests, with late kernel answers.
4. **`Rfkill`** (done). The watcher on `/dev/rfkill` and the kernel
   behind it: the radios' blocked states, the event queue, and the
   interface taken down on block. It is the fourth part of `MCParsers`.
5. **Buffer accounting** (done, inside `PskStore`, because the same
   handlers edit the buffer and size it). `extend_config`, `remap_config`
   and `mmap_config_buf`, with `mremap` growing in place or moving.
6. **`StaIes`** (done). The IE parser's loop, one step per element, with
   its decoders as operators, checked against a RECURSIVE reference
   decoder over every prefix of a set of element buffers.
7. **`Kde`** (done). `fetch_gtk`'s walk over EAPOL key data, with
   `store_gtk`, one step per element, checked against a reference decoder
   like `StaIes`. Both parsers share the `parsers` run (`MCParsers`).
8. **`UcRecv`** (done). `uc_recvmsg` with its buffer compaction, a
   caller that calls again, and a peer that writes a stream of messages
   in pieces of any size. It is the third parser of `MCParsers`.
9. **`Association`** (done). An abstract specification with the states
   IDLE, CONNECTING and CONNECTED, where the keys are either taken from
   the AP or absent. `Eapol` refines it.

## 3. Modules and their correspondence to the code

### `Eapol.tla`

**State.**

- Supplicant: `authstate`, `eapolstate`, `eapolsends`, `replay`,
  `anonce`, `snonce`, `kck`, and `draws`, a counter that makes each
  `fill_rand` SNonce fresh.
- Kernel: `ptkInstalled`, `gtkInstalled`, `link`. `link` is `"port"`
  while the AP has associated us but our transmissions are still
  dropped, and `"assoc"` after that.
- `gtkLog`: the GTKs installed in the current association, in order.
- Access point: `apState`, `apReplay`, `apM1Replays`, `apPTK`, `apGTK`,
  `retries`.
- Radio: `toSta` and `toAp`, sets of frames, so frames can be lost and
  reordered.
- `nlq`: a FIFO of netlink events, each tagged with its association.
- `session` (also the AP's ANonce), `forged`, and `stops`/`cancelled`,
  the NEUTRAL commands.

**Abstraction.**

- A key is the pair of nonces it is derived from (`pmk_to_ptk`).
- A MIC is the key it was computed with.
- A frame is a record with:
  - the key-info bits under the `ptype` mask;
  - the replay counter;
  - the nonces;
  - the MIC;
  - the GTK it carries;
  - `lenfix`, the declared EAPOL length minus the real one;
  - a ghost `sid`, the association it was sent in, read only by
    properties.

**Actions.** Each supplicant action models one whole handler:

- `handle_rawsock` covers the length check, `dispatch`, and for each
  state:
  - `recv_packet_1`: `fill_rand`, `pmk_to_ptk`, then `send_packet_2` or
    WAITING_2_4;
  - `recv_packet_3`: five abort checks, then `send_packet_4` with
    `upload_ptk`, `upload_gtk`, `cleanup_keys` and `handle_connect`;
  - `recv_group_1`: three ignore checks, then `send_group_2` with
    `upload_gtk`.

  A failed `sendto` (`transmit` plus the `Faults` branch) aborts.
- `handle_netlink` covers CONNECT (`allow_eapol_sends`), DISCONNECT
  (`abort_connection`), and events of an earlier association, which it
  ignores.
- `timer_expired`: the CONNECTING branch.
- `cmd_neutral`: `start_disconnect` asks the kernel to disconnect. The
  kernel drops the keys and the link and queues DISCONNECT. The daemon
  stays CONNECTING or CONNECTED, and can still read rawsock frames,
  until `handle_netlink` takes that event and calls `abort_connection`.
- `start_connect` (spec-modelled).

The environment actions are `KernelConnect`, `ApStart`, `ApRecv`,
`ApRetransmit`, `ApGiveUp`, `ApRekey`, `Forge` and `Lose`. The AP is
modelled as IEEE 802.11 describes it:

- it accepts a 2/4 that answers any 1/4 it sent;
- it retransmits with a new replay counter;
- it gives up and deauthenticates.

**Abstracted away, on purpose:**

- the EAPOL `type` and `pactype` checks, which only forged frames could
  fail and which end like the bit checks;
- AES unwrap and KDE parsing failures, which an honest AP never causes
  and a forged frame never reaches because its MIC check fails first
  (`Kde` checks the parsing itself: on the key data an AP builds,
  `fetch_gtk` finds the key the AP put there);
- the RSC and the key index;
- the IEs in 2/4.

**Timers.** The daemon's timer is a relative `ppoll` timeout renewed on
every iteration (`main`). It therefore expires only when the daemon has
had nothing to read for a whole period (`DaemonIdle`). Without faults,
timers (the connect timer and the AP's retransmission timer) expire only
when nothing is in flight (`Settled`): they are long compared with frame
latency. With `Faults`, they may expire at any time.

**Fairness.** The daemon's descriptor handlers, and the timer once it may
fire, are weakly fair: the loop serves every ready descriptor. So are the
kernel's completion of an association and the AP's timers and replies.
Rekeys, faults, the attacker, new attempts and user commands are not
forced.

**Refinement.** `Association.tla` is what the station promises of its
link. `authstate` moves IDLE → CONNECTING → CONNECTED → IDLE, or
CONNECTING → IDLE. The keys change in only three steps:
- `Establish` takes the AP's current PTK and an issued GTK;
- `Rekey`, while connected, takes an issued GTK no older than the one
  in use;
- `Drop` clears both.

Any step of the AP may change the AP's keys. `Eapol` maps onto it
directly:

```
Assoc == INSTANCE Association
           WITH state <- authstate, ptk <- ptkInstalled, gtk <- gtkInstalled,
                apPtk <- apPTK, apGtk <- apGTK
```

`AssociationRefined == Assoc!Spec` is checked as a PROPERTY. The
invariants `PtkAgrees`, `GtkAuthentic` and `NoGtkRollback` each check a
piece of this. The refinement also checks:
- the order of the states;
- that no key is installed while idle or connecting;
- that the PTK is not replaced while connected.

### `PskMap.tla` and `PskStore.tla`

`PskMap` is what the store promises its callers. It is a map from each
SSID to a PSK, to no PSK, or to "unreadable" (a line whose key text does
not parse). `Save(s, k)` and `Drop(s)` are the only changes.

`PskStore` models `wsupp_config.c`.

**State.**

- `config`: the loaded buffer, or `NoConfig` before `load_config`.
- `modified`.
- `disk`: the file.
- `alive`: the daemon has not crashed.
- `last`: a ghost, the last call that reported success.
- `losses`: power losses so far.
- `datalen`, `blocklen`: as in the code.
- `maplen`: the size of the mapping `config` points to, as the kernel
  sees it.

A buffer is a sequence of lines. A line is the whitespace-separated
chunks `split_line` cuts it into, plus whether a `'\n'` ends it.

**Abstraction.**

- A PSK `k` in 0..15 stands for the key whose 32 bytes are all `0xkk`.
- SSIDs are byte sequences.
- `fmt_ssid` (escaping of backslash, space and control bytes, with its
  stop at `e - 5`), `fmt_bytes` and `parse_bytes` are operators over
  bytes. Which SSIDs round-trip depends on exactly these bytes.
- Memory is modelled by sizes only. A line's bytes (`TextLen`) are its
  chunks with one separator between them, and its `'\n'`. Every file of
  the models is written that way.
- `PAGE` and the 1024 bytes of slack in `mmap_config_buf` are the
  constants `Page` and `Slack`. `psk_reliable` uses the real 4096 and
  1024, which never remap within three lines. The other runs use 64 and
  64, so the first saved line already remaps.

**Actions.**

- `load_config`, with both failures of `load_config_fails`.
- `save_psk`: formats into the 100-byte line buffer from offset 65, then
  either `change_part` on the first line of the SSID or `insert_line`.
  Both go through `extend_config`, whose outcomes are a set:
  - refused (a negative length);
  - grown in place;
  - remapped, in place or moved (`remap_config`, `mremap`);
  - failed (`ReadFails`).

  `mremap` rounds the old length, `blocklen`, up to pages. After the first
  growth the mapping is longer than that, so its tail stays where it is
  and the remap must move. `insert_line` writes through a pointer taken
  before `extend_config` (`StaleInsert`). After a move that pointer is in
  the unmapped old pages, so the daemon faults. Only when `datalen` ended
  exactly on a page boundary may the write land unseen, leaving zero
  bytes in the buffer.
- `drop_psk`: `find_line` then `drop_line`, including its three
  behaviours on a last line without `'\n'`.
- `save_config`: may be cut short by a power loss, leaving a prefix of
  the lines on disk.
- `drop_config`, which frees the buffer.

The queries `got_psk_for` and `load_psk` are operators. `Store` applies
them to every SSID, and is the refinement mapping:

```
PM == INSTANCE PskMap WITH store <- Store
```

`PskMapRefined == PM!Spec` is checked as a PROPERTY.

`MCPskStore` chooses the SSIDs and files:

- `"a"`, `"a "` and `"\\\t"`: one SSID per branch of `fmt_ssid`.
- A 30-byte SSID, within the 32-byte limit.
- Files that are empty, hold a daemon-written line, hold a lower-case
  key, or end without `'\n'`.

### `Daemon.tla`

`Daemon` models the main loop of `wsupp.c`, the control socket of
`wsupp_cntrl.c`, the DHCP child of `wsupp_ifmon.c`, and the `wifi`
client (`wifi.c`, `wifi_wire.c`).

**The loop.** One iteration is a sequence of steps, tracked by `pc`. It
is split at every point where a signal handler or another process can
act in between:

| `pc` | Action(s) | Code |
|------|-----------|------|
| `save` | `SaveAndLoop` | `save_config`, `while(opermode)`, `update_pollfds` when `pollset` is clear |
| `poll` | `PollReady`, `TimerExpired` | `ppoll` > 0; `ppoll` = 0 then `timer_expired` |
| `conns` | `ConnSkip`, `ConnClose`, `dispatch_cmd`, `ConnsDone` | `check_conn` per slot `ci`; `handle_conn` → `dispatch_cmd` → `cmd_*` |
| `netlink` | `NlTrigger`, `NlScanEnd`, `NlConnect`, `NlDisconnect`, `NlStale`, `NetlinkDone` | `check_netlink`, with the connection manager's event handling |
| `fork` | `DhcpAssign` | `trigger_dhcp`, the window between `fork` and `dhcpid = pid` |
| `control` | `AcceptConn`, `ControlDone` | `handle_control`: the accept loop with `grab_conn_slot` |
| `post` | `Post` | `if(sigterm) xshutdown()` |
| `exited` | none | `save_state`, `unlink_control`, exit |

`PollFds` and `PollRevents` give the `pfds` that `update_pollfds`
builds, and the revents `ppoll` returns for them. A slot freed by
`close_conn` stays in `pfd` until the next rebuild.

**The connection manager.** Its code is not in `src/`, so it is modelled
from spec §4.2 (`spec_modelled` in PROJECT.json):

- requests append events to `kq`, and `KernelSends` delivers them to the
  netlink queue `nlq` later;
- `reassess_wifi_situation` connects to the one good AP once per round,
  or reports NO_CONNECT;
- `StartDisconnect` sends no second DISCONNECT while one is pending;
- an event that no longer matches the state is ignored (`NlStale`).

**Signals and the DHCP child.**

- `SigTerm` sets `sigterm`.
- `ChildExit` makes a zombie and a pending SIGCHLD (`chld`). Pending
  SIGCHLDs merge.
- `reap_dhcp` does one `waitpid` and clears `dhcpid` only for its own
  pid.

No signal is ever blocked, so every loop step is guarded by `~chld`:
the handler runs first.

**Clients.** Each client runs one command, as `wifi` does:

- `ClientStart`: connect and write the command.
- `ClientRecv`: `send_recv_msg` skips reports until the reply, then the
  client waits for the reports that end its command (`Ends`). After
  SCAN_DONE, `cmd_scan` sends STATUS.
- `ClientEOF`: the connection is closed under the client.

**Reductions.** Each one removes interleavings that the code cannot tell
apart from ones the model keeps:

- **A SIGTERM at `poll`, `post` or `save` only.** Only the test in
  `Post` reads `sigterm`, and a signal in `ppoll` makes it return EINTR.
- **A child exits only at `poll` or `fork`.** The handler reads only
  `dhcpid`, which only the fork window changes.
- **Kernel answers arrive at `poll`.** An answer that comes while the
  loop is busy is seen by the next `ppoll`.
- **Clients act only while the loop waits** (`Waiting`), and start only
  at `poll`, for the same reason.
- **`ControlDone` clears the per-iteration variables** (`ci`, `revents`,
  `nlrev`, `ctlrev`), which are dead after it.

**Fairness.** The following are weakly fair:

- `Loop`, because the loop's only wait is `ppoll`, and an armed timer
  expires once time passes;
- `reap_dhcp`, because a pending signal is delivered;
- `KernelSends`, because the kernel answers every request;
- each client's receive, because a client blocks in `recv`.

SIGTERMs, child exits and new clients are not forced.

**Bounds** (constants of the cfgs):

- `Clients`: the client processes.
- `NCONNS`: the size of the conns table.
- `ClientCmds`: the commands clients may run.
- `Pids`: the pids a DHCP child may get.
- `MaxSigterms`: the SIGTERMs sent.
- `MaxScans`: the scans the timer may start.

### `StaIes.tla`

`parse_station_ies` (`wsupp_sta_ies.c`) walks the IE buffer of a scan
result. Each iteration of its `while(ptr < end)` loop is one step:

| Code | Model |
|------|-------|
| `buf`, `ptr`, `end` | `buf` (a byte sequence), `ptr` (0-based offset), `Len(buf)` |
| the `struct scan` fields written | `sc.ssid` (the first `slen` bytes), `sc.type` (a set of flag names) |
| loop body, element fits | `ParseIE`: dispatch on the type byte, then `ptr += 2 + len` |
| `if(ptr + ielen > end) break` | `IeBreak` |
| `while(ptr < end)` fails | `LoopEnd` |
| `get2le`, `get4be` | operators of the same name, with their bounds (0 past the end) |
| `parse_rsn_ie`, `parse_vendor`, `set_station_ssid` | operators of the same name |

`Elements`, `RefRsn`, `RefVendor`, `RefType` and `RefSsid` are a
reference decoder written from spec §4.5 and IEEE 802.11-2012 8.4.2: a
RECURSIVE split of the buffer into elements, and an RSN element that is
ignored when a count promises more suites than it holds.

`MCParsers` builds the inputs: every ordered pair of distinct element
templates (SSIDs of 4, 0 and 33 bytes; RSN elements with CCMP, TKIP, EAP,
no AKM, no pairwise list, group suite only, version only, version 2; WPA,
WPS, a cut and a foreign vendor element; a country element), each cut at
every byte. The cuts reach the bounds of `get2le` and `get4be` and every
offset that depends on the pairwise count.

**Fairness.** `WF_vars(Next)`: the parser is a plain function call, so
once called it runs to its return.

### `Kde.tla`

`fetch_gtk` (`wsupp_eapol.c`) walks the unwrapped key data of a 3/4 or a
group 1/2 and hands the first GTK KDE to `store_gtk`. `struct kde` is not
declared in `src/`. Its layout is read off its uses: `magic`, `len`,
`type[4]`, `data[]`, all bytes, so its size is 6. Each pass of the
`while` loop is one step:

| Code | Model |
|------|-------|
| `buf`, `ptr`, `end`, `ap.tkipgroup` | `buf`, `ptr` (0-based), `Len(buf)`, `tkipgroup` |
| `GTK`, `gtkindex` (globals) | `GTK` (the 16 or 32 bytes `upload_gtk` uses), `gtkindex` |
| the return value | `ret`: `Running` in the loop, then 0 or -1 |
| `while(ptr + sizeof(*kd) < end)` fails | `LoopEnd` |
| `ptr += kdlen; if(ptr > end) break` | `KdeBreak` |
| wrong magic, wrong type, `datalen < 2 + 16`: `continue` | `KdeSkip` |
| `!(idx = kd->data[0] & 0x3)`: `return -1` | `KdeNoIndex` |
| `return store_gtk(idx, kd->data + 2, datalen - 2)` | `KdeStore` → `store_gtk` (length test, TKIP half swap) |

`Elements`, `GtkKdes`, `DriverKey` and `RefGtk` are the reference, from
spec §4.3 and IEEE 802.11-2012 11.6.2: key data is a list of elements;
the GTK KDE is the element `0xDD` with OUI `00-0F-AC` and type 1; its
data is a key-ID octet, a reserved octet and a key of the group cipher's
size; with TKIP the driver wants the Tx and Rx MIC halves swapped.

`MCParsers` composes the parsers (`StaIes`, `Kde`, `UcRecv`) and the
rfkill watcher (`Rfkill`), which also only reads input from outside. They
share no state. A behaviour runs one of them on real input, and they are
called in turn: `parse_station_ies`, then `fetch_gtk`, then
`uc_recvmsg` or the watcher. A walk without real input runs on an empty
buffer and ends in one step. `uc_recvmsg` without real input is not
called (`lens = <<>>`). The watcher without one has no radios and no fd
(`RfIdle`). The key-data inputs are every prefix of one or two of eight
elements (GTK KDEs with a 16- and a 32-byte key, with key ID 0, with a
15-byte key; a PMKID KDE; a WPA vendor element; an RSN IE; padding
`DD 00 00`), plus RSN IE + GTK KDE + padding, the layout of a real 3/4.
Each input is walked with both group ciphers. The keys' bytes are all
distinct, so a wrong swap or offset shows.

### `UcRecv.tla`

`uc_recvmsg` (`nlusctl/recv_msg.c`) reads a unix stream socket into a
fixed buffer and returns one length-prefixed message at a time. Nothing
under `src/` calls it: wsupp and wifi call `uc_recv`, whose body is not
in the repository. It is modelled as it stands, with a caller that calls
again after a message or `-EAGAIN` and a peer that writes its stream in
pieces of any size and may close at any byte. A byte of the stream is a
cell `[m, off]` (byte `off` of message `m`). That is all the framing can
tell apart, and a message's cells show whether it came out whole.

| Code | Model |
|------|-------|
| `ur->buf` .. `ur->end` | `ubuf`, `BufSize` cells |
| `ur->mptr`, `ur->rptr`, `ur->msg` | `mptr`, `rptr`, `umsg` (offsets, -1 for NULL) |
| `flags & MSG_DONTWAIT`, `total` | `dontwait`, `total` |
| `uc_msg(ptr, len)` (body not in the repository) | `uc_msg`: the header fits and its `len` (spec §4.6: `len` counts the whole message, header included) is at least the header and at most `len`; `LenField` reads it |
| `take_complete_msg` | `take_complete_msg`: `ur->msg = mptr`, `mptr += len`; the caller takes the message |
| `shift_buf` | `shift_buf`: `memmove` of `rptr - mptr` cells to the start, both offsets moved back |
| entry, first `take_complete_msg`, `shift_buf` | `Call(block)` |
| `left <= 0`: `-ENOBUFS` | `NoBufs` |
| `recvmsg` > 0, `rptr += rd`, `take_complete_msg`, `flags = 0` | `Recv` |
| `recvmsg` < 0 (`-EAGAIN` under `MSG_DONTWAIT`) | `RecvAgain` |
| `recvmsg` = 0, `break`, then `-EBADMSG` or `-EBADF` | `RecvEof` |
| the peer | `Write` (the next 1.. bytes), `Close` |

`recvmsg` returns `min(left, bytes written and not yet read)`. The sizes
of the peer's writes are free, so every split of the stream occurs.
Ancillary data (`uc`, `msg_controllen`) is not modelled. The initial
buffer is the one `init_heap_bufs` (`wifi_wire.c`) sets up: empty, with
`mptr = rptr = buf`.

### `Rfkill.tla`

The watcher reads `/dev/rfkill` (`wsupp_rfkill.c`, `check_rfkill` in
`wsupp.c`). The kernel is the environment:

- Each radio (an rfkill index) has a blocked state: `soft || hard`,
  which is all the code reads.
- Opening the fd queues an ADD event for every radio, in index order.
- A change of a radio's state queues an event carrying its new state.
- Blocking our radio takes the interface down.

| Code | Model |
|------|-------|
| `struct rfkill_event` (`rfkill.h`, not in the repository) | `Event(i, b)`: `idx`, `type`, and `soft` for `soft \|\| hard` |
| `retry_rfkill` in `main` | `Init`: the open succeeds (`RfFd` and the ADD events) or fails (-1), and `rfkidx = -1` |
| one `read` of `handle_rfkill`'s loop | `Read`: non-WLAN events are skipped, others go to `handle_event` |
| `handle_event` | `handle_event(e)`: adoption through `match_rfkill`, the `idx` filter, then block (`rfkilled = 1`, `clr_timer`) or unblock (`rfkilled = 0`, `bring_iface_up`, `handle_rfrestored`) |
| `match_rfkill(idx)` | `match_rfkill(idx) == matched`: the stat of a fixed path, chosen once in `Init` |
| `bring_iface_up` | nothing if up; `quit` (`alive = FALSE`) when `SIOCSIFFLAGS` fails, which it does while our radio is blocked (ERFKILL); else up |
| `handle_rfrestored` (not in the repository) | a count of its calls |
| `check_rfkill` on an error revent | `RfkillError`: close, -1, and the queue is gone |
| `set_timer`, `clr_timer` | `set_timer` (called by the connection code), `clr_timer` |
| the kernel | `Toggle(i)` |

`retry_rfkill` has no caller after `main`, so a lost fd is never
reopened, and the model has no reopen. The comment at the top of the
file and spec §4.1 and §7 say it is retried. The short-read skip is not taken
because the kernel hands over whole events. A radio's removal (a DEL
event) is not modelled.

## 4. Runs

Each MC module extends its specification and defines the model values
and sets its cfgs use. Every property has a mutant in PROJECT.json: a
plausible slip in the code, such as a dropped check, a missing reset or
a swapped order, which TLC catches under the run's own configuration.

### Eapol

`MCEapol.tla` extends `Eapol`. Each `.cfg` gives the bounds:

- `MaxSessions`: associations started;
- `MaxRetries`: retransmissions the AP makes per message;
- `MaxGtk`: group keys issued;
- `MaxForged`: frames forged;
- `MaxUserStops`: NEUTRAL commands;
- `Faults`: loss, `sendto` failure, early timers, AP give-up;
- `StrictLength`: an AP that checks the EAPOL length field.

Deadlock is not checked. Once the bounds are used up, the daemon rests in
`ppoll`, which is what it does with nothing to serve.

| Run | Bounds | Checks | Result |
|-----|--------|--------|--------|
| `eapol_attacker` | 1 session, 1 retry, 3 GTKs, 1 forged frame, faults | `TypeOK`, `PtkAgrees`, `GtkAuthentic`, `NoGtkRollback`, `AssociationRefined` | pass (≈540k states, under 1 min) |
| `eapol_live` | 2 sessions, 1 retry, 1 NEUTRAL, no faults | `Packet2NotPremature`, `FreshHandshakeCompletes`, `RekeyCompletes` | pass |
| `eapol_stale` | as `eapol_live` | `HandshakeCompletes` | violation |
| `eapol_reinstall` | 1 session, 1 retry, faults | `NoGtkReinstall` | violation |

**What the passing runs show.**

- **Keys.** Suppose an attacker injects a frame at any point, and there
  is loss, early timeouts and AP give-up. The kernel still never holds a
  PTK the AP did not derive, or a GTK the AP did not issue.
- **Group key order.** Reordered and retransmitted 1/2 frames never roll
  the group key back.
- **Refinement.** Under all of this the composition implements
  `Association`.
- **Priming.** The 2/4 is never sent on a link whose association is
  incomplete, even across associations and a NEUTRAL command.
- **A lost 4/4.** The station is CONNECTED while the AP still waits for
  4/4. The 3/4 it retransmits reaches `recv_group_1`, which ignores it.
  The station recovers only through the AP's deauthentication and the
  DISCONNECT handled by the netlink code, which is not under `src/`.
  This is listed as a hazard, with no property: a property would check
  the spec-modelled netlink handler and the AP model, not the
  repository's code.
- **Liveness without faults.**
  - An attempt that starts with no leftover frame queued ends CONNECTED
    unless it is cancelled. This holds whichever of 1/4 and CONNECT
    comes first.
  - Every group rekey completes.

**What the violation runs show** (the `findings` in PROJECT.json):

- **`eapol_stale`.** After a NEUTRAL command, a 1/4 or 1/2 of the
  cancelled association can still be queued on the rawsock. The next
  attempt takes it. It then either derives its PTK from the stale ANonce
  and ignores the real 1/4 in WAITING_2_4, or aborts on "wrong bits" in
  WAITING_3_4. Either way the attempt fails, with no fault anywhere.
- **`eapol_reinstall`.** After a lost 2/2, the AP's retransmitted 1/2
  passes the replay check. `send_group_2` then calls `upload_gtk` again
  and reinstalls the GTK in use.

**Why the bounds are enough.**

- One forged frame can be any of 1/4, 3/4 or 1/2, with either length,
  at any moment. This reaches every check it could pass or fail.
- One retry creates the duplicate, reordered and stale frames.
- Two sessions create the frames and events left over from an earlier
  association.
- Three GTKs are needed for a rollback to be possible at all.

The length slip in `send_group_2` (its `paclen` lacks the `- 4` that the
other frames use) only matters to a peer that checks the length. It is
listed as a hazard, and the `StrictLength` switch is kept for it. It has
no run.

### PskStore

| Run | Bounds | Checks | Result |
|-----|--------|--------|--------|
| `psk_reliable` | 3 SSIDs (plain, space, backslash + TAB), PSKs {1,2}, 3 start files, 3 lines, real page sizes | `NoDuplicates`, `PskMapRefined` | pass (≈23k states, ≈1.5 min) |
| `psk_faults` | 2 SSIDs, all files including unterminated ones, 2 lines, failing loads and remaps, 1 power loss, 64-byte pages | `TypeOK`, `BufferAccounted` | pass |
| `psk_edges` | `"a"`, `"a "` and a 30-byte SSID; the empty file and files whose last line lacks `'\n'`; 64-byte pages | `PskMapRefined` | violation |

**What the passing runs show.**

- With well-formed files, the store implements `PskMap`:
  - every save is read back;
  - every successful drop removes the key;
  - no other step changes what a caller sees.
- No SSID ever has two lines. This covers every escaping branch and a
  lower-case key written by hand.
- Under load failures and a power loss mid-write, the buffer and the
  file remain sequences of lines.
- Through remaps in place and moved, failed remaps, refused shrinks and
  reloads, `datalen` is the number of bytes of the lines, and the data
  lies within `blocklen`, which lies within the mapping
  (`BufferAccounted`). `remap_config` records the length it was asked
  for, not the size it mapped. That costs memory (the mapping's tail and
  the munmap of the wrong length), but not the buffer's contents.

**What the violation run shows.** `psk_edges` holds the inputs on which
the store departs from `PskMap`. TLC reports the shortest, and each of
the following is a finding in PROJECT.json:

- **Long SSID.** `save_psk` formats into `buf[100]` after 65 bytes of
  key, so `fmt_ssid` keeps only 29 bytes of a 30-byte SSID. `find_ssid`
  keeps all 30, so the key just saved is never found.
- **Unterminated last line.** Suppose the last line of the file has no
  `'\n'`.
  - `insert_line` glues the new line onto that last line.
  - `drop_line` on an only line returns without a change, while
    `drop_psk` reports success.
  - On a last line after others, `drop_line` calls `memmove` with
    length -1 and the daemon crashes.
- **Stale insert pointer.** `insert_line` takes `at = config + datalen`
  before `extend_config`. When the mapping moves, the new line is written
  into unmapped pages and the daemon crashes. After the first growth
  every growth must move. With the real sizes this takes about 1024
  bytes of new lines in one daemon lifetime, some 15 networks. It appears
  at once with well-formed files if `psk_reliable`'s bounds are run with
  `Page = 64` and `Slack = 64`.

### Daemon

All Daemon cfgs use model values `c1`, `c2` (clients) and `p1`, `p2`
(pids). `CHECK_DEADLOCK` is FALSE: an idle daemon blocks in `ppoll` for
ever, which is what it should do.

| Run | Bounds | Checks | Result |
|-----|--------|--------|--------|
| `daemon_clients` | 2 clients, all 5 commands, `NCONNS` 1, 2 pids, 1 SIGTERM, 2 scans | `TypeOK`, `ReplyFirst`, `ReplyArrives` | pass (≈800k states, ≈2 min) |
| `daemon_sigterm` | no clients, 1 SIGTERM, 2 scans | `ShutdownCompletes` | violation |
| `daemon_exitreq` | 2 clients, CONNECT and NEUTRAL, `NCONNS` 2, 1 SIGTERM, 1 scan | `ExitRequestKept` | violation |
| `daemon_dhcp` | 2 clients, CONNECT only, no SIGTERM, 1 scan | `DhcpPidLive` | violation |

**What the passing run shows.** Two clients may run any command against
a conns table of one slot. Meanwhile the kernel answers late, a SIGTERM
comes, scans run and DHCP children exit. Under all of this:

- every reply precedes the reports its own command causes;
- every command sent is answered, or its client is dropped.

One slot is the bound at which the second client finds no free slot and
is closed. Two scans let a timer scan run while a client's scan is in
flight.

**What the violation runs show.**

- **`daemon_sigterm`.** The spec says that signals are blocked outside
  `ppoll`, but the code never blocks one. A SIGTERM after the sigterm
  test sets the flag, and an idle daemon with no timer then sleeps in
  `ppoll` for ever.
- **`daemon_exitreq`.** `cmd_neutral` replaces OP_EXITREQ with
  OP_NEUTRAL, so a shutdown in progress is forgotten.
- **`daemon_dhcp`.** A child that exits before `trigger_dhcp` stores its
  pid is reaped and ignored. `dhcpid` then names a pid that is no longer
  ours.

**Branches the passing run does not reach.** Two `IF` branches stay
unused:

- `trigger_dhcp`'s exit when `fork` fails. Two pids are never both held
  at once in this run, so a fork always finds a free pid.
- `xshutdown`'s immediate quit on a second SIGTERM. This needs
  `MaxSigterms` 2, which makes the state space too large for the run.
  The `daemon_exitreq` finding describes where a second SIGTERM
  matters.

### Parsers (StaIes, Kde, UcRecv and Rfkill)

| Run | Bounds | Checks | Result |
|-----|--------|--------|--------|
| `parsers` | IE buffers: ordered pairs of 16 element templates, each cut at every byte; key data: pairs of 8 elements and a 3/4 layout, each cut at every byte, with both group ciphers; control streams `<<12, 8, 9>>`, `<<9, 20>>`, `<<16, 10>>` (8-byte header, 16-byte buffer), written in pieces of any size and closed at any byte ; rfkill: two radios, ours at index 1 and another WLAN or Bluetooth radio at 0, three block changes, the fd open or not, the sysfs path present or not | `TypeOK`, `ParsedAsReference`, `KdeTypeOK`, `GtkFetchedAsReference`, `UcTypeOK`, `DeliveredInOrder`, `RfTypeOK`, `RfkilledTracksAdopted`, `Terminates`, `AllDelivered`, `UnkillBringsUp` | pass (≈76k states, ≈1 min) |

**What it shows.** On every IE buffer the loop returns, and the scan
entry it leaves holds exactly the SSID and flags the reference decoder
reads: the header and payload offsets, the `get2le` and `get4be` bounds,
the AKM offset after `4*pcnt` bytes of pairwise suites and the 32-byte
SSID clamp all agree with the standard. Two elements per buffer are
enough for the loop: each step only depends on `ptr`, and pairs put every
kind of element before and after every other, and before a cut.

On every key data that holds at most one GTK KDE, `fetch_gtk` returns 0
exactly when the reference finds a key, and then `GTK` and `gtkindex`
hold that key and key ID. This covers the loop bound
(`ptr + sizeof(*kd) < end`), the jump tested after the move, the negative
`datalen` of padding, the key-ID test and the TKIP swap. Key data with
two GTK KDEs is left out: the standard never sends it, and there the
code takes the first GTK KDE with a key of at least 16 bytes, which is
a choice rather than a rule.

On every stream, `uc_recvmsg` hands the caller the messages in order,
each whole (`DeliveredInOrder`), whatever the split of the stream and
the mix of blocking and non-blocking calls. The calls end
(`AllDelivered`) having handed over every message written whole before
the close, up to the first message longer than the buffer. They end with
`-EBADF` after a clean end, `-EBADMSG` on a message cut by the close,
and `-ENOBUFS` on a message that does not fit. The streams put a bare
header, a message that leaves part of the next one in the buffer (so
`shift_buf` moves it), one that fills the 16-byte buffer exactly, and one
of 20 bytes. The fairness is the peer's: it writes on or closes. A
blocking call waits for nothing else.

For the rfkill watcher, whenever the fd has been drained, `rfkilled` is
the kernel's state of the adopted radio (`RfkilledTracksAdopted`). This
holds through ADD events, interleaved changes of both radios, and reads
between them. It rests on the `idx` filter of `handle_event`.

When our radio is adopted and is unblocked while the interface is down,
the interface comes back up (`UnkillBringsUp`). The exceptions are that
the radio is blocked again, the fd is lost, or wsupp quits. The only
fairness is on `Read`: poll reports a readable fd, and nothing else is
bound to happen.

Three block changes are enough to block, unblock and block again, so an
unblock event is still queued when the radio is blocked again. The
second WLAN radio makes the `idx` filter matter.

The model also shows wsupp quitting, which the properties allow and the
hazards list:

- a stale unblock event makes `bring_iface_up` fail while our radio is
  blocked;
- radio 0 is adopted in place of ours (`match_rfkill` ignores `idx`).

## 5. Not modelled

- Cryptography (`src/crypto`, `pmk_to_ptk`, `make_mic`, `unwrap_key`),
  abstracted as described above.
- The netlink library, and the control-message building and attribute
  access (`uc_put_*`, `uc_get_*`, `uc_recv`): their bodies are not in the
  repository.
- The ancillary data of `uc_recvmsg` (`uc->ptr`, `msg_controllen`):
  nothing under `src/` passes descriptors on the control socket. Its
  `flags = 0`, which makes a non-blocking call block after a partial
  read, is listed as a hazard.
- Output formatting in `wifi_dump.c` and PBKDF2 in `wifi_pass.c`.
- AP selection among several APs and the ACTIVE retry policy: their code
  is not in `src/`, and `Daemon` models one good AP.
- The rawsock descriptor in `Daemon`, and the NETDOWN branch of
  `timer_expired`.
- Of the rfkill watcher: the NETDOWN branch of `timer_expired`, which
  reads `rfkilled`, because the code that enters NETDOWN is not in
  `src/`. Also what `handle_rfrestored` does beyond being called.
- The config file past `MAX_CONFIG_SIZE`, where `open_stat_config`
  returns descriptor 0 and `load_config` reads whatever it yields. Also a
  short read, which `load_config` takes for the whole file. Both are
  listed as hazards.
- `load_state`/`save_state`: one read of `/var/wiap` at start, which
  unlinks it, and one write at a clean exit. `Daemon` has no restarts,
  so the pinned SSID lost after a crash is listed as a hazard only.
- In `StaIes`, three edges are listed as hazards and have no run:
  - the header read one byte past the end of the buffer;
  - a malformed RSN element still setting the flags it read;
  - an SSID with a trailing NUL, whose `slen` drops the NUL.
  `ParsedAsReference` fails on inputs built for the last two. The
  passing run keeps to inputs where code and reference agree, so the
  run checks the loop and the decoders rather than repeating these.
- `cmd_device`, the ENOKEY and EINVAL failures of `configure_station`,
  and the ENOKEY retry of `cmd_fixedap` in the client.
- Descriptor numbers and the `pfds` array bound of `update_pollfds`.
  These are listed as hazards.
