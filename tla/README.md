# A verification of ioscpp in TLA+

ioscpp is a C++20 client for iOS devices. It talks to a device over USB (or over
a socket to a running `usbmuxd`), pairs with it, and uses its services: files
(AFC), app installation, process control. Newer devices are reached through a
CoreDevice tunnel: IPv6 packets over a TLS stream, with a TCP and an HTTP/2 of
the library's own on top. Everything is blocking; one device belongs to one
thread, and errors are returned as `Result<T>`.

This directory holds TLA+ modules of the library's protocol state machines, TLC
configurations that check them on small instances, and proofs that hold for
every value of the constants. Paths below are relative to the repository.

## 1. Inventory

| part | source | state it keeps | operations | what makes it correct |
| --- | --- | --- | --- | --- |
| Session | `src/session.cpp` | `tx_seq_`, `rx_seq_`, `version_` | send, receive one mux frame | every frame is numbered, in order; a frame is read whole |
| Connection | `src/connection.cpp` | `next_port_`, `closed_`, usbmuxd device id | open (handshake), close, allocate port | a port is not in use twice; nothing is written after close |
| Stream | `src/stream.cpp` | ports, `tx_seq_`, `tx_ack_`, `closed_`, `incoming_` | open, write, read_exact, read_all, close, move | bytes of this connection, in order, not twice; one reset, and always one |
| Transports | `src/usb`, `src/tcp` | a handle, pending bytes | read, write, close, reopen | a transfer that moved bytes is not repeated |
| Lockdown | `src/lockdown.cpp` | stream, TLS session | request, start_session, start_service, close | nothing secret in the clear; a closed session stays closed |
| Pairing, TLS | `src/crypto/pairing.cpp` | the pairing record, on disk and in memory; the TLS state | load, save, pair, handshake, read, write, close | `paired()` says what the device accepted; loops end |
| Device | `src/device.cpp` | connection, lockdown, tunnel | connect, connect_with_retry, start_service, tunnel, disconnect | disconnect is idempotent and ordered |
| AFC | `src/afc.cpp` | `packet_num`, stream | list, stat, open_file, pull, push, remove, ... | answers match requests; no handle is left open |
| House arrest, plist service | `src/house_arrest.cpp`, `src/plist_service.cpp` | the stream, whether it was vended | vend, start, close | the stream has one owner |
| App | `src/app.cpp` | none of its own | install, uninstall, launch, close, is_running | one service at a time on the mux; progress ends |
| Tunnel | `src/tunnel.cpp` | TLS stream, addresses | open, read, write, close | packets whole, whoever reads them |
| IPv6 framer, TcpLink | `src/protocol/ipv6.cpp`, `src/tcp_link.cpp` | source port, sequence numbers, buffers, `closed` | connect, read, write, close | bytes in order, not twice; FIN and RST seen |
| HTTP/2 | `src/protocol/http2.cpp` | two send windows, `received`, `failed` | connect, open, write, read, close | never more than the peer granted; a wait ends |
| Rsd | `src/rsd.cpp` | link, http2, services | connect, start_service, close | frames in the order the device validates |
| DTX, process control | `src/dtx_connection.cpp`, `src/process_control.cpp` | channels, message ids, pending messages | request_channel, invoke, next_pending, launch, kill | a reply goes to its request; nothing is lost |
| Codecs | `src/protocol/plist.cpp`, `json.cpp`, `keyed_archive.cpp`, `remotexpc.cpp` | none | parse, write | what is written is read back; what is malformed is refused |

Interactions. A `Stream` calls its `Connection`, which calls its `Session`, which
calls the `Transport`; all streams of a device share one session, and whichever
call is running reads the frames of all. Lockdown, AFC, house arrest and the
plist services each own one stream. Tunnel owns a stream too; each TcpLink
borrows the tunnel, and Rsd runs HTTP/2 over the first TcpLink. DTX runs over a
TcpLink. There are no callbacks and no background threads.

Hard behaviours. Blocking calls interleave with the device, the cable and
timeouts; a call on one stream consumes the frames of the others; every send may
fail half way through an operation that has already changed its state; streams
are closed by calls, by destructors and by error paths, in any order; counters
of 16 bits wrap. `PROJECT.json` lists the hazards by line.

## 2. Modules, runs and proofs

| module | models | composed of |
| --- | --- | --- |
| `ByteChannel` | what a stream promises whoever carries it (abstract) | |
| `MuxLink` | `Session`, `Connection`, `Stream` against a device | implements `ByteChannel` |
| `Transports` | USB and TCP transports, `Session`'s frames over them, `Connection::open` | |
| `DeviceSession` | `connect_with_retry`, `Device`, `Lockdown`, the pairing record and TLS, usbmuxd | |
| `Afc`, `Rsd`, `Apps` | the AFC client; the tunnel's and the RSD's handshakes and check-ins; the jobs on apps over them | `Apps` = `Afc` + `Rsd` + its own |
| `Dtx` | `DtxConnection`, `ProcessControl` | |
| `Http2` | the HTTP/2 transport | |
| `TunnelTcp` | `TcpLink`, `Ipv6Framer`, `Tunnel` | implements `ByteChannel` |
| `Plist`, `KeyedArchive`, `PlistXml`, `Json`, `RemoteXpc`, `Codecs` | the wire formats, writer and reader | `Codecs` instances the others |

Each `MC*` module extends its component for TLC. `*Proofs` modules hold the
theorems. The run of each component is named after it; three more runs show what
the code does against its own documents.

Each layer is checked against what the layer below promises, not against its
detail: `MuxLink` takes a transport that is up or down (`Transports` says why it
may), `Apps` takes streams that are reliable (`MuxLink` and `TunnelTcp` say when
they are). The composition of all of them is far beyond TLC.

Some properties are conjunctions of named parts, each with a comment of its own
in the module; the tables below name the parts.

What the plan has left: a mux below `DeviceSession` instead of its abstraction.

## 3. MuxLink

State is named as in the code; `x[s]` is member `x` of stream `s`, the object
made by the `s`-th `Stream::open`.

| module | code |
| --- | --- |
| `OpenSyn`, then `OpenSkips`, `OpenRefused`, `OpenTimesOut`, `OpenSucceeds`, `OpenAckFails` | `Stream::open` up to the SYN, and each exit of its loop |
| `ReadExact`, `ReadAll`, then `ReadSkips`, `ReadReset`, `ReadTakes`, `ReadAckFails`, `ReadTimesOut` | `read_exact`, `read_all` and the exits of `receive_more` |
| `Write`, `WriteChunk`, `WriteFails` | `Stream::write`, chunk by chunk |
| `Close` | `close`, the destructor, `close_now` |
| `ConnClose` | `Connection::close` |
| `Sent`, `SendFails`, `Received`, `ReceiveFails` | `Session::send`, `Session::receive` |
| `PortAfter` | `allocate_local_port` |
| `DevSyn` ... `DevControl`, `Drop` | the device and the cable (external) |

A blocking call is one action per frame it waits for, so everything the device,
the cable and the timeouts do can happen between two frames. Moves are not
actions: a moved-from Stream is marked closed and does nothing. A payload unit
stands for bytes and carries its connection and its position, which makes loss,
repetition and misrouting visible.

The device is modelled as the code relies on it: it answers a SYN with SYN|ACK,
with a reset or with something else; it takes data in sequence and resets a
connection on a gap; services send and hang up when they like, or, under
`OneAtATime`, only in answer to what they were sent, which is the discipline
`src/app.cpp:91-93` describes.

### Runs

| run | instance | shows |
| --- | --- | --- |
| `mux_two_streams` | two streams to one service, frames of one unit, two frames under way, control frames, a cable that is pulled | types; delivery; port uniqueness |
| `mux_one_at_a_time` | two streams, two units each, one fault, disciplined caller, under fairness | `ClosedByReset`: the reset is last, once (`ResetIsLast`), never on a dead transport (`NoDeadTransportUse`), and not forgotten while the cable is in (`NoOrphanPort`); `SequencesHonest`: data the device accepts is contiguous across failed writes (`HostSeqContiguous`), no mux number is skipped or repeated (`MuxSeqAdvances`), what is acknowledged was buffered, until the port counter wraps (`AckedIsDelivered`); refinement of ByteChannel, hence no gap; each blocking call returns |

Bounds. Two streams are enough for one to consume or close what is the other's; one
service makes their connections differ in the local port alone, the case the port test
exists for. Two units per stream and frames of one unit make a write of two chunks, a
partial read and a gap possible. The wire bound limits only how far the device runs
ahead. In `mux_one_at_a_time` one fault puts every error path at every place; in
`mux_two_streams` a send or a read fails once the cable is pulled, and how that meets
other faults is left to the proofs. Widths of 2 to 4 stand for 2^16. `mux_one_at_a_time`
has no control frames: the code passes over them in the loops that wait, and a device
that sent nothing else for ever would keep a call waiting.

Not given back. `NoOrphanPort` has two exceptions, the streams of the history
`stranded`: an `open` that times out behind its SYN returns without a reset, so the
connection the device makes of that SYN stays (`stream.cpp:195-199`); and a reset that
cannot be written is not tried again (`stream.cpp:333`). All other failures are in:
a refused open, an ACK that cannot be sent, failed reads and writes, on a link that had
any number of faults and is still up.

Past the wrap. `PortUniqueUntilWrap` says no more than the code keeps: with more
opens than `PortModulus` (say `MaxOpens = 3`, `PortModulus = 3`) TLC finds
`LocalPortUnique` violated, a stream in use with port 0, which the comment at
`connection.hpp:100` excludes. The real counter wraps after 65535 opens of one
connection.

Fairness (`mux_one_at_a_time` only). The thread takes its next step when it has
one that needs no timeout; the device takes frames and answers what it was asked.
That is all that the code's blocking loops rely on. Callers and timeouts get no
fairness, so the run shows that calls return without a timeout's help.

Deadlock is not checked: a caller may be done, and a device silent.

### Proofs (MuxLinkProofs, MuxChannelProofs)

`TypeCorrect`, `Delivery` and `PortsUnique` hold for any number of streams, any
port width, frame size, wire and fault bound, disciplined caller or not.

`DeliveredInOrder` is not inductive: it does not say what is on the wire. `IInv`
adds, while the port counter has not wrapped (`NoWrap`):

* `PortsInOrder`: stream `s` has port `s`, and later streams were not touched;
* `Wires`: a connection whose port was not allocated was never used by anyone;
  its SYN is the first frame the device sees of it, so a device counter is never
  reset under live data; a data frame under way holds the units its sequence
  number says, and frames of one connection are in order;
* `Ears`: what a stream heard is of its own connection, in order, was sent, and
  comes before all that is under way.

The argument: a host step writes at most one frame that is no SYN on a connection
that was opened, and takes at most the head of the wire (`HostCallShape`), which
preserves `Wires` (`HostKeepsWires`); only `ReadTakes` hears anything, and it
hears the next frame (`ReadTakesEars`, from the sequence lemma `NextFrame`);
`OpenSyn` goes out on a port nobody used (`OpenSynKeeps`); the device's answers
carry no payload (`DevShapeKeeps`), and its data continues where the last data
ended (`DevSendKeeps`). The only assumption is `MuxLinkAssumption`, on the
constants.

`PortsGivenBack` is `ClosedByReset` for every value of the constants. `CInv` adds to
`IInv`, by which a connection has one stream:

* `Calling`: a call is on a stream it may be on, and a stream marked closed has been
  through `close_now` or the error path of `open`;
* `ResetSent`, `NothingAfterReset`: a reset under way is its connection's last frame,
  and its stream says nothing more (`Settled`);
* `SynUnanswered`, `Opening`, `ResetHeard`: nothing comes back for a SYN the device
  has not seen, and an `open` is behind it, which waits or is `stranded` (`Behind`); an
  opening connection carries no data, and the device resets what it has let go of. So
  when `open` gives up without a reset because of what it heard, there is nothing left
  to reset;
* `GivenBack`: while the cable is in, a connection that lives has a stream that will
  still reset it or is `stranded`, or the reset is on its way.

The argument: a host call writes nothing, one frame, or one reset that settles its
stream (`CallHasShape`), which keeps `Closes` (`CallKeepsCloses`, with `UpCall`
for a link that is up); `SynKeepsCloses` and `DeviceKeepsCloses` do the same for
a new port and for the device.

`NumbersTrue` is `SequencesHonest`, and `LinkIsByteChannel` the refinement, both of
`MuxChannelProofs`. `SInv` follows what the host says:

* `Numbered`: while no send failed, the frames under way carry the mux numbers that
  follow the last one the device took;
* `HostChain`: the data frames of a connection are placed end to end, from the unit
  after `dev_rcvd` to `tx_seq_`. There are positions `p[0] .. p[n]`, one per frame
  boundary, which only rise (`Placed`); a frame of another connection, or one without
  data, stays where it is. On a dead link `tx_seq_` may be beyond the last of them:
  that is what a write that failed half way leaves behind, and why the guarantee is
  about the device's side.

`OInv` follows what the host hears, on a link used for one exchange at a time:
`Discipline` and `SentWithin` are that way of use seen from the state, `Answering`
says that the first frame `open` gets is the SYN|ACK, and `DevChain` places the
frames to the host from the unit after what was heard to the one after `dev_sent`,
as `HostChain` does. With `AckHeard` and `InTurn` what `receive_more` takes is the
next unit, which is the next unit to be acknowledged.

For the refinement every step moves one stream as the channel does and leaves the
others alone (`ChannelMove`, action by action), and `ChannelStep` turns that into
`Channel!Next`. The theorem has two hypotheses, and TLC or the code shows that both
are needed: `OneAtATime`, since a stream whose frames another call throws away has a
gap, and `MaxOpens < PortModulus`, since a port that comes round belongs to two
streams.

Model-checked only: liveness.

## 4. Http2

One connection over one transport. HTTP/2 has a window per stream and one for the
connection; the code keeps `connection_window` and one `stream_window` that every
stream is charged to and every stream's WINDOW_UPDATE is added to. What that is
worth depends on the peer, so the peer is modelled with the account RFC 9113
gives it, and the histories `sent`, `updates` and `initial` say what it granted
and what was spent.

| module | code |
| --- | --- |
| `Connect`, `Connected` | `Http2::connect`: preface, SETTINGS, WINDOW_UPDATE; the loop until the peer's SETTINGS |
| `Open`, `Close` | `open`; `close` and the destructor |
| `Write`, `WriteData`, `WriteFails`, `Written` | `write`, one DATA frame at a time; `Budget`, `Count`, `Charged` are its window arithmetic |
| `Read`, `ReadReturns`, `GivesUp` | `read`; the look at `failed` in it and in `connect` |
| `TakesData`, `TakesSettings`, `TakesUpdate`, `TakesPing`, `TakesClose`, `FrameFails` | `read_frame` by the type of the frame, and its failures |
| `Peer...` | the peer (external) |

Left out: frames `read_frame` ignores (acknowledgements and unknown types), the
bytes of a frame, and `buffer`, of which only one thing is visible: a frame whose
acknowledgement could not be written is still in it, and is handled again by the
next call (`Answered`). The three writes of the preface are one: nobody can tell
how far a failed one came, since the connection is closed. The window the library
grants the peer is not modelled; it is granted once, and the sizes of what the
device sends are abstracted.

### Runs

| run | instance | shows |
| --- | --- | --- |
| `http2` | two streams, two units to write, two frames of the peer's own accord (SETTINGS again, a window granted ahead, a message, a PING, a GOAWAY, an RST_STREAM, an empty DATA frame), one fault, under fairness | types; `ConnectionWithinGrant`; `StreamWithinGrant`; `WindowsExact`; messages in order, once, none lost; a write returns |
| `http2_overrun` | three units to write, one frame of the peer's own accord, no faults | `NeverOverruns` fails: a disagreement with `http2.hpp:52-53` |

One window for two streams. The peer returns a window as its stream is consumed, and
sends SETTINGS first; RFC 9113 lets it grant more (the streams it did this for are
`ahead`) and send SETTINGS again.

* The connection's window is counted alone and is right with any peer.
* `http2.hpp:52-53` promises that `write` waits "rather than overrunning it", of any
  peer. This is `NeverOverruns`, and it is not so. In `http2_overrun` SETTINGS that
  arrive between two frames of a write set `stream_window` anew as if nothing had been
  sent (`http2.cpp:249`). Without a second SETTINGS the same comes of a stream that was
  granted ahead: its grant is in the one window, and the other stream spends it
  (`http2.cpp:168`, `267-270`, `379`).
* `StreamWithinGrant` is what is left: with one SETTINGS frame, a stream is not overrun
  as long as no *other* stream was granted ahead. Its own grants may be ahead as they
  like. The reason is that what the other stream lacks only makes the sum smaller.
* `WindowsExact` says the same of the counter: it is the sum of the streams' windows
  until the SETTINGS come again or both streams were granted ahead (`Tracked`), when the
  sum may pass 2^31-1 and wrap, although no window of the peer does.

Bounds. Two streams are the ones the library opens. Windows of one to three units make a
write of several frames, a window that runs out, and a grant that meets the limit of the
counter possible; `MaxWindow` stands for 2^31-1 and the sum of two grants passes it. Two
frames of the peer's own meet each other and a fault: SETTINGS and a grant, a grant and a
message, a GOAWAY and a message. With one frame under way each way, a grant, SETTINGS and
a message change places by when they are sent; a write of the host waits for its place,
too, as on a socket whose buffer is full. The third unit in `http2_overrun` is the one
that overruns. A fault at any call reaches each error path once. More of each, in any
combination, is left to the proofs.

Fairness. The thread takes its next step, the peer takes what it is sent and returns
the window of what it consumed. Windows granted ahead are owed by nobody. The peer chose an
initial window above 0 (`Windows`): a stream with none can never be written unless one is
granted ahead. `WritesReturn` holds until the counter no longer has the streams' windows
(`Tracked`); after a GOAWAY or RST_STREAM it holds because the peer goes on returning the
window. Of one that does not, no document says that a write returns, which does not look
at `failed`. Deadlock is not checked: a caller may be done.

### Proofs (Http2Proofs)

For every window, frame size and bound, and any peer: `TypeCorrect`,
`ConnectionWithin`, `WindowsAreExact`, `StreamWithin` and `MessagesArrive`. The only
assumption is `Http2Assumption`, on the constants; what the second and third of these
are said of is in the properties themselves.

`IInv` accounts for what is under way. `Ledger`: what the host sent is the sum over
its streams, so is what the peer consumed, and neither side is ahead of the other.
`DataUnderWay` and `GrantsUnderWay`: every DATA frame and every WINDOW_UPDATE under
way has its place (`at`), behind what was taken before it and not past what was
sent, the frames of a stream in order. `ConnectionBacked`: `connection_window` is at
most the grant less what was sent; a sum that wraps becomes smaller, so the bound
holds whatever the peer grants, and a budget taken from the counter stays in it.

`WindowInv` is the rest. `Opening`: the streams are opened after the SETTINGS were read,
and until then nothing is sent or granted on one, so that the first SETTINGS frame
replaces a window nobody used. `SettingsRead`: while there was one SETTINGS frame it is
on its way or read, and says what the peer goes by (`SettingsOnce`, `Known`).
`WindowsOpen`: no window of the peer passes `MaxWindow`, and a stream that is not
`ahead` was issued no more than was consumed on it, hence has no more returned than it
sent. `WindowsExact`: the shared counter is the initial window plus what came back less
what was sent over *both* streams. What the other stream lacks only makes the counter
smaller: a budget taken from it is within the stream's own (`StreamWithin`), and a grant
does not wrap it.

Each action is proved to keep each part: host steps that write nothing change no
account, `WriteData` appends one DATA frame, `TakesUpdate` takes the head of the
peer's frames, and the peer's steps append to them.

`MessagesArrive` is `MessagesInOrder`. `MessageInv` counts what `read` handed out
together with what it still holds (`Heard`): these are messages 1, 2, 3 and so on
(`HeardInTurn`), and those the peer sent since are under way, each once and in their
order (`MessagesUnderWay`). A frame that was handled but stays in `buffer` because
its answer could not be written carries no message, so that handling it again hands
out nothing twice. This holds with any peer, and with the connection failed or not.

Model-checked only: liveness.

## 5. TunnelTcp

Several `TcpLink`s over one `Tunnel`, used by one thread. `x[l]` is member `x` of
link `l`, the one made by the `l`-th `TcpLink::open`.

| module | code |
| --- | --- |
| `Connect`, then `ConnectSkips`, `ConnectRefused`, `Connected` | `TcpLink::open` and `connect`: the SYN, and the loop until the answer |
| `SendFails`, `CallSpins`, `Spinning` | `Tunnel::Impl::write`: a write that fails, and one over TLS that never does |
| `Write`, `WriteChunk`, `WriteFails`, `Written` | `Impl::write`, a segment at a time |
| `Read`, then `ReadSkips`, `ReadReset`, `ReadFin`, `ReadData`, `ReadReturns`, `ReadEnds` | `Impl::read`, by the segment it takes; `read_exact` is a loop of it |
| `Close`, `Destroy` | `close`; the destructor, which sends nothing |
| `TunnelRead`, `ReadFails`, `Misframed`, `Whole`, `Short`, `AfterPacket` | `Ipv6Framer::fill` and `read_packet`, one tunnel read at a time |
| `ReadSizes` | `Tunnel::Impl::read`: over TLS what a record holds, without TLS the whole buffer; another `Transport`: what is there |
| `Dev...`, `TunnelEnds` | the TCP and the services of the device, the cable (external) |

What comes in is cut into pieces, the IPv6 header and the segment of each packet,
so that a read may end inside a packet (`aligned = FALSE`) and one link may read
ahead what is another's. A buffer that starts in the middle of a packet fails the
version check and stays; what else could be made of it is not followed further.
The code compares no sequence numbers, so they are units counted from 0 and do not
wrap; a source port is its link.

How the tunnel is used is part of the state, `use`, chosen at the start and never
changed: what the links borrow (`over`: a `Tunnel` with its TLS session, one without, or
another `Transport`, which `TcpLink::open` takes too), how many links, whether the caller
is done with one before it makes the next (`alone`), where the reads of the tunnel end,
and the bounds. Each property says for which uses it holds.

Over TLS no write fails. `tls_send` makes "want write" of every failure of the stream
(`pairing.cpp:651-677`), and `TlsSession::write` tries again (`825-843`), so that a connect, write, close or acknowledgement on a tunnel
that has ended goes round for ever (`CallSpins`, `Spinning`), against
`docs/07-error-model.md`. It is the same loop as in section 8. A tunnel of which only the
service ended, while the mux link is up and its `Stream::write` still succeeds, is not told
apart from one that ended: there the first write would return, and the segment be lost.

### Run

`tunnel`, under fairness, with the six uses of `MCTunnelTcp`:

| use | what it is for |
| --- | --- |
| TLS: two links, one after the other, a unit each from the device | what a former link left behind or read ahead |
| another transport: one link that goes on after a failed call, two units written and one read, one segment sent again, a fault | sequence numbers across failures of what is written |
| the same with one unit written and two read | the same for what is read |
| another transport: one link, three units written in segments of two and one read, a fault after which it is dropped | partial writes; ByteChannel with failures |
| TLS: the same with one unit written and three read | partial reads |
| TLS: two links at once, whole packets | what one reads is the other's |

| property | says | where |
| --- | --- | --- |
| `DeliveredWhole` | `DeliveredInOrder`: a link hands out its own units, in order, once | the device sends nothing twice |
| | `DeliveredGapless`: with none missing | `alone`, the device sends nothing twice |
| | `FramerAligned`: a framer starts on a packet boundary | one link |
| `SequencesHonest` | `SentInSequence`, `FinOnce`: the device finds the next segment in sequence, and one FIN | always |
| | `AckedIsHeard`: what is acknowledged reached the caller or the buffer | no other link reads |
| `ImplementsByteChannel` | the links are the channels that mux streams are | `alone`, the device sends nothing twice |
| `CallsReturn` | a call returns, or goes round in a TLS write on a tunnel that has ended (`Spinning`) | no other link reads, not over a `Tunnel` without TLS |

Bounds. Two links are enough for one to read what is the other's, or to leave something
behind for it. Two units in segments of one, or three in segments of two, written or
read, make a second segment behind a lost one and a buffer smaller than a segment
possible. One and a half to two packets under way can be read in one go, which is what
makes a framer read ahead. The faults are in the uses of one link, where a failed call
concerns one connection anyway. `MaxUnits` is above the units of any use and only bounds
the steps of the channel.

Where the conditions end, the module shows what the code leaves to the device, with
TLC behaviours one constant away:

* `DeliveredGapless` without `alone`: `receive_segment` throws away the packets of
  other links (`tcp_link.cpp:284-287`), so that a link loses a segment to another and
  takes the one behind it for the next, against `tcp_link.cpp:348-349`, "so a segment
  arrives in order".
* A segment the device sends again, because its acknowledgement is late, is handed
  out twice.
* `FramerAligned` with two links: the second starts in the middle of a packet whose
  start the first had read ahead (`docs/10-coredevice-tunnel.md:72` asks for a packet
  boundary).
* `over = "plain"`: `Tunnel::Impl::read` waits for a full buffer, though `tunnel.hpp:74`
  says "up to", and a connect does not return although its answer arrived.
* `WriteChunk` has no guard on `closed`, as `Impl::write` has none: after `read`
  answered the device's FIN with the link's own, a write goes out behind that FIN and
  reports success, though `byte_stream.hpp:36` says "Writes the whole of `data`, or
  fails."

Fairness. The thread runs, the device takes what it is sent, a service answers or
hangs up, and a read on a tunnel that has ended fails. Timeouts get none, and no
caller has to end a TLS write that goes round.

### Proofs (TunnelTcpProofs)

`TypesHold`, `NumbersTrue` (`SequencesHonest`), `BytesWhole` (`DeliveredWhole`) and
`LinkIsByteChannel` (`ImplementsByteChannel`) hold for any number of links, units,
segments sent again and faults, any segment size and any way of use. The only assumption
is `TunnelTcpAssumption`, on the constants. `TunnelInv` has six parts.

* `LInv`, the calls and links: they are made in turn, one that is not connected heard
  nothing, its SYN is the first the device sees of it, and it sends one FIN.
* `HInv`, what goes out: the segments of a link begin where the device is, do not
  overlap and end before `send_seq` (`HostOrder`), and while the tunnel is up there is
  no unit between the two that none of them holds (`HostGapless`). Both are said of
  units and not of neighbours on the wire, because segments of several links mix.
* `DInv`, what comes in (`Ahead`, what the framer read and what is in the tunnel): it
  was sent (`DevSpeaks`), so was what was heard, by its own link (`HeardExact`), and
  what is sent once comes in the order it was sent (`InOrder`). A link that lost
  packets to another still has them in order, hence no `alone` here.
* `GInv`, where nobody else reads the tunnel: all from `recv_seq` on is still to come
  without a gap (`DevGapless`), and all before it was heard (`AllHeard`); with nothing
  sent twice it was heard once, so that the `k`-th unit heard is unit `k` (`Counted`).
* `AInv`, with one link: first and second pieces alternate, and a first piece is next.
* `SInv`, what is counted on both sides: calls and segments stay within the use's bounds,
  nothing is under way on a tunnel that has ended, and a FIN that was sent has come or
  will. Hence the data a device takes was written before, and is counted as sent.

A lemma for each kind of step says what it changes: of the links and calls
(`StShape`), of what goes out (`SendShape`), of what comes in (`TurnShape`,
`SpeakShape`). Each part is then kept by each kind of step. The framer is where the
work is: a read of a tunnel piece moves it from `from_dev` to `framer` and changes
nothing in `Ahead`; a segment taken drops the first two pieces, and all that is said
of positions in `Ahead` is said again two places earlier.

The refinement is proved a link at a time: a step of the tunnel moves one link as the
channel does, or none. What the host writes is what has left it (`WritesCount`), what
the device takes was written and not yet taken (`TakesCount`, from `HInv` and `SInv`),
and what a read adds is the next unit (`OutIs`, from `Counted`). No hypothesis is
needed besides the assumption: `Channel` is told which uses it speaks of (`Plain`).

Model-checked only: liveness.

## 6. Dtx

A `DtxConnection` over a service's ByteStream, with the channels it opened and the
calls `ProcessControl` makes.

| module | code |
| --- | --- |
| `Request`, `RequestChannel`, `MethodCall` | `send_and_await_reply` up to its write, `request_channel`, `method_call`; `launch` stands for `process_identifier` and `is_running` too, which treat a reply alike |
| `Receive`, `NextPending` | the public `receive` and `next_pending` |
| `ReadHeader`, `Refuses`, `AckFails`, `ReadFails` | `receive`: its two reads, and each way it fails |
| `TakesReply`, `Queues`, `Receives` | the message is the reply, is put in `pending_`, or is returned by a plain `receive` |
| `Succeeds` | `reply_pid`, the `is_error` test of `kill`, and that `request_channel` makes no test |
| `Dev...` | the service on the device (external) |

A message is a header and a rest, in units of 16 bytes, read by two calls of
`read_exact`. When the second fails, or the header announces too much, the next
call reads 32 bytes from the middle of a message: it fails for a bad magic, and
whether it is aligned afterwards depends on the lengths, as in the code. That a
payload holds the magic where a header is expected is left out. A `read_exact` that
fails has used up nothing on a mux stream and a part on a `TcpLink`; the model
allows both. Selectors, arguments and archives are abstracted; `body` keeps what
`Succeeds` looks at.

The device answers requests in any order, late ones included, does what it says it
did, and sends messages of its own, numbered as the host's requests are. A write
that fails half way leaves it unable to find the next message (`deaf`).

Run `dtx_calls`: two calls, one message of the device's own (well formed, in
fragments, or too large), rests of one or two units, two stream failures.

| property | says |
| --- | --- |
| `ReplyAnswersCall` | what a call returns answers that call: not an earlier one that failed, and no message of the device's own with the same number |
| `SuccessIsDone` | a launch or kill that reports success was carried out |
| `IncomingHandled` | `QueuedInOrder`: what came in whole is queued in order and once, unless it was returned or its acknowledgement failed; `AckedOnce`: nothing is acknowledged twice, and nothing queued that asked for it is left unacknowledged |
| `CodeNamesService` | where both sides have a channel open under a code, it is for the same service, also after a request given up |
| `CallsReturn` | a call that awaits a reply returns |

`ReplyAnswersCall` and `SuccessIsDone` hold until the identifier comes round
(`NoWrap`, 2^32 calls). `SuccessIsDone` is about launch and kill: `request_channel`
takes an error for an answer too, and returns a channel the device did not open, on
which calls are then refused.

Bounds. Two calls let an answer to the first come in during the second. One message
of the device's own is enough to collide with an identifier of the host, and with a
late answer makes a queue of two. A rest of one unit leaves a torn stream out of
step, one of two units lets it fall into step again. Two faults are a failed
read or write and one more while recovering from it.

Fairness. The thread reads what is there, a read of a stream that ended fails, the
device takes and answers requests, and hangs up once it cannot follow. Timeouts get
none, and a plain `receive` is not said to return.

### Proofs (DtxProofs)

`TypeCorrect`, `RepliesMatch`, `SuccessesDone` and `CodesMatch` hold for every value
of the constants, `DtxAssumption` aside, and so for the identifiers of 32 bits and
any number of late answers. None is inductive by itself; `IInv` adds where each
number, answer and code may be while nobody has acted on it:

- `CallsNumbered`: every request in the call, on the wire or with the device
  (`Asked`) carries the identifier of its call, and the next identifier is that of
  the next call, though calls that failed used theirs up. The identifier is equal
  to the call only while it has not come round, hence `NoWrap`.
- `AnswersTrue`: every message on its way to the host (`Underway`) with a
  conversation index above 0 carries the identifier of the call it answers, and,
  unless it is an error, that call was carried out. Messages of the device's own
  have index 0; that is why `IsReply` tests both.
- `CodesOnce`: any two channels open at either side, or asked for and still
  undecided (`Named`), with one code are for one service, and their codes have been
  given out.

Most actions only move messages from one of these sets to another or drop them
(`Keeps`); `Request`, `TakesReply`, `DevAnswers` and `DevSends` have the argument.
The proofs rest on the device answering truthfully and giving its own messages
index 0.

`NothingDropped` is `IncomingHandled`. `KeepInv` follows the messages through
`send_and_await_reply`, `receive` and `next_pending` by their places in the stream:
messages begin one behind the other (`StartsClimb`); the one whose header was read is
behind all that were taken, and what begins in the stream is behind both
(`ReadBehind`), also when a failed read leaves the rest of a message to be skipped;
what `next_pending` gave out and will give out climbs, and is, with what was returned
and what was lost to an acknowledgement that failed, all that was taken
(`KeptInOrder`); so do the acknowledgements, and one that a queued message asked for
is among them (`AcksInOrder`). No identifier is looked at, so it holds past the wrap.

Model-checked only: liveness.

## 7. Transports

What is under the mux link: `UsbTransport`, `TcpTransport`, the frames `Session`
cuts their bytes into, and the handshake of `Connection::open`.

| module | code |
| --- | --- |
| `OpenUsb`, `OpenUsbFails`, `FindDevice`, `FindMux`, `Listed` | `UsbTransport::open`, `find_mux_interface`, `list` |
| `OpenTcp`, `Close` | `TcpTransport::open`, `reopen`; `close` |
| `Send`, `Moves`, `Retry`, `WriteFails` | `write` and `bulk_transfer`, one transfer at a time |
| `ReadBuffered`, `ReadTransfer`, `ReadSocket`, `ReadFails` | `read`: what the buffer has left, or one more transfer |
| `Receive`, `Decode`, `Received` | `Session::receive`: header, payload, each read to its end |
| `Skip`, `Answered`, `Settles` | `Connection::open`: stale frames, the version answer, the setup packet |

A unit is eight bytes, so a header is one or two of them. What is under way is one
sequence of units, cut anywhere: a USB transfer or a `recv` may bring a part of a frame,
several, or the end of one and the start of the next ("several partial
or whole mux frames", `usb_transport.cpp:33-34`). The buffer of a USB read is
modelled as it is kept: sized before the transfer, and handed out by size.

Of the devices on the bus, `resets` counts the configurations that were set on one which
was in a right one. `find_mux_interface` keeps the active configuration if it has the mux
interface; when its descriptor cannot be read it searches the others and may choose
another, and when `libusb_get_configuration` fails the configuration is set again whatever
it is (`usb_transport.cpp:177`, `445`). `Configures` has both, as faults.

| property of `transports` | says |
| --- | --- |
| `BytesIntact` | `FramesAsSent`: what is received is what the device sent, whole, in order and once, while no read failed; `WrittenWhole`: the same the other way |
| `OpensAsAsked` | `ReadyIsSettled`, `ClaimedIsChosen`, `ListedIsSelectable`: the device in use is one the selector names, alone claimed, in a version both speak, its frames numbered from the setup packet on; `HandshakeOutlastsStale`: opening fails for a reason only; `LeftAlone`: no configuration is set on a device in a right one unless libusb failed |
| `CallsReturn` | every call and every handshake ends |

`usb_reads` is a disagreement: `read` sizes `incoming` for the transfer and returns
without resetting it when the transfer fails (`usb_transport.cpp:527`), so the next
reads hand out zeros the device never sent, against the comment at
`usb_transport.cpp:522`.

Bounds. Two stale frames meet a limit of two; buses hold a device in its initial mode,
one whose configuration is right, one usbmuxd has and one without a readable serial; two
frames from the device and one to it, buffers of three units and two transfers per
budget make a frame that is cut, a transfer with parts of two frames, a budget that runs
out and a read that spans two transfers. One fault fails any transfer. Fairness: the thread runs and a budget runs
out; of the device nothing is asked. A USB transfer of length zero, which the code reads
as the end of the stream, is a failed read here. Deadlock is checked.

### Proofs (TransportsProofs)

`TypeCorrect`, `BytesArrive` (`BytesIntact`) and `OpensTrue` (`OpensAsAsked`, its
state part and its two action properties) hold for every set of devices and
selectors, every limit on stale frames, every size of the buffers and budgets, and
any number of frames and faults.

The constants are assumed to be what the code and the cable make of them
(`TransportsAssumption`): a buffer holds the three units of the longest frame
(`kReadBufferSize` and `kMaxFrameSize` are 48 KiB), and what is plugged in is
`Pluggable`: a product id is not zero, the active configuration is one of the
device's own, and no two devices of a model have the same serial that can be read.
`ListedIsSelectable` needs the first and the last: a zero in a selector matches
anything, and `find_device` takes the first device that matches.

`BytesIntact` is not inductive, since it looks only at frames that are complete.
The invariant says where the rest is:

- `CallInv`, `PhaseInv`: what a call holds while it waits, and what cannot have
  happened yet at each step of the handshake.
- `StreamInv`: `frame \o incoming` (`Begun`), what the reader and its buffer hold, is
  empty, the whole of the frame being read (`Current`), or its beginning with the
  rest at the head of the wire; behind it come the frames up to the last one the
  device sent, each whole (`Comes`, `Follow`, `IsFrame`). A transfer moves the cut
  and nothing else (`Arrives`), and the first unit tells the length of the frame
  (`FrameComes`), so `Session::receive` stops at its end (`WholeFrame`). `Current`
  counts skipped frames in the handshake and received ones behind it: the first
  frame that is an answer is the device's answer.
- `TakenInv`: the frames received are those behind the answer.
- `WriteInv`: what was heard and what is still to be sent are the frames whose write
  succeeded and the one in progress. `NumberInv`: their numbers, from the setup
  packet on.
- `BusInv`: the devices stay distinguishable, the one in use is claimed and no other.

`HandshakeOutlastsStale` needs all of `StreamInv`: a stale frame has a length that
decodes, and when the limit is reached the frames skipped were stale ones, because
the answer could not have been among them. `LeftAlone` is a property of the steps: where
no descriptor fails, `FindMux` is the active configuration if that one will do.
The history `out` (the units of `written`) is in the model for this proof.

Model-checked only: `CallsReturn` (liveness), and `HandsOutReceived`, which fails.

## 8. DeviceSession

`connect_with_retry`, from an unplugged device to a lockdown session and a service,
over a direct link or usbmuxd.

| module | code |
| --- | --- |
| `Load`, `Delete`, `Truncate`, `WriteRecord`, `DiskFails` | `Pairing::load`, `save`: truncated, then written in place |
| `Connect`, `OpenTransport`, `OpenConnection`, `OpenStream`, `Fail` | `connect_with_retry` and `Device::connect` up to lockdownd; an attempt that failed |
| `Send`, `SendFails`, `ReadLength`, `ReadFails`, `GiveUp`, `Unanswered` | `Lockdown::request`, in its three steps, and each way it fails; a write may fail on a link that is up |
| `ReadIgnored`, `ReadKey`, `ReadPair`, `ReadSession`, `ReadHandshake`, `ReadService` | what each caller of `request` makes of the answer |
| `StartService`, `OpenServiceStream`, `Disconnect`, `Hangup` | `Device::start_service`, `disconnect` |
| `Device...`, `Tap`, `Forget`, `Unplug`, `Replug`, `Crash` | lockdownd, its owner, the cable, the process (external) |

A write that fails on a live link has put nothing on it: of one that was cut in the
middle the stream is of no use any more, which is what `strayed` says of the requests that
follow. Unplugging and plugging in again may happen at any time, and is among what the
retry has to outlast; `missed` counts the attempts that found no device.

A key chain is a number. An answer does not name its request, in the model as in
the protocol: `step` is known to the device, and the host sees only what a body of
that kind lets it see. Mbed TLS is external; its handshake is one exchange.

| property | says |
| --- | --- |
| `RecordsHold` | `SavedIsAccepted`: the record on disk is one the device accepted; `ConnectedIsSaved`: a session has its record on disk |
| `SessionAgrees` | `AnswersMatch`: while no request was given up, what is under way belongs to the one in progress; `TlsAgrees`: both speak TLS or neither; `PortIsForService` |
| `RetryOutlastsFaults` | with a record the device trusts throughout, all attempts fail only if each met a fault of its own, an unplug among them, or found no device attached |
| `NoSecondDialog` | while that record is on disk the device asks no new question |
| `CallsReturn` | every call returns |

What the properties leave out is what the code does not give, all reachable in the
module. `doubtful` chains: an answer to Pair that is lost, or a save that fails,
leaves a chain that the device trusts, the memory holds and the disk does not, and
the retry never saves it (`device.cpp:123`). A chain whose Pair read a late answer
was accepted by nobody. `strayed`: the next answer is read whatever it answers
(`lockdown.cpp:163`), so a late answer to WiFiAddress can pass for Pair's. And
`paired()` is true before the device answered: `pair()` stores the chain first
(`pairing.cpp:530`, against `pairing.hpp:61`, "so pairing is complete"); with a dialog
that outlasts the first attempt the retry asks for a session with a chain the device
never accepted. `Spinning`: `tls_send` makes "want write" of every failure
(`pairing.cpp:651-677`), so a TLS write on a dead link is tried for ever, though
`docs/07-error-model.md` has failures returned; `CallsReturn` excepts exactly this.

Bounds. Two attempts, two Pair requests before the deadline and two chains reach
every retry; three faults let an attempt be cut short, its save fail and the process
crash. Two requests under way are more than one thread sends without giving up.
Fairness: the host and the device take their next step; people, cables and timeouts
owe nothing. Deadlock is not checked: a caller may be done.

### Proofs (DeviceSessionProofs)

`TypeCorrect`, `RecordsAreAccepted`, `SessionInStep`, `RetryOutlasts` and `AsksOnce`
(`NoSecondDialog`) hold for any
number of attempts, chains, requests under way and faults, under
`DeviceSessionAssumption`. `IInv` has five parts:

* `Shape`: what each step of an attempt may be in the middle of;
* `Records`: how the chain on disk, the one in memory and those the device trusts
  relate at each step: a chain is written only after the device accepted it, unless
  it is `doubtful`, and past the pairing steps the disk has what the memory has;
* `Underway`, `InStep`: while no request was given up there is at most one exchange
  under way, that of the step the host is in, and both sides agree on TLS;
* `Retry`: with a trusted record each attempt that failed cost a fault or found no
  device: `faults + missed` is at least what it was at the start, and one more for every
  attempt since; one more again while the attempt in progress is on a dead link or has
  given a request up, since it is going to fail.

None of the four is inductive alone: that an answer is the one asked for needs that
nothing else is under way, and this needs that an attempt which failed left its
stream behind.

`AsksOnce` needs more, because a Pair request may still be on its way when a late
answer to another request was taken for an acceptance and the record was saved. `Once`
says that it is then a first request: its chain is new, made when there was no record
(`Kept`), it is the only Pair request the device has not taken, and the device has not
accepted its chain (`Alone`). What has to be excluded is a second one for a chain that
was accepted. A Pair is repeated only if the answer read was "pending", and on a
stream with a request given up the answer that is read next is never that of the Pair
itself (`Ahead`): a request given up and the one in progress are both still under way
(`Owed`), and before the Pair stand only requests whose answers are not "pending"
(`Asked`). So a device that asks anew does not trust the chain of the request, which
is the only chain the file may hold.

Model-checked only: `CallsReturn` (liveness).

## 9. Apps, Afc, Rsd

`Apps` extends `Afc` and `Rsd`: a job is a string of services, over the mux or over
an RSD connection.

| module | code |
| --- | --- |
| `Afc`: `Pull`, `Push`, `Call`, `Send`, `ReadHeader`, `RefuseHeader`, `ReadPayload`, `ReadFails`, ... | `Afc::pull`, `push`, the one-transaction calls, `Impl::transact` and `receive`, packet by packet |
| `Rsd`: `OpenTunnel`, `ReadTunnel`, `ConnectRsd`, `SendSetup`, `ReadHandshake` | `Tunnel::open` with the CDTunnel exchange, `Rsd::connect` and its RemoteXPC handshake |
| `Rsd`: `Connects`, `SendCheckin`, `ReadCheckin` | `Rsd::start_service`, the shim check-in |
| `Apps`: `InstallOverMux` ... `IsRunningOverRsd` | each function of `app.cpp`, with `run_installer` and `ProcessControl`'s replies |
| `HouseArrestOverMux`, `HouseArrestFiles`, `HouseArrestClose` | `HouseArrest::start`, the AFC client on its stream, `close` |

A file is a sequence of chunks, a handle the number of the packet that opened it, a
property list its kind. The device refuses what it cannot do, and, as a fault, what
it can; it may say "progress", send what is no handshake before its handshake, and
leave services unadvertised.

| property | says |
| --- | --- |
| `ReportsAreTrue` | `TransfersWhole`: a pull or push that reports success moved the whole file, unless it was `cut`; `InstallsThePackage`: so did an install; `OutcomeIsOwn`: an outcome is what the device did for this job |
| `ServicesLeftClean` | `AnswerIsOwn`: no answer to an earlier packet is credited to a later one; `HandlesClosed`, `OneServiceAtATime`, `DroppedHoldNothing`: the host leaves nothing open, and what it dropped holds no handle; `ServicesAreAdvertised`, `ServiceIsClean`: a request goes out on a stream that is checked in and empty |
| `JobsEnd` | every job and every RSD connection ends |

Exceptions, as in the code: a push takes a read error of the local file for its end and
a pull does not look at what `fclose` returns, so that either may report success over a
file that is cut short (`cut`; `afc.cpp:478-496`, `449`); a pull whose local file cannot be
created, and a close packet that cannot be sent, leave the remote handle open (`leaked`;
`afc.cpp:416`, `453`, `495`); and after a transaction that was given up, or a read that
failed and used up a part of an answer, the stream may be out of step (`spoilt`).

Dropped links. A mux stream resets its port as it goes. A `TcpLink` does not: its
destructor says nothing (`tcp_link.cpp:372`), so that over an RSD the device keeps each
service that the host is done with, although `app.cpp:148-150` says that the AFC link is
"closed before the installer one opens". `dangling` is what the device keeps, and
`DroppedHoldNothing` what is true of it: no handle is open in it but for the exceptions
above, and it ends with the tunnel. On the host one stream is open at a time over either
path (`OneServiceAtATime`).

What was sent on a stream that is dropped the device carries out before the drop or never;
a packet that was written in part ends the stream. A TLS tunnel that ends under a write
makes the job hang (section 5), which `JobsEnd` leaves out: a write on a stream that is
down fails here.

Bounds. Two paths, files of up to two chunks, two calls, one job and one fault: enough
for a late answer in a later call, an error inside a transfer and a service lost at
any stage. That `JobsEnd` needs no more is the only thing that rests on these
bounds; the other properties are proved, several jobs in a row and faults that meet
included. Fairness: the job goes on as long as it can, the caller of a house arrest
closes it, the device carries out what it was sent. Deadlock is not checked: all jobs
may be done.

### Proofs (AppsProofs)

`TypesHold` (`AppsTypeOK`), `LeftClean` (`ServicesLeftClean`) and `ReportsTrue`
(`ReportsAreTrue`) hold for any paths, lengths of files, services and shims, any number
of jobs, calls and faults, and any caller of a house arrest. They rest on
`AfcAssumption`, `RsdAssumption` and `AppsAssumption`, on the constants. `AppsInv` has
one part for each module, and `Dangling` for what the host dropped.

`AfcInv` follows one AFC client and its device:

* `Clean`, `Waiting`: nothing is left of a stream that is closed; what a call that
  waits has already, and that an answer whose header was read is that of its packet;
* `Numbered`: requests and answers under way carry the numbers of packets that were
  sent, in order, and those the device carried out are in `done`;
* `Held`: the device's handles, named by the packets that opened them, are older than
  all that is under way to it, and no two are alike;
* `Carried`: an answer that is no refusal is of a packet in `done`, also one that
  comes late, and so is what the client was credited with. This is `AnswerIsOwn`;
* `Asked`, `Lockstep`: until a transaction is given up (`spoilt`) there is one packet or
  one answer under way, it is of the call in progress, and it is still true of the
  device's files (`Fits`);
* `OnlyOwn`: what is open on the device is the handle of the transfer in progress,
  known or on its way to the host. Between calls there is none, which is
  `HandlesClosed`;
* `Pulling`, `Pushing`: the part of a file that was transferred is what the other side
  has of it, up to where the device is in the file.

`EndsAtClose`: a transfer can only report success when the answer to its last close is
read, with nothing given up before; there `Pulling` and `Pushing` say that the file is
whole.

`Route` is the connection to the RSD: what was sent of its setup is a prefix of the
frames the device expects, and its services are those the device advertised.

`JobInv` is the jobs. `Stages`: which streams there are at each stage of a job, and that
a job that runs has no outcome yet. `Checkin`: how far the check-in of a shim is on both
sides, and that a request goes out on a stream with nothing left to be read. `Replied`:
there is one last answer, it comes after the command was carried out, and it says what
is true of the app (`IsTrue`) from the moment it is sent to the moment it is read.
`Staging`: between the push of a package and the end of the install nothing writes at
its path; this needs that a push that succeeded leaves the device nothing to write,
hence what `Staging` says of `toDev`.

Each action of a job keeps `JobInv`, with `OverKeeps` for all that end it. For
`ReportsTrue`, `JobEnds` shows that nothing but the last answer of a job ends it in
"success" or "no", and `IsTrue` of that answer is the claim. It is said of the step in
which the host reports, not of all states after it: what a command of a job that was
given up may still do to the app is for the device.

Model-checked only: `JobsEnd` (liveness).

## 10. Codecs

The writers and readers are operators, and `Codecs` a small state machine around
them: a value is written, what was written may lose its end or have a length
changed, and it is read; or a text comes from elsewhere.

| module | code |
| --- | --- |
| `Plist` | `to_binary` (object table, shared keys, widths), `parse_binary` (references, cycles) |
| `KeyedArchive` | `archive`, `unarchive` and its depth guard |
| `PlistXml` | `to_xml`, `parse_xml`, entities, Base64, dates |
| `Json` | `to_string`, `parse`: strings, escapes, surrogates, commas |
| `RemoteXpc` | `XpcWrapper::encode`, `parse`: padding, lengths, nesting |

Left abstract are the digits of numbers, the text of a real, and the characters of a
string beyond the few that matter; one word stands for them. A byte has the base
`Byte`, a parameter, which moves the limits of widths and counts within reach.

| property of `codecs` | says |
| --- | --- |
| `RoundTrips` | per format, what is written is read back: `BinaryRoundTrips`, `ArchivesRoundTrip` (up to the depth guard, refused beyond), `XmlRoundTrips`, `JsonRoundTrips`, `XpcRoundTrips`; and `DatesFollowCalendar`, against the calendar's definition |
| `OnlyWellFormedIsRead` | `TablesAccepted`: a binary object table is read exactly if what is reachable is there and not part of itself; `JsonAccepts`: a JSON text of the tokens and escapes tried is read exactly if the grammar has it; `XpcLengthsHold`: an XPC wrapper with a wrong length or count is refused; `CutIsRefused`: so is an XML, JSON or XPC text that lost its end |

`plist_integers` is a disagreement: widths are unsigned when written and signed when
read (`plist.cpp:1311`), so 200 comes back as -56, although `tests/plist_test.cpp:59`
says "a plist round-trips through binary".

`OnlyWellFormedIsRead` does not say that the parsers take exactly their formats; they do
not. `XmlParser` refuses `<array/>` and `<dict/>` (`plist.cpp:547-556`, `574-583`) and takes
text behind `</plist>` or without it; the JSON parser takes control characters in a string
(`json.cpp:178-181`) and numbers such as `1.`, `.5` and `01` (`json.cpp:249-288`). Such texts
are not among those tried, and neither are binary property lists and archives that were
cut.

Bounds. Values of the types each format has here, nested to depth three, keys shared and
not (XML without reals and Uids, XPC without int64, double and date, JSON with the number
1 only); integers
around every width, strings around the count marker; XML strings of words that look like
tags and entities; JSON texts of up to five tokens, strings of up to five escapes; days
around the ends of months over 2600 years; every cut of an XML, JSON or XPC text and
every change of a length in the latter. What an input of another shape does is left to
the tests and fuzzers.

Seen while modelling, and left as the code has it: reals of four bytes are converted
by value instead of by bits (`plist.cpp:1334`); a Uid is an integer in XML, and characters beyond ASCII in UTF-16
strings are dropped, as documented; dates outside the years 0 to 9999 do not come
back; JSON writes NaN as null; XPC strings lose NULs at their end.

## 11. Proved and model-checked

| module | theorems |
| --- | --- |
| `MuxLinkProofs` | `TypeCorrect`, `Delivery`, `PortsUnique`, `PortsGivenBack` |
| `MuxChannelProofs` | `NumbersTrue`, `LinkIsByteChannel` |
| `TunnelTcpProofs` | `TypesHold`, `NumbersTrue`, `BytesWhole`, `LinkIsByteChannel` |
| `Http2Proofs` | `TypeCorrect`, `ConnectionWithin`, `WindowsAreExact`, `StreamWithin`, `MessagesArrive` |
| `DtxProofs` | `TypeCorrect`, `RepliesMatch`, `SuccessesDone`, `CodesMatch`, `NothingDropped` |
| `TransportsProofs` | `TypeCorrect`, `BytesArrive`, `OpensTrue` |
| `DeviceSessionProofs` | `TypeCorrect`, `RecordsAreAccepted`, `SessionInStep`, `RetryOutlasts`, `AsksOnce` |
| `AppsProofs` | `TypesHold`, `LeftClean`, `ReportsTrue` |

They rest on the named assumptions on the constants, and `LinkIsByteChannel` of
`MuxChannelProofs` on its two hypotheses besides. They cover every safety and action
property of the runs but those of the codecs. Left to TLC are liveness, with fairness
and ENABLED beyond the prover (`CallsReturn`, `WritesReturn`, `JobsEnd`), and
`RoundTrips` and `OnlyWellFormedIsRead`: the codecs are defined by recursion over their
data, and what a recursive operator computes for every input cannot be proved. Since
the proofs hold for every value of the constants, the runs of what is proved are small:
they show that the cases happen, and each property that a plausible error in the code
breaks it.

## 12. Not modelled

Logging is output. Key generation, certificates and the record layer of TLS belong
to Mbed TLS. The layout of the fixed headers (`usbmux.cpp`, IPv6, HTTP/2 frames, DTX,
AFC) is abstracted to their fields, and covered by unit tests. Name resolution,
socket options, libusb set-up calls that cannot change the outcome, and
`DeviceId::parse` are left out. Tools, examples, fuzzers and tests hold no protocol
state of their own.

Hazards without a property. For three no document says what should happen: a read of a
stream whose port the device has reset waits for frames that cannot come
(`stream.cpp:336`), an HTTP/2 write does not look at `failed` (`http2.cpp:383`), and a
payload whose acknowledgement could not be sent on a `TcpLink` is lost with the call
(`tcp_link.cpp:351`). Others are what a property above excepts, because the code does not
keep it there: ports past the wrap (section 3), TLS writes that go round (5 and 8),
segments sent again or read by another link (5), a message whose acknowledgement fails
(6), and `doubtful` chains (8). Each is in the model and in `PROJECT.json`, with the reason.
