------------------------------- MODULE Http2 -------------------------------
(***************************************************************************)
(* The HTTP/2 connection that carries RemoteXPC                            *)
(* (src/src/protocol/http2.cpp), over one transport, against the device.   *)
(*                                                                         *)
(* The host is one thread of blocking calls, cut at its writes and reads.  *)
(* The transport is a reliable byte stream with a frame for a unit:        *)
(* Http2::Impl::buffer and the splitting of frames by the transport's      *)
(* reads are left out, a frame that was handled but not erased from the    *)
(* buffer is kept at the head of from_peer.                                *)
(*                                                                         *)
(* HTTP/2 counts window by stream, with stream 0 for the connection.  The  *)
(* code keeps two counters, connection_window and one stream_window for    *)
(* whichever stream is written; the histories `sent`, `updates` and        *)
(* `initial` say what the peer granted and what was spent of it.           *)
(***************************************************************************)
EXTENDS Integers, Sequences

CONSTANTS
    DefaultWindow,  \* kDefaultWindowSize, in units
    MaxFrame,       \* kMaxFrameSize, in units
    MaxWindow,      \* 2^31 - 1 in the code: the windows are std::int32_t
    Windows,        \* the INITIAL_WINDOW_SIZE values a peer may choose
    Bodies,         \* what a DATA frame of the peer may carry
    MaxUnits,       \* bound: units the caller writes
    MaxOwn,         \* bound: frames of the peer but its first SETTINGS and the window it returns
    MaxWire,        \* bound: frames under way each way
    MaxFaults       \* bound: transport calls that fail on a link that is up

ASSUME Http2Assumption ==
    /\ DefaultWindow \in Nat
    /\ MaxFrame \in Nat \ {0}
    /\ MaxWindow \in Nat
    /\ DefaultWindow <= MaxWindow
    /\ Windows \subseteq 0 .. MaxWindow
    /\ Bodies # {}
    /\ MaxUnits \in Nat
    /\ MaxOwn \in Nat
    /\ MaxWire \in Nat \ {0}
    /\ MaxFaults \in Nat

\* kHttp2ControlStream and kHttp2ReplyStream: the streams the library opens.
StreamIds  == {1, 3}
Ids        == {0} \cup StreamIds
NoWindow   == -1                    \* a SETTINGS frame that names no window size

\* `at` is a history: where a DATA frame of the host ends on its stream, where
\* the grant of a WINDOW_UPDATE starts, which message a DATA frame of the peer is.
HostFrames == [type : {"HEADERS", "DATA"}, stream : StreamIds, n : Nat, at : Nat]
              \cup [type : {"PREFACE", "SETTINGS_ACK", "PING_ACK", "GOAWAY"}, stream : {0},
                    n : Nat, at : Nat]
PeerFrames == [type : {"DATA", "WINDOW_UPDATE", "PING", "GOAWAY", "RST_STREAM"}, stream : Ids,
               n : Nat, at : Nat, body : Bodies]
              \cup [type : {"SETTINGS"}, stream : {0}, n : {NoWindow} \cup (0 .. MaxWindow),
                    at : Nat, body : Bodies]
Messages   == [stream : Ids, at : Nat, body : Bodies]

VARIABLES
    connection_window,  \* Impl::connection_window
    stream_window,      \* Impl::stream_window, shared by the streams
    received,           \* Impl::received
    settings_seen,      \* Impl::settings_seen
    failed,             \* Impl::failed
    op,                 \* the call: "new", "connect", "idle", "write", "read", "closing", "over"
    cur,                \* the stream the write in progress is on
    left,               \* units the write in progress has left
    link,               \* the transport: "up" or "ended"
    faults,             \* history: transport calls that failed on a link that is up
    to_peer,            \* frames under way to the peer
    from_peer,          \* frames under way to the host
    opened,             \* history: the streams the caller opened
    got,                \* history: the messages Http2::read returned
    sent,               \* history: units sent on each stream, and in all
    updates,            \* history: units each WINDOW_UPDATE read granted
    initial,            \* history: the INITIAL_WINDOW_SIZE last read
    peer_initial,       \* peer: the INITIAL_WINDOW_SIZE it chose
    peer_settings,      \* peer: SETTINGS frames it sent
    peer_open,          \* peer: the streams it saw opened
    consumed,           \* peer: units it took on each stream, and in all
    issued,             \* peer: units it granted by WINDOW_UPDATE
    ahead,              \* history: where it granted more than it had consumed
    peer_sent,          \* peer: DATA frames with a payload it sent
    others              \* peer: PING, GOAWAY, RST_STREAM and empty DATA frames it sent,
                        \* and WINDOW_UPDATE frames that granted more than it had consumed

windows == <<connection_window, stream_window>>
impl    == <<windows, received, settings_seen, failed>>
calls   == <<op, cur, left>>
wire    == <<link, faults>>
history == <<opened, got, sent, updates, initial>>
peer    == <<peer_initial, peer_settings, peer_open, consumed, issued, ahead, peer_sent,
             others>>
vars    == <<impl, calls, wire, to_peer, from_peer, history, peer>>

TypeOK ==
    /\ connection_window \in Int
    /\ stream_window \in Int
    /\ received \in Seq(Messages)
    /\ settings_seen \in BOOLEAN
    /\ failed \in BOOLEAN
    /\ op \in {"new", "connect", "idle", "write", "read", "closing", "over"}
    /\ cur \in StreamIds
    /\ left \in Nat
    /\ link \in {"up", "ended"}
    /\ faults \in 0 .. MaxFaults
    /\ to_peer \in Seq(HostFrames)
    /\ from_peer \in Seq(PeerFrames)
    /\ opened \subseteq StreamIds
    /\ got \in Seq(Messages)
    /\ sent \in [Ids -> Nat]
    /\ updates \in [Ids -> Nat]
    /\ initial \in 0 .. MaxWindow
    /\ peer_initial \in 0 .. MaxWindow
    /\ peer_settings \in Nat
    /\ peer_open \subseteq StreamIds
    /\ consumed \in [Ids -> Nat]
    /\ issued \in [Ids -> Nat]
    /\ ahead \subseteq Ids
    /\ peer_sent \in Nat
    /\ others \in Nat
    /\ peer_settings + peer_sent + others <= MaxOwn + 1

Zero == [id \in Ids |-> 0]

Init ==
    /\ connection_window = DefaultWindow
    /\ stream_window = DefaultWindow
    /\ received = <<>>
    /\ settings_seen = FALSE
    /\ failed = FALSE
    /\ op = "new"
    /\ cur = 1
    /\ left = 0
    /\ link = "up"
    /\ faults = 0
    /\ to_peer = <<>>
    /\ from_peer = <<>>
    /\ opened = {}
    /\ got = <<>>
    /\ sent = Zero
    /\ updates = Zero
    /\ initial = DefaultWindow
    /\ peer_initial = DefaultWindow
    /\ peer_settings = 0
    /\ peer_open = {}
    /\ consumed = Zero
    /\ issued = Zero
    /\ ahead = {}
    /\ peer_sent = 0
    /\ others = 0
-----------------------------------------------------------------------------
(* The transport.                                                          *)

HostFrame(type, id, n, at) == [type |-> type, stream |-> id, n |-> n, at |-> at]

\* A write waits while the peer takes nothing.
Sent(frame) ==
    /\ link = "up"
    /\ Len(to_peer) < MaxWire
    /\ to_peer' = Append(to_peer, frame)
    /\ UNCHANGED wire

\* A call of the transport that fails: the peer is gone, or it is the
\* transport's own trouble.
Trouble ==
    /\ link # "up" \/ faults < MaxFaults
    /\ faults' = IF link = "up" THEN faults + 1 ELSE faults
    /\ UNCHANGED link

SendFails == Trouble /\ UNCHANGED to_peer

Frame == Head(from_peer)

\* fill: what arrived before the end can still be read.
ReadFails ==
    /\ from_peer = <<>> \/ faults < MaxFaults
    /\ link = "up" \/ from_peer = <<>>
    /\ Trouble
    /\ UNCHANGED <<to_peer, from_peer>>
-----------------------------------------------------------------------------
(* The calls, and how each returns.                                        *)

Return == op' = "idle" /\ left' = 0 /\ UNCHANGED cur

\* An error of connect destroys the Http2, and with it the connection; an error
\* of another call leaves the Http2 to the caller.
Fail == op' = (IF op = "connect" THEN "closing" ELSE "idle") /\ left' = 0 /\ UNCHANGED cur

\* Http2::connect: the preface, SETTINGS and the connection's WINDOW_UPDATE, three
\* writes in one: one that fails closes the connection, however far they came.
Connect ==
    /\ op = "new"
    /\ \/ Sent(HostFrame("PREFACE", 0, 0, 0)) /\ op' = "connect"
       \/ SendFails /\ op' = "closing"
    /\ UNCHANGED <<cur, left, impl, from_peer, history, peer>>

\* ... until the peer's SETTINGS arrived.
Connected ==
    /\ op = "connect"
    /\ settings_seen
    /\ Return
    /\ UNCHANGED <<impl, wire, to_peer, from_peer, history, peer>>

\* Http2::open.  The library opens a stream once.
Open(st) ==
    /\ op = "idle"
    /\ st \notin opened
    /\ \/ Sent(HostFrame("HEADERS", st, 0, 0)) /\ opened' = opened \cup {st}
       \/ SendFails /\ UNCHANGED opened
    /\ UNCHANGED <<impl, calls, from_peer, got, sent, updates, initial, peer>>

\* Http2::write, which the library calls on a stream it opened.
Write(st, n) ==
    /\ op = "idle"
    /\ st \in opened
    /\ n > 0
    /\ sent[0] + n <= MaxUnits
    /\ op' = "write" /\ cur' = st /\ left' = n
    /\ UNCHANGED <<impl, wire, to_peer, from_peer, history, peer>>

Read ==
    /\ op = "idle"
    /\ op' = "read" /\ UNCHANGED <<cur, left>>
    /\ UNCHANGED <<impl, wire, to_peer, from_peer, history, peer>>

\* Http2::close, by the caller or the destructor: GOAWAY, whatever becomes of it.
Close ==
    /\ op \in {"idle", "closing"}
    /\ op' = "over"
    /\ Sent(HostFrame("GOAWAY", 0, 0, 0)) \/ SendFails
    /\ UNCHANGED <<cur, left, impl, from_peer, history, peer>>
-----------------------------------------------------------------------------
(* Http2::write, one DATA frame at a time.                                 *)

Smaller(a, b) == IF a < b THEN a ELSE b

\* Mutant: the window of the stream is not looked at.
ConnectionOnly == Smaller(connection_window, MaxFrame)

Budget == Smaller(Smaller(connection_window, stream_window), MaxFrame)

\* Mutant: the rest of the payload is not looked at.
WholeBudget == Budget

Count == Smaller(Budget, left)

\* What a DATA frame of n units costs.
\* Mutant: only the window of the stream is charged.
StreamCharged(n) ==
    /\ stream_window' = stream_window - n
    /\ UNCHANGED connection_window

Charged(n) ==
    /\ connection_window' = connection_window - n
    /\ stream_window' = stream_window - n

WriteData ==
    LET n == Count
    IN  /\ op = "write"
        /\ left > 0
        /\ Budget > 0
        /\ Sent(HostFrame("DATA", cur, n, sent[cur] + n))
        /\ left' = left - n
        /\ Charged(n)
        /\ sent' = [sent EXCEPT ![0] = @ + n, ![cur] = @ + n]
        /\ UNCHANGED <<received, settings_seen, failed, op, cur, from_peer,
                       opened, got, updates, initial, peer>>

WriteFails ==
    /\ op = "write"
    /\ left > 0
    /\ Budget > 0
    /\ SendFails
    /\ Fail
    /\ UNCHANGED <<impl, from_peer, history, peer>>

Written ==
    /\ op = "write"
    /\ left = 0
    /\ Return
    /\ UNCHANGED <<impl, wire, to_peer, from_peer, history, peer>>
-----------------------------------------------------------------------------
(* Http2::read hands out what was received before it looks at `failed`.    *)

\* Mutant: the newest message is handed out.
NewestFirst == /\ got' = Append(got, received[Len(received)])
               /\ received' = SubSeq(received, 1, Len(received) - 1)

OldestFirst == got' = Append(got, Head(received)) /\ received' = Tail(received)

ReadReturns ==
    /\ op = "read"
    /\ received # <<>>
    /\ OldestFirst
    /\ Return
    /\ UNCHANGED <<windows, settings_seen, failed, wire, to_peer, from_peer,
                   opened, sent, updates, initial, peer>>

\* Both connect and read give up once the peer said GOAWAY or reset a stream.
GivesUp ==
    /\ \/ op = "connect" /\ ~settings_seen
       \/ op = "read" /\ received = <<>>
    /\ failed
    /\ Fail
    /\ UNCHANGED <<impl, wire, to_peer, from_peer, history, peer>>
-----------------------------------------------------------------------------
(* Impl::read_frame, by the type of the frame.  The write waits in it too, *)
(* without a look at `failed`.                                             *)

InReadFrame ==
    \/ op = "connect" /\ ~settings_seen /\ ~failed
    \/ op = "write" /\ left > 0 /\ Budget <= 0
    \/ op = "read" /\ received = <<>> /\ ~failed

FrameFails ==
    /\ InReadFrame
    /\ ReadFails
    /\ Fail
    /\ UNCHANGED <<impl, history, peer>>

Takes(type) ==
    /\ InReadFrame
    /\ from_peer # <<>>
    /\ Frame.type = type

Erased   == from_peer' = Tail(from_peer)
Unmoved  == UNCHANGED <<calls, wire, to_peer>>

\* An empty DATA frame is ignored.
TakesData ==
    /\ Takes("DATA")
    /\ Erased
    /\ received' = IF Frame.n > 0
                   THEN Append(received, [stream |-> Frame.stream, at |-> Frame.at,
                                          body |-> Frame.body])
                   ELSE received
    /\ Unmoved
    /\ UNCHANGED <<windows, settings_seen, failed, history, peer>>

\* A frame that wants an answer.  When the answer cannot be written the frame
\* stays in the buffer, and the next call handles it again.
Answered(type) ==
    \/ /\ Sent(HostFrame(type, 0, 0, 0))
       /\ Erased
       /\ UNCHANGED calls
    \/ /\ SendFails
       /\ Fail
       /\ UNCHANGED from_peer

\* The peer's INITIAL_WINDOW_SIZE takes the place of the window.
WindowAfter(f) == IF f.n = NoWindow THEN stream_window ELSE f.n

TakesSettings ==
    /\ Takes("SETTINGS")
    /\ stream_window' = WindowAfter(Frame)
    /\ initial' = IF Frame.n = NoWindow THEN initial ELSE Frame.n
    /\ settings_seen' = TRUE
    /\ Answered("SETTINGS_ACK")
    /\ UNCHANGED <<connection_window, received, failed, opened, got, sent, updates, peer>>

\* std::int32_t: past MaxWindow the sum wraps.
Wrap(w) == IF w > MaxWindow THEN w - 2 * (MaxWindow + 1) ELSE w

\* Mutant: every WINDOW_UPDATE is for the connection and the stream.
BothGranted(id, n) ==
    /\ connection_window' = Wrap(connection_window + n)
    /\ stream_window' = Wrap(stream_window + n)

\* Mutant: a WINDOW_UPDATE of a stream is lost.
StreamIgnored(id, n) ==
    /\ connection_window' = IF id = 0 THEN Wrap(connection_window + n) ELSE connection_window
    /\ UNCHANGED stream_window

Granted(id, n) ==
    IF id = 0
    THEN connection_window' = Wrap(connection_window + n) /\ UNCHANGED stream_window
    ELSE stream_window' = Wrap(stream_window + n) /\ UNCHANGED connection_window

TakesUpdate ==
    /\ Takes("WINDOW_UPDATE")
    /\ Erased
    /\ Granted(Frame.stream, Frame.n)
    /\ updates' = [updates EXCEPT ![Frame.stream] = @ + Frame.n]
    /\ Unmoved
    /\ UNCHANGED <<received, settings_seen, failed, opened, got, sent, initial, peer>>

TakesPing ==
    /\ Takes("PING")
    /\ Answered("PING_ACK")
    /\ UNCHANGED <<impl, history, peer>>

TakesClose ==
    /\ Takes("GOAWAY") \/ Takes("RST_STREAM")
    /\ Erased
    /\ failed' = TRUE
    /\ Unmoved
    /\ UNCHANGED <<windows, received, settings_seen, history, peer>>
-----------------------------------------------------------------------------
(* The peer, as RFC 9113 lets it behave and the code counts on.            *)

PeerFrame(type, id, n, at, body) ==
    [type |-> type, stream |-> id, n |-> n, at |-> at, body |-> body]

ABody == CHOOSE body \in Bodies : TRUE

PeerSends(f) ==
    /\ link = "up"
    /\ Len(from_peer) < MaxWire
    /\ from_peer' = Append(from_peer, f)
    /\ UNCHANGED <<impl, calls, wire, to_peer, history>>

\* It may send a frame of its own accord.
Spare == peer_settings + peer_sent + others <= MaxOwn

\* Its SETTINGS come first, and may come again.
PeerSettings(w) ==
    /\ Spare
    /\ PeerSends(PeerFrame("SETTINGS", 0, w, 0, ABody))
    /\ peer_settings' = peer_settings + 1
    /\ peer_initial' = IF w = NoWindow THEN peer_initial ELSE w
    /\ UNCHANGED <<peer_open, consumed, issued, ahead, peer_sent, others>>

\* It returns the window it consumed, or grants more; no window may pass MaxWindow.
PeerGrants(id, n) ==
    /\ peer_settings > 0
    /\ id = 0 \/ id \in peer_open
    /\ n > 0
    /\ (IF id = 0 THEN DefaultWindow ELSE peer_initial) + issued[id] + n - consumed[id]
           <= MaxWindow
    /\ PeerSends(PeerFrame("WINDOW_UPDATE", id, n, issued[id], ABody))
    /\ issued' = [issued EXCEPT ![id] = @ + n]
    /\ \/ /\ issued[id] + n <= consumed[id]
          /\ UNCHANGED <<ahead, others>>
       \/ /\ issued[id] + n > consumed[id]
          /\ Spare
          /\ ahead' = ahead \cup {id}
          /\ others' = others + 1
    /\ UNCHANGED <<peer_initial, peer_settings, peer_open, consumed, peer_sent>>

PeerData(id, body) ==
    /\ peer_settings > 0
    /\ id \in peer_open
    /\ Spare
    /\ \/ /\ PeerSends(PeerFrame("DATA", id, 1, peer_sent + 1, body))
          /\ peer_sent' = peer_sent + 1
          /\ UNCHANGED others
       \/ /\ PeerSends(PeerFrame("DATA", id, 0, 0, body))
          /\ others' = others + 1
          /\ UNCHANGED peer_sent
    /\ UNCHANGED <<peer_initial, peer_settings, peer_open, consumed, issued, ahead>>

PeerPing ==
    /\ peer_settings > 0
    /\ Spare
    /\ PeerSends(PeerFrame("PING", 0, 8, 0, ABody))
    /\ others' = others + 1
    /\ UNCHANGED <<peer_initial, peer_settings, peer_open, consumed, issued, ahead, peer_sent>>

PeerCloses ==
    /\ Spare
    /\ \/ PeerSends(PeerFrame("GOAWAY", 0, 8, 0, ABody))
       \/ \E st \in peer_open : PeerSends(PeerFrame("RST_STREAM", st, 4, 0, ABody))
    /\ others' = others + 1
    /\ UNCHANGED <<peer_initial, peer_settings, peer_open, consumed, issued, ahead, peer_sent>>

PeerTakes ==
    LET f == Head(to_peer)
    IN  /\ to_peer # <<>>
        /\ to_peer' = Tail(to_peer)
        /\ peer_open' = IF f.type = "HEADERS" THEN peer_open \cup {f.stream} ELSE peer_open
        /\ consumed' = IF f.type = "DATA"
                       THEN [consumed EXCEPT ![0] = @ + f.n, ![f.stream] = @ + f.n]
                       ELSE consumed
        /\ UNCHANGED <<impl, calls, wire, from_peer, history, peer_initial, peer_settings,
                       issued, ahead, peer_sent, others>>

\* The tunnel or the device is gone; what it sent before can still be read.
PeerEnds ==
    /\ link = "up"
    /\ link' = "ended"
    /\ to_peer' = <<>>
    /\ UNCHANGED <<impl, calls, faults, from_peer, history, peer>>
-----------------------------------------------------------------------------
Call ==
    \/ Connect \/ Read \/ Close
    \/ \E st \in StreamIds : Open(st) \/ \E n \in 1 .. MaxUnits : Write(st, n)

TakesFrame ==
    TakesData \/ TakesSettings \/ TakesUpdate \/ TakesPing \/ TakesClose

Continue ==
    \/ Connected \/ WriteData \/ WriteFails \/ Written
    \/ ReadReturns \/ GivesUp \/ TakesFrame \/ FrameFails

GrantSteps(id) == \E n \in 1 .. MaxWindow : PeerGrants(id, n)

Returns(id) == \E n \in 1 .. MaxWindow : issued[id] + n <= consumed[id] /\ PeerGrants(id, n)

PeerStep ==
    \/ \E w \in Windows \cup {NoWindow} : PeerSettings(w)
    \/ \E id \in Ids : GrantSteps(id)
    \/ \E id \in StreamIds, body \in Bodies : PeerData(id, body)
    \/ PeerPing \/ PeerCloses \/ PeerTakes \/ PeerEnds

Next == Call \/ Continue \/ PeerStep

Spec == Init /\ [][Next]_vars

\* The thread runs; the peer takes what it is sent and returns the window.
Fairness ==
    /\ WF_vars(Continue)
    /\ WF_vars(PeerTakes)
    /\ \A id \in Ids : WF_vars(Returns(id))

FairSpec == Spec /\ Fairness
-----------------------------------------------------------------------------
\* "so SETTINGS and WINDOW_UPDATE must be tracked" (docs/10-coredevice-tunnel.md:137):
\* connection_window never lets more out than the peer granted the connection.
ConnectionWithinGrant == sent[0] <= DefaultWindow + updates[0]

\* "`write` blocks until the peer grants more rather than overrunning it"
\* (http2.hpp:52-53), said of every peer.
NeverOverruns ==
    [][\A st \in StreamIds :
          sent'[st] # sent[st] => sent'[st] <= initial + updates[st]]_vars

\* The code has one stream_window for its streams, and takes a SETTINGS frame for
\* the whole of it.  A DATA frame still goes out only within what the peer granted
\* its stream, if the SETTINGS came once and it is no other stream that the peer
\* granted more than it consumed (Http2::write, Impl::read_frame).
StreamWithinGrant ==
    [][\A st \in StreamIds :
          sent'[st] # sent[st] /\ peer_settings <= 1 /\ ahead \cap StreamIds \subseteq {st} =>
              sent'[st] <= initial + updates[st]]_vars

\* As long as no more than one stream was granted more than the peer consumed, and
\* the SETTINGS came once, the one counter has the sum of the streams' windows.
Tracked == peer_settings <= 1 /\ ~(StreamIds \subseteq ahead)

\* The connection's counter is what the peer granted less what was sent, whatever
\* the peer grants; so is the streams' as long as it can be, and the int32_t sum of
\* their grants does not wrap (Http2::write, Impl::read_frame).
WindowsExact ==
    /\ connection_window = DefaultWindow + updates[0] - sent[0]
    /\ Tracked => stream_window = initial + (updates[1] - sent[1]) + (updates[3] - sent[3])

\* Http2::read: the messages the caller is given are the peer's, in its order,
\* none lost or repeated, those that arrived while a write waited among them.
MessagesInOrder ==
    LET heard == got \o received
    IN  \A i \in 1 .. Len(heard) : heard[i].at = i

\* A write that waits for a window is not left waiting by a peer that returns
\* what it consumed, though the windows of the streams are counted as one; it may
\* be, once the counter has lost them (Http2::write).
WritesReturn == op = "write" ~> op # "write" \/ ~Tracked
=============================================================================
