------------------------------- MODULE Transport -------------------------------
(***************************************************************************)
(* The transports (transport/tcp.ts, websocket.node.ts and                 *)
(* websocket.browser.ts) and the receive loop that reads from one:         *)
(* startReceiveLoop() with the frame parser of frame/codec.ts.             *)
(*                                                                         *)
(* A TCP transport gets bytes: every message is preceded by its length and *)
(* a "data" event may end anywhere, inside the length too.  A WebSocket    *)
(* delivers whole messages.  A message holds a frame or, at the peer's     *)
(* choice, a part of one, or nothing, or what no frame decoder accepts.    *)
(* "ws" is the WebSocket of Node's ws package, "browser" the built-in one, *)
(* which delivers nothing any more once it was told to close.              *)
(* Header bytes and bodies are counted in units; a byte is identified by   *)
(* its message and place, so that a misplaced one would show.              *)
(***************************************************************************)
EXTENDS Naturals, FiniteSets, SequencesExt

CONSTANTS
    Kinds,         \* transports of this instance: subset of {"tcp", "ws", "browser"}
    HeaderUnits,   \* units of the length prefix (4 bytes in the code)
    MaxFrameSize,  \* maxFrameSize, in units
    MaxMessages    \* bound on the messages, of the peer and of our side

ASSUME TransportAssumption ==
    /\ Kinds \subseteq {"tcp", "ws", "browser"}
    /\ HeaderUnits \in Nat \ {0} /\ MaxFrameSize \in Nat \ {0} /\ MaxMessages \in Nat

VARIABLES
    kind,       \* which transport this is
    msgs,       \* messages the peer wrote
    read,       \* bytes (tcp) or messages (ws) the socket has delivered
    peerOpen,   \* the peer has not closed its side
    sock,       \* connecting, open, ended (we closed our side), destroyed, closed
    connected,  \* connected
    parser,     \* handleData's buffers and counters
    inbox,      \* receiveQueue
    terminal,   \* terminalError is set (tcp)
    closing,    \* close(): no, pending, done
    reader,     \* receive loop: off, idle, waiting, got, stopped
    hand,       \* the message a resolved receive() carries
    partial,    \* the frame parser's buffer
    taken,      \* frames the loop dispatched
    writer,     \* who holds the write chain: idle, writing, backlogged
                \* (write() returned false) or pinging
    handed,     \* messages given to the socket
    flushed,    \* ... that the socket has written
    confirmed   \* ... whose send() resolved

socketVars == <<kind, msgs, read, peerOpen, sock, connected, closing>>
readerVars == <<reader, hand, partial, taken>>
writerVars == <<writer, handed, flushed, confirmed>>
receiving == <<socketVars, parser, inbox, terminal, readerVars>>
vars == <<receiving, writerVars>>

(* A message: the frame it belongs to, which part of it, and its length.   *)
Parts == {"whole", "first", "rest", "empty", "malformed"}

NoMessage == [lengthOffset |-> 0, current |-> FALSE, units |-> <<>>, size |-> 0,
              out |-> <<>>, tooLong |-> FALSE]

Init ==
    /\ kind \in Kinds
    /\ msgs = <<>> /\ read = 0 /\ peerOpen = TRUE
    /\ sock = "connecting" /\ connected = FALSE /\ closing = "no"
    /\ parser = NoMessage /\ inbox = <<>> /\ terminal = FALSE
    /\ reader = "off" /\ hand = <<>> /\ partial = <<>> /\ taken = <<>>
    /\ writer = "idle" /\ handed = 0 /\ flushed = 0 /\ confirmed = {}

-----------------------------------------------------------------------------
(* The peer *)

EndsWith(part) == Len(msgs) > 0 /\ msgs[Len(msgs)].part = part

FramesSent == SelectSeq(msgs, LAMBDA m : m.part \in {"whole", "rest"})

(* The peer writes a message.  It completes a frame it began before it     *)
(* begins another one.  A frame it sends in one message may exceed         *)
(* maxFrameSize.                                                           *)
PeerWrites(part, size) ==
    /\ sock # "connecting" /\ peerOpen /\ Len(msgs) + handed < MaxMessages
    /\ (part = "rest") = EndsWith("first")
    /\ size \in IF part = "empty" THEN {0}
                ELSE IF part = "whole" THEN 1..(MaxFrameSize + 1)
                ELSE 1..MaxFrameSize
    /\ msgs' = Append(msgs, [frame |-> Len(FramesSent) + 1, part |-> part, size |-> size])
    /\ UNCHANGED <<kind, read, peerOpen, sock, connected, closing, parser, inbox, terminal, readerVars>>

PeerCloses ==
    /\ sock # "connecting" /\ peerOpen /\ peerOpen' = FALSE
    /\ UNCHANGED <<kind, msgs, read, sock, connected, closing, parser, inbox, terminal, readerVars>>

(* What is on the wire: the units of every message, the length first, or,  *)
(* for a WebSocket, the messages.                                          *)
Units(i) ==
    [u \in 1..(HeaderUnits + msgs[i].size) |-> [message |-> i, unit |-> u]]

Stream ==
    IF kind = "tcp" THEN FlattenSeq([i \in DOMAIN msgs |-> Units(i)])
    ELSE [i \in DOMAIN msgs |-> i]

-----------------------------------------------------------------------------
(* The receiving half of the transport *)

(* A variant in which a receiver that was served stays registered, so that *)
(* a second message of the same event replaces the first.                  *)
EnqueueMessagesOverwriting(ms) ==
    IF reader = "waiting" /\ ms # <<>>
    THEN /\ reader' = "got" /\ hand' = <<ms[Len(ms)]>>
         /\ UNCHANGED inbox
    ELSE /\ inbox' = inbox \o ms
         /\ UNCHANGED <<reader, hand>>

(* enqueueMessage for the messages one event completes: the first one goes *)
(* to the receive() that waits, the others to the queue.                   *)
EnqueueMessages(ms) ==
    IF reader = "waiting" /\ ms # <<>>
    THEN /\ reader' = "got" /\ hand' = <<Head(ms)>>
         /\ inbox' = inbox \o Tail(ms)
    ELSE /\ inbox' = inbox \o ms
         /\ UNCHANGED <<reader, hand>>

(* The message whose length and body units the parser has put together.    *)
Decoded(us) ==
    IF us = [u \in 1..Len(us) |-> [message |-> us[1].message, unit |-> u]]
    THEN us[1].message ELSE 0

(* The loop of handleData, for one unit: gather the length, then as many   *)
(* units as it says.  An oversized message ends the socket and the loop.   *)
TakeUnit(p, u) ==
    LET units == Append(p.units, u)
        inLength == ~p.current
        lengthDone == inLength /\ p.lengthOffset + 1 = HeaderUnits
        size == IF lengthDone THEN msgs[units[1].message].size ELSE p.size
        got == IF inLength THEN 0 ELSE Len(units) - HeaderUnits
    IN  IF p.tooLong THEN p
        ELSE IF inLength /\ ~lengthDone
        THEN [p EXCEPT !.lengthOffset = @ + 1, !.units = units]
        ELSE IF lengthDone /\ size > MaxFrameSize
        THEN [NoMessage EXCEPT !.out = p.out, !.tooLong = TRUE]
        ELSE IF got = size
        THEN [NoMessage EXCEPT !.out = Append(p.out, Decoded(units))]
        ELSE [p EXCEPT !.lengthOffset = HeaderUnits, !.current = TRUE,
                       !.units = units, !.size = size]

(* A "data" event with the next n units of the stream.                     *)
HandleData(n) ==
    /\ kind = "tcp" /\ sock \in {"open", "ended"}
    /\ LET after == FoldLeft(TakeUnit, parser, SubSeq(Stream, read + 1, read + n)) IN
       /\ EnqueueMessages(after.out)
       /\ parser' = [after EXCEPT !.out = <<>>, !.tooLong = FALSE]
       /\ sock' = IF after.tooLong THEN "destroyed" ELSE sock
    /\ read' = read + n
    /\ UNCHANGED <<kind, msgs, peerOpen, connected, closing, terminal, partial, taken>>

DataEvent == \E n \in 1..(Len(Stream) - read) : HandleData(n)

(* onmessage, enqueueMessage: an oversized message is dropped and the      *)
(* socket told to close (1009); until the close completes the ws package   *)
(* delivers further messages, a browser does not.                          *)
OnMessage ==
    /\ \/ kind = "ws" /\ sock \in {"open", "ended"}
       \/ kind = "browser" /\ sock = "open"
    /\ read < Len(msgs)
    /\ IF msgs[read + 1].size > MaxFrameSize
       THEN sock' = "ended" /\ UNCHANGED <<inbox, reader, hand>>
       ELSE EnqueueMessages(<<read + 1>>) /\ UNCHANGED sock
    /\ read' = read + 1
    /\ UNCHANGED <<kind, msgs, peerOpen, connected, closing, parser, terminal, partial, taken>>

(* failReceive / receiverResolve(null): the receive() that waits rejects,  *)
(* which ends the loop.                                                    *)
FailReceive ==
    reader' = IF reader = "waiting" THEN "stopped" ELSE reader

-----------------------------------------------------------------------------
(* connect(), the socket's events and close() *)

(* The first of open, error, close, timer and abort settles connect(); the *)
(* others find it settled.                                                 *)
ConnectOpens ==
    /\ sock = "connecting"
    /\ sock' = "open" /\ connected' = TRUE /\ reader' = "idle"
    /\ UNCHANGED <<kind, msgs, read, peerOpen, closing, parser, inbox, terminal, hand, partial, taken>>

TcpConnectFails ==
    /\ kind = "tcp" /\ sock = "connecting"
    /\ sock' = "destroyed" /\ terminal' \in BOOLEAN
    /\ UNCHANGED <<kind, msgs, read, peerOpen, connected, closing, parser, inbox, readerVars>>

WebSocketConnectFails ==
    /\ kind # "tcp" /\ sock = "connecting"
    /\ sock' = "destroyed"
    /\ UNCHANGED <<kind, msgs, read, peerOpen, connected, closing, parser, inbox, terminal, readerVars>>

(* An "error" event, or tcp's inactivity timeout, which destroys the       *)
(* socket; a WebSocket leaves everything to onclose.                       *)
SocketFails ==
    /\ sock \in {"open", "ended"} /\ sock' = "destroyed"
    /\ IF kind = "tcp" THEN connected' = FALSE /\ terminal' = TRUE /\ FailReceive
       ELSE UNCHANGED <<connected, terminal, reader>>
    /\ UNCHANGED <<kind, msgs, read, peerOpen, closing, parser, inbox, hand, partial, taken>>

(* Nothing the peer wrote is still to be delivered.                        *)
Delivered == read = Len(Stream) \/ (kind = "browser" /\ sock = "ended")

(* A variant in which close()'s own onclose handler, which replaces the    *)
(* one connect() installed, does not fail the pending receive().           *)
SocketClosesUnheard ==
    /\ \/ sock = "destroyed"
       \/ sock \in {"open", "ended"} /\ ~peerOpen /\ Delivered
    /\ sock' = "closed" /\ connected' = FALSE
    /\ terminal' = IF kind = "tcp" THEN TRUE ELSE terminal
    /\ closing' = IF closing = "pending" THEN "done" ELSE closing
    /\ IF closing = "pending" /\ kind # "tcp" THEN UNCHANGED reader ELSE FailReceive
    /\ UNCHANGED <<kind, msgs, read, peerOpen, parser, inbox, hand, partial, taken>>

(* The "close" event: after the peer's last byte, or at once when the      *)
(* socket was destroyed.  It fails the pending receive() and resolves      *)
(* close().                                                                *)
SocketCloses ==
    /\ \/ sock = "destroyed"
       \/ sock \in {"open", "ended"} /\ ~peerOpen /\ Delivered
    /\ sock' = "closed" /\ connected' = FALSE
    /\ terminal' = IF kind = "tcp" THEN TRUE ELSE terminal
    /\ closing' = IF closing = "pending" THEN "done" ELSE closing
    /\ FailReceive
    /\ UNCHANGED <<kind, msgs, read, peerOpen, parser, inbox, hand, partial, taken>>

(* close(): wait for the socket's close event, unless the transport is not *)
(* connected any more.                                                     *)
CloseTransport ==
    /\ closing = "no"
    /\ IF connected
       THEN /\ closing' = "pending" /\ connected' = FALSE
            /\ sock' = IF sock = "open" THEN "ended" ELSE sock
            /\ UNCHANGED <<terminal, reader>>
       ELSE /\ closing' = "done"
            /\ sock' = IF sock = "closed" THEN sock ELSE "destroyed"
            /\ IF kind = "tcp" THEN terminal' = TRUE /\ FailReceive
               ELSE UNCHANGED <<terminal, reader>>
            /\ UNCHANGED connected
    /\ UNCHANGED <<kind, msgs, read, peerOpen, parser, inbox, hand, partial, taken>>

(* Five seconds later: destroy or terminate() the socket; close() returns. *)
CloseTimer ==
    /\ kind # "browser"
    /\ closing = "pending" /\ closing' = "done"
    /\ sock' = IF sock = "closed" THEN sock ELSE "destroyed"
    /\ IF kind = "tcp" THEN terminal' = TRUE /\ FailReceive
       ELSE UNCHANGED <<terminal, reader>>
    /\ UNCHANGED <<kind, msgs, read, peerOpen, connected, parser, inbox, hand, partial, taken>>

(* A browser's socket cannot be destroyed: close() only stops waiting.     *)
BrowserCloseTimer ==
    /\ kind = "browser"
    /\ closing = "pending" /\ closing' = "done"
    /\ UNCHANGED <<kind, msgs, read, peerOpen, sock, connected, parser, inbox, terminal, readerVars>>

(* The browser gives a closing handshake up that the peer does not answer. *)
BrowserGivesUp ==
    /\ kind = "browser" /\ sock = "ended" /\ sock' = "destroyed"
    /\ UNCHANGED <<kind, msgs, read, peerOpen, connected, closing, parser, inbox, terminal, readerVars>>

-----------------------------------------------------------------------------
(* The receive loop *)

(* receive(): queued messages first, then the failure, else wait.          *)
ReceiveOr(failed) ==
    /\ reader = "idle"
    /\ IF inbox # <<>>
       THEN reader' = "got" /\ hand' = <<Head(inbox)>> /\ inbox' = Tail(inbox)
       ELSE /\ reader' = IF failed THEN "stopped" ELSE "waiting"
            /\ UNCHANGED <<inbox, hand>>
    /\ UNCHANGED <<socketVars, parser, terminal, partial, taken>>

TcpReceive == kind = "tcp" /\ ReceiveOr(terminal \/ ~connected)
WebSocketReceive == kind # "tcp" /\ ReceiveOr(~connected)

(* receive()'s own timer, if receiveTimeout is enabled.                    *)
ReceiveTimeout ==
    /\ reader = "waiting" /\ reader' = "stopped"
    /\ UNCHANGED <<socketVars, parser, inbox, terminal, hand, partial, taken>>

(* parseFrames: the parser's buffer and the message make a frame, or wait  *)
(* for more; anything else is a protocol error and ends the loop.          *)
ParseFrames ==
    /\ reader = "got"
    /\ hand' = <<>>
    /\ LET known == hand[1] # 0
           m == msgs[hand[1]]
       IN  \/ /\ known /\ m.part = "empty"
              /\ reader' = "idle" /\ UNCHANGED <<partial, taken>>
           \/ /\ known /\ partial = <<>> /\ m.part = "whole"
              /\ reader' = "idle" /\ taken' = Append(taken, m.frame) /\ UNCHANGED partial
           \/ /\ known /\ partial = <<>> /\ m.part = "first"
              /\ reader' = "idle" /\ partial' = <<m.frame>> /\ UNCHANGED taken
           \/ /\ known /\ partial = <<m.frame>> /\ m.part = "rest"
              /\ reader' = "idle" /\ partial' = <<>> /\ taken' = Append(taken, m.frame)
           \/ /\ ~known \/ ~(m.part = "empty" \/ (partial = <<>> /\ m.part \in {"whole", "first"})
                                              \/ (partial = <<m.frame>> /\ m.part = "rest"))
              /\ reader' = "stopped" /\ UNCHANGED <<partial, taken>>
    /\ UNCHANGED <<socketVars, parser, inbox, terminal>>

(* The timer for an incomplete frame: failPartialFrame closes the          *)
(* transport, which ends the loop.                                         *)
PartialFrameTimeout ==
    /\ partial # <<>> /\ reader \in {"idle", "waiting"}
    /\ CloseTransport

-----------------------------------------------------------------------------
(* The sending half: one send() or ping at a time holds the write chain *)

CanSend == writer = "idle" /\ connected /\ Len(msgs) + handed < MaxMessages

(* socket.write(): beyond its high-water mark the socket wants us to wait  *)
(* for "drain" too.                                                        *)
TcpSend ==
    /\ kind = "tcp" /\ CanSend
    /\ handed' = handed + 1 /\ writer' \in {"writing", "backlogged"}
    /\ UNCHANGED <<receiving, flushed, confirmed>>

WsSend ==
    /\ kind = "ws" /\ CanSend
    /\ handed' = handed + 1 /\ writer' = "writing"
    /\ UNCHANGED <<receiving, flushed, confirmed>>

(* A browser takes the message and says nothing of it again.               *)
BrowserSend ==
    /\ kind = "browser" /\ CanSend
    /\ handed' = handed + 1 /\ writer' = "writing"
    /\ UNCHANGED <<receiving, flushed, confirmed>>

(* The socket writes the next message out.                                 *)
SocketWrites ==
    /\ kind # "browser" /\ sock \in {"open", "ended"} /\ flushed < handed
    /\ flushed' = flushed + 1
    /\ UNCHANGED <<receiving, writer, handed, confirmed>>

(* The callback of the write, and "drain", which a socket that was told to *)
(* end does not emit any more: send() resolves.                            *)
SendResolves ==
    /\ \/ writer = "writing" /\ (kind = "browser" \/ flushed = handed)
       \/ writer = "backlogged" /\ flushed = handed /\ sock = "open"
    /\ writer' = "idle" /\ confirmed' = confirmed \cup {handed}
    /\ UNCHANGED <<receiving, handed, flushed>>

(* The callback's error, because the socket is gone.                       *)
SendRejects ==
    /\ writer \in {"writing", "backlogged"} /\ kind # "browser" /\ flushed < handed
    /\ sock \in {"destroyed", "closed"} \/ (kind = "ws" /\ sock = "ended")
    /\ writer' = "idle"
    /\ UNCHANGED <<receiving, handed, flushed, confirmed>>

(* The timer of send().  The socket may still write the message.           *)
SendTimeout ==
    /\ writer \in {"writing", "backlogged"} /\ kind # "browser"
    /\ writer' = "idle"
    /\ UNCHANGED <<receiving, handed, flushed, confirmed>>

(* sendHeartbeat(): a ping, whose pong, or the socket's close or error     *)
(* event, or its timer, ends it.                                           *)
SendHeartbeat ==
    /\ kind = "ws" /\ writer = "idle" /\ connected
    /\ writer' = "pinging"
    /\ UNCHANGED <<receiving, handed, flushed, confirmed>>

HeartbeatEnds ==
    /\ writer = "pinging" /\ writer' = "idle"
    /\ UNCHANGED <<receiving, handed, flushed, confirmed>>

-----------------------------------------------------------------------------
Receiving ==
    \/ \E part \in Parts, size \in 0..(MaxFrameSize + 1) : PeerWrites(part, size)
    \/ PeerCloses
    \/ DataEvent \/ OnMessage
    \/ ConnectOpens \/ TcpConnectFails \/ WebSocketConnectFails
    \/ SocketFails \/ SocketCloses
    \/ CloseTransport \/ CloseTimer \/ BrowserCloseTimer \/ BrowserGivesUp
    \/ TcpReceive \/ WebSocketReceive
    \/ ReceiveTimeout \/ ParseFrames \/ PartialFrameTimeout

SendSettles == SendResolves \/ SendRejects \/ SendTimeout

Next ==
    \/ Receiving /\ UNCHANGED writerVars
    \/ TcpSend \/ WsSend \/ BrowserSend \/ SocketWrites \/ SendSettles
    \/ SendHeartbeat \/ HeartbeatEnds

(***************************************************************************)
(* The loop runs on, a destroyed socket emits "close", so does one whose   *)
(* peer closed and whose data was read, the close timer fires and a        *)
(* browser does not wait for the peer's closing handshake for ever.        *)
(* Nothing is assumed of the peer.                                         *)
(***************************************************************************)
Fairness ==
    /\ WF_vars((TcpReceive \/ WebSocketReceive) /\ UNCHANGED writerVars)
    /\ WF_vars(ParseFrames /\ UNCHANGED writerVars)
    /\ WF_vars(OnMessage /\ UNCHANGED writerVars)
    /\ WF_vars(DataEvent /\ UNCHANGED writerVars)
    /\ WF_vars(SocketCloses /\ UNCHANGED writerVars)
    /\ WF_vars((CloseTimer \/ BrowserCloseTimer) /\ UNCHANGED writerVars)
    /\ WF_vars(BrowserGivesUp /\ UNCHANGED writerVars)
    /\ WF_vars(SendSettles) /\ WF_vars(HeartbeatEnds)

Spec == Init /\ [][Next]_vars /\ Fairness

-----------------------------------------------------------------------------
(* Properties *)

(* The variables have their types.                                         *)
TypeOK ==
    /\ kind \in Kinds /\ peerOpen \in BOOLEAN /\ connected \in BOOLEAN /\ terminal \in BOOLEAN
    /\ msgs \in Seq([frame : Nat, part : Parts, size : 0..(MaxFrameSize + 1)])
    /\ read \in 0..Len(Stream)
    /\ sock \in {"connecting", "open", "ended", "destroyed", "closed"}
    /\ closing \in {"no", "pending", "done"}
    /\ parser \in [lengthOffset : 0..HeaderUnits, current : BOOLEAN, size : 0..MaxFrameSize,
                   units : Seq([message : DOMAIN msgs, unit : Nat]), out : {<<>>}, tooLong : {FALSE}]
    /\ inbox \in Seq(0..Len(msgs)) /\ hand \in Seq(0..Len(msgs)) /\ Len(hand) <= 1
    /\ reader \in {"off", "idle", "waiting", "got", "stopped"}
    /\ partial \in Seq(Nat) /\ taken \in Seq(Nat)
    /\ writer \in {"idle", "writing", "backlogged", "pinging"}
    /\ handed \in Nat /\ flushed \in 0..handed /\ confirmed \subseteq 1..handed

C == INSTANCE Channel WITH
        sent <- Len(FramesSent),
        tooLong <- {i \in DOMAIN FramesSent : FramesSent[i].size > MaxFrameSize},
        skips <- kind = "ws",
        taken <- taken,
        ended <- (reader = "stopped"),
        flushed <- IF kind = "browser" THEN handed ELSE flushed

(* A transport with its receive loop is a channel: however the bytes are   *)
(* cut into events, messages into receive() calls and frames into          *)
(* messages, and whenever the socket fails or is closed, the loop          *)
(* dispatches the peer's frames complete, once and in order, up to a point *)
(* and nothing after it stopped (handleData, enqueueMessage, receive).     *)
(* That point is before the first frame longer than maxFrameSize, except   *)
(* on the WebSocket of Node, which drops such a frame, starts to close and *)
(* delivers what comes behind the gap until the close completes.           *)
(* And a send() resolves only for a message the socket has written, never  *)
(* on the late callback of an earlier one that had timed out (a browser    *)
(* tells nothing of that).                                                 *)
ImplementsChannel == C!Spec

(* A failure does not overtake data: when the loop is told that the        *)
(* connection failed, no message that had arrived is left in the queue     *)
(* (receive() empties receiveQueue before it reports terminalError).       *)
CompleteBeforeFailure ==
    [][reader' = "stopped" /\ reader \in {"idle", "waiting"} => inbox = <<>>]_vars

(* A receive() never hangs on a dead socket, with receiveTimeout disabled  *)
(* too: once the transport is closed, failed or told to close, the receive *)
(* loop comes to its end ("rejected immediately instead of hanging").  And *)
(* no send() or ping keeps the write chain for ever, not even one whose    *)
(* "drain" never comes.                                                    *)
LoopEnds ==
    /\ (sock \in {"destroyed", "closed"} \/ closing # "no") /\ reader # "off" ~> reader = "stopped"
    /\ writer # "idle" ~> writer = "idle"
================================================================================
