------------------------------ MODULE WebSocket ------------------------------
(***************************************************************************)
(* One WebSocket of libdatachannel, from open() or accept() to the release *)
(* of its last transport: WebSocket, WsTransport, TlsTransport,            *)
(* HttpProxyTransport, TcpTransport, PollService and the accepting server. *)
(*                                                                         *)
(* The threads are the caller (the application, or the server thread), the *)
(* poll thread, the pool thread that runs TlsTransport::doRecv, the timers *)
(* and the teardown processor.  A call chain that another thread can cut   *)
(* is a stack of frames; the peer and the network do what they like.       *)
(***************************************************************************)
EXTENDS Integers, Sequences, SequencesExt, FiniteSetsExt

CONSTANTS
    Roles,          \* which ends are explored: "client", "server"
    Stacks,         \* which layers lie between TCP and the WebSocket
    Addresses,      \* addresses that the resolver returns
    SndBuf,         \* units that the socket's send buffer holds
    MaxSend,        \* messages the application sends, less one for each layer in between
    MaxIn,          \* units the peer sends, beyond one for each layer in between
    MaxPings,       \* config.maxOutstandingPings
    Heard(_)        \* what the peer may send through a stack of layers

VARIABLE w  \* the WebSocket with its transports, threads, timers and socket

Layers == <<"tcp", "proxy", "tls", "ws">>
Layer  == Range(Layers)
Pos(l) == CHOOSE i \in 1..4 : Layers[i] = l

(***************************************************************************)
(* What the peer may send: what the handshake of the layer that reads it   *)
(* asks for, an HTTP head that is refused, a frame, or the alert that ends *)
(* TLS.  A unit that a layer does not expect is malformed to it.           *)
(***************************************************************************)
Units == {"good", "post", "noupgrade", "text", "ping", "pong", "close", "unknown", "notify"}

ASSUME WebSocketAssumption ==
    /\ Roles \subseteq {"client", "server"}
    /\ \A k \in Stacks : k \subseteq {"proxy", "tls"}
    /\ \A k \in Stacks : Heard(k) \subseteq Units
    /\ {Addresses, SndBuf, MaxSend, MaxIn, MaxPings} \subseteq Nat

(***************************************************************************)
(* WsHandshake::parseHttpRequest and parseHttpResponse: 0 for a head that  *)
(* is accepted, else the code of the HTTP error the server answers.        *)
(***************************************************************************)
ParseHttpRequest(u) ==
    CASE u = "good"      -> 0
      [] u = "post"      -> 405
      [] u = "noupgrade" -> 426
      [] OTHER           -> 400

ParseHttpResponse(u) == u = "good"

ParseProxyResponse(u) == u = "good"

(***************************************************************************)
(* What the two ends write: the heads of the handshake, and a message as a *)
(* frame of two units, so that the socket can take a part of it.           *)
(***************************************************************************)
GenerateHttpRequest     == << <<"GET">> >>
GenerateHttpResponse    == << <<"101">> >>
GenerateHttpError(code) == << <<"error", code>> >>
SendFrame(n)            == << <<"data", n, 1>>, <<"data", n, 2>> >>

(***************************************************************************)
(* The layers in use, and the ones some shared_ptr still keeps: a member,  *)
(* the teardown task, a frame of a thread, or the layer above.             *)
(***************************************************************************)
InUse(s) == {"tcp", "ws"} \cup s.stack

Above(s, l) ==
    CHOOSE u \in InUse(s) :
        /\ Pos(u) > Pos(l)
        /\ \A v \in InUse(s) : Pos(v) > Pos(l) => Pos(v) >= Pos(u)

Below(s, l) ==
    CHOOSE u \in InUse(s) :
        /\ Pos(u) < Pos(l)
        /\ \A v \in InUse(s) : Pos(v) < Pos(l) => Pos(v) <= Pos(u)

Alive(s) ==
    LET frames == UNION {Range(s.pc[t]) : t \in DOMAIN s.pc}
        held == s.slot \cup s.tear \cup {f[2] : f \in {g \in frames : g[1] \in {"store", "check"}}}
                       \cup (IF s.pc["poll"] # <<>> THEN {"tcp"} ELSE {})
                       \cup (IF s.pc["pool"] # <<>> \/ "doRecv" \in s.tasks THEN {"tls"} ELSE {})
    IN  {l \in InUse(s) : \E u \in held : Pos(l) <= Pos(u)}

(***************************************************************************)
(* TcpTransport::close, which only the destructor calls.                   *)
(***************************************************************************)
Reap(s) ==
    IF "tcp" \in Alive(s) \/ s.sock = "none" THEN s
    ELSE [s EXCEPT !.sock = "none", !.poll = "none", !.ts["tcp"] = "disconnected"]

(***************************************************************************)
(* TcpTransport::trySendQueue, trySendMessage and outgoing.  A message is  *)
(* its units; what the socket does not take is queued, and the queue goes  *)
(* first.  A layer can send when everything below it is connected; on a    *)
(* dead socket send throws.                                                *)
(***************************************************************************)
CanSend(s, l) ==
    /\ \A u \in InUse(s) : Pos(u) < Pos(l) => s.ts[u] = "connected"
    /\ s.sock = "up" /\ s.eof # "reset"

TrySendQueue(s) ==
    LET n == Min({Len(s.sendq), s.room})
    IN  [s EXCEPT !.wire  = @ \o SubSeq(s.sendq, 1, n),
                  !.sendq = SubSeq(@, n + 1, Len(@)),
                  !.room  = @ - n]

OutgoingUnqueued(s, m) ==
    LET n == Min({Len(m), s.room})
    IN  [s EXCEPT !.wire = @ \o SubSeq(m, 1, n), !.room = @ - n,
                  !.sendq = @ \o SubSeq(m, n + 1, Len(m)),
                  !.poll = IF n < Len(m) THEN "both" ELSE @]

Outgoing(s, m) ==
    LET q == TrySendQueue(s)
        n == IF q.sendq = <<>> THEN Min({Len(m), q.room}) ELSE 0
    IN  [q EXCEPT !.wire = @ \o SubSeq(m, 1, n), !.room = @ - n,
                  !.sendq = @ \o SubSeq(m, n + 1, Len(m)),
                  !.poll = IF n < Len(m) THEN "both" ELSE @]

(***************************************************************************)
(* WebSocket::closeTransports.  mProxyTransport is not among the pointers  *)
(* it takes.                                                               *)
(***************************************************************************)
CloseTransports(s) ==
    IF s.st = "closed" THEN s
    ELSE LET taken == s.slot \ {"proxy"}
         IN  [s EXCEPT !.st = "closed", !.slot = @ \ taken, !.cb = @ \ taken,
                       !.recv = FALSE, !.tear = @ \cup taken,
                       !.reports = Append(@, "closed")]

(***************************************************************************)
(* The close frame: WsTransport::close, with the timer that ends the wait  *)
(* for the answer; the state callback of the WsTransport calls             *)
(* remoteClose, in which close() finds the WsTransport not connected.      *)
(***************************************************************************)
WsGone(s, to) ==
    LET d == [s EXCEPT !.ts["ws"] = to]
    IN  IF s.ts["ws"] = to \/ "ws" \notin s.cb THEN d
        ELSE CloseTransports(IF to = "failed" THEN [d EXCEPT !.reports = Append(@, "error")] ELSE d)

WsCloseNoTimer(s) ==
    IF s.ts["ws"] # "connected" \/ s.closeSent THEN s
    ELSE LET c == [s EXCEPT !.closeSent = TRUE]
         IN  IF CanSend(s, "ws") THEN Outgoing(c, << <<"CLOSE">> >>) ELSE WsGone(c, "disconnected")

WsClose(s) ==
    IF s.ts["ws"] # "connected" \/ s.closeSent THEN s
    ELSE LET c == [s EXCEPT !.closeSent = TRUE]
         IN  IF CanSend(s, "ws")
             THEN [Outgoing(c, << <<"CLOSE">> >>) EXCEPT !.timers = @ \cup {"close"}]
             ELSE WsGone(c, "disconnected")

(***************************************************************************)
(* WebSocket::close and remoteClose.                                       *)
(***************************************************************************)
Close(s) ==
    IF s.st \notin {"connecting", "open"} THEN s
    ELSE LET c == [s EXCEPT !.st = "closing"]
         IN  IF "ws" \in s.slot THEN WsClose(c) ELSE CloseTransports(c)

RemoteClose(s) == CloseTransports(Close(s))

Failed(s) == RemoteClose([s EXCEPT !.reports = Append(@, "error")])

(***************************************************************************)
(* The state callbacks of setTcpTransport, initProxyTransport and          *)
(* initTlsTransport: a layer that is up starts the next one.  Connected(t) *)
(* leaves the rest of the chain to thread t.                               *)
(***************************************************************************)
Push(s, t, frames) == [s EXCEPT !.pc[t] = frames \o @]

Connected(s, t, l) ==
    LET c == [s EXCEPT !.ts[l] = "connected"]
    IN  IF l \in s.cb THEN Push(c, t, << <<"init", Above(s, l)>> >>) ELSE c

Down(s, l, to) ==
    LET d == [s EXCEPT !.ts[l] = to]
    IN  IF s.ts[l] = to \/ l \notin s.cb THEN d
        ELSE IF to = "failed" THEN Failed(d)
        ELSE IF s.st = "connecting" THEN RemoteClose(d) ELSE d

(***************************************************************************)
(* WsTransport::incoming and recvFrame.  "idle" is the empty message of a  *)
(* read timeout, "null" the end of the layer below.                        *)
(***************************************************************************)
SendOrDrop(s, u) ==
    IF CanSend(s, "ws") THEN Outgoing(s, << <<u>> >>)
    ELSE CloseTransports(WsGone(s, "disconnected"))

RecvFrame(s, u) ==
    CASE u = "text"  -> [s EXCEPT !.got = @ + (IF s.recv THEN 1 ELSE 0)]
      [] u = "ping"  -> SendOrDrop(s, "PONG")
      [] u = "pong"  -> [s EXCEPT !.pings = 0]
      [] u = "close" -> WsGone(WsClose(s), "disconnected")
      [] OTHER       -> WsClose(s)

AddOutstandingPing(s) ==
    IF MaxPings > 0 /\ s.pings + 1 > MaxPings THEN WsGone(s, "failed")
    ELSE [s EXCEPT !.pings = @ + 1]

Shake(s, u) ==
    LET open == [s EXCEPT !.ts["ws"] = "connected"]
        good == IF "ws" \in s.cb /\ s.st = "connecting"
                THEN [open EXCEPT !.st = "open", !.reports = Append(@, "open")] ELSE open
        code == ParseHttpRequest(u)
    IN  IF u = "idle" THEN s
        ELSE IF s.role = "client" THEN IF ParseHttpResponse(u) THEN good ELSE WsGone(s, "failed")
        ELSE IF ~CanSend(s, "ws") THEN WsGone(s, "failed")
        ELSE IF code = 0 THEN Outgoing(good, GenerateHttpResponse)
        ELSE WsGone(Outgoing(s, GenerateHttpError(code)), "failed")

WsIncoming(s, u) ==
    IF s.ts["ws"] \notin {"connecting", "connected"} THEN s
    ELSE IF s.ts["ws"] = "connecting"
         THEN IF u = "null" THEN WsGone(s, "failed") ELSE Shake(s, u)
    ELSE CASE u = "null" -> LET d == WsGone(s, "disconnected")
                            IN  IF s.recv THEN CloseTransports(d) ELSE d
           [] u = "idle" -> IF CanSend(s, "ws")
                            THEN AddOutstandingPing(Outgoing(s, << <<"PING">> >>))
                            ELSE SendOrDrop(s, "PING")
           [] OTHER      -> RecvFrame(s, u)

(***************************************************************************)
(* A unit that layer l passes up: to HttpProxyTransport::incoming, to the  *)
(* queue of TlsTransport::incoming, or to the WsTransport.  The receiver   *)
(* is registered while it is alive; a unit nobody takes is dropped.        *)
(***************************************************************************)
EnqueueRecv(s) == [s EXCEPT !.tasks = @ \cup {"doRecv"}]

TlsIncoming(s, u) ==
    EnqueueRecv(IF u = "null" THEN [s EXCEPT !.tlsEnd = TRUE] ELSE [s EXCEPT !.tlsq = Append(@, u)])

PassUp(s, l, u) ==
    LET n == Above(s, l)
    IN  IF n \notin Alive(s) \/ s.ts[n] = "idle" THEN s
        ELSE IF n = "tls" THEN TlsIncoming(s, u) ELSE WsIncoming(s, u)

ProxyIncoming(s, t, u) ==
    CASE s.ts["proxy"] = "connected" ->
            PassUp(IF u = "null" THEN Down(s, "proxy", "disconnected") ELSE s, "proxy", u)
      [] s.ts["proxy"] = "connecting" ->
            IF u = "idle" THEN s
            ELSE IF ParseProxyResponse(u) THEN Connected(s, t, "proxy")
            ELSE Down(s, "proxy", "failed")
      [] OTHER -> s

TcpRecv(s, t, u) ==
    IF "proxy" \notin s.stack THEN PassUp(s, "tcp", u)
    ELSE IF "proxy" \in Alive(s) /\ s.ts["proxy"] # "idle" THEN ProxyIncoming(s, t, u) ELSE s

(***************************************************************************)
(* One turn of the loops of TlsTransport::doRecv, on the pool thread.      *)
(***************************************************************************)
TlsOver(s) ==
    IF s.ts["tls"] = "connected" THEN PassUp(Down(s, "tls", "disconnected"), "tls", "null")
    ELSE Down(s, "tls", "failed")

Hello(s) == IF s.hello THEN s ELSE [Outgoing(s, << <<"hello">> >>) EXCEPT !.hello = TRUE]

DoRecv(s) ==
    LET more == [s EXCEPT !.pc["pool"] = << <<"doRecv", "tls">> >>]
        u    == Head(s.tlsq)
        rest == [more EXCEPT !.tlsq = Tail(@)]
        over == TlsOver([s EXCEPT !.tlsq = Tail(@)])
    IN  IF s.ts["tls"] \notin {"connecting", "connected"} THEN s
        ELSE IF s.ts["tls"] = "connecting" /\ s.role = "client" /\ ~s.hello
             THEN IF CanSend(s, "tls") THEN Hello(more) ELSE TlsOver(s)
        ELSE IF s.tlsq = <<>> THEN IF s.tlsEnd THEN TlsOver(s) ELSE s
        ELSE IF u = "idle" THEN PassUp(rest, "tls", "idle")
        ELSE IF s.ts["tls"] = "connected"
             THEN IF u = "notify" THEN over ELSE PassUp(rest, "tls", u)
        ELSE IF u = "good" /\ CanSend(s, "tls") THEN Connected(Hello(rest), "pool", "tls")
        ELSE over

(***************************************************************************)
(* emplaceTransport in three frames: initXTransport looks at the layer     *)
(* below, the member is stored and the transport started, and the state is *)
(* read again, for a close that came in between.                           *)
(***************************************************************************)
Start(s, t, l) ==
    LET i == [s EXCEPT !.slot = @ \cup {l}, !.cb = @ \cup {l}, !.ts[l] = "connecting"]
        drop == RemoteClose([i EXCEPT !.slot = @ \ {l}, !.pc[t] = Tail(@)])
    IN  CASE l = "tcp"   -> IF s.role = "server" THEN Connected(i, t, "tcp")
                            ELSE [i EXCEPT !.tasks = @ \cup {"resolve"}]
          [] l = "tls"   -> EnqueueRecv(i)
          [] l = "proxy" -> IF CanSend(s, l) THEN Outgoing(i, << <<"CONNECT">> >>) ELSE drop
          [] OTHER -> IF s.role = "server" THEN i
                      ELSE IF CanSend(s, l) THEN Outgoing(i, GenerateHttpRequest) ELSE drop

CheckTrusting(s, l) == s

Check(s, l) ==
    IF s.st # "closed" THEN s
    ELSE LET r == [s EXCEPT !.slot = @ \ {l}] IN IF l = "ws" THEN WsClose(r) ELSE r

InitTransport(s, t, l) ==
    IF l \in s.slot THEN s
    ELSE IF Below(s, l) \notin s.slot THEN RemoteClose(s)
    ELSE Push(s, t, << <<"store", l>>, <<"check", l>> >>)

(***************************************************************************)
(* TcpTransport::process: what the poll thread does with an event.         *)
(***************************************************************************)
TcpGone(s) ==
    TcpRecv(Down([s EXCEPT !.poll = "none"], "tcp", "disconnected"), "poll", "null")

ProcessIn(s) ==
    IF s.inbox # <<>> /\ s.eof # "reset"
    THEN TcpRecv(Push([s EXCEPT !.inbox = Tail(@)], "poll", << <<"in", "tcp">> >>),
                 "poll", Head(s.inbox))
    ELSE IF s.eof = "none" THEN s ELSE TcpGone(s)

ProcessOut(s) ==
    IF s.sendq # <<>> /\ s.eof = "reset" THEN TcpGone(s)
    ELSE LET q == TrySendQueue(s) IN IF q.sendq = <<>> THEN [q EXCEPT !.poll = "in"] ELSE q

(***************************************************************************)
(* One frame of thread t.                                                  *)
(***************************************************************************)
Frame(t) ==
    /\ w.pc[t] # <<>>
    /\ LET f == Head(w.pc[t])
           s == [w EXCEPT !.pc[t] = Tail(@)]
       IN  w' = Reap(CASE f[1] = "init"   -> InitTransport(s, t, f[2])
                       [] f[1] = "store"  -> Start(s, t, f[2])
                       [] f[1] = "check"  -> Check(s, f[2])
                       [] f[1] = "pollIn" -> [s EXCEPT !.poll = "in"]
                       [] f[1] = "idle"   -> TcpRecv(s, t, "idle")
                       [] f[1] = "in"     -> ProcessIn(s)
                       [] f[1] = "out"    -> ProcessOut(s)
                       [] f[1] = "error"  -> TcpGone(s)
                       [] OTHER           -> DoRecv(s))

-----------------------------------------------------------------------------
(***************************************************************************)
(* The caller: open, or the server thread that accepted a connection       *)
(* (WebSocketServer::runLoop); then send, close, and forceClose or the     *)
(* destructor.  Stopping the server closes its socket and waits for its    *)
(* thread; it does not touch a connection that was accepted before.        *)
(***************************************************************************)
Begin(s) ==
    [s EXCEPT !.st = "connecting", !.timers = @ \cup {"connection"},
              !.pc["caller"] = << <<"store", "tcp">>, <<"check", "tcp">> >>]

Open ==
    /\ w.role = "client" /\ w.st = "closed" /\ ~w.opened
    /\ w' = [Begin(w) EXCEPT !.opened = TRUE]

Listen ==
    /\ w.role = "server" /\ w.server = "new"
    /\ \E r \in {"listening", "stopped"} : w' = [w EXCEPT !.server = r]

RunLoop ==
    /\ w.server = "listening" /\ ~w.opened /\ w.pc["caller"] = <<>>
    /\ w' = [Begin(w) EXCEPT !.opened = TRUE, !.sock = "up",
                !.pc["caller"] = << <<"store", "tcp">>, <<"pollIn", "tcp">>, <<"check", "tcp">> >>]

StopServer ==
    /\ w.server = "listening" /\ ~w.opened
    /\ w' = [w EXCEPT !.server = "closing"]

EndLoop ==
    /\ w.server = "closing"
    /\ w' = [w EXCEPT !.server = "stopped"]

Ready == w.opened /\ w.pc["caller"] = <<>>

Send ==
    /\ Ready /\ w.accepted + Cardinality(w.stack) < MaxSend
    /\ w.st = "open" /\ "ws" \in w.slot /\ w.ts["ws"] = "connected" /\ CanSend(w, "ws")
    /\ LET n == w.accepted + 1
       IN  w' = [Outgoing(w, SendFrame(n)) EXCEPT !.accepted = n]

CallClose ==
    /\ Ready /\ w.st \in {"connecting", "open"}
    /\ w' = Close(w)

ForceClose ==
    /\ Ready /\ w.st # "closed"
    /\ w' = RemoteClose(w)

(***************************************************************************)
(* The pool: resolve and attempt; the timers; the teardown processor.  The *)
(* connection timer does nothing once the WebSocket is not connecting.     *)
(***************************************************************************)
Resolve ==
    /\ "resolve" \in w.tasks
    /\ LET s == [w EXCEPT !.tasks = @ \ {"resolve"}]
       IN  IF "tcp" \notin Alive(w) \/ w.ts["tcp"] # "connecting" THEN w' = s
           ELSE \/ w' = [s EXCEPT !.tasks = @ \cup {"attempt"}, !.addrs = Addresses]
                \/ w' = Down(s, "tcp", "failed")

Attempt ==
    /\ "attempt" \in w.tasks
    /\ LET s == [w EXCEPT !.tasks = @ \ {"attempt"}, !.sock = "none"]
       IN  IF "tcp" \notin Alive(w) \/ w.ts["tcp"] # "connecting"
           THEN w' = [w EXCEPT !.tasks = @ \ {"attempt"}]
           ELSE IF w.addrs = 0 THEN w' = Down(s, "tcp", "failed")
           ELSE \/ w' = [s EXCEPT !.addrs = @ - 1, !.sock = "up", !.poll = "connect"]
                \/ w' = [w EXCEPT !.addrs = @ - 1, !.sock = "none"]

BeginDoRecv ==
    /\ "doRecv" \in w.tasks /\ w.pc["pool"] = <<>>
    /\ w' = [w EXCEPT !.tasks = @ \ {"doRecv"}, !.pc["pool"] = << <<"doRecv", "tls">> >>]

ConnectionTimeout ==
    /\ "connection" \in w.timers /\ w.st = "connecting"
    /\ w' = Failed([w EXCEPT !.timers = @ \ {"connection"}])

CloseTimeout ==
    /\ "close" \in w.timers
    /\ LET s == [w EXCEPT !.timers = @ \ {"close"}]
       IN  w' = IF "ws" \in Alive(w) THEN WsGone(s, "disconnected") ELSE s

TearDown ==
    /\ w.tear # {}
    /\ LET s == IF "ws" \in w.tear THEN WsClose(w)
                ELSE IF "tls" \in w.tear THEN EnqueueRecv([w EXCEPT !.tlsEnd = TRUE]) ELSE w
       IN  w' = Reap([s EXCEPT !.tear = {}])

(***************************************************************************)
(* PollService::process hands an event to the callback of the socket.      *)
(***************************************************************************)
PollConnect ==
    /\ w.pc["poll"] = <<>> /\ w.poll = "connect"
    /\ \/ w' = Connected([w EXCEPT !.pc["poll"] = << <<"pollIn", "tcp">> >>, !.poll = "none"],
                         "poll", "tcp")
       \/ w' = [w EXCEPT !.poll = "none", !.tasks = @ \cup {"attempt"}]

PollEvent ==
    /\ w.pc["poll"] = <<>> /\ w.poll \in {"in", "both"}
    /\ LET in  == w.inbox # <<>> \/ w.eof # "none"
           out == w.poll = "both" /\ (w.room > 0 \/ w.eof # "none")
           evs == (IF in THEN << <<"in", "tcp">> >> ELSE <<>>)
                  \o (IF out THEN << <<"out", "tcp">> >> ELSE <<>>)
       IN  \/ /\ w.eof # "reset" /\ evs # <<>>
              /\ w' = [w EXCEPT !.pc["poll"] = evs]
           \/ /\ w.eof = "reset"
              /\ w' = [w EXCEPT !.poll = "none", !.pc["poll"] = << <<"error", "tcp">> >>]

ReadTimeout ==
    /\ w.pc["poll"] = <<>> /\ w.poll = "in" /\ w.inbox \o w.tlsq = <<>> /\ w.eof = "none"
    /\ w.ts["ws"] = "connected" /\ w.idles < MaxPings + 1
    /\ w' = [w EXCEPT !.poll = "none", !.idles = @ + 1,
                      !.pc["poll"] = << <<"idle", "tcp">>, <<"pollIn", "tcp">> >>]

(***************************************************************************)
(* The peer and the network (external), seen only through a polled socket. *)
(***************************************************************************)
Peer ==
    /\ w.poll \in {"in", "both"} /\ w.eof = "none"
    /\ \/ /\ w.heard < MaxIn + Cardinality(w.stack) /\ w.inbox \o w.tlsq = <<>>
          /\ \E u \in Heard(w.stack) : w' = [w EXCEPT !.inbox = Append(@, u), !.heard = @ + 1]
       \/ \E e \in {"fin", "reset"} : w' = [w EXCEPT !.eof = e]
       \/ /\ w.room < SndBuf
          /\ w' = [w EXCEPT !.room = @ + 1]

Init ==
    \E r \in Roles, k \in Stacks :
        /\ r = "server" => "proxy" \notin k
        /\ w = [role |-> r, stack |-> k, st |-> "closed", opened |-> FALSE, server |-> "new",
                slot |-> {}, cb |-> {}, recv |-> TRUE, tear |-> {}, tasks |-> {}, timers |-> {},
                ts |-> [l \in Layer |-> "idle"], pc |-> [t \in {"caller", "poll", "pool"} |-> <<>>],
                sock |-> "none", poll |-> "none", room |-> SndBuf, addrs |-> 0, eof |-> "none",
                inbox |-> <<>>, heard |-> 0, sendq |-> <<>>, wire |-> <<>>,
                tlsq |-> <<>>, tlsEnd |-> FALSE, hello |-> FALSE,
                closeSent |-> FALSE, pings |-> 0, idles |-> 0,
                accepted |-> 0, got |-> 0, reports |-> <<>>]

Next ==
    \/ \E t \in DOMAIN w.pc : Frame(t)
    \/ Open \/ Listen \/ RunLoop \/ StopServer \/ EndLoop
    \/ Send \/ CallClose \/ ForceClose
    \/ Resolve \/ Attempt \/ BeginDoRecv \/ ConnectionTimeout \/ CloseTimeout \/ TearDown
    \/ PollConnect \/ PollEvent \/ ReadTimeout \/ Peer

Spec == Init /\ [][Next]_w

-----------------------------------------------------------------------------
(***************************************************************************)
(* No thread has anything left to do but wait for the peer.                *)
(***************************************************************************)
Quiet ==
    /\ \A t \in DOMAIN w.pc : w.pc[t] = <<>>
    /\ w.tasks = {} /\ w.tear = {}
    /\ "close" \notin w.timers /\ ("connection" \in w.timers => w.st # "connecting")
    /\ w.poll # "connect"
    /\ w.poll \in {"in", "both"} => w.inbox = <<>> /\ w.eof = "none"
    /\ ~(w.poll = "both" /\ w.room > 0)

(***************************************************************************)
(* The stream that left the socket, followed by what TcpTransport still    *)
(* queues, carries the accepted messages whole and in the order in which   *)
(* send() took them, however the socket splits them (TcpTransport::        *)
(* outgoing, trySendQueue).                                                *)
(***************************************************************************)
StreamInOrder ==
    LET stream  == w.wire \o w.sendq
        Data(n) == {i \in 1..n : stream[i][1] = "data"}
    IN  /\ Cardinality(Data(Len(stream))) = 2 * w.accepted
        /\ \A i \in Data(Len(stream)) :
              LET n == Cardinality(Data(i))
              IN  stream[i] = <<"data", (n + 1) \div 2, ((n + 1) % 2) + 1>>

(***************************************************************************)
(* A closed WebSocket keeps nothing: once the threads are done and unless  *)
(* it went through a proxy, no transport is left, the socket is closed and *)
(* not polled, although a transport may have been stored while another     *)
(* thread was closing (emplaceTransport, closeTransports).                 *)
(***************************************************************************)
ClosedKeepsNothing ==
    (Quiet /\ w.st = "closed" /\ "proxy" \notin w.stack) =>
        (Alive(w) = {} /\ w.sock = "none" /\ w.poll = "none")

\* When the application heard r.
Reported(r) == {i \in DOMAIN w.reports : w.reports[i] = r}

(***************************************************************************)
(* Connecting and closing both end: when nothing is left to do, a          *)
(* WebSocket is closed, or open on a live connection, or was closed by the *)
(* application before its handshake was over, when no close frame goes out *)
(* (WebSocket::close, WsTransport::close, scheduleConnectionTimeout); and  *)
(* the application has heard of it: of open at most once, then of closed   *)
(* once if the state says so, whoever closed (closeTransports).            *)
(***************************************************************************)
Settles ==
    Quiet =>
        /\ \/ w.st = "closed"
           \/ w.st = "open" /\ w.ts["tcp"] = "connected"
           \/ w.st = "closing" /\ ~w.closeSent
        /\ \A r \in {"open", "closed"} : \A i, j \in Reported(r) : i = j
        /\ \A i \in Reported("open"), j \in Reported("closed") : i < j
        /\ (w.opened /\ w.st = "closed") <=> Reported("closed") # {}
=============================================================================
