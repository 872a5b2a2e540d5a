------------------------------- MODULE Media -------------------------------
(***************************************************************************)
(* The way of a video frame through libdatachannel's media handlers: the   *)
(* sending track cuts it into RTP packets (the RtpPacketizer of its codec, *)
(* NalUnit), counts them (RtcpSrReporter), keeps them for retransmission   *)
(* (RtcpNackResponder) and paces them (PacingHandler); SRTP and a network  *)
(* that reorders and loses (a packet never received) carry them; the       *)
(* receiving peer connection finds the track (dispatchMedia), which counts *)
(* them (RtcpReceivingSession),                                            *)
(* puts frames together again (the RtpDepacketizer of its codec) and gives *)
(* them to the application (Track).  NACKs come from the peer's            *)
(* application.  The codecs are those with both a packetizer and a         *)
(* depacketizer.                                                           *)
(*                                                                         *)
(* Packet n carries the sequence number (Start + n) % Mod: n is the truth, *)
(* the number is all the code sees of it.                                  *)
(***************************************************************************)
EXTENDS Integers, Sequences, FiniteSets, SequencesExt, FiniteSetsExt

CONSTANTS Codecs,       \* of "H264", "H265", "VP8", "VP9"
          Frames(_),    \* frames sent in a codec: sequences of units, which are bytes
          MaxFragment,  \* mMaxFragmentSize
          Mod,          \* RTP_SEQ_MOD, 65536 in the code
          Start,        \* the first sequence number
          MaxDropout, MaxMisorder, \* 3000 and 100 in updateSeq
          MaxStore,     \* packets kept for retransmission
          MaxQueue,     \* maxQueueAmount of the pacing handler
          RecvLimit,    \* RECV_QUEUE_LIMIT, in messages
          UseRtx,       \* retransmissions are wrapped
          Alone,        \* the peer connection has this track only
          MaxPackets(_), MaxNacks, MaxReports \* bounds, the first for each codec

ASSUME MediaAssumption ==
  /\ MaxStore < Mod /\ MaxDropout + MaxMisorder < Mod
  /\ Start \in MaxDropout..(Mod - MaxMisorder)
  /\ RecvLimit >= 2
  /\ Codecs \subseteq {"H264", "H265", "VP8", "VP9"}

VARIABLES tx,    \* the sending track
          rx,    \* the receiving track
          net    \* what is under way

vars == <<tx, rx, net>>

CeilDiv(a, b) == (a + b - 1) \div b
Least(a, b) == IF a < b THEN a ELSE b
SeqNumber(p) == (Start + p.n) % Mod
AllFrames == UNION {Frames(codec) : codec \in Codecs}

----------------------------------------------------------------------------
(* Packetizing.                                                            *)

\* What the application hands over: the units behind one another, each after
\* its length or a start code.  With "StartSequence" both codes may occur.
Separators == {"Length", "LongStartSequence", "ShortStartSequence", "StartSequence"}
Separator(sep, i, unit) ==
  CASE sep = "Length" -> <<0, 0, 0, Len(unit)>>
    [] sep = "LongStartSequence" \/ (sep = "StartSequence" /\ i = 1) -> <<0, 0, 0, 1>>
    [] OTHER -> <<0, 0, 1>>
Joined(sep, frame) == FlattenSeq([i \in DOMAIN frame |-> Separator(sep, i, frame[i]) \o frame[i]])

\* NalUnit::StartSequenceMatchSucc: the zeros seen so far, until a code has
\* ended.
StartSequenceMatchSucc(match, byte, sep) ==
  LET detectLong  == sep \in {"LongStartSequence", "StartSequence"}
      detectShort == sep \in {"ShortStartSequence", "StartSequence"}
  IN CASE byte = 0 /\ match = "noMatch"    -> "firstZero"
       [] byte = 0 /\ match = "firstZero"  -> "secondZero"
       [] byte = 0 /\ match \in {"secondZero", "thirdZero"} ->
            IF detectLong THEN "thirdZero" ELSE "secondZero"
       [] byte = 1 /\ match = "secondZero" /\ detectShort -> "shortMatch"
       [] byte = 1 /\ match = "thirdZero"  -> "longMatch"
       [] OTHER -> "noMatch"

\* H264RtpPacketizer::splitFrame at start codes: the sizes of the units.  What
\* comes before the first code is dropped, and the last unit ends the frame.
SplitAtCodes(data, sep) ==
  LET Step(s, i) ==
        LET m == StartSequenceMatchSucc(s.match, data[i], sep)
        IN IF m \notin {"longMatch", "shortMatch"} THEN [s EXCEPT !.match = m]
           ELSE [match |-> "noMatch", start |-> i + 1,
                 sizes |-> IF s.start = 0 THEN <<>>
                           ELSE Append(s.sizes, i - (IF m = "longMatch" THEN 4 ELSE 3) - s.start + 1)]
      end == FoldLeft(Step, [match |-> "noMatch", start |-> 0, sizes |-> <<>>], [i \in DOMAIN data |-> i])
  IN Append(end.sizes, IF end.start = 0 THEN 0 ELSE Len(data) - end.start + 1)

\* H264RtpPacketizer::splitFrame by lengths stops at a length or a unit that
\* is not complete.
SplitByLength(data) ==
  LET Step(s, i) ==
        IF i # s.index \/ i + 4 > Len(data) \/ i + 3 + data[i + 3] > Len(data) THEN s
        ELSE [index |-> i + 4 + data[i + 3], sizes |-> Append(s.sizes, data[i + 3])]
  IN FoldLeft(Step, [index |-> 1, sizes |-> <<>>], [i \in DOMAIN data |-> i]).sizes

SplitFrame(data, sep) == IF sep = "Length" THEN SplitByLength(data) ELSE SplitAtCodes(data, sep)

\* H265RtpPacketizer::splitFrame has the same code.
H265SplitFrame(data, sep) == SplitFrame(data, sep)

\* A unit cut into fragments: of each, the bytes the depacketizer takes from
\* it.  The unit's header goes into the headers of all its fragments, and is
\* taken from the first.
Cut(size, header, room) ==
  LET count == CeilDiv(size - header, room)
  IN [k \in 1..count |->
        [part |-> CASE k = 1 -> "start" [] k = count -> "end" [] OTHER -> "middle",
         from |-> IF k = 1 THEN 0 ELSE header + (k - 1) * room,
         to   |-> Least(header + k * room, size)]]
Whole(size) == <<[part |-> "whole", from |-> 0, to |-> size]>>
EvenShare(size) == CeilDiv(size, CeilDiv(size, MaxFragment))

\* NalUnit::GenerateFragments: a unit that fits goes alone, another is cut
\* into even parts, two bytes of which are the headers of the fragment.
Fragments(size) == IF size <= MaxFragment THEN Whole(size) ELSE Cut(size, 1, EvenShare(size) - 2)

\* H265NalUnit::GenerateFragments: a longer header, and three bytes.
H265Fragments(size) == IF size <= MaxFragment THEN Whole(size) ELSE Cut(size, 2, EvenShare(size) - 3)

\* VP9RtpPacketizer::fragment: the frame is cut behind a descriptor of one
\* byte, which tells the first fragment and the last.
VP9Fragment(size) ==
  CASE size = 0 \/ MaxFragment <= 1 -> <<>>
    [] size <= MaxFragment - 1      -> Whole(size)
    [] OTHER                        -> Cut(size, 0, MaxFragment - 1)

\* VP8RtpPacketizer::fragment: the same, but that a frame has three bytes at
\* least, and that nothing tells the last fragment from those in the middle.
VP8Fragment(size) ==
  IF size < 3 THEN <<>>
  ELSE [k \in DOMAIN VP9Fragment(size) |->
          [VP9Fragment(size)[k] EXCEPT !.part = IF @ = "end" THEN "middle" ELSE @]]

\* RtpPacketizer::fragment, of each codec: the pieces of every unit of a frame.
\* To VP8 and VP9 a frame is one unit.
Pieces ==
  [codec \in Codecs, frame \in AllFrames, sep \in Separators |->
     LET data  == Joined(sep, frame)
         total == Len(FlattenSeq(frame))
     IN CASE codec = "H264" -> LET sizes == SplitFrame(data, sep)
                               IN [i \in DOMAIN sizes |-> Fragments(sizes[i])]
          [] codec = "H265" -> LET sizes == H265SplitFrame(data, sep)
                               IN [i \in DOMAIN sizes |-> H265Fragments(sizes[i])]
          [] codec = "VP8"  -> <<VP8Fragment(total)>>
          [] codec = "VP9"  -> <<VP9Fragment(total)>>]

\* The sizes of the units of a frame, as the application made them.
Sizes ==
  [codec \in Codecs, frame \in AllFrames |->
     IF codec \in {"VP8", "VP9"} THEN <<Len(FlattenSeq(frame))>>
     ELSE [i \in DOMAIN frame |-> Len(frame[i])]]

\* RtpPacketizer::packetize: a packet around a payload, here piece f of unit i.
\* Header extensions are left out.
RtpPacket(n, ts, mark, i, f) ==
  [n |-> n, ts |-> ts, mark |-> mark, nal |-> i, part |-> f.part, from |-> f.from, to |-> f.to, rtx |-> 0]

\* RtpPacketizer::outgoing: one timestamp for the frame, the marker on its last
\* packet, sequence numbers that go on.
Packetize(pieces, n, ts) ==
  LET parts == FlattenSeq([i \in DOMAIN pieces |-> [k \in DOMAIN pieces[i] |-> <<i, pieces[i][k]>>]])
  IN [j \in DOMAIN parts |->
        RtpPacket(n + j - 1, ts, j = Len(parts), parts[j][1], parts[j][2])]

----------------------------------------------------------------------------
(* The NACK responder's storage: the packets by number, and a list of the  *)
(* numbers in the order they were stored.                                  *)

\* A storage that is full keeps what it has.
StoreDropNewest(s, p) ==
  LET added == [map |-> [k \in DOMAIN s.map \cup {SeqNumber(p)} |->
                          IF k \in DOMAIN s.map THEN s.map[k] ELSE p],
                list |-> Append(s.list, SeqNumber(p))]
  IN IF Cardinality(DOMAIN added.map) > MaxStore
     THEN [map |-> [k \in DOMAIN s.map |-> s.map[k]], list |-> s.list]
     ELSE added

\* Storage::store: the oldest goes when there are too many.
Store(s, p) ==
  LET map  == [k \in DOMAIN s.map \cup {SeqNumber(p)} |->
                 IF k \in DOMAIN s.map THEN s.map[k] ELSE p]
      list == Append(s.list, SeqNumber(p))
  IN IF Cardinality(DOMAIN map) > MaxStore
     THEN [map |-> [k \in DOMAIN map \ {Head(list)} |-> map[k]], list |-> Tail(list)]
     ELSE [map |-> map, list |-> list]

\* RtcpNackResponder::wrapInRtx: the same payload, under a number of its own.
WrapInRtx(p, r) == [p EXCEPT !.rtx = r]

\* PacingHandler::outgoing: what does not fit is dropped, the run is scheduled.
Pace(t, packets) ==
  LET room == IF MaxQueue = 0 THEN Len(packets) ELSE Least(Len(packets), MaxQueue - Len(t.queue))
  IN [t EXCEPT !.queue = @ \o SubSeq(packets, 1, room), !.scheduled = TRUE]

\* Track::transportSend and DtlsSrtpTransport::sendMedia: nothing leaves
\* before the keys are derived, and an open track has them.
SendMedia(packets) == IF tx.keys THEN net \cup packets ELSE net

----------------------------------------------------------------------------
(* The receiving session.  base and high are the true numbers that go with *)
(* mBaseSeq and mMaxSeq; they are only compared.                           *)

\* RtcpReceivingSession::initSeq.
InitSeq(s, p) ==
  [s EXCEPT !.baseSeq = SeqNumber(p), !.maxSeq = SeqNumber(p), !.badSeq = Mod + 1, !.cycles = 0,
            !.received = 0, !.expectedPrior = 0, !.receivedPrior = 0,
            !.base = p.n, !.high = p.n, !.synced = TRUE]

\* updateSeq with a signed difference: an older packet looks like a wrap.
UpdateSeqSigned(s, p) ==
  CASE SeqNumber(p) - s.maxSeq < MaxDropout ->
         [s EXCEPT !.cycles = IF SeqNumber(p) < s.maxSeq THEN @ + Mod ELSE @,
                   !.maxSeq = SeqNumber(p), !.high = p.n, !.received = @ + 1]
    [] SeqNumber(p) = s.badSeq -> [InitSeq(s, p) EXCEPT !.received = 1]
    [] OTHER -> [s EXCEPT !.badSeq = (SeqNumber(p) + 1) % Mod]

\* RtcpReceivingSession::updateSeq.  mProbation starts at zero and nothing
\* sets it, so its branch is never taken: a first number far from zero is a
\* large jump, and the packet after it synchronises.
UpdateSeq(s, p) ==
  LET seq    == SeqNumber(p)
      udelta == (seq - s.maxSeq) % Mod
      count(t) == [t EXCEPT !.received = @ + 1]
  IN CASE udelta < MaxDropout ->
            count([s EXCEPT !.cycles = IF seq < s.maxSeq THEN @ + Mod ELSE @,
                            !.maxSeq = seq, !.high = p.n])
       [] udelta >= MaxDropout /\ udelta <= Mod - MaxMisorder ->
            IF seq = s.badSeq THEN count(InitSeq(s, p))
            ELSE [s EXCEPT !.badSeq = (seq + 1) % Mod]
       [] OTHER -> count(s)

\* RtcpReceivingSession::pushRR, on a sender report.
PushRR(s) ==
  LET expected == s.cycles + s.maxSeq - s.baseSeq + 1
  IN [s EXCEPT !.expectedPrior = expected, !.receivedPrior = s.received,
               !.lost = IF s.received > 0 THEN expected - s.received ELSE 0]

----------------------------------------------------------------------------
(* Putting frames together.                                                *)

\* VideoRtpDepacketizer::sequence_cmp: the order around the circle.
Before(p, q) == (SeqNumber(q) - SeqNumber(p)) % Mod \in 1..(Mod \div 2 - 1)
InSequence(buffer) ==
  [i \in 1..Cardinality(buffer) |->
     CHOOSE p \in buffer : Cardinality({q \in buffer : Before(q, p)}) = i - 1]

\* reassemble that does not see a gap inside a unit.
AddGapped(f, p) ==
  LET g == [f EXCEPT !.next = (SeqNumber(p) + 1) % Mod,
                     !.nals = CASE p.part \in {"whole", "start"} -> Append(@, <<p>>)
                                [] f.going -> [@ EXCEPT ![Len(@)] = Append(@, p)]
                                [] OTHER -> @]
  IN [g EXCEPT !.going = IF p.part = "start" THEN TRUE ELSE f.going /\ p.part = "middle"]

\* One packet of H264RtpDepacketizer::reassemble.  f.next is the number that
\* should follow, f.going tells that fragments are continuous, f.nals the
\* units so far, each a sequence of pieces.
AddPacket(f, p) ==
  IF SeqNumber(p) < f.next THEN f
  ELSE LET going == f.going /\ SeqNumber(p) <= f.next
           nals  == CASE p.part \in {"whole", "start"} -> Append(f.nals, <<p>>)
                      [] p.part \in {"middle", "end"} /\ going ->
                           [f.nals EXCEPT ![Len(f.nals)] = Append(@, p)]
                      [] OTHER -> f.nals
       IN [next |-> (SeqNumber(p) + 1) % Mod, nals |-> nals,
           going |-> p.part = "start" \/ (going /\ p.part = "middle")]

\* reassemble that forgets that sequence numbers wrap.
ReassembleFlat(buffer) ==
  LET s == InSequence(buffer)
  IN [ts |-> s[1].ts,
      nals |-> FoldLeft(AddPacket, [next |-> SeqNumber(s[1]), going |-> FALSE, nals |-> <<>>],
                        SelectSeq(s, LAMBDA p : SeqNumber(p) >= SeqNumber(s[1]))).nals]

\* H264RtpDepacketizer::reassemble.
Reassemble(buffer) ==
  LET s == InSequence(buffer)
  IN [ts |-> s[1].ts,
      nals |-> FoldLeft(AddPacket, [next |-> SeqNumber(s[1]), going |-> FALSE, nals |-> <<>>], s).nals]

\* H265RtpDepacketizer::reassemble takes the same steps, with longer headers.
H265Reassemble(buffer) == Reassemble(buffer)

\* One packet of VP8RtpDepacketizer::reassemble.  f.payloads waits for the end
\* of the frame or the start of another partition; f.going tells that the
\* sequence is continuous since a start.
AddPayload(f, p) ==
  IF SeqNumber(p) < f.next THEN f
  ELSE LET going  == f.going /\ SeqNumber(p) <= f.next
           starts == p.part \in {"whole", "start"}
           ends   == starts \/ p.mark
           this   == IF p.mark THEN <<p>> ELSE <<>>
       IN [next |-> (SeqNumber(p) + 1) % Mod,
           going |-> going \/ ends,
           payloads |-> IF p.mark THEN <<>> ELSE IF ends THEN <<p>> ELSE Append(f.payloads, p),
           frame |-> CASE ends /\ going -> f.frame \o f.payloads \o this
                       [] ~going /\ starts -> f.frame \o this
                       [] OTHER -> f.frame]

\* VP8RtpDepacketizer::reassemble: nothing when no partition can be recovered.
VP8Reassemble(buffer) ==
  LET s == InSequence(buffer)
      f == FoldLeft(AddPayload, [next |-> SeqNumber(s[1]), going |-> FALSE, payloads |-> <<>>, frame |-> <<>>], s)
  IN [ts |-> s[1].ts, nals |-> IF f.frame = <<>> THEN <<>> ELSE <<f.frame>>]

\* VP9RtpDepacketizer::reassemble: another descriptor to skip, then the same.
VP9Reassemble(buffer) == VP8Reassemble(buffer)

\* reassemble of the track's codec: no frame, or one.
Frame(codec, buffer) ==
  CASE codec = "H264" -> <<Reassemble(buffer)>>
    [] codec = "H265" -> <<H265Reassemble(buffer)>>
    [] codec = "VP8"  -> SelectSeq(<<VP8Reassemble(buffer)>>, LAMBDA f : f.nals # <<>>)
    [] codec = "VP9"  -> SelectSeq(<<VP9Reassemble(buffer)>>, LAMBDA f : f.nals # <<>>)

\* VideoRtpDepacketizer::incoming: a packet of another frame ends the one
\* being collected, and so does the marker.  A number already there is kept.
\* Track::incoming drops what its receive queue has no room for.
Depacketize(r, p) ==
  LET other == r.buffer # {} /\ \E q \in r.buffer : q.ts # p.ts
      kept  == IF other THEN {} ELSE r.buffer
      now   == IF \E q \in kept : SeqNumber(q) = SeqNumber(p) THEN kept ELSE kept \cup {p}
      ended == (IF other THEN Frame(r.codec, r.buffer) ELSE <<>>)
               \o (IF p.mark THEN Frame(r.codec, now) ELSE <<>>)
  IN [r EXCEPT !.buffer = IF p.mark THEN {} ELSE now,
               !.queue = @ \o SubSeq(ended, 1, Least(Len(ended), RecvLimit - Len(@))),
               !.dropped = @ \cup {ended[i].ts : i \in {j \in DOMAIN ended : Len(r.queue) + j > RecvLimit}}]

\* Track::flushPendingMessages: only an open track calls back.
Flush(r) == IF r.open THEN [r EXCEPT !.out = @ \o r.queue, !.queue = <<>>] ELSE r

\* RtcpReceivingSession::unwrapRtx restores the packet; the primary SSRC and
\* the payload types are in the description.
UnwrapRtx(p) == [p EXCEPT !.rtx = 0]

\* RtcpReceivingSession::incoming, of a media packet.  The log keeps what passed.
SessionIncoming(r, p) == [r EXCEPT !.session = UpdateSeq(@, p), !.log = Append(@, p.n)]

\* Track::incoming, with the chain of handlers it has: the session, then the
\* depacketizer.  A closed track has none and nobody to call.
Incoming(r, p) ==
  IF r.closed THEN r
  ELSE LET q == UnwrapRtx(p) IN Flush(Depacketize(SessionIncoming(r, q), q))

\* PeerConnection::dispatchMedia: the only track gets everything, otherwise
\* the SSRC says which, once it is known.
DispatchMedia(r, p) == IF Alone \/ r.cached THEN Incoming(r, p) ELSE r

\* DtlsSrtpTransport::demuxMessage: before the keys a packet is taken for DTLS,
\* which discards it.
DemuxMessage(r) == r.keys

\* SRTP's replay window (external): a packet goes through once.
Unprotect(r, p) == <<p.n, p.rtx>> \notin r.seen

----------------------------------------------------------------------------
NewSession ==
  [maxSeq |-> 0, baseSeq |-> 0, badSeq |-> 0, cycles |-> 0, received |-> 0, expectedPrior |-> 0,
   receivedPrior |-> 0, lost |-> 0, base |-> 0, high |-> 0, synced |-> FALSE]

Init ==
  /\ \E codec \in Codecs :
       /\ tx = [codec |-> codec, n |-> 0, frames |-> <<>>, store |-> [map |-> [k \in {} |-> 0], list |-> <<>>],
                queue |-> <<>>, scheduled |-> FALSE, keys |-> FALSE, open |-> FALSE, closed |-> FALSE,
                rtx |-> 1, nacks |-> 0, reports |-> 0, report |-> FALSE]
       /\ rx = [codec |-> codec, keys |-> FALSE, cached |-> FALSE, open |-> FALSE, closed |-> FALSE,
                seen |-> {}, dropped |-> {}, session |-> NewSession, buffer |-> {}, queue |-> <<>>,
                out |-> <<>>, log |-> <<>>]
  /\ net = {}

\* DtlsSrtpTransport::postHandshake on one side or the other.
DeriveKeys ==
  \/ ~tx.keys /\ tx' = [tx EXCEPT !.keys = TRUE] /\ UNCHANGED <<rx, net>>
  \/ ~rx.keys /\ rx' = [rx EXCEPT !.keys = TRUE] /\ UNCHANGED <<tx, net>>

\* PeerConnection::openTracks and Track::open: what was kept is given out.
OpenTracks ==
  \/ tx.keys /\ ~tx.open /\ ~tx.closed /\ tx' = [tx EXCEPT !.open = TRUE] /\ UNCHANGED <<rx, net>>
  \/ rx.keys /\ ~rx.open /\ ~rx.closed /\ rx' = Flush([rx EXCEPT !.open = TRUE]) /\ UNCHANGED <<tx, net>>

\* PeerConnection::updateTrackSsrcCache, with the remote description.
UpdateTrackSsrcCache ==
  /\ ~rx.cached /\ rx' = [rx EXCEPT !.cached = TRUE]
  /\ UNCHANGED <<tx, net>>

\* Track::close: the handlers go, and with them what they hold.
CloseTrack ==
  \/ /\ tx.open /\ ~tx.closed
     /\ tx' = [tx EXCEPT !.closed = TRUE, !.open = FALSE, !.queue = <<>>, !.scheduled = FALSE]
     /\ UNCHANGED <<rx, net>>
  \/ /\ rx.open /\ ~rx.closed
     /\ rx' = [rx EXCEPT !.closed = TRUE, !.open = FALSE, !.buffer = {}, !.queue = <<>>,
                         !.session = NewSession, !.log = <<>>]
     /\ UNCHANGED <<tx, net>>

\* RtcpSrReporter::outgoing: the first frame has a sender report, a later one
\* when a second has passed.
Reports == CASE tx.frames = <<>> -> {TRUE}
             [] tx.reports < MaxReports -> BOOLEAN
             [] OTHER -> {FALSE}

\* Track::outgoing through the chain: packetizer, reporter, responder, pacing.
\* The separator is the packetizer's; nothing else depends on it.
Outgoing(frame) ==
  /\ tx.open
  /\ \E sep \in Separators, due \in Reports :
     \E packets \in {Packetize(Pieces[tx.codec, frame, sep], tx.n, Len(tx.frames) + 1)} :
       /\ tx.n + Len(packets) <= MaxPackets(tx.codec)
       /\ tx' = Pace([tx EXCEPT !.n = @ + Len(packets), 
                                !.frames = Append(@, [sizes |-> Sizes[tx.codec, frame], from |-> tx.n, to |-> tx.n + Len(packets)]),
                                !.store = FoldLeft(Store, @, packets),
                                !.reports = @ + (IF due THEN 1 ELSE 0),
                                !.report = @ \/ due], packets)
  /\ UNCHANGED <<rx, net>>

\* PacingHandler::run: as many packets as the budget allows, then again.
RunPacing ==
  /\ tx.scheduled
  /\ \E k \in 0..Len(tx.queue) :
       /\ k = 0 => tx.queue # <<>>
       /\ net' = SendMedia(Range(SubSeq(tx.queue, 1, k)))
       /\ tx' = [tx EXCEPT !.queue = SubSeq(@, k + 1, Len(@)), !.scheduled = k < Len(tx.queue)]
  /\ UNCHANGED rx

\* DtlsSrtpTransport::recvMedia and PeerConnection::forwardMedia.
RecvMedia(p) ==
  /\ net' = net \ {p}
  /\ IF DemuxMessage(rx) /\ Unprotect(rx, p)
     THEN rx' = DispatchMedia([rx EXCEPT !.seen = @ \cup {<<p.n, p.rtx>>}], p)
     ELSE rx' = rx
  /\ UNCHANGED tx

\* A sender report reaches the session, which answers.
RecvReport ==
  /\ tx.report /\ DemuxMessage(rx) /\ ~rx.closed /\ (Alone \/ rx.cached)
  /\ tx' = [tx EXCEPT !.report = FALSE]
  /\ rx' = [rx EXCEPT !.session = PushRR(@)]
  /\ UNCHANGED net

\* RtcpNackResponder::incoming: what is still stored is sent again.
RecvNack(seq) ==
  /\ tx.open /\ tx.nacks < MaxNacks /\ seq \in DOMAIN tx.store.map
  /\ LET p == tx.store.map[seq]
     IN net' = SendMedia({IF UseRtx THEN WrapInRtx(p, tx.rtx) ELSE p})
  /\ tx' = [tx EXCEPT !.nacks = @ + 1, !.rtx = IF UseRtx THEN @ + 1 ELSE @]
  /\ UNCHANGED rx

Next ==
  \/ DeriveKeys \/ OpenTracks \/ UpdateTrackSsrcCache \/ CloseTrack \/ RunPacing \/ RecvReport
  \/ \E frame \in Frames(tx.codec) : Outgoing(frame)
  \/ \E p \in net : RecvMedia(p)
  \/ \E seq \in 0..(Mod - 1) : RecvNack(seq)

Spec == Init /\ [][Next]_vars

----------------------------------------------------------------------------
\* Whatever was lost, reordered or sent again, a unit the application gets is
\* the beginning of one unit that was sent: its pieces are contiguous from the
\* first byte, of the same unit of the same frame, and units keep their order.
\* A VP8 or VP9 frame, which a decoder cannot start in the middle, is whole.
NeverSpliced ==
  \A i \in DOMAIN rx.out :
    LET nals == rx.out[i].nals
    IN /\ \A j \in DOMAIN nals :
            /\ nals[j][1].from = 0
            /\ \A k \in 2..Len(nals[j]) :
                 nals[j][k].from = nals[j][k - 1].to /\ nals[j][k].nal = nals[j][1].nal
            /\ \A k \in DOMAIN nals[j] : nals[j][k].ts = rx.out[i].ts
            /\ rx.codec \in {"VP8", "VP9"} => Last(nals[j]).to = tx.frames[rx.out[i].ts].sizes[1]
       /\ \A j \in 2..Len(nals) : nals[j - 1][1].nal < nals[j][1].nal

\* What the receiving session reports is counted right across the wrap of the
\* sequence numbers: since it last synchronised, the extended highest number
\* minus the base is the true distance between the two packets.
SequenceIsExact ==
  LET s == rx.session
  IN s.synced => s.cycles + s.maxSeq - s.baseSeq = s.high - s.base

\* The numbers of the packets of frame f.
PacketsOf(f) == [k \in 1..(tx.frames[f].to - tx.frames[f].from) |-> tx.frames[f].from + k - 1]

\* A frame whose packets arrive in order with nothing between them reaches the
\* application of an open track whole and once, unit by unit as the sending
\* application separated them, also where numbers wrap and when it came before
\* the track opened, unless the receive queue was full.
InOrderIsWhole ==
  rx.open => \A f \in DOMAIN tx.frames \ rx.dropped :
    \E ns \in {PacketsOf(f)} :
      /\ ns # <<>> /\ Cardinality({i \in DOMAIN rx.log : Contains(ns, rx.log[i])}) = Len(ns)
      /\ \E i \in 0..(Len(rx.log) - Len(ns)) : SubSeq(rx.log, i + 1, i + Len(ns)) = ns
      => \E k \in DOMAIN rx.out :
           /\ rx.out[k].ts = f
           /\ [j \in DOMAIN rx.out[k].nals |-> Last(rx.out[k].nals[j]).to] = tx.frames[f].sizes
           /\ Len(FlattenSeq(rx.out[k].nals)) = Len(ns)
           /\ \A j \in DOMAIN rx.out : rx.out[j].ts = f => j = k

\* A packet that waits in the pacing queue has a run to send it, whatever the
\* budget left behind; and the responder can repeat exactly the packets sent
\* last, each under its own number.
PacedAndRepeatable ==
  /\ tx.queue # <<>> => tx.scheduled
  /\ {tx.store.map[k].n : k \in DOMAIN tx.store.map}
       = (IF tx.n > MaxStore THEN tx.n - MaxStore ELSE 0)..(tx.n - 1)
  /\ \A k \in DOMAIN tx.store.map : SeqNumber(tx.store.map[k]) = k
=============================================================================
