---------------------------- MODULE Description ----------------------------
(***************************************************************************)
(* Session descriptions (description.cpp) and their candidates             *)
(* (candidate.cpp): what the application does to a description before it   *)
(* is sent, the SDP lines made of it, the description the peer parses out  *)
(* of them, and the answer the peer derives by reciprocation.              *)
(*                                                                         *)
(* A line is a tuple: <<"m", kind, port, payload types>>, <<"o", origin>>, *)
(* <<"b", bitrate>> or <<"a", key, values...>>.  Tokens stand for strings; *)
(* an SSRC is a number, because it is matched by its decimal digits.       *)
(* std::map is a function, printed in the order of its keys.               *)
(***************************************************************************)
EXTENDS Integers, Sequences, FiniteSets, SequencesExt, Functions, TLC

CONSTANTS Foreign,      \* sequences of lines another implementation may send
          Own,          \* sequences of lines the application starts from
          DynamicTypes, \* the payload types RTX may take (96..127 in the code)
          SSRCs,        \* the SSRCs the application uses
          MaxEdits      \* bound on the changes made to a description

VARIABLES d,            \* the description
          edits         \* how many times it was changed

vars == <<d, edits>>

Keys(f) == [i \in 1..Cardinality(DOMAIN f) |->
             CHOOSE k \in DOMAIN f : Cardinality({j \in DOMAIN f : j < k}) = i - 1]
OverKeys(f, Lines(_)) == FlattenSeq([i \in DOMAIN Keys(f) |-> Lines(Keys(f)[i])])
When(b, lines) == IF b THEN lines ELSE <<>>
Without(s, x) == SelectSeq(s, LAMBDA y : y # x)
WithoutKeys(f, S) == Restrict(f, DOMAIN f \ S)

----------------------------------------------------------------------------
(* Candidates.  fam is the family once the address is resolved.            *)

NoMid == -1

\* Candidate::parse: the prefixes are dropped, the address stays unresolved.
ParseCandidate(v, mid) ==
  [f |-> v[1], prio |-> v[2], node |-> v[3], type |-> v[4], fam |-> "none", addr |-> "none",
   mid |-> mid]

\* Candidate::candidate: the resolved address replaces the name.
PrintCandidate(c) == <<c.f, c.prio, IF c.fam = "none" THEN c.node ELSE c.addr, c.type>>

\* Candidate::resolve: Simple takes numeric addresses only, Lookup asks the
\* resolver, which may know the name.
Resolve(c, lookup) ==
  CASE c.node = "v4" -> [c EXCEPT !.fam = "ipv4", !.addr = "v4"]
    [] c.node = "v6" -> [c EXCEPT !.fam = "ipv6", !.addr = "v6"]
    [] OTHER -> IF lookup THEN [c EXCEPT !.fam = "ipv4", !.addr = "a4"] ELSE c

\* Candidate::operator==
SameCandidate(a, b) == a.f = b.f /\ a.node = b.node

Mid0 == 0
BundleMid(x) ==
  LET live == {i \in DOMAIN x.entries : ~x.entries[i].removed}
  IN IF live = {} THEN Mid0 ELSE x.entries[CHOOSE i \in live : \A j \in live : i <= j].mid

HintMid(c, mid) == IF c.mid = NoMid THEN [c EXCEPT !.mid = mid] ELSE c

WithCandidate(x, c) ==
  IF \E i \in DOMAIN x.cands : SameCandidate(x.cands[i], c) THEN x
  ELSE [x EXCEPT !.cands = Append(@, HintMid(c, BundleMid(x)))]

\* The first host candidate of highest priority, IPv4 before IPv6.
DefaultCandidate(x) ==
  FoldLeft(LAMBDA r, c :
             IF c.type = "host"
                /\ (\/ r.f = "none"
                    \/ r.fam = "ipv6" /\ c.fam = "ipv4"
                    \/ r.fam = c.fam /\ r.prio < c.prio)
             THEN c ELSE r,
           ParseCandidate(<<"none", 0, "none", "none">>, NoMid), x.cands)

----------------------------------------------------------------------------
(* Entries: one record for an application and for a media.                 *)

NewEntry(kind, port, pts, mid, dir) ==
  [kind |-> kind, mid |-> mid, dir |-> dir, removed |-> port = 0, ext |-> <<>>, attrs |-> <<>>,
   rids |-> <<>>, pts |-> pts, maps |-> <<>>, ssrcs |-> <<>>, cname |-> <<>>, rtx |-> <<>>,
   bas |-> -1, sctp |-> 0, max |-> 0]

NewMap(fmt, rate) == [fmt |-> fmt, rate |-> rate, fbs |-> <<>>, fmtps |-> <<>>]

\* Entry::generateSdpLines: SSRCs are left out when there are RIDs, and RIDs
\* are always printed as sent ones.
EntryLines(e) ==
  LET shown == IF e.rids = <<>> THEN e.attrs ELSE SelectSeq(e.attrs, LAMBDA a : a[1] # "ssrc")
  IN <<<<"a", "mid", e.mid>>>>
     \o OverKeys(e.ext, LAMBDA k : <<<<"a", "extmap", k, e.ext[k].dir, e.ext[k].uri>>>>)
     \o When(e.dir # "unknown", <<<<"a", e.dir>>>>)
     \o [i \in DOMAIN shown |-> <<"a">> \o shown[i]]
     \o [i \in DOMAIN e.rids |-> <<"a", "rid", e.rids[i], "send">>]
     \o When(e.rids # <<>>, <<<<"a", "simulcast", "send", e.rids>>>>)

ApplicationLines(e) ==
  EntryLines(e) \o When(e.sctp # 0, <<<<"a", "sctp-port", e.sctp>>>>)
                \o When(e.max # 0, <<<<"a", "max-message-size", e.max>>>>)

MediaLines(e) ==
  LET mapLines(pt) ==
        LET m == e.maps[pt]
        IN <<<<"a", "rtpmap", pt, m.fmt, m.rate>>>>
           \o [i \in DOMAIN m.fbs |-> <<"a", "rtcp-fb", pt, m.fbs[i]>>]
           \o [i \in DOMAIN m.fmtps |-> <<"a", "fmtp", pt, m.fmtps[i]>>]
  IN When(e.bas >= 0, <<<<"b", e.bas>>>>) \o EntryLines(e) \o <<<<"a", "rtcp-mux">>>>
     \o OverKeys(e.maps, mapLines)
     \o OverKeys(e.rtx, LAMBDA s : <<<<"a", "ssrc-group", "FID", s, e.rtx[s]>>>>)

\* Entry::generateSdp with the port printed whatever became of the entry.
EntrySdpAlwaysPort(e, port) ==
  <<<<"m", e.kind, port, e.pts>>>>
  \o (IF e.kind = "application" THEN ApplicationLines(e) ELSE MediaLines(e))

\* Entry::generateSdp: a removed entry has port zero.
EntrySdp(e, port) ==
  <<<<"m", e.kind, IF e.removed THEN 0 ELSE port, e.pts>>>>
  \o (IF e.kind = "application" THEN ApplicationLines(e) ELSE MediaLines(e))

\* Description::generateSdp
GenerateSdp(x) ==
  LET mids(kinds) == [i \in DOMAIN SelectSeq(x.entries, LAMBDA e : ~e.removed /\ e.kind \in kinds)
                       |-> SelectSeq(x.entries, LAMBDA e : ~e.removed /\ e.kind \in kinds)[i].mid]
      default == DefaultCandidate(x)
      port    == IF default.fam # "none" THEN 5 ELSE 9
      live    == {i \in DOMAIN x.entries : ~x.entries[i].removed}
      section(i) ==
        EntrySdp(x.entries[i], port) \o <<<<"a", "setup", x.role>>>>
        \o When(x.ufrag # "none", <<<<"a", "ice-ufrag", x.ufrag>>>>)
        \o When(x.pwd # "none", <<<<"a", "ice-pwd", x.pwd>>>>)
        \o When(i \in live /\ \A j \in live : i <= j,
                [k \in DOMAIN x.cands |-> <<"a", "candidate">> \o PrintCandidate(x.cands[k])]
                \o When(x.ended, <<<<"a", "end-of-candidates">>>>))
  IN <<<<"o", x.origin>>, <<"a", "group", "BUNDLE", mids({"application", "audio", "video"})>>,
       <<"a", "group", "LS", mids({"audio", "video"})>>, <<"a", "msid-semantic", "WMS">>>>
     \o When(x.options # <<>>, <<<<"a", "ice-options", x.options>>>>)
     \o When(x.fp # "none", <<<<"a", "fingerprint", "sha-256", x.fp>>>>)
     \o [i \in DOMAIN x.attrs |-> <<"a">> \o x.attrs[i]]
     \o FlattenSeq([i \in DOMAIN x.entries |-> section(i)])

\* Description::generateApplicationSdp, which the ICE agent is given: one
\* section, there or not, removed or not.
GenerateApplicationSdp(x) ==
  LET apps == SelectSeq(x.entries, LAMBDA e : e.kind = "application")
      app  == IF apps = <<>> THEN NewEntry("application", 9, <<>>, Mid0, "sendrecv") ELSE apps[1]
  IN <<<<"o", x.origin>>, <<"a", "msid-semantic", "WMS">>>>
     \o When(x.options # <<>>, <<<<"a", "ice-options", x.options>>>>)
     \o [i \in DOMAIN x.attrs |-> <<"a">> \o x.attrs[i]]
     \o EntrySdp(app, IF DefaultCandidate(x).fam # "none" THEN 5 ELSE 9)
     \o <<<<"a", "setup", x.role>>>>
     \o When(x.ufrag # "none", <<<<"a", "ice-ufrag", x.ufrag>>>>)
     \o When(x.pwd # "none", <<<<"a", "ice-pwd", x.pwd>>>>)
     \o When(x.fp # "none", <<<<"a", "fingerprint", "sha-256", x.fp>>>>)
     \o [k \in DOMAIN x.cands |-> <<"a", "candidate">> \o PrintCandidate(x.cands[k])]
     \o When(x.ended, <<<<"a", "end-of-candidates">>>>)

----------------------------------------------------------------------------
(* Parsing.  p.x is the description so far, p.n counts the m-lines, p.bad  *)
(* tells that an exception was thrown.                                     *)

Update(f, k, default, Change(_)) == [j \in {k} |-> Change(IF k \in DOMAIN f THEN f[k] ELSE default)] @@ f

\* Entry::parseSdpLine.  The direction of a RID is not kept; an extension map
\* that is described again keeps the direction it had when none is given.
ParseEntryLine(e, l) ==
  LET k == l[2]
  IN CASE l[1] # "a" -> e
       [] k = "mid" -> [e EXCEPT !.mid = l[3]]
       [] k = "extmap" ->
            [e EXCEPT !.ext = Update(@, l[3], [dir |-> "unknown", uri |-> l[5]], LAMBDA m :
               [dir |-> IF l[4] = "unknown" THEN m.dir ELSE l[4], uri |-> l[5]])]
       [] k \in {"sendonly", "recvonly", "sendrecv", "inactive"} -> [e EXCEPT !.dir = k]
       [] k = "bundle-only" -> [e EXCEPT !.removed = FALSE]
       [] k = "rid" -> [e EXCEPT !.rids = Append(@, l[3])]
       [] OTHER -> [e EXCEPT !.attrs = Append(@, Tail(l))]

ParseApplicationLine(e, l) ==
  CASE l[1] = "a" /\ l[2] = "sctp-port" -> [e EXCEPT !.sctp = l[3]]
    [] l[1] = "a" /\ l[2] = "max-message-size" -> [e EXCEPT !.max = l[3]]
    [] OTHER -> ParseEntryLine(e, l)

\* Media::parseSdpLine: feedback and format parameters make the map they need.
ParseMediaLine(e, l) ==
  LET k == IF l[1] = "a" THEN l[2] ELSE l[1]
  IN CASE k = "b" -> [e EXCEPT !.bas = l[2]]
       [] k = "rtpmap" ->
            [e EXCEPT !.maps = Update(@, l[3], NewMap(l[4], l[5]), LAMBDA m :
               [m EXCEPT !.fmt = l[4], !.rate = l[5]])]
       [] k = "rtcp-fb" ->
            [e EXCEPT !.maps = Update(@, l[3], NewMap("", 0), LAMBDA m :
               [m EXCEPT !.fbs = Append(@, l[4])])]
       [] k = "fmtp" ->
            [e EXCEPT !.maps = Update(@, l[3], NewMap("", 0), LAMBDA m :
               [m EXCEPT !.fmtps = Append(@, l[4])])]
       [] k = "rtcp-mux" -> e
       [] k = "ssrc" ->
            [e EXCEPT !.ssrcs = IF Contains(@, l[3]) THEN @ ELSE Append(@, l[3]),
                      !.cname = IF l[4] = "cname" THEN @ @@ (l[3] :> l[5]) ELSE @,
                      !.attrs = Append(@, Tail(l))]
       [] k = "ssrc-group" -> [e EXCEPT !.rtx = IF l[3] = "FID" THEN (l[4] :> l[5]) @@ @ ELSE @]
       [] OTHER -> ParseEntryLine(e, l)

\* Description::removeApplication
WithoutApplication(x) ==
  [x EXCEPT !.entries = SelectSeq(@, LAMBDA e : e.kind # "application")]

\* Description::createEntry: a second application takes the place of the first.
CreateEntry(x, l, mid) ==
  IF l[2] = "application"
  THEN [WithoutApplication(x) EXCEPT !.entries = Append(@, NewEntry(l[2], l[3], l[4], mid, "sendrecv"))]
  ELSE [x EXCEPT !.entries = Append(@, NewEntry(l[2], l[3], l[4], mid, "unknown"))]

\* CertificateFingerprint: the algorithms known, and what isValid accepts.
Algorithms == {"sha-256"}
Valid(v)   == v # "malformed"

\* Description::Description(sdp, type, role), one line of it.  What is in the
\* first section overrides what the session says; otherwise the first value
\* found is kept.
ParseLine(p, l) ==
  LET x == p.x
      k == IF l[1] = "a" THEN l[2] ELSE l[1]
      Keep(old, new) == IF old = "none" \/ p.n = 1 THEN new ELSE old
      last == Len(x.entries)
  IN CASE p.bad -> p
       [] k = "m" -> [p EXCEPT !.x = CreateEntry(x, l, p.n), !.n = @ + 1]
       [] k = "o" -> [p EXCEPT !.x.origin = l[2]]
       [] k = "setup" ->
            [p EXCEPT !.x.role = IF l[3] \in {"active", "passive"} THEN l[3] ELSE "actpass"]
       [] k = "fingerprint" ->
            [p EXCEPT !.x.fp = IF l[3] \in Algorithms THEN Keep(@, l[4]) ELSE @,
                      !.bad = l[3] \in Algorithms /\ ~Valid(Keep(x.fp, l[4]))]
       [] k = "ice-ufrag" -> [p EXCEPT !.x.ufrag = Keep(@, l[3])]
       [] k = "ice-pwd" -> [p EXCEPT !.x.pwd = Keep(@, l[3])]
       [] k = "ice-options" -> [p EXCEPT !.x.options = IF @ = <<>> THEN l[3] ELSE @]
       [] k = "candidate" ->
            [p EXCEPT !.x = WithCandidate(x, ParseCandidate(SubSeq(l, 3, Len(l)), BundleMid(x)))]
       [] k = "end-of-candidates" -> [p EXCEPT !.x.ended = TRUE]
       [] k = "group" -> p
       [] OTHER ->
            IF last = 0 THEN [p EXCEPT !.x.attrs = IF l[1] = "a" THEN Append(@, Tail(l)) ELSE @]
            ELSE [p EXCEPT !.x.entries[last] =
                    IF @.kind = "application" THEN ParseApplicationLine(@, l) ELSE ParseMediaLine(@, l)]

Parsed(lines) ==
  FoldLeft(ParseLine,
           [x |-> [role |-> "actpass", origin |-> "rtc", ufrag |-> "none", pwd |-> "none",
                   fp |-> "none", options |-> <<>>, cands |-> <<>>, ended |-> FALSE,
                   attrs |-> <<>>, entries |-> <<>>],
            n |-> 0, bad |-> FALSE], lines)

Received(x) == Parsed(GenerateSdp(x)).x

----------------------------------------------------------------------------
(* What the application does to a media entry e.                           *)

AddSSRC(e, s, name, msid) ==
  [e EXCEPT !.attrs = @ \o <<IF name # "none" THEN <<"ssrc", s, "cname", name>> ELSE <<"ssrc", s, "">>>>
                        \o When(msid # "none", <<<<"ssrc", s, "msid", msid>>, <<"msid", msid>>>>),
            !.cname = IF name # "none" THEN @ @@ (s :> name) ELSE @,
            !.ssrcs = Append(@, s)]

\* The decimal digits of s begin with those of t.
Begins(s, t) == \E k \in {1, 10, 100} : s \div k = t

\* Media::removeSSRC matches the attributes by prefix, the list exactly.
RemoveSSRC(e, s) ==
  [e EXCEPT !.attrs = SelectSeq(@, LAMBDA a : ~(a[1] = "ssrc" /\ Begins(a[2], s))),
            !.ssrcs = Without(@, s)]

ReplaceSSRC(e, old, s, name) == AddSSRC(RemoveSSRC(e, old), s, name, "none")

ClearSSRCs(e) ==
  [e EXCEPT !.attrs = SelectSeq(@, LAMBDA a : a[1] # "ssrc"),
            !.ssrcs = <<>>, !.cname = <<>>, !.rtx = <<>>]

AddRtxSSRC(e, s, r, name) ==
  LET mapped == [e EXCEPT !.rtx = (s :> r) @@ @]
  IN IF Contains(e.ssrcs, r) THEN mapped ELSE AddSSRC(mapped, r, name, "none")

RemoveRtxSSRC(e, s) ==
  IF s \in DOMAIN e.rtx
  THEN [RemoveSSRC(e, e.rtx[s]) EXCEPT !.rtx = WithoutKeys(@, {s})]
  ELSE e

AddRtpMap(e, pt, m) ==
  [e EXCEPT !.pts = IF Contains(@, pt) THEN @ ELSE Append(@, pt), !.maps = @ @@ (pt :> m)]

AddCodec(e, pt, fmt) ==
  AddRtpMap(e, pt, [NewMap(fmt, IF e.kind = "video" THEN 90000 ELSE 48000)
                      EXCEPT !.fbs = IF e.kind = "video" THEN <<"nack", "nack pli", "goog-remb">> ELSE <<>>])

AddRtxCodec(e, pt, orig, rate) ==
  AddRtpMap(e, pt, [NewMap("rtx", rate) EXCEPT !.fmtps = <<<<"apt", orig>>>>])

Dependents(e, pt) == {q \in DOMAIN e.maps : Contains(e.maps[q].fmtps, <<"apt", pt>>)}

RemoveRtpMapOnly(e, pt) ==
  [e EXCEPT !.pts = Without(@, pt), !.maps = WithoutKeys(@, {pt})]

\* Media::removeRtpMap: the format and those that repair it.
RemoveRtpMap(e, pt) ==
  LET gone == {pt} \cup Dependents(RemoveRtpMapOnly(e, pt), pt)
  IN [e EXCEPT !.pts = SelectSeq(@, LAMBDA q : q \notin gone), !.maps = WithoutKeys(@, gone)]

RemoveFormat(e, fmt) ==
  FoldLeft(RemoveRtpMap, e,
           SelectSeq(Keys(e.maps), LAMBDA pt : e.maps[pt].fmt = fmt))

DisableRtx(e) ==
  [FoldLeft(RemoveRtxSSRC, RemoveFormat(e, "rtx"), Keys(e.rtx)) EXCEPT !.rtx = <<>>]

\* Description::addRtx for one entry: the lowest free types, in the order of
\* the codecs, as long as there are any.
AddRtxTo(e) ==
  LET needing == SelectSeq(e.pts, LAMBDA pt : e.maps[pt].fmt # "rtx" /\ Dependents(e, pt) = {})
      free    == Keys([pt \in DynamicTypes \ Range(e.pts) |-> pt])
      n       == IF Len(needing) < Len(free) THEN Len(needing) ELSE Len(free)
  IN FoldLeft(LAMBDA y, i : AddRtxCodec(y, free[i], needing[i], e.maps[needing[i]].rate),
              e, [i \in 1..n |-> i])

\* rtpMap throws for a payload type without a map: what follows is not done.
AddRtx(x, audio) ==
  LET chosen(i) == x.entries[i].kind = "video" \/ (x.entries[i].kind = "audio" /\ audio)
      throws(i) == chosen(i) /\ \E j \in DOMAIN x.entries[i].pts :
                                   x.entries[i].pts[j] \notin DOMAIN x.entries[i].maps
  IN [x EXCEPT !.entries = [i \in DOMAIN @ |->
        IF chosen(i) /\ \A j \in 1..i : ~throws(j) THEN AddRtxTo(@[i]) ELSE @[i]]]

Mirror(dir) == CASE dir = "sendonly" -> "recvonly" [] dir = "recvonly" -> "sendonly" [] OTHER -> dir

\* Media::reciprocate without clearing the SSRCs.
ReciprocateKeepingSSRCs(e) ==
  [e EXCEPT !.dir = Mirror(@), !.ext = [k \in DOMAIN @ |-> [@[k] EXCEPT !.dir = Mirror(@)]],
            !.attrs = SelectSeq(@, LAMBDA a : a[1] # "rtcp-rsize")]

\* Media::reciprocate, Application::reciprocate
ReciprocateMedia(e) ==
  LET c == ClearSSRCs(e)
  IN [c EXCEPT !.dir = Mirror(@), !.ext = [k \in DOMAIN @ |-> [@[k] EXCEPT !.dir = Mirror(@)]],
               !.attrs = SelectSeq(@, LAMBDA a : a[1] # "rtcp-rsize")]

Reciprocate(e) == IF e.kind = "application" THEN [e EXCEPT !.max = 0] ELSE ReciprocateMedia(e)

AddAttribute(s, a) == IF Contains(s, a) THEN s ELSE Append(s, a)

----------------------------------------------------------------------------
(* The operations.  Every one is a call on the description or on one of    *)
(* its entries.                                                            *)

Edit(x) == edits < MaxEdits /\ edits' = edits + 1 /\ d' = x
Media == {i \in DOMAIN d.entries : d.entries[i].kind # "application"}
Apps  == {i \in DOMAIN d.entries : d.entries[i].kind = "application"}
EditEntry(i, e) == Edit([d EXCEPT !.entries[i] = e])

FreshMid == Len(d.entries)
AddApplication ==
  LET x == WithoutApplication(d)
  IN Edit([x EXCEPT !.entries = Append(@, NewEntry("application", 9, <<>>, FreshMid, "sendrecv"))])
AddMedia(kind, dir) ==
  Edit([d EXCEPT !.entries = Append(@, NewEntry(kind, 9, <<>>, FreshMid, dir))])
ClearMedia  == Edit([d EXCEPT !.entries = <<>>])
MarkRemoved == \E i \in DOMAIN d.entries : EditEntry(i, [d.entries[i] EXCEPT !.removed = TRUE])
SetDirection == \E i \in Media, dir \in {"sendonly", "inactive"} :
                  EditEntry(i, [d.entries[i] EXCEPT !.dir = dir])
SetBitrate   == \E i \in Media : EditEntry(i, [d.entries[i] EXCEPT !.bas = 0])
SetSizes     == \E i \in Apps :
                  EditEntry(i, [d.entries[i] EXCEPT !.max = 256, !.sctp = IF @ = 0 THEN 5000 ELSE @])

EditSSRC ==
  \E i \in Media :
    LET e == d.entries[i] IN
    \/ \E s \in SSRCs, name \in {"none", "c2"} : EditEntry(i, AddSSRC(e, s, name, name))
    \/ \E s \in SSRCs : EditEntry(i, RemoveSSRC(e, s))
    \/ \E s, t \in SSRCs : EditEntry(i, ReplaceSSRC(e, s, t, "c1"))
    \/ \E s, t \in SSRCs : EditEntry(i, AddRtxSSRC(e, s, t, "none"))
    \/ \E s \in SSRCs : EditEntry(i, RemoveRtxSSRC(e, s))
    \/ EditEntry(i, ClearSSRCs(e))

EditCodec ==
  \E i \in Media :
    LET e == d.entries[i] IN
    \/ \E pt \in DynamicTypes, fmt \in {"VP8"} : EditEntry(i, AddCodec(e, pt, fmt))
    \/ \E pt \in Range(e.pts) : EditEntry(i, RemoveRtpMap(e, pt))
    \/ \E fmt \in {"VP8", "rtx"} : EditEntry(i, RemoveFormat(e, fmt))
    \/ \E pt \in DynamicTypes, orig \in DOMAIN e.maps :
         e.maps[orig].fmt # "rtx" /\ pt # orig /\ EditEntry(i, AddRtxCodec(e, pt, orig, 90000))
    \/ EditEntry(i, DisableRtx(e))

AddRtxEverywhere == \E audio \in BOOLEAN : Edit(AddRtx(d, audio))

EditAttributes ==
  \E i \in DOMAIN d.entries :
    LET e == d.entries[i] IN
    \/ EditEntry(i, [e EXCEPT !.rids = Append(@, "r2")])
    \/ e.kind # "application" /\
       EditEntry(i, [e EXCEPT !.ext = @ @@ (2 :> [dir |-> "recvonly", uri |-> "u2"])])
    \/ EditEntry(i, [e EXCEPT !.ext = WithoutKeys(@, {1})])
    \/ EditEntry(i, [e EXCEPT !.attrs = AddAttribute(@, <<"rtcp-rsize">>)])

EditSession ==
  \/ Edit([d EXCEPT !.attrs = AddAttribute(@, <<"x-own">>)])
  \/ Edit([d EXCEPT !.options = AddAttribute(@, "trickle")])
  \/ Edit([d EXCEPT !.options = Without(@, "ice2")])
  \/ Edit([d EXCEPT !.ufrag = "u9", !.pwd = "p9"])
  \/ Edit([d EXCEPT !.fp = "F9"])

\* Host candidates are numeric; the others may be names (mDNS) until they
\* are looked up.
EditCandidates ==
  \/ \E v \in {<<"f1", 9, "v6", "host">>, <<"f1", 7, "v4", "host">>, <<"f2", 5, "name", "srflx">>},
        how \in {"none", "simple", "lookup"} :
       LET c == ParseCandidate(v, NoMid)
       IN Edit(WithCandidate(d, IF how = "none" THEN c ELSE Resolve(c, how = "lookup")))
  \/ Edit([d EXCEPT !.cands = <<>>, !.ended = FALSE])
  \/ Edit([d EXCEPT !.ended = TRUE])

\* The description is sent and the peer goes on with what it has read.
Transmit == Edit(Received(d))

\* The peer answers with the reciprocal of what it has read.
Answered(x) == [Received(x) EXCEPT !.entries = [i \in DOMAIN @ |-> Reciprocate(@[i])], !.cands = <<>>, !.ended = FALSE]
Answer == Edit(Answered(d))

Init ==
  \/ d \in {Parsed(l).x : l \in {k \in Foreign : ~Parsed(k).bad}} /\ edits = MaxEdits - 1
  \/ d \in {Parsed(l).x : l \in Own} /\ edits = 0

Next ==
  \/ AddApplication \/ ClearMedia \/ MarkRemoved \/ SetDirection \/ SetBitrate \/ SetSizes
  \/ \E kind \in {"audio", "video"} : AddMedia(kind, "sendonly")
  \/ EditSSRC \/ EditCodec \/ AddRtxEverywhere \/ EditAttributes \/ EditSession \/ EditCandidates
  \/ Transmit \/ Answer

Spec == Init /\ [][Next]_vars

----------------------------------------------------------------------------
(* The SSRCs an entry shows, and the names it gives them: the attributes   *)
(* that are printed, of which the first that names an SSRC counts.         *)

Shown(e) == IF e.rids # <<>> THEN <<>> ELSE SelectSeq(e.attrs, LAMBDA a : a[1] = "ssrc")
ShownSSRCs(e) == {a[2] : a \in Range(Shown(e))}
ShownNames(e) ==
  LET named == SelectSeq(Shown(e), LAMBDA a : a[3] = "cname")
  IN FoldLeft(LAMBDA f, a : f @@ (a[2] :> a[4]), <<>>, named)

\* What a description tells the peer.  Printing adds an msid-semantic and a
\* simulcast line of its own each time, which the next parser keeps as plain
\* attributes; candidates go with the first entry that is not removed.
Told(x) ==
  LET some == x.entries # <<>>
      live == \E i \in DOMAIN x.entries : ~x.entries[i].removed
  IN [role |-> IF some THEN x.role ELSE "actpass", origin |-> x.origin,
      ufrag |-> IF some THEN x.ufrag ELSE "none", pwd |-> IF some THEN x.pwd ELSE "none",
      fp |-> x.fp, options |-> x.options, ended |-> live /\ x.ended,
      cands |-> IF live THEN {PrintCandidate(c) : c \in Range(x.cands)} ELSE {},
      attrs |-> SelectSeq(x.attrs, LAMBDA a : a[1] # "msid-semantic"),
      entries |-> [i \in DOMAIN x.entries |->
        LET e == x.entries[i]
        IN [e EXCEPT !.attrs = SelectSeq(@, LAMBDA a : a[1] # "simulcast"
                                                       /\ ~(a[1] = "ssrc" /\ e.rids # <<>>)),
                     !.ssrcs = ShownSSRCs(e), !.cname = ShownNames(e)]]]

\* Whatever was done to a description, what the peer parses out of its SDP
\* tells the same as the description itself (roles, credentials, options,
\* candidates, entries with their directions, maps, parameters and SSRCs), and
\* the peer's list of SSRCs and of their names is exactly the one printed.
\* The ICE agent, given the application section only, learns the same
\* credentials and candidates even when no entry is left.
PeerReadsTheSame ==
  \E r \in {Received(d)}, a \in {Parsed(GenerateApplicationSdp(d)).x} :
    /\ Told(r) = Told(d)
    /\ a.ufrag = d.ufrag /\ a.pwd = d.pwd /\ a.fp = d.fp /\ a.ended = d.ended
    /\ {PrintCandidate(c) : c \in Range(a.cands)} = {PrintCandidate(c) : c \in Range(d.cands)}
    /\ \A i \in DOMAIN r.entries :
         LET e == r.entries[i]
         IN e.kind # "application" /\ e.rids = <<>> =>
              Range(e.ssrcs) = ShownSSRCs(e) /\ e.cname = ShownNames(e)

\* After any sequence of adding, repairing and removing codecs, and on the
\* peer that reads the result, a retransmission format names a codec that is
\* there and is no retransmission format itself, and payload types stay unique.
RtxHasPrimary ==
  \A i \in Media :
    LET e == d.entries[i]
    IN /\ \A p \in DOMAIN e.maps, o \in DynamicTypes :
            Contains(e.maps[p].fmtps, <<"apt", o>>) => o \in DOMAIN e.maps /\ e.maps[o].fmt # "rtx"
       /\ IsInjective(e.pts)

\* The answer lines up with the offer section by section: same kinds, mids and
\* removed sections, mirrored directions, the same formats, and nothing of the
\* offerer's SSRCs; the offerer, mirroring it again, finds its own directions.
AnswerLinesUp ==
  \E a \in {Received(Answered(d))} :
    /\ Len(a.entries) = Len(d.entries)
    /\ \A i \in DOMAIN d.entries :
         LET e == d.entries[i]
             b == a.entries[i]
         IN /\ b.kind = e.kind /\ b.mid = e.mid /\ b.removed = e.removed
            /\ b.pts = e.pts /\ b.maps = e.maps /\ b.ssrcs = <<>> /\ b.rtx = <<>>
            /\ e.kind # "application" =>
                 /\ b.dir = Mirror(e.dir) /\ Reciprocate(b).dir = e.dir
                 /\ \A j \in DOMAIN b.attrs : b.attrs[j][1] \notin {"ssrc", "rtcp-rsize"}
=============================================================================
