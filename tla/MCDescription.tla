--------------------------- MODULE MCDescription ---------------------------
EXTENDS Description
\* Session parts, and sections as another implementation writes them.
Heads == {<<>>,
          <<<<"o", "x">>, <<"a", "ice-ufrag", "us">>, <<"a", "fingerprint", "sha-256", "FS">>,
            <<"a", "ice-options", <<"ice2">>>>, <<"a", "extmap-allow-mixed">>>>,
          <<<<"a", "fingerprint", "md5", "FM">>, <<"a", "group", "BUNDLE", <<0>>>>,
            <<"a", "candidate", "f0", 3, "v4", "host">>>>,
          <<<<"a", "fingerprint", "sha-256", "malformed">>>>}
App(port, extra) == <<<<"m", "application", port, <<>>>>>> \o extra
Video(port, extra) == <<<<"m", "video", port, <<96, 97>>>>>> \o extra
AppParts == {<<>>,
  <<<<"a", "mid", 7>>, <<"a", "sctp-port", 5000>>, <<"a", "max-message-size", 64>>,
    <<"a", "setup", "active">>, <<"a", "ice-ufrag", "ua">>, <<"a", "ice-pwd", "pa">>,
    <<"a", "candidate", "f1", 9, "v6", "host">>, <<"a", "end-of-candidates">>>>,
  <<<<"a", "bundle-only">>, <<"a", "setup", "holdconn">>, <<"a", "fingerprint", "sha-256", "FA">>,
    <<"a", "sendrecv">>>>}
VideoParts == {<<>>,
  <<<<"b", 50>>, <<"a", "mid", 5>>, <<"a", "recvonly">>, <<"a", "rtcp-mux">>, <<"a", "rtcp-rsize">>,
    <<"a", "rtcp-fb", 96, "nack">>, <<"a", "rtpmap", 96, "VP8", 90000>>,
    <<"a", "rtpmap", 97, "rtx", 90000>>, <<"a", "fmtp", 97, <<"apt", 96>>>>,
    <<"a", "extmap", 1, "sendonly", "u1">>, <<"a", "extmap", 1, "unknown", "u3">>,
    <<"a", "ssrc", 1, "cname", "c1">>, <<"a", "ssrc", 1, "msid", "m1">>, <<"a", "ssrc", 12, "cname", "c1">>,
    <<"a", "ssrc-group", "FID", 1, 12>>, <<"a", "ssrc-group", "SIM", 1, 12>>,
    <<"a", "setup", "passive">>, <<"a", "ice-ufrag", "uv">>>>,
  <<<<"a", "rid", "r1", "send">>, <<"a", "simulcast", "send", <<"r1">>>>, <<"a", "inactive">>,
    <<"a", "ssrc", 12, "cname", "c1">>, <<"a", "candidate", "f2", 4, "v4", "srflx">>>>}
Sections == {App(p, a) : p \in {0, 9}, a \in AppParts} \cup {Video(p, a) : p \in {0, 9}, a \in VideoParts}
MCForeign == {h \o s \o t : h \in Heads, s \in Sections, t \in Sections \cup {<<>>}}
MCOwn == {<<>>, App(9, <<<<"a", "mid", 0>>>>)
               \o <<<<"m", "video", 9, <<96>>>>, <<"a", "mid", 1>>, <<"a", "sendrecv">>,
                    <<"a", "rtpmap", 96, "VP8", 90000>>, <<"a", "extmap", 1, "sendonly", "u1">>>>}
=============================================================================
