------------------------------- MODULE Handles -------------------------------
(***************************************************************************)
(* The handles of the C API (capi.cpp): every object the application       *)
(* creates or receives is an integer, found in a map under one global      *)
(* mutex, with a user pointer beside it.  Library threads run callbacks:   *)
(* each callback slot of an object has its own recursive mutex, and the    *)
(* callback first asks the registry for the user pointer.  The application *)
(* side is the HashLink binding (datachannel.c): it wraps every handle,    *)
(* stores the wrapper as user pointer and takes it back in a finalizer.    *)
(* Wrappers are named by the handle they wrap; the callback slots of one   *)
(* object are one slot here.  Tracks, web sockets and web socket servers   *)
(* have no wrapper in the binding: their owner frees its object when the   *)
(* delete function has returned.                                           *)
(* HashLink's collector is external: hl_add_root keeps the closures, and   *)
(* through them the wrapper, reachable, so that the real collector runs    *)
(* far fewer finalizers than Finalize allows.                              *)
(***************************************************************************)
EXTENDS Naturals, FiniteSets

CONSTANTS Libs,          \* the library threads
          MaxId,         \* bound on the handles of a run
          CleanupRaces   \* may rtcCleanup run while a callback is in progress?

ASSUME HandlesAssumption ==
  /\ MaxId \in Nat /\ CleanupRaces \in BOOLEAN
  /\ "nobody" \notin Libs

VARIABLES
  lastId,  \* the last handle given out
  kind,    \* [id -> kind of object], "none" if not yet used
  map,     \* the handles in peerConnectionMap ... webSocketServerMap
  ptr,     \* userPointerMap: Absent, 0 (nullptr) or the wrapper
  cb,      \* handles whose object has callbacks installed
  slot,    \* [id -> the thread that holds the slot's mutex, or Nobody]
  media,   \* [id -> the entries of the track in the three media maps]
  fresh,   \* handles the application has been given and has not wrapped
  wrapped, \* handles whose wrapper exists
  fin,     \* [id -> the steps of the finalizer already done]
  reg,     \* the registry mutex: "free", or "cleanup" while eraseAll holds it
  cleaned, \* eraseAll has run
  thr      \* [library thread -> what it is doing]

vars == <<lastId, kind, map, ptr, cb, slot, media, fresh, wrapped, fin, reg,
          cleaned, thr>>

Ids      == 1 .. MaxId
Nobody   == "nobody"
Absent   == MaxId + 1
Channels == {"dc", "tr", "ws"}
Parents  == [dc |-> {"pc"}, tr |-> {"pc"}, ws |-> {"srv"}]
Idle     == [at |-> "idle", id |-> 0, what |-> "event", child |-> 0, p |-> 0]
Locking  == {"emplace", "lookup", "set"}  \* next, the thread needs the registry
Freed(i) == "free" \in fin[i]

Init == /\ lastId = 0
        /\ kind = [i \in Ids |-> "none"]
        /\ ptr = [i \in Ids |-> Absent]
        /\ slot = [i \in Ids |-> Nobody]
        /\ fin = [i \in Ids |-> {}]
        /\ media = [i \in Ids |-> {}]
        /\ map = {} /\ cb = {} /\ fresh = {} /\ wrapped = {}
        /\ reg = "free" /\ cleaned = FALSE
        /\ thr = [t \in Libs |-> Idle]

-----------------------------------------------------------------------------
\* emplacePeerConnection ... emplaceWebSocketServer: the next handle, its
\* object of kind k, and a user pointer.
Emplace(k, p) ==
  /\ reg = "free" /\ lastId < MaxId
  /\ lastId' = lastId + 1
  /\ kind' = [kind EXCEPT ![lastId + 1] = k]
  /\ map' = map \cup {lastId + 1}
  /\ ptr' = [ptr EXCEPT ![lastId + 1] = p]

\* create_peer_connection: after rtcCreatePeerConnection the wrapper, the user
\* pointer and the callbacks; nothing can call back earlier.
MakePeerConnection(i) ==
  /\ wrapped' = wrapped \cup {i}
  /\ cb' = cb \cup {i}

CreatePeerConnection ==
  /\ Emplace("pc", lastId + 1)
  /\ MakePeerConnection(lastId + 1)
  /\ UNCHANGED <<media, slot, fresh, fin, reg, cleaned, thr>>

\* rtcCreateWebSocketServer installs onClient before its caller can set a user
\* pointer; rtcSetUserPointer follows in Wrap.
CreateWebSocketServer ==
  /\ Emplace("srv", 0)
  /\ fresh' = fresh \cup {lastId + 1}
  /\ cb' = cb \cup {lastId + 1}
  /\ UNCHANGED <<media, slot, wrapped, fin, reg, cleaned, thr>>

\* rtcCreateWebSocket(Ex): no parent, so the user pointer is nullptr.
CreateWebSocket ==
  /\ Emplace("ws", 0)
  /\ fresh' = fresh \cup {lastId + 1}
  /\ UNCHANGED <<media, cb, slot, wrapped, fin, reg, cleaned, thr>>

\* getPeerConnection, getTrack, getChannel ...: a function of the API copies the
\* shared pointer under the mutex of the registry and works without it.
Get(i, k) == reg = "free" /\ i \in map /\ kind[i] = k /\ fin[i] = {}

\* The user pointer a new channel of peer connection i is given: the one of i.
Inherited(i) == IF ptr[i] = Absent THEN 0 ELSE ptr[i]

\* rtcCreateDataChannel(Ex).
CreateDataChannel(i) ==
  /\ Get(i, "pc")
  /\ Emplace("dc", Inherited(i))
  /\ fresh' = fresh \cup {lastId + 1}
  /\ UNCHANGED <<media, cb, slot, wrapped, fin, reg, cleaned, thr>>

\* rtcAddTrack(Ex).
AddTrack(i) ==
  /\ Get(i, "pc")
  /\ Emplace("tr", Inherited(i))
  /\ fresh' = fresh \cup {lastId + 1}
  /\ UNCHANGED <<media, cb, slot, wrapped, fin, reg, cleaned, thr>>

\* A plausible slip: the wrapper trusts the inherited user pointer.
WrapTrusting(i) ==
  /\ i \in fresh /\ reg = "free"
  /\ fresh' = fresh \ {i}
  /\ wrapped' = wrapped \cup {i}
  /\ cb' = IF i \in map THEN cb \cup {i} ELSE cb
  /\ UNCHANGED <<media, lastId, kind, map, ptr, slot, fin, reg, cleaned, thr>>

\* hl_rtc_make_datachannel, or what the owner of another handle does with it:
\* rtcSetUserPointer, which does not ask whether the handle exists, and the
\* callbacks, which do.
Wrap(i) ==
  /\ i \in fresh /\ reg = "free"
  /\ fresh' = fresh \ {i}
  /\ wrapped' = wrapped \cup {i}
  /\ ptr' = [ptr EXCEPT ![i] = i]
  /\ cb' = IF i \in map THEN cb \cup {i} ELSE cb
  /\ UNCHANGED <<media, lastId, kind, map, slot, fin, reg, cleaned, thr>>

\* emplaceRtpConfig, emplaceRtcpReceivingSession, emplaceRtcpSrReporter: under
\* the registry's mutex, for a track that the same call has looked up.
EmplaceMedia(i, h) == media' = [media EXCEPT ![i] = @ \cup {h}]

\* rtcSet...Packetizer of track i: its RTP configuration goes into a map of its
\* own, under the handle of the track.
SetPacketizer(i) ==
  /\ Get(i, "tr")
  /\ EmplaceMedia(i, "config")
  /\ UNCHANGED <<lastId, kind, map, ptr, cb, slot, fresh, wrapped, fin, reg,
                 cleaned, thr>>

\* rtcChainRtcpReceivingSession and rtcChainRtcpSrReporter; a reporter needs the
\* configuration.
ChainHandler(i, h) ==
  /\ Get(i, "tr")
  /\ h = "reporter" => "config" \in media[i]
  /\ EmplaceMedia(i, h)
  /\ UNCHANGED <<lastId, kind, map, ptr, cb, slot, fresh, wrapped, fin, reg,
                 cleaned, thr>>

-----------------------------------------------------------------------------
\* Library threads.

\* synchronized_callback::operator(): thread t takes the slot of i and calls.
\* (The application's thread is one of them when it calls rtcClose.)
\* "child": a new data channel, track or client is reported; "closed": the one
\* after which the channel drops its callbacks.
Enter(t, i, what) ==
  /\ thr[t] = Idle /\ i \in cb /\ slot[i] = Nobody
  /\ what = "child" => kind[i] \in {"pc", "srv"} /\ lastId < MaxId
  /\ what = "closed" => kind[i] \in {"dc", "tr"}
  /\ slot' = [slot EXCEPT ![i] = t]
  /\ thr' = [thr EXCEPT ![t] = [Idle EXCEPT
               !.at = IF what = "child" THEN "emplace" ELSE "lookup",
               !.id = i, !.what = what]]
  /\ UNCHANGED <<media, lastId, kind, map, ptr, cb, fresh, wrapped, fin, reg,
                 cleaned>>

\* rtcSetDataChannelCallback, rtcSetTrackCallback, onClient: the handle of the
\* child comes first.
EmplaceChild(t) ==
  /\ thr[t].at = "emplace"
  /\ \E k \in {k \in Channels : kind[thr[t].id] \in Parents[k]} : Emplace(k, 0)
  /\ thr' = [thr EXCEPT ![t].at = "lookup", ![t].child = lastId + 1]
  /\ UNCHANGED <<media, cb, slot, fresh, wrapped, fin, reg, cleaned>>

\* The end of a callback: the mutex of the slot, and of a closed channel all
\* callbacks.
Leave(t) ==
  /\ slot' = [slot EXCEPT ![thr[t].id] = Nobody]
  /\ thr' = [thr EXCEPT ![t] = Idle]
  /\ cb' = IF thr[t].what = "closed" THEN cb \ {thr[t].id} ELSE cb

\* getUserPointer: without an entry the callback is not called.
Lookup(t) ==
  /\ thr[t].at = "lookup" /\ reg = "free"
  /\ \/ /\ ptr[thr[t].id] = Absent
        /\ Leave(t)
     \/ /\ ptr[thr[t].id] # Absent
        /\ thr' = [thr EXCEPT ![t].at = IF @ = "lookup" /\ thr[t].child # 0
                                          THEN "set" ELSE "call",
                              ![t].p = ptr[thr[t].id]]
        /\ UNCHANGED <<cb, slot>>
  /\ UNCHANGED <<media, lastId, kind, map, ptr, fresh, wrapped, fin, reg,
                 cleaned>>

\* rtcSetUserPointer(dc, *ptr); for a client of a server the code passes the
\* handle of the server, not the one of the client.
SetChildPointer(t) ==
  /\ thr[t].at = "set" /\ reg = "free"
  /\ LET target == IF kind[thr[t].id] = "srv" THEN thr[t].id ELSE thr[t].child
     IN  ptr' = [ptr EXCEPT ![target] = thr[t].p]
  /\ thr' = [thr EXCEPT ![t].at = "call"]
  /\ UNCHANGED <<media, lastId, kind, map, cb, slot, fresh, wrapped, fin, reg,
                 cleaned>>

\* The callback of the application, called with the user pointer.  It queues
\* an event (EventQueue); a child thereby becomes known to the application.
Call(t) ==
  /\ thr[t].at = "call"
  /\ fresh' = IF thr[t].child = 0 THEN fresh ELSE fresh \cup {thr[t].child}
  /\ Leave(t)
  /\ UNCHANGED <<media, lastId, kind, map, ptr, wrapped, fin, reg, cleaned>>

-----------------------------------------------------------------------------
\* The finalizers and the delete functions.

\* A plausible slip: the callbacks are taken away without the slot's mutex.
ResetUnlocked(i) ==
  /\ i \in wrapped /\ fin[i] \cap {"reset"} = {} /\ reg = "free"
  /\ cb' = cb \ {i}
  /\ fin' = [fin EXCEPT ![i] = @ \cup {"reset"}]
  /\ UNCHANGED <<media, lastId, kind, map, ptr, slot, fresh, wrapped, reg,
                 cleaned, thr>>

\* rtcSet...Callback(id, NULL) in the finalizers of pc and dc, resetCallbacks in
\* rtcDeleteWebSocket, onClient(nullptr) in rtcDeleteWebSocketServer, close and
\* ~Channel in rtcDeleteTrack: each waits for the mutex of the slot.
Reset(i) ==
  /\ i \in wrapped /\ fin[i] \cap {"reset"} = {} /\ reg = "free"
  /\ slot[i] = Nobody
  /\ cb' = cb \ {i}
  /\ fin' = [fin EXCEPT ![i] = @ \cup {"reset"}]
  /\ UNCHANGED <<media, lastId, kind, map, ptr, slot, fresh, wrapped, reg,
                 cleaned, thr>>

\* eraseChannel and its kin: the object, its media entries and the user pointer;
\* an unknown handle throws and leaves the user pointer alone.
EraseChannel(i) ==
  /\ map' = map \ {i}
  /\ media' = [media EXCEPT ![i] = {}]
  /\ ptr' = IF i \in map THEN [ptr EXCEPT ![i] = Absent] ELSE ptr

\* rtcDelete...: close and erase.  A track that was closed before resets its callbacks
\* only when the last reference goes, after the erase.
Erase(i) ==
  /\ i \in wrapped /\ "erase" \notin fin[i] /\ reg = "free"
  /\ kind[i] = "tr" \/ "reset" \in fin[i]
  /\ EraseChannel(i)
  /\ fin' = [fin EXCEPT ![i] = @ \cup {"erase"}]
  /\ UNCHANGED <<lastId, kind, cb, slot, fresh, wrapped, reg, cleaned, thr>>

\* The finalizer returns and the memory of the wrapper goes.
Finalized(i) ==
  /\ fin[i] = {"reset", "erase"}
  /\ fin' = [fin EXCEPT ![i] = @ \cup {"free"}]
  /\ UNCHANGED <<media, lastId, kind, map, ptr, cb, slot, fresh, wrapped, reg,
                 cleaned, thr>>

\* rtcCleanup: eraseAll takes the mutex of the registry and keeps it while the
\* maps are cleared ...
CleanupBegins ==
  /\ reg = "free" /\ ~cleaned /\ lastId > 0
  /\ \A i \in Ids : fin[i] \in {{}, {"reset", "erase", "free"}}
  /\ CleanupRaces \/ \A t \in Libs : thr[t] = Idle
  /\ reg' = "cleanup"
  /\ UNCHANGED <<media, lastId, kind, map, ptr, cb, slot, fresh, wrapped, fin,
                 cleaned, thr>>

\* ... the last reference to a channel goes: ~Channel resets its callbacks and
\* for that needs the mutex of each slot ...
CleanupDrops(i) ==
  /\ reg = "cleanup" /\ i \in map
  /\ kind[i] \in Channels => slot[i] = Nobody
  /\ map' = map \ {i}
  /\ cb' = IF kind[i] \in Channels THEN cb \ {i} ELSE cb
  /\ UNCHANGED <<media, lastId, kind, ptr, slot, fresh, wrapped, fin, reg,
                 cleaned, thr>>

\* ... and the user pointers go last.
CleanupEnds ==
  /\ reg = "cleanup" /\ map = {}
  /\ ptr' = [i \in Ids |-> Absent]
  /\ media' = [i \in Ids |-> {}]
  /\ reg' = "free" /\ cleaned' = TRUE
  /\ UNCHANGED <<lastId, kind, map, cb, slot, fresh, wrapped, fin, thr>>

Next == \/ CreatePeerConnection \/ CreateWebSocketServer \/ CreateWebSocket
        \/ CleanupBegins \/ CleanupEnds
        \/ \E i \in Ids : \/ CreateDataChannel(i) \/ AddTrack(i) \/ Wrap(i)
                          \/ SetPacketizer(i) \/ Reset(i) \/ Erase(i)
                          \/ Finalized(i) \/ CleanupDrops(i)
                          \/ \E h \in {"session", "reporter"} : ChainHandler(i, h)
        \/ \E t \in Libs :
             \/ EmplaceChild(t) \/ Lookup(t) \/ SetChildPointer(t) \/ Call(t)
             \/ \E i \in Ids, what \in {"event", "child", "closed"} :
                  Enter(t, i, what)

Spec == Init /\ [][Next]_vars

-----------------------------------------------------------------------------
\* A callback never runs with a pointer to a wrapper whose finalizer has
\* returned (hl_rtc_datachannel_finalize, hl_rtc_peerconnection_finalize and
\* the delete functions of capi.cpp), although the finalizer, the callbacks and
\* the registry are on different threads.
NoFreedPointer ==
  \A t \in Libs : /\ thr[t].at \in {"set", "call"}
                  /\ thr[t].p \in Ids
                  => ~Freed(thr[t].p)

\* The callback of a channel or a peer connection gets the wrapper of its own
\* handle, not the one a new channel inherited from its peer connection ("It
\* gets messed up so we need to re-set it", datachannel.c:145).
PointerIsOwn ==
  \A t \in Libs : (thr[t].at = "call" /\ kind[thr[t].id] # "srv")
                  => thr[t].p = thr[t].id

\* Nothing is left behind in the registry. A channel that the library reported
\* stays in the maps only while somebody will give it up: the thread that
\* reports it, the application that has not wrapped it yet, or the owner of its
\* wrapper (rtcSetDataChannelCallback and onClient emplace the handle before
\* they look for the user pointer). And until rtcCleanup a handle has a user
\* pointer exactly while it names an object, and media entries only then: no
\* late rtcSetUserPointer of a callback brings an erased entry back.
NoOrphan ==
  /\ \A i \in map : \/ i \in fresh \cup wrapped
                    \/ \E t \in Libs : thr[t].child = i
                    \/ cleaned
  /\ ~cleaned /\ reg = "free" =>
       \A i \in Ids : /\ (ptr[i] # Absent) <=> (i \in map)
                      /\ media[i] # {} => i \in map

\* While rtcCleanup clears the maps it never waits for a callback that waits
\* for it.
CleanupIsNotBlocked ==
  reg = "cleanup" => \A i \in map, t \in Libs :
    ~(kind[i] \in Channels /\ slot[i] = t /\ thr[t].at \in Locking)
=============================================================================
