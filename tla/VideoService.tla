---------------------------- MODULE VideoService ----------------------------
(***************************************************************************)
(* The service of src/src/VideoService.cpp together with the bookkeeping   *)
(* of src/src/common/TcpServer.cpp it lives on: clients connect, send one  *)
(* request string ("<resource id>,<index>,<clip>"), and from then on get   *)
(* the frames of that video.  All viewers of one string share one video    *)
(* thread (ThreadFun), whose decoder calls DecodeVideoCallBack from a      *)
(* thread of the vendor's SDK.                                             *)
(*                                                                         *)
(* Actors: the libuv loop thread (every callback of the server and of the  *)
(* connections), one video thread per first request of a string, one       *)
(* decoder per video thread, the main thread (it initialises the platform  *)
(* only after the server is up) and the clients.                           *)
(*                                                                         *)
(* Request strings are natural numbers: their order is the order of the    *)
(* std::map keys, 0 is the empty string.  What a connection writes to its  *)
(* socket is the subject of AcceptClient; here a frame is only remembered  *)
(* as queued.                                                              *)
(***************************************************************************)
EXTENDS Integers, FiniteSets, Sequences

CONSTANTS
    MaxClient,    \* bound: connections accepted in one run of the server
    Key,          \* the request strings clients send
    Video,        \* those SearchVideo finds in C7Platform::resourceMap
    Thread,       \* bound: video threads ever created
    NoThread,     \* the handle 0 of a thread that was not created
    Absent,       \* no entry in puid_thread_map
    MaxRequests,  \* bound: strings one connection sends
    Failure       \* the calls to the platform that may fail

FailureKind == {"create", "stream", "callback", "preview", "receive", "convert", "encode"}
FaultKind   == {"client", "resource", "stream", "baton", "close", "exit", "race"}

ASSUME ConstantsAssumption ==
    /\ MaxClient \in Nat
    /\ Key \subseteq Nat \ {0}
    /\ Video \subseteq Key
    /\ NoThread \notin Thread /\ Absent \notin Thread /\ NoThread # Absent
    /\ MaxRequests \in Nat
    /\ Failure \subseteq FailureKind

VARIABLES
    ready,        \* C7Platform::Init has returned (main thread)
    s_id,         \* last client id given out
    conn,         \* life of each AcceptClient object and its handles
    reading,      \* connections libuv still reads from
    asked,        \* AcceptClient::isuseraskforclosed
    told,         \* connections that were sent an error code
    frames,       \* kinds of frames pushed to send_msg_pool of a connection
    requested,    \* strings received on a connection, in order
    recv_msg,     \* AcceptClient::recv_msg, with resource_puid and index
    threadId,     \* AcceptClient::threadId
    loop,         \* where the loop thread is inside a callback
    puid_count,   \* puid_count_map
    puid_client,  \* puid_client_map, a set of entries
    puid_thread,  \* puid_thread_map
    vpc,          \* where each video thread is in ThreadFun
    owner,        \* its argument, the client whose request created it
    stream,       \* the video it has a stream of (hStreamIV), or Stopped
    callback,     \* the string its decoder calls back with
    tmp,          \* the string it files its baton under
    vkey,         \* the string whose count it watches (puid_count)
    closing,      \* the viewers it has still to close
    dpc,          \* where its decoder is in DecodeVideoCallBack
    baton,        \* the baton the decoder uses
    sending,      \* the viewers it has still to send the frame to
    batons,       \* render_baton_t objects allocated and not freed
    baton_map,    \* render_baton_map
    fault         \* why the process ended, if it did

net      == <<s_id, conn, reading, asked, told, frames>>
request  == <<requested, recv_msg, threadId>>
registry == <<puid_count, puid_client, puid_thread>>
video    == <<vpc, owner, stream, callback, tmp, vkey, closing>>
decoder  == <<dpc, baton, sending>>
render   == <<batons, baton_map>>
service  == <<ready, net, request, loop, registry>>
threads  == <<video, decoder, render, fault>>
vars     == <<ready, net, request, loop, registry, video, decoder, render, fault>>

Client   == 1..MaxClient
NoClient == 0
NoKey    == 0
Stopped  == -1   \* a handle that was stopped and not set to NULL
Handle   == Thread \cup {NoThread}

Entry     == [key : Key, client : Client, nth : Nat]
FrameKind == [key : Key, video : Key]

LoopPc  == {"idle", "register", "search", "unsubscribe", "join", "delete", "crashed"}
VideoPc == {"unused", "start", "render", "failed", "setup", "count",
            "loop", "stop", "lock", "closing", "done"}
DecPc   == {"idle", "find", "convert", "copy", "lock", "send"}

Idle == [pc |-> "idle", client |-> NoClient, key |-> NoKey]

TypeOK ==
    /\ ready \in BOOLEAN
    /\ s_id \in 0..MaxClient
    /\ conn \in [Client -> {"none", "open", "closing", "closed", "freed"}]
    /\ reading \subseteq Client /\ asked \subseteq Client /\ told \subseteq Client
    /\ frames \in [Client -> SUBSET FrameKind]
    /\ requested \in [Client -> Seq(Key)]
    /\ recv_msg \in [Client -> Key \cup {NoKey}]
    /\ threadId \in [Client -> Handle]
    /\ loop \in [pc : LoopPc, client : Client \cup {NoClient}, key : Key \cup {NoKey}]
    /\ puid_count \in [Key -> Int]
    /\ puid_client \subseteq Entry
    /\ puid_thread \in [Key -> Handle \cup {Absent}]
    /\ vpc \in [Thread -> VideoPc]
    /\ owner \in [Thread -> Client \cup {NoClient}]
    /\ stream \in [Thread -> Key \cup {NoKey, Stopped}]
    /\ callback \in [Thread -> Key \cup {NoKey}]
    /\ tmp \in [Thread -> Key \cup {NoKey}]
    /\ vkey \in [Thread -> Key \cup {NoKey}]
    /\ closing \in [Thread -> SUBSET Client]
    /\ dpc \in [Thread -> DecPc]
    /\ baton \in [Thread -> Handle]
    /\ sending \in [Thread -> SUBSET Client]
    /\ batons \subseteq Thread
    /\ baton_map \in [Key \cup {NoKey} -> Handle]
    /\ fault \in FaultKind \cup {"none"}

Init ==
    /\ ready = FALSE
    /\ s_id = 0
    /\ conn = [c \in Client |-> "none"]
    /\ reading = {} /\ asked = {} /\ told = {}
    /\ frames = [c \in Client |-> {}]
    /\ requested = [c \in Client |-> <<>>]
    /\ recv_msg = [c \in Client |-> NoKey]
    /\ threadId = [c \in Client |-> NoThread]
    /\ puid_count = [k \in Key |-> 0]
    /\ puid_client = {}
    /\ puid_thread = [k \in Key |-> Absent]
    /\ vpc = [t \in Thread |-> "unused"]
    /\ owner = [t \in Thread |-> NoClient]
    /\ stream = [t \in Thread |-> NoKey]
    /\ callback = [t \in Thread |-> NoKey]
    /\ tmp = [t \in Thread |-> NoKey]
    /\ vkey = [t \in Thread |-> NoKey]
    /\ closing = [t \in Thread |-> {}]
    /\ dpc = [t \in Thread |-> "idle"]
    /\ baton = [t \in Thread |-> NoThread]
    /\ sending = [t \in Thread |-> {}]
    /\ batons = {}
    /\ baton_map = [k \in Key \cup {NoKey} |-> NoThread]
    /\ loop = Idle
    /\ fault = "none"

-----------------------------------------------------------------------------
\* The loop thread goes on with the same callback.
At(place) == [pc |-> place, client |-> loop.client, key |-> loop.key]

\* Mutant: the entry is erased as soon as the connection starts to close.
Connected_OnlyOpen == {c \in Client : conn[c] = "open"}

\* Mutant: delete leaves the entry of clients_list.
Connected_NotErased == {c \in Client : conn[c] # "none"}

\* clients_list: an object is listed from AcceptConnection to its delete.
Connected == {c \in Client : conn[c] \in {"open", "closing", "closed"}}

\* Mutant: the id compared is that of the last connection accepted.
EntriesOf_LastId(c) == {e \in puid_client : e.client = s_id}

\* What ClientClosed looks for: the entries of one client.
EntriesOf(c) == {e \in puid_client : e.client = c}

\* Mutant: the walk starts at begin() and takes every entry.
ViewersOf_All(k) == {e.client : e \in puid_client}

\* Mutant: viewers that were asked to close are not counted.
ViewersOf_NotAsked(k) == {e.client : e \in {f \in puid_client : f.key = k}} \ asked

\* find(k) and the count(k) entries from there on.
ViewersOf(k) == {e.client : e \in {f \in puid_client : f.key = k}}

\* Mutant: only the first viewer of a string is counted.
CountUp_First(k) == [puid_count EXCEPT ![k] = IF @ = 0 THEN 1 ELSE @]

CountUp(k) == [puid_count EXCEPT ![k] = @ + 1]

\* Mutant: the loop of ThreadFun goes on at 0.
Watched_AtZero(k) == puid_count[k] >= 0

\* The condition of ThreadFun's loop.
Watched(k) == puid_count[k] >= 1

Live(t) == vpc[t] \notin {"unused", "done"}

\* mutex_puid_client: held by the loop while it joins, by a video thread
\* while it closes the viewers, by a decoder while it sends a frame.
RegistryFree ==
    /\ loop.pc # "join"
    /\ \A t \in Thread : vpc[t] # "closing" /\ dpc[t] # "send"

\* Mutant: the argument of the thread is where the last connection is kept.
Pointee_Last(c) == {s_id}

\* The objects that may lie where the video thread's pointer to its first
\* client points: that client, or, once it was deleted, its stale bytes or
\* a connection accepted later in the same memory.
Pointee(c) == {c} \cup (IF c \in Connected THEN {} ELSE {d \in Connected : d > c})

\* The process is gone, and with it everything it held.
Crash(why) ==
    /\ ready' = FALSE
    /\ s_id' = 0
    /\ conn' = [c \in Client |-> "none"]
    /\ reading' = {} /\ asked' = {} /\ told' = {}
    /\ frames' = [c \in Client |-> {}]
    /\ requested' = [c \in Client |-> <<>>]
    /\ recv_msg' = [c \in Client |-> NoKey]
    /\ threadId' = [c \in Client |-> NoThread]
    /\ puid_count' = [k \in Key |-> 0]
    /\ puid_client' = {}
    /\ puid_thread' = [k \in Key |-> Absent]
    /\ vpc' = [t \in Thread |-> "unused"]
    /\ owner' = [t \in Thread |-> NoClient]
    /\ stream' = [t \in Thread |-> NoKey]
    /\ callback' = [t \in Thread |-> NoKey]
    /\ tmp' = [t \in Thread |-> NoKey]
    /\ vkey' = [t \in Thread |-> NoKey]
    /\ closing' = [t \in Thread |-> {}]
    /\ dpc' = [t \in Thread |-> "idle"]
    /\ baton' = [t \in Thread |-> NoThread]
    /\ sending' = [t \in Thread |-> {}]
    /\ batons' = {}
    /\ baton_map' = [k \in Key \cup {NoKey} |-> NoThread]
    /\ loop' = [pc |-> "crashed", client |-> NoClient, key |-> NoKey]
    /\ fault' = why

-----------------------------------------------------------------------------
(* The main thread: C7Platform::Init, after the server was started.        *)

PlatformReady ==
    /\ ~ready /\ fault = "none"
    /\ ready' = TRUE
    /\ UNCHANGED <<net, request, loop, registry, threads>>

(* The loop thread.  A callback runs from an idle loop to an idle loop.    *)

\* Mutant: the id given out is s_id++ and not ++s_id.
AcceptConnection_PostIncrement ==
    /\ loop.pc = "idle"
    /\ s_id < MaxClient
    /\ s_id' = s_id + 1
    /\ conn' = [conn EXCEPT ![s_id] = "open"]
    /\ reading' = reading \cup {s_id}
    /\ UNCHANGED <<ready, asked, told, frames, request, loop, registry, threads>>

AcceptConnection ==
    /\ loop.pc = "idle"
    /\ s_id < MaxClient
    /\ s_id' = s_id + 1
    /\ conn' = [conn EXCEPT ![s_id + 1] = "open"]
    /\ reading' = reading \cup {s_id + 1}
    /\ UNCHANGED <<ready, asked, told, frames, request, loop, registry, threads>>

\* End of file or an error: the connection asks to be closed.
AfterRecvError(c) ==
    /\ loop.pc = "idle"
    /\ c \in reading
    /\ reading' = reading \ {c}
    /\ asked' = asked \cup {c}
    /\ UNCHANGED <<ready, s_id, conn, told, frames, request, loop, registry,
                   threads>>

\* ReadCB up to the release of mutex_puid_count.
ReadCB_Count(c, k) ==
    /\ loop.pc = "idle"
    /\ c \in reading
    /\ Len(requested[c]) < MaxRequests
    /\ requested' = [requested EXCEPT ![c] = Append(@, k)]
    /\ puid_count' = CountUp(k)
    /\ loop' = [pc |-> "register", client |-> c, key |-> k]
    /\ UNCHANGED <<ready, net, recv_msg, threadId, puid_client, puid_thread,
                   threads>>

\* The section under mutex_puid_client.  The handle is stored before the
\* thread is created; std::map::insert keeps an existing entry.
ReadCB_Register ==
    LET c == loop.client
        k == loop.key
        new == [key |-> k, client |-> c, nth |-> Len(requested[c])]
    IN  /\ loop.pc = "register"
        /\ RegistryFree
        /\ puid_client' = puid_client \cup {new}
        /\ \/ /\ ViewersOf(k) = {}
              /\ recv_msg' = [recv_msg EXCEPT ![c] = k]
              /\ puid_thread' = [puid_thread EXCEPT
                                   ![k] = IF @ = Absent THEN threadId[c] ELSE @]
              /\ loop' = At("search")
           \/ /\ ViewersOf(k) # {}
              /\ loop' = Idle
              /\ UNCHANGED <<recv_msg, puid_thread>>
        /\ UNCHANGED <<ready, net, requested, threadId, puid_count, threads>>

\* SearchVideo and what follows.  Before the platform is ready the map may
\* not hold the video yet.  The result of uv_thread_create is not looked at.
ReadCB_Start ==
    LET c == loop.client
        k == loop.key
    IN  /\ loop.pc = "search"
        /\ loop' = Idle
        /\ \/ /\ k \in Video
              /\ \E t \in Thread :
                    /\ vpc[t] = "unused"
                    /\ vpc' = [vpc EXCEPT ![t] = "start"]
                    /\ owner' = [owner EXCEPT ![t] = c]
                    /\ threadId' = [threadId EXCEPT ![c] = t]
              /\ UNCHANGED <<asked, told>>
           \/ /\ k \in Video
              /\ "create" \in Failure \/ \A t \in Thread : vpc[t] # "unused"
              /\ UNCHANGED <<asked, told, threadId, vpc, owner>>
           \/ /\ k \notin Video \/ ~ready
              /\ told' = told \cup {c}
              /\ asked' = asked \cup {c}
              /\ UNCHANGED <<threadId, vpc, owner>>
        /\ UNCHANGED <<ready, s_id, conn, reading, frames, requested, recv_msg,
                       registry, stream, callback, tmp, vkey, closing, decoder,
                       render, fault>>

\* AcceptClient::PrepareCB finds the request to close: uv_close stops reads.
PrepareCB(c) ==
    /\ loop.pc = "idle"
    /\ conn[c] = "open" /\ c \in asked
    /\ conn' = [conn EXCEPT ![c] = "closing"]
    /\ reading' = reading \ {c}
    /\ UNCHANGED <<ready, s_id, asked, told, frames, request, loop, registry,
                   threads>>

\* The second handle has closed; the callback goes on into ClientClosed.
AfterClientClose(c) ==
    /\ loop.pc = "idle"
    /\ conn[c] = "closing"
    /\ conn' = [conn EXCEPT ![c] = "closed"]
    /\ asked' = asked \ {c}
    /\ loop' = [pc |-> "unsubscribe", client |-> c, key |-> NoKey]
    /\ UNCHANGED <<ready, s_id, reading, told, frames, request, registry, threads>>

\* ClientClosed, under mutex_puid_client: erase the first entry of the
\* client in key order, and only that one.
ClientClosed_Unsubscribe ==
    LET c == loop.client IN
    /\ loop.pc = "unsubscribe"
    /\ RegistryFree
    /\ \/ /\ EntriesOf(c) = {}
          /\ loop' = At("delete")
          /\ UNCHANGED <<puid_client, puid_count>>
       \/ \E e \in EntriesOf(c) :
            /\ \A f \in EntriesOf(c) : e.key <= f.key
            /\ puid_client' = puid_client \ {e}
            /\ puid_count' = [puid_count EXCEPT ![e.key] = @ - 1]
            /\ loop' = [pc |-> IF puid_count[e.key] = 1 /\ puid_thread[e.key] # Absent
                                THEN "join" ELSE "delete",
                         client |-> c, key |-> e.key]
    /\ UNCHANGED <<ready, net, request, puid_thread, threads>>

\* Mutant: the join waits for the thread that serves the string.
JoinReturns_Serving(h) ==
    \A t \in Thread : vkey[t] = loop.key => ~Live(t)

\* A thread handle is waited for; the handle 0 is an error at once.
JoinReturns(h) == h \in Thread => vpc[h] = "done"

\* uv_thread_join, still under the mutex.
ClientClosed_Join ==
    LET h == puid_thread[loop.key] IN
    /\ loop.pc = "join"
    /\ JoinReturns(h)
    /\ puid_thread' = [puid_thread EXCEPT ![loop.key] = Absent]
    /\ loop' = At("delete")
    /\ UNCHANGED <<ready, net, request, puid_count, puid_client, threads>>

ClientClosed_Delete ==
    LET c == loop.client IN
    /\ loop.pc = "delete"
    /\ conn' = [conn EXCEPT ![c] = "freed"]
    /\ asked' = asked \ {c}
    /\ loop' = Idle
    /\ UNCHANGED <<ready, s_id, reading, told, frames, request, registry, threads>>

-----------------------------------------------------------------------------
(* A video thread: ThreadFun.                                              *)

Goto(t, from, to) == vpc[t] = from /\ vpc' = [vpc EXCEPT ![t] = to]

\* GetIV opens the stream of the client's resource.
GetIV_StartStream(t) ==
    /\ \/ /\ Goto(t, "start", "render")
          /\ \E p \in Pointee(owner[t]) :
                /\ recv_msg[p] \in Video
                /\ stream' = [stream EXCEPT ![t] = recv_msg[p]]
       \/ /\ "stream" \in Failure
          /\ Goto(t, "start", "failed")
          /\ UNCHANGED stream
    /\ UNCHANGED <<service, owner, callback, tmp, vkey, closing, decoder, render,
                   fault>>

\* GetIV gives the decoder its callback, with the client's string as context.
\* If that fails it stops the stream and leaves the handle as it is.
GetIV_Render(t) ==
    /\ vpc[t] = "render"
    /\ \E p \in Pointee(owner[t]) :
        /\ recv_msg[p] # NoKey
        /\ \/ /\ vpc' = [vpc EXCEPT ![t] = "setup"]
              /\ callback' = [callback EXCEPT ![t] = recv_msg[p]]
              /\ UNCHANGED stream
           \/ /\ "callback" \in Failure
              /\ vpc' = [vpc EXCEPT ![t] = "failed"]
              /\ stream' = [stream EXCEPT ![t] = Stopped]
              /\ UNCHANGED callback
           \/ /\ "preview" \in Failure
              /\ vpc' = [vpc EXCEPT ![t] = "failed"]
              /\ callback' = [callback EXCEPT ![t] = recv_msg[p]]
              /\ UNCHANGED stream
    /\ UNCHANGED <<service, owner, tmp, vkey, closing, decoder, render, fault>>

\* The client is sent the error code and asked to close; ThreadFun goes on.
ReportFailure(t) ==
    /\ Goto(t, "failed", "setup")
    /\ \E p \in Pointee(owner[t]) :
        /\ told' = told \cup {p}
        /\ asked' = IF p \in Connected THEN asked \cup {p} ELSE asked
    /\ UNCHANGED <<ready, s_id, conn, reading, frames, request, loop, registry,
                   owner, stream, callback, tmp, vkey, closing, decoder, render,
                   fault>>

\* A new baton; insert leaves an existing one of the same string in place.
SetupBaton(t) ==
    /\ Goto(t, "setup", "count")
    /\ batons' = batons \cup {t}
    /\ \E p \in Pointee(owner[t]) :
        /\ tmp' = [tmp EXCEPT ![t] = recv_msg[p]]
        /\ baton_map' = [baton_map EXCEPT ![recv_msg[p]] = IF @ = NoThread THEN t ELSE @]
    /\ UNCHANGED <<service, owner, stream, callback, vkey, closing, decoder, fault>>

FindCount(t) ==
    /\ Goto(t, "count", "loop")
    /\ \E p \in Pointee(owner[t]) :
        /\ recv_msg[p] # NoKey
        /\ vkey' = [vkey EXCEPT ![t] = recv_msg[p]]
    /\ UNCHANGED <<service, owner, stream, callback, tmp, closing, decoder, render,
                   fault>>

\* The frame loop: C7_ReceiveFrame, and VADR_PumpVideoFrame wakes the
\* decoder.  A wait for the next frame changes nothing.
ReceiveVideo(t) ==
    /\ vpc[t] = "loop"
    /\ Watched(vkey[t])
    /\ stream[t] \in Key /\ callback[t] # NoKey
    /\ dpc[t] = "idle"
    /\ dpc' = [dpc EXCEPT ![t] = "find"]
    /\ UNCHANGED <<service, video, baton, sending, render, fault>>

\* No viewer is counted any more, or the stream ends or fails (a frame that
\* is not video, or an error): leave the loop.
LeaveLoop(t) ==
    /\ Goto(t, "loop", "stop")
    /\ ~Watched(vkey[t]) \/ stream[t] \notin Key \/ "receive" \in Failure
    /\ UNCHANGED <<service, owner, stream, callback, tmp, vkey, closing, decoder,
                   render, fault>>

\* Mutant: a callback may still run after VADR_Close.
StopStream_Async(t) ==
    /\ Goto(t, "stop", "lock")
    /\ stream' = [stream EXCEPT ![t] = NoKey]
    /\ UNCHANGED <<service, owner, callback, tmp, vkey, closing, decoder, render,
                   fault>>

\* C7_StopStream, VADR_StopPreview, VADR_Close: no callback runs after it.
StopStream(t) ==
    /\ Goto(t, "stop", "lock")
    /\ dpc[t] = "idle"
    /\ stream' = [stream EXCEPT ![t] = NoKey]
    /\ callback' = [callback EXCEPT ![t] = NoKey]
    /\ UNCHANGED <<service, owner, tmp, vkey, closing, decoder, render, fault>>

LockViewers(t) ==
    /\ Goto(t, "lock", "closing")
    /\ RegistryFree
    /\ closing' = [closing EXCEPT ![t] = ViewersOf(vkey[t])]
    /\ UNCHANGED <<service, owner, stream, callback, tmp, vkey, decoder, render,
                   fault>>

\* CloseClient, for one of the ids under the mutex: an id that is not in
\* clients_list dereferences clients_list.end().
AskToClose(t, c) ==
    /\ c \in Connected
    /\ closing' = [closing EXCEPT ![t] = @ \ {c}]
    /\ asked' = asked \cup {c}
    /\ UNCHANGED <<ready, s_id, conn, reading, told, frames, request, loop, registry,
                   vpc, owner, stream, callback, tmp, vkey, decoder, render, fault>>

CloseClient(t, c) ==
    /\ vpc[t] = "closing"
    /\ c \in closing[t]
    /\ AskToClose(t, c) \/ (c \notin Connected /\ Crash("close"))

\* The baton filed under tmp is freed; the mutex is released, the thread ends.
FreeBaton(t) ==
    /\ Goto(t, "closing", "done")
    /\ closing[t] = {}
    /\ batons' = batons \ {baton_map[tmp[t]]}
    /\ baton_map' = [baton_map EXCEPT ![tmp[t]] = NoThread]
    /\ owner' = [owner EXCEPT ![t] = NoClient]
    /\ tmp' = [tmp EXCEPT ![t] = NoKey]
    /\ vkey' = [vkey EXCEPT ![t] = NoKey]
    /\ UNCHANGED <<service, stream, callback, closing, decoder, fault>>

-----------------------------------------------------------------------------
(* A decoder: DecodeVideoCallBack.                                         *)

Decode(t, from, to) == dpc[t] = from /\ dpc' = [dpc EXCEPT ![t] = to]

FindBaton(t) ==
    /\ Decode(t, "find", "convert")
    /\ baton_map[callback[t]] # NoThread
    /\ baton' = [baton EXCEPT ![t] = baton_map[callback[t]]]
    /\ UNCHANGED <<service, video, sending, render, fault>>

Convert(t) ==
    /\ \/ Decode(t, "convert", "copy")
       \/ "convert" \in Failure /\ Decode(t, "convert", "idle")
    /\ baton' = [baton EXCEPT ![t] = NoThread]
    /\ UNCHANGED <<service, video, sending, render, fault>>

\* The picture is converted, but the encoder returns nothing: exit(0).
EncodeFails(t) ==
    /\ dpc[t] = "convert"
    /\ "encode" \in Failure
    /\ Crash("exit")

\* The copy of puid_client_map, taken before the mutex.
CopyViewers(t) ==
    /\ Decode(t, "copy", "lock")
    /\ sending' = [sending EXCEPT ![t] = ViewersOf(callback[t])]
    /\ UNCHANGED <<service, video, baton, render, fault>>

LockSend(t) ==
    /\ Decode(t, "lock", "send")
    /\ RegistryFree
    /\ UNCHANGED <<service, video, baton, sending, render, fault>>

\* TCPServer::Send and AcceptClient::Send: an unknown id and a connection
\* that is asked to close are passed over.
SendFrame(t, c) ==
    LET frame == [key |-> callback[t], video |-> stream[t]] IN
    /\ dpc[t] = "send"
    /\ c \in sending[t]
    /\ sending' = [sending EXCEPT ![t] = @ \ {c}]
    /\ frames' = IF c \in Connected \ asked
                 THEN [frames EXCEPT ![c] = @ \cup {frame}] ELSE frames
    /\ UNCHANGED <<ready, s_id, conn, reading, asked, told, request, loop, registry,
                   video, dpc, baton, render, fault>>

UnlockSend(t) ==
    /\ Decode(t, "send", "idle")
    /\ sending[t] = {}
    /\ UNCHANGED <<service, video, baton, sending, render, fault>>

-----------------------------------------------------------------------------
(* Undefined behaviour may end the process; it may also go unnoticed, as   *)
(* the actions above have it.                                              *)

\* ThreadFun uses its client, which was deleted.
UseFreedClient(t) ==
    /\ vpc[t] \in {"start", "render", "failed", "setup", "count"}
    /\ conn[owner[t]] = "freed"
    /\ Crash("client")

\* GetIV looks up once more what SearchVideo had found, and uses it unlooked
\* at: resourceMap.end() if the client object holds another string now, or if
\* the main thread is just inserting into the map.
MissResource(t) ==
    /\ vpc[t] = "start"
    /\ ~ready \/ \E p \in Pointee(owner[t]) : recv_msg[p] \notin Video
    /\ Crash("resource")

\* ThreadFun receives from, and stops once more, the stream that GetIV stopped.
UseStoppedStream(t) ==
    /\ vpc[t] \in {"loop", "stop"}
    /\ stream[t] = Stopped
    /\ Crash("stream")

\* The callback finds no baton, or converts with one that was freed.
UseFreedBaton(t) ==
    /\ \/ dpc[t] = "find" /\ baton_map[callback[t]] = NoThread
       \/ dpc[t] = "convert" /\ baton[t] \notin batons
    /\ Crash("baton")

\* puid_client_map is copied while the loop thread changes it.
RegistryRace ==
    /\ loop.pc \in {"register", "unsubscribe"}
    /\ \E t \in Thread : dpc[t] = "copy"

\* render_baton_map is changed by one thread while another one uses it.
ChangesBatons(t) == vpc[t] = "setup" \/ (vpc[t] = "closing" /\ closing[t] = {})
UsesBatons(t)    == ChangesBatons(t) \/ dpc[t] = "find"
BatonRace == \E t, u \in Thread : t # u /\ ChangesBatons(t) /\ UsesBatons(u)

\* puid_count_map gets a new key while a video thread looks one up.
Counted(k) == \E c \in Client : \E i \in 1..Len(requested[c]) : requested[c][i] = k
CountRace ==
    /\ loop.pc = "idle"
    /\ \E c \in reading : Len(requested[c]) < MaxRequests
    /\ \E k \in Key : ~Counted(k)
    /\ \E t \in Thread : vpc[t] \in {"render", "count"}

\* resourceMap is filled by the main thread while SearchVideo or GetIV looks.
PlatformRace == ~ready /\ (loop.pc = "search" \/ \E t \in Thread : vpc[t] = "start")

DataRace ==
    /\ RegistryRace \/ BatonRace \/ CountRace \/ PlatformRace
    /\ Crash("race")

-----------------------------------------------------------------------------
LoopStep ==
    \/ ReadCB_Register \/ ReadCB_Start
    \/ ClientClosed_Unsubscribe \/ ClientClosed_Join \/ ClientClosed_Delete
    \/ \E c \in Client : PrepareCB(c) \/ AfterClientClose(c)

Environment ==
    \/ PlatformReady \/ AcceptConnection
    \/ \E c \in Client : AfterRecvError(c) \/ \E k \in Key : ReadCB_Count(c, k)

VideoStep(t) ==
    \/ GetIV_StartStream(t) \/ GetIV_Render(t) \/ ReportFailure(t)
    \/ SetupBaton(t) \/ FindCount(t) \/ ReceiveVideo(t) \/ LeaveLoop(t)
    \/ StopStream(t) \/ LockViewers(t) \/ FreeBaton(t)
    \/ \E c \in Client : CloseClient(t, c)
    \/ UseFreedClient(t) \/ MissResource(t) \/ UseStoppedStream(t)

DecoderStep(t) ==
    \/ FindBaton(t) \/ Convert(t) \/ CopyViewers(t) \/ LockSend(t) \/ UnlockSend(t)
    \/ \E c \in Client : SendFrame(t, c)
    \/ EncodeFails(t) \/ UseFreedBaton(t)

\* The server waits, and the bounds leave it nothing to wait for; or the
\* process is gone.
Quiet ==
    /\ \/ fault # "none"
       \/ /\ ready /\ s_id = MaxClient /\ loop = Idle
          /\ \A c \in Client : conn[c] = "freed"
          /\ \A t \in Thread : ~Live(t)
    /\ UNCHANGED vars

Next ==
    \/ Environment \/ LoopStep \/ DataRace \/ Quiet
    \/ \E t \in Thread : VideoStep(t) \/ DecoderStep(t)

Spec == Init /\ [][Next]_vars

\* Fairness.  The loop spins (its idle handle is always active) and threads
\* are scheduled, so a thread that can go on does.  It is strong, for the
\* waits on mutex_puid_client: every holder releases it for whole frames, as
\* the frame loop sleeps 50 ms per frame in cvWaitKey.  Nothing is assumed of
\* the clients, of the failures, or of the data races.
FairSpec ==
    /\ Spec
    /\ SF_vars(LoopStep)
    /\ \A t \in Thread : SF_vars(VideoStep(t)) /\ SF_vars(DecoderStep(t))

-----------------------------------------------------------------------------
(* Properties that hold.                                                   *)

\* The number in puid_count_map is the number of viewers registered for the
\* string, plus the connection whose ReadCB has counted it but not yet
\* registered it: the two maps are guarded by different mutexes and never
\* drift apart.
Pending(k) == IF loop.pc = "register" /\ loop.key = k THEN 1 ELSE 0
CountMatchesViewers ==
    \A k \in Key :
        puid_count[k] = Cardinality({e \in puid_client : e.key = k}) + Pending(k)

\* A viewer in puid_client_map, and one that a video thread is about to close,
\* is in clients_list, so that CloseClient never falls through to
\* clients_list.end(): true of every client that sent at most one string.
ViewersAreConnected ==
    \A c \in Client :
        /\ Len(requested[c]) <= 1
        /\ EntriesOf(c) # {} \/ \E t \in Thread : c \in closing[t]
        => c \in Connected

\* The join that ClientClosed makes under mutex_puid_client, which every video
\* thread needs to end, finds no thread that still runs, as long as no client
\* sent a second string.
JoinReturnsAtOnce ==
    (\A c \in Client : Len(requested[c]) <= 1) =>
        (loop.pc = "join" => JoinReturns(puid_thread[loop.key]))

\* Whatever the age of the copy of the map it is sent by, a frame reaches
\* only connections that asked for the string it is sent under.
FramesAsAsked ==
    \A c \in Client : \A f \in frames[c] :
        \E i \in 1..Len(requested[c]) : requested[c][i] = f.key

\* A frame is of the video it is sent for: the video thread reads the string
\* for its stream and for its callback at different times from an object it
\* does not own, and it is the same string as long as no connection was
\* deleted and none sent a second string.
RightVideo ==
    (\A c \in Client : conn[c] # "freed" /\ Len(requested[c]) <= 1) =>
        \A c \in Client : \A f \in frames[c] : f.video = f.key

\* What an end of the process by a thread's use of what is not there any more
\* takes: a freed client or baton a connection that was deleted or sent a
\* second string, a missing resource one of these or a platform that is still
\* being initialised, an id that is not in clients_list a second string.
\* (The data races are Crash("race"); they need none of this.)
SecondString == \E c \in Client : Len(requested[c]) > 1
Disturbed    == SecondString \/ \E c \in Client : conn[c] = "freed"
CrashesHaveCauses ==
    [][fault = "none" =>
          /\ fault' \in {"client", "baton"} => Disturbed
          /\ fault' = "resource" => Disturbed \/ ~ready
          /\ fault' = "close" => SecondString]_vars

\* Two video threads serve one string at a time only while one of them is that
\* of a client already deleted: no second thread is created for a string
\* between the entry of its first viewer and the end of that viewer's
\* ClientClosed, whoever connects or leaves meanwhile.
SameString(t, u) ==
    /\ Len(requested[owner[t]]) = 1
    /\ requested[owner[t]] = requested[owner[u]]
SecondThreadNeedsALeaver ==
    \A t, u \in Thread :
        t # u /\ Live(t) /\ Live(u) /\ SameString(t, u) =>
            conn[owner[t]] = "freed" \/ conn[owner[u]] = "freed"

\* A connection that asked to be closed is freed in the end: the loop is
\* never stuck behind mutex_puid_client.
ClosingEnds ==
    \A c \in Client : c \in asked ~> (conn[c] = "freed" \/ fault # "none")

\* A video thread whose string nobody is counted for any more ends, unless a
\* new viewer is counted first.
UnwatchedThreadEnds ==
    \A t \in Thread : \A k \in Key :
        (vpc[t] = "loop" /\ vkey[t] = k /\ puid_count[k] = 0) ~>
            (~Live(t) \/ puid_count[k] > 0 \/ fault # "none")

-----------------------------------------------------------------------------
(* With one string per client, the service implements Viewing.             *)

\* A client watches from its registration to its unsubscription, whatever
\* happens to the video thread meanwhile.
PlaceOf(c) ==
    CASE conn[c] = "freed" -> "gone"
      [] conn[c] # "freed" /\ EntriesOf(c) # {} -> "watching"
      [] conn[c] = "closed" /\ EntriesOf(c) = {} /\ requested[c] # <<>> -> "leaving"
      [] OTHER -> "new"

View == INSTANCE Viewing WITH
    up      <- fault = "none",
    place   <- [c \in Client |-> PlaceOf(c)],
    watched <- [c \in Client |-> IF requested[c] = <<>> THEN NoKey ELSE Head(requested[c])],
    shown   <- [c \in Client |-> {f.key : f \in frames[c]}]

\* Refinement: a client is sent only frames of the one string it asked for,
\* none before it is registered and none after its object is deleted.
ViewingSpec == View!Spec

-----------------------------------------------------------------------------
(* What comments say of the program, and the program does not do.          *)

\* VideoService.cpp:345, a thread is created when no video of the string is
\* there: between callbacks, if nobody was refused, a viewer that is not being
\* closed has a thread that gets its video.
ViewerHasThread ==
    loop.pc = "idle" /\ told = {} =>
        \A e \in puid_client :
            \/ e.client \in asked \/ conn[e.client] # "open"
            \/ \E t \in Thread :
                  /\ Live(t)
                  /\ \/ vkey[t] = e.key
                     \/ vkey[t] = NoKey /\ recv_msg[owner[t]] = e.key

\* TcpServer.cpp:503, when the number has dropped to 0 the thread that gets
\* the video is shut down: its handle is forgotten only after it ended.
LastViewerStopsThread ==
    \A k \in Key : loop.pc = "delete" /\ loop.key = k /\ puid_count[k] = 0 =>
        \A t \in Thread : vkey[t] = k => ~Live(t)

\* TcpServer.cpp:503 again: the wait for the thread comes to an end.
JoinEnds == loop.pc = "join" ~> loop.pc # "join"
=============================================================================
