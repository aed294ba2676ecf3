# VideoService: specifications and proofs

VideoService is a TCP server for live video. A client connects and sends one
string, `<resource id>,<index>,<clip>`; from then on it is sent the video of
that resource, frame by frame, as JPEG images. All clients that sent the same
string share one video thread, which pulls the stream from the vendor's
platform SDK, and one decoder, whose callback sends each image to all of them.

The modules here model that server, the code in `src/src/`, as TLA+ state
machines. TLC checks them on small instances and TLAPS proves the theorems
listed below for every value of the constants.

## 1. The system and its parts

Threads: the *main thread* starts the server, only then initialises the
platform, and sleeps for ever; the *loop thread* runs libuv and with it every
callback of the server and of its connections; a *video thread* is created for
the first viewer of a string; a *decoder thread* of the SDK calls
`DecodeVideoCallBack` for each picture of a video thread's stream.

| part | code | state | operations | correct when |
|---|---|---|---|---|
| service | `VideoService.cpp` | streams, decoders, batons (CUDA buffers) | `ReadCB`, `ThreadFun`, `GetIV`, `DecodeVideoCallBack`, `main` | every viewer gets the frames of its string and nobody else does; the thread of a string starts with its first viewer, ends with its last, and leaves nothing behind |
| registry | `TcpServer.cpp/.h` | `clients_list`, `puid_client_map` (string to viewers), `puid_count_map`, `puid_thread_map`, `render_baton_map`; three mutexes | `AcceptConnection`, `ClientClosed`, `CloseClient`, `Send` | the maps agree with one another and with the connections that exist |
| connection (`AcceptClient`) | `TcpServer.cpp/.h` | `send_msg_pool`, `write_buf`, `writereq_list`, flags, two libuv handles | both `Send`s, `Close`, `PrepareCB`, `AfterSend`, `AfterRecv`, `closeinl`, `AfterClientClose`, destructor | frames leave in order and once; a request object is in one place; a close ends, and nothing touches the object afterwards |
| server (`TCPServer`) | `TcpServer.cpp/.h` | `startstatus`, four handles, the loop thread | `Start`, `StartThread`, `Close`, `closeinl`, `AfterServerClose`, `Send` of a text | Start tells the truth, a close reaches everything and ends the loop |
| client library (`TCPClient`) | `TCPClient.cpp/.h` | status of the connect, a queue of requests | `Connect`, `Send`, `Close` | like a connection; the connect answers or times out |
| platform (`C7Platform`) | `C7Platform.cpp/.h` | `resourceMap` | `Init`, `CreateResource` | every unit that is online is filed with its own resources, and the stream opened for a message is the one it names |
| receive path | `AfterRecv` in `TcpServer.cpp`, head of `ReadCB` | `read_buffer` | a read, `strtok`, `atoi` | the string is what the client sent |
| small classes | `VideoCalculator.h`, `ScreenEngine.h` | frame counts, a queue of images | `inc`, `getAverageFps`, `push`, `pop` | not used by the program |
| image processing, log, dumps, configuration | the rest | | | not a subject of these modules |

How they interact: the loop thread and the video threads share the registry,
each map under its own mutex or none; a video thread keeps a raw pointer to
the connection that created it; the decoder sends by a copy of the registry;
the loop joins video threads; a video thread closes connections by setting a
flag the loop polls. The hard parts are therefore interleavings of threads
with partial locking, a stale pointer and stale copies, the order in which a
connection and its thread come and go, failing calls in the middle of a start,
and the two waits: the join, and the mutex.

`PROJECT.json` lists every hazard with its line and the properties that watch
it.

## 2. Modules

* `VideoService.tla`: service and registry as one state machine, because their
  steps interleave at the grain of single statements.
  `Viewing.tla` is what they promise clients that send one string: who is
  subscribed to what and may be sent frames of what; `VideoService` implements
  it by the refinement mapping `View` at the end of the module.
* `ReceiveBuffer.tla`: how reads of a byte stream become the strings `ReadCB`
  works with. `C7Platform.tla`: how the main thread fills `resourceMap`, call
  by call. `RequestPath.tla` composes the two with `ReadCB`, `SearchVideo` and
  the two lookups of `GetIV`: from the bytes of a message to its stream.
* `AcceptClient.tla`: the inside of one connection, with the loop thread, the
  decoder and a video thread that reports an error. `FrameChannel.tla` is what
  it promises to the decoder; `AcceptClient` implements it by the refinement
  mapping at the end of the module.
* `TcpServer.tla`: starting and closing the server as a whole.
* `TcpClient.tla`: the client library, from constructor to destructor. The
  service does not use it, but it is built with it.
* `MC*.tla`: symmetry sets for TLC, and the messages and platforms of
  `RequestPath`. The `.cfg` files give the constants.
* `*Proofs.tla`: the theorems. `ViewingProofs` extends `VideoServiceProofs`
  with who is watching what and the refinement of `Viewing`, and
  `RightVideoProofs` extends that with the videos of the frames.
  `C7PlatformProofs` is what `Init` files, and `RequestPathProofs` extends it to
  the streams of the requests. `AcceptClientProofs`, `TcpServerProofs` and
  `TcpClientProofs` stand alone.

### How state and actions correspond to the code

**VideoService.** A variable is a field or a map of the code, or the place
where a thread is (`loop`, `vpc`, `dpc`). Request strings are numbers, whose
order is that of the keys of a `std::map`; 0 is the empty string. The whole of
a callback is split only where it releases one mutex and takes the next, or
where it waits:

* `ReadCB` is `ReadCB_Count` (under `mutex_puid_count`), `ReadCB_Register`
  (under `mutex_puid_client`) and `ReadCB_Start`;
* `ClientClosed` is `_Unsubscribe`, `_Join` (both under `mutex_puid_client`)
  and `_Delete`;
* `ThreadFun` is `GetIV_StartStream`, `GetIV_Render`, `ReportFailure`,
  `SetupBaton`, `FindCount`, the loop (`ReceiveVideo`, `LeaveLoop`),
  `StopStream`, `LockViewers`, `CloseClient`, `FreeBaton`: each is one read of
  the client it points to, or one section of code between two locks;
* `DecodeVideoCallBack` is `FindBaton`, `Convert`, `CopyViewers`, `LockSend`,
  `SendFrame` for each viewer, `UnlockSend`.

`mutex_puid_client` has no variable of its own: `RegistryFree` says from the
places of the threads whether somebody holds it.

Undefined behaviour has both outcomes. A read of a deleted client finds the
stale bytes or a connection that was accepted later in the same memory
(`Pointee`), or ends the process (`UseFreedClient`); a missing map entry, a
freed baton and an id that `CloseClient` does not find end it; a data race on a
map does or does not (`DataRace`). `GetIV` looks the resource up a second time
and uses what it finds: the lookup misses when the string in the client object
is another one, and also when the main thread is still inserting
(`MissResource`, and `PlatformRace` for the data race). After a crash nothing
is left (`Crash`), there is nothing persistent to recover.

Calls to the SDK that return an error are the members of the constant
`Failure`. When the callback cannot be set, `GetIV` stops the stream and keeps
the handle; the thread goes on as if all were well and receives from, and stops
once more, a stream that was `Stopped` (`UseStoppedStream`). When a picture
cannot be encoded the decoder's thread ends the whole process with `exit(0)`
(`EncodeFails`).

In `Viewing` a client is "watching" while it has an entry in
`puid_client_map`, "leaving" from there to the delete of its object, and "gone"
after it; the frames it was sent are those of `frames`.

**RequestPath.** Texts are sequences of characters, because the properties are
about where they are cut; a client may send any byte, a NUL among them.
`Receive` is the copy into `read_buffer` of whatever `libuv` delivers (any part
of what was sent and not read, at most `BufSize` bytes), the `std::string` made
of it up to the first NUL, and the NULs `strtok` writes; a full buffer has no
NUL and the string may go on beyond it (`Foreign`). `Text` is what bytes say up
to their first NUL. `Word`, `Words` and `Atoi` are `strtok` and `atoi`. On the
main thread every call of `Init` that can change where it goes is an action:
`Open`, `GetPlatformType` (whose failure leaves an uninitialised variable),
`ForkPUList`, `NextPU` for one turn of the loop, `ForkOnePU` and
`CreateResource` for a single device. The field `fails` of `content` names the
calls that may fail. Where the code looks at the result, `Init` leaves by
`exit` or with an empty map; where it does not, the variable keeps what it held
(`Got`): the id of the unit before, the state read last, of a unit or of a
resource, as both use one variable (`nUsable`), or, for a type that nothing has
set, what the stack held. `Readings` are all the ways in which the calls for a
unit's resources can then go, and `misread`, a history variable, has the ids of
the units that were not read as they are. The insert into the map is two steps,
`NextPU` and `FileEntry`, and between them a `find` of another thread may miss
entries (`Lookup`) or end the process (`MapRace`). `GetIV` is `GetIV_Find` and
`GetIV_StartStream`, since each reads the client object anew. What the SDK
knows (`content`) is chosen in `Init` and does not change. There is one
connection here and its object outlives its threads: several, and objects that
do not, are the subject of `VideoService`, where the resources of the platform
are the set `Video` and the flag `ready`.

**AcceptClient.** Frames are numbered in the order they are pushed, 0 is an
error text. `PrepareCB` is `PrepareCB_Pop`, `SetBuf`, `TakeReq`, `Write` and
`GiveBack` after a failed write, one action per section under a mutex, so that
a video thread in `Send` (`Report_*`) interleaves between them. libuv is
modelled by what the code sees of it: `uv_write` is refused once the handle is
closing, each accepted request calls `AfterSend` once, the close callback of
the socket comes after the last of them, the two close callbacks come in either
order. `ReadCB` reports an error text from the loop whenever a read asks for no
known video, also when a close was asked for before (`ReadCB_Report`, at most
`MaxText` of them). `wire` is a history variable: what `uv_write` accepted, and
whether the bytes were still those of the frame when the kernel sent them.

**TcpServer.** `Start` is `Start_Init`, `Start_Thread`, the polls and
`Start_Return`; the write of `START_TIMEOUT` is a step of its own since the new
thread may announce itself just before it. `AfterServerClose` sets `isclosed`
and only then clears the request to close (`Notify`). `LoopAlive` is libuv's
condition for staying in `uv_run`. `Send_Text` is the overload for strings,
which returns with `mutex_clients` locked when it does not find the client
(`mutex = "leaked"`). `Start` may be called on a server that is running: `init`
then leaves the handles as they are, and `bind` may run into its assertion
(`Start_BindFails`) or, in a build without, go on to a second loop thread.
`Close` and `Send` need no `Start` before them. The destructor is not here: the
program's one server is a global, and `main` does not return while it serves.

**TcpClient.** As `TcpServer`: `Connect` is `Connect_Init`, `Connect_Thread`,
the polls and `Connect_Return`, `Send` is `Send_Take`, `Send_Write` and
`Send_GiveBack`, the destructor `Destroy`, `Join` and `Free`.
`AfterClientClose` sets `isclosed` first and clears `isuseraskforclosed`
afterwards (`Notify`); the user's thread may act in between. A `Connect` on a
client that is not closed initialises handles twice, and ends the behaviour
with `fault = "reinit"`. A `Send` before any `Connect` hands `uv_write` a
handle nobody has set, which ends the behaviour (`Send_NoHandle`) or fails as
on a closed one.

## 3. What the runs check

| run | instance | shows |
|---|---|---|
| `service` | 3 connections, 1 string, 2 threads | types; counts agree with entries (`CountMatchesViewers`); every viewer with one string is a listed connection (`ViewersAreConnected`), so `CloseClient` never meets its id unknown; the join made with the mutex held never waits for a running thread (`JoinReturnsAtOnce`); a string is served by two threads at once only when the client of one is deleted (`SecondThreadNeedsALeaver`) |
| `service_failures` | 2 connections, two video strings and an unknown one, every failure | `ViewersAreConnected`; frames go only to who asked for their string, however old the copy of the map (`FramesAsAsked`), and show the video of that string until a client is deleted or sends a second one (`RightVideo`); a thread meets a freed client or baton only after a client was deleted or sent a second string, a resource that is missing only then or before `Init` has ended, an id that is not listed only after a second string (`CrashesHaveCauses`); refinement of `Viewing` (`ViewingSpec`) |
| `service_live` | 2 connections, 2 threads, fairness | a connection asked to close is freed (`ClosingEnds`); a thread without viewers ends (`UnwatchedThreadEnds`) |
| `accept` | 3 frames, 2 error texts, 6 request objects | frames keep their order from the push to the socket, error texts among them, and go once (`FramesInOrder`); none disappears (`NoFrameLost`); refinement of `FrameChannel` (`ChannelSpec`) |
| `accept_live` | 2 frames, 1 error text, 4 requests, both reporters, fairness | `RequestsOnce`, `DeletedIsQuiet`, `CloseEnds`, `QueueDrains` |
| `server` | 3 connections, 2 starts, fairness | `ClosedHandles`; `StartWaits` for the first start; `ServerCloses` unless a `Send` kept the mutex |
| `request` | 1 connection, 2 messages in up to 3 reads, a buffer of 5 bytes, 4 platforms, every call of `Init` able to fail in one of them | once `Init` has returned, every unit or device that is online is filed under its id with its own resources in use, whatever calls failed for the others, if it was itself read as it is and no other has its id (`AllFiled`); the string is what was read, up to its first NUL, unless the read brought no NUL and an earlier one was longer or one filled the buffer (`StringAsRead`); it never holds a byte the client did not send unless a read filled the buffer (`OwnBytes`); the stream opened for a message is the one it names (`AskedIsOpened`); who is refused asked for nothing the platform has, or too early (`OnlyUnknownRefused`), both if no call failed that nobody looks at; `GetIV`'s unchecked lookup fails only after a second string or during an insert (`LookupFault`) |
| `client` | 3 connections one after the other, 2 requests, 2 polls, fairness | each close is reported once (`ClosedOnce`); the first `Connect` returns TRUE only if the server accepted (`ConnectIsTrue`); `RequestsOnce`; the destructor loses no request, if the last of three `Connect`s made the thread it joins (`RequestsFreed`), and, of a client connected at most once, ends (`DestructorEnds`) |

The `bad_*` runs check what a comment says and the code does not do; TLC's
counterexample is the argument, and `PROJECT.json` quotes the comment:

| run | what happens |
|---|---|
| `bad_ViewerHasThread` | the stream of a string fails while a second client of it is counted and waits for `mutex_puid_client`: the first client's thread leaves its loop, asks for the close of its client and ends; the second registers beside the entry that is still there, so no thread is created, and it stays connected without one |
| `bad_LastViewerStopsThread` | the handle filed for a string is read before the thread is created, so nothing waits for the thread |
| `bad_JoinEnds` | with two strings from one client, the loop joins a thread with the mutex held that the thread needs to end |
| `bad_StringIsSent` | `write_buf` is pointed elsewhere between `Send`'s lock and its `uv_write` |

Other behaviours of the code are states of the models without a property of
their own, because nothing in the repository promises better (`PROJECT.json`
has most of them as hazards with a note): the baton of a second thread of a
string is never freed; a second string changes the client between two reads of
its video thread, so frames of one video go out under the string of another;
only one of the strings of a client is unsubscribed; the list of requests is
changed without its mutex; requests that complete after `closeinl` are never
freed; a second `Start` finds the `startstatus` of the first; the server says
it is closed while its loop still closes connections. In the client library, a
request to close that comes between the two assignments at the end of
`AfterClientClose`, after a second `Connect`, is cleared with the old one, and
the destructor joins for ever (`JoinsForever`); `closeinl` from the user's
thread closes handles another thread's loop may have; and `close_type` and
`connect_status` are never reset.

On the way of a request: a message that TCP splits is two requests, of which
the first may be served; the tail of a longer message stays in `read_buffer`
and becomes part of the next string; a read of commas only makes a
`std::string` of a NULL pointer (`fault = "null"`); a second string between
`SearchVideo` and `GetIV` sends the unchecked lookup out of range
(`fault = "resource"`); a client that asks before `Init` has filed its unit is
refused for good, and one whose thread looks up while `Init` inserts may take
the process down. A unit of which a call failed may be lost, kept although it
is offline, or filed under the id of the unit before.

Each property of a passing run has a mutant, an operator named
`<definition>_<what was broken>` placed before the definition it replaces; with
it the run fails.

### Bounds, and why they are enough

* Connections 3, threads 2: two threads of one string overlap, a third
  connection comes while the first two leave, and a deleted connection's memory
  is taken over by a later one. More threads only repeat a pair: every
  condition in the code compares a thread with the loop or with one other
  thread of its string.
* Strings 3 in `service_failures`: equal and different, two known to the
  platform and one unknown; 1 or 2 in the other runs.
* Requests per connection 1 or 2: the client's fields are overwritten by the
  second. The passing runs have one: with two, a client's second entry outlives
  it and its thread may be joined under the other string (`bad_JoinEnds`).
  `CountMatchesViewers` is proved for any number.
* Frames 3, error texts 2, requests 6 (`AcceptClient`): a queue while one frame
  is in hand and one is with libuv, and a text before and after the close was
  asked for. `Cardinality(Req) >= MaxFrame + MaxText + 1` makes the bound on
  requests one that never holds a writer up.
* `RequestPath`: the buffer holds 5 bytes instead of 100, with messages of 1 to
  5 bytes: shorter than the one before, exactly full, and longer than what is
  left of a read. `GET_CNT` is 3, with a platform of 4 units and a unit of 4
  resources, so that both caps cut. The platforms have a unit and a resource
  that are offline, ids of which one is the beginning of the other, and a
  device that is online or not; each call of `Init` may fail in one of the four
  at least. One message ends in a NUL, which a joined read has in its middle.
  Three reads: one string changes the client between the two lookups of
  another, and the tail of a read outlives one that came between.
* Frames in `VideoService` are kinds (string, video), so the frame loop runs
  without a bound.
* Polls of `Start` and `Connect` 2 instead of 100: the races are at the last
  one.

### Fairness

* `VideoService!FairSpec`: strong fairness of the loop thread, of each video
  thread and of each decoder as a whole. The loop never blocks in the kernel
  (the server's idle handle is always active), threads are scheduled, and
  `mutex_puid_client` is left free for whole frames by its holders (a frame
  loop sleeps 50 ms in `cvWaitKey`), so who waits for it gets it. Nothing is
  assumed of clients, failures, races or of the main thread.
* `AcceptClient!FairSpec`: weak fairness of the loop thread (its completions
  included: a close cancels what is pending) and of a decoder that has begun a
  push. `TcpServer!FairSpec`, `TcpClient!FairSpec`: weak
  fairness of each thread; every connect and every write is answered in the end.

The runs allow no deadlock, except `bad_JoinEnds`, which is about one.
`Quiet`, `Ended` and `Stopped` are the states in which the bounds leave nothing
to do or the process is gone.

## 4. What is proved

Every invariant and every action property of the runs that pass is proved, and
both refinements, for all values of the constants. Four of them need a
hypothesis, which the table gives with its reason: it holds in the runs that
check the property.

| theorem | states | argument |
|---|---|---|
| `VideoServiceProofs!TypeCorrect` | `Spec => []TypeOK` | `TypeOK` is not inductive: a callback in progress uses its client and string, a decoder its callback's string. `PcOK` adds what each place in the code implies, and `TypeOK /\ PcOK` is |
| `VideoServiceProofs!CountMatches` | `Spec => []CountMatchesViewers` | with `PcOK`, plus `EntryOK`: the entries of a client carry numbers of requests it has made, so a request being registered is a new entry and the cardinality grows by one |
| `VideoServiceProofs!JoinsReturnAtOnce` | `Spec => []JoinReturnsAtOnce` | `HandleInv`: while every client has sent one string at most, a client without a thread has the handle 0, and that is what `ReadCB` files before it creates the thread. So the map never holds the handle of a thread; with a second string it may (`bad_JoinEnds`) |
| `ViewingProofs!FramesGoWhereAsked` | `Spec => []FramesAsAsked` | a frame is sent by a copy of the map, taken before: `AskInv` says of the map, of every copy and of the string being registered that the client asked for it |
| `ViewingProofs!ViewersStayConnected` | `Spec => []ViewersAreConnected` | `ConnInv` ties each connection to the callback it is in; `ViewInv` says that a client with one string has one entry from the end of `ReadCB` to `ClientClosed`, and that a thread which closes or sends holds a copy of that one. Nothing is said of clients with two: their second entry outlives them |
| `ViewingProofs!OneThreadPerString` | `Spec => []SecondThreadNeedsALeaver` | `ServeInv`: a thread belongs to the client that created it, as its first viewer; while that client has its entry the next one finds it and creates none, and between the entry's end and the delete the loop does nothing else |
| `ViewingProofs!ImplementsViewing` | `MaxRequests <= 1` implies `Spec => ViewingSpec` | each action is a step of `Viewing` or a stutter, from the invariants above and `FaultInv` (a crash is the end). The hypothesis is that of the run: with two strings an entry outlives its client, and the service does not implement `Viewing` |
| `RightVideoProofs!FramesAreRight` | `Spec => []RightVideo` | `CalmInv`, as long as all clients are there with one string: a thread's first client has an entry, so there is one thread for each string (`OwnerInv`); stream and callback are for that string (`StreamInv`), and so is the baton filed for it (`BatonInv`) |
| `RightVideoProofs!CrashesNeedTheirCauses` | `Spec => CrashesHaveCauses` | `CalmInv` excludes each of the reads that can fail: the client is there, the baton is filed until its thread takes it out, and a client in calm asked for a video, so that once the platform is ready its lookup finds it; `ConnInv` and `ViewInv` give the ids that `CloseClient` looks for |
| `AcceptClientProofs!TypeCorrect` | `Spec => []TypeOK` | with `PushFits` and where a request is |
| `AcceptClientProofs!RequestsAreOnce` | `Spec => []RequestsOnce` | with the places at which a thread has a request in hand (`InHandInv`) |
| `AcceptClientProofs!DeletedIsQuietAlways` | `Spec => []DeletedIsQuiet` | deleted implies closed, closed implies both handles called back, and the socket's handle does so only without requests (`ClosedInv`) |
| `AcceptClientProofs!FramesKeepOrder`, `FramesAreKept` | `Spec => [](vpc = "idle" => FramesInOrder)`, the same for `NoFrameLost` | the queue holds the last frames pushed, without a gap (`QueueInv`), and the socket has some of those before the one in hand (`SocketInv`). The hypothesis is where the promise ends: a video thread in `Send` may replace a frame (`bad_StringIsSent`). The run has no such thread |
| `AcceptClientProofs!ImplementsChannel` | `"video" \notin Reporters` implies `Spec => ChannelSpec` | a step lemma for each action, with `OrderInv`, `ClosedInv` and `OpenInv`: the delete waits for a push that has begun. The hypothesis is that of the run |
| `TcpServerProofs!TypeCorrect` | `Spec => []TypeOK` | inductive |
| `TcpServerProofs!ClosedMeansNoHandle` | `Spec => []ClosedHandles` | inductive with the type of `handle` |
| `TcpServerProofs!StartIsBegun` | `Spec => []StartWaits` | `FirstStart`: until the second `Start` status and result speak of one thread; the timeout may overwrite what the thread announced, but only the thread announces |
| `TcpClientProofs!TypeCorrect` | `Spec => []TypeOK` | that `closecb` is called no more often than `Connect` needs the count below |
| `TcpClientProofs!ClientRequestsAreOnce` | `Spec => []RequestsOnce` | with `InHand`: between taking and handing on, `Send` has a request |
| `TcpClientProofs!ClosedIsReportedOnce` | `Spec => []ClosedOnce` | `ClosesCounted`: the calls of `closecb` and the threads about to make one are the `Connect`s so far, without the one that is open |
| `TcpClientProofs!ConnectTellsTheTruth` | `Spec => []ConnectIsTrue` | `FirstAnswer`: during the first `Connect`, `CONNECT_FINISH` means that the server answered |
| `TcpClientProofs!DestructorFrees` | `Spec => []RequestsFreed` | a request with libuv needs a loop that runs (`InflightNeedsLoop`), and the last thread to exist ends only with its handles closed (`LastEndsClosed`) |
| `C7PlatformProofs!StoredAreThoseInUse` | `Stored(list) = InUse(list)`, at most `GET_CNT`, for a list of as many | the inner loop of `Init`, written as a recursion, keeps the resources in use in order: after j turns it has pushed those of the first j (`Pushed`), by the least j for which that fails |
| `RequestPathProofs!TypeCorrect` | `Spec => []TypeOK` | with `PlatformInv`, and that `atoi` of a word is a number, which needs the recursion to have a value for each length |
| `RequestPathProofs!EveryPuIsFiled` | `Spec => []AllFiled` | `PlatformInv`: the units still to come are the last of those listed (`ShapeInv`), no id comes from a unit the loop has not seen (`KeysInv`), and each one passed that was read as it is is in the map or in hand (`FiledInv`). So an id that is a unit's own finds no entry of another in the way, as `insert` would not replace it |
| `RequestPathProofs!StringIsRead`, `StringsEnd` | `Spec => []StringAsRead`, `Spec => []OwnBytes` | `BufferInv`: beyond the longest read the buffer holds the NULs of the constructor, and unless a read filled it there is one behind its last byte. The first NUL of a string exists because the order of numbers is well founded |
| `RequestPathProofs!LookupFails` | `Spec => []LookupFault` | `LookupInv`: while the connection has sent one string, the client object still holds what `SearchVideo` found, and `Init` only adds to the map |
| `RequestPathProofs!TheVideoAskedFor` | `Spec => []AskedIsOpened` | the map holds what the ids stand for (`RightInv` of `PlatformInv`), the client object what its one string says, and the entry a thread found does not change (`AnswerInv`); the text of a read of one message is that of the message, NUL or not |
| `RequestPathProofs!RefusalsAreRight` | `Spec => OnlyUnknownRefused` | `RightInv` again, which says that after `Init` what has no entry has no name |

The proofs assume the constants' assumptions in the modules, which TLC
evaluates in every run. Each inductive invariant was checked by TLC before it
was proved, on the instances of the runs and, for `RequestPath`, also on
platforms with equal, empty and unusable ids.

Only model-checked are the liveness properties: `ClosingEnds`,
`UnwatchedThreadEnds`, `CloseEnds`, `QueueDrains`, `ServerCloses` and
`DestructorEnds`. They rest on fairness and `ENABLED`, which the prover does
not reason about. The library's induction theorems cannot be instantiated by
the provers; what is proved of the two recursive functions, `Stored` and `Atoi`,
is by the least number of turns for which it would fail.

## 5. Not modelled

Pixels, JPEG coding and CUDA arithmetic; logging, minidumps, the configuration
files; the vendored libraries; the overloads of `Send` for images, marked as
abandoned in the header, and the `ImagePool` only they use; `CFpsCounter` and
`CVideoCalculator`, of which the program makes no object; `SetNoDelay` and
`C7Platform::UnInit`, which nothing reaches; the lifetime of the bytes behind
`write_buf` beyond the nondeterministic `whole` of `AcceptClient`; the sleep of
10 s in `main` and what follows its endless loop; the destructor of
`TCPServer`, which runs when a process that serves is already ending.

## 6. Plan

Done: `VideoService` with `Viewing`, `AcceptClient` with `FrameChannel`,
`TcpServer`, `TcpClient`, `C7Platform` and `ReceiveBuffer` with `RequestPath`;
and a proof of each of their safety properties. To come:

1. The step from `AskedIsOpened` to several connections: that the entries of
   `C7Platform` are what `VideoService` takes as `Video` and `ready`.
2. What still holds for clients that send several strings, where
   `ViewersAreConnected` and `RightVideo` say nothing.
