---------------------------- MODULE AcceptClient ----------------------------
(***************************************************************************)
(* One accepted connection, the class AcceptClient of                      *)
(* src/src/common/TcpServer.cpp, from AcceptByServer to its delete.        *)
(*                                                                         *)
(* The decoder pushes frames into send_msg_pool; on every turn of the loop *)
(* PrepareCB takes one out and writes it to the socket.  An error code is  *)
(* written past the queue, by ReadCB on the loop thread or by a video      *)
(* thread on its own.  All of them share write_buf and the recycled write  *)
(* requests of writereq_list.  Anyone may ask for the close, which the     *)
(* loop carries out: it closes the two handles, and when both have called  *)
(* back the server deletes the object.                                     *)
(*                                                                         *)
(* Frames are numbered in the order they are pushed; 0 is an error text.   *)
(***************************************************************************)
EXTENDS Integers, Sequences, FiniteSets, SequencesExt

CONSTANTS
    MaxFrame,     \* bound: frames the decoder has for this connection
    MaxText,      \* bound: reads that ask for no known video
    Req,          \* bound: uv_write_t objects ever allocated
    NoReq,        \* no request in hand
    Reporters     \* who sends an error code: a subset of {"loop", "video"}

ASSUME AcceptAssumption ==
    /\ MaxFrame \in Nat /\ MaxText \in Nat
    /\ NoReq \notin Req
    /\ Reporters \subseteq {"loop", "video"}
    \* Enough for every frame and every text: no writer waits for a request.
    /\ IsFiniteSet(Req) /\ Cardinality(Req) >= MaxFrame + MaxText + 1

VARIABLES
    pushed,          \* frames pushed so far
    pushing,         \* the decoder is past the check of Send
    pool,            \* send_msg_pool
    write_buf,       \* what write_buf points to
    listed,          \* writereq_list
    inflight,        \* requests that libuv has
    freed,           \* requests given back to the heap
    wire,            \* what uv_write has accepted, in order
    dropped,         \* frames whose uv_write failed
    asked,           \* isuseraskforclosed
    isclosed,
    prepare_handle,  \* life of the two handles; "null": data is 0
    client_handle,
    deleted,         \* the server has deleted the object
    lpc, ldata, lreq,  \* the loop thread: place, what it writes, its request
    texts,           \* error texts the loop has begun to send
    vpc, vreq,         \* the video thread that reports an error
    fault            \* undefined behaviour ended the process

queue   == <<pushed, pushing, pool>>
sending == <<write_buf, listed, inflight, freed, wire, dropped>>
closing == <<asked, isclosed, prepare_handle, client_handle, deleted>>
looper  == <<lpc, ldata, lreq>>
report  == <<texts, vpc, vreq>>
vars    == <<queue, sending, closing, looper, report, fault>>

Text  == 0
Frame == 1..MaxFrame
Data  == Frame \cup {Text}
Item  == [data : Data, whole : BOOLEAN]

HandleState == {"active", "closing", "null"}
LoopPc      == {"idle", "set", "take", "write", "giveback", "close"}
ReportPc    == {"idle", "take", "write", "giveback", "close", "done"}

TypeOK ==
    /\ pushed \in 0..MaxFrame /\ pushing \in BOOLEAN
    /\ pool \in Seq(Frame)
    /\ write_buf \in Data
    /\ listed \subseteq Req /\ inflight \subseteq Req /\ freed \subseteq Req
    /\ wire \in Seq(Item)
    /\ dropped \subseteq Frame
    /\ asked \in BOOLEAN /\ isclosed \in BOOLEAN /\ deleted \in BOOLEAN
    /\ prepare_handle \in HandleState /\ client_handle \in HandleState
    /\ lpc \in LoopPc /\ ldata \in Data /\ lreq \in Req \cup {NoReq}
    /\ texts \in 0..MaxText
    /\ vpc \in ReportPc /\ vreq \in Req \cup {NoReq}
    /\ fault \in {"none", "client", "race"}

\* The object right after AcceptByServer.
Init ==
    /\ pushed = 0 /\ pushing = FALSE
    /\ pool = <<>>
    /\ write_buf = Text
    /\ listed = {} /\ inflight = {} /\ freed = {}
    /\ wire = <<>>
    /\ dropped = {}
    /\ asked = FALSE /\ isclosed = FALSE /\ deleted = FALSE
    /\ prepare_handle = "active" /\ client_handle = "active"
    /\ lpc = "idle" /\ ldata = Text /\ lreq = NoReq
    /\ texts = 0 /\ vpc = "idle" /\ vreq = NoReq
    /\ fault = "none"

-----------------------------------------------------------------------------
\* Requests never allocated, and those a writer may pick up: the recycled
\* ones, or a new one if there are none.
Unused == Req \ (listed \cup inflight \cup freed \cup {lreq, vreq})

\* Mutant: front() without pop_front().
Recycled_NotPopped(r) == r \in listed /\ listed' = listed

Recycled(r) == r \in listed /\ listed' = listed \ {r}

\* Mutant: no new request is allocated.
TakeRequest_OnlyRecycled(r) == Recycled(r)

TakeRequest(r) ==
    \/ Recycled(r)
    \/ listed = {} /\ r \in Unused /\ UNCHANGED listed

\* uv_write takes what write_buf points to now.  A frame lives in a vector
\* that PrepareCB frees on return: a send the kernel has not finished by
\* then may carry other bytes.
Accepted(r) ==
    /\ client_handle = "active"
    /\ inflight' = inflight \cup {r}
    /\ \E w \in BOOLEAN :
          /\ write_buf = Text => w
          /\ wire' = Append(wire, [data |-> write_buf, whole |-> w])

-----------------------------------------------------------------------------
(* The decoder: Send(const vector<uchar>&), called by TCPServer::Send with *)
(* mutex_clients, which the delete waits for.                              *)

SendCheck ==
    /\ ~deleted /\ ~asked /\ ~pushing
    /\ pushed < MaxFrame
    /\ pushing' = TRUE
    /\ UNCHANGED <<pushed, pool, sending, closing, looper, report, fault>>

\* Mutant: the newest frame is put in front.
SendPush_Front ==
    /\ pushing
    /\ pushing' = FALSE
    /\ pushed' = pushed + 1
    /\ pool' = <<pushed + 1>> \o pool
    /\ UNCHANGED <<sending, closing, looper, report, fault>>

SendPush ==
    /\ pushing
    /\ pushing' = FALSE
    /\ pushed' = pushed + 1
    /\ pool' = Append(pool, pushed + 1)
    /\ UNCHANGED <<sending, closing, looper, report, fault>>

(* Close(): from CloseClient on a video thread, or from AfterRecv.         *)
Close ==
    /\ ~deleted
    /\ asked' = TRUE
    /\ UNCHANGED <<queue, sending, isclosed, prepare_handle, client_handle,
                   deleted, looper, report, fault>>

-----------------------------------------------------------------------------
(* The loop thread.                                                        *)

\* Mutant: front() without pop().
PrepareCB_Pop_Front ==
    /\ lpc = "idle"
    /\ prepare_handle = "active" /\ ~asked /\ ~isclosed
    /\ pool # <<>>
    /\ ldata' = Head(pool)
    /\ lpc' = "set"
    /\ UNCHANGED <<queue, sending, closing, lreq, report, fault>>

\* Mutant: the frame is taken before the request to close is looked at.
PrepareCB_Pop_Early ==
    /\ lpc = "idle"
    /\ prepare_handle = "active" /\ ~isclosed
    /\ pool # <<>>
    /\ ldata' = IF asked THEN ldata ELSE Head(pool)
    /\ pool' = Tail(pool)
    /\ lpc' = IF asked THEN "idle" ELSE "set"
    /\ UNCHANGED <<pushed, pushing, sending, closing, lreq, report, fault>>

PrepareCB_Pop ==
    /\ lpc = "idle"
    /\ prepare_handle = "active" /\ ~asked /\ ~isclosed
    /\ pool # <<>>
    /\ ldata' = Head(pool)
    /\ pool' = Tail(pool)
    /\ lpc' = "set"
    /\ UNCHANGED <<pushed, pushing, sending, closing, lreq, report, fault>>

\* Mutant: the error text is queued like a frame.
ReadCB_Report_Queued ==
    /\ "loop" \in Reporters
    /\ lpc = "idle"
    /\ client_handle = "active" /\ texts < MaxText
    /\ texts' = texts + 1
    /\ pool' = Append(pool, Text)
    /\ lpc' = "close"
    /\ UNCHANGED <<pushed, pushing, sending, closing, ldata, lreq, vpc, vreq, fault>>

\* ReadCB found no such video and sends the code from a read callback,
\* whether or not the connection was asked to close.
ReadCB_Report ==
    /\ "loop" \in Reporters
    /\ lpc = "idle"
    /\ client_handle = "active" /\ texts < MaxText
    /\ texts' = texts + 1
    /\ ldata' = Text
    /\ lpc' = "set"
    /\ UNCHANGED <<queue, sending, closing, lreq, vpc, vreq, fault>>

SetBuf ==
    /\ lpc = "set"
    /\ write_buf' = ldata
    /\ lpc' = "take"
    /\ UNCHANGED <<queue, listed, inflight, freed, wire, dropped, closing, ldata,
                   lreq, report, fault>>

TakeReq ==
    /\ lpc = "take"
    /\ \E r \in Req : TakeRequest(r) /\ lreq' = r
    /\ lpc' = "write"
    /\ UNCHANGED <<queue, write_buf, inflight, freed, wire, dropped, closing, ldata,
                   report, fault>>

\* ReadCB goes on to Close(), PrepareCB returns.
Written == IF ldata = Text THEN "close" ELSE "idle"

Write ==
    /\ lpc = "write"
    /\ \/ /\ Accepted(lreq)
          /\ lreq' = NoReq
          /\ lpc' = Written
          /\ UNCHANGED dropped
       \/ /\ dropped' = dropped \cup ({ldata} \ {Text})
          /\ lpc' = "giveback"
          /\ UNCHANGED <<lreq, inflight, wire>>
    /\ UNCHANGED <<queue, write_buf, listed, freed, closing, ldata, report, fault>>

\* A failed uv_write calls no AfterSend: the request goes back here.
GiveBack ==
    /\ lpc = "giveback"
    /\ listed' = listed \cup {lreq}
    /\ lreq' = NoReq
    /\ lpc' = Written
    /\ UNCHANGED <<queue, write_buf, inflight, freed, wire, dropped, closing, ldata,
                   report, fault>>

ReadCB_Close ==
    /\ lpc = "close"
    /\ asked' = TRUE
    /\ lpc' = "idle"
    /\ UNCHANGED <<queue, sending, isclosed, prepare_handle, client_handle, deleted,
                   ldata, lreq, report, fault>>

\* With or without an error, or cancelled by the close.
AfterSend(r) ==
    /\ lpc = "idle"
    /\ r \in inflight
    /\ inflight' = inflight \ {r}
    /\ listed' = listed \cup {r}
    /\ UNCHANGED <<queue, write_buf, freed, wire, dropped, closing, looper, report,
                   fault>>

\* Mutant: the prepare handle is left alone.
closeinl_ClientOnly ==
    /\ lpc = "idle"
    /\ prepare_handle = "active" /\ client_handle = "active" /\ asked /\ ~isclosed
    /\ freed' = freed \cup listed
    /\ listed' = {}
    /\ client_handle' = "closing"
    /\ UNCHANGED <<queue, write_buf, inflight, wire, dropped, asked, isclosed,
                   prepare_handle, deleted, looper, report, fault>>

\* PrepareCB, asked to close.
closeinl ==
    /\ lpc = "idle"
    /\ prepare_handle = "active" /\ asked /\ ~isclosed
    /\ freed' = freed \cup listed
    /\ listed' = {}
    /\ prepare_handle' = "closing"
    /\ client_handle' = "closing"
    /\ UNCHANGED <<queue, write_buf, inflight, wire, dropped, asked, isclosed, deleted,
                   looper, report, fault>>

\* Mutant: one closed handle is enough.
BothClosed_Either(p, c) == p = "null" \/ c = "null"

BothClosed(p, c) == p = "null" /\ c = "null"

\* The close callbacks: libuv calls them in either order, that of the socket
\* once none of its requests is pending.
AfterClientClose ==
    /\ lpc = "idle"
    /\ ~isclosed
    /\ \/ /\ prepare_handle = "closing"
          /\ prepare_handle' = "null"
          /\ UNCHANGED client_handle
       \/ /\ client_handle = "closing" /\ inflight = {}
          /\ client_handle' = "null"
          /\ UNCHANGED prepare_handle
    /\ IF BothClosed(prepare_handle', client_handle')
       THEN isclosed' = TRUE /\ asked' = FALSE
       ELSE UNCHANGED <<isclosed, asked>>
    /\ UNCHANGED <<queue, sending, deleted, looper, report, fault>>

\* TCPServer::ClientClosed, under mutex_clients.
Delete ==
    /\ lpc = "idle"
    /\ isclosed /\ ~deleted /\ ~pushing
    /\ deleted' = TRUE
    /\ UNCHANGED <<queue, sending, asked, isclosed, prepare_handle, client_handle,
                   looper, report, fault>>

-----------------------------------------------------------------------------
(* A video thread that reports an error: it sends the code as a string,    *)
(* past the queue, and then asks for the close.                            *)

Report_SetBuf ==
    /\ "video" \in Reporters
    /\ vpc = "idle" /\ ~deleted
    /\ write_buf' = Text
    /\ vpc' = "take"
    /\ UNCHANGED <<queue, listed, inflight, freed, wire, dropped, closing, looper,
                   texts, vreq, fault>>

Report_TakeReq ==
    /\ vpc = "take" /\ ~deleted
    /\ \E r \in Req : TakeRequest(r) /\ vreq' = r
    /\ vpc' = "write"
    /\ UNCHANGED <<queue, write_buf, inflight, freed, wire, dropped, closing, looper,
                   texts, fault>>

Report_Write ==
    /\ vpc = "write" /\ ~deleted
    /\ \/ /\ Accepted(vreq)
          /\ vreq' = NoReq
          /\ vpc' = "close"
       \/ /\ vpc' = "giveback"
          /\ UNCHANGED <<vreq, inflight, wire>>
    /\ UNCHANGED <<queue, write_buf, listed, freed, dropped, closing, looper, texts, fault>>

\* push_back without the mutex.
Report_GiveBack ==
    /\ vpc = "giveback" /\ ~deleted
    /\ listed' = listed \cup {vreq}
    /\ vreq' = NoReq
    /\ vpc' = "close"
    /\ UNCHANGED <<queue, write_buf, inflight, freed, wire, dropped, closing, looper,
                   texts, fault>>

Report_Close ==
    /\ vpc = "close" /\ ~deleted
    /\ asked' = TRUE
    /\ vpc' = "done"
    /\ UNCHANGED <<queue, sending, isclosed, prepare_handle, client_handle, deleted,
                   looper, texts, vreq, fault>>

-----------------------------------------------------------------------------
(* Undefined behaviour that ends the process.                              *)

Crashed(why) ==
    /\ fault = "none"
    /\ fault' = why
    /\ UNCHANGED <<queue, sending, closing, looper, report>>

\* The video thread goes on with a deleted object.
UseDeleted ==
    /\ deleted /\ vpc \in {"take", "write", "giveback", "close"}
    /\ Crashed("client")

\* The loop thread is at writereq_list.
LoopAtList == lpc \in {"take", "giveback"} \/ (lpc = "idle" /\ inflight # {})

\* libuv is called from a second thread, or the list is changed without
\* its mutex.
Race ==
    /\ vpc = "write" \/ (vpc = "giveback" /\ LoopAtList)
    /\ Crashed("race")

-----------------------------------------------------------------------------
LoopStep ==
    \/ PrepareCB_Pop \/ SetBuf \/ TakeReq \/ Write \/ GiveBack
    \/ ReadCB_Close \/ closeinl \/ AfterClientClose \/ Delete
    \/ \E r \in Req : AfterSend(r)

ReportStep ==
    \/ Report_SetBuf \/ Report_TakeReq \/ Report_Write \/ Report_GiveBack
    \/ Report_Close

\* Nothing is left to do for a deleted object, or the process is gone.
Ended == (deleted \/ fault # "none") /\ UNCHANGED vars

Next ==
    \/ /\ fault = "none"
       /\ SendCheck \/ SendPush \/ Close \/ ReadCB_Report \/ LoopStep \/ ReportStep
    \/ UseDeleted \/ Race \/ Ended

Spec == Init /\ [][Next]_vars

\* The loop spins and completes its writes; the decoder finishes a push it
\* has begun.  Nobody needs to close, to send or to report.
FairSpec ==
    /\ Spec
    /\ WF_vars(fault = "none" /\ LoopStep)
    /\ WF_vars(fault = "none" /\ SendPush)

-----------------------------------------------------------------------------
(* Properties that hold.                                                   *)

\* What was written to the socket, error texts included.
Sent == [i \in DOMAIN wire |-> wire[i].data]

\* A frame PrepareCB holds and has not written yet.
InHand == IF lpc \in {"set", "take", "write"} /\ ldata # Text THEN <<ldata>> ELSE <<>>

\* The way of the frames, from the socket back to the queue.
Line == Sent \o InHand \o pool

\* Frames go to the socket in the order the decoder pushed them and none
\* goes twice, the one in PrepareCB's hand and those still queued included.
FramesInOrder ==
    \A i, j \in DOMAIN Line :
        i < j /\ Line[i] # Text /\ Line[j] # Text => Line[i] < Line[j]

\* No frame disappears: each one was either refused by uv_write, or is on
\* the wire, in the hand of PrepareCB or queued.
NoFrameLost ==
    /\ 1..pushed = (ToSet(Line) \ {Text}) \cup dropped
    /\ ToSet(Line) \cap dropped = {}

\* A write request is in one place: in the list, with libuv, with one of the
\* two threads, or back on the heap.
RequestsOnce ==
    /\ listed \cap inflight = {} /\ listed \cap freed = {} /\ inflight \cap freed = {}
    /\ {lreq, vreq} \cap (listed \cup inflight \cup freed) = {}
    /\ lreq = vreq => lreq = NoReq

\* libuv has no request of a deleted object: no AfterSend comes after the
\* delete.
DeletedIsQuiet == deleted => inflight = {} /\ client_handle = "null"

\* A connection that was asked to close is deleted in the end.
CloseEnds == asked ~> (deleted \/ fault # "none")

\* A queued frame leaves the queue, unless the connection is closed first.
QueueDrains == pool # <<>> ~> (pool = <<>> \/ asked \/ isclosed \/ fault # "none")

\* As long as no video thread writes past the queue, the connection is the
\* channel of FrameChannel: frames wait in order, PrepareCB delivers or drops
\* the first one, an error text overtakes them, and nothing goes in or out
\* after the delete.
Channel == INSTANCE FrameChannel
    WITH waiting <- InHand \o pool, delivered <- Sent, open <- ~deleted, last <- pushed
ChannelSpec == Channel!Spec

-----------------------------------------------------------------------------
(* What comments say of the class, and the class does not do.              *)

\* TcpServer.h:22, Send sends the string: what a thread that reports an
\* error hands to libuv is the text it was given.
StringIsSent == vpc = "write" => write_buf = Text
=============================================================================
