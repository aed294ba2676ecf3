------------------------------ MODULE TcpClient ------------------------------
(***************************************************************************)
(* The client library, class TCPClient of src/src/common/TCPClient.cpp,    *)
(* from its constructor to its destructor.                                 *)
(*                                                                         *)
(* A user's thread calls Connect, Send, Close and at last the destructor;  *)
(* each Connect creates a thread that runs the loop, and polls for the     *)
(* answer of AfterConnect.  The answer may be late, fail or never come.    *)
(* Close sets a flag for PrepareCB; the four handles close on the loop,    *)
(* the last of them reports it to the user's callback.  The destructor     *)
(* asks for a close, joins the thread and frees the write requests.        *)
(***************************************************************************)
EXTENDS Integers, FiniteSets

CONSTANTS
    MaxConnects,  \* bound: calls of Connect
    MaxWait,      \* the polls before Connect gives up (100 in the code)
    Req,          \* bound: uv_write_t objects ever allocated
    NoReq         \* no request in hand

ASSUME ClientAssumption ==
    /\ MaxConnects \in Nat \ {0} /\ MaxWait \in Nat
    /\ NoReq \notin Req

VARIABLES
    main,            \* where the user's thread is
    result,          \* what the last Connect returned
    connects,        \* calls of Connect that passed init
    wait_count,
    req,             \* the request Send has in hand
    connect_status,
    thread,          \* the thread of each Connect
    socket,          \* what has become of connect_req and of the stream
    handle,          \* the four handles; "null": data is 0
    isclosed,
    asked,           \* isuseraskforclosed
    listed,          \* writereq_list
    inflight,        \* requests that libuv has
    freed,           \* requests given back to the heap
    closecbs,        \* history: calls of closecb
    answered,        \* history: the Connects whose AfterConnect succeeded
    fault            \* undefined behaviour

user   == <<main, result, connects, wait_count, req>>
stream == <<socket, handle, isclosed, asked, closecbs>>
writes == <<listed, inflight, freed>>
vars   == <<user, connect_status, thread, stream, writes, answered, fault>>

Handles == {"prepare_handle", "client_handle", "check_handle", "idle_handle"}
Launch  == 1..MaxConnects

MainPc == {"idle", "create", "poll", "giveup", "return", "write", "giveback",
           "join", "free", "destroyed"}

TypeOK ==
    /\ main \in MainPc
    /\ result \in {"none", "true", "false"}
    /\ connects \in 0..MaxConnects /\ wait_count \in 0..MaxWait
    /\ req \in Req \cup {NoReq}
    /\ connect_status \in
          {"CONNECT_DIS", "CONNECT_FINISH", "CONNECT_ERROR", "CONNECT_TIMEOUT"}
    /\ thread \in [Launch -> {"none", "created", "running", "notify", "ended"}]
    /\ socket \in {"none", "connecting", "failed", "reading", "silent"}
    /\ handle \in [Handles -> {"null", "active", "closing"}]
    /\ isclosed \in BOOLEAN /\ asked \in BOOLEAN
    /\ listed \subseteq Req /\ inflight \subseteq Req /\ freed \subseteq Req
    /\ closecbs \in 0..MaxConnects /\ answered \subseteq Launch
    /\ fault \in {"none", "reinit", "race", "handle"}

\* The constructor.
Init ==
    /\ main = "idle" /\ result = "none"
    /\ connects = 0 /\ wait_count = 0
    /\ req = NoReq
    /\ connect_status = "CONNECT_DIS"
    /\ thread = [i \in Launch |-> "none"]
    /\ socket = "none"
    /\ handle = [h \in Handles |-> "null"]
    /\ isclosed = TRUE /\ asked = FALSE
    /\ listed = {} /\ inflight = {} /\ freed = {}
    /\ closecbs = 0 /\ answered = {}
    /\ fault = "none"

-----------------------------------------------------------------------------
(* The user's thread: Connect.                                             *)

\* closeinl does nothing on a closed client; init starts the handles; the
\* address is parsed and uv_tcp_connect called, either of which may fail.
Connect_Init ==
    /\ main = "idle" /\ isclosed
    /\ connects < MaxConnects
    /\ connects' = connects + 1
    /\ handle' = [h \in Handles |-> "active"]
    /\ isclosed' = FALSE
    /\ \/ socket' = "connecting" /\ main' = "create" /\ UNCHANGED result
       \/ socket' = "none" /\ main' = "idle" /\ result' = "false"
    /\ UNCHANGED <<wait_count, req, connect_status, thread, asked, closecbs, writes,
                   answered, fault>>

\* Connect on a client that is not closed: closeinl runs on this thread and
\* init starts handles that are still closing, or that another thread's loop
\* has.  Nothing is said of what follows.
Connect_Again ==
    /\ main = "idle" /\ ~isclosed
    /\ connects < MaxConnects
    /\ fault' = "reinit"
    /\ UNCHANGED <<user, connect_status, thread, stream, writes, answered>>

Connect_Thread ==
    /\ main = "create"
    /\ \/ /\ thread' = [thread EXCEPT ![connects] = "created"]
          /\ wait_count' = 0
          /\ main' = "poll"
          /\ UNCHANGED result
       \/ /\ result' = "false"
          /\ main' = "idle"
          /\ UNCHANGED <<thread, wait_count>>
    /\ UNCHANGED <<connects, req, connect_status, stream, writes, answered, fault>>

\* Mutant: the limit is off by one.
Connect_Poll_OneMore ==
    /\ main = "poll" /\ connect_status = "CONNECT_DIS"
    /\ IF wait_count <= MaxWait
       THEN wait_count' = wait_count + 1 /\ UNCHANGED main
       ELSE main' = "giveup" /\ UNCHANGED wait_count
    /\ UNCHANGED <<result, connects, req, connect_status, thread, stream, writes,
                   answered, fault>>

\* A turn of the polling loop: 100 ms for an answer.  The status is looked at
\* before they pass; after the last turn it is overwritten.
Connect_Poll ==
    /\ main = "poll" /\ connect_status = "CONNECT_DIS"
    /\ IF wait_count < MaxWait
       THEN wait_count' = wait_count + 1 /\ UNCHANGED main
       ELSE main' = "giveup" /\ UNCHANGED wait_count
    /\ UNCHANGED <<result, connects, req, connect_status, thread, stream, writes,
                   answered, fault>>

Connect_GiveUp ==
    /\ main = "giveup"
    /\ connect_status' = "CONNECT_TIMEOUT"
    /\ main' = "return"
    /\ UNCHANGED <<result, connects, wait_count, req, thread, stream, writes, answered,
                   fault>>

Connect_Leave ==
    /\ main = "poll" /\ connect_status # "CONNECT_DIS"
    /\ main' = "return"
    /\ UNCHANGED <<result, connects, wait_count, req, connect_status, thread, stream,
                   writes, answered, fault>>

Connect_Return ==
    /\ main = "return"
    /\ result' = IF connect_status = "CONNECT_FINISH" THEN "true" ELSE "false"
    /\ main' = "idle"
    /\ UNCHANGED <<connects, wait_count, req, connect_status, thread, stream, writes,
                   answered, fault>>

-----------------------------------------------------------------------------
(* The user's thread: Send, Close, the destructor.                         *)

\* Mutant: front() without pop_front().
TakeRequest_NotPopped(r) ==
    \/ r \in listed /\ UNCHANGED listed
    \/ listed = {} /\ r \notin inflight \cup freed /\ UNCHANGED listed

\* A recycled request, or a new one if there is none.
TakeRequest(r) ==
    \/ r \in listed /\ listed' = listed \ {r}
    \/ listed = {} /\ r \notin inflight \cup freed /\ UNCHANGED listed

\* write_buf is set and a request is taken, each under its mutex.
Send_Take ==
    /\ main = "idle"
    /\ \E r \in Req : TakeRequest(r) /\ req' = r
    /\ main' = "write"
    /\ UNCHANGED <<result, connects, wait_count, connect_status, thread, stream,
                   inflight, freed, answered, fault>>

\* uv_write takes it if the stream is connected and not closing, unless the
\* write itself fails.
Send_Write ==
    /\ main = "write"
    /\ \/ /\ socket \in {"reading", "silent"} /\ handle["client_handle"] = "active"
          /\ inflight' = inflight \cup {req}
          /\ req' = NoReq
          /\ main' = "idle"
       \/ main' = "giveback" /\ UNCHANGED <<inflight, req>>
    /\ UNCHANGED <<result, connects, wait_count, connect_status, thread, stream,
                   listed, freed, answered, fault>>

\* Before the first Connect client_handle is memory nobody has set: uv_write
\* ends the process, or finds no socket there and fails (Send_Write).
Send_NoHandle ==
    /\ main = "write" /\ connects = 0
    /\ fault' = "handle"
    /\ UNCHANGED <<user, connect_status, thread, stream, writes, answered>>

\* The request goes back without the mutex; an AfterSend at the same time
\* changes the list as well.
Send_GiveBack ==
    /\ main = "giveback"
    /\ \/ /\ listed' = listed \cup {req}
          /\ req' = NoReq
          /\ main' = "idle"
          /\ UNCHANGED fault
       \/ inflight # {} /\ fault' = "race" /\ UNCHANGED <<listed, req, main>>
    /\ UNCHANGED <<result, connects, wait_count, connect_status, thread, stream,
                   inflight, freed, answered>>

\* Close().
Close ==
    /\ main = "idle" /\ ~asked
    /\ asked' = TRUE
    /\ UNCHANGED <<user, connect_status, thread, socket, handle, isclosed, closecbs,
                   writes, answered, fault>>

\* The destructor, up to uv_thread_join.
Destroy ==
    /\ main = "idle"
    /\ asked' = TRUE
    /\ main' = "join"
    /\ UNCHANGED <<result, connects, wait_count, req, connect_status, thread, socket,
                   handle, isclosed, closecbs, writes, answered, fault>>

\* The handle is that of the last thread that was created.
LastThread == {i \in Launch : thread[i] # "none" /\ \A j \in Launch : j > i => thread[j] = "none"}

\* Mutant: the destructor does not wait.
Join_Skipped ==
    /\ main = "join"
    /\ main' = "free"
    /\ UNCHANGED <<result, connects, wait_count, req, connect_status, thread, stream,
                   writes, answered, fault>>

\* Without a thread the join of an uninitialised handle returns an error.
Join ==
    /\ main = "join"
    /\ \A i \in LastThread : thread[i] = "ended"
    /\ main' = "free"
    /\ UNCHANGED <<result, connects, wait_count, req, connect_status, thread, stream,
                   writes, answered, fault>>

\* The list is freed after the join.
Free ==
    /\ main = "free"
    /\ freed' = freed \cup listed
    /\ listed' = {}
    /\ main' = "destroyed"
    /\ UNCHANGED <<result, connects, wait_count, req, connect_status, thread, stream,
                   inflight, answered, fault>>

-----------------------------------------------------------------------------
(* The loop: ConnectThread and the callbacks.                              *)

ConnectThread(i) ==
    /\ thread[i] = "created"
    /\ thread' = [thread EXCEPT ![i] = "running"]
    /\ UNCHANGED <<user, connect_status, stream, writes, answered, fault>>

\* The connect succeeded; uv_read_start may still fail.
AfterConnect ==
    /\ socket = "connecting" /\ handle["client_handle"] = "active"
    /\ \/ /\ socket' = "reading"
          /\ connect_status' = "CONNECT_FINISH"
          /\ answered' = answered \cup {connects}
       \/ /\ socket' = "silent"
          /\ connect_status' = "CONNECT_ERROR"
          /\ UNCHANGED answered
    /\ UNCHANGED <<handle, isclosed, asked, closecbs, writes>>

\* Mutant: the answer is noted before its status is looked at.
AfterConnect_Refused_Finish ==
    /\ socket = "connecting"
    /\ socket' = "failed"
    /\ connect_status' = "CONNECT_FINISH"
    /\ UNCHANGED <<handle, isclosed, asked, closecbs, writes, answered>>

\* Refused, timed out or cancelled by a close: the status is left as it is.
AfterConnect_Refused ==
    /\ socket = "connecting"
    /\ socket' = "failed"
    /\ UNCHANGED <<connect_status, handle, isclosed, asked, closecbs, writes, answered>>

\* The peer has left.
AfterRecvError ==
    /\ socket = "reading" /\ handle["client_handle"] = "active"
    /\ asked' = TRUE
    /\ UNCHANGED <<connect_status, socket, handle, isclosed, closecbs, writes, answered>>

AfterSend(r) ==
    /\ r \in inflight
    /\ inflight' = inflight \ {r}
    /\ listed' = listed \cup {r}
    /\ UNCHANGED <<connect_status, stream, freed, answered>>

\* Mutant: only the socket is closed.
closeinl_SocketOnly ==
    /\ handle["prepare_handle"] = "active"
    /\ asked /\ ~isclosed
    /\ handle["client_handle"] = "active"
    /\ handle' = [handle EXCEPT !["client_handle"] = "closing"]
    /\ UNCHANGED <<connect_status, socket, isclosed, asked, closecbs, writes, answered>>

\* PrepareCB finds the request to close.
closeinl ==
    /\ handle["prepare_handle"] = "active"
    /\ asked /\ ~isclosed
    /\ handle' = [h \in Handles |-> "closing"]
    /\ UNCHANGED <<connect_status, socket, isclosed, asked, closecbs, writes, answered>>

\* Mutant: the check handle is not asked for.
AllClosed_NoCheck(hs) == \A h \in Handles \ {"check_handle"} : hs[h] = "null"

AllClosed(hs) == \A h \in Handles : hs[h] = "null"

\* The socket's comes after the answers to its connect and its writes.  The
\* last of the four declares the client closed.
AfterClientClose(i, h) ==
    /\ handle[h] = "closing"
    /\ h = "client_handle" => inflight = {} /\ socket # "connecting"
    /\ handle' = [handle EXCEPT ![h] = "null"]
    /\ IF AllClosed(handle')
       THEN isclosed' = TRUE /\ thread' = [thread EXCEPT ![i] = "notify"]
       ELSE UNCHANGED <<isclosed, thread>>
    /\ UNCHANGED <<connect_status, socket, asked, closecbs, writes, answered>>

\* ... then forgets the request to close and calls closecb, which may call
\* Close.  The user's thread may have gone on meanwhile.
Notify(i) ==
    /\ thread[i] = "notify"
    /\ asked' \in BOOLEAN
    /\ closecbs' = closecbs + 1
    /\ thread' = [thread EXCEPT ![i] = "running"]
    /\ UNCHANGED <<user, connect_status, socket, handle, isclosed, writes, answered,
                   fault>>

Callback ==
    \/ closeinl
    \/ AfterConnect_Refused
    \/ \E r \in Req : AfterSend(r)

Loop(i) ==
    /\ thread[i] = "running"
    /\ \/ Callback /\ UNCHANGED thread
       \/ \E h \in Handles : AfterClientClose(i, h)
    /\ UNCHANGED <<user, fault>>

Network(i) ==
    /\ thread[i] = "running"
    /\ (AfterConnect \/ AfterRecvError)
    /\ UNCHANGED <<user, thread, fault>>

\* uv_run returns once no handle is active or closing.
LoopEnds(i) ==
    /\ thread[i] = "running"
    /\ \A h \in Handles : handle[h] = "null"
    /\ thread' = [thread EXCEPT ![i] = "ended"]
    /\ UNCHANGED <<user, connect_status, stream, writes, answered, fault>>

\* The destructor joins a thread whose loop turns with nothing to do: a
\* request to close got lost between the two assignments of AfterClientClose.
JoinsForever ==
    /\ main = "join"
    /\ \E i \in Launch : thread[i] = "running"
    /\ handle["prepare_handle"] = "active" /\ ~asked

\* Nothing is left to do, or the outcome is undefined.
Stopped ==
    /\ main = "destroyed" \/ fault # "none" \/ JoinsForever
    /\ UNCHANGED vars

ConnectStep ==
    Connect_Thread \/ Connect_Poll \/ Connect_GiveUp \/ Connect_Leave \/ Connect_Return
SendStep == Send_Write \/ Send_NoHandle \/ Send_GiveBack
DestructorStep == Join \/ Free

Call == Connect_Init \/ Connect_Again \/ Send_Take \/ Close \/ Destroy
Return == ConnectStep \/ SendStep \/ DestructorStep
ThreadStep(i) == ConnectThread(i) \/ Loop(i) \/ Notify(i) \/ LoopEnds(i)

Step == Call \/ Return \/ \E i \in Launch : ThreadStep(i) \/ Network(i)
Next == (fault = "none" /\ Step) \/ Stopped

Spec == Init /\ [][Next]_vars

\* Threads run, and the system answers every write and every connect.  The
\* user has to call nothing, the peer to do nothing.
FairSpec ==
    /\ Spec
    /\ WF_vars(fault = "none" /\ Return)
    /\ \A i \in Launch : WF_vars(fault = "none" /\ ThreadStep(i))

-----------------------------------------------------------------------------
\* TcpClient's user hears of the end of each connection once: the closes that
\* were reported, or are about to be, are the connections that have ended.
ClosedOnce ==
    closecbs + Cardinality({i \in Launch : thread[i] = "notify"})
        = IF isclosed THEN connects ELSE connects - 1

\* Connect tells the truth, the first time: if it returns TRUE the server has
\* accepted, although the status it reads is written by two threads.  (It may
\* return FALSE and the connection come up later.)
ConnectIsTrue ==
    main = "idle" /\ result = "true" /\ connects = 1 => 1 \in answered

\* A write request is in one place: in the list, with libuv, in Send's hand,
\* or back on the heap.
RequestsOnce ==
    /\ listed \cap inflight = {} /\ listed \cap freed = {} /\ inflight \cap freed = {}
    /\ req \notin listed \cup inflight \cup freed

\* The destructor frees every request: libuv has none left once the loop has
\* ended, and those that came back from it are in the list by then.  From the
\* third Connect on that takes a last Connect which made its thread: without
\* it the destructor joins the thread before, while the loop of a still
\* earlier one may serve the new socket and write.
RequestsFreed ==
    main = "destroyed" /\ (connects <= 2 \/ thread[connects] # "none")
        => listed = {} /\ inflight = {}

\* The destructor of a client that was connected at most once comes to its
\* end, whatever became of the connect.
DestructorEnds ==
    (main = "join" /\ connects <= 1) ~> (main = "destroyed" \/ fault # "none")
=============================================================================
