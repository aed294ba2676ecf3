------------------------------ MODULE TcpServer ------------------------------
(***************************************************************************)
(* Starting and closing a server, class TCPServer of                       *)
(* src/src/common/TcpServer.cpp: Start creates the thread that runs the    *)
(* libuv loop and polls for it to come up; Close only sets a flag, which   *)
(* PrepareCB finds on the loop thread.  The loop ends when the last handle *)
(* of the server and of its connections has closed.                        *)
(*                                                                         *)
(* Each Start makes a thread for the one loop, and a Start on a server that *)
(* is not closed makes one more, if its bind lets it: nothing asks whether *)
(* the loop is running.  The object is not destroyed here: the program's   *)
(* one server is a global and lives as long as its process.                *)
(***************************************************************************)
EXTENDS Integers, FiniteSets

CONSTANTS
    Client,      \* bound: connections
    MaxStarts,   \* bound: calls of Start
    MaxWait      \* the polls before Start gives up (100 in the code)

ASSUME ServerAssumption ==
    MaxStarts \in Nat \ {0} /\ MaxWait \in Nat

VARIABLES
    main,         \* where the user's thread is in Start
    result,       \* what the last Start returned
    starts,       \* calls of Start
    wait_count,
    startstatus,
    thread,       \* the thread of each Start
    isclosed,
    asked,        \* isuseraskforclosed
    handle,       \* the four handles; "null": data is 0
    clients,      \* the connections
    mutex,        \* mutex_clients between two sections under it
    fault         \* why the process ended, if it did

user   == <<main, result, starts, wait_count>>
server == <<isclosed, asked, handle, clients>>
ending == <<mutex, fault>>
vars   == <<user, startstatus, thread, server, ending>>

Handles == {"server_handle", "prepare_handle", "check_handle", "idle_handle"}
Launch  == 1..MaxStarts

TypeOK ==
    /\ main \in {"idle", "create", "wait", "giveup", "return"}
    /\ result \in {"none", "true", "false"}
    /\ starts \in 0..MaxStarts /\ wait_count \in 0..MaxWait
    /\ startstatus \in {"START_DIS", "START_FINISH", "START_TIMEOUT"}
    /\ thread \in [Launch -> {"none", "created", "running", "notify", "ended"}]
    /\ isclosed \in BOOLEAN /\ asked \in BOOLEAN
    /\ handle \in [Handles -> {"null", "active", "closing"}]
    /\ clients \in [Client -> {"none", "open", "asked", "closing", "deleted"}]
    /\ mutex \in {"free", "leaked"}
    /\ fault \in {"none", "assert"}

\* The constructor.
Init ==
    /\ main = "idle" /\ result = "none"
    /\ starts = 0 /\ wait_count = 0
    /\ startstatus = "START_DIS"
    /\ thread = [i \in Launch |-> "none"]
    /\ isclosed = TRUE /\ asked = FALSE
    /\ handle = [h \in Handles |-> "null"]
    /\ clients = [c \in Client |-> "none"]
    /\ mutex = "free" /\ fault = "none"

-----------------------------------------------------------------------------
(* The user's thread: Start, Close, Send.                                  *)

\* init, bind, listen: a server that is not closed keeps its handles.
Start_Init ==
    /\ main = "idle" /\ starts < MaxStarts
    /\ starts' = starts + 1
    /\ IF isclosed
       THEN handle' = [h \in Handles |-> "active"] /\ isclosed' = FALSE
       ELSE UNCHANGED <<handle, isclosed>>
    /\ main' = "create"
    /\ UNCHANGED <<result, wait_count, startstatus, thread, asked, clients, ending>>

\* bind asserts that libuv took the address, which it may refuse a handle
\* that has one; a build without assertions goes on (Start_Init).
Start_BindFails ==
    /\ main = "idle" /\ starts < MaxStarts
    /\ ~isclosed
    /\ fault' = "assert"
    /\ UNCHANGED <<user, startstatus, thread, server, mutex>>

\* Mutant: the creator announces the start, not the thread.
Start_Thread_Announced ==
    /\ main = "create"
    /\ thread' = [thread EXCEPT ![starts] = "created"]
    /\ startstatus' = "START_FINISH"
    /\ wait_count' = 0
    /\ main' = "wait"
    /\ UNCHANGED <<result, starts, server, ending>>

Start_Thread ==
    /\ main = "create"
    /\ thread' = [thread EXCEPT ![starts] = "created"]
    /\ wait_count' = 0
    /\ main' = "wait"
    /\ UNCHANGED <<result, starts, startstatus, server, ending>>

\* Mutant: the polling loop has no limit.
Start_Poll_Forever ==
    /\ main = "wait"
    /\ startstatus = "START_DIS"
    /\ wait_count' = wait_count + 1
    /\ UNCHANGED <<main, result, starts, startstatus, thread, server, ending>>

\* A turn of the polling loop: the status is looked at, then 100 ms pass.
\* After the last turn it is overwritten, whatever it has become by then.
Start_Poll ==
    /\ main = "wait"
    /\ startstatus = "START_DIS"
    /\ IF wait_count < MaxWait
       THEN wait_count' = wait_count + 1 /\ UNCHANGED main
       ELSE main' = "giveup" /\ UNCHANGED wait_count
    /\ UNCHANGED <<result, starts, startstatus, thread, server, ending>>

Start_GiveUp ==
    /\ main = "giveup"
    /\ startstatus' = "START_TIMEOUT"
    /\ main' = "return"
    /\ UNCHANGED <<result, starts, wait_count, thread, server, ending>>

\* Out of the loop, the status is read once more.
Start_Leave ==
    /\ main = "wait" /\ startstatus # "START_DIS"
    /\ main' = "return"
    /\ UNCHANGED <<result, starts, wait_count, startstatus, thread, server, ending>>

Start_Return ==
    /\ main = "return"
    /\ result' = IF startstatus = "START_FINISH" THEN "true" ELSE "false"
    /\ main' = "idle"
    /\ UNCHANGED <<starts, wait_count, startstatus, thread, server, ending>>

\* At any time, before a Start too; a second request changes nothing.
Close ==
    /\ main = "idle" /\ ~asked
    /\ asked' = TRUE
    /\ UNCHANGED <<user, startstatus, thread, isclosed, handle, clients, ending>>

\* Those of clients_list.
Listed == {c \in Client : clients[c] \in {"open", "asked", "closing"}}

\* Send of a text to an id that is not listed: it returns with the mutex.
Send_Text(c) ==
    /\ main = "idle" /\ mutex = "free"
    /\ c \notin Listed
    /\ mutex' = "leaked"
    /\ UNCHANGED <<user, startstatus, thread, server, fault>>

-----------------------------------------------------------------------------
(* The thread of a Start: StartThread and the callbacks of its loop.       *)

StartThread(i) ==
    /\ thread[i] = "created"
    /\ startstatus' = "START_FINISH"
    /\ thread' = [thread EXCEPT ![i] = "running"]
    /\ UNCHANGED <<user, server, ending>>

\* Mutant: a server that is closing or closed accepts.
AcceptConnection_Closing(c) ==
    /\ mutex # "leaked"
    /\ clients[c] = "none"
    /\ clients' = [clients EXCEPT ![c] = "open"]
    /\ UNCHANGED <<isclosed, asked, handle>>

AcceptConnection(c) ==
    /\ handle["server_handle"] = "active"
    /\ mutex # "leaked"
    /\ clients[c] = "none"
    /\ clients' = [clients EXCEPT ![c] = "open"]
    /\ UNCHANGED <<isclosed, asked, handle>>

\* The peer leaves, or a video thread closes the connection.
ClientAsked(c) ==
    /\ clients[c] = "open"
    /\ clients' = [clients EXCEPT ![c] = "asked"]
    /\ UNCHANGED <<isclosed, asked, handle>>

\* The connection's own PrepareCB closes its handles.
ClientPrepareCB(c) ==
    /\ clients[c] = "asked"
    /\ clients' = [clients EXCEPT ![c] = "closing"]
    /\ UNCHANGED <<isclosed, asked, handle>>

ClientClosed(c) ==
    /\ clients[c] = "closing" /\ mutex # "leaked"
    /\ clients' = [clients EXCEPT ![c] = "deleted"]
    /\ UNCHANGED <<isclosed, asked, handle>>

\* Mutant: the connections are not asked to close.
closeinl_ServerOnly ==
    /\ handle["prepare_handle"] = "active"
    /\ asked /\ ~isclosed
    /\ handle' = [h \in Handles |-> "closing"]
    /\ UNCHANGED <<isclosed, asked, clients>>

\* PrepareCB of the server finds the request to close.
closeinl ==
    /\ handle["prepare_handle"] = "active"
    /\ asked /\ ~isclosed /\ mutex # "leaked"
    /\ clients' = [c \in Client |-> IF clients[c] = "open" THEN "asked" ELSE clients[c]]
    /\ handle' = [h \in Handles |-> "closing"]
    /\ UNCHANGED <<isclosed, asked>>

\* Mutant: the check handle is not asked for.
AllClosed_NoCheck(hs) == \A h \in Handles \ {"check_handle"} : hs[h] = "null"

AllClosed(hs) == \A h \in Handles : hs[h] = "null"

\* The last of the four declares the server closed.
AfterServerClose(i, h) ==
    /\ handle[h] = "closing"
    /\ handle' = [handle EXCEPT ![h] = "null"]
    /\ IF AllClosed(handle')
       THEN isclosed' = TRUE /\ thread' = [thread EXCEPT ![i] = "notify"]
       ELSE UNCHANGED <<isclosed, thread>>
    /\ UNCHANGED <<asked, clients>>

\* ... and then forgets the request to close; a user who has seen IsClose()
\* may have started the server again in between.
Notify(i) ==
    /\ thread[i] = "notify"
    /\ asked' = FALSE
    /\ thread' = [thread EXCEPT ![i] = "running"]
    /\ UNCHANGED <<user, startstatus, isclosed, handle, clients, ending>>

Callback ==
    \/ closeinl
    \/ \E c \in Client : ClientPrepareCB(c) \/ ClientClosed(c)

Event == \E c \in Client : AcceptConnection(c) \/ ClientAsked(c)

Loop(i) ==
    /\ thread[i] = "running"
    /\ \/ Callback /\ UNCHANGED thread
       \/ \E h \in Handles : AfterServerClose(i, h)
    /\ UNCHANGED <<user, startstatus, ending>>

Peer(i) ==
    /\ thread[i] = "running"
    /\ Event
    /\ UNCHANGED <<user, startstatus, thread, ending>>

\* uv_run returns once no handle is active or closing.
LoopAlive ==
    \/ \E h \in Handles : handle[h] # "null"
    \/ Listed # {}

LoopEnds(i) ==
    /\ thread[i] = "running"
    /\ ~LoopAlive
    /\ thread' = [thread EXCEPT ![i] = "ended"]
    /\ UNCHANGED <<user, startstatus, server, ending>>

\* The bounds leave nothing to do, the loop waits for a mutex for ever, or
\* the process is gone.
Stopped ==
    /\ \/ main = "idle" /\ \A i \in 1..starts : thread[i] = "ended"
       \/ mutex = "leaked" \/ fault # "none"
    /\ UNCHANGED vars

StartStep ==
    \/ Start_Thread \/ Start_Poll \/ Start_GiveUp \/ Start_Leave \/ Start_Return

UserStep ==
    \/ Start_Init \/ Start_BindFails \/ StartStep \/ Close
    \/ \E c \in Client : Send_Text(c)

ThreadStep(i) == StartThread(i) \/ Loop(i) \/ Notify(i) \/ LoopEnds(i)

Next ==
    \/ /\ fault = "none"
       /\ \/ UserStep
          \/ \E i \in Launch : ThreadStep(i) \/ Peer(i)
    \/ Stopped

Spec == Init /\ [][Next]_vars

\* Threads run: a Start returns, a thread that was created starts, a loop
\* runs its callbacks.  Nobody has to connect, to leave or to close.
FairSpec ==
    /\ Spec
    /\ WF_vars(fault = "none" /\ StartStep)
    /\ \A i \in Launch : WF_vars(fault = "none" /\ ThreadStep(i))

-----------------------------------------------------------------------------
(* Properties that hold.                                                   *)

\* A server says it is closed exactly when the close callbacks of its four
\* handles have all come, over any number of starts.
ClosedHandles == isclosed <=> \A h \in Handles : handle[h] = "null"

\* A close that was asked for before the server has closed brings the loop
\* thread to its end, connections included, on the first Start, unless a Send
\* to an unknown id has kept the mutex.  The request may be older than the
\* Start: then the server closes as soon as its loop turns.
ServerCloses ==
    (asked /\ ~isclosed /\ starts = 1) ~>
        (thread[1] = "ended" \/ starts > 1 \/ mutex = "leaked" \/ fault # "none")

\* TcpServer.cpp:717, Start waits for the server to be up: when the first
\* Start returns TRUE its thread has begun, although the status it reads may
\* be overwritten by the poll's timeout and by the thread.  A later Start
\* finds the status of the first one and does not wait.
StartWaits ==
    main = "idle" /\ result = "true" /\ starts = 1 => thread[1] \in {"running", "notify", "ended"}
=============================================================================
