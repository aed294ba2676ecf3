--------------------------- MODULE TcpClientProofs ---------------------------
(* Proofs about TcpClient.                                                  *)
EXTENDS TcpClient, FiniteSetTheorems, TLAPS

\* Between taking a request and handing it on, Send has one.
InHand == main \in {"write", "giveback"} => req \in Req

RequestSets == listed \subseteq Req /\ inflight \subseteq Req /\ freed \subseteq Req

RequestInv == RequestSets /\ InHand /\ RequestsOnce

\* The constructor starts without requests.
LEMMA RequestInit == Init => RequestInv
  BY ClientAssumption DEF Init, RequestInv, RequestSets, InHand, RequestsOnce

\* The user's thread: Send moves one request, the destructor all that are
\* listed, and nothing else in it touches them.
LEMMA UserKeepsRequests ==
  ASSUME RequestInv, Call \/ Return
  PROVE  RequestInv'
<1> USE DEF RequestInv, RequestSets, InHand, RequestsOnce
<1>1. CASE Connect_Init
  BY <1>1 DEF Connect_Init, writes
<1>2. CASE Connect_Again \/ Send_NoHandle
  BY <1>2 DEF Connect_Again, Send_NoHandle, writes, user
<1>3. CASE Send_Take
  <2>1. PICK r \in Req : TakeRequest(r) /\ req' = r
    BY <1>3 DEF Send_Take
  <2>2. inflight' = inflight /\ freed' = freed
    BY <1>3 DEF Send_Take
  <2>3. r \notin listed' \cup inflight \cup freed /\ listed' \subseteq listed
    BY <2>1 DEF TakeRequest
  <2> QED
    BY <2>1, <2>2, <2>3
<1>4. CASE Close
  BY <1>4 DEF Close, writes, user
<1>5. CASE Destroy
  BY <1>5 DEF Destroy, writes
<1>6. CASE ConnectStep
  BY <1>6 DEF ConnectStep, Connect_Thread, Connect_Poll, Connect_GiveUp, Connect_Leave,
              Connect_Return, writes
<1>7. CASE Send_Write
  BY <1>7, ClientAssumption DEF Send_Write
<1>8. CASE Send_GiveBack
  BY <1>8, ClientAssumption DEF Send_GiveBack
<1>9. CASE DestructorStep
  BY <1>9 DEF DestructorStep, Join, Free, writes
<1> QED
  BY <1>1, <1>2, <1>3, <1>4, <1>5, <1>6, <1>7, <1>8, <1>9 DEF Call, Return, SendStep

\* A thread of the loop: only AfterSend moves a request, back into the list.
LEMMA LoopKeepsRequests ==
  ASSUME RequestInv, NEW i \in Launch, ThreadStep(i) \/ Network(i)
  PROVE  RequestInv'
<1> USE DEF RequestInv, RequestSets, InHand, RequestsOnce
<1>1. CASE ConnectThread(i)
  BY <1>1 DEF ConnectThread, writes, user
<1>2. CASE Loop(i)
  <2>1. UNCHANGED <<main, req>>
    BY <1>2 DEF Loop, user
  <2>2. CASE \E r \in Req : AfterSend(r)
    BY <2>1, <2>2 DEF AfterSend
  <2>3. CASE closeinl \/ AfterConnect_Refused \/ \E h \in Handles : AfterClientClose(i, h)
    BY <2>1, <2>3 DEF closeinl, AfterConnect_Refused, AfterClientClose, writes
  <2> QED
    BY <1>2, <2>2, <2>3 DEF Loop, Callback
<1>3. CASE Notify(i)
  BY <1>3 DEF Notify, writes, user
<1>4. CASE LoopEnds(i)
  BY <1>4 DEF LoopEnds, writes, user
<1>5. CASE Network(i)
  BY <1>5 DEF Network, AfterConnect, AfterRecvError, writes, user
<1> QED
  BY <1>1, <1>2, <1>3, <1>4, <1>5 DEF ThreadStep

LEMMA RequestStep == ASSUME RequestInv, [Next]_vars PROVE RequestInv'
<1>1. CASE UNCHANGED vars
  BY <1>1 DEF vars, user, writes, RequestInv, RequestSets, InHand, RequestsOnce
<1>2. CASE Call \/ Return
  BY <1>2, UserKeepsRequests
<1>3. CASE \E i \in Launch : ThreadStep(i) \/ Network(i)
  BY <1>3, LoopKeepsRequests
<1> QED
  BY <1>1, <1>2, <1>3 DEF Next, Step, Stopped

\* A write request of the client library is in one place at a time, for any
\* number of requests and of connections.
THEOREM ClientRequestsAreOnce == Spec => []RequestsOnce
<1>1. RequestInv /\ [Next]_vars => RequestInv'
  BY RequestStep
<1>2. RequestInv => RequestsOnce
  BY DEF RequestInv
<1> QED
  BY RequestInit, <1>1, <1>2, PTL DEF Spec

-----------------------------------------------------------------------------
(* The close of a connection and the thread that reports it.               *)

ThreadStates == {"none", "created", "running", "notify", "ended"}

LaunchTypes ==
    /\ connects \in 0..MaxConnects /\ closecbs \in Nat
    /\ thread \in [Launch -> ThreadStates]
    /\ handle \in [Handles -> {"null", "active", "closing"}]

\* A client is closed when none of its handles is left.
ClosedHandles == isclosed <=> \A h \in Handles : handle[h] = "null"

\* Threads are made in the order of the Connects, one for each at most.
FreshThreads ==
    /\ \A i \in Launch : i > connects => thread[i] = "none"
    /\ main = "create" => connects \in Launch /\ thread[connects] = "none"

Notifying == {i \in Launch : thread[i] = "notify"}

LEMMA LaunchesAreFinite ==
    ASSUME NEW S \in SUBSET Launch
    PROVE  IsFiniteSet(S) /\ Cardinality(S) \in Nat
  <1>1. IsFiniteSet(Launch)
    BY ClientAssumption, FS_Interval DEF Launch
  <1> QED
    BY <1>1, FS_Subset, FS_CardinalityType

LEMMA NotifyingIsFinite == IsFiniteSet(Notifying) /\ Cardinality(Notifying) \in Nat
  <1>1. Notifying \in SUBSET Launch
    BY DEF Notifying
  <1> QED
    BY <1>1, LaunchesAreFinite

ClosesCounted ==
    closecbs + Cardinality(Notifying) = IF isclosed THEN connects ELSE connects - 1

LaunchInv == LaunchTypes /\ ClosedHandles /\ FreshThreads /\ ClosesCounted

LEMMA LaunchInit == ASSUME Init PROVE LaunchInv
  <1>1. LaunchTypes /\ ClosedHandles /\ FreshThreads
    BY ClientAssumption
    DEF Init, LaunchTypes, ThreadStates, ClosedHandles, FreshThreads
  <1>2. Notifying = {}
    BY DEF Init, Notifying
  <1>3. Cardinality(Notifying) = 0
    BY <1>2, FS_EmptySet
  <1> QED
    BY <1>1, <1>3 DEF Init, LaunchInv, ClosesCounted

\* What neither opens nor closes a connection.
LEMMA LaunchSame ==
    ASSUME LaunchInv, UNCHANGED <<connects, thread, handle, isclosed, closecbs>>,
           main' = "create" => main = "create"
    PROVE  LaunchInv'
  BY DEF LaunchInv, LaunchTypes, ClosedHandles, FreshThreads, ClosesCounted, Notifying

\* A thread that moves, but not to or from its report.
LEMMA LaunchMoves ==
    ASSUME LaunchInv, UNCHANGED <<connects, handle, isclosed, closecbs>>,
           NEW i \in Launch, NEW v \in ThreadStates \ {"notify"},
           thread[i] # "notify", thread' = [thread EXCEPT ![i] = v],
           main' = "create" => main = "create" /\ thread[i] # "none", i <= connects
    PROVE  LaunchInv'
  <1>1. LaunchTypes' /\ ClosedHandles'
    BY DEF LaunchInv, LaunchTypes, ClosedHandles
  <1>2. FreshThreads'
    BY DEF LaunchInv, LaunchTypes, FreshThreads, Launch
  <1>3. Notifying' = Notifying
    BY DEF LaunchInv, LaunchTypes, Notifying
  <1> QED
    BY <1>1, <1>2, <1>3 DEF LaunchInv, ClosesCounted

LEMMA LaunchByUser == ASSUME LaunchInv, Call \/ Return PROVE LaunchInv'
  <1>1. CASE Connect_Init
    <2>1. LaunchTypes' /\ ~isclosed' /\ closecbs' = closecbs /\ thread' = thread
      BY <1>1, ClientAssumption DEF Connect_Init, LaunchInv, LaunchTypes
    <2>2. ClosedHandles'
      BY <1>1 DEF Connect_Init, ClosedHandles, Handles
    <2>3. connects \in Nat /\ connects' = connects + 1 /\ connects' \in Launch /\ isclosed
      BY <1>1, ClientAssumption DEF Connect_Init, LaunchInv, LaunchTypes, Launch
    <2>4. FreshThreads'
      BY <2>1, <2>3 DEF LaunchInv, FreshThreads, Launch
    <2>5. Notifying' = Notifying
      BY <2>1 DEF Notifying
    <2>6. ClosesCounted'
      BY <2>1, <2>3, <2>5 DEF LaunchInv, ClosesCounted
    <2> QED
      BY <2>1, <2>2, <2>4, <2>6 DEF LaunchInv
  <1>2. CASE Connect_Thread
    <2>1. CASE UNCHANGED thread
      BY <1>2, <2>1, LaunchSame DEF Connect_Thread, stream
    <2>2. CASE thread' = [thread EXCEPT ![connects] = "created"] /\ main' = "poll"
      <3>1. connects \in Launch /\ thread[connects] = "none" /\ connects <= connects
        BY <1>2 DEF Connect_Thread, LaunchInv, FreshThreads, Launch
      <3> QED
        BY <1>2, <2>2, <3>1, LaunchMoves DEF Connect_Thread, stream, ThreadStates
    <2> QED
      BY <1>2, <2>1, <2>2 DEF Connect_Thread
  <1>3. CASE Connect_Poll \/ Connect_GiveUp \/ Connect_Leave \/ Connect_Return
    BY <1>3, LaunchSame DEF Connect_Poll, Connect_GiveUp, Connect_Leave, Connect_Return, stream
  <1>4. CASE Connect_Again \/ Send_NoHandle \/ Close \/ Destroy
    BY <1>4, LaunchSame DEF Connect_Again, Send_NoHandle, Close, Destroy, stream, user
  <1>5. CASE Send_Take \/ Send_Write \/ Send_GiveBack \/ DestructorStep
    BY <1>5, LaunchSame
    DEF Send_Take, Send_Write, Send_GiveBack, DestructorStep, Join, Free, stream
  <1> QED
    BY <1>1, <1>2, <1>3, <1>4, <1>5 DEF Call, Return, ConnectStep, SendStep

\* The last close callback makes its thread report ...
LEMMA LaunchByClose ==
    ASSUME LaunchInv, NEW i \in Launch, NEW h \in Handles, thread[i] = "running",
           AfterClientClose(i, h), UNCHANGED user
    PROVE  LaunchInv'
  <1>1. ~isclosed /\ i <= connects /\ connects' = connects /\ closecbs' = closecbs
    BY DEF AfterClientClose, LaunchInv, ClosedHandles, FreshThreads, LaunchTypes, Launch, user
  <1>2. handle' = [handle EXCEPT ![h] = "null"] /\ handle' \in [Handles -> {"null", "active", "closing"}]
    BY DEF AfterClientClose, LaunchInv, LaunchTypes
  <1>3. CASE AllClosed(handle')
    <2>1. isclosed' = TRUE /\ thread' = [thread EXCEPT ![i] = "notify"]
      BY <1>3 DEF AfterClientClose
    <2>2. LaunchTypes' /\ ClosedHandles' /\ FreshThreads'
      BY <1>1, <1>2, <1>3, <2>1
      DEF LaunchInv, LaunchTypes, ThreadStates, ClosedHandles, AllClosed, FreshThreads, user
    <2>3. i \notin Notifying /\ Notifying' = Notifying \cup {i}
      BY <2>1 DEF Notifying, LaunchInv, LaunchTypes
    <2>4. Cardinality(Notifying') = Cardinality(Notifying) + 1
      BY <2>3, NotifyingIsFinite, FS_AddElement
    <2>5. closecbs \in Nat /\ connects \in Nat /\ Cardinality(Notifying) \in Nat
      BY NotifyingIsFinite DEF LaunchInv, LaunchTypes
    <2>6. closecbs + (Cardinality(Notifying) + 1) = connects
      BY <1>1, <2>5 DEF LaunchInv, ClosesCounted
    <2>7. ClosesCounted'
      BY <1>1, <2>1, <2>4, <2>6 DEF ClosesCounted
    <2> QED
      BY <2>2, <2>7 DEF LaunchInv
  <1>4. CASE ~AllClosed(handle')
    <2>1. UNCHANGED <<isclosed, thread>>
      BY <1>4 DEF AfterClientClose
    <2>2. LaunchTypes' /\ ClosedHandles' /\ FreshThreads'
      BY <1>1, <1>2, <1>4, <2>1 DEF LaunchInv, LaunchTypes, ClosedHandles, AllClosed, FreshThreads, user
    <2>3. ClosesCounted'
      BY <1>1, <2>1 DEF LaunchInv, ClosesCounted, Notifying
    <2> QED
      BY <2>2, <2>3 DEF LaunchInv
  <1> QED
    BY <1>3, <1>4

\* ... and the report is one more call of the user's closecb.
LEMMA LaunchByNotify == ASSUME LaunchInv, NEW i \in Launch, Notify(i) PROVE LaunchInv'
  <1>1. /\ thread[i] = "notify" /\ thread' = [thread EXCEPT ![i] = "running"]
        /\ closecbs' = closecbs + 1
        /\ UNCHANGED <<main, connects, handle, isclosed>>
    BY DEF Notify, user
  <1>2. LaunchTypes' /\ ClosedHandles' /\ FreshThreads'
    BY <1>1 DEF LaunchInv, LaunchTypes, ThreadStates, ClosedHandles, FreshThreads
  <1>3. i \in Notifying /\ Notifying' = Notifying \ {i}
    BY <1>1 DEF Notifying, LaunchInv, LaunchTypes
  <1>4. Cardinality(Notifying') = Cardinality(Notifying) - 1
    BY <1>3, NotifyingIsFinite, FS_RemoveElement
  <1>5. closecbs \in Nat /\ Cardinality(Notifying) \in Nat
    BY NotifyingIsFinite DEF LaunchInv, LaunchTypes
  <1>6. (closecbs + 1) + (Cardinality(Notifying) - 1) = closecbs + Cardinality(Notifying)
    BY <1>5
  <1>7. ClosesCounted'
    BY <1>1, <1>4, <1>6 DEF LaunchInv, ClosesCounted
  <1> QED
    BY <1>2, <1>7 DEF LaunchInv

LEMMA LaunchByThread ==
    ASSUME LaunchInv, NEW i \in Launch, ThreadStep(i) \/ Network(i)
    PROVE  LaunchInv'
  <1>0. thread[i] # "none" => i <= connects
    BY DEF LaunchInv, LaunchTypes, FreshThreads, Launch
  <1>1. CASE ConnectThread(i)
    BY <1>0, <1>1, LaunchMoves DEF ConnectThread, ThreadStates, user, stream
  <1>2. CASE LoopEnds(i)
    BY <1>0, <1>2, LaunchMoves DEF LoopEnds, ThreadStates, user, stream
  <1>3. CASE Notify(i)
    BY <1>3, LaunchByNotify
  <1>4. CASE Loop(i)
    <2>1. CASE closeinl /\ UNCHANGED thread
      <3>1. UNCHANGED <<main, connects, thread, isclosed, closecbs>>
        BY <1>4, <2>1 DEF Loop, closeinl, user
      <3>2. LaunchTypes' /\ FreshThreads' /\ ClosesCounted'
        BY <2>1, <3>1 DEF closeinl, LaunchInv, LaunchTypes, FreshThreads, ClosesCounted, Notifying
      <3>3. ClosedHandles'
        BY <2>1, <3>1 DEF closeinl, ClosedHandles, Handles
      <3> QED
        BY <3>2, <3>3 DEF LaunchInv
    <2>2. CASE (AfterConnect_Refused \/ \E r \in Req : AfterSend(r)) /\ UNCHANGED thread
      BY <1>4, <2>2, LaunchSame DEF Loop, AfterConnect_Refused, AfterSend, user, stream
    <2>3. CASE \E h \in Handles : AfterClientClose(i, h)
      BY <1>4, <2>3, LaunchByClose DEF Loop
    <2> QED
      BY <1>4, <2>1, <2>2, <2>3 DEF Loop, Callback
  <1>5. CASE Network(i)
    BY <1>5, LaunchSame DEF Network, AfterConnect, AfterRecvError, user
  <1> QED
    BY <1>1, <1>2, <1>3, <1>4, <1>5 DEF ThreadStep

LEMMA LaunchStep == ASSUME LaunchInv, [Next]_vars PROVE LaunchInv'
  <1>1. CASE UNCHANGED vars
    BY <1>1, LaunchSame DEF vars, user, stream
  <1>2. CASE Step
    BY <1>2, LaunchByUser, LaunchByThread DEF Step
  <1> QED
    BY <1>1, <1>2 DEF Next, Stopped

\* The user's closecb is called once for each connection that has ended, over
\* any number of Connects and although two loops may run at a time.
THEOREM ClosedIsReportedOnce == Spec => []ClosedOnce
  <1>1. Init => LaunchInv
    BY LaunchInit
  <1>2. LaunchInv /\ [Next]_vars => LaunchInv'
    BY LaunchStep
  <1>3. LaunchInv => ClosedOnce
    BY DEF LaunchInv, ClosesCounted, Notifying, ClosedOnce
  <1> QED
    BY <1>1, <1>2, <1>3, PTL DEF Spec

-----------------------------------------------------------------------------
\* During the first Connect the status and the result are those of its answer.
FirstAnswer ==
    connects <= 1 =>
        (connect_status = "CONNECT_FINISH" \/ result = "true" => 1 \in answered)

LEMMA AnswerByUser == ASSUME LaunchInv, FirstAnswer, Call \/ Return PROVE FirstAnswer'
  <1> USE DEF FirstAnswer
  <1>1. CASE Connect_Init
    BY <1>1 DEF Connect_Init, LaunchInv, LaunchTypes
  <1>2. CASE Connect_Thread \/ Connect_Poll \/ Connect_GiveUp \/ Connect_Leave \/ Connect_Return
    BY <1>2 DEF Connect_Thread, Connect_Poll, Connect_GiveUp, Connect_Leave, Connect_Return
  <1>3. CASE Connect_Again \/ Send_NoHandle \/ Close \/ Destroy
    BY <1>3 DEF Connect_Again, Send_NoHandle, Close, Destroy, user
  <1>4. CASE Send_Take \/ Send_Write \/ Send_GiveBack \/ DestructorStep
    BY <1>4 DEF Send_Take, Send_Write, Send_GiveBack, DestructorStep, Join, Free
  <1> QED
    BY <1>1, <1>2, <1>3, <1>4 DEF Call, Return, ConnectStep, SendStep

\* The one thread there is in the first Connect gives the answer of that one.
LEMMA AnswerByThread ==
    ASSUME LaunchInv, FirstAnswer, NEW i \in Launch, ThreadStep(i) \/ Network(i)
    PROVE  FirstAnswer'
  <1> USE DEF FirstAnswer
  <1>1. CASE ConnectThread(i) \/ Notify(i) \/ LoopEnds(i)
    BY <1>1 DEF ConnectThread, Notify, LoopEnds, user
  <1>2. CASE Loop(i)
    BY <1>2 DEF Loop, Callback, closeinl, AfterConnect_Refused, AfterSend, AfterClientClose, user
  <1>3. CASE Network(i)
    <2>1. connects <= 1 => connects = 1
      BY <1>3 DEF Network, LaunchInv, LaunchTypes, FreshThreads, Launch
    <2> QED
      BY <1>3, <2>1 DEF Network, AfterConnect, AfterRecvError, user
  <1> QED
    BY <1>1, <1>2, <1>3 DEF ThreadStep

\* A first Connect that returns TRUE was accepted by the server, whatever the
\* two threads that write the status it reads have done to it.
THEOREM ConnectTellsTheTruth == Spec => []ConnectIsTrue
  <1>1. Init => LaunchInv /\ FirstAnswer
    BY LaunchInit DEF Init, FirstAnswer
  <1>2. LaunchInv /\ FirstAnswer /\ [Next]_vars => LaunchInv' /\ FirstAnswer'
    <2> SUFFICES ASSUME LaunchInv, FirstAnswer, [Next]_vars PROVE FirstAnswer'
      BY LaunchStep
    <2>1. CASE UNCHANGED vars
      BY <2>1 DEF FirstAnswer, vars, user
    <2> QED
      BY <2>1, AnswerByUser, AnswerByThread DEF Next, Step, Stopped
  <1>3. FirstAnswer => ConnectIsTrue
    BY DEF FirstAnswer, ConnectIsTrue
  <1> QED
    BY <1>1, <1>2, <1>3, PTL DEF Spec

-----------------------------------------------------------------------------
(* What the join of the last thread means for the requests libuv has.      *)

NoLoop == \A i \in Launch : thread[i] \in {"none", "ended"}

\* Some loop holds a connected socket, or libuv has no request.
InflightNeedsLoop ==
    /\ handle["client_handle"] = "null" => inflight = {}
    /\ NoLoop => inflight = {}
    /\ NoLoop => handle["client_handle"] = "null" \/ socket \notin {"reading", "silent"}

\* The loop of the last Connect ended after all the handles.
LastEndsClosed ==
    connects \in Launch /\ thread[connects] = "ended" =>
        \A h \in Handles : handle[h] = "null"

JoinedLast == connects <= 2 \/ thread[connects] # "none"

AllGivenBack ==
    JoinedLast => /\ main \in {"free", "destroyed"} => inflight = {}
                  /\ main = "destroyed" => listed = {}

FreedInv == InflightNeedsLoop /\ LastEndsClosed /\ AllGivenBack

\* Whom the destructor joins: with the last thread ended, no loop that has a
\* request is left.
LEMMA JoinMeansNoRequest ==
    ASSUME LaunchInv, FreedInv, JoinedLast, \A i \in LastThread : thread[i] = "ended"
    PROVE  inflight = {}
  <1>0. connects \in Nat /\ Launch = 1..MaxConnects /\ connects <= MaxConnects
        /\ \A i \in Launch : i > connects => thread[i] = "none"
    BY ClientAssumption DEF LaunchInv, LaunchTypes, FreshThreads, Launch
  <1>1. CASE connects \in Launch /\ thread[connects] # "none"
    <2>1. connects \in LastThread
      BY <1>0, <1>1 DEF LastThread
    <2> QED
      BY <1>1, <2>1 DEF FreedInv, LastEndsClosed, InflightNeedsLoop, Handles
  <1>2. CASE ~(connects \in Launch /\ thread[connects] # "none")
    <2>1. connects <= 2 /\ (connects \in Launch => thread[connects] = "none")
      BY <1>0, <1>2 DEF JoinedLast
    <2>2. \A i \in Launch : thread[i] # "none" => i = 1
      BY <1>0, <2>1
    <2>3. \A i \in Launch : thread[i] # "none" => i \in LastThread
      BY <1>0, <2>2 DEF LastThread
    <2> QED
      BY <2>3 DEF FreedInv, InflightNeedsLoop, NoLoop
  <1> QED
    BY <1>1, <1>2

LEMMA FreedSame ==
    ASSUME FreedInv, UNCHANGED <<connects, thread, handle>>,
           socket' \in {"reading", "silent"} => socket' = socket,
           inflight' = inflight \/ inflight' = {}, main' \notin {"free", "destroyed"}
    PROVE  FreedInv'
  BY DEF FreedInv, InflightNeedsLoop, LastEndsClosed, AllGivenBack, NoLoop

LEMMA FreedByUser == ASSUME LaunchInv, FreedInv, Call \/ Return PROVE FreedInv'
  <1>1. CASE Connect_Init
    <2>1. /\ UNCHANGED <<thread, inflight, listed>> /\ connects \in Nat
          /\ connects' = connects + 1 /\ connects' \in Launch
          /\ socket' \notin {"reading", "silent"} /\ main' \in {"create", "idle"}
          /\ handle' = [h \in Handles |-> "active"]
      BY <1>1, ClientAssumption DEF Connect_Init, writes, LaunchInv, LaunchTypes, Launch
    <2>2. thread'[connects'] = "none"
      BY <2>1 DEF LaunchInv, FreshThreads
    <2> QED
      BY <2>1, <2>2
      DEF FreedInv, InflightNeedsLoop, LastEndsClosed, AllGivenBack, NoLoop, Handles
  <1>2. CASE Connect_Thread
    <2>1. CASE UNCHANGED thread
      BY <1>2, <2>1, FreedSame DEF Connect_Thread, stream, writes
    <2>2. CASE thread' = [thread EXCEPT ![connects] = "created"] /\ main' = "poll"
      <3>1. connects \in Launch /\ thread'[connects] = "created" /\ ~NoLoop'
        BY <1>2, <2>2 DEF Connect_Thread, LaunchInv, LaunchTypes, FreshThreads, NoLoop
      <3> QED
        BY <1>2, <2>2, <3>1
        DEF Connect_Thread, stream, writes, FreedInv, InflightNeedsLoop, LastEndsClosed,
            AllGivenBack
    <2> QED
      BY <1>2, <2>1, <2>2 DEF Connect_Thread
  <1>3. CASE Connect_Poll \/ Connect_GiveUp \/ Connect_Leave \/ Connect_Return
    BY <1>3, FreedSame
    DEF Connect_Poll, Connect_GiveUp, Connect_Leave, Connect_Return, stream, writes
  <1>4. CASE Connect_Again \/ Send_NoHandle \/ Close \/ Destroy
    BY <1>4, FreedSame DEF Connect_Again, Send_NoHandle, Close, Destroy, stream, writes, user
  <1>5. CASE Send_Take \/ Send_GiveBack
    BY <1>5, FreedSame DEF Send_Take, Send_GiveBack, stream
  <1>6. CASE Send_Write
    <2>1. CASE main' = "giveback"
      BY <1>6, <2>1, FreedSame DEF Send_Write, stream
    <2>2. CASE socket \in {"reading", "silent"} /\ handle["client_handle"] = "active" /\ main' = "idle"
      <3>1. ~NoLoop
        BY <2>2 DEF FreedInv, InflightNeedsLoop
      <3> QED
        BY <1>6, <2>2, <3>1
        DEF Send_Write, stream, FreedInv, InflightNeedsLoop, LastEndsClosed, AllGivenBack, NoLoop
    <2> QED
      BY <1>6, <2>1, <2>2 DEF Send_Write
  <1>7. CASE Join
    <2>1. JoinedLast => inflight = {}
      BY <1>7, JoinMeansNoRequest DEF Join
    <2> QED
      BY <1>7, <2>1
      DEF Join, stream, writes, FreedInv, InflightNeedsLoop, LastEndsClosed, AllGivenBack,
          NoLoop, JoinedLast
  <1>8. CASE Free
    BY <1>8
    DEF Free, stream, FreedInv, InflightNeedsLoop, LastEndsClosed, AllGivenBack, NoLoop, JoinedLast
  <1> QED
    BY <1>1, <1>2, <1>3, <1>4, <1>5, <1>6, <1>7, <1>8
    DEF Call, Return, ConnectStep, SendStep, DestructorStep

LEMMA FreedByThread ==
    ASSUME LaunchInv, FreedInv, NEW i \in Launch, ThreadStep(i) \/ Network(i)
    PROVE  FreedInv'
  <1>0. /\ UNCHANGED <<main, connects>>
        /\ thread[i] # "none" /\ connects \in Launch
        /\ thread \in [Launch -> ThreadStates]
    BY ClientAssumption
    DEF ThreadStep, ConnectThread, Loop, Notify, LoopEnds, Network, user, LaunchInv,
        LaunchTypes, FreshThreads, Launch
  <1>1. CASE ConnectThread(i) \/ Notify(i)
    <2>1. thread' = [thread EXCEPT ![i] = "running"] /\ ~NoLoop'
          /\ UNCHANGED <<handle, inflight, listed>>
      BY <1>0, <1>1 DEF ConnectThread, Notify, NoLoop, stream, writes
    <2> QED
      BY <1>0, <2>1 DEF FreedInv, InflightNeedsLoop, LastEndsClosed, AllGivenBack, JoinedLast
  <1>2. CASE LoopEnds(i)
    <2>1. /\ \A h \in Handles : handle[h] = "null"
          /\ UNCHANGED <<handle, inflight, listed>>
          /\ thread' = [thread EXCEPT ![i] = "ended"]
      BY <1>2 DEF LoopEnds, stream, writes
    <2>2. handle["client_handle"] = "null" /\ inflight = {}
      BY <2>1 DEF Handles, FreedInv, InflightNeedsLoop
    <2> QED
      BY <1>0, <2>1, <2>2
      DEF FreedInv, InflightNeedsLoop, LastEndsClosed, AllGivenBack, JoinedLast
  <1>3. CASE Network(i)
    <2>1. thread[i] = "running" /\ ~NoLoop /\ UNCHANGED <<thread, handle, inflight, listed>>
      BY <1>3 DEF Network, AfterConnect, AfterRecvError, NoLoop, stream, writes
    <2> QED
      BY <1>0, <2>1
      DEF FreedInv, InflightNeedsLoop, LastEndsClosed, AllGivenBack, NoLoop, JoinedLast
  <1>4. CASE Loop(i)
    <2>1. thread[i] = "running" /\ ~NoLoop
      BY <1>4 DEF Loop, NoLoop
    <2>2. CASE closeinl /\ UNCHANGED thread
      <3>1. handle["prepare_handle"] = "active" /\ UNCHANGED <<inflight, listed>>
            /\ handle'["client_handle"] # "null"
        BY <2>2 DEF closeinl, writes, Handles
      <3>2. thread[connects] # "ended"
        BY <1>0, <3>1 DEF FreedInv, LastEndsClosed, Handles
      <3> QED
        BY <1>0, <2>1, <2>2, <3>1, <3>2
        DEF FreedInv, InflightNeedsLoop, LastEndsClosed, AllGivenBack, NoLoop, JoinedLast
    <2>3. CASE AfterConnect_Refused /\ UNCHANGED thread
      BY <1>0, <2>1, <2>3
      DEF AfterConnect_Refused, writes, FreedInv, InflightNeedsLoop, LastEndsClosed,
          AllGivenBack, NoLoop, JoinedLast
    <2>4. ASSUME NEW r \in Req, AfterSend(r), UNCHANGED thread PROVE FreedInv'
      <3>1. inflight # {} /\ inflight' \subseteq inflight /\ UNCHANGED handle
        BY <2>4 DEF AfterSend, stream
      <3>2. JoinedLast => main \notin {"free", "destroyed"}
        BY <3>1 DEF FreedInv, AllGivenBack
      <3>3. handle["client_handle"] # "null"
        BY <3>1 DEF FreedInv, InflightNeedsLoop
      <3> QED
        BY <1>0, <2>1, <2>4, <3>1, <3>2, <3>3
        DEF FreedInv, InflightNeedsLoop, LastEndsClosed, AllGivenBack, NoLoop, JoinedLast
    <2>5. ASSUME NEW h \in Handles, AfterClientClose(i, h) PROVE FreedInv'
      <3>1. /\ handle[h] = "closing" /\ handle' = [handle EXCEPT ![h] = "null"]
            /\ h = "client_handle" => inflight = {}
            /\ UNCHANGED <<inflight, listed>>
            /\ thread' = thread \/ thread' = [thread EXCEPT ![i] = "notify"]
        BY <2>5 DEF AfterClientClose, writes
      <3>2. thread[connects] # "ended" /\ thread'[connects] # "ended"
        BY <1>0, <3>1 DEF FreedInv, LastEndsClosed
      <3>3. ~NoLoop' /\ (thread'[connects] # "none" <=> thread[connects] # "none")
        BY <1>0, <2>1, <3>1 DEF NoLoop
      <3>4. handle'["client_handle"] = "null" => inflight = {}
        BY <3>1 DEF FreedInv, InflightNeedsLoop, LaunchInv, LaunchTypes
      <3> QED
        BY <1>0, <3>1, <3>2, <3>3, <3>4
        DEF FreedInv, InflightNeedsLoop, LastEndsClosed, AllGivenBack, JoinedLast
    <2> QED
      BY <1>4, <2>2, <2>3, <2>4, <2>5 DEF Loop, Callback
  <1> QED
    BY <1>1, <1>2, <1>3, <1>4 DEF ThreadStep

\* The destructor leaves no request behind, in the list or with libuv, if the
\* last Connect made the thread it joins, or there were two Connects at most.
THEOREM DestructorFrees == Spec => []RequestsFreed
  <1>1. Init => LaunchInv /\ FreedInv
    <2> SUFFICES ASSUME Init PROVE FreedInv
      BY LaunchInit
    <2>1. connects \notin Launch /\ \A i \in Launch : thread[i] = "none"
      BY DEF Init, Launch
    <2> QED
      BY <2>1 DEF Init, FreedInv, InflightNeedsLoop, LastEndsClosed, AllGivenBack, Handles
  <1>2. LaunchInv /\ FreedInv /\ [Next]_vars => LaunchInv' /\ FreedInv'
    <2> SUFFICES ASSUME LaunchInv, FreedInv, [Next]_vars PROVE FreedInv'
      BY LaunchStep
    <2>1. CASE UNCHANGED vars
      BY <2>1
      DEF vars, user, stream, writes, FreedInv, InflightNeedsLoop, LastEndsClosed,
          AllGivenBack, NoLoop, JoinedLast
    <2> QED
      BY <2>1, FreedByUser, FreedByThread DEF Next, Step, Stopped
  <1>3. FreedInv => RequestsFreed
    BY DEF FreedInv, AllGivenBack, JoinedLast, RequestsFreed
  <1> QED
    BY <1>1, <1>2, <1>3, PTL DEF Spec

-----------------------------------------------------------------------------
LEMMA TypeInit == ASSUME Init PROVE TypeOK
  <1>1. /\ thread \in [Launch -> {"none", "created", "running", "notify", "ended"}]
        /\ handle \in [Handles -> {"null", "active", "closing"}]
    BY DEF Init
  <1>2. connects \in 0..MaxConnects /\ wait_count \in 0..MaxWait /\ closecbs \in 0..MaxConnects
    BY ClientAssumption DEF Init
  <1> QED
    BY <1>1, <1>2 DEF Init, TypeOK, MainPc

LEMMA TypeStep == ASSUME TypeOK, LaunchInv, RequestInv, [Next]_vars PROVE TypeOK'
  <1> USE DEF TypeOK, MainPc
  <1>0. LaunchInv' /\ RequestInv'
    BY LaunchStep, RequestStep
  <1>1. /\ connects' \in 0..MaxConnects /\ closecbs' \in 0..MaxConnects
        /\ thread' \in [Launch -> {"none", "created", "running", "notify", "ended"}]
        /\ handle' \in [Handles -> {"null", "active", "closing"}]
        /\ listed' \subseteq Req /\ inflight' \subseteq Req /\ freed' \subseteq Req
    <2>1. /\ connects' \in 0..MaxConnects
          /\ thread' \in [Launch -> {"none", "created", "running", "notify", "ended"}]
          /\ handle' \in [Handles -> {"null", "active", "closing"}]
          /\ listed' \subseteq Req /\ inflight' \subseteq Req /\ freed' \subseteq Req
      BY <1>0 DEF LaunchInv, LaunchTypes, ThreadStates, RequestInv, RequestSets
    <2>2. Notifying' \in SUBSET Launch
      BY DEF Notifying
    <2>3. Cardinality(Notifying') \in Nat
      BY <2>2, LaunchesAreFinite
    <2>4. /\ closecbs' \in Nat
          /\ closecbs' + Cardinality(Notifying') = IF isclosed' THEN connects' ELSE connects' - 1
      BY <1>0 DEF LaunchInv, LaunchTypes, ClosesCounted
    <2>5. closecbs' \in 0..MaxConnects
      BY <2>1, <2>3, <2>4, ClientAssumption
    <2> QED
      BY <2>1, <2>5
  <1>2. CASE Connect_Init
    BY <1>1, <1>2 DEF Connect_Init
  <1>3. CASE Connect_Thread \/ Connect_Leave \/ Connect_Return \/ Connect_GiveUp
    BY <1>1, <1>3, ClientAssumption
    DEF Connect_Thread, Connect_Leave, Connect_Return, Connect_GiveUp, stream
  <1>4. CASE Connect_Poll
    <2>1. wait_count' \in 0..MaxWait
      BY <1>4, ClientAssumption DEF Connect_Poll
    <2> QED
      BY <1>1, <1>4, <2>1 DEF Connect_Poll, stream
  <1>5. CASE Connect_Again \/ Send_NoHandle \/ Close \/ Destroy
    BY <1>1, <1>5 DEF Connect_Again, Send_NoHandle, Close, Destroy, user, stream
  <1>6. CASE Send_Take \/ Send_Write \/ Send_GiveBack \/ DestructorStep
    BY <1>1, <1>6
    DEF Send_Take, Send_Write, Send_GiveBack, DestructorStep, Join, Free, stream
  <1>7. ASSUME NEW i \in Launch, ConnectThread(i) \/ Notify(i) \/ LoopEnds(i) PROVE TypeOK'
    BY <1>1, <1>7 DEF ConnectThread, Notify, LoopEnds, user, stream
  <1>8. ASSUME NEW i \in Launch, Loop(i) PROVE TypeOK'
    <2>1. CASE Callback /\ UNCHANGED thread
      BY <1>1, <1>8, <2>1
      DEF Loop, Callback, closeinl, AfterConnect_Refused, AfterSend, user, stream
    <2>2. ASSUME NEW h \in Handles, AfterClientClose(i, h) PROVE TypeOK'
      <3>1. isclosed' \in BOOLEAN
        BY <2>2 DEF AfterClientClose
      <3> QED
        BY <1>1, <1>8, <2>2, <3>1 DEF Loop, AfterClientClose, user
    <2> QED
      BY <1>8, <2>1, <2>2 DEF Loop
  <1>9. ASSUME NEW i \in Launch, Network(i) PROVE TypeOK'
    <2>1. connects \in Launch
      BY <1>9, ClientAssumption DEF Network, LaunchInv, LaunchTypes, FreshThreads, Launch
    <2>2. CASE AfterConnect
      BY <1>1, <1>9, <2>1, <2>2 DEF Network, AfterConnect, user
    <2>3. CASE AfterRecvError
      BY <1>1, <1>9, <2>3 DEF Network, AfterRecvError, user
    <2> QED
      BY <1>9, <2>2, <2>3 DEF Network
  <1>10. CASE UNCHANGED vars
    BY <1>10 DEF vars, user, stream, writes
  <1> QED
    BY <1>2, <1>3, <1>4, <1>5, <1>6, <1>7, <1>8, <1>9, <1>10
    DEF Next, Step, Stopped, Call, Return, ConnectStep, SendStep, ThreadStep

\* The variables of the client library keep their types.  That the reports of
\* closecb stay within the Connects needs the count of those that are due.
THEOREM TypeCorrect == Spec => []TypeOK
  <1>1. Init => TypeOK /\ LaunchInv /\ RequestInv
    BY TypeInit, LaunchInit, RequestInit
  <1>2. TypeOK /\ LaunchInv /\ RequestInv /\ [Next]_vars => (TypeOK /\ LaunchInv /\ RequestInv)'
    BY TypeStep, LaunchStep, RequestStep
  <1> QED
    BY <1>1, <1>2, PTL DEF Spec

=============================================================================
