--------------------------- MODULE TcpServerProofs ---------------------------
(* Theorems about TcpServer, for every value of its constants.              *)
EXTENDS TcpServer, TLAPS

HandleTypes == handle \in [Handles -> {"null", "active", "closing"}]

ClosedInv == HandleTypes /\ ClosedHandles

LEMMA ClosedInit == ASSUME Init PROVE ClosedInv
  BY DEF Init, ClosedInv, HandleTypes, ClosedHandles

\* Every close callback but the last leaves the server open.
LEMMA ClosedByLoop == ASSUME ClosedInv, NEW i \in Launch, Loop(i) PROVE ClosedInv'
  <1> USE DEF ClosedInv, HandleTypes, ClosedHandles
  <1>1. CASE closeinl
    BY <1>1 DEF closeinl, Handles
  <1>2. ASSUME NEW h \in Handles, AfterServerClose(i, h) PROVE ClosedInv'
    BY <1>2 DEF AfterServerClose, AllClosed
  <1>3. ASSUME NEW c \in Client, ClientPrepareCB(c) \/ ClientClosed(c) PROVE ClosedInv'
    BY <1>3 DEF ClientPrepareCB, ClientClosed
  <1> QED
    BY <1>1, <1>2, <1>3 DEF Loop, Callback

LEMMA ClosedStep == ASSUME ClosedInv, [Next]_vars PROVE ClosedInv'
  <1> USE DEF ClosedInv, HandleTypes, ClosedHandles
  <1>1. CASE Start_Init
    BY <1>1 DEF Start_Init, Handles
  <1>2. CASE StartStep \/ Start_BindFails \/ Close \/ Stopped \/ UNCHANGED vars
    BY <1>2
    DEF StartStep, Start_Thread, Start_Poll, Start_GiveUp, Start_Leave, Start_Return,
        Start_BindFails, Close, Stopped, vars, server
  <1>3. ASSUME NEW c \in Client, Send_Text(c) PROVE ClosedInv'
    BY <1>3 DEF Send_Text, server
  <1>4. ASSUME NEW i \in Launch, StartThread(i) \/ Notify(i) \/ Peer(i) \/ LoopEnds(i) PROVE ClosedInv'
    BY <1>4
    DEF StartThread, Notify, Peer, Event, AcceptConnection, ClientAsked, LoopEnds, server
  <1>5. ASSUME NEW i \in Launch, Loop(i) PROVE ClosedInv'
    BY <1>5, ClosedByLoop
  <1> QED
    BY <1>1, <1>2, <1>3, <1>4, <1>5 DEF Next, UserStep, ThreadStep

\* IsClose() says TRUE exactly when all four handles of the server have
\* called back, over any number of starts, closes and connections.
THEOREM ClosedMeansNoHandle == Spec => []ClosedHandles
  <1>1. Init => ClosedInv
    BY ClosedInit
  <1>2. ClosedInv /\ [Next]_vars => ClosedInv'
    BY ClosedStep
  <1>3. ClosedInv => ClosedHandles
    BY DEF ClosedInv
  <1> QED
    BY <1>1, <1>2, <1>3, PTL DEF Spec

-----------------------------------------------------------------------------
LEMMA TypeInit == ASSUME Init PROVE TypeOK
  <1>1. starts \in 0..MaxStarts /\ wait_count \in 0..MaxWait
    BY ServerAssumption DEF Init
  <1>2. /\ thread \in [Launch -> {"none", "created", "running", "notify", "ended"}]
        /\ handle \in [Handles -> {"null", "active", "closing"}]
        /\ clients \in [Client -> {"none", "open", "asked", "closing", "deleted"}]
    BY DEF Init
  <1> QED
    BY <1>1, <1>2 DEF Init, TypeOK

LEMMA TypeStep == ASSUME TypeOK, [Next]_vars PROVE TypeOK'
  <1> USE DEF TypeOK
  <1>1. CASE Start_Init
    <2>1. handle' \in [Handles -> {"null", "active", "closing"}]
      BY <1>1 DEF Start_Init
    <2>2. starts' \in 0..MaxStarts
      BY <1>1, ServerAssumption DEF Start_Init
    <2> QED
      BY <1>1, <2>1, <2>2 DEF Start_Init, ending
  <1>2. CASE Start_Thread \/ Start_Poll
    BY <1>2, ServerAssumption DEF Start_Thread, Start_Poll, server, ending
  <1>3. CASE Start_GiveUp \/ Start_Leave \/ Start_Return
    BY <1>3 DEF Start_GiveUp, Start_Leave, Start_Return, server, ending
  <1>4. CASE Start_BindFails \/ Close \/ Stopped \/ UNCHANGED vars
    BY <1>4 DEF Start_BindFails, Close, Stopped, vars, user, server, ending
  <1>5. ASSUME NEW c \in Client, Send_Text(c) PROVE TypeOK'
    BY <1>5 DEF Send_Text, user, server
  <1>6. ASSUME NEW i \in Launch, StartThread(i) \/ Notify(i) \/ LoopEnds(i) PROVE TypeOK'
    <2>1. thread' \in [Launch -> {"none", "created", "running", "notify", "ended"}]
      BY <1>6 DEF StartThread, Notify, LoopEnds
    <2>2. CASE StartThread(i)
      BY <2>1, <2>2 DEF StartThread, user, server, ending
    <2>3. CASE Notify(i)
      BY <2>1, <2>3 DEF Notify, user, ending
    <2>4. CASE LoopEnds(i)
      BY <2>1, <2>4 DEF LoopEnds, user, server, ending
    <2> QED
      BY <1>6, <2>2, <2>3, <2>4
  <1>7. ASSUME NEW i \in Launch, Peer(i) PROVE TypeOK'
    BY <1>7 DEF Peer, Event, AcceptConnection, ClientAsked, user, ending
  <1>8. ASSUME NEW i \in Launch, Loop(i) PROVE TypeOK'
    <2>1. CASE Callback /\ UNCHANGED thread
      BY <1>8, <2>1 DEF Loop, Callback, closeinl, ClientPrepareCB, ClientClosed, user, ending
    <2>2. ASSUME NEW h \in Handles, AfterServerClose(i, h) PROVE TypeOK'
      BY <1>8, <2>2 DEF Loop, AfterServerClose, user, ending
    <2> QED
      BY <1>8, <2>1, <2>2 DEF Loop
  <1> QED
    BY <1>1, <1>2, <1>3, <1>4, <1>5, <1>6, <1>7, <1>8
    DEF Next, UserStep, StartStep, ThreadStep

\* The variables of the server keep their types, for any number of starts,
\* connections and polls.
THEOREM TypeCorrect == Spec => []TypeOK
  <1>1. Init => TypeOK
    BY TypeInit
  <1>2. TypeOK /\ [Next]_vars => TypeOK'
    BY TypeStep
  <1> QED
    BY <1>1, <1>2, PTL DEF Spec

-----------------------------------------------------------------------------
Begun == {"running", "notify", "ended"}

\* Until the second Start, the status and the result speak of one thread.
FirstStart ==
    starts <= 1 =>
        /\ \A i \in Launch \ {1} : thread[i] = "none"
        /\ starts = 0 \/ main = "create" => thread[1] = "none"
        /\ startstatus = "START_FINISH" \/ result = "true" => thread[1] \in Begun

\* No thread but the one that was created runs.
LEMMA OneThread ==
    ASSUME FirstStart, starts <= 1, NEW i \in Launch, thread[i] # "none"
    PROVE  i = 1
  BY DEF FirstStart

\* A thread that has begun stays begun, whatever its loop does.
LEMMA FirstByThread ==
    ASSUME TypeOK, FirstStart, NEW i \in Launch,
           ThreadStep(i) \/ Peer(i)
    PROVE  FirstStart'
  <1> SUFFICES ASSUME starts <= 1 PROVE FirstStart'
    BY DEF FirstStart, ThreadStep, StartThread, Notify, LoopEnds, Loop, Peer, user
  <1>0. 1 \in Launch /\ thread \in [Launch -> {"none", "created", "running", "notify", "ended"}]
    BY ServerAssumption DEF Launch, TypeOK
  <1>1. CASE StartThread(i)
    BY <1>0, <1>1, OneThread DEF StartThread, FirstStart, Begun, user
  <1>2. CASE Notify(i) \/ LoopEnds(i)
    BY <1>0, <1>2, OneThread DEF Notify, LoopEnds, FirstStart, Begun, user
  <1>3. CASE Loop(i)
    <2>1. ASSUME NEW h \in Handles, AfterServerClose(i, h) PROVE FirstStart'
      BY <1>0, <1>3, <2>1, OneThread DEF Loop, AfterServerClose, FirstStart, Begun, user
    <2> QED
      BY <1>3, <2>1 DEF Loop, FirstStart, user
  <1>4. CASE Peer(i)
    BY <1>4 DEF Peer, FirstStart, user
  <1> QED
    BY <1>1, <1>2, <1>3, <1>4 DEF ThreadStep

LEMMA FirstStep == ASSUME TypeOK, FirstStart, [Next]_vars PROVE FirstStart'
  <1>0. starts \in Nat /\ 1 \in Launch
        /\ thread \in [Launch -> {"none", "created", "running", "notify", "ended"}]
    BY ServerAssumption DEF Launch, TypeOK
  <1>1. CASE Start_Init
    BY <1>0, <1>1 DEF Start_Init, FirstStart
  <1>2. CASE Start_Thread
    <2> SUFFICES ASSUME starts <= 1 PROVE FirstStart'
      BY <1>2 DEF Start_Thread, FirstStart
    <2>1. starts = 0 \/ starts = 1
      BY <1>0
    <2>2. thread[1] = "none" /\ startstatus # "START_FINISH" /\ result # "true"
      BY <1>2 DEF Start_Thread, FirstStart, Begun
    <2>3. \A i \in Launch \ {1} : thread'[i] = "none"
      BY <1>0, <1>2, <2>1 DEF Start_Thread, FirstStart, Launch
    <2>4. starts = 0 => thread'[1] = "none"
      BY <1>0, <1>2, <2>2 DEF Start_Thread
    <2> QED
      BY <1>2, <2>2, <2>3, <2>4 DEF Start_Thread, FirstStart
  <1>3. CASE Start_Poll \/ Start_GiveUp \/ Start_Leave \/ Start_Return
    BY <1>0, <1>3 DEF Start_Poll, Start_GiveUp, Start_Leave, Start_Return, FirstStart
  <1>4. CASE Start_BindFails \/ Close \/ Stopped \/ UNCHANGED vars \/ \E c \in Client : Send_Text(c)
    BY <1>4 DEF Start_BindFails, Close, Stopped, vars, user, Send_Text, FirstStart
  <1>5. ASSUME NEW i \in Launch, ThreadStep(i) \/ Peer(i) PROVE FirstStart'
    BY <1>5, FirstByThread
  <1> QED
    BY <1>1, <1>2, <1>3, <1>4, <1>5 DEF Next, UserStep, StartStep

\* When the first Start returns TRUE its thread has begun, however many polls
\* it made and although the status it returns may have been overwritten.
THEOREM StartIsBegun == Spec => []StartWaits
  <1>1. Init => TypeOK /\ FirstStart
    <2>1. 1 \in Launch
      BY ServerAssumption DEF Launch
    <2> QED
      BY <2>1, TypeInit DEF Init, FirstStart
  <1>2. TypeOK /\ FirstStart /\ [Next]_vars => TypeOK' /\ FirstStart'
    BY TypeStep, FirstStep
  <1>3. FirstStart => StartWaits
    BY DEF FirstStart, StartWaits, Begun
  <1> QED
    BY <1>1, <1>2, <1>3, PTL DEF Spec
=============================================================================
