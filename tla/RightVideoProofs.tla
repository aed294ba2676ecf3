---------------------------- MODULE RightVideoProofs ----------------------------
(* Theorems about VideoService as long as no connection was deleted and     *)
(* none sent a second string: a video thread then reads the same string     *)
(* whenever it looks, nobody else serves that string, and so it sends the   *)
(* right video and finds what it looks for.                                 *)
EXTENDS ViewingProofs

USE ConstantsAssumption DEF Client, NoClient, NoKey, Stopped, Handle, Live

Calm == \A c \in Client : conn[c] # "freed" /\ Len(requested[c]) <= 1

\* The string of a video thread is that of its first client, who has an
\* entry of its own in puid_client_map until it begins to leave; so no second
\* thread is created for the string.
Owns(t) ==
    /\ conn[owner[t]] # "none" /\ requested[owner[t]] # <<>>
    /\ recv_msg[owner[t]] \in Video
    /\ loop.pc \in {"register", "search"} => loop.client # owner[t]
    /\ loop.pc = "search" => loop.key # recv_msg[owner[t]]
    /\ loop.pc \notin {"join", "delete"} =>
          \E e \in puid_client : e.client = owner[t] /\ e.key = recv_msg[owner[t]]
OwnerInv ==
    /\ loop.pc = "search" =>
          /\ recv_msg[loop.client] = loop.key
          /\ \E e \in puid_client : e.client = loop.client /\ e.key = loop.key
    /\ \A t \in Thread : Live(t) => Owns(t)
    /\ \A t, u \in Thread :
          Live(t) /\ Live(u) /\ t # u => recv_msg[owner[t]] # recv_msg[owner[u]]

\* The stream and the callback are both for that string.
StreamInv ==
    /\ \A t \in Thread : Live(t) =>
          /\ stream[t] \in {NoKey, Stopped, recv_msg[owner[t]]}
          /\ callback[t] \in {NoKey, recv_msg[owner[t]]}
    /\ \A t \in Thread : vpc[t] = "unused" => stream[t] = NoKey /\ callback[t] = NoKey
    /\ \A c \in Client : \A f \in frames[c] : f.video = f.key

\* So is the baton, which is in the map from its creation to its end.
Filed == {"count", "loop", "stop", "lock", "closing"}
BatonInv ==
    /\ \A t \in Thread : vpc[t] \in Filed =>
          tmp[t] = recv_msg[owner[t]] /\ baton_map[tmp[t]] = t /\ t \in batons
    /\ \A k \in Key \cup {NoKey} : baton_map[k] # NoThread =>
          vpc[baton_map[k]] \in Filed /\ tmp[baton_map[k]] = k
    /\ \A t \in Thread : dpc[t] = "convert" => baton[t] = t

CalmInv == Calm => OwnerInv /\ StreamInv /\ BatonInv

-----------------------------------------------------------------------------
LEMMA CalmInit == ASSUME Init PROVE CalmInv
  <1>1. /\ loop.pc = "idle"
        /\ \A t \in Thread : /\ vpc[t] = "unused" /\ dpc[t] = "idle"
                             /\ stream[t] = NoKey /\ callback[t] = NoKey
        /\ \A c \in Client : frames[c] = {}
        /\ \A k \in Key \cup {NoKey} : baton_map[k] = NoThread
    BY DEF Init, Idle
  <1> QED
    BY <1>1 DEF CalmInv, OwnerInv, StreamInv, BatonInv, Filed

LEMMA CalmCrash == ASSUME NEW why, Crash(why) PROVE CalmInv'
  <1>1. /\ loop'.pc = "crashed"
        /\ \A t \in Thread : /\ vpc'[t] = "unused" /\ dpc'[t] = "idle"
                             /\ stream'[t] = NoKey /\ callback'[t] = NoKey
        /\ \A c \in Client : frames'[c] = {}
        /\ \A k \in Key \cup {NoKey} : baton_map'[k] = NoThread
    BY DEF Crash
  <1> QED
    BY <1>1 DEF CalmInv, OwnerInv, StreamInv, BatonInv, Filed

\* The pointer of a video thread still points to the client it was made for.
LEMMA PointeeIsOwner ==
    ASSUME TypeOK, PcOK, Calm, OwnerInv, NEW t \in Thread, Live(t)
    PROVE  owner[t] \in Client /\ Pointee(owner[t]) = {owner[t]}
  <1>1. owner[t] \in Client /\ conn[owner[t]] \notin {"none", "freed"}
    BY DEF PcOK, OwnerInv, Owns, Calm
  <1>2. owner[t] \in Connected
    BY <1>1 DEF Connected, TypeOK
  <1> QED
    BY <1>1, <1>2 DEF Pointee

-----------------------------------------------------------------------------
(* The owner of a thread.                                                  *)

\* Steps that leave the connections and the maps alone, start no thread and
\* give a live one no other owner.
LEMMA OwnerThread ==
    ASSUME OwnerInv, UNCHANGED <<conn, requested, recv_msg, loop, puid_client>>,
           \A u \in Thread : Live(u)' => Live(u) /\ owner'[u] = owner[u]
    PROVE  OwnerInv'
  <1>1. \A u \in Thread : Live(u)' => Owns(u)'
    BY DEF OwnerInv, Owns
  <1> QED
    BY <1>1 DEF OwnerInv

\* Steps of the loop between which nothing is registered or searched for.
LEMMA OwnerLoop ==
    ASSUME PcOK, OwnerInv, UNCHANGED <<requested, recv_msg, puid_client, vpc, owner>>,
           loop' = loop \/ loop'.pc \notin {"register", "search"},
           loop.pc \in {"join", "delete"} => loop'.pc \in {"join", "delete"},
           \A c \in Client : conn[c] # "none" => conn'[c] # "none"
    PROVE  OwnerInv'
  <1>1. ASSUME NEW t \in Thread, Live(t) PROVE Owns(t)'
    <2>1. Owns(t) /\ owner[t] \in Client
      BY <1>1 DEF OwnerInv, PcOK
    <2> QED
      BY <2>1 DEF Owns
  <1> QED
    BY <1>1 DEF OwnerInv

LEMMA OwnerOfRequest ==
    ASSUME TypeOK, PcOK, OwnerInv, Calm', NEW c \in Client, NEW k \in Key, ReadCB_Count(c, k)
    PROVE  OwnerInv'
  <1>1. /\ UNCHANGED <<conn, recv_msg, puid_client, vpc, owner>>
        /\ loop.pc = "idle" /\ loop'.pc = "register" /\ loop'.client = c
    BY DEF ReadCB_Count, net, threads, video
  <1>2. /\ Len(requested'[c]) <= 1 /\ Len(requested'[c]) = Len(requested[c]) + 1
        /\ requested[c] \in Seq(Key)
        /\ \A d \in Client \ {c} : requested'[d] = requested[d]
    BY DEF Calm, ReadCB_Count, TypeOK
  <1>3. requested[c] = <<>>
    <2>1. Len(requested[c]) = 0
      BY <1>2
    <2> QED
      BY <1>2, <2>1
  <1>4. ASSUME NEW t \in Thread, Live(t) PROVE Owns(t)'
    <2>1. Owns(t) /\ owner[t] \in Client
      BY <1>4 DEF OwnerInv, PcOK
    <2>2. owner[t] # c
      BY <1>3, <2>1 DEF Owns
    <2> QED
      BY <1>1, <1>2, <2>1, <2>2 DEF Owns
  <1> QED
    BY <1>1, <1>4 DEF OwnerInv

LEMMA OwnerOfRegister ==
    ASSUME TypeOK, PcOK, OwnerInv, ReadCB_Register
    PROVE  OwnerInv'
  <1> DEFINE e == [key |-> loop.key, client |-> loop.client,
                   nth |-> Len(requested[loop.client])]
  <1>1. /\ UNCHANGED <<conn, requested, vpc, owner>> /\ loop.pc = "register"
        /\ puid_client' = puid_client \cup {e} /\ loop.client \in Client
    BY DEF ReadCB_Register, PcOK, net, threads, video
  <1>2. CASE UNCHANGED recv_msg /\ loop' = Idle
    <2>1. ASSUME NEW t \in Thread, Live(t) PROVE Owns(t)'
      <3>1. Owns(t)
        BY <2>1 DEF OwnerInv
      <3> QED
        BY <1>1, <1>2, <3>1 DEF Owns, Idle
    <2> QED
      BY <1>1, <1>2, <2>1 DEF OwnerInv, Idle
  <1>3. CASE /\ ViewersOf(loop.key) = {}
             /\ recv_msg' = [recv_msg EXCEPT ![loop.client] = loop.key]
             /\ loop' = At("search")
    <2>1. /\ recv_msg'[loop.client] = loop.key
          /\ \A d \in Client \ {loop.client} : recv_msg'[d] = recv_msg[d]
          /\ loop'.pc = "search" /\ loop'.client = loop.client /\ loop'.key = loop.key
      BY <1>1, <1>3 DEF TypeOK, At
    <2>2. ASSUME NEW t \in Thread, Live(t)
          PROVE  Owns(t)' /\ recv_msg'[owner[t]] = recv_msg[owner[t]]
      <3>1. Owns(t) /\ owner[t] \in Client
        BY <2>2 DEF OwnerInv, PcOK
      <3>2. owner[t] # loop.client
        BY <1>1, <3>1 DEF Owns
      <3>3. recv_msg[owner[t]] # loop.key
        BY <1>1, <1>3, <3>1 DEF Owns, ViewersOf
      <3> QED
        BY <1>1, <2>1, <3>1, <3>2, <3>3 DEF Owns
    <2>3. \E f \in puid_client' : f.client = loop.client /\ f.key = loop.key
      <3>1. e \in puid_client' /\ e.client = loop.client /\ e.key = loop.key
        BY <1>1
      <3> HIDE DEF e
      <3> QED
        BY <3>1
    <2> QED
      BY <1>1, <2>1, <2>2, <2>3 DEF OwnerInv
  <1> QED
    BY <1>2, <1>3 DEF ReadCB_Register

LEMMA OwnerOfStart ==
    ASSUME TypeOK, PcOK, ConnInv, ViewInv, OwnerInv, ReadCB_Start
    PROVE  OwnerInv'
  <1>1. /\ UNCHANGED <<conn, requested, recv_msg, puid_client>>
        /\ loop.pc = "search" /\ loop'.pc = "idle" /\ loop.client \in Client
    BY DEF ReadCB_Start, PcOK, Idle, registry
  <1>2. ASSUME NEW t \in Thread, Live(t) PROVE Owns(t)
    BY <1>2 DEF OwnerInv
  <1>3. CASE UNCHANGED <<vpc, owner>>
    BY <1>1, <1>2, <1>3 DEF OwnerInv, Owns
  <1>4. ASSUME NEW t \in Thread, vpc[t] = "unused", loop.key \in Video,
               vpc' = [vpc EXCEPT ![t] = "start"],
               owner' = [owner EXCEPT ![t] = loop.client]
        PROVE  OwnerInv'
    <2>1. /\ vpc'[t] = "start" /\ owner'[t] = loop.client
          /\ \A u \in Thread \ {t} : vpc'[u] = vpc[u] /\ owner'[u] = owner[u]
      BY <1>4 DEF TypeOK
    <2>2. PICK e \in puid_client : e.client = loop.client /\ e.key = loop.key
      BY <1>1 DEF OwnerInv
    <2>3. requested[loop.client] # <<>>
      BY <2>2 DEF ViewInv
    <2>4. conn[loop.client] = "open" /\ recv_msg[loop.client] = loop.key
      BY <1>1 DEF ConnInv, OwnerInv
    <2>5. Owns(t)'
      BY <1>1, <1>4, <2>1, <2>2, <2>3, <2>4 DEF Owns
    <2>6. \A u \in Thread \ {t} : Live(u)' => Owns(u)' /\ recv_msg[owner[u]] # loop.key
      BY <1>1, <1>2, <2>1 DEF Owns
    <2> QED
      BY <1>1, <2>1, <2>4, <2>5, <2>6 DEF OwnerInv
  <1> QED
    BY <1>3, <1>4 DEF ReadCB_Start

LEMMA OwnerOfUnsubscribe ==
    ASSUME TypeOK, PcOK, OwnerInv, ClientClosed_Unsubscribe
    PROVE  OwnerInv'
  <1>1. /\ UNCHANGED <<conn, requested, recv_msg, vpc, owner>>
        /\ loop'.pc \in {"join", "delete"}
    BY DEF ClientClosed_Unsubscribe, At, net, request, threads, video
  <1>2. ASSUME NEW t \in Thread, Live(t) PROVE Owns(t)'
    <2>1. Owns(t)
      BY <1>2 DEF OwnerInv
    <2> QED
      BY <1>1, <2>1 DEF Owns
  <1> QED
    BY <1>1, <1>2 DEF OwnerInv

\* A step of a video thread gives no live thread another owner.
LEMMA OwnersStay ==
    ASSUME TypeOK, NEW t \in Thread, VideoStep(t), ~\E why \in FaultKind : Crash(why)
    PROVE  \A u \in Thread : /\ Live(u)' => Live(u) /\ owner'[u] = owner[u]
                             /\ vpc'[u] = "unused" => vpc[u] = "unused"
  <1>1. CASE FreeBaton(t)
    BY <1>1 DEF FreeBaton, Goto, TypeOK
  <1>2. ASSUME NEW c \in Client, CloseClient(t, c) PROVE UNCHANGED <<vpc, owner>>
    BY <1>2 DEF CloseClient, AskToClose, FaultKind
  <1>3. CASE ReceiveVideo(t)
    BY <1>3 DEF ReceiveVideo, video
  <1>4. CASE \/ GetIV_StartStream(t) \/ GetIV_Render(t) \/ ReportFailure(t)
             \/ SetupBaton(t) \/ FindCount(t) \/ LeaveLoop(t) \/ StopStream(t)
             \/ LockViewers(t)
    <2>1. Live(t) /\ owner' = owner /\ vpc'[t] # "unused"
          /\ \A u \in Thread \ {t} : vpc'[u] = vpc[u]
      BY <1>4
      DEF TypeOK, GetIV_StartStream, GetIV_Render, ReportFailure, SetupBaton, FindCount,
          LeaveLoop, StopStream, LockViewers, Goto
    <2> QED
      BY <2>1
  <1> QED
    BY <1>1, <1>2, <1>3, <1>4 DEF VideoStep, UseFreedClient, MissResource, UseStoppedStream, FaultKind

\* A decoder does not touch what a video thread is at.
LEMMA DecoderFrame ==
    ASSUME NEW t \in Thread, DecoderStep(t), ~\E why \in FaultKind : Crash(why)
    PROVE  UNCHANGED <<vpc, owner, stream, callback, tmp, batons, baton_map>>
  BY DEF DecoderStep, FindBaton, Convert, CopyViewers, LockSend, SendFrame, UnlockSend,
         EncodeFails, UseFreedBaton, FaultKind, video, render

LEMMA OwnerStep ==
    ASSUME ServiceInv, OwnerInv, Calm', Next, ~\E why \in FaultKind : Crash(why)
    PROVE  OwnerInv'
  <1> USE DEF service, net, request, registry, threads, video
  <1>0. TypeOK /\ PcOK /\ ConnInv /\ ViewInv
    BY DEF ServiceInv
  <1>1. CASE PlatformReady
    BY <1>0, <1>1, OwnerLoop DEF PlatformReady
  <1>2. CASE AcceptConnection
    <2>1. \A c \in Client : conn[c] # "none" => conn'[c] # "none"
      BY <1>0, <1>2 DEF AcceptConnection, TypeOK
    <2> QED
      BY <1>0, <1>2, <2>1, OwnerLoop DEF AcceptConnection
  <1>3. ASSUME NEW c \in Client, AfterRecvError(c) PROVE OwnerInv'
    BY <1>0, <1>3, OwnerLoop DEF AfterRecvError
  <1>4. ASSUME NEW c \in Client, NEW k \in Key, ReadCB_Count(c, k) PROVE OwnerInv'
    BY <1>0, <1>4, OwnerOfRequest
  <1>5. ASSUME NEW c \in Client, PrepareCB(c) PROVE OwnerInv'
    <2>1. \A d \in Client : conn[d] # "none" => conn'[d] # "none"
      BY <1>0, <1>5 DEF PrepareCB, TypeOK
    <2> QED
      BY <1>0, <1>5, <2>1, OwnerLoop DEF PrepareCB
  <1>6. ASSUME NEW c \in Client, AfterClientClose(c) PROVE OwnerInv'
    <2>1. \A d \in Client : conn[d] # "none" => conn'[d] # "none"
      BY <1>0, <1>6 DEF AfterClientClose, TypeOK
    <2> QED
      BY <1>0, <1>6, <2>1, OwnerLoop DEF AfterClientClose
  <1>7. CASE ClientClosed_Join
    BY <1>0, <1>7, OwnerLoop DEF ClientClosed_Join, At
  <1>8. ~ClientClosed_Delete
    <2> SUFFICES ASSUME ClientClosed_Delete PROVE FALSE
      OBVIOUS
    <2>1. conn'[loop.client] = "freed" /\ loop.client \in Client
      BY <1>0 DEF ClientClosed_Delete, PcOK, TypeOK
    <2> QED
      BY <2>1 DEF Calm
  <1>9. CASE Environment \/ LoopStep
    BY <1>0, <1>1, <1>2, <1>3, <1>4, <1>5, <1>6, <1>7, <1>8, <1>9, OwnerOfRegister,
       OwnerOfStart, OwnerOfUnsubscribe
    DEF Environment, LoopStep
  <1>10. ASSUME NEW t \in Thread, VideoStep(t) PROVE OwnerInv'
    <2>1. \A u \in Thread : Live(u)' => Live(u) /\ owner'[u] = owner[u]
      BY <1>0, <1>10, OwnersStay
    <2> QED
      BY <1>10, <2>1, ThreadFrame, OwnerThread
  <1>11. ASSUME NEW t \in Thread, DecoderStep(t) PROVE OwnerInv'
    <2>1. UNCHANGED <<vpc, owner>>
      BY <1>11, DecoderFrame
    <2> QED
      BY <1>11, <2>1, ThreadFrame, OwnerThread
  <1>12. CASE UNCHANGED vars
    BY <1>12, OwnerThread DEF vars
  <1> QED
    BY <1>9, <1>10, <1>11, <1>12 DEF Next, DataRace, FaultKind, Quiet

-----------------------------------------------------------------------------
(* The stream, the callback and the baton.                                 *)

\* A live thread keeps its string.
StringStays ==
    \A u \in Thread :
        /\ Live(u)' => \/ vpc[u] = "unused"
                       \/ Live(u) /\ recv_msg'[owner'[u]] = recv_msg[owner[u]]
        /\ vpc'[u] = "unused" => vpc[u] = "unused"

LEMMA StringStep ==
    ASSUME ServiceInv, OwnerInv, Next, ~\E why \in FaultKind : Crash(why)
    PROVE  StringStays
  <1> USE DEF service, net, request, registry, threads, video
  <1>0. TypeOK /\ PcOK
    BY DEF ServiceInv
  <1>1. CASE UNCHANGED <<vpc, owner, recv_msg>>
    BY <1>1 DEF StringStays
  <1>2. CASE ReadCB_Register
    <2>1. /\ UNCHANGED <<vpc, owner>> /\ loop.pc = "register" /\ loop.client \in Client
          /\ \A d \in Client \ {loop.client} : recv_msg'[d] = recv_msg[d]
      BY <1>0, <1>2 DEF ReadCB_Register, TypeOK, PcOK
    <2>2. \A u \in Thread : Live(u) => owner[u] \in Client \ {loop.client}
      BY <1>0, <2>1 DEF OwnerInv, Owns, PcOK
    <2> QED
      BY <2>1, <2>2 DEF StringStays
  <1>3. CASE ReadCB_Start
    <2>1. recv_msg' = recv_msg
      BY <1>3 DEF ReadCB_Start
    <2>2. \/ UNCHANGED <<vpc, owner>>
          \/ \E t \in Thread : /\ vpc[t] = "unused" /\ vpc'[t] = "start"
                               /\ \A u \in Thread \ {t} : vpc'[u] = vpc[u] /\ owner'[u] = owner[u]
      BY <1>0, <1>3 DEF ReadCB_Start, TypeOK
    <2> QED
      BY <2>1, <2>2 DEF StringStays
  <1>4. CASE Environment \/ LoopStep
    BY <1>1, <1>2, <1>3, <1>4
    DEF Environment, LoopStep, PlatformReady, AcceptConnection, AfterRecvError, ReadCB_Count,
        PrepareCB, AfterClientClose, ClientClosed_Unsubscribe, ClientClosed_Join,
        ClientClosed_Delete
  <1>5. ASSUME NEW t \in Thread, VideoStep(t) PROVE StringStays
    <2>1. recv_msg' = recv_msg
      BY <1>5, ThreadFrame
    <2> QED
      BY <1>0, <1>5, <2>1, OwnersStay DEF StringStays
  <1>6. ASSUME NEW t \in Thread, DecoderStep(t) PROVE StringStays
    BY <1>1, <1>6, ThreadFrame, DecoderFrame
  <1>7. CASE UNCHANGED vars
    BY <1>1, <1>7 DEF vars
  <1> QED
    BY <1>4, <1>5, <1>6, <1>7 DEF Next, DataRace, FaultKind, Quiet

LEMMA StreamQuiet ==
    ASSUME StreamInv, StringStays, UNCHANGED <<stream, callback, frames>>
    PROVE  StreamInv'
  BY DEF StreamInv, StringStays

\* One thread opens or closes its stream or its callback.
LEMMA StreamThread ==
    ASSUME StreamInv, StringStays, NEW t \in Thread, vpc'[t] # "unused",
           UNCHANGED <<recv_msg, owner, frames>>,
           \A u \in Thread \ {t} : stream'[u] = stream[u] /\ callback'[u] = callback[u],
           stream'[t] \in {NoKey, Stopped, stream[t], recv_msg[owner[t]]},
           callback'[t] \in {NoKey, callback[t], recv_msg[owner[t]]}
    PROVE  StreamInv'
  <1>1. \A u \in Thread : Live(u)' =>
            /\ stream'[u] \in {NoKey, Stopped, recv_msg'[owner'[u]]}
            /\ callback'[u] \in {NoKey, recv_msg'[owner'[u]]}
    BY DEF StreamInv, StringStays
  <1>2. \A u \in Thread : vpc'[u] = "unused" => stream'[u] = NoKey /\ callback'[u] = NoKey
    BY DEF StreamInv, StringStays
  <1> QED
    BY <1>1, <1>2 DEF StreamInv

LEMMA StreamVideo ==
    ASSUME ServiceInv, Calm, OwnerInv, StreamInv, StringStays, NEW t \in Thread, VideoStep(t),
           ~\E why \in FaultKind : Crash(why)
    PROVE  StreamInv'
  <1> USE DEF service, net, request, registry
  <1>0. TypeOK /\ PcOK
    BY DEF ServiceInv
  <1>1. CASE GetIV_StartStream(t)
    <2>1. /\ UNCHANGED <<recv_msg, owner, frames, callback>> /\ Live(t) /\ vpc'[t] # "unused"
      BY <1>0, <1>1 DEF GetIV_StartStream, Goto, TypeOK
    <2>2. stream' = stream \/ stream' = [stream EXCEPT ![t] = recv_msg[owner[t]]]
      BY <1>0, <1>1, <2>1, PointeeIsOwner DEF GetIV_StartStream
    <2> QED
      BY <1>0, <2>1, <2>2, StreamThread DEF TypeOK
  <1>2. CASE GetIV_Render(t)
    <2>1. UNCHANGED <<recv_msg, owner, frames>> /\ Live(t) /\ vpc'[t] # "unused"
      BY <1>0, <1>2 DEF GetIV_Render, TypeOK
    <2>2. /\ callback' = callback \/ callback' = [callback EXCEPT ![t] = recv_msg[owner[t]]]
          /\ stream' = stream \/ stream' = [stream EXCEPT ![t] = Stopped]
      BY <1>0, <1>2, <2>1, PointeeIsOwner DEF GetIV_Render
    <2> QED
      BY <1>0, <2>1, <2>2, StreamThread DEF TypeOK
  <1>3. CASE StopStream(t)
    <2>1. /\ UNCHANGED <<recv_msg, owner, frames>> /\ vpc'[t] # "unused"
          /\ stream' = [stream EXCEPT ![t] = NoKey] /\ callback' = [callback EXCEPT ![t] = NoKey]
      BY <1>0, <1>3 DEF StopStream, Goto, TypeOK
    <2> QED
      BY <1>0, <2>1, StreamThread DEF TypeOK
  <1>4. ASSUME NEW c \in Client, CloseClient(t, c) PROVE UNCHANGED <<stream, callback, frames>>
    BY <1>4 DEF CloseClient, AskToClose, FaultKind
  <1>5. CASE \/ ReportFailure(t) \/ SetupBaton(t) \/ FindCount(t) \/ ReceiveVideo(t)
             \/ LeaveLoop(t) \/ LockViewers(t) \/ FreeBaton(t)
    BY <1>5, StreamQuiet
    DEF ReportFailure, SetupBaton, FindCount, ReceiveVideo, LeaveLoop, LockViewers, FreeBaton,
        video
  <1> QED
    BY <1>1, <1>2, <1>3, <1>4, <1>5, StreamQuiet
    DEF VideoStep, UseFreedClient, MissResource, UseStoppedStream, FaultKind

LEMMA StreamDecoder ==
    ASSUME ServiceInv, StreamInv, StringStays, NEW t \in Thread, DecoderStep(t),
           ~\E why \in FaultKind : Crash(why)
    PROVE  StreamInv'
  <1>1. UNCHANGED <<stream, callback>>
    BY DecoderFrame
  <1>2. ASSUME NEW c \in Client, SendFrame(t, c) PROVE StreamInv'
    <2>1. /\ callback[t] \in Key /\ stream[t] \in Key /\ Live(t)
      BY <1>2 DEF ServiceInv, PcOK, SendFrame
    <2>2. callback[t] = stream[t]
      BY <2>1 DEF StreamInv
    <2>3. \A d \in Client : \A f \in frames'[d] : f \in frames[d] \/ f.video = f.key
      BY <1>2, <2>2 DEF SendFrame, ServiceInv, TypeOK
    <2>4. \A d \in Client : \A f \in frames'[d] : f.video = f.key
      BY <2>3 DEF StreamInv
    <2>5. \A u \in Thread : Live(u)' =>
              /\ stream'[u] \in {NoKey, Stopped, recv_msg'[owner'[u]]}
              /\ callback'[u] \in {NoKey, recv_msg'[owner'[u]]}
      BY <1>1 DEF StreamInv, StringStays
    <2>6. \A u \in Thread : vpc'[u] = "unused" => stream'[u] = NoKey /\ callback'[u] = NoKey
      BY <1>1 DEF StreamInv, StringStays
    <2> QED
      BY <2>4, <2>5, <2>6 DEF StreamInv
  <1>3. CASE frames' = frames
    BY <1>1, <1>3, StreamQuiet
  <1> QED
    BY <1>2, <1>3
    DEF DecoderStep, FindBaton, Convert, CopyViewers, LockSend, UnlockSend, EncodeFails,
        UseFreedBaton, FaultKind, service, net

LEMMA StreamStep ==
    ASSUME ServiceInv, Calm, OwnerInv, StreamInv, Next, ~\E why \in FaultKind : Crash(why)
    PROVE  StreamInv'
  <1>1. StringStays
    BY StringStep
  <1>2. CASE Environment \/ LoopStep \/ UNCHANGED vars
    <2>1. UNCHANGED <<stream, callback, frames>>
      BY <1>2
      DEF Environment, LoopStep, PlatformReady, AcceptConnection, AfterRecvError, ReadCB_Count,
          ReadCB_Register, ReadCB_Start, PrepareCB, AfterClientClose, ClientClosed_Unsubscribe,
          ClientClosed_Join, ClientClosed_Delete, vars, net, threads, video
    <2> QED
      BY <1>1, <2>1, StreamQuiet
  <1> QED
    BY <1>1, <1>2, StreamVideo, StreamDecoder DEF Next, DataRace, FaultKind, Quiet

-----------------------------------------------------------------------------
LEMMA BatonQuiet ==
    ASSUME BatonInv, StringStays, UNCHANGED <<tmp, batons, baton_map>>,
           \A u \in Thread : vpc'[u] \in Filed <=> vpc[u] \in Filed,
           \A u \in Thread : dpc'[u] = "convert" => dpc[u] = "convert" /\ baton'[u] = baton[u],
           TypeOK
    PROVE  BatonInv'
  <1>1. \A k \in Key \cup {NoKey} : baton_map[k] # NoThread => baton_map[k] \in Thread
    BY DEF TypeOK
  <1>2. \A u \in Thread : vpc'[u] \in Filed => recv_msg'[owner'[u]] = recv_msg[owner[u]]
    BY DEF StringStays, Filed
  <1> QED
    BY <1>1, <1>2 DEF BatonInv

\* The thread files its baton: nobody else has one under its string.
LEMMA BatonOfSetup ==
    ASSUME TypeOK, PcOK, Calm, OwnerInv, BatonInv, NEW t \in Thread, SetupBaton(t),
           NEW k, k = recv_msg[owner[t]]
    PROVE  BatonInv'
  <1>1. vpc[t] = "setup" /\ Live(t)
    BY DEF SetupBaton, Goto
  <1>2. k \in Key \cup {NoKey}
    BY <1>1 DEF PcOK, TypeOK
  <1>3. /\ tmp' = [tmp EXCEPT ![t] = k] /\ batons' = batons \cup {t}
        /\ baton_map' = [baton_map EXCEPT ![k] = IF @ = NoThread THEN t ELSE @]
        /\ UNCHANGED <<recv_msg, owner, dpc, baton>>
    <2>1. Pointee(owner[t]) = {owner[t]}
      BY <1>1, PointeeIsOwner
    <2> QED
      BY <2>1 DEF SetupBaton, service, request, decoder
  <1>4. vpc'[t] = "count" /\ \A u \in Thread \ {t} : vpc'[u] = vpc[u]
    BY DEF SetupBaton, Goto, TypeOK
  <1>5. baton_map[k] = NoThread
    <2> SUFFICES ASSUME baton_map[k] # NoThread PROVE FALSE
      OBVIOUS
    <2>0. baton_map[k] \in Thread
      BY <1>2 DEF TypeOK
    <2>1. baton_map[k] \in Thread /\ vpc[baton_map[k]] \in Filed /\ tmp[baton_map[k]] = k
      BY <1>2, <2>0 DEF BatonInv
    <2>2. Live(baton_map[k]) /\ baton_map[k] # t /\ recv_msg[owner[baton_map[k]]] = k
      BY <1>1, <2>1 DEF BatonInv, Filed
    <2> QED
      BY <1>1, <2>1, <2>2 DEF OwnerInv
  <1>6. /\ baton_map'[k] = t /\ tmp'[t] = k
        /\ \A j \in (Key \cup {NoKey}) \ {k} : baton_map'[j] = baton_map[j]
        /\ \A u \in Thread \ {t} : tmp'[u] = tmp[u]
    BY <1>2, <1>3, <1>5 DEF TypeOK
  <1>7. ASSUME NEW u \in Thread, vpc'[u] \in Filed
        PROVE  tmp'[u] = recv_msg'[owner'[u]] /\ baton_map'[tmp'[u]] = u /\ u \in batons'
    <2>1. CASE u = t
      BY <1>3, <1>6, <2>1
    <2>2. CASE u # t
      <3>1. /\ vpc[u] \in Filed /\ tmp[u] = recv_msg[owner[u]] /\ baton_map[tmp[u]] = u
            /\ u \in batons /\ tmp[u] \in Key \cup {NoKey}
        BY <1>4, <1>7, <2>2 DEF BatonInv, TypeOK
      <3>2. tmp[u] # k
        BY <1>1, <2>2, <3>1 DEF OwnerInv, Filed
      <3> QED
        BY <1>3, <1>6, <2>2, <3>1, <3>2
    <2> QED
      BY <2>1, <2>2
  <1>8. ASSUME NEW j \in Key \cup {NoKey}, baton_map'[j] # NoThread
        PROVE  vpc'[baton_map'[j]] \in Filed /\ tmp'[baton_map'[j]] = j
    <2>1. CASE j = k
      BY <1>4, <1>6, <2>1 DEF Filed
    <2>2. CASE j # k
      <3>1. /\ baton_map'[j] = baton_map[j] /\ baton_map[j] \in Thread
            /\ vpc[baton_map[j]] \in Filed /\ tmp[baton_map[j]] = j
        <4>1. baton_map'[j] = baton_map[j] /\ baton_map[j] # NoThread
          BY <1>6, <1>8, <2>2
        <4>2. baton_map[j] \in Thread
          BY <4>1 DEF TypeOK
        <4> QED
          BY <4>1, <4>2 DEF BatonInv
      <3>2. baton_map[j] # t
        BY <1>1, <3>1 DEF Filed
      <3> QED
        BY <1>4, <1>6, <3>1, <3>2
    <2> QED
      BY <2>1, <2>2
  <1> QED
    BY <1>3, <1>7, <1>8 DEF BatonInv

\* The thread frees its own baton, and no other's.
LEMMA BatonOfFree ==
    ASSUME TypeOK, PcOK, OwnerInv, BatonInv, NEW t \in Thread, FreeBaton(t)
    PROVE  BatonInv'
  <1>1. vpc[t] = "closing" /\ tmp[t] = recv_msg[owner[t]] /\ baton_map[tmp[t]] = t
    BY DEF FreeBaton, Goto, BatonInv, Filed
  <1>2. /\ batons' = batons \ {t} /\ UNCHANGED <<recv_msg, dpc, baton>>
        /\ baton_map'[tmp[t]] = NoThread
        /\ \A j \in (Key \cup {NoKey}) \ {tmp[t]} : baton_map'[j] = baton_map[j]
        /\ vpc'[t] = "done"
        /\ \A u \in Thread \ {t} : /\ vpc'[u] = vpc[u] /\ owner'[u] = owner[u]
                                   /\ tmp'[u] = tmp[u]
    BY <1>1 DEF FreeBaton, Goto, TypeOK, service, request, decoder
  <1>3. ASSUME NEW u \in Thread, vpc'[u] \in Filed
        PROVE  tmp'[u] = recv_msg'[owner'[u]] /\ baton_map'[tmp'[u]] = u /\ u \in batons'
    <2>1. u # t
      BY <1>2, <1>3 DEF Filed
    <2>2. /\ vpc[u] \in Filed /\ tmp[u] = recv_msg[owner[u]] /\ baton_map[tmp[u]] = u
          /\ u \in batons /\ tmp[u] \in Key \cup {NoKey}
      BY <1>2, <1>3, <2>1 DEF BatonInv, TypeOK
    <2>3. tmp[u] # tmp[t]
      BY <1>1, <2>1, <2>2
    <2> QED
      BY <1>2, <2>1, <2>2, <2>3
  <1>4. ASSUME NEW j \in Key \cup {NoKey}, baton_map'[j] # NoThread
        PROVE  vpc'[baton_map'[j]] \in Filed /\ tmp'[baton_map'[j]] = j
    <2>1. j # tmp[t]
      BY <1>2, <1>4
    <2>2. /\ baton_map'[j] = baton_map[j] /\ baton_map[j] \in Thread
          /\ vpc[baton_map[j]] \in Filed /\ tmp[baton_map[j]] = j
      BY <1>2, <1>4, <2>1 DEF BatonInv, TypeOK
    <2>3. baton_map[j] # t
      BY <2>1, <2>2
    <2> QED
      BY <1>2, <2>2, <2>3
  <1> QED
    BY <1>2, <1>3, <1>4 DEF BatonInv

LEMMA BatonVideo ==
    ASSUME ServiceInv, Calm, OwnerInv, BatonInv, StringStays, NEW t \in Thread, VideoStep(t),
           ~\E why \in FaultKind : Crash(why)
    PROVE  BatonInv'
  <1>0. TypeOK /\ PcOK
    BY DEF ServiceInv
  <1>1. CASE \/ GetIV_StartStream(t) \/ GetIV_Render(t) \/ ReportFailure(t) \/ FindCount(t)
             \/ LeaveLoop(t) \/ StopStream(t) \/ LockViewers(t)
    <2>1. UNCHANGED <<tmp, batons, baton_map, dpc, baton>>
      BY <1>1
      DEF GetIV_StartStream, GetIV_Render, ReportFailure, FindCount, LeaveLoop, StopStream,
          LockViewers, decoder, render
    <2>2. /\ vpc'[t] \in Filed <=> vpc[t] \in Filed
          /\ \A u \in Thread \ {t} : vpc'[u] = vpc[u]
      BY <1>0, <1>1
      DEF GetIV_StartStream, GetIV_Render, ReportFailure, FindCount, LeaveLoop, StopStream,
          LockViewers, Goto, TypeOK, Filed
    <2> QED
      BY <1>0, <2>1, <2>2, BatonQuiet
  <1>2. CASE ReceiveVideo(t)
    <2>1. UNCHANGED <<tmp, batons, baton_map, vpc, baton>>
      BY <1>2 DEF ReceiveVideo, render, video
    <2>2. \A u \in Thread : dpc'[u] = "convert" => dpc[u] = "convert"
      BY <1>0, <1>2 DEF ReceiveVideo, TypeOK
    <2> QED
      BY <1>0, <2>1, <2>2, BatonQuiet
  <1>3. ASSUME NEW c \in Client, CloseClient(t, c)
        PROVE  UNCHANGED <<tmp, batons, baton_map, vpc, dpc, baton>>
    BY <1>3 DEF CloseClient, AskToClose, FaultKind, decoder, render
  <1> QED
    BY <1>0, <1>1, <1>2, <1>3, BatonQuiet, BatonOfSetup, BatonOfFree
    DEF VideoStep, UseFreedClient, MissResource, UseStoppedStream, FaultKind

LEMMA BatonDecoder ==
    ASSUME ServiceInv, OwnerInv, StreamInv, BatonInv, StringStays, NEW t \in Thread,
           DecoderStep(t), ~\E why \in FaultKind : Crash(why)
    PROVE  BatonInv'
  <1>0. TypeOK /\ PcOK
    BY DEF ServiceInv
  <1>1. UNCHANGED <<vpc, tmp, batons, baton_map>>
    BY DecoderFrame
  <1>2. CASE FindBaton(t)
    <2>1. dpc[t] = "find" /\ callback[t] \in Key /\ vpc[t] \in Filed /\ Live(t)
      BY <1>0, <1>2 DEF FindBaton, Decode, PcOK, Filed
    <2>2. callback[t] = tmp[t]
      BY <2>1 DEF StreamInv, BatonInv
    <2>3. /\ baton'[t] = t
          /\ \A u \in Thread \ {t} : dpc'[u] = dpc[u] /\ baton'[u] = baton[u]
      BY <1>0, <1>2, <2>1, <2>2 DEF FindBaton, Decode, TypeOK, BatonInv
    <2>4. \A u \in Thread : dpc'[u] = "convert" => baton'[u] = u
      BY <2>3 DEF BatonInv
    <2>5. \A u \in Thread : vpc'[u] \in Filed => recv_msg'[owner'[u]] = recv_msg[owner[u]]
      BY <1>1 DEF StringStays, Filed
    <2> QED
      BY <1>1, <2>4, <2>5 DEF BatonInv
  <1>3. CASE Convert(t) \/ CopyViewers(t) \/ LockSend(t) \/ UnlockSend(t)
    <2>1. \A u \in Thread : dpc'[u] = "convert" => dpc[u] = "convert" /\ baton'[u] = baton[u]
      BY <1>0, <1>3 DEF Convert, CopyViewers, LockSend, UnlockSend, Decode, TypeOK
    <2> QED
      BY <1>0, <1>1, <2>1, BatonQuiet
  <1>4. ASSUME NEW c \in Client, SendFrame(t, c) PROVE UNCHANGED <<dpc, baton>>
    BY <1>4 DEF SendFrame
  <1> QED
    BY <1>0, <1>1, <1>2, <1>3, <1>4, BatonQuiet DEF DecoderStep, EncodeFails, UseFreedBaton, FaultKind

LEMMA BatonStep ==
    ASSUME ServiceInv, Calm, OwnerInv, StreamInv, BatonInv, Next, ~\E why \in FaultKind : Crash(why)
    PROVE  BatonInv'
  <1>1. StringStays /\ TypeOK
    BY StringStep DEF ServiceInv
  <1>2. CASE Environment \/ LoopStep \/ UNCHANGED vars
    <2>1. UNCHANGED <<tmp, batons, baton_map, dpc, baton>>
      BY <1>2
      DEF Environment, LoopStep, PlatformReady, AcceptConnection, AfterRecvError, ReadCB_Count,
          ReadCB_Register, ReadCB_Start, PrepareCB, AfterClientClose, ClientClosed_Unsubscribe,
          ClientClosed_Join, ClientClosed_Delete, vars, threads, video, decoder, render
    <2>2. vpc' = vpc \/ \E t \in Thread : vpc[t] = "unused" /\ vpc' = [vpc EXCEPT ![t] = "start"]
      BY <1>2
      DEF Environment, LoopStep, PlatformReady, AcceptConnection, AfterRecvError, ReadCB_Count,
          ReadCB_Register, ReadCB_Start, PrepareCB, AfterClientClose, ClientClosed_Unsubscribe,
          ClientClosed_Join, ClientClosed_Delete, vars, threads, video
    <2>3. \A u \in Thread : vpc'[u] \in Filed <=> vpc[u] \in Filed
      BY <1>1, <2>2 DEF Filed, TypeOK
    <2> QED
      BY <1>1, <2>1, <2>3, BatonQuiet
  <1> QED
    BY <1>1, <1>2, BatonVideo, BatonDecoder DEF Next, DataRace, FaultKind, Quiet

-----------------------------------------------------------------------------
(* Together.                                                               *)

\* Calm, once lost, is lost until the process is.
LEMMA CalmBefore ==
    ASSUME ServiceInv, Next, Calm', ~\E why \in FaultKind : Crash(why) PROVE Calm
  <1> USE DEF service, net, request, registry, threads
  <1>0. TypeOK /\ PcOK
    BY DEF ServiceInv
  <1>1. CASE UNCHANGED <<conn, requested>>
    BY <1>1 DEF Calm
  <1>2. CASE AcceptConnection
    <2>1. s_id \in Nat /\ s_id + 1 \in Client /\ s_id + 1 > s_id
      BY <1>0, <1>2 DEF AcceptConnection, TypeOK
    <2>2. conn[s_id + 1] = "none" /\ requested' = requested
      BY <1>2, <2>1 DEF AcceptConnection, ServiceInv, ConnInv
    <2>3. \A c \in Client \ {s_id + 1} : conn'[c] = conn[c]
      BY <1>0, <1>2 DEF AcceptConnection, TypeOK
    <2> QED
      BY <2>2, <2>3 DEF Calm
  <1>3. ASSUME NEW c \in Client, NEW k \in Key, ReadCB_Count(c, k) PROVE Calm
    <2>1. /\ conn' = conn /\ \A d \in Client : Len(requested[d]) \in Nat
          /\ Len(requested'[c]) = Len(requested[c]) + 1
          /\ \A d \in Client \ {c} : requested'[d] = requested[d]
      BY <1>0, <1>3 DEF ReadCB_Count, TypeOK
    <2> QED
      BY <2>1 DEF Calm
  <1>4. ASSUME NEW c \in Client, PrepareCB(c) \/ AfterClientClose(c) PROVE Calm
    <2>1. /\ requested' = requested /\ conn[c] # "freed"
          /\ \A d \in Client \ {c} : conn'[d] = conn[d]
      BY <1>0, <1>4 DEF PrepareCB, AfterClientClose, TypeOK
    <2> QED
      BY <2>1 DEF Calm
  <1>5. CASE ClientClosed_Delete
    <2>1. conn'[loop.client] = "freed" /\ loop.client \in Client
      BY <1>0, <1>5 DEF ClientClosed_Delete, TypeOK, PcOK
    <2> QED
      BY <2>1 DEF Calm
  <1>6. CASE Environment \/ LoopStep
    BY <1>1, <1>2, <1>3, <1>4, <1>5, <1>6
    DEF Environment, LoopStep, PlatformReady, AfterRecvError, ReadCB_Register, ReadCB_Start,
        ClientClosed_Unsubscribe, ClientClosed_Join
  <1>7. ASSUME NEW t \in Thread, VideoStep(t) \/ DecoderStep(t) PROVE Calm
    BY <1>1, <1>7, ThreadFrame
  <1> QED
    BY <1>1, <1>6, <1>7 DEF Next, DataRace, FaultKind, Quiet, vars

LEMMA CalmStep == ASSUME ServiceInv, CalmInv, [Next]_vars PROVE CalmInv'
  <1>1. CASE \E why \in FaultKind : Crash(why)
    BY <1>1, CalmCrash
  <1>2. CASE Next /\ ~\E why \in FaultKind : Crash(why)
    <2> SUFFICES ASSUME Calm' PROVE (OwnerInv /\ StreamInv /\ BatonInv)'
      BY DEF CalmInv
    <2>1. Calm /\ OwnerInv /\ StreamInv /\ BatonInv
      BY <1>2, CalmBefore DEF CalmInv
    <2> QED
      BY <1>2, <2>1, OwnerStep, StreamStep, BatonStep
  <1>3. CASE UNCHANGED vars
    <2> USE <1>3 DEF vars, net, request, registry, video, decoder, render
    <2>1. Calm' <=> Calm
      BY DEF Calm
    <2>2. OwnerInv => OwnerInv'
      BY DEF OwnerInv, Owns
    <2>3. StreamInv => StreamInv'
      BY DEF StreamInv
    <2>4. BatonInv => BatonInv'
      BY DEF BatonInv
    <2> QED
      BY <2>1, <2>2, <2>3, <2>4 DEF CalmInv
  <1> QED
    BY <1>1, <1>2, <1>3

\* What is known of the service while nobody has left (ClientClosed) or sent a
\* second string (ReadCB): whose stream, decoder and baton is whose.
THEOREM CalmInvariant == Spec => [](ServiceInv /\ CalmInv)
  <1>1. Init => ServiceInv /\ CalmInv
    BY ServiceInit, CalmInit
  <1>2. ServiceInv /\ CalmInv /\ [Next]_vars => (ServiceInv /\ CalmInv)'
    BY ServiceStep, CalmStep
  <1> QED
    BY <1>1, <1>2, PTL DEF Spec

\* A frame is of the video it is sent for, as long as no connection was
\* deleted and none sent a second string.
THEOREM FramesAreRight == Spec => []RightVideo
  <1>1. CalmInv => RightVideo
    BY DEF CalmInv, Calm, StreamInv, RightVideo
  <1> QED
    BY <1>1, CalmInvariant, PTL

\* As long as that is so, no thread meets freed memory or a missing entry, but
\* the one of a platform that is being initialised.
LEMMA CalmNeverFails ==
    ASSUME ServiceInv, CalmInv, Calm, [Next]_vars, fault = "none",
           fault' \in {"client", "resource", "baton"}
    PROVE  fault' = "resource" /\ ~ready
  <1>0. TypeOK /\ PcOK /\ OwnerInv /\ StreamInv /\ BatonInv
    BY DEF ServiceInv, CalmInv
  <1>1. ~(Environment \/ LoopStep \/ UNCHANGED vars)
    BY
    DEF Environment, LoopStep, PlatformReady, AcceptConnection, AfterRecvError, ReadCB_Count,
        ReadCB_Register, ReadCB_Start, PrepareCB, AfterClientClose, ClientClosed_Unsubscribe,
        ClientClosed_Join, ClientClosed_Delete, vars, threads
  <1>2. ~DataRace
    BY DEF DataRace, Crash
  <1>3. ASSUME NEW t \in Thread, UseFreedClient(t) PROVE FALSE
    BY <1>0, <1>3 DEF UseFreedClient, PcOK, Calm
  <1>4. ASSUME NEW t \in Thread, MissResource(t) PROVE fault' = "resource" /\ ~ready
    <2>1. Live(t) /\ fault' = "resource"
      BY <1>4 DEF MissResource, Crash
    <2>2. CASE \E p \in Pointee(owner[t]) : recv_msg[p] \notin Video
      <3>1. recv_msg[owner[t]] \notin Video
        BY <1>0, <2>1, <2>2, PointeeIsOwner
      <3> QED
        BY <1>0, <2>1, <3>1 DEF OwnerInv, Owns
    <2> QED
      BY <1>4, <2>1, <2>2 DEF MissResource
  <1>5. ASSUME NEW t \in Thread, UseFreedBaton(t) PROVE FALSE
    <2>1. vpc[t] \in Filed /\ Live(t) /\ callback[t] \in Key
      BY <1>0, <1>5 DEF UseFreedBaton, PcOK, Filed
    <2>2. callback[t] = tmp[t] /\ baton_map[tmp[t]] = t /\ t \in batons
      BY <1>0, <2>1 DEF StreamInv, BatonInv
    <2> QED
      BY <1>0, <1>5, <2>2 DEF UseFreedBaton, BatonInv
  <1>6. ASSUME NEW t \in Thread, NEW c \in Client, CloseClient(t, c) PROVE FALSE
    BY <1>6 DEF CloseClient, AskToClose, Crash
  <1>7. ASSUME NEW t \in Thread, UseStoppedStream(t) \/ EncodeFails(t) PROVE FALSE
    BY <1>7 DEF UseStoppedStream, EncodeFails, Crash
  <1>8. ASSUME NEW t \in Thread, VideoStep(t) PROVE fault' = "resource" /\ ~ready
    BY <1>3, <1>4, <1>6, <1>7, <1>8
    DEF VideoStep, GetIV_StartStream, GetIV_Render, ReportFailure, SetupBaton, FindCount,
        ReceiveVideo, LeaveLoop, StopStream, LockViewers, FreeBaton
  <1>9. ASSUME NEW t \in Thread, DecoderStep(t) PROVE FALSE
    BY <1>5, <1>7, <1>9
    DEF DecoderStep, FindBaton, Convert, CopyViewers, LockSend, UnlockSend, SendFrame
  <1> QED
    BY <1>1, <1>2, <1>8, <1>9 DEF Next, Quiet

\* An id that is not in clients_list is one of a client that sent two strings.
LEMMA CloseFails ==
    ASSUME ServiceInv, [Next]_vars, fault = "none", fault' = "close"
    PROVE  SecondString
  <1>0. TypeOK /\ ViewersAreConnected
    BY DEF ServiceInv, ViewInv, ViewOf, ViewersAreConnected
  <1>1. ~(Environment \/ LoopStep \/ UNCHANGED vars)
    BY
    DEF Environment, LoopStep, PlatformReady, AcceptConnection, AfterRecvError, ReadCB_Count,
        ReadCB_Register, ReadCB_Start, PrepareCB, AfterClientClose, ClientClosed_Unsubscribe,
        ClientClosed_Join, ClientClosed_Delete, vars, threads
  <1>2. ~DataRace
    BY DEF DataRace, Crash
  <1>3. ASSUME NEW t \in Thread, NEW c \in Client, CloseClient(t, c) PROVE SecondString
    <2>1. c \in closing[t] /\ c \notin Connected
      BY <1>3 DEF CloseClient, AskToClose
    <2>2. ~(Len(requested[c]) <= 1) /\ Len(requested[c]) \in Nat
      BY <1>0, <2>1 DEF ViewersAreConnected, TypeOK
    <2> QED
      BY <2>2 DEF SecondString
  <1>4. ASSUME NEW t \in Thread,
               UseFreedClient(t) \/ MissResource(t) \/ UseStoppedStream(t) \/ EncodeFails(t)
                 \/ UseFreedBaton(t)
        PROVE  FALSE
    BY <1>4 DEF UseFreedClient, MissResource, UseStoppedStream, EncodeFails, UseFreedBaton, Crash
  <1>5. ASSUME NEW t \in Thread, VideoStep(t) PROVE SecondString
    BY <1>3, <1>4, <1>5
    DEF VideoStep, GetIV_StartStream, GetIV_Render, ReportFailure, SetupBaton, FindCount,
        ReceiveVideo, LeaveLoop, StopStream, LockViewers, FreeBaton
  <1>6. ASSUME NEW t \in Thread, DecoderStep(t) PROVE FALSE
    BY <1>4, <1>6
    DEF DecoderStep, FindBaton, Convert, CopyViewers, LockSend, UnlockSend, SendFrame
  <1> QED
    BY <1>1, <1>2, <1>5, <1>6 DEF Next, Quiet

\* A thread that uses a client or a baton that is not there any more needs a
\* client that was deleted or sent a second string; one that uses a resource
\* that is not there these or a platform that is still being initialised; one
\* that closes an id that is not there a second string.
THEOREM CrashesNeedTheirCauses == Spec => CrashesHaveCauses
  <1>1. ServiceInv /\ CalmInv /\ [Next]_vars =>
          [fault = "none" =>
              /\ fault' \in {"client", "baton"} => Disturbed
              /\ fault' = "resource" => Disturbed \/ ~ready
              /\ fault' = "close" => SecondString]_vars
    <2>0. SUFFICES ASSUME ServiceInv, CalmInv, [Next]_vars, fault = "none"
                   PROVE  /\ fault' \in {"client", "baton"} => Disturbed
                          /\ fault' = "resource" => Disturbed \/ ~ready
                          /\ fault' = "close" => SecondString
      OBVIOUS
    <2>1. Calm \/ Disturbed
      <3>1. \A c \in Client : Len(requested[c]) \in Nat
        BY <2>0 DEF ServiceInv, TypeOK
      <3> QED
        BY <3>1 DEF Calm, Disturbed, SecondString
    <2> QED
      BY <2>0, <2>1, CalmNeverFails, CloseFails
  <1> QED
    BY <1>1, CalmInvariant, PTL DEF Spec, CrashesHaveCauses

=============================================================================
