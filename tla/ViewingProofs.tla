----------------------------- MODULE ViewingProofs -----------------------------
(* Theorems about what the clients of VideoService get: frames of the       *)
(* strings they asked for, as viewers that are connected, as Viewing        *)
(* promises.  They hold for every value of the constants.                   *)
EXTENDS VideoServiceProofs

\* Inside ReadCB the connection is open; inside ClientClosed, and only there,
\* it is closed and not yet deleted.
ClosedNow(c) == loop.pc \in {"unsubscribe", "join", "delete"} /\ loop.client = c
ConnInv ==
    /\ \A c \in reading : conn[c] = "open"
    /\ \A c \in Client : c > s_id <=> conn[c] = "none"
    /\ \A c \in Client : conn[c] = "none" => requested[c] = <<>>
    /\ loop.pc \in {"register", "search"} => conn[loop.client] = "open"
    /\ \A c \in Client : conn[c] = "closed" <=> ClosedNow(c)

\* What is in the maps, in a decoder's copy of them and in the send pools was
\* asked for.
Asked(c, k) == \E i \in 1..Len(requested[c]) : requested[c][i] = k
AskInv ==
    /\ loop.pc = "register" => Asked(loop.client, loop.key)
    /\ \A e \in puid_client : Asked(e.client, e.key)
    /\ \A t \in Thread : sending[t] # {} => dpc[t] \in {"lock", "send"}
    /\ \A t \in Thread : \A c \in sending[t] : Asked(c, callback[t])
    /\ FramesAsAsked

\* A crash is the end.
FaultInv ==
    fault # "none" =>
        /\ loop.pc = "crashed"
        /\ \A t \in Thread : vpc[t] = "unused" /\ dpc[t] = "idle"

USE ConstantsAssumption DEF Client, NoClient, NoKey, Stopped, Handle, Live

-----------------------------------------------------------------------------
(* Connections.                                                            *)

LEMMA ConnCrash == ASSUME NEW why \in FaultKind, Crash(why) PROVE ConnInv'
  <1>1. /\ reading' = {} /\ s_id' = 0 /\ loop'.pc = "crashed"
        /\ \A c \in Client : conn'[c] = "none" /\ requested'[c] = <<>>
    BY DEF Crash
  <1> QED
    BY <1>1 DEF ConnInv, ClosedNow

\* Steps that leave the connections, or only stop to read, alone.
LEMMA ConnQuiet ==
    ASSUME ConnInv, UNCHANGED <<conn, s_id, requested>>, reading' \subseteq reading,
           \/ loop' = loop
           \/ loop.pc \in {"register", "search"} /\ loop' = Idle
           \/ loop.pc = "register" /\ loop' = At("search")
           \/ loop.pc \in {"unsubscribe", "join"} /\ loop'.pc \in {"join", "delete"}
              /\ loop'.client = loop.client
    PROVE  ConnInv'
  <1>1. ASSUME NEW c \in Client PROVE ClosedNow(c)' <=> ClosedNow(c)
    BY DEF ClosedNow, Idle, At
  <1>2. loop'.pc \in {"register", "search"} =>
            loop.pc \in {"register", "search"} /\ loop'.client = loop.client
    BY DEF Idle, At
  <1> QED
    BY <1>1, <1>2 DEF ConnInv

LEMMA ConnLoop == ASSUME TypeOK, PcOK, ConnInv, Environment \/ LoopStep PROVE ConnInv'
  <1> USE DEF service, net, request, registry, threads
  <1>1. CASE PlatformReady
    BY <1>1, ConnQuiet DEF PlatformReady
  <1>2. CASE AcceptConnection
    <2>1. /\ s_id \in Nat /\ s_id' = s_id + 1 /\ s_id + 1 \in Client
          /\ \A c \in Client : c > s_id' <=> c > s_id /\ c # s_id + 1
      BY <1>2 DEF AcceptConnection, TypeOK, ConstantsAssumption
    <2>2. /\ conn'[s_id + 1] = "open"
          /\ \A c \in Client \ {s_id + 1} : conn'[c] = conn[c]
      BY <1>2, <2>1 DEF AcceptConnection, TypeOK
    <2>3. conn[s_id + 1] = "none"
      BY <2>1 DEF ConnInv
    <2>4. /\ UNCHANGED <<loop, requested>> /\ loop.pc = "idle"
          /\ reading' = reading \cup {s_id + 1} /\ reading \subseteq Client
      BY <1>2 DEF AcceptConnection, TypeOK
    <2>5. \A c \in Client : c > s_id' <=> conn'[c] = "none"
      BY <2>1, <2>2 DEF ConnInv
    <2> QED
      BY <2>1, <2>2, <2>3, <2>4, <2>5 DEF ConnInv, ClosedNow
  <1>3. ASSUME NEW c \in Client, AfterRecvError(c) PROVE ConnInv'
    BY <1>3, ConnQuiet DEF AfterRecvError
  <1>4. ASSUME NEW c \in Client, NEW k \in Key, ReadCB_Count(c, k) PROVE ConnInv'
    <2>1. /\ conn[c] = "open" /\ loop.pc = "idle" /\ loop'.pc = "register"
          /\ loop'.client = c /\ UNCHANGED <<conn, s_id, reading>>
      BY <1>4 DEF ReadCB_Count, ConnInv
    <2>2. \A d \in Client \ {c} : requested'[d] = requested[d]
      BY <1>4 DEF ReadCB_Count, TypeOK
    <2> QED
      BY <2>1, <2>2 DEF ConnInv, ClosedNow
  <1>5. CASE ReadCB_Register
    BY <1>5, ConnQuiet DEF ReadCB_Register
  <1>6. CASE ReadCB_Start
    BY <1>6, ConnQuiet DEF ReadCB_Start
  <1>7. ASSUME NEW c \in Client, PrepareCB(c) PROVE ConnInv'
    <2>1. /\ conn[c] = "open" /\ conn'[c] = "closing" /\ reading' = reading \ {c}
          /\ \A d \in Client \ {c} : conn'[d] = conn[d]
          /\ loop.pc = "idle" /\ UNCHANGED <<loop, s_id, requested>>
          /\ reading \subseteq Client
      BY <1>7 DEF PrepareCB, TypeOK
    <2> QED
      BY <2>1 DEF ConnInv, ClosedNow
  <1>8. ASSUME NEW c \in Client, AfterClientClose(c) PROVE ConnInv'
    <2>1. /\ conn[c] = "closing" /\ conn'[c] = "closed" /\ reading' = reading
          /\ \A d \in Client \ {c} : conn'[d] = conn[d]
          /\ loop.pc = "idle" /\ loop'.pc = "unsubscribe" /\ loop'.client = c
          /\ UNCHANGED <<s_id, requested>> /\ reading \subseteq Client
      BY <1>8 DEF AfterClientClose, TypeOK
    <2> QED
      BY <2>1 DEF ConnInv, ClosedNow
  <1>9. CASE ClientClosed_Unsubscribe
    <2>1. loop'.pc \in {"join", "delete"} /\ loop'.client = loop.client
      BY <1>9 DEF ClientClosed_Unsubscribe, At
    <2> QED
      BY <1>9, <2>1, ConnQuiet DEF ClientClosed_Unsubscribe
  <1>10. CASE ClientClosed_Join
    BY <1>10, ConnQuiet DEF ClientClosed_Join, At
  <1>11. CASE ClientClosed_Delete
    <2> DEFINE c == loop.client
    <2>1. /\ c \in Client /\ loop.pc = "delete" /\ loop'.pc = "idle"
          /\ conn'[c] = "freed" /\ \A d \in Client \ {c} : conn'[d] = conn[d]
          /\ UNCHANGED <<reading, s_id, requested>> /\ reading \subseteq Client
      BY <1>11 DEF ClientClosed_Delete, TypeOK, PcOK, Idle
    <2>2. conn[c] = "closed"
      BY <2>1 DEF ConnInv, ClosedNow
    <2> QED
      BY <2>1, <2>2 DEF ConnInv, ClosedNow
  <1> QED
    BY <1>1, <1>2, <1>3, <1>4, <1>5, <1>6, <1>7, <1>8, <1>9, <1>10, <1>11
    DEF Environment, LoopStep

\* The threads do not touch the connections, or they crash the process.
LEMMA ThreadFrame ==
    ASSUME NEW t \in Thread, VideoStep(t) \/ DecoderStep(t)
    PROVE  \/ \E why \in FaultKind : Crash(why)
           \/ UNCHANGED <<ready, s_id, conn, reading, requested, recv_msg, threadId, loop,
                          puid_count, puid_client, puid_thread, fault>>
  <1> USE DEF service, net, request, registry, FaultKind
  <1>1. ASSUME NEW c \in Client, CloseClient(t, c)
        PROVE  \/ \E why \in FaultKind : Crash(why)
               \/ UNCHANGED <<ready, s_id, conn, reading, requested, recv_msg, threadId, loop,
                              puid_count, puid_client, puid_thread, fault>>
    BY <1>1 DEF CloseClient, AskToClose
  <1>2. CASE UseFreedClient(t) \/ MissResource(t) \/ UseStoppedStream(t) \/ EncodeFails(t) \/ UseFreedBaton(t)
    BY <1>2 DEF UseFreedClient, MissResource, UseStoppedStream, EncodeFails, UseFreedBaton
  <1>3. CASE GetIV_StartStream(t) \/ GetIV_Render(t) \/ ReportFailure(t) \/ SetupBaton(t)
    BY <1>3 DEF GetIV_StartStream, GetIV_Render, ReportFailure, SetupBaton
  <1>4. CASE FindCount(t) \/ ReceiveVideo(t) \/ LeaveLoop(t) \/ StopStream(t)
    BY <1>4 DEF FindCount, ReceiveVideo, LeaveLoop, StopStream
  <1>5. CASE LockViewers(t) \/ FreeBaton(t)
    BY <1>5 DEF LockViewers, FreeBaton
  <1>6. CASE FindBaton(t) \/ Convert(t) \/ CopyViewers(t) \/ LockSend(t) \/ UnlockSend(t)
    BY <1>6 DEF FindBaton, Convert, CopyViewers, LockSend, UnlockSend
  <1>7. ASSUME NEW c \in Client, SendFrame(t, c)
        PROVE  UNCHANGED <<ready, s_id, conn, reading, requested, recv_msg, threadId, loop,
                           puid_count, puid_client, puid_thread, fault>>
    BY <1>7 DEF SendFrame
  <1> QED
    BY <1>1, <1>2, <1>3, <1>4, <1>5, <1>6, <1>7 DEF VideoStep, DecoderStep

LEMMA ConnStep == ASSUME TypeOK, PcOK, ConnInv, [Next]_vars PROVE ConnInv'
  <1>1. CASE UNCHANGED vars
    BY <1>1, ConnQuiet DEF vars, net, request
  <1>2. CASE DataRace
    BY <1>2, ConnCrash DEF DataRace, FaultKind
  <1>3. ASSUME NEW t \in Thread, VideoStep(t) \/ DecoderStep(t) PROVE ConnInv'
    BY <1>3, ThreadFrame, ConnCrash, ConnQuiet
  <1> QED
    BY <1>1, <1>2, <1>3, ConnLoop DEF Next, Quiet

-----------------------------------------------------------------------------
(* What was asked for.                                                     *)

LEMMA AskCrash == ASSUME NEW why \in FaultKind, Crash(why) PROVE AskInv'
  BY DEF Crash, AskInv, FramesAsAsked

LEMMA AskInit == ASSUME Init PROVE AskInv
  <1>1. /\ loop.pc # "register" /\ puid_client = {}
        /\ \A t \in Thread : sending[t] = {}
        /\ \A c \in Client : frames[c] = {}
    BY DEF Init, Idle
  <1> QED
    BY <1>1 DEF AskInv, FramesAsAsked

\* Steps that register and send nothing.
LEMMA AskQuiet ==
    ASSUME AskInv, puid_client' \subseteq puid_client,
           UNCHANGED <<requested, sending, dpc, callback, frames>>,
           loop' = loop \/ loop'.pc # "register"
    PROVE  AskInv'
  <1>1. ASSUME NEW c, NEW k PROVE Asked(c, k)' <=> Asked(c, k)
    BY DEF Asked
  <1>2. loop'.pc = "register" => Asked(loop'.client, loop'.key)
    BY <1>1 DEF AskInv
  <1>3. FramesAsAsked'
    BY DEF AskInv, FramesAsAsked
  <1> QED
    BY <1>1, <1>2, <1>3 DEF AskInv

LEMMA AskOfRequest ==
    ASSUME TypeOK, PcOK, AskInv, NEW c \in Client, NEW k \in Key, ReadCB_Count(c, k)
    PROVE  AskInv'
  <1>1. /\ \A d \in Client \ {c} : requested'[d] = requested[d]
        /\ requested'[c] = Append(requested[c], k)
        /\ requested[c] \in Seq(Key)
    BY DEF ReadCB_Count, TypeOK
  <1>2. /\ Len(requested'[c]) = Len(requested[c]) + 1 /\ Len(requested[c]) \in Nat
        /\ \A i \in 1..Len(requested[c]) : requested'[c][i] = requested[c][i]
        /\ requested'[c][Len(requested[c]) + 1] = k
    BY <1>1
  <1>3. ASSUME NEW d \in Client, NEW j, Asked(d, j) PROVE Asked(d, j)'
    BY <1>1, <1>2, <1>3 DEF Asked
  <1>4. Asked(c, k)'
    BY <1>2 DEF Asked
  <1>5. /\ loop'.client = c /\ loop'.key = k
        /\ UNCHANGED <<puid_client, sending, dpc, callback, frames>>
    BY DEF ReadCB_Count, threads, decoder, video, net
  <1>6. \A e \in puid_client : e.client \in Client
    BY DEF TypeOK, Entry
  <1>7. \A t \in Thread : sending[t] \subseteq Client
    BY DEF TypeOK
  <1>8. FramesAsAsked'
    BY <1>3, <1>5 DEF AskInv, FramesAsAsked, Asked
  <1> QED
    BY <1>3, <1>4, <1>5, <1>6, <1>7, <1>8 DEF AskInv

LEMMA AskLoop == ASSUME TypeOK, PcOK, AskInv, Environment \/ LoopStep PROVE AskInv'
  <1> USE DEF service, net, request, registry, threads, video, decoder
  <1>1. CASE PlatformReady \/ AcceptConnection
    BY <1>1, AskQuiet DEF PlatformReady, AcceptConnection
  <1>2. ASSUME NEW c \in Client, AfterRecvError(c) PROVE AskInv'
    BY <1>2, AskQuiet DEF AfterRecvError
  <1>3. CASE ReadCB_Register
    <2>1. /\ UNCHANGED <<requested, sending, dpc, callback, frames>>
          /\ loop.pc = "register" /\ loop'.pc # "register"
          /\ \A e \in puid_client' : e \in puid_client
                 \/ (e.client = loop.client /\ e.key = loop.key)
      BY <1>3 DEF ReadCB_Register, At, Idle
    <2>2. ASSUME NEW c, NEW k PROVE Asked(c, k)' <=> Asked(c, k)
      BY <2>1 DEF Asked
    <2>3. FramesAsAsked'
      BY <2>1 DEF AskInv, FramesAsAsked
    <2> QED
      BY <2>1, <2>2, <2>3 DEF AskInv
  <1>4. CASE ReadCB_Start
    BY <1>4, AskQuiet DEF ReadCB_Start, Idle
  <1>5. ASSUME NEW c \in Client, PrepareCB(c) PROVE AskInv'
    BY <1>5, AskQuiet DEF PrepareCB
  <1>6. ASSUME NEW c \in Client, AfterClientClose(c) PROVE AskInv'
    BY <1>6, AskQuiet DEF AfterClientClose
  <1>7. CASE ClientClosed_Unsubscribe
    <2>1. loop'.pc # "register" /\ puid_client' \subseteq puid_client
      BY <1>7 DEF ClientClosed_Unsubscribe, At
    <2> QED
      BY <1>7, <2>1, AskQuiet DEF ClientClosed_Unsubscribe
  <1>8. CASE ClientClosed_Join
    BY <1>8, AskQuiet DEF ClientClosed_Join, At
  <1>9. CASE ClientClosed_Delete
    BY <1>9, AskQuiet DEF ClientClosed_Delete, Idle
  <1> QED
    BY <1>1, <1>2, <1>3, <1>4, <1>5, <1>6, <1>7, <1>8, <1>9, AskOfRequest
    DEF Environment, LoopStep

\* A step of a thread that keeps the copies small, and changes the string of
\* a callback only while its decoder is idle.
LEMMA AskThread ==
    ASSUME TypeOK, AskInv, UNCHANGED <<loop, requested, puid_client>>, FramesAsAsked',
           \A u \in Thread : sending'[u] # {} => dpc'[u] \in {"lock", "send"},
           \A u \in Thread : \A c \in sending'[u] : Asked(c, callback'[u])
    PROVE  AskInv'
  <1>1. ASSUME NEW c, NEW k PROVE Asked(c, k)' <=> Asked(c, k)
    BY DEF Asked
  <1> QED
    BY <1>1 DEF AskInv

LEMMA AskVideo ==
    ASSUME TypeOK, PcOK, AskInv, NEW t \in Thread, VideoStep(t)
    PROVE  AskInv'
  <1> USE DEF service, net, request, registry, decoder
  <1>1. CASE \E why \in FaultKind : Crash(why)
    BY <1>1, AskCrash
  <1>2. CASE \/ GetIV_StartStream(t) \/ ReportFailure(t) \/ SetupBaton(t) \/ FindCount(t)
             \/ LeaveLoop(t) \/ LockViewers(t) \/ FreeBaton(t)
    <2>1. UNCHANGED <<loop, requested, puid_client, sending, dpc, callback, frames>>
      BY <1>2 DEF GetIV_StartStream, ReportFailure, SetupBaton, FindCount, LeaveLoop,
                  LockViewers, FreeBaton
    <2> QED
      BY <2>1, AskQuiet
  <1>3. CASE GetIV_Render(t) \/ StopStream(t)
    <2>1. dpc[t] = "idle"
      BY <1>3 DEF GetIV_Render, StopStream, PcOK
    <2>2. /\ UNCHANGED <<loop, requested, puid_client, sending, dpc, frames>>
          /\ \A u \in Thread \ {t} : callback'[u] = callback[u]
      BY <1>3 DEF GetIV_Render, StopStream, TypeOK
    <2>3. sending[t] = {}
      BY <2>1 DEF AskInv
    <2>4. FramesAsAsked'
      BY <2>2 DEF AskInv, FramesAsAsked
    <2> QED
      BY <2>2, <2>3, <2>4, AskThread DEF AskInv
  <1>4. CASE ReceiveVideo(t)
    <2>1. /\ UNCHANGED <<loop, requested, puid_client, sending, callback, frames>>
          /\ \A u \in Thread \ {t} : dpc'[u] = dpc[u]
          /\ dpc[t] = "idle"
      BY <1>4 DEF ReceiveVideo, TypeOK, video
    <2>2. FramesAsAsked'
      BY <2>1 DEF AskInv, FramesAsAsked
    <2> QED
      BY <2>1, <2>2, AskThread DEF AskInv
  <1>5. ASSUME NEW c \in Client, CloseClient(t, c) PROVE AskInv'
    <2>1. CASE AskToClose(t, c)
      BY <2>1, AskQuiet DEF AskToClose
    <2> QED
      BY <1>1, <1>5, <2>1 DEF CloseClient, FaultKind
  <1>6. CASE UseFreedClient(t) \/ MissResource(t) \/ UseStoppedStream(t)
    BY <1>1, <1>6 DEF UseFreedClient, MissResource, UseStoppedStream, FaultKind
  <1> QED
    BY <1>2, <1>3, <1>4, <1>5, <1>6 DEF VideoStep

LEMMA AskDecoder ==
    ASSUME TypeOK, PcOK, AskInv, NEW t \in Thread, DecoderStep(t)
    PROVE  AskInv'
  <1> USE DEF service, net, request, registry, video
  <1>1. CASE FindBaton(t) \/ Convert(t) \/ LockSend(t) \/ UnlockSend(t)
    <2>1. /\ UNCHANGED <<loop, requested, puid_client, sending, callback, frames>>
          /\ \A u \in Thread \ {t} : dpc'[u] = dpc[u]
      BY <1>1 DEF FindBaton, Convert, LockSend, UnlockSend, Decode, TypeOK
    <2>2. sending[t] = {} \/ dpc'[t] = "send"
      BY <1>1 DEF FindBaton, Convert, LockSend, UnlockSend, Decode, TypeOK, AskInv
    <2>3. FramesAsAsked'
      BY <2>1 DEF AskInv, FramesAsAsked
    <2> QED
      BY <2>1, <2>2, <2>3, AskThread DEF AskInv
  <1>2. CASE CopyViewers(t)
    <2>1. /\ UNCHANGED <<loop, requested, puid_client, callback, frames>>
          /\ \A u \in Thread \ {t} : dpc'[u] = dpc[u] /\ sending'[u] = sending[u]
          /\ dpc'[t] = "lock" /\ sending'[t] = ViewersOf(callback[t])
      BY <1>2 DEF CopyViewers, Decode, TypeOK
    <2>2. \A c \in ViewersOf(callback[t]) : Asked(c, callback[t])
      BY DEF ViewersOf, AskInv
    <2>3. FramesAsAsked'
      BY <2>1 DEF AskInv, FramesAsAsked
    <2> QED
      BY <2>1, <2>2, <2>3, AskThread DEF AskInv
  <1>3. ASSUME NEW c \in Client, SendFrame(t, c) PROVE AskInv'
    <2>1. /\ UNCHANGED <<loop, requested, puid_client, callback, dpc>>
          /\ \A u \in Thread : sending'[u] \subseteq sending[u]
          /\ c \in sending[t]
      BY <1>3 DEF SendFrame, TypeOK
    <2>2. \A d \in Client : \A f \in frames'[d] :
              f \in frames[d] \/ (d = c /\ f.key = callback[t])
      BY <1>3 DEF SendFrame, TypeOK
    <2>3. FramesAsAsked'
      BY <2>1, <2>2 DEF AskInv, FramesAsAsked, Asked
    <2> QED
      BY <2>1, <2>3, AskThread DEF AskInv
  <1>4. CASE EncodeFails(t) \/ UseFreedBaton(t)
    BY <1>4, AskCrash DEF EncodeFails, UseFreedBaton, FaultKind
  <1> QED
    BY <1>1, <1>2, <1>3, <1>4 DEF DecoderStep

LEMMA AskStep == ASSUME TypeOK, PcOK, AskInv, [Next]_vars PROVE AskInv'
  <1>1. CASE UNCHANGED vars
    BY <1>1, AskQuiet DEF vars, net, request, registry, decoder, video
  <1>2. CASE DataRace
    BY <1>2, AskCrash DEF DataRace, FaultKind
  <1> QED
    BY <1>1, <1>2, AskLoop, AskVideo, AskDecoder DEF Next, Quiet

\* Whatever the age of the copy of the map it is sent by, a frame reaches only
\* connections that asked for the string it is sent under.
THEOREM FramesGoWhereAsked == Spec => []FramesAsAsked
  <1>1. Init => TypeOK /\ PcOK /\ AskInv
    BY InitTypes, AskInit
  <1>2. TypeOK /\ PcOK /\ AskInv /\ [Next]_vars => (TypeOK /\ PcOK /\ AskInv)'
    BY StepTypes, AskStep
  <1>3. AskInv => FramesAsAsked
    BY DEF AskInv
  <1> QED
    BY <1>1, <1>2, <1>3, PTL DEF Spec

-----------------------------------------------------------------------------
(* Viewers.                                                                *)

\* Inside ClientClosed, past the unsubscription.
Unsubscribed(c) == loop.pc \in {"join", "delete"} /\ loop.client = c
Registering(c)  == loop.pc = "register" /\ loop.client = c

\* A client that sent no second string has one entry at most, from the end of
\* ReadCB to ClientClosed, and a thread that holds a copy of it, under the
\* mutex or not, holds it rightly.
ViewOf(c) ==
    /\ \A e, f \in EntriesOf(c) : e = f
    /\ Registering(c) => EntriesOf(c) = {}
    /\ EntriesOf(c) # {} => c \in Connected /\ ~Unsubscribed(c)
    /\ requested[c] # <<>> =>
           EntriesOf(c) # {} \/ Registering(c) \/ Unsubscribed(c) \/ conn[c] = "freed"
    /\ \A t \in Thread : c \in closing[t] => EntriesOf(c) # {}
    /\ \A t \in Thread : c \in sending[t] =>
           EntriesOf(c) # {} \/ conn[c] \in {"closed", "freed"}

ViewInv ==
    /\ \A e \in puid_client : e.nth \in 1..Len(requested[e.client])
    /\ \A t \in Thread : closing[t] # {} => vpc[t] = "closing"
    /\ \A c \in Client : Len(requested[c]) <= 1 => ViewOf(c)

LEMMA ViewInit == ASSUME Init PROVE ViewInv
  <1>1. /\ puid_client = {} /\ loop.pc = "idle"
        /\ \A t \in Thread : closing[t] = {} /\ sending[t] = {}
        /\ \A c \in Client : requested[c] = <<>>
    BY DEF Init, Idle
  <1>2. \A c \in Client : EntriesOf(c) = {}
    BY <1>1 DEF EntriesOf
  <1> QED
    BY <1>1, <1>2 DEF ViewInv, ViewOf, Registering, Unsubscribed

LEMMA ViewCrash == ASSUME NEW why \in FaultKind, Crash(why) PROVE ViewInv'
  <1>1. /\ puid_client' = {} /\ loop'.pc = "crashed"
        /\ \A t \in Thread : closing'[t] = {} /\ sending'[t] = {}
        /\ \A c \in Client : requested'[c] = <<>>
    BY DEF Crash
  <1>2. \A c \in Client : EntriesOf(c)' = {}
    BY <1>1 DEF EntriesOf
  <1> QED
    BY <1>1, <1>2 DEF ViewInv, ViewOf, Registering, Unsubscribed

\* A viewer's entry is found by its key and by its client.
LEMMA ViewerHasEntry ==
    ASSUME NEW k, NEW c \in ViewersOf(k) PROVE EntriesOf(c) # {}
  BY DEF ViewersOf, EntriesOf

\* Steps of a thread, which may copy the viewers of a string.
LEMMA ViewThread ==
    ASSUME ViewInv, UNCHANGED <<puid_client, requested, conn, loop>>,
           \A u \in Thread : closing'[u] # {} => vpc'[u] = "closing",
           \A u \in Thread : \A c \in closing'[u] : c \in closing[u] \/ EntriesOf(c) # {},
           \A u \in Thread : \A c \in sending'[u] : c \in sending[u] \/ EntriesOf(c) # {}
    PROVE  ViewInv'
  <1>1. ASSUME NEW c \in Client, Len(requested[c]) <= 1 PROVE ViewOf(c)'
    <2>1. ViewOf(c)
      BY <1>1 DEF ViewInv
    <2>2. /\ EntriesOf(c)' = EntriesOf(c)
          /\ Registering(c)' <=> Registering(c)
          /\ Unsubscribed(c)' <=> Unsubscribed(c)
          /\ Connected' = Connected
      BY DEF EntriesOf, Registering, Unsubscribed, Connected
    <2> QED
      BY <2>1, <2>2 DEF ViewOf
  <1> QED
    BY <1>1 DEF ViewInv

\* Steps between callbacks, or into and out of the ones that do not touch the
\* map, by which a connection is opened or closed but not deleted.
LEMMA ViewConn ==
    ASSUME ViewInv, UNCHANGED <<puid_client, requested, closing, vpc, sending>>,
           loop' = loop \/ {loop.pc, loop'.pc} \cap {"register", "join", "delete"} = {},
           \A c \in Client : \/ conn'[c] = conn[c]
                             \/ /\ conn[c] \notin {"closed", "freed"}
                                /\ conn'[c] \in {"open", "closing", "closed"}
    PROVE  ViewInv'
  <1>1. ASSUME NEW c \in Client, Len(requested[c]) <= 1 PROVE ViewOf(c)'
    <2>1. ViewOf(c)
      BY <1>1 DEF ViewInv
    <2>2. /\ EntriesOf(c)' = EntriesOf(c)
          /\ Registering(c)' <=> Registering(c)
          /\ Unsubscribed(c)' <=> Unsubscribed(c)
      BY DEF EntriesOf, Registering, Unsubscribed
    <2>3. c \in Connected => c \in Connected'
      BY DEF Connected
    <2>4. /\ conn[c] \in {"closed", "freed"} => conn'[c] = conn[c]
          /\ conn'[c] = "freed" => conn[c] = "freed"
      OBVIOUS
    <2> QED
      BY <2>1, <2>2, <2>3, <2>4 DEF ViewOf
  <1> QED
    BY <1>1 DEF ViewInv

LEMMA ViewOfRequest ==
    ASSUME TypeOK, AskInv, ViewInv, NEW c \in Client, NEW k \in Key, ReadCB_Count(c, k)
    PROVE  ViewInv'
  <1>1. /\ UNCHANGED <<puid_client, closing, vpc, sending, conn>>
        /\ loop.pc = "idle" /\ loop'.pc = "register" /\ loop'.client = c
    BY DEF ReadCB_Count, net, threads, video, decoder
  <1>2. /\ \A d \in Client \ {c} : requested'[d] = requested[d]
        /\ Len(requested'[c]) = Len(requested[c]) + 1 /\ Len(requested[c]) \in Nat
        /\ \A d \in Client : Len(requested[d]) \in Nat
    BY DEF ReadCB_Count, TypeOK
  <1>3. \A e \in puid_client : e.nth \in 1..Len(requested'[e.client])
    <2> SUFFICES ASSUME NEW e \in puid_client PROVE e.nth \in 1..Len(requested'[e.client])
      OBVIOUS
    <2>1. e.client \in Client /\ e.nth \in 1..Len(requested[e.client])
      BY DEF TypeOK, Entry, ViewInv
    <2> QED
      BY <1>2, <2>1
  <1>4. ASSUME NEW d \in Client, Len(requested'[d]) <= 1 PROVE ViewOf(d)'
    <2>1. /\ EntriesOf(d)' = EntriesOf(d) /\ Connected' = Connected
          /\ ~Unsubscribed(d)' /\ ~Unsubscribed(d) /\ ~Registering(d)
      BY <1>1 DEF EntriesOf, Connected, Unsubscribed, Registering
    <2>2. ViewOf(d)
      BY <1>2, <1>4 DEF ViewInv
    <2>3. CASE d = c
      <3>1. Len(requested[c]) = 0 /\ Registering(c)'
        BY <1>1, <1>2, <1>4, <2>3 DEF Registering
      <3>2. EntriesOf(c) = {}
        BY <3>1 DEF EntriesOf, ViewInv
      <3>3. \A t \in Thread : c \notin sending[t] /\ c \notin closing[t]
        BY <2>2, <2>3, <3>1, <3>2 DEF AskInv, Asked, ViewOf
      <3> QED
        BY <1>1, <2>1, <2>3, <3>1, <3>2, <3>3 DEF ViewOf
    <2>4. CASE d # c
      <3>1. ~Registering(d)' /\ requested'[d] = requested[d]
        BY <1>1, <1>2, <2>4 DEF Registering
      <3> QED
        BY <1>1, <2>1, <2>2, <3>1 DEF ViewOf
    <2> QED
      BY <2>3, <2>4
  <1> QED
    BY <1>1, <1>3, <1>4 DEF ViewInv

LEMMA ViewOfRegister ==
    ASSUME TypeOK, PcOK, ConnInv, AskInv, ViewInv, ReadCB_Register
    PROVE  ViewInv'
  <1> DEFINE c == loop.client
             new == [key |-> loop.key, client |-> loop.client,
                     nth |-> Len(requested[loop.client])]
  <1>1. /\ puid_client' = puid_client \cup {new} /\ c \in Client
        /\ loop.pc = "register" /\ loop'.pc \in {"idle", "search"}
        /\ UNCHANGED <<requested, conn, closing, vpc, sending>>
    BY DEF ReadCB_Register, At, Idle, PcOK, net, threads, video, decoder
  <1>2. Len(requested[c]) \in Nat /\ Len(requested[c]) # 0
    BY <1>1 DEF AskInv, Asked, TypeOK
  <1>3. \A e \in puid_client' : e.nth \in 1..Len(requested[e.client])
    BY <1>1, <1>2 DEF ViewInv
  <1>4. ASSUME NEW d \in Client, Len(requested[d]) <= 1 PROVE ViewOf(d)'
    <2>1. ViewOf(d)
      BY <1>4 DEF ViewInv
    <2>2. Connected' = Connected /\ ~Registering(d)' /\ ~Unsubscribed(d)'
      BY <1>1 DEF Connected, Registering, Unsubscribed
    <2>3. CASE d = c
      <3>1. EntriesOf(d) = {}
        BY <1>1, <2>1, <2>3 DEF ViewOf, Registering
      <3>2. EntriesOf(d)' = {new}
        BY <1>1, <2>3, <3>1 DEF EntriesOf
      <3>3. d \in Connected
        BY <1>1, <2>3 DEF ConnInv, Connected
      <3> QED
        BY <1>1, <2>2, <3>2, <3>3 DEF ViewOf
    <2>4. CASE d # c
      <3>1. EntriesOf(d)' = EntriesOf(d) /\ ~Registering(d) /\ ~Unsubscribed(d)
        BY <1>1, <2>4 DEF EntriesOf, Registering, Unsubscribed
      <3> QED
        BY <1>1, <2>1, <2>2, <3>1 DEF ViewOf
    <2> QED
      BY <2>3, <2>4
  <1> QED
    BY <1>1, <1>3, <1>4 DEF ViewInv

LEMMA ViewOfUnsubscribe ==
    ASSUME TypeOK, PcOK, ConnInv, ViewInv, ClientClosed_Unsubscribe
    PROVE  ViewInv'
  <1> DEFINE c == loop.client
  <1>1. /\ c \in Client /\ loop.pc = "unsubscribe"
        /\ loop'.pc \in {"join", "delete"} /\ loop'.client = c
        /\ UNCHANGED <<requested, conn, closing, vpc, sending>>
    BY DEF ClientClosed_Unsubscribe, At, PcOK, net, request, threads, video, decoder
  <1>2. \A t \in Thread : closing[t] = {}
    BY DEF ClientClosed_Unsubscribe, RegistryFree, ViewInv
  <1>3. conn[c] = "closed"
    BY <1>1 DEF ConnInv, ClosedNow
  <1>4. /\ puid_client' \subseteq puid_client
        /\ puid_client \ puid_client' \subseteq EntriesOf(c)
        /\ EntriesOf(c) # {} => \E e \in EntriesOf(c) : e \notin puid_client'
    BY DEF ClientClosed_Unsubscribe
  <1>5. ASSUME NEW d \in Client, Len(requested[d]) <= 1 PROVE ViewOf(d)'
    <2>1. ViewOf(d)
      BY <1>5 DEF ViewInv
    <2>2. Connected' = Connected /\ ~Registering(d)' /\ ~Registering(d) /\ ~Unsubscribed(d)
      BY <1>1 DEF Connected, Registering, Unsubscribed
    <2>3. CASE d = c
      <3>1. EntriesOf(d)' = {}
        BY <1>4, <2>1, <2>3 DEF EntriesOf, ViewOf
      <3>2. Unsubscribed(d)'
        BY <1>1, <2>3 DEF Unsubscribed
      <3> QED
        BY <1>1, <1>2, <1>3, <2>3, <3>1, <3>2 DEF ViewOf
    <2>4. CASE d # c
      <3>1. EntriesOf(d)' = EntriesOf(d)
        BY <1>4, <2>4 DEF EntriesOf
      <3>2. ~Unsubscribed(d)'
        BY <1>1, <2>4 DEF Unsubscribed
      <3> QED
        BY <1>1, <2>1, <2>2, <3>1, <3>2 DEF ViewOf
    <2> QED
      BY <2>3, <2>4
  <1> QED
    BY <1>1, <1>4, <1>5 DEF ViewInv

LEMMA ViewOfDelete ==
    ASSUME TypeOK, PcOK, ConnInv, ViewInv, ClientClosed_Join \/ ClientClosed_Delete
    PROVE  ViewInv'
  <1> USE DEF net, request, threads, video, decoder
  <1> DEFINE c == loop.client
  <1>1. /\ UNCHANGED <<puid_client, requested, closing, vpc, sending>>
        /\ loop.pc \in {"join", "delete"} /\ c \in Client
    BY DEF ClientClosed_Join, ClientClosed_Delete, PcOK, registry
  <1>2. \A d \in Client : EntriesOf(d)' = EntriesOf(d)
    BY <1>1 DEF EntriesOf
  <1>3. CASE ClientClosed_Join
    <2>1. loop'.pc = "delete" /\ loop'.client = c /\ conn' = conn
      BY <1>3 DEF ClientClosed_Join, At
    <2>2. \A d \in Client : /\ Unsubscribed(d) <=> Unsubscribed(d)'
                            /\ ~Registering(d) /\ ~Registering(d)'
      BY <1>1, <2>1 DEF Unsubscribed, Registering
    <2>3. Connected' = Connected
      BY <2>1 DEF Connected
    <2> QED
      BY <1>1, <1>2, <2>1, <2>2, <2>3 DEF ViewInv, ViewOf
  <1>4. CASE ClientClosed_Delete
    <2>1. /\ loop'.pc = "idle" /\ conn'[c] = "freed"
          /\ \A d \in Client \ {c} : conn'[d] = conn[d]
      BY <1>1, <1>4 DEF ClientClosed_Delete, Idle, TypeOK
    <2>2. ASSUME NEW d \in Client, Len(requested[d]) <= 1 PROVE ViewOf(d)'
      <3>1. ViewOf(d)
        BY <2>2 DEF ViewInv
      <3>2. ~Registering(d)' /\ ~Registering(d) /\ ~Unsubscribed(d)'
        BY <1>1, <2>1 DEF Registering, Unsubscribed
      <3>3. CASE d = c
        <4>1. EntriesOf(d) = {}
          BY <1>1, <3>1, <3>3 DEF ViewOf, Unsubscribed
        <4>2. \A t \in Thread : d \notin closing[t]
          BY <3>1, <4>1 DEF ViewOf
        <4> QED
          BY <1>1, <1>2, <2>1, <3>2, <3>3, <4>1, <4>2 DEF ViewOf
      <3>4. CASE d # c
        <4>1. ~Unsubscribed(d) /\ conn'[d] = conn[d]
          BY <1>1, <2>1, <3>4 DEF Unsubscribed
        <4>2. d \in Connected => d \in Connected'
          BY <4>1 DEF Connected
        <4> QED
          BY <1>1, <1>2, <3>1, <3>2, <4>1, <4>2 DEF ViewOf
      <3> QED
        BY <3>3, <3>4
    <2> QED
      BY <1>1, <2>2 DEF ViewInv
  <1> QED
    BY <1>3, <1>4

LEMMA ViewLoop ==
    ASSUME TypeOK, PcOK, ConnInv, AskInv, ViewInv, Environment \/ LoopStep
    PROVE  ViewInv'
  <1> USE DEF service, net, request, registry, threads, video, decoder
  <1>1. CASE PlatformReady
    BY <1>1, ViewConn DEF PlatformReady
  <1>2. CASE AcceptConnection
    <2>1. /\ s_id + 1 \in Client /\ conn[s_id + 1] = "none" /\ conn'[s_id + 1] = "open"
          /\ \A d \in Client \ {s_id + 1} : conn'[d] = conn[d]
      <3>1. s_id \in Nat /\ s_id + 1 \in Client
        BY <1>2 DEF AcceptConnection, TypeOK
      <3>2. s_id + 1 > s_id
        BY <3>1
      <3> QED
        BY <1>2, <3>1, <3>2 DEF AcceptConnection, TypeOK, ConnInv
    <2> QED
      BY <1>2, <2>1, ViewConn DEF AcceptConnection
  <1>3. ASSUME NEW c \in Client, AfterRecvError(c) PROVE ViewInv'
    BY <1>3, ViewConn DEF AfterRecvError
  <1>4. CASE ReadCB_Start
    <2>1. /\ UNCHANGED <<puid_client, requested, closing, sending, conn>>
          /\ loop.pc = "search" /\ loop'.pc = "idle"
      BY <1>4 DEF ReadCB_Start, Idle
    <2>2. \A u \in Thread : vpc[u] = "closing" => vpc'[u] = "closing"
      BY <1>4 DEF ReadCB_Start, TypeOK
    <2>3. \A d \in Client : /\ EntriesOf(d)' = EntriesOf(d)
                            /\ ~Unsubscribed(d) /\ ~Unsubscribed(d)'
                            /\ ~Registering(d) /\ ~Registering(d)'
      BY <2>1 DEF EntriesOf, Unsubscribed, Registering
    <2>4. Connected' = Connected
      BY <2>1 DEF Connected
    <2> QED
      BY <2>1, <2>2, <2>3, <2>4 DEF ViewInv, ViewOf
  <1>5. ASSUME NEW c \in Client, PrepareCB(c) PROVE ViewInv'
    <2>1. \A d \in Client : \/ conn'[d] = conn[d]
                            \/ conn[d] = "open" /\ conn'[d] = "closing"
      BY <1>5 DEF PrepareCB, TypeOK
    <2> QED
      BY <1>5, <2>1, ViewConn DEF PrepareCB
  <1>6. ASSUME NEW c \in Client, AfterClientClose(c) PROVE ViewInv'
    <2>1. /\ \A d \in Client : \/ conn'[d] = conn[d]
                               \/ conn[d] = "closing" /\ conn'[d] = "closed"
          /\ loop.pc = "idle" /\ loop'.pc = "unsubscribe"
      BY <1>6 DEF AfterClientClose, TypeOK
    <2> QED
      BY <1>6, <2>1, ViewConn DEF AfterClientClose
  <1> QED
    BY <1>1, <1>2, <1>3, <1>4, <1>5, <1>6, ViewOfRequest, ViewOfRegister, ViewOfUnsubscribe,
       ViewOfDelete
    DEF Environment, LoopStep

LEMMA ViewVideo ==
    ASSUME TypeOK, ViewInv, NEW t \in Thread, VideoStep(t)
    PROVE  ViewInv'
  <1> USE DEF service, net, request, registry, decoder
  <1>1. CASE \E why \in FaultKind : Crash(why)
    BY <1>1, ViewCrash
  <1>2. CASE \/ GetIV_StartStream(t) \/ GetIV_Render(t) \/ ReportFailure(t) \/ SetupBaton(t)
             \/ FindCount(t) \/ ReceiveVideo(t) \/ LeaveLoop(t) \/ StopStream(t)
    <2>1. UNCHANGED <<puid_client, requested, conn, loop, closing, sending>>
      BY <1>2 DEF GetIV_StartStream, GetIV_Render, ReportFailure, SetupBaton, FindCount,
                  ReceiveVideo, LeaveLoop, StopStream, video
    <2>2. vpc[t] # "closing" /\ \A u \in Thread \ {t} : vpc'[u] = vpc[u]
      BY <1>2 DEF TypeOK, GetIV_StartStream, GetIV_Render, ReportFailure, SetupBaton, FindCount,
                  ReceiveVideo, LeaveLoop, StopStream, video, Goto
    <2> QED
      BY <2>1, <2>2, ViewThread DEF ViewInv
  <1>3. CASE LockViewers(t)
    <2>1. /\ UNCHANGED <<puid_client, requested, conn, loop, sending>>
          /\ vpc'[t] = "closing" /\ closing'[t] = ViewersOf(vkey[t])
          /\ \A u \in Thread \ {t} : vpc'[u] = vpc[u] /\ closing'[u] = closing[u]
      BY <1>3 DEF LockViewers, Goto, TypeOK
    <2> QED
      BY <2>1, ViewThread, ViewerHasEntry DEF ViewInv
  <1>4. CASE FreeBaton(t)
    <2>1. /\ UNCHANGED <<puid_client, requested, conn, loop, closing, sending>>
          /\ closing[t] = {} /\ \A u \in Thread \ {t} : vpc'[u] = vpc[u]
      BY <1>4 DEF FreeBaton, Goto, TypeOK
    <2> QED
      BY <2>1, ViewThread DEF ViewInv
  <1>5. ASSUME NEW c \in Client, CloseClient(t, c) PROVE ViewInv'
    <2>1. CASE AskToClose(t, c)
      <3>1. /\ UNCHANGED <<puid_client, requested, conn, loop, sending, vpc>>
            /\ \A u \in Thread : closing'[u] \subseteq closing[u]
        BY <2>1 DEF AskToClose, TypeOK
      <3> QED
        BY <3>1, ViewThread DEF ViewInv
    <2> QED
      BY <1>1, <1>5, <2>1 DEF CloseClient, FaultKind
  <1>6. CASE UseFreedClient(t) \/ MissResource(t) \/ UseStoppedStream(t)
    BY <1>1, <1>6 DEF UseFreedClient, MissResource, UseStoppedStream, FaultKind
  <1> QED
    BY <1>2, <1>3, <1>4, <1>5, <1>6 DEF VideoStep

LEMMA ViewDecoder ==
    ASSUME TypeOK, ViewInv, NEW t \in Thread, DecoderStep(t)
    PROVE  ViewInv'
  <1> USE DEF service, net, request, registry, video
  <1>1. CASE FindBaton(t) \/ Convert(t) \/ LockSend(t) \/ UnlockSend(t)
    <2>1. UNCHANGED <<puid_client, requested, conn, loop, closing, vpc, sending>>
      BY <1>1 DEF FindBaton, Convert, LockSend, UnlockSend
    <2> QED
      BY <2>1, ViewThread DEF ViewInv
  <1>2. CASE CopyViewers(t)
    <2>1. /\ UNCHANGED <<puid_client, requested, conn, loop, closing, vpc>>
          /\ sending'[t] = ViewersOf(callback[t])
          /\ \A u \in Thread \ {t} : sending'[u] = sending[u]
      BY <1>2 DEF CopyViewers, TypeOK
    <2> QED
      BY <2>1, ViewThread, ViewerHasEntry DEF ViewInv
  <1>3. ASSUME NEW c \in Client, SendFrame(t, c) PROVE ViewInv'
    <2>1. /\ UNCHANGED <<puid_client, requested, conn, loop, closing, vpc>>
          /\ \A u \in Thread : sending'[u] \subseteq sending[u]
      BY <1>3 DEF SendFrame, TypeOK
    <2> QED
      BY <2>1, ViewThread DEF ViewInv
  <1>4. CASE EncodeFails(t) \/ UseFreedBaton(t)
    BY <1>4, ViewCrash DEF EncodeFails, UseFreedBaton, FaultKind
  <1> QED
    BY <1>1, <1>2, <1>3, <1>4 DEF DecoderStep

LEMMA ViewStep ==
    ASSUME TypeOK, PcOK, ConnInv, AskInv, ViewInv, [Next]_vars PROVE ViewInv'
  <1>1. CASE UNCHANGED vars
    <2>1. UNCHANGED <<puid_client, requested, conn, loop, closing, vpc, sending>>
      BY <1>1 DEF vars, net, request, registry, decoder, video
    <2> QED
      BY <2>1, ViewThread DEF ViewInv
  <1>2. CASE DataRace
    BY <1>2, ViewCrash DEF DataRace, FaultKind
  <1> QED
    BY <1>1, <1>2, ViewLoop, ViewVideo, ViewDecoder DEF Next, Quiet

\* What is known of the service at any time.
ServiceInv == TypeOK /\ PcOK /\ ConnInv /\ AskInv /\ ViewInv

LEMMA ServiceInit == ASSUME Init PROVE ServiceInv
  <1>1. ConnInv
    BY DEF Init, ConnInv, ClosedNow, Idle
  <1> QED
    BY <1>1, InitTypes, AskInit, ViewInit DEF ServiceInv

LEMMA ServiceStep == ASSUME ServiceInv, [Next]_vars PROVE ServiceInv'
  BY StepTypes, ConnStep, AskStep, ViewStep DEF ServiceInv

\* The connections, viewers, copies and threads of the service agree at every
\* step, for any number of them and of strings.
THEOREM ServiceInvariant == Spec => []ServiceInv
  <1>1. Init => ServiceInv
    BY ServiceInit
  <1>2. ServiceInv /\ [Next]_vars => ServiceInv'
    BY ServiceStep
  <1> QED
    BY <1>1, <1>2, PTL DEF Spec

\* A viewer that sent one string, and one that a video thread is about to
\* close, is in clients_list, however its closing and the thread's interleave.
THEOREM ViewersStayConnected == Spec => []ViewersAreConnected
  <1>1. ServiceInv => ViewersAreConnected
    BY DEF ServiceInv, ViewInv, ViewOf, ViewersAreConnected
  <1> QED
    BY <1>1, ServiceInvariant, PTL

-----------------------------------------------------------------------------
(* The threads of one string.                                              *)

\* The owner of a thread has sent its string and left ReadCB; while ReadCB
\* searches for the video of a string, the owners that sent only that string
\* are deleted, for their entries would have been found.
ServeInv ==
    /\ loop.pc = "search" => Asked(loop.client, loop.key)
    /\ \A t \in Thread : Live(t) =>
          /\ requested[owner[t]] # <<>>
          /\ loop.pc \in {"register", "search"} /\ loop.client = owner[t] =>
                Len(requested[owner[t]]) # 1
          /\ loop.pc = "search" /\ Len(requested[owner[t]]) = 1
               /\ Asked(owner[t], loop.key) => conn[owner[t]] = "freed"
    /\ SecondThreadNeedsALeaver

LEMMA ServeCrash == ASSUME NEW why, Crash(why) PROVE ServeInv'
  <1>1. loop'.pc = "crashed" /\ \A t \in Thread : vpc'[t] = "unused"
    BY DEF Crash
  <1> QED
    BY <1>1 DEF ServeInv, SecondThreadNeedsALeaver

\* Steps that send nothing, start no thread and give a live one no other owner.
LEMMA ServeQuiet ==
    ASSUME PcOK, ServeInv, requested' = requested,
           loop' = loop \/ loop'.pc \notin {"register", "search"},
           \A c \in Client : conn[c] = "freed" => conn'[c] = "freed",
           \A t \in Thread : Live(t)' => Live(t) /\ owner'[t] = owner[t]
    PROVE  ServeInv'
  <1>1. \A c, k : Asked(c, k)' <=> Asked(c, k)
    BY DEF Asked
  <1>2. \A t \in Thread : Live(t)' =>
            Live(t) /\ owner'[t] = owner[t] /\ owner[t] \in Client
    BY DEF PcOK
  <1>3. SecondThreadNeedsALeaver'
    BY <1>2 DEF ServeInv, SecondThreadNeedsALeaver, SameString
  <1> QED
    BY <1>1, <1>2, <1>3 DEF ServeInv

LEMMA ServeOfRequest ==
    ASSUME TypeOK, PcOK, ServeInv, NEW c \in Client, NEW k \in Key, ReadCB_Count(c, k)
    PROVE  ServeInv'
  <1>1. /\ UNCHANGED <<conn, vpc, owner>>
        /\ loop'.pc = "register" /\ loop'.client = c
    BY DEF ReadCB_Count, net, threads, video
  <1>2. /\ requested[c] \in Seq(Key) /\ requested'[c] = Append(requested[c], k)
        /\ \A d \in Client \ {c} : requested'[d] = requested[d]
    BY DEF ReadCB_Count, TypeOK
  <1>3. requested[c] # <<>> => Len(requested'[c]) # 1
    BY <1>2
  <1>4. requested'[c] # <<>>
    BY <1>2
  <1>5. ASSUME NEW t \in Thread, Live(t)
        PROVE  /\ owner[t] \in Client /\ requested[owner[t]] # <<>>
               /\ requested'[owner[t]] # <<>>
               /\ owner[t] = c => Len(requested'[owner[t]]) # 1
    BY <1>2, <1>3, <1>4, <1>5 DEF ServeInv, PcOK
  <1>6. SecondThreadNeedsALeaver'
    <2> SUFFICES ASSUME NEW t \in Thread, NEW u \in Thread, t # u, Live(t)', Live(u)',
                        SameString(t, u)'
                 PROVE  conn'[owner'[t]] = "freed" \/ conn'[owner'[u]] = "freed"
      BY DEF SecondThreadNeedsALeaver
    <2>1. Live(t) /\ Live(u) /\ owner[t] # c /\ owner[u] # c
      BY <1>1, <1>5 DEF SameString
    <2>2. SameString(t, u)
      BY <1>1, <1>2, <1>5, <2>1 DEF SameString
    <2> QED
      BY <1>1, <2>1, <2>2 DEF ServeInv, SecondThreadNeedsALeaver
  <1> QED
    BY <1>1, <1>5, <1>6 DEF ServeInv

LEMMA ServeOfRegister ==
    ASSUME TypeOK, PcOK, AskInv, ViewInv, ServeInv, ReadCB_Register
    PROVE  ServeInv'
  <1>1. /\ UNCHANGED <<conn, vpc, owner, requested>> /\ loop.pc = "register"
    BY DEF ReadCB_Register, net, threads, video
  <1>2. CASE loop' = Idle
    BY <1>1, <1>2, ServeQuiet DEF Idle
  <1>3. CASE ViewersOf(loop.key) = {} /\ loop' = At("search")
    <2>1. loop'.pc = "search" /\ loop'.client = loop.client /\ loop'.key = loop.key
      BY <1>3 DEF At
    <2>2. \A c, k : Asked(c, k)' <=> Asked(c, k)
      BY <1>1 DEF Asked
    <2>3. ASSUME NEW t \in Thread, Live(t), Len(requested[owner[t]]) = 1,
                 Asked(owner[t], loop.key)
          PROVE  conn[owner[t]] = "freed"
      <3>1. /\ owner[t] \in Client /\ requested[owner[t]] # <<>>
            /\ loop.client # owner[t]
        BY <1>1, <2>3 DEF ServeInv, PcOK
      <3>2. ViewOf(owner[t]) /\ ~Registering(owner[t]) /\ ~Unsubscribed(owner[t])
        <4>1. ~Registering(owner[t]) /\ ~Unsubscribed(owner[t])
          BY <1>1, <3>1 DEF Registering, Unsubscribed
        <4>2. Len(requested[owner[t]]) <= 1
          BY <2>3
        <4> QED
          BY <3>1, <4>1, <4>2 DEF ViewInv
      <3>3. EntriesOf(owner[t]) = {}
        <4> SUFFICES ASSUME NEW e \in EntriesOf(owner[t]) PROVE FALSE
          OBVIOUS
        <4>1. e \in puid_client /\ e.client = owner[t] /\ Asked(owner[t], e.key)
          BY DEF EntriesOf, AskInv
        <4>2. e.key = requested[owner[t]][1] /\ loop.key = requested[owner[t]][1]
          BY <2>3, <4>1 DEF Asked
        <4> QED
          BY <1>3, <4>1, <4>2 DEF ViewersOf
      <3> QED
        BY <3>1, <3>2, <3>3 DEF ViewOf
    <2>4. SecondThreadNeedsALeaver'
      BY <1>1 DEF ServeInv, SecondThreadNeedsALeaver, SameString
    <2> QED
      BY <1>1, <2>1, <2>2, <2>3, <2>4 DEF ServeInv, AskInv
  <1> QED
    BY <1>2, <1>3 DEF ReadCB_Register

LEMMA ServeOfStart ==
    ASSUME TypeOK, PcOK, ServeInv, ReadCB_Start
    PROVE  ServeInv'
  <1>1. /\ UNCHANGED <<conn, requested>> /\ loop.pc = "search" /\ loop'.pc = "idle"
        /\ loop.client \in Client /\ Asked(loop.client, loop.key)
    BY DEF ReadCB_Start, PcOK, Idle, ServeInv
  <1>2. CASE UNCHANGED <<vpc, owner>>
    BY <1>1, <1>2, ServeQuiet
  <1>3. ASSUME NEW t \in Thread, vpc[t] = "unused",
               vpc' = [vpc EXCEPT ![t] = "start"],
               owner' = [owner EXCEPT ![t] = loop.client]
        PROVE  ServeInv'
    <2>1. /\ vpc'[t] = "start" /\ owner'[t] = loop.client
          /\ \A u \in Thread \ {t} : vpc'[u] = vpc[u] /\ owner'[u] = owner[u]
      BY <1>3 DEF TypeOK
    <2>2. requested[loop.client] # <<>>
      BY <1>1 DEF Asked
    <2>3. \A u \in Thread : Live(u)' => requested'[owner'[u]] # <<>>
      BY <1>1, <2>1, <2>2 DEF ServeInv
    <2>4. ASSUME NEW u \in Thread, u # t, Live(u), Len(requested[owner[u]]) = 1,
                 requested[owner[u]] = requested[loop.client]
          PROVE  conn[owner[u]] = "freed"
      <3>1. Asked(owner[u], loop.key)
        BY <1>1, <2>4 DEF Asked
      <3> QED
        BY <1>1, <2>4, <3>1 DEF ServeInv
    <2>5. SecondThreadNeedsALeaver'
      <3> SUFFICES ASSUME NEW u \in Thread, NEW v \in Thread, u # v, Live(u)', Live(v)',
                          SameString(u, v)'
                   PROVE  conn'[owner'[u]] = "freed" \/ conn'[owner'[v]] = "freed"
        BY DEF SecondThreadNeedsALeaver
      <3>1. CASE u = t
        BY <1>1, <2>1, <2>4, <3>1 DEF SameString
      <3>2. CASE v = t
        BY <1>1, <2>1, <2>4, <3>2 DEF SameString
      <3>3. CASE u # t /\ v # t
        <4>1. Live(u) /\ Live(v) /\ SameString(u, v)
          BY <1>1, <2>1, <3>3 DEF SameString
        <4> QED
          BY <1>1, <2>1, <3>3, <4>1 DEF ServeInv, SecondThreadNeedsALeaver
      <3> QED
        BY <3>1, <3>2, <3>3
    <2> QED
      BY <1>1, <2>3, <2>5 DEF ServeInv
  <1> QED
    BY <1>2, <1>3 DEF ReadCB_Start

LEMMA ServeVideo ==
    ASSUME TypeOK, PcOK, ServeInv, NEW t \in Thread, VideoStep(t)
    PROVE  ServeInv'
  <1>1. CASE \E why \in FaultKind : Crash(why)
    BY <1>1, ServeCrash
  <1>2. CASE ~\E why \in FaultKind : Crash(why)
    <2>1. requested' = requested /\ loop' = loop /\ conn' = conn
      BY <1>2, ThreadFrame
    <2>2. CASE FreeBaton(t)
      <3>1. \A u \in Thread : Live(u)' => Live(u) /\ owner'[u] = owner[u]
        BY <2>2 DEF FreeBaton, Goto, TypeOK
      <3> QED
        BY <2>1, <3>1, ServeQuiet
    <2>3. CASE UNCHANGED <<vpc, owner>>
      BY <2>1, <2>3, ServeQuiet
    <2>4. ASSUME NEW c \in Client, CloseClient(t, c) PROVE UNCHANGED <<vpc, owner>>
      BY <1>2, <2>4 DEF CloseClient, AskToClose, FaultKind
    <2>5. CASE ReceiveVideo(t)
      BY <2>3, <2>5 DEF ReceiveVideo, video
    <2>6. CASE \/ GetIV_StartStream(t) \/ GetIV_Render(t) \/ ReportFailure(t)
               \/ SetupBaton(t) \/ FindCount(t) \/ LeaveLoop(t) \/ StopStream(t)
               \/ LockViewers(t)
      <3>1. Live(t) /\ owner' = owner /\ \A u \in Thread \ {t} : vpc'[u] = vpc[u]
        BY <2>6
        DEF TypeOK, GetIV_StartStream, GetIV_Render, ReportFailure, SetupBaton, FindCount,
            LeaveLoop, StopStream, LockViewers, Goto
      <3> QED
        BY <2>1, <3>1, ServeQuiet
    <2> QED
      BY <1>2, <2>2, <2>3, <2>4, <2>5, <2>6
      DEF VideoStep, UseFreedClient, MissResource, UseStoppedStream, FaultKind
  <1> QED
    BY <1>1, <1>2

LEMMA ServeDecoder ==
    ASSUME PcOK, ServeInv, NEW t \in Thread, DecoderStep(t)
    PROVE  ServeInv'
  <1>1. CASE \E why \in FaultKind : Crash(why)
    BY <1>1, ServeCrash
  <1>2. CASE ~\E why \in FaultKind : Crash(why)
    <2>1. UNCHANGED <<requested, loop, conn>>
      BY <1>2, ThreadFrame
    <2>2. UNCHANGED <<vpc, owner>>
      BY <1>2
      DEF DecoderStep, FindBaton, Convert, CopyViewers, LockSend, SendFrame, UnlockSend,
          EncodeFails, UseFreedBaton, FaultKind, video
    <2> QED
      BY <2>1, <2>2, ServeQuiet
  <1> QED
    BY <1>1, <1>2

LEMMA ServeStep == ASSUME ServiceInv, ServeInv, [Next]_vars PROVE ServeInv'
  <1> USE DEF service, net, request, registry, threads, video
  <1>0. TypeOK /\ PcOK /\ ConnInv /\ AskInv /\ ViewInv
    BY DEF ServiceInv
  <1>1. CASE UNCHANGED vars \/ PlatformReady
    BY <1>0, <1>1, ServeQuiet DEF vars, PlatformReady
  <1>2. CASE DataRace
    BY <1>2, ServeCrash DEF DataRace
  <1>3. CASE AcceptConnection
    <2>1. s_id \in Nat /\ s_id + 1 \in Client /\ s_id + 1 > s_id
      BY <1>0, <1>3 DEF AcceptConnection, TypeOK
    <2>2. conn[s_id + 1] = "none" /\ \A c \in Client \ {s_id + 1} : conn'[c] = conn[c]
      BY <1>0, <1>3, <2>1 DEF AcceptConnection, ConnInv, TypeOK
    <2> QED
      BY <1>0, <1>3, <2>2, ServeQuiet DEF AcceptConnection
  <1>4. ASSUME NEW c \in Client, AfterRecvError(c) PROVE ServeInv'
    BY <1>0, <1>4, ServeQuiet DEF AfterRecvError
  <1>5. ASSUME NEW c \in Client, PrepareCB(c) PROVE ServeInv'
    <2>1. \A d \in Client : conn[d] = "freed" => conn'[d] = "freed"
      BY <1>0, <1>5 DEF PrepareCB, TypeOK
    <2> QED
      BY <1>0, <1>5, <2>1, ServeQuiet DEF PrepareCB
  <1>6. ASSUME NEW c \in Client, AfterClientClose(c) PROVE ServeInv'
    <2>1. \A d \in Client : conn[d] = "freed" => conn'[d] = "freed"
      BY <1>0, <1>6 DEF AfterClientClose, TypeOK
    <2> QED
      BY <1>0, <1>6, <2>1, ServeQuiet DEF AfterClientClose
  <1>7. CASE ClientClosed_Unsubscribe \/ ClientClosed_Join
    <2>1. loop'.pc \in {"join", "delete"}
      BY <1>7 DEF ClientClosed_Unsubscribe, ClientClosed_Join, At
    <2> QED
      BY <1>0, <1>7, <2>1, ServeQuiet DEF ClientClosed_Unsubscribe, ClientClosed_Join
  <1>8. CASE ClientClosed_Delete
    <2>1. \A d \in Client : conn[d] = "freed" => conn'[d] = "freed"
      BY <1>0, <1>8 DEF ClientClosed_Delete, TypeOK
    <2> QED
      BY <1>0, <1>8, <2>1, ServeQuiet DEF ClientClosed_Delete, Idle
  <1> QED
    BY <1>0, <1>1, <1>2, <1>3, <1>4, <1>5, <1>6, <1>7, <1>8, ServeOfRequest, ServeOfRegister,
       ServeOfStart, ServeVideo, ServeDecoder
    DEF Next, Environment, LoopStep, Quiet

\* Two threads serve one string only while the client of one of them is
\* deleted already, for any number of clients and threads: the entry that
\* keeps ReadCB from creating a second thread is gone only within the
\* ClientClosed that deletes its client.
THEOREM OneThreadPerString == Spec => []SecondThreadNeedsALeaver
  <1>1. Init => ServiceInv /\ ServeInv
    <2> SUFFICES ASSUME Init PROVE ServiceInv /\ ServeInv
      OBVIOUS
    <2>1. loop.pc = "idle" /\ \A t \in Thread : vpc[t] = "unused"
      BY DEF Init, Idle
    <2> QED
      BY <2>1, ServiceInit DEF ServeInv, SecondThreadNeedsALeaver
  <1>2. ServiceInv /\ ServeInv /\ [Next]_vars => (ServiceInv /\ ServeInv)'
    BY ServiceStep, ServeStep
  <1>3. ServeInv => SecondThreadNeedsALeaver
    BY DEF ServeInv
  <1> QED
    BY <1>1, <1>2, <1>3, PTL DEF Spec

-----------------------------------------------------------------------------
(* The service implements Viewing.                                         *)

LEMMA FaultStep == ASSUME FaultInv, [Next]_vars PROVE FaultInv'
  <1> USE DEF service, net, request, registry, threads, video, decoder, render
  <1>1. CASE UNCHANGED vars
    BY <1>1 DEF vars, FaultInv
  <1>2. ASSUME NEW why \in FaultKind, Crash(why) PROVE FaultInv'
    BY <1>2 DEF Crash, FaultInv
  <1>3. CASE DataRace
    BY <1>2, <1>3 DEF DataRace, FaultKind
  <1>4. CASE Environment \/ LoopStep
    <2>1. fault' = fault /\ (fault = "none" \/ loop.pc # "crashed")
      BY <1>4
      DEF Environment, LoopStep, PlatformReady, AcceptConnection, AfterRecvError, ReadCB_Count,
          ReadCB_Register, ReadCB_Start, PrepareCB, AfterClientClose, ClientClosed_Unsubscribe,
          ClientClosed_Join, ClientClosed_Delete
    <2> QED
      BY <2>1 DEF FaultInv
  <1>5. ASSUME NEW t \in Thread, VideoStep(t) PROVE FaultInv'
    <2>1. vpc[t] # "unused"
      BY <1>5
      DEF VideoStep, GetIV_StartStream, GetIV_Render, ReportFailure, SetupBaton, FindCount,
          ReceiveVideo, LeaveLoop, StopStream, LockViewers, FreeBaton, CloseClient,
          UseFreedClient, MissResource, UseStoppedStream, Goto
    <2>2. CASE UNCHANGED fault
      BY <2>1, <2>2 DEF FaultInv
    <2> QED
      BY <1>2, <1>5, <2>2, ThreadFrame
  <1>6. ASSUME NEW t \in Thread, DecoderStep(t) PROVE FaultInv'
    <2>1. dpc[t] # "idle"
      BY <1>6
      DEF DecoderStep, FindBaton, Convert, CopyViewers, LockSend, UnlockSend, SendFrame,
          EncodeFails, UseFreedBaton, Decode
    <2>2. CASE UNCHANGED fault
      BY <2>1, <2>2 DEF FaultInv
    <2> QED
      BY <1>2, <1>6, <2>2, ThreadFrame
  <1> QED
    BY <1>1, <1>3, <1>4, <1>5, <1>6 DEF Next, Quiet

\* No connection sends more strings than the bound.
BoundInv == \A c \in Client : Len(requested[c]) <= MaxRequests

LEMMA BoundStep == ASSUME TypeOK, BoundInv, [Next]_vars PROVE BoundInv'
  <1>1. CASE UNCHANGED requested
    BY <1>1 DEF BoundInv
  <1>2. ASSUME NEW why, Crash(why) PROVE BoundInv'
    <2>1. \A c \in Client : requested'[c] = <<>>
      BY <1>2 DEF Crash
    <2> QED
      BY <2>1 DEF BoundInv
  <1>3. ASSUME NEW c \in Client, NEW k \in Key, ReadCB_Count(c, k) PROVE BoundInv'
    <2>1. /\ Len(requested[c]) \in Nat /\ Len(requested[c]) < MaxRequests
          /\ Len(requested'[c]) = Len(requested[c]) + 1
          /\ \A d \in Client \ {c} : requested'[d] = requested[d]
      BY <1>3 DEF ReadCB_Count, TypeOK
    <2> QED
      BY <2>1 DEF BoundInv
  <1>4. CASE LoopStep
    BY <1>1, <1>4
    DEF LoopStep, ReadCB_Register, ReadCB_Start, PrepareCB, AfterClientClose,
        ClientClosed_Unsubscribe, ClientClosed_Join, ClientClosed_Delete, request
  <1>5. CASE PlatformReady \/ AcceptConnection \/ \E c \in Client : AfterRecvError(c)
    BY <1>1, <1>5 DEF PlatformReady, AcceptConnection, AfterRecvError, request
  <1>6. ASSUME NEW t \in Thread, VideoStep(t) \/ DecoderStep(t) PROVE BoundInv'
    BY <1>1, <1>2, <1>6, ThreadFrame
  <1>7. CASE DataRace
    BY <1>2, <1>7 DEF DataRace
  <1> QED
    BY <1>1, <1>3, <1>4, <1>5, <1>6, <1>7 DEF Next, Environment, Quiet, vars, request

\* The state of Viewing a state of the service stands for.
WatchOf(c) == IF requested[c] = <<>> THEN NoKey ELSE Head(requested[c])
ShownOf(c) == {f.key : f \in frames[c]}

\* One string per connection.
OneInv == ServiceInv /\ FaultInv /\ \A c \in Client : Len(requested[c]) <= 1

\* Steps that a client of Viewing does not see.
LEMMA QuietIsQuiet ==
    ASSUME UNCHANGED fault,
           \A c \in Client : /\ PlaceOf(c)' = PlaceOf(c) /\ WatchOf(c)' = WatchOf(c)
                             /\ ShownOf(c)' = ShownOf(c)
    PROVE  UNCHANGED View!vars
  <1>1. [c \in Client |-> PlaceOf(c)]' = [c \in Client |-> PlaceOf(c)]
    OBVIOUS
  <1>2. /\ [c \in Client |-> WatchOf(c)]' = [c \in Client |-> WatchOf(c)]
        /\ [c \in Client |-> ShownOf(c)]' = [c \in Client |-> ShownOf(c)]
    OBVIOUS
  <1>3. (fault = "none")' = (fault = "none")
    OBVIOUS
  <1> QED
    BY <1>1, <1>2, <1>3 DEF View!vars, WatchOf, ShownOf

\* The place of a client moves with the life of its connection and its entry.
LEMMA PlaceKept ==
    ASSUME NEW c \in Client, EntriesOf(c)' = EntriesOf(c), conn'[c] = conn[c],
           requested'[c] = requested[c]
    PROVE  PlaceOf(c)' = PlaceOf(c) /\ WatchOf(c)' = WatchOf(c)
  BY DEF PlaceOf, WatchOf

LEMMA CrashIsCrash ==
    ASSUME NEW why \in FaultKind, Crash(why), fault = "none" PROVE View!Crash
  <1>1. /\ puid_client' = {} /\ fault' # "none"
        /\ \A c \in Client : requested'[c] = <<>> /\ conn'[c] = "none" /\ frames'[c] = {}
    BY DEF Crash, FaultKind
  <1>2. \A c \in Client : EntriesOf(c)' = {}
    BY <1>1 DEF EntriesOf
  <1>3. \A c \in Client : PlaceOf(c)' = "new"
    BY <1>1, <1>2 DEF PlaceOf
  <1>4. [c \in Client |-> PlaceOf(c)]' = [c \in Client |-> "new"]
    BY <1>3
  <1>5. \A c \in Client : WatchOf(c)' = NoKey /\ ShownOf(c)' = {}
    BY <1>1 DEF WatchOf, ShownOf
  <1>6. [c \in Client |-> WatchOf(c)]' = [c \in Client |-> NoKey]
    BY <1>5
  <1>7. [c \in Client |-> ShownOf(c)]' = [c \in Client |-> {}]
    BY <1>5
  <1>8. (fault = "none")' = FALSE
    BY <1>1
  <1> QED
    BY <1>4, <1>6, <1>7, <1>8 DEF View!Crash, WatchOf, ShownOf

LEMMA RequestAsks ==
    ASSUME OneInv, OneInv', NEW c \in Client, NEW k \in Key, ReadCB_Count(c, k)
    PROVE  View!Ask(c, k)
  <1>1. /\ UNCHANGED <<puid_client, conn, frames, fault>> /\ loop.pc = "idle"
        /\ fault = "none" /\ conn[c] = "open"
    BY DEF ReadCB_Count, OneInv, FaultInv, ServiceInv, ConnInv, net, threads
  <1>2. /\ \A d \in Client \ {c} : requested'[d] = requested[d]
        /\ requested'[c] = Append(requested[c], k) /\ requested[c] \in Seq(Key)
        /\ Len(requested'[c]) <= 1
    BY DEF ReadCB_Count, OneInv, ServiceInv, TypeOK
  <1>3. requested[c] = <<>> /\ requested'[c] = <<k>>
    <2>1. Len(requested[c]) = 0
      BY <1>2
    <2>2. requested[c] = <<>>
      BY <1>2, <2>1
    <2> QED
      BY <1>2, <2>2
  <1>4. \A d \in Client : EntriesOf(d)' = EntriesOf(d)
    BY <1>1 DEF EntriesOf
  <1>5. EntriesOf(c) = {}
    BY <1>3 DEF EntriesOf, OneInv, ServiceInv, ViewInv
  <1>6. PlaceOf(c) = "new" /\ PlaceOf(c)' = "new"
    BY <1>1, <1>4, <1>5 DEF PlaceOf
  <1>7. WatchOf(c) = NoKey /\ WatchOf(c)' = k
    BY <1>3 DEF WatchOf
  <1>8. \A d \in Client \ {c} : PlaceOf(d)' = PlaceOf(d) /\ WatchOf(d)' = WatchOf(d)
    BY <1>1, <1>2, <1>4, PlaceKept
  <1>9. [d \in Client |-> PlaceOf(d)]' = [d \in Client |-> PlaceOf(d)]
    BY <1>6, <1>8
  <1>10. [d \in Client |-> WatchOf(d)]' = [[d \in Client |-> WatchOf(d)] EXCEPT ![c] = k]
    BY <1>7, <1>8
  <1>11. [d \in Client |-> ShownOf(d)]' = [d \in Client |-> ShownOf(d)]
    BY <1>1 DEF ShownOf
  <1>12. (fault = "none")' = (fault = "none")
    BY <1>1
  <1>13. [d \in Client |-> PlaceOf(d)][c] = "new" /\ [d \in Client |-> WatchOf(d)][c] = NoKey
    BY <1>6, <1>7
  <1> QED
    BY <1>1, <1>9, <1>10, <1>11, <1>12, <1>13 DEF View!Ask, WatchOf, ShownOf

LEMMA RegisterSubscribes ==
    ASSUME OneInv, NEW c \in Client, c = loop.client, ReadCB_Register
    PROVE  View!Subscribe(c)
  <1>1. /\ UNCHANGED <<requested, conn, frames, fault>> /\ loop.pc = "register"
        /\ fault = "none" /\ conn[c] = "open" /\ c \in Client
    BY DEF ReadCB_Register, OneInv, FaultInv, ServiceInv, ConnInv, PcOK, net, threads
  <1>2. /\ EntriesOf(c) = {} /\ EntriesOf(c)' # {}
        /\ \A d \in Client \ {c} : EntriesOf(d)' = EntriesOf(d)
    <2>1. ViewOf(c) /\ Registering(c)
      BY <1>1 DEF OneInv, ServiceInv, ViewInv, Registering
    <2> DEFINE e == [key |-> loop.key, client |-> loop.client,
                     nth |-> Len(requested[loop.client])]
    <2>2. puid_client' = puid_client \cup {e} /\ e.client = c
      BY DEF ReadCB_Register
    <2>3. EntriesOf(c) = {}
      BY <2>1 DEF ViewOf
    <2> QED
      BY <2>2, <2>3 DEF EntriesOf
  <1>3. WatchOf(c) # NoKey
    <2>1. requested[c] \in Seq(Key) /\ requested[c] # <<>>
      BY <1>1 DEF OneInv, ServiceInv, TypeOK, AskInv, Asked
    <2>2. Head(requested[c]) \in Key
      BY <2>1
    <2> QED
      BY <2>1, <2>2 DEF WatchOf
  <1>4. PlaceOf(c) = "new" /\ PlaceOf(c)' = "watching"
    BY <1>1, <1>2 DEF PlaceOf
  <1>5. \A d \in Client \ {c} : PlaceOf(d)' = PlaceOf(d)
    BY <1>1, <1>2, PlaceKept
  <1>6. [d \in Client |-> PlaceOf(d)]' = [[d \in Client |-> PlaceOf(d)] EXCEPT ![c] = "watching"]
    BY <1>4, <1>5
  <1>7. [d \in Client |-> WatchOf(d)]' = [d \in Client |-> WatchOf(d)]
    BY <1>1 DEF WatchOf
  <1>8. [d \in Client |-> ShownOf(d)]' = [d \in Client |-> ShownOf(d)]
    BY <1>1 DEF ShownOf
  <1>9. (fault = "none")' = (fault = "none")
    BY <1>1
  <1>10. [d \in Client |-> PlaceOf(d)][c] = "new" /\ [d \in Client |-> WatchOf(d)][c] # NoKey
    BY <1>1, <1>3, <1>4
  <1> QED
    BY <1>1, <1>6, <1>7, <1>8, <1>9, <1>10 DEF View!Subscribe, WatchOf, ShownOf

LEMMA UnsubscribeUnsubscribes ==
    ASSUME OneInv, NEW c \in Client, c = loop.client, ClientClosed_Unsubscribe
    PROVE  View!Unsubscribe(c) \/ UNCHANGED View!vars
  <1>1. /\ UNCHANGED <<requested, conn, frames, fault>> /\ loop.pc = "unsubscribe"
        /\ fault = "none" /\ conn[c] = "closed" /\ c \in Client
    BY DEF ClientClosed_Unsubscribe, OneInv, FaultInv, ServiceInv, ConnInv, PcOK, ClosedNow,
           net, request, threads
  <1>2. /\ [d \in Client |-> WatchOf(d)]' = [d \in Client |-> WatchOf(d)]
        /\ [d \in Client |-> ShownOf(d)]' = [d \in Client |-> ShownOf(d)]
    BY <1>1 DEF WatchOf, ShownOf
  <1>3. CASE puid_client' = puid_client
    <2>1. \A d \in Client : PlaceOf(d)' = PlaceOf(d)
      BY <1>1, <1>3, PlaceKept DEF EntriesOf
    <2>2. \A d \in Client : WatchOf(d)' = WatchOf(d) /\ ShownOf(d)' = ShownOf(d)
      BY <1>1 DEF WatchOf, ShownOf
    <2> QED
      BY <1>1, <2>1, <2>2, QuietIsQuiet
  <1>4. CASE puid_client' # puid_client
    <2>1. PICK e \in EntriesOf(c) : puid_client' = puid_client \ {e}
      BY <1>4 DEF ClientClosed_Unsubscribe
    <2>2. ViewOf(c) /\ e.client = c
      BY <1>1 DEF OneInv, ServiceInv, ViewInv, EntriesOf
    <2>3. EntriesOf(c)' = {} /\ EntriesOf(c) # {}
      BY <2>1, <2>2 DEF ViewOf, EntriesOf
    <2>4. \A d \in Client \ {c} : EntriesOf(d)' = EntriesOf(d)
      BY <2>1, <2>2 DEF EntriesOf
    <2>5. requested[c] # <<>>
      BY <1>1, <2>1 DEF EntriesOf, OneInv, ServiceInv, AskInv, Asked
    <2>6. PlaceOf(c) = "watching" /\ PlaceOf(c)' = "leaving"
      BY <1>1, <2>3, <2>5 DEF PlaceOf
    <2>7. \A d \in Client \ {c} : PlaceOf(d)' = PlaceOf(d)
      BY <1>1, <2>4, PlaceKept
    <2>8. [d \in Client |-> PlaceOf(d)]' = [[d \in Client |-> PlaceOf(d)] EXCEPT ![c] = "leaving"]
      BY <2>6, <2>7
    <2>9. (fault = "none")' = (fault = "none")
      BY <1>1
    <2>10. [d \in Client |-> PlaceOf(d)][c] = "watching"
      BY <1>1, <2>6
    <2> QED
      BY <1>1, <1>2, <2>8, <2>9, <2>10 DEF View!Unsubscribe, WatchOf, ShownOf
  <1> QED
    BY <1>3, <1>4

LEMMA DeleteLeaves ==
    ASSUME OneInv, NEW c \in Client, c = loop.client, ClientClosed_Delete
    PROVE  View!Leave(c)
  <1>1. /\ UNCHANGED <<requested, puid_client, frames, fault>> /\ loop.pc = "delete"
        /\ fault = "none" /\ conn[c] = "closed" /\ c \in Client
    BY DEF ClientClosed_Delete, OneInv, FaultInv, ServiceInv, ConnInv, PcOK, ClosedNow,
           net, request, registry, threads
  <1>2. conn'[c] = "freed" /\ \A d \in Client \ {c} : conn'[d] = conn[d]
    BY <1>1 DEF ClientClosed_Delete, OneInv, ServiceInv, TypeOK
  <1>3. EntriesOf(c) = {}
    BY <1>1 DEF OneInv, ServiceInv, ViewInv, ViewOf, Unsubscribed
  <1>4. \A d \in Client : EntriesOf(d)' = EntriesOf(d)
    BY <1>1 DEF EntriesOf
  <1>5. /\ PlaceOf(c)' = "gone"
        /\ PlaceOf(c) = "leaving" \/ (PlaceOf(c) = "new" /\ WatchOf(c) = NoKey)
    BY <1>1, <1>2, <1>3 DEF PlaceOf, WatchOf
  <1>6. \A d \in Client \ {c} : PlaceOf(d)' = PlaceOf(d)
    BY <1>1, <1>2, <1>4, PlaceKept
  <1>7. [d \in Client |-> PlaceOf(d)]' = [[d \in Client |-> PlaceOf(d)] EXCEPT ![c] = "gone"]
    BY <1>5, <1>6
  <1>8. [d \in Client |-> WatchOf(d)]' = [d \in Client |-> WatchOf(d)]
    BY <1>1 DEF WatchOf
  <1>9. [d \in Client |-> ShownOf(d)]' = [d \in Client |-> ShownOf(d)]
    BY <1>1 DEF ShownOf
  <1>10. (fault = "none")' = (fault = "none")
    BY <1>1
  <1>11. \/ [d \in Client |-> PlaceOf(d)][c] = "leaving"
         \/ /\ [d \in Client |-> PlaceOf(d)][c] = "new"
            /\ [d \in Client |-> WatchOf(d)][c] = NoKey
    BY <1>1, <1>5
  <1> QED
    BY <1>1, <1>7, <1>8, <1>9, <1>10, <1>11 DEF View!Leave, WatchOf, ShownOf

\* A frame reaches a client that watches, or is just about to leave.
LEMMA SendShows ==
    ASSUME OneInv, NEW t \in Thread, NEW c \in Client, SendFrame(t, c)
    PROVE  View!Show(c) \/ UNCHANGED View!vars
  <1>1. /\ UNCHANGED <<requested, puid_client, conn, fault>> /\ dpc[t] = "send"
        /\ fault = "none" /\ c \in sending[t]
    BY DEF SendFrame, OneInv, FaultInv, request, registry
  <1>2. \A d \in Client : PlaceOf(d)' = PlaceOf(d) /\ WatchOf(d)' = WatchOf(d)
    BY <1>1, PlaceKept DEF EntriesOf
  <1>3. CASE frames' = frames
    BY <1>1, <1>2, <1>3, QuietIsQuiet DEF ShownOf
  <1>4. CASE frames' # frames
    <2>1. /\ c \in Connected /\ frames \in [Client -> SUBSET FrameKind]
          /\ frames' = [frames EXCEPT ![c] = @ \cup
                            {[key |-> callback[t], video |-> stream[t]]}]
      BY <1>4 DEF SendFrame, OneInv, ServiceInv, TypeOK
    <2>2. Asked(c, callback[t]) /\ ViewOf(c) /\ requested[c] \in Seq(Key)
          /\ Len(requested[c]) <= 1
      BY <1>1 DEF OneInv, ServiceInv, AskInv, ViewInv, TypeOK
    <2>3. requested[c] # <<>> /\ WatchOf(c) = callback[t]
      BY <2>2 DEF Asked, WatchOf
    <2>4. PlaceOf(c) \in {"watching", "leaving"}
      <3>1. EntriesOf(c) # {} \/ conn[c] = "closed"
        BY <1>1, <2>1, <2>2 DEF ViewOf, Connected
      <3> QED
        BY <2>1, <2>3, <3>1 DEF PlaceOf, Connected
    <2>5. /\ ShownOf(c)' = ShownOf(c) \cup {WatchOf(c)}
          /\ \A d \in Client \ {c} : ShownOf(d)' = ShownOf(d)
      <3> DEFINE new == [key |-> callback[t], video |-> stream[t]]
      <3>1. /\ frames'[c] = frames[c] \cup {new}
            /\ \A d \in Client \ {c} : frames'[d] = frames[d]
        BY <2>1
      <3>2. new.key = WatchOf(c)
        BY <2>3
      <3> HIDE DEF new
      <3> QED
        BY <3>1, <3>2 DEF ShownOf
    <2>6. [d \in Client |-> ShownOf(d)]' =
              [[d \in Client |-> ShownOf(d)] EXCEPT
                  ![c] = @ \cup {[d \in Client |-> WatchOf(d)][c]}]
      BY <2>5
    <2>7. /\ [d \in Client |-> PlaceOf(d)]' = [d \in Client |-> PlaceOf(d)]
          /\ [d \in Client |-> WatchOf(d)]' = [d \in Client |-> WatchOf(d)]
      BY <1>2
    <2>8. (fault = "none")' = (fault = "none")
      BY <1>1
    <2>9. [d \in Client |-> PlaceOf(d)][c] \in {"watching", "leaving"}
      BY <2>4
    <2> QED
      BY <1>1, <2>6, <2>7, <2>8, <2>9 DEF View!Show, WatchOf, ShownOf
  <1> QED
    BY <1>3, <1>4

\* A connection is opened, or closed up to ClientClosed, behind the client's
\* back: it stays where it was.
LEMMA OpenAndClose ==
    ASSUME OneInv, OneInv', UNCHANGED <<requested, puid_client, frames, fault>>,
           \A c \in Client : \/ conn'[c] = conn[c]
                             \/ /\ conn[c] \in {"none", "open"}
                                /\ conn'[c] \in {"open", "closing"}
                             \/ /\ conn[c] = "closing" /\ conn'[c] = "closed"
                                /\ loop.pc = "idle"
    PROVE  UNCHANGED View!vars
  <1>1. ASSUME NEW c \in Client PROVE PlaceOf(c)' = PlaceOf(c)
    <2>1. EntriesOf(c)' = EntriesOf(c)
      BY DEF EntriesOf
    <2>2. CASE conn'[c] = conn[c]
      BY <2>1, <2>2, PlaceKept
    <2>3. CASE conn[c] \in {"none", "open"} /\ conn'[c] \in {"open", "closing"}
      BY <2>1, <2>3 DEF PlaceOf
    <2>4. CASE conn[c] = "closing" /\ conn'[c] = "closed" /\ loop.pc = "idle"
      <3>1. requested[c] # <<>> => EntriesOf(c) # {}
        BY <2>4 DEF OneInv, ServiceInv, ViewInv, ViewOf, Registering, Unsubscribed
      <3> QED
        BY <2>1, <2>4, <3>1 DEF PlaceOf
    <2> QED
      BY <2>2, <2>3, <2>4
  <1>2. \A c \in Client : WatchOf(c)' = WatchOf(c) /\ ShownOf(c)' = ShownOf(c)
    BY DEF WatchOf, ShownOf
  <1> QED
    BY <1>1, <1>2, QuietIsQuiet

LEMMA LoopViews ==
    ASSUME OneInv, OneInv', Environment \/ LoopStep
    PROVE  View!Next \/ UNCHANGED View!vars
  <1> USE DEF service, net, request, registry, threads
  <1>1. CASE PlatformReady
    BY <1>1, OpenAndClose DEF PlatformReady
  <1>2. CASE AcceptConnection
    <2>1. \A d \in Client : conn'[d] = conn[d] \/ (conn[d] = "none" /\ conn'[d] = "open")
      <3>1. s_id \in Nat /\ s_id + 1 \in Client /\ s_id + 1 > s_id
        BY <1>2 DEF AcceptConnection, OneInv, ServiceInv, TypeOK
      <3> QED
        BY <1>2, <3>1 DEF AcceptConnection, OneInv, ServiceInv, TypeOK, ConnInv
    <2> QED
      BY <1>2, <2>1, OpenAndClose DEF AcceptConnection
  <1>3. ASSUME NEW c \in Client, AfterRecvError(c) PROVE UNCHANGED View!vars
    BY <1>3, OpenAndClose DEF AfterRecvError
  <1>4. ASSUME NEW c \in Client, NEW k \in Key, ReadCB_Count(c, k) PROVE View!Next
    BY <1>4, RequestAsks DEF View!Next
  <1>5. CASE ReadCB_Register
    <2>1. loop.client \in Client
      BY <1>5 DEF ReadCB_Register, OneInv, ServiceInv, PcOK
    <2> QED
      BY <1>5, <2>1, RegisterSubscribes DEF View!Next
  <1>6. CASE ReadCB_Start
    BY <1>6, OpenAndClose DEF ReadCB_Start
  <1>7. ASSUME NEW c \in Client, PrepareCB(c) PROVE UNCHANGED View!vars
    <2>1. \A d \in Client : conn'[d] = conn[d] \/ (conn[d] = "open" /\ conn'[d] = "closing")
      BY <1>7 DEF PrepareCB, OneInv, ServiceInv, TypeOK
    <2> QED
      BY <1>7, <2>1, OpenAndClose DEF PrepareCB
  <1>8. ASSUME NEW c \in Client, AfterClientClose(c) PROVE UNCHANGED View!vars
    <2>1. \A d \in Client : \/ conn'[d] = conn[d]
                            \/ conn[d] = "closing" /\ conn'[d] = "closed" /\ loop.pc = "idle"
      BY <1>8 DEF AfterClientClose, OneInv, ServiceInv, TypeOK
    <2> QED
      BY <1>8, <2>1, OpenAndClose DEF AfterClientClose
  <1>9. CASE ClientClosed_Unsubscribe
    <2>1. loop.client \in Client
      BY <1>9 DEF ClientClosed_Unsubscribe, OneInv, ServiceInv, PcOK
    <2> QED
      BY <1>9, <2>1, UnsubscribeUnsubscribes DEF View!Next
  <1>10. CASE ClientClosed_Join
    BY <1>10, OpenAndClose DEF ClientClosed_Join
  <1>11. CASE ClientClosed_Delete
    <2>1. loop.client \in Client
      BY <1>11 DEF ClientClosed_Delete, OneInv, ServiceInv, PcOK
    <2> QED
      BY <1>11, <2>1, DeleteLeaves DEF View!Next
  <1> QED
    BY <1>1, <1>2, <1>3, <1>4, <1>5, <1>6, <1>7, <1>8, <1>9, <1>10, <1>11
    DEF Environment, LoopStep

LEMMA ThreadViews ==
    ASSUME OneInv, OneInv', NEW t \in Thread, VideoStep(t) \/ DecoderStep(t)
    PROVE  View!Next \/ UNCHANGED View!vars
  <1>1. fault = "none"
    <2>1. vpc[t] # "unused" \/ dpc[t] # "idle"
      BY DEF VideoStep, GetIV_StartStream, GetIV_Render, ReportFailure, SetupBaton, FindCount,
             ReceiveVideo, LeaveLoop, StopStream, LockViewers, FreeBaton, CloseClient,
             UseFreedClient, MissResource, UseStoppedStream, Goto, DecoderStep, FindBaton, Convert, CopyViewers,
             LockSend, UnlockSend, SendFrame, EncodeFails, UseFreedBaton, Decode
    <2> QED
      BY <2>1 DEF OneInv, FaultInv
  <1>2. CASE \E why \in FaultKind : Crash(why)
    BY <1>1, <1>2, CrashIsCrash DEF View!Next
  <1>3. CASE UNCHANGED <<conn, requested, puid_client, fault>> /\ frames' = frames
    BY <1>3, OpenAndClose
  <1>4. ASSUME NEW c \in Client, SendFrame(t, c) PROVE View!Next \/ UNCHANGED View!vars
    BY <1>4, SendShows DEF View!Next
  <1>5. CASE VideoStep(t)
    <2>1. frames' = frames \/ \E why \in FaultKind : Crash(why)
      <3>1. ASSUME NEW c \in Client, CloseClient(t, c)
            PROVE  frames' = frames \/ \E why \in FaultKind : Crash(why)
        BY <3>1 DEF CloseClient, AskToClose, FaultKind
      <3>2. CASE UseFreedClient(t) \/ MissResource(t) \/ UseStoppedStream(t)
        BY <3>2 DEF UseFreedClient, MissResource, UseStoppedStream, FaultKind
      <3> QED
        BY <1>5, <3>1, <3>2
        DEF VideoStep, GetIV_StartStream, GetIV_Render, ReportFailure, SetupBaton, FindCount,
            ReceiveVideo, LeaveLoop, StopStream, LockViewers, FreeBaton, service, net
    <2> QED
      BY <1>2, <1>3, <1>5, <2>1, ThreadFrame
  <1>6. CASE FindBaton(t) \/ Convert(t) \/ CopyViewers(t) \/ LockSend(t) \/ UnlockSend(t)
    <2>1. UNCHANGED <<conn, requested, puid_client, fault, frames>>
      BY <1>6 DEF FindBaton, Convert, CopyViewers, LockSend, UnlockSend, service, net,
                  request, registry
    <2> QED
      BY <1>3, <2>1
  <1>7. CASE EncodeFails(t) \/ UseFreedBaton(t)
    BY <1>2, <1>7 DEF EncodeFails, UseFreedBaton, FaultKind
  <1> QED
    BY <1>4, <1>5, <1>6, <1>7 DEF DecoderStep

LEMMA StepViews ==
    ASSUME OneInv, OneInv', [Next]_vars PROVE [View!Next]_(View!vars)
  <1>1. CASE UNCHANGED vars
    <2>1. UNCHANGED <<requested, puid_client, frames, fault, conn>>
      BY <1>1 DEF vars, net, request, registry
    <2> QED
      BY <2>1, OpenAndClose
  <1>2. CASE DataRace
    <2>1. fault = "none"
      BY <1>2 DEF DataRace, RegistryRace, BatonRace, ChangesBatons, CountRace, PlatformRace,
                  OneInv, FaultInv
    <2> QED
      BY <1>2, <2>1, CrashIsCrash DEF DataRace, FaultKind, View!Next
  <1>3. View!Next \/ UNCHANGED View!vars
    BY <1>1, <1>2, LoopViews, ThreadViews DEF Next, Quiet
  <1> QED
    BY <1>3

\* With one string per connection the service implements Viewing: what a
\* client is shown is settled by its own request, registration, closing and
\* deletion, whatever the threads, the maps and the locks do in between.
THEOREM ImplementsViewing == ASSUME MaxRequests <= 1 PROVE Spec => ViewingSpec
  <1>1. Init => ServiceInv /\ FaultInv /\ BoundInv
    <2> SUFFICES ASSUME Init PROVE ServiceInv /\ FaultInv /\ BoundInv
      OBVIOUS
    <2>1. FaultInv
      BY DEF Init, FaultInv
    <2>2. \A c \in Client : requested[c] = <<>>
      BY DEF Init
    <2>3. BoundInv
      BY <2>2 DEF BoundInv
    <2> QED
      BY <2>1, <2>3, ServiceInit
  <1>2. /\ ServiceInv /\ FaultInv /\ BoundInv /\ [Next]_vars
        => (ServiceInv /\ FaultInv /\ BoundInv)'
    BY ServiceStep, FaultStep, BoundStep DEF ServiceInv
  <1>3. ServiceInv /\ FaultInv /\ BoundInv => OneInv
    <2> SUFFICES ASSUME ServiceInv, FaultInv, BoundInv PROVE OneInv
      OBVIOUS
    <2>1. \A c \in Client : Len(requested[c]) \in Nat /\ Len(requested[c]) <= MaxRequests
      BY DEF ServiceInv, TypeOK, BoundInv
    <2> QED
      BY <2>1 DEF OneInv
  <1>4. Init => View!Init
    <2> SUFFICES ASSUME Init PROVE View!Init
      OBVIOUS
    <2>1. /\ puid_client = {} /\ fault = "none"
          /\ \A c \in Client : requested[c] = <<>> /\ conn[c] = "none" /\ frames[c] = {}
      BY DEF Init
    <2>2. \A c \in Client : PlaceOf(c) = "new" /\ WatchOf(c) = NoKey /\ ShownOf(c) = {}
      BY <2>1 DEF EntriesOf, PlaceOf, WatchOf, ShownOf
    <2>3. /\ [c \in Client |-> PlaceOf(c)] = [c \in Client |-> "new"]
          /\ [c \in Client |-> WatchOf(c)] = [c \in Client |-> NoKey]
          /\ [c \in Client |-> ShownOf(c)] = [c \in Client |-> {}]
      BY <2>2
    <2> QED
      BY <2>1, <2>3 DEF View!Init, WatchOf, ShownOf
  <1>5. OneInv /\ OneInv' /\ [Next]_vars => [View!Next]_(View!vars)
    BY StepViews
  <1> QED
    BY <1>1, <1>2, <1>3, <1>4, <1>5, PTL DEF Spec, ViewingSpec, View!Spec

=============================================================================
