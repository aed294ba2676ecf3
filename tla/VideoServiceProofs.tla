------------------------- MODULE VideoServiceProofs -------------------------
(* Theorems about VideoService, for every value of its constants.           *)
EXTENDS VideoService, FiniteSetTheorems, TLAPS

\* Where the loop and the threads are tells what they hold: a callback in
\* progress has its client (and its string), a live video thread its first
\* client, and a decoder at work a thread in its frame loop, or waiting for
\* it to stop, with a stream and a callback.
PcOK ==
    /\ loop.pc \in {"register", "search", "unsubscribe", "join", "delete"}
          => loop.client \in Client
    /\ loop.pc \in {"register", "search", "join"} => loop.key \in Key
    /\ \A t \in Thread : Live(t) => owner[t] \in Client
    /\ \A t \in Thread : dpc[t] # "idle" =>
          /\ vpc[t] \in {"loop", "stop"}
          /\ callback[t] \in Key /\ stream[t] \in Key

\* The entries of a client carry the numbers of its requests, and a request
\* that is counted but not registered has a number of its own.
EntryOK ==
    \A e \in puid_client :
        /\ e.nth <= Len(requested[e.client])
        /\ loop.pc = "register" /\ loop.client = e.client
              => e.nth < Len(requested[e.client])

CountInv == IsFiniteSet(puid_client) /\ EntryOK /\ CountMatchesViewers

-----------------------------------------------------------------------------
(* Types.                                                                  *)

USE ConstantsAssumption DEF Client, NoClient, NoKey, Stopped, Handle, Live

\* The places in the code that actions go to.
LEMMA PcNames ==
    /\ "idle" \in LoopPc /\ "register" \in LoopPc /\ "search" \in LoopPc
    /\ "unsubscribe" \in LoopPc /\ "join" \in LoopPc /\ "delete" \in LoopPc
    /\ "crashed" \in LoopPc
    /\ "unused" \in VideoPc /\ "start" \in VideoPc /\ "render" \in VideoPc
    /\ "failed" \in VideoPc /\ "setup" \in VideoPc /\ "count" \in VideoPc
    /\ "loop" \in VideoPc /\ "stop" \in VideoPc /\ "lock" \in VideoPc
    /\ "closing" \in VideoPc /\ "done" \in VideoPc
    /\ "idle" \in DecPc /\ "find" \in DecPc /\ "convert" \in DecPc
    /\ "copy" \in DecPc /\ "lock" \in DecPc /\ "send" \in DecPc
  BY DEF LoopPc, VideoPc, DecPc

\* How the process may end.
LEMMA FaultNames ==
    /\ "client" \in FaultKind /\ "resource" \in FaultKind /\ "stream" \in FaultKind
    /\ "baton" \in FaultKind /\ "close" \in FaultKind /\ "exit" \in FaultKind
    /\ "race" \in FaultKind
  BY DEF FaultKind

\* What the pointer of a video thread points to is a connection.
LEMMA PointeeType == ASSUME NEW c \in Client PROVE Pointee(c) \subseteq Client
  BY DEF Pointee, Connected

LEMMA InitTypes == ASSUME Init PROVE TypeOK /\ PcOK
  <1>1. loop \in [pc : LoopPc, client : Client \cup {NoClient}, key : Key \cup {NoKey}]
    BY PcNames DEF Init, Idle
  <1>2. requested \in [Client -> Seq(Key)] /\ frames \in [Client -> SUBSET FrameKind]
    BY DEF Init
  <1>3. puid_count \in [Key -> Int] /\ puid_thread \in [Key -> Handle \cup {Absent}]
    BY DEF Init
  <1>4. vpc \in [Thread -> VideoPc] /\ dpc \in [Thread -> DecPc]
    BY PcNames DEF Init
  <1>5. conn \in [Client -> {"none", "open", "closing", "closed", "freed"}]
    BY DEF Init
  <1>6. recv_msg \in [Client -> Key \cup {NoKey}] /\ threadId \in [Client -> Handle]
    BY DEF Init
  <1>7. baton_map \in [Key \cup {NoKey} -> Handle]
    BY DEF Init
  <1>8. closing \in [Thread -> SUBSET Client] /\ sending \in [Thread -> SUBSET Client]
    BY DEF Init
  <1>9. /\ owner \in [Thread -> Client \cup {NoClient}]
        /\ stream \in [Thread -> Key \cup {NoKey, Stopped}]
        /\ callback \in [Thread -> Key \cup {NoKey}]
        /\ tmp \in [Thread -> Key \cup {NoKey}]
        /\ vkey \in [Thread -> Key \cup {NoKey}]
        /\ baton \in [Thread -> Handle]
    BY DEF Init
  <1>10. s_id \in 0..MaxClient
    BY DEF Init, ConstantsAssumption
  <1>11. /\ reading \subseteq Client /\ asked \subseteq Client
         /\ told \subseteq Client /\ puid_client \subseteq Entry
         /\ batons \subseteq Thread /\ ready \in BOOLEAN
         /\ fault \in FaultKind \cup {"none"}
    BY DEF Init
  <1>12. PcOK
    BY DEF Init, PcOK, Idle
  <1> QED
    BY <1>1, <1>2, <1>3, <1>4, <1>5, <1>6, <1>7, <1>8, <1>9, <1>10, <1>11, <1>12 DEF TypeOK

\* A crash leaves a process that holds nothing, correctly typed.
LEMMA CrashTypes ==
    ASSUME NEW why \in FaultKind, Crash(why)
    PROVE  TypeOK' /\ PcOK'
  <1>1. loop' \in [pc : LoopPc, client : Client \cup {NoClient}, key : Key \cup {NoKey}]
    BY PcNames DEF Crash, Idle
  <1>2. requested' \in [Client -> Seq(Key)] /\ frames' \in [Client -> SUBSET FrameKind]
    BY DEF Crash
  <1>3. puid_count' \in [Key -> Int] /\ puid_thread' \in [Key -> Handle \cup {Absent}]
    BY DEF Crash
  <1>4. vpc' \in [Thread -> VideoPc] /\ dpc' \in [Thread -> DecPc]
    BY PcNames DEF Crash
  <1>5. conn' \in [Client -> {"none", "open", "closing", "closed", "freed"}]
    BY DEF Crash
  <1>6. recv_msg' \in [Client -> Key \cup {NoKey}] /\ threadId' \in [Client -> Handle]
    BY DEF Crash
  <1>7. baton_map' \in [Key \cup {NoKey} -> Handle]
    BY DEF Crash
  <1>8. closing' \in [Thread -> SUBSET Client] /\ sending' \in [Thread -> SUBSET Client]
    BY DEF Crash
  <1>9. /\ owner' \in [Thread -> Client \cup {NoClient}]
        /\ stream' \in [Thread -> Key \cup {NoKey, Stopped}]
        /\ callback' \in [Thread -> Key \cup {NoKey}]
        /\ tmp' \in [Thread -> Key \cup {NoKey}]
        /\ vkey' \in [Thread -> Key \cup {NoKey}]
        /\ baton' \in [Thread -> Handle]
    BY DEF Crash
  <1>10. s_id' \in 0..MaxClient
    BY DEF Crash, ConstantsAssumption
  <1>11. /\ reading' \subseteq Client /\ asked' \subseteq Client
         /\ told' \subseteq Client /\ puid_client' \subseteq Entry
         /\ batons' \subseteq Thread /\ ready' \in BOOLEAN
         /\ fault' \in FaultKind \cup {"none"}
    BY DEF Crash
  <1>12. PcOK'
    BY DEF Crash, PcOK, Idle
  <1> QED
    BY <1>1, <1>2, <1>3, <1>4, <1>5, <1>6, <1>7, <1>8, <1>9, <1>10, <1>11, <1>12 DEF TypeOK

LEMMA RegisterTypes == ASSUME TypeOK, PcOK, ReadCB_Register PROVE TypeOK' /\ PcOK'
  <1> USE DEF TypeOK, PcOK, service, threads, net, request, registry, video, decoder, render
  <1>1. threadId[loop.client] \in Handle /\ loop.key \in Key
    BY DEF ReadCB_Register
  <1>2. puid_client' \subseteq Entry
    BY DEF ReadCB_Register, Entry
  <1>3. loop' \in [pc : LoopPc, client : Client \cup {NoClient}, key : Key \cup {NoKey}]
    BY PcNames DEF ReadCB_Register, At, Idle
  <1>4. recv_msg' \in [Client -> Key \cup {NoKey}]
    BY DEF ReadCB_Register
  <1>5. puid_thread' \in [Key -> Handle \cup {Absent}]
    <2> HIDE DEF TypeOK, PcOK
    <2>1. puid_thread \in [Key -> Handle \cup {Absent}]
      BY DEF TypeOK
    <2>2. PICK v \in Handle \cup {Absent} :
              puid_thread' = puid_thread \/ puid_thread' = [puid_thread EXCEPT ![loop.key] = v]
      BY <1>1, <2>1 DEF ReadCB_Register
    <2> QED
      BY <1>1, <2>1, <2>2
  <1>6. TypeOK'
    BY <1>2, <1>3, <1>4, <1>5 DEF ReadCB_Register
  <1>7. PcOK'
    BY DEF ReadCB_Register, At, Idle
  <1> QED
    BY <1>6, <1>7

LEMMA StartTypes == ASSUME TypeOK, PcOK, ReadCB_Start PROVE TypeOK' /\ PcOK'
  <1>1. loop.client \in Client
    BY DEF TypeOK, PcOK, ReadCB_Start
  <1>2. \/ vpc' = vpc /\ owner' = owner
        \/ \E t \in Thread : /\ vpc[t] = "unused" /\ vpc' = [vpc EXCEPT ![t] = "start"]
                             /\ owner' = [owner EXCEPT ![t] = loop.client]
    BY DEF ReadCB_Start
  <1>3. vpc' \in [Thread -> VideoPc] /\ owner' \in [Thread -> Client \cup {NoClient}]
    <2>1. vpc' \in [Thread -> VideoPc]
      <3>1. vpc \in [Thread -> VideoPc] /\ "start" \in VideoPc
        BY PcNames DEF TypeOK
      <3> QED
        BY <1>2, <3>1
    <2>2. owner' \in [Thread -> Client \cup {NoClient}]
      BY <1>1, <1>2 DEF TypeOK
    <2> QED
      BY <2>1, <2>2
  <1>4. threadId' \in [Client -> Handle]
    <2>1. \/ threadId' = threadId
          \/ \E t \in Thread : threadId' = [threadId EXCEPT ![loop.client] = t]
      BY DEF ReadCB_Start
    <2>2. threadId \in [Client -> Handle]
      BY DEF TypeOK
    <2> QED
      BY <1>1, <2>1, <2>2
  <1>5. asked' \subseteq Client /\ told' \subseteq Client
    BY <1>1 DEF TypeOK, ReadCB_Start
  <1>6. TypeOK'
    BY <1>3, <1>4, <1>5, PcNames
    DEF TypeOK, ReadCB_Start, Idle, registry, decoder, render
  <1>7. \A t \in Thread : Live(t)' => owner'[t] \in Client
    <2>1. vpc \in [Thread -> VideoPc] /\ owner \in [Thread -> Client \cup {NoClient}]
      BY DEF TypeOK
    <2>2. \A t \in Thread : Live(t) => owner[t] \in Client
      BY DEF PcOK
    <2> QED
      BY <1>1, <1>2, <2>1, <2>2
  <1>8. \A t \in Thread : dpc'[t] # "idle" =>
            vpc'[t] \in {"loop", "stop"} /\ callback'[t] \in Key /\ stream'[t] \in Key
    BY <1>2 DEF TypeOK, PcOK, ReadCB_Start, decoder
  <1>9. PcOK'
    BY <1>7, <1>8 DEF PcOK, ReadCB_Start, Idle
  <1> QED
    BY <1>6, <1>9

LEMMA CountTypes ==
    ASSUME TypeOK, PcOK, NEW c \in Client, NEW k \in Key, ReadCB_Count(c, k)
    PROVE  TypeOK' /\ PcOK'
  <1> USE DEF TypeOK, PcOK, service, threads, net, request, registry, video, decoder, render
  <1>1. requested' \in [Client -> Seq(Key)]
    BY DEF ReadCB_Count
  <1>2. puid_count' \in [Key -> Int]
    BY DEF ReadCB_Count, CountUp
  <1>3. TypeOK'
    BY <1>1, <1>2, PcNames DEF ReadCB_Count
  <1>4. PcOK'
    BY DEF ReadCB_Count
  <1> QED
    BY <1>3, <1>4

\* The loop thread, the main thread and the clients.
LEMMA LoopTypes ==
    ASSUME TypeOK, PcOK, Environment \/ LoopStep
    PROVE  TypeOK' /\ PcOK'
  <1> USE PcNames DEF TypeOK, PcOK, service, threads, net, request, registry, video, decoder, render
  <1>1. CASE PlatformReady
    BY <1>1 DEF PlatformReady
  <1>2. CASE AcceptConnection
    BY <1>2 DEF AcceptConnection, ConstantsAssumption
  <1>3. ASSUME NEW c \in Client, AfterRecvError(c) PROVE TypeOK' /\ PcOK'
    BY <1>3 DEF AfterRecvError
  <1>4. ASSUME NEW c \in Client, PrepareCB(c) PROVE TypeOK' /\ PcOK'
    BY <1>4 DEF PrepareCB
  <1>5. ASSUME NEW c \in Client, AfterClientClose(c) PROVE TypeOK' /\ PcOK'
    BY <1>5 DEF AfterClientClose
  <1>6. CASE ClientClosed_Unsubscribe
    <2>1. TypeOK'
      BY <1>6 DEF ClientClosed_Unsubscribe, At, EntriesOf, Entry
    <2>2. PcOK'
      BY <1>6 DEF ClientClosed_Unsubscribe, At, EntriesOf, Entry
    <2> QED
      BY <2>1, <2>2
  <1>7. CASE ClientClosed_Join
    BY <1>7 DEF ClientClosed_Join, At
  <1>8. CASE ClientClosed_Delete
    BY <1>8 DEF ClientClosed_Delete, Idle
  <1> HIDE DEF TypeOK, PcOK
  <1> QED
    BY <1>1, <1>2, <1>3, <1>4, <1>5, <1>6, <1>7, <1>8, CountTypes, RegisterTypes, StartTypes
    DEF Environment, LoopStep

LEMMA StartStreamTypes ==
    ASSUME TypeOK, PcOK, NEW t \in Thread, GetIV_StartStream(t)
    PROVE  TypeOK' /\ PcOK'
  <1>1. PICK q \in VideoPc : vpc' = [vpc EXCEPT ![t] = q]
    BY PcNames DEF GetIV_StartStream, Goto
  <1>2. stream' \in [Thread -> Key \cup {NoKey, Stopped}]
    <2>1. CASE stream' = stream
      BY <2>1 DEF TypeOK
    <2>2. CASE stream' # stream
      <3>1. PICK p \in Client : stream' = [stream EXCEPT ![t] = recv_msg[p]]
        BY <2>2, PointeeType DEF GetIV_StartStream, Goto, PcOK
      <3> QED
        BY <3>1 DEF TypeOK
    <2> QED
      BY <2>1, <2>2
  <1>3. TypeOK'
    BY <1>1, <1>2
    DEF TypeOK, service, net, request, registry, decoder, render, GetIV_StartStream
  <1>4. vpc[t] = "start" /\ dpc[t] = "idle"
    BY DEF GetIV_StartStream, Goto, PcOK
  <1>5. \A u \in Thread \ {t} : stream'[u] = stream[u]
    BY DEF GetIV_StartStream, Goto, TypeOK
  <1>6. PcOK'
    BY <1>1, <1>4, <1>5
    DEF TypeOK, PcOK, service, decoder, GetIV_StartStream
  <1> QED
    BY <1>3, <1>6

LEMMA RenderTypes ==
    ASSUME TypeOK, PcOK, NEW t \in Thread, GetIV_Render(t)
    PROVE  TypeOK' /\ PcOK'
  <1>1. PICK p \in Client :
            /\ callback' = callback \/ callback' = [callback EXCEPT ![t] = recv_msg[p]]
            /\ stream' = stream \/ stream' = [stream EXCEPT ![t] = Stopped]
    BY PointeeType DEF PcOK, GetIV_Render
  <1>2. PICK q \in VideoPc : vpc' = [vpc EXCEPT ![t] = q]
    BY PcNames DEF GetIV_Render
  <1>3. /\ callback' \in [Thread -> Key \cup {NoKey}]
        /\ stream' \in [Thread -> Key \cup {NoKey, Stopped}]
    BY <1>1 DEF TypeOK
  <1>4. TypeOK'
    BY <1>2, <1>3
    DEF TypeOK, GetIV_Render, service, net, request, registry, decoder, render
  <1>5. vpc[t] = "render" /\ dpc[t] = "idle"
    BY DEF GetIV_Render, PcOK
  <1>6. PcOK'
    BY <1>2, <1>5 DEF TypeOK, PcOK, GetIV_Render, service, decoder
  <1> QED
    BY <1>4, <1>6

LEMMA SetupTypes ==
    ASSUME TypeOK, PcOK, NEW t \in Thread, SetupBaton(t)
    PROVE  TypeOK' /\ PcOK'
  <1>1. PICK p \in Client :
            /\ tmp' = [tmp EXCEPT ![t] = recv_msg[p]]
            /\ baton_map' = [baton_map EXCEPT
                               ![recv_msg[p]] = IF @ = NoThread THEN t ELSE @]
    BY PointeeType DEF PcOK, SetupBaton, Goto
  <1>2. recv_msg[p] \in Key \cup {NoKey}
    BY <1>1 DEF TypeOK
  <1>3. PICK v \in Handle : baton_map' = [baton_map EXCEPT ![recv_msg[p]] = v]
    BY <1>1, <1>2 DEF TypeOK
  <1>4. baton_map' \in [Key \cup {NoKey} -> Handle] /\ tmp' \in [Thread -> Key \cup {NoKey}]
    BY <1>1, <1>2, <1>3 DEF TypeOK
  <1>5. TypeOK'
    BY <1>4, PcNames
    DEF TypeOK, SetupBaton, Goto, service, net, request, registry, decoder
  <1>6. PcOK'
    BY DEF TypeOK, PcOK, SetupBaton, Goto, service, decoder
  <1> QED
    BY <1>5, <1>6

LEMMA FindCountTypes ==
    ASSUME TypeOK, PcOK, NEW t \in Thread, FindCount(t)
    PROVE  TypeOK' /\ PcOK'
  <1>1. PICK p \in Client : vkey' = [vkey EXCEPT ![t] = recv_msg[p]]
    BY PointeeType DEF PcOK, FindCount, Goto
  <1>2. vkey' \in [Thread -> Key \cup {NoKey}]
    BY <1>1 DEF TypeOK
  <1>3. TypeOK'
    BY <1>2, PcNames
    DEF TypeOK, FindCount, Goto, service, net, request, registry, decoder, render
  <1>4. PcOK'
    BY DEF TypeOK, PcOK, FindCount, Goto, service, decoder
  <1> QED
    BY <1>3, <1>4

LEMMA VideoTypes ==
    ASSUME TypeOK, PcOK, NEW t \in Thread, VideoStep(t)
    PROVE  TypeOK' /\ PcOK'
  <1> USE PcNames DEF TypeOK, PcOK, service, threads, net, request, registry, video, decoder, render
  <1>1. CASE ReportFailure(t)
    <2>1. TypeOK'
      BY <1>1, PointeeType DEF ReportFailure, Goto
    <2>2. PcOK'
      BY <1>1, PointeeType DEF ReportFailure, Goto
    <2> QED
      BY <2>1, <2>2
  <1>3. CASE ReceiveVideo(t)
    BY <1>3 DEF ReceiveVideo
  <1>4. CASE LeaveLoop(t)
    <2>1. TypeOK'
      BY <1>4 DEF LeaveLoop, Goto
    <2>2. PcOK'
      BY <1>4 DEF LeaveLoop, Goto
    <2> QED
      BY <2>1, <2>2
  <1>5. CASE StopStream(t)
    <2> HIDE DEF TypeOK, PcOK
    <2>1. vpc[t] = "stop" /\ vpc' = [vpc EXCEPT ![t] = "lock"] /\ dpc[t] = "idle"
      BY <1>5 DEF StopStream, Goto
    <2>2. vpc' \in [Thread -> VideoPc]
      BY <2>1 DEF TypeOK
    <2>3. /\ stream' \in [Thread -> Key \cup {NoKey, Stopped}]
          /\ callback' \in [Thread -> Key \cup {NoKey}]
      BY <1>5 DEF StopStream, TypeOK
    <2>4. TypeOK'
      BY <1>5, <2>2, <2>3 DEF TypeOK, StopStream
    <2>5. \A u \in Thread \ {t} :
              vpc'[u] = vpc[u] /\ stream'[u] = stream[u] /\ callback'[u] = callback[u]
      BY <1>5, <2>1 DEF StopStream, TypeOK
    <2>6. PcOK'
      BY <1>5, <2>1, <2>5 DEF PcOK, TypeOK, StopStream
    <2> QED
      BY <2>4, <2>6
  <1>6. CASE LockViewers(t)
    <2>1. TypeOK'
      BY <1>6 DEF LockViewers, Goto, ViewersOf, Entry
    <2>2. PcOK'
      BY <1>6 DEF LockViewers, Goto
    <2> QED
      BY <2>1, <2>2
  <1>7. CASE FreeBaton(t)
    <2>1. TypeOK'
      BY <1>7 DEF FreeBaton, Goto
    <2>2. PcOK'
      BY <1>7 DEF FreeBaton, Goto
    <2> QED
      BY <2>1, <2>2
  <1>8. ASSUME NEW c \in Client, AskToClose(t, c) PROVE TypeOK' /\ PcOK'
    <2>1. TypeOK'
      BY <1>8 DEF AskToClose
    <2>2. PcOK'
      BY <1>8 DEF AskToClose
    <2> QED
      BY <2>1, <2>2
  <1> HIDE DEF TypeOK, PcOK
  <1>9. ASSUME NEW c \in Client, CloseClient(t, c) PROVE TypeOK' /\ PcOK'
    BY <1>8, <1>9, CrashTypes, FaultNames DEF CloseClient
  <1>10. CASE UseFreedClient(t) \/ MissResource(t) \/ UseStoppedStream(t)
    BY <1>10, CrashTypes, FaultNames DEF UseFreedClient, MissResource, UseStoppedStream
  <1> QED
    BY <1>1, <1>3, <1>4, <1>5, <1>6, <1>7, <1>9, <1>10, StartStreamTypes, RenderTypes,
       SetupTypes, FindCountTypes
    DEF VideoStep

LEMMA ConvertTypes ==
    ASSUME TypeOK, PcOK, NEW t \in Thread, Convert(t)
    PROVE  TypeOK' /\ PcOK'
  <1>1. dpc' \in [Thread -> DecPc]
    <2>1. PICK q \in DecPc : dpc' = [dpc EXCEPT ![t] = q]
      BY PcNames DEF Convert, Decode
    <2> QED
      BY <2>1 DEF TypeOK
  <1>2. TypeOK'
    BY <1>1 DEF TypeOK, Convert, Decode, service, net, request, registry, video, render
  <1>3. PcOK'
    BY DEF TypeOK, PcOK, Convert, Decode, service, video
  <1> QED
    BY <1>2, <1>3

\* A step of a callback keeps the types of where the decoders are, and moves
\* only callbacks that are under way.
LEMMA DecodeTypes ==
    ASSUME TypeOK, PcOK, NEW t \in Thread, NEW from \in DecPc \ {"idle"},
           NEW to \in DecPc, Decode(t, from, to), UNCHANGED video
    PROVE  /\ dpc' \in [Thread -> DecPc]
           /\ \A u \in Thread : dpc'[u] # "idle" =>
                vpc'[u] \in {"loop", "stop"} /\ callback'[u] \in Key /\ stream'[u] \in Key
  <1>1. dpc \in [Thread -> DecPc]
    BY DEF TypeOK
  <1>2. dpc' \in [Thread -> DecPc] /\ \A u \in Thread : dpc'[u] # "idle" => dpc[u] # "idle"
    BY <1>1 DEF Decode
  <1> QED
    BY <1>2 DEF PcOK, video

LEMMA DecoderTypes ==
    ASSUME TypeOK, PcOK, NEW t \in Thread, DecoderStep(t)
    PROVE  TypeOK' /\ PcOK'
  <1> USE PcNames
  <1>1. CASE FindBaton(t)
    <2>1. baton' \in [Thread -> Handle]
      <3>1. baton_map \in [Key \cup {NoKey} -> Handle] /\ baton \in [Thread -> Handle]
        BY DEF TypeOK
      <3>2. callback[t] \in Key
        BY <1>1 DEF FindBaton, Decode, PcOK
      <3> QED
        BY <1>1, <3>1, <3>2 DEF FindBaton
    <2>2. dpc' \in [Thread -> DecPc]
      BY <1>1, DecodeTypes DEF FindBaton
    <2>3. TypeOK'
      BY <1>1, <2>1, <2>2 DEF TypeOK, FindBaton, service, net, request, registry, video, render
    <2>4. PcOK'
      BY <1>1, DecodeTypes DEF PcOK, FindBaton, service, video
    <2> QED
      BY <2>3, <2>4
  <1>3. CASE CopyViewers(t)
    <2>1. ViewersOf(callback[t]) \subseteq Client
      BY DEF TypeOK, ViewersOf, Entry
    <2>2. sending' \in [Thread -> SUBSET Client]
      BY <1>3, <2>1 DEF CopyViewers, TypeOK
    <2>3. dpc' \in [Thread -> DecPc]
      BY <1>3, DecodeTypes DEF CopyViewers
    <2>4. TypeOK'
      BY <1>3, <2>2, <2>3 DEF TypeOK, CopyViewers, service, net, request, registry, video, render
    <2>5. PcOK'
      BY <1>3, DecodeTypes DEF PcOK, CopyViewers, service, video
    <2> QED
      BY <2>4, <2>5
  <1>4. CASE LockSend(t)
    <2>1. dpc' \in [Thread -> DecPc]
      BY <1>4, DecodeTypes DEF LockSend
    <2>2. TypeOK'
      BY <1>4, <2>1 DEF TypeOK, LockSend, service, net, request, registry, video, render
    <2>3. PcOK'
      BY <1>4, DecodeTypes DEF PcOK, LockSend, service, video
    <2> QED
      BY <2>2, <2>3
  <1>5. CASE UnlockSend(t)
    <2>1. dpc' \in [Thread -> DecPc]
      BY <1>5, DecodeTypes DEF UnlockSend
    <2>2. TypeOK'
      BY <1>5, <2>1 DEF TypeOK, UnlockSend, service, net, request, registry, video, render
    <2>3. PcOK'
      BY <1>5, DecodeTypes DEF PcOK, UnlockSend, service, video
    <2> QED
      BY <2>2, <2>3
  <1>6. ASSUME NEW c \in Client, SendFrame(t, c) PROVE TypeOK' /\ PcOK'
    <2>1. [key |-> callback[t], video |-> stream[t]] \in FrameKind
      BY <1>6 DEF PcOK, SendFrame, FrameKind
    <2>2. frames' \in [Client -> SUBSET FrameKind]
      BY <1>6, <2>1 DEF TypeOK, SendFrame
    <2>3. sending' \in [Thread -> SUBSET Client]
      BY <1>6 DEF TypeOK, SendFrame
    <2>4. TypeOK'
      BY <1>6, <2>2, <2>3 DEF TypeOK, SendFrame, request, registry, video, render
    <2>5. PcOK'
      BY <1>6 DEF PcOK, SendFrame, video
    <2> QED
      BY <2>4, <2>5
  <1>7. CASE EncodeFails(t) \/ UseFreedBaton(t)
    BY <1>7, CrashTypes, FaultNames DEF EncodeFails, UseFreedBaton
  <1> QED
    BY <1>1, <1>3, <1>4, <1>5, <1>6, <1>7, ConvertTypes
    DEF DecoderStep

LEMMA StepTypes ==
    ASSUME TypeOK, PcOK, [Next]_vars
    PROVE  TypeOK' /\ PcOK'
  <1>1. CASE UNCHANGED vars
    BY <1>1
    DEF vars, TypeOK, PcOK, service, threads, net, request, registry, video, decoder, render
  <1>2. CASE DataRace
    BY <1>2, CrashTypes, FaultNames DEF DataRace
  <1> QED
    BY <1>1, <1>2, LoopTypes, VideoTypes, DecoderTypes DEF Next, Quiet

\* Every variable keeps its type, and where the threads are tells what they
\* hold.
THEOREM TypesInvariant == Spec => [](TypeOK /\ PcOK)
  <1>1. Init => TypeOK /\ PcOK
    BY InitTypes
  <1>2. TypeOK /\ PcOK /\ [Next]_vars => (TypeOK /\ PcOK)'
    BY StepTypes
  <1> QED
    BY <1>1, <1>2, PTL DEF Spec


\* Every variable keeps its type.
THEOREM TypeCorrect == Spec => []TypeOK
  BY TypesInvariant, PTL

-----------------------------------------------------------------------------
(* The count of a string and its registered viewers.                       *)

\* CountInv speaks of the two maps, of what was received and of the callback.
LEMMA CountStutter ==
    ASSUME CountInv, UNCHANGED <<loop, requested, puid_count, puid_client>>
    PROVE  CountInv'
  BY DEF CountInv, EntryOK, CountMatchesViewers, Pending

\* A callback other than ReadCB moves on.
LEMMA CountMove ==
    ASSUME CountInv, UNCHANGED <<requested, puid_count, puid_client>>,
           loop.pc # "register", loop'.pc # "register"
    PROVE  CountInv'
  <1>1. CountMatchesViewers'
    BY DEF CountInv, CountMatchesViewers, Pending
  <1>2. EntryOK'
    BY DEF CountInv, EntryOK
  <1> QED
    BY <1>1, <1>2 DEF CountInv

LEMMA CountInit == ASSUME Init PROVE CountInv
  <1>1. IsFiniteSet(puid_client) /\ EntryOK
    BY FS_EmptySet DEF Init, EntryOK
  <1>2. ASSUME NEW k \in Key
        PROVE  puid_count[k] = Cardinality({e \in puid_client : e.key = k}) + Pending(k)
    <2>1. {e \in puid_client : e.key = k} = {} /\ Pending(k) = 0 /\ puid_count[k] = 0
      BY DEF Init, Pending, Idle
    <2> QED
      BY <2>1, FS_EmptySet
  <1> QED
    BY <1>1, <1>2 DEF CountInv, CountMatchesViewers

LEMMA CountCrash ==
    ASSUME NEW why, Crash(why)
    PROVE  CountInv'
  <1>1. IsFiniteSet(puid_client)' /\ EntryOK'
    BY FS_EmptySet DEF Crash, EntryOK
  <1>2. ASSUME NEW k \in Key
        PROVE  puid_count'[k] = Cardinality({e \in puid_client' : e.key = k}) + Pending(k)'
    <2>1. {e \in puid_client' : e.key = k} = {} /\ Pending(k)' = 0 /\ puid_count'[k] = 0
      BY DEF Crash, Pending
    <2> QED
      BY <2>1, FS_EmptySet
  <1> QED
    BY <1>1, <1>2 DEF CountInv, CountMatchesViewers

\* The count goes up, and the request is pending.
LEMMA CountOfRequest ==
    ASSUME TypeOK, CountInv, NEW c \in Client, NEW k \in Key, ReadCB_Count(c, k)
    PROVE  CountInv'
  <1>1. puid_client' = puid_client /\ loop.pc = "idle"
        /\ loop'.pc = "register" /\ loop'.client = c /\ loop'.key = k
    BY DEF ReadCB_Count
  <1>2. /\ \A d \in Client \ {c} : requested'[d] = requested[d]
        /\ Len(requested'[c]) = Len(requested[c]) + 1
        /\ \A d \in Client : Len(requested[d]) \in Nat
    BY DEF ReadCB_Count, TypeOK
  <1>3. ASSUME NEW e \in puid_client
        PROVE  /\ e.nth <= Len(requested'[e.client])
               /\ e.client = c => e.nth < Len(requested'[e.client])
    <2>1. e.client \in Client /\ e.nth \in Nat
      BY DEF TypeOK, Entry
    <2>2. e.nth <= Len(requested[e.client])
      BY DEF CountInv, EntryOK
    <2> QED
      BY <1>2, <2>1, <2>2
  <1>4. ASSUME NEW j \in Key
        PROVE  puid_count'[j] = Cardinality({e \in puid_client' : e.key = j}) + Pending(j)'
    <2>1. puid_count[j] = Cardinality({e \in puid_client : e.key = j})
      <3>1. Pending(j) = 0
        BY <1>1 DEF Pending
      <3>2. Cardinality({e \in puid_client : e.key = j}) \in Nat
        BY FS_CardinalityType, FS_Subset DEF CountInv
      <3> QED
        BY <3>1, <3>2 DEF CountInv, CountMatchesViewers
    <2>2. puid_count'[j] = puid_count[j] + (IF j = k THEN 1 ELSE 0)
      BY DEF ReadCB_Count, CountUp, TypeOK
    <2> QED
      BY <1>1, <2>1, <2>2 DEF Pending
  <1> QED
    BY <1>1, <1>3, <1>4 DEF CountInv, EntryOK, CountMatchesViewers

\* The pending request becomes an entry, a new one by its number.
LEMMA CountOfRegister ==
    ASSUME TypeOK, PcOK, CountInv, ReadCB_Register
    PROVE  CountInv'
  <1> DEFINE k == loop.key
             new == [key |-> loop.key, client |-> loop.client,
                     nth |-> Len(requested[loop.client])]
  <1>1. /\ puid_client' = puid_client \cup {new} /\ loop.pc = "register"
        /\ loop'.pc # "register"
        /\ UNCHANGED <<requested, puid_count>>
    BY DEF ReadCB_Register, At, Idle
  <1>2. k \in Key /\ loop.client \in Client /\ Len(requested[loop.client]) \in Nat
    BY <1>1 DEF PcOK, TypeOK
  <1>3. new \notin puid_client
    BY <1>1, <1>2 DEF CountInv, EntryOK
  <1>4. IsFiniteSet(puid_client')
    BY <1>1, FS_AddElement DEF CountInv
  <1>5. EntryOK'
    BY <1>1, <1>2 DEF CountInv, EntryOK
  <1>6. ASSUME NEW j \in Key
        PROVE  puid_count'[j] = Cardinality({e \in puid_client' : e.key = j}) + Pending(j)'
    <2> DEFINE S == {e \in puid_client : e.key = j}
    <2>1. IsFiniteSet(S)
      BY FS_Subset DEF CountInv
    <2>2. Cardinality(S) \in Nat /\ Pending(j)' = 0
      BY <1>1, <2>1, FS_CardinalityType DEF Pending
    <2>3. CASE j = k
      <3>1. {e \in puid_client' : e.key = j} = S \cup {new}
        BY <1>1, <2>3
      <3>2. Cardinality(S \cup {new}) = Cardinality(S) + 1
        BY <1>3, <2>1, FS_AddElement
      <3>3. puid_count[j] = Cardinality(S) + 1
        BY <1>1, <2>3 DEF CountInv, CountMatchesViewers, Pending
      <3>4. puid_count'[j] = Cardinality(S \cup {new}) + Pending(j)'
        BY <1>1, <2>2, <3>2, <3>3
      <3> QED
        BY <3>1, <3>4
    <2>4. CASE j # k
      <3>1. {e \in puid_client' : e.key = j} = S
        BY <1>1, <2>4
      <3>2. puid_count[j] = Cardinality(S)
        BY <2>2, <2>4 DEF CountInv, CountMatchesViewers, Pending
      <3>3. puid_count'[j] = Cardinality(S) + Pending(j)'
        BY <1>1, <2>2, <3>2
      <3> QED
        BY <3>1, <3>3
    <2> QED
      BY <2>3, <2>4
  <1> QED
    BY <1>4, <1>5, <1>6 DEF CountInv, CountMatchesViewers

\* ClientClosed takes one entry away and counts down.
LEMMA CountOfUnsubscribe ==
    ASSUME TypeOK, PcOK, CountInv, ClientClosed_Unsubscribe
    PROVE  CountInv'
  <1>1. loop.pc = "unsubscribe" /\ loop'.pc # "register" /\ requested' = requested
    BY DEF ClientClosed_Unsubscribe, At, request
  <1>2. CASE UNCHANGED <<puid_client, puid_count>>
    BY <1>1, <1>2, CountMove
  <1>3. ASSUME NEW g \in puid_client,
               puid_client' = puid_client \ {g},
               puid_count' = [puid_count EXCEPT ![g.key] = @ - 1]
        PROVE  CountInv'
    <2>1. IsFiniteSet(puid_client')
      BY <1>3, FS_RemoveElement DEF CountInv
    <2>2. EntryOK'
      BY <1>1, <1>3 DEF CountInv, EntryOK
    <2>3. ASSUME NEW j \in Key
          PROVE  puid_count'[j] = Cardinality({e \in puid_client' : e.key = j}) + Pending(j)'
      <3> DEFINE S == {e \in puid_client : e.key = j}
      <3>1. IsFiniteSet(S)
        BY FS_Subset DEF CountInv
      <3>2. Cardinality(S) \in Nat /\ Pending(j)' = 0 /\ Pending(j) = 0
        BY <1>1, <3>1, FS_CardinalityType DEF Pending
      <3>3. puid_count[j] = Cardinality(S)
        BY <3>2 DEF CountInv, CountMatchesViewers
      <3>4. CASE j = g.key
        <4>1. {e \in puid_client' : e.key = j} = S \ {g} /\ g \in S
          BY <1>3, <3>4
        <4>2. Cardinality(S \ {g}) = Cardinality(S) - 1
          BY <3>1, <4>1, FS_RemoveElement
        <4>3. puid_count'[j] = puid_count[j] - 1
          BY <1>3, <3>4 DEF TypeOK
        <4>4. puid_count'[j] = Cardinality(S \ {g}) + Pending(j)'
          BY <3>2, <3>3, <4>2, <4>3
        <4> QED
          BY <4>1, <4>4
      <3>5. CASE j # g.key
        <4>1. {e \in puid_client' : e.key = j} = S
          BY <1>3, <3>5
        <4>2. puid_count'[j] = puid_count[j]
          BY <1>3, <3>5 DEF TypeOK
        <4>3. puid_count'[j] = Cardinality(S) + Pending(j)'
          BY <3>2, <3>3, <4>2
        <4> QED
          BY <4>1, <4>3
      <3> QED
        BY <3>4, <3>5
    <2> QED
      BY <2>1, <2>2, <2>3 DEF CountInv, CountMatchesViewers
  <1> QED
    BY <1>2, <1>3 DEF ClientClosed_Unsubscribe, EntriesOf

LEMMA CountStep ==
    ASSUME TypeOK, PcOK, CountInv, [Next]_vars
    PROVE  CountInv'
  <1> USE DEF service, net, request, registry
  <1>1. CASE UNCHANGED vars
    BY <1>1, CountStutter DEF vars
  <1>2. CASE DataRace
    BY <1>2, CountCrash DEF DataRace
  <1>3. CASE Environment
    <2>1. CASE PlatformReady \/ AcceptConnection
      BY <2>1, CountStutter DEF PlatformReady, AcceptConnection
    <2>2. ASSUME NEW c \in Client, AfterRecvError(c) PROVE CountInv'
      BY <2>2, CountStutter DEF AfterRecvError
    <2> QED
      BY <1>3, <2>1, <2>2, CountOfRequest DEF Environment
  <1>4. CASE LoopStep
    <2>1. CASE ReadCB_Start
      BY <2>1, CountMove DEF ReadCB_Start, Idle
    <2>2. CASE ClientClosed_Join
      BY <2>2, CountMove DEF ClientClosed_Join, At
    <2>3. CASE ClientClosed_Delete
      BY <2>3, CountMove DEF ClientClosed_Delete, Idle
    <2>4. ASSUME NEW c \in Client, PrepareCB(c) PROVE CountInv'
      BY <2>4, CountStutter DEF PrepareCB
    <2>5. ASSUME NEW c \in Client, AfterClientClose(c) PROVE CountInv'
      BY <2>5, CountMove DEF AfterClientClose
    <2> QED
      BY <1>4, <2>1, <2>2, <2>3, <2>4, <2>5, CountOfRegister, CountOfUnsubscribe DEF LoopStep
  <1>5. ASSUME NEW t \in Thread, VideoStep(t) PROVE CountInv'
    <2>1. CASE \/ UseFreedClient(t) \/ MissResource(t) \/ UseStoppedStream(t)
               \/ \E c \in Client : c \notin Connected /\ Crash("close")
      BY <2>1, CountCrash DEF UseFreedClient, MissResource, UseStoppedStream
    <2>2. CASE UNCHANGED <<loop, requested, puid_count, puid_client>>
      BY <2>2, CountStutter
    <2>3. ASSUME NEW c \in Client, CloseClient(t, c) PROVE CountInv'
      BY <2>1, <2>2, <2>3 DEF CloseClient, AskToClose
    <2> QED
      BY <1>5, <2>1, <2>2, <2>3
      DEF VideoStep, GetIV_StartStream, GetIV_Render, ReportFailure, SetupBaton, FindCount,
          ReceiveVideo, LeaveLoop, StopStream, LockViewers, FreeBaton
  <1>6. ASSUME NEW t \in Thread, DecoderStep(t) PROVE CountInv'
    <2>1. CASE EncodeFails(t) \/ UseFreedBaton(t)
      BY <2>1, CountCrash DEF EncodeFails, UseFreedBaton
    <2>2. CASE UNCHANGED <<loop, requested, puid_count, puid_client>>
      BY <2>2, CountStutter
    <2> QED
      BY <1>6, <2>1, <2>2
      DEF DecoderStep, FindBaton, Convert, CopyViewers, LockSend, UnlockSend, SendFrame
  <1> QED
    BY <1>1, <1>2, <1>3, <1>4, <1>5, <1>6 DEF Next, Quiet

\* The count of every string is its number of registered viewers, plus the
\* request ReadCB is about to register.
THEOREM CountMatches == Spec => []CountMatchesViewers
  <1>1. Init => TypeOK /\ PcOK /\ CountInv
    BY InitTypes, CountInit
  <1>2. TypeOK /\ PcOK /\ CountInv /\ [Next]_vars => (TypeOK /\ PcOK /\ CountInv)'
    BY StepTypes, CountStep
  <1>3. TypeOK /\ PcOK /\ CountInv => CountMatchesViewers
    BY DEF CountInv
  <1> QED
    BY <1>1, <1>2, <1>3, PTL DEF Spec

-----------------------------------------------------------------------------
(* The join under mutex_puid_client.                                       *)

InReadCB(c) == loop.pc \in {"register", "search"} /\ loop.client = c

\* ReadCB files the handle of a client before it creates the client's thread:
\* without a second string that is the handle 0.
HandleInv ==
    (\A c \in Client : Len(requested[c]) <= 1) =>
        /\ \A c \in Client : InReadCB(c) => requested[c] # <<>>
        /\ \A c \in Client : requested[c] = <<>> \/ InReadCB(c) => threadId[c] = NoThread
        /\ \A k \in Key : puid_thread[k] \notin Thread

\* What neither receives a string nor creates a thread.
LEMMA HandleSame ==
    ASSUME HandleInv, UNCHANGED <<requested, threadId>>,
           \A k \in Key : puid_thread'[k] \in {puid_thread[k], Absent},
           \A c \in Client : InReadCB(c)' => InReadCB(c)
    PROVE  HandleInv'
  BY DEF HandleInv

LEMMA HandleStutter ==
    ASSUME HandleInv, UNCHANGED <<loop, requested, threadId, puid_thread>>
    PROVE  HandleInv'
  BY HandleSame DEF InReadCB

LEMMA HandleCrash == ASSUME NEW why, Crash(why) PROVE HandleInv'
  <1>1. /\ loop'.pc = "crashed"
        /\ \A c \in Client : threadId'[c] = NoThread
        /\ \A k \in Key : puid_thread'[k] = Absent
    BY DEF Crash
  <1> QED
    BY <1>1 DEF HandleInv, InReadCB

LEMMA HandleOfRequest ==
    ASSUME TypeOK, HandleInv, NEW c \in Client, NEW k \in Key, ReadCB_Count(c, k)
    PROVE  HandleInv'
  <1>1. /\ loop.pc = "idle" /\ loop'.pc = "register" /\ loop'.client = c
        /\ threadId' = threadId /\ puid_thread' = puid_thread
    BY DEF ReadCB_Count
  <1>2. /\ requested[c] \in Seq(Key) /\ requested'[c] = Append(requested[c], k)
        /\ \A d \in Client \ {c} : requested'[d] = requested[d]
    BY DEF ReadCB_Count, TypeOK
  <1>3. Len(requested'[c]) = Len(requested[c]) + 1 /\ requested'[c] # <<>>
    BY <1>2
  <1>4. Len(requested'[c]) <= 1 => requested[c] = <<>> /\ Len(requested[c]) <= 1
    BY <1>2, <1>3
  <1> QED
    BY <1>1, <1>2, <1>3, <1>4 DEF HandleInv, InReadCB

LEMMA HandleOfLoop ==
    ASSUME TypeOK, PcOK, HandleInv, LoopStep PROVE HandleInv'
  <1> USE DEF request, registry, InReadCB
  <1>1. CASE ReadCB_Register
    <2>1. /\ loop.pc = "register" /\ loop.client \in Client /\ loop.key \in Key
          /\ requested' = requested /\ threadId' = threadId
          /\ loop' = Idle \/ (loop'.pc = "search" /\ loop'.client = loop.client)
      BY <1>1 DEF ReadCB_Register, At, PcOK
    <2>2. \A k \in Key : puid_thread'[k] \in {puid_thread[k], threadId[loop.client]}
      BY <1>1 DEF ReadCB_Register, TypeOK
    <2>3. \A c \in Client : InReadCB(c)' => InReadCB(c)
      BY <2>1 DEF Idle
    <2> QED
      BY <2>1, <2>2, <2>3 DEF HandleInv
  <1>2. CASE ReadCB_Start
    <2>1. /\ loop.pc = "search" /\ loop.client \in Client /\ loop'.pc = "idle"
          /\ requested' = requested /\ puid_thread' = puid_thread
          /\ \A c \in Client \ {loop.client} : threadId'[c] = threadId[c]
      BY <1>2 DEF ReadCB_Start, Idle, PcOK, TypeOK
    <2> QED
      BY <2>1 DEF HandleInv
  <1>3. CASE ClientClosed_Unsubscribe
    BY <1>3, HandleSame DEF ClientClosed_Unsubscribe, At
  <1>4. CASE ClientClosed_Join
    <2>1. \A k \in Key : puid_thread'[k] \in {puid_thread[k], Absent}
      BY <1>4 DEF ClientClosed_Join, TypeOK
    <2> QED
      BY <1>4, <2>1, HandleSame DEF ClientClosed_Join, At
  <1>5. CASE ClientClosed_Delete
    BY <1>5, HandleSame DEF ClientClosed_Delete, Idle
  <1>6. ASSUME NEW c \in Client, PrepareCB(c) \/ AfterClientClose(c) PROVE HandleInv'
    BY <1>6, HandleSame DEF PrepareCB, AfterClientClose
  <1> QED
    BY <1>1, <1>2, <1>3, <1>4, <1>5, <1>6 DEF LoopStep

LEMMA HandleStep == ASSUME TypeOK, PcOK, HandleInv, [Next]_vars PROVE HandleInv'
  <1> USE DEF service, net, request, registry
  <1>1. CASE UNCHANGED vars
    BY <1>1, HandleStutter DEF vars
  <1>2. CASE DataRace
    BY <1>2, HandleCrash DEF DataRace
  <1>3. CASE Environment
    <2>1. CASE PlatformReady \/ AcceptConnection
      BY <2>1, HandleStutter DEF PlatformReady, AcceptConnection
    <2>2. ASSUME NEW c \in Client, AfterRecvError(c) PROVE HandleInv'
      BY <2>2, HandleStutter DEF AfterRecvError
    <2> QED
      BY <1>3, <2>1, <2>2, HandleOfRequest DEF Environment
  <1>4. ASSUME NEW t \in Thread, VideoStep(t) PROVE HandleInv'
    <2>1. CASE \/ UseFreedClient(t) \/ MissResource(t) \/ UseStoppedStream(t)
               \/ \E c \in Client : c \notin Connected /\ Crash("close")
      BY <2>1, HandleCrash DEF UseFreedClient, MissResource, UseStoppedStream
    <2>2. CASE UNCHANGED <<loop, requested, threadId, puid_thread>>
      BY <2>2, HandleStutter
    <2>3. ASSUME NEW c \in Client, CloseClient(t, c) PROVE HandleInv'
      BY <2>1, <2>2, <2>3 DEF CloseClient, AskToClose
    <2> QED
      BY <1>4, <2>1, <2>2, <2>3
      DEF VideoStep, GetIV_StartStream, GetIV_Render, ReportFailure, SetupBaton, FindCount,
          ReceiveVideo, LeaveLoop, StopStream, LockViewers, FreeBaton
  <1>5. ASSUME NEW t \in Thread, DecoderStep(t) PROVE HandleInv'
    <2>1. CASE EncodeFails(t) \/ UseFreedBaton(t)
      BY <2>1, HandleCrash DEF EncodeFails, UseFreedBaton
    <2>2. CASE UNCHANGED <<loop, requested, threadId, puid_thread>>
      BY <2>2, HandleStutter
    <2> QED
      BY <1>5, <2>1, <2>2
      DEF DecoderStep, FindBaton, Convert, CopyViewers, LockSend, UnlockSend, SendFrame
  <1> QED
    BY <1>1, <1>2, <1>3, <1>4, <1>5, HandleOfLoop DEF Next, Quiet

\* ClientClosed never waits for a running thread with the mutex held, for any
\* number of clients and threads, as long as no client sent a second string:
\* the handle it joins was stored before there was a thread.
THEOREM JoinsReturnAtOnce == Spec => []JoinReturnsAtOnce
  <1>1. Init => TypeOK /\ PcOK /\ HandleInv
    <2> SUFFICES ASSUME Init PROVE TypeOK /\ PcOK /\ HandleInv
      OBVIOUS
    <2>1. HandleInv
      BY DEF Init, Idle, HandleInv, InReadCB
    <2> QED
      BY <2>1, InitTypes
  <1>2. TypeOK /\ PcOK /\ HandleInv /\ [Next]_vars => (TypeOK /\ PcOK /\ HandleInv)'
    BY StepTypes, HandleStep
  <1>3. PcOK /\ HandleInv => JoinReturnsAtOnce
    BY DEF PcOK, HandleInv, JoinReturnsAtOnce, JoinReturns
  <1> QED
    BY <1>1, <1>2, <1>3, PTL DEF Spec

=============================================================================
