------------------------- MODULE AcceptClientProofs -------------------------
(* Theorems about AcceptClient, for every value of its constants.           *)
EXTENDS AcceptClient, SequenceTheorems, TLAPS

\* The types the proofs below need.
Types ==
    /\ listed \subseteq Req /\ inflight \subseteq Req /\ freed \subseteq Req
    /\ lreq \in Req \cup {NoReq} /\ vreq \in Req \cup {NoReq}

\* A thread has a request in hand from taking it to handing it on, and only
\* then.
InHandInv ==
    /\ lreq # NoReq <=> lpc \in {"write", "giveback"}
    /\ vreq # NoReq <=> vpc \in {"write", "giveback"}

\* The object is closed when both handles are, and deleted later; the socket
\* calls back when libuv has no request of it.
ClosedInv ==
    /\ deleted => isclosed
    /\ isclosed => client_handle = "null" /\ prepare_handle = "null"
    /\ client_handle = "null" => inflight = {}

ReqInv == Types /\ InHandInv /\ RequestsOnce

\* What the proofs need of the bounds.
LEMMA Constants == MaxFrame \in Nat /\ MaxText \in Nat /\ NoReq \notin Req
  BY AcceptAssumption

USE Constants

LEMMA ReqInit == ASSUME Init PROVE ReqInv /\ ClosedInv
  BY DEF Init, ReqInv, Types, InHandInv, RequestsOnce, ClosedInv

\* A request taken up was in the list or nowhere.
LEMMA ReqTaken ==
    ASSUME ReqInv, NEW r \in Req, TakeRequest(r)
    PROVE  /\ listed' \subseteq listed /\ r \notin listed'
           /\ r \notin inflight \cup freed \cup {lreq, vreq}
  BY DEF ReqInv, Types, RequestsOnce, TakeRequest, Recycled, Unused

LEMMA LoopKeepsReq == ASSUME ReqInv, LoopStep PROVE ReqInv'
  <1> USE DEF ReqInv, Types, InHandInv, RequestsOnce, report
  <1>1. CASE PrepareCB_Pop \/ SetBuf \/ ReadCB_Close
    BY <1>1 DEF PrepareCB_Pop, SetBuf, ReadCB_Close, sending
  <1>2. CASE TakeReq
    <2>1. PICK r \in Req : TakeRequest(r) /\ lreq' = r
      BY <1>2 DEF TakeReq
    <2>2. /\ listed' \subseteq listed /\ r \notin listed'
          /\ r \notin inflight \cup freed \cup {lreq, vreq}
      BY <2>1, ReqTaken
    <2> QED
      BY <1>2, <2>1, <2>2 DEF TakeReq
  <1>3. CASE Write
    BY <1>3 DEF Write, Accepted, Written
  <1>4. CASE GiveBack
    BY <1>4 DEF GiveBack, Written
  <1>5. CASE closeinl
    BY <1>5 DEF closeinl, looper
  <1>6. CASE AfterClientClose \/ Delete
    BY <1>6 DEF AfterClientClose, Delete, sending, looper
  <1>7. ASSUME NEW r \in Req, AfterSend(r) PROVE ReqInv'
    BY <1>7 DEF AfterSend, looper
  <1> QED
    BY <1>1, <1>2, <1>3, <1>4, <1>5, <1>6, <1>7 DEF LoopStep

LEMMA ReportKeepsReq == ASSUME ReqInv, ReportStep PROVE ReqInv'
  <1> USE DEF ReqInv, Types, InHandInv, RequestsOnce, looper
  <1>1. CASE Report_SetBuf \/ Report_Close
    BY <1>1 DEF Report_SetBuf, Report_Close, sending
  <1>2. CASE Report_TakeReq
    <2>1. PICK r \in Req : TakeRequest(r) /\ vreq' = r
      BY <1>2 DEF Report_TakeReq
    <2>2. /\ listed' \subseteq listed /\ r \notin listed'
          /\ r \notin inflight \cup freed \cup {lreq, vreq}
      BY <2>1, ReqTaken
    <2> QED
      BY <1>2, <2>1, <2>2 DEF Report_TakeReq
  <1>3. CASE Report_Write
    BY <1>3 DEF Report_Write, Accepted
  <1>4. CASE Report_GiveBack
    BY <1>4 DEF Report_GiveBack
  <1> QED
    BY <1>1, <1>2, <1>3, <1>4 DEF ReportStep

LEMMA ReqStep == ASSUME ReqInv, [Next]_vars PROVE ReqInv'
  <1>1. CASE SendCheck \/ SendPush \/ Close \/ ReadCB_Report
    BY <1>1
    DEF SendCheck, SendPush, Close, ReadCB_Report, sending, looper, report,
        ReqInv, Types, InHandInv, RequestsOnce
  <1>2. CASE UseDeleted \/ Race \/ Ended \/ UNCHANGED vars
    BY <1>2
    DEF UseDeleted, Race, Ended, Crashed, vars, sending, looper, report,
        ReqInv, Types, InHandInv, RequestsOnce
  <1> QED
    BY <1>1, <1>2, LoopKeepsReq, ReportKeepsReq DEF Next

\* A write request is in the list, with libuv, with one thread or on the
\* heap, however the loop and a reporting thread interleave and whichever
\* writes fail.
THEOREM RequestsAreOnce == Spec => []RequestsOnce
  <1>1. Init => ReqInv
    BY ReqInit
  <1>2. ReqInv /\ [Next]_vars => ReqInv'
    BY ReqStep
  <1>3. ReqInv => RequestsOnce
    BY DEF ReqInv
  <1> QED
    BY <1>1, <1>2, <1>3, PTL DEF Spec

LEMMA ClosedStep == ASSUME ClosedInv, [Next]_vars PROVE ClosedInv'
  <1> USE DEF ClosedInv
  <1>1. CASE SendCheck \/ SendPush \/ Close \/ ReadCB_Report
    BY <1>1 DEF SendCheck, SendPush, Close, ReadCB_Report, sending, closing
  <1>2. CASE LoopStep
    <2>1. CASE PrepareCB_Pop \/ SetBuf \/ TakeReq \/ GiveBack \/ ReadCB_Close
      BY <2>1 DEF PrepareCB_Pop, SetBuf, TakeReq, GiveBack, ReadCB_Close, sending, closing
    <2>2. CASE Write
      BY <2>2 DEF Write, Accepted, closing
    <2>3. CASE closeinl
      BY <2>3 DEF closeinl
    <2>4. CASE AfterClientClose
      BY <2>4 DEF AfterClientClose, BothClosed, sending
    <2>5. CASE Delete
      BY <2>5 DEF Delete, sending
    <2>6. ASSUME NEW r \in Req, AfterSend(r) PROVE ClosedInv'
      BY <2>6 DEF AfterSend, closing
    <2> QED
      BY <1>2, <2>1, <2>2, <2>3, <2>4, <2>5, <2>6 DEF LoopStep
  <1>3. CASE ReportStep
    BY <1>3
    DEF ReportStep, Report_SetBuf, Report_TakeReq, Report_Write, Report_GiveBack,
        Report_Close, Accepted, sending, closing
  <1>4. CASE UseDeleted \/ Race \/ Ended \/ UNCHANGED vars
    BY <1>4 DEF UseDeleted, Race, Ended, Crashed, vars, sending, closing
  <1> QED
    BY <1>1, <1>2, <1>3, <1>4 DEF Next

\* No AfterSend comes after the delete: the socket's close callback waits
\* for the last request, and the delete for both close callbacks.
THEOREM DeletedIsQuietAlways == Spec => []DeletedIsQuiet
  <1>1. Init => ClosedInv
    BY ReqInit
  <1>2. ClosedInv /\ [Next]_vars => ClosedInv'
    BY ClosedStep
  <1>3. ClosedInv => DeletedIsQuiet
    BY DEF ClosedInv, DeletedIsQuiet
  <1> QED
    BY <1>1, <1>2, <1>3, PTL DEF Spec

-----------------------------------------------------------------------------
\* Send pushes only a frame the decoder had when it checked.
PushFits == pushing => pushed < MaxFrame

TypeInv == TypeOK /\ PushFits /\ ReqInv

LEMMA TypeInit == ASSUME Init PROVE TypeInv
  <1>1. pool \in Seq(Frame) /\ wire \in Seq(Item)
    BY DEF Init
  <1>2. pushed \in 0..MaxFrame /\ texts \in 0..MaxText /\ Text \in Data
    BY DEF Init, Data, Text
  <1>3. TypeOK
    BY <1>1, <1>2 DEF Init, TypeOK, HandleState, LoopPc, ReportPc
  <1> QED
    BY <1>3, ReqInit DEF Init, TypeInv, PushFits

\* What uv_write accepts is one more item.
LEMMA AcceptedIsTyped ==
    ASSUME wire \in Seq(Item), write_buf \in Data, NEW r \in Req, Accepted(r)
    PROVE  wire' \in Seq(Item) /\ \E w \in BOOLEAN : wire' = Append(wire, [data |-> write_buf, whole |-> w])
  <1>1. PICK w \in BOOLEAN : wire' = Append(wire, [data |-> write_buf, whole |-> w])
    BY DEF Accepted
  <1>2. [data |-> write_buf, whole |-> w] \in Item
    BY DEF Item
  <1> QED
    BY <1>1, <1>2, AppendProperties

LEMMA TypeByLoop == ASSUME TypeInv, ReqInv', LoopStep PROVE TypeInv'
  <1>0. listed' \subseteq Req /\ inflight' \subseteq Req /\ freed' \subseteq Req
        /\ lreq' \in Req \cup {NoReq} /\ vreq' \in Req \cup {NoReq}
    BY DEF ReqInv, Types
  <1> USE DEF TypeInv, TypeOK, PushFits
  <1>1. CASE PrepareCB_Pop
    <2>1. Head(pool) \in Frame /\ Tail(pool) \in Seq(Frame)
      BY <1>1, HeadTailProperties DEF PrepareCB_Pop
    <2> QED
      BY <1>0, <1>1, <2>1 DEF PrepareCB_Pop, sending, closing, report, Data, LoopPc
  <1>2. CASE SetBuf \/ TakeReq \/ ReadCB_Close \/ GiveBack
    <2>1. CASE SetBuf
      BY <1>0, <2>1 DEF SetBuf, queue, closing, report, LoopPc
    <2>2. CASE TakeReq
      BY <1>0, <2>2 DEF TakeReq, queue, closing, report, LoopPc
    <2>3. CASE ReadCB_Close
      BY <1>0, <2>3 DEF ReadCB_Close, queue, sending, report, LoopPc
    <2>4. CASE GiveBack
      BY <1>0, <2>4 DEF GiveBack, Written, queue, closing, report, LoopPc
    <2> QED
      BY <1>2, <2>1, <2>2, <2>3, <2>4
  <1>3. CASE Write
    <2>1. wire' \in Seq(Item)
      <3>1. CASE Accepted(lreq)
        <4>1. lreq \in Req
          BY <1>3 DEF Write, ReqInv, Types, InHandInv
        <4> QED
          BY <3>1, <4>1, AcceptedIsTyped
      <3> QED
        BY <1>3, <3>1 DEF Write
    <2>2. dropped' \subseteq Frame /\ lpc' \in LoopPc
      BY <1>3 DEF Write, Written, Data, LoopPc
    <2> QED
      BY <1>0, <1>3, <2>1, <2>2 DEF Write, queue, closing, report
  <1>4. CASE closeinl \/ Delete
    <2>1. CASE closeinl
      BY <1>0, <2>1 DEF closeinl, queue, looper, report, HandleState
    <2>2. CASE Delete
      BY <1>0, <2>2 DEF Delete, queue, sending, looper, report
    <2> QED
      BY <1>4, <2>1, <2>2
  <1>5. CASE AfterClientClose
    BY <1>0, <1>5 DEF AfterClientClose, queue, sending, looper, report, HandleState
  <1>6. ASSUME NEW r \in Req, AfterSend(r) PROVE TypeInv'
    BY <1>0, <1>6 DEF AfterSend, queue, closing, looper, report
  <1> QED
    BY <1>1, <1>2, <1>3, <1>4, <1>5, <1>6 DEF LoopStep

LEMMA TypeByReport == ASSUME TypeInv, ReqInv', ReportStep PROVE TypeInv'
  <1>0. listed' \subseteq Req /\ inflight' \subseteq Req /\ freed' \subseteq Req
        /\ lreq' \in Req \cup {NoReq} /\ vreq' \in Req \cup {NoReq}
    BY DEF ReqInv, Types
  <1> USE DEF TypeInv, TypeOK, PushFits
  <1>1. CASE Report_SetBuf \/ Report_TakeReq \/ Report_GiveBack \/ Report_Close
    <2>1. CASE Report_SetBuf
      BY <1>0, <2>1 DEF Report_SetBuf, queue, closing, looper, Data, ReportPc
    <2>2. CASE Report_TakeReq
      BY <1>0, <2>2 DEF Report_TakeReq, queue, closing, looper, ReportPc
    <2>3. CASE Report_GiveBack
      BY <1>0, <2>3 DEF Report_GiveBack, queue, closing, looper, ReportPc
    <2>4. CASE Report_Close
      BY <1>0, <2>4 DEF Report_Close, queue, sending, looper, ReportPc
    <2> QED
      BY <1>1, <2>1, <2>2, <2>3, <2>4
  <1>2. CASE Report_Write
    <2>1. wire' \in Seq(Item)
      <3>1. CASE Accepted(vreq)
        <4>1. vreq \in Req
          BY <1>2 DEF Report_Write, ReqInv, Types, InHandInv
        <4> QED
          BY <3>1, <4>1, AcceptedIsTyped
      <3> QED
        BY <1>2, <3>1 DEF Report_Write
    <2> QED
      BY <1>0, <1>2, <2>1 DEF Report_Write, queue, closing, looper, ReportPc
  <1> QED
    BY <1>1, <1>2 DEF ReportStep

LEMMA TypeStep == ASSUME TypeInv, [Next]_vars PROVE TypeInv'
  <1>0. ReqInv'
    BY ReqStep DEF TypeInv
  <1>1. CASE LoopStep \/ ReportStep
    BY <1>0, <1>1, TypeByLoop, TypeByReport
  <1>2. CASE SendPush
    <2>1. pushed' \in 0..MaxFrame /\ pushed + 1 \in Frame /\ ~pushing'
      BY <1>2 DEF SendPush, TypeInv, TypeOK, PushFits, Frame
    <2>2. pool' \in Seq(Frame)
      BY <1>2, <2>1, AppendProperties DEF SendPush, TypeInv, TypeOK
    <2> QED
      BY <1>0, <1>2, <2>1, <2>2
      DEF SendPush, TypeInv, TypeOK, PushFits, sending, closing, looper, report
  <1>3. CASE SendCheck \/ Close \/ ReadCB_Report
    <2> USE DEF TypeInv, TypeOK, PushFits
    <2>1. CASE SendCheck
      BY <1>0, <2>1 DEF SendCheck, sending, closing, looper, report
    <2>2. CASE Close
      BY <1>0, <2>2 DEF Close, queue, sending, looper, report
    <2>3. CASE ReadCB_Report
      BY <1>0, <2>3 DEF ReadCB_Report, queue, sending, closing, report, Data, LoopPc
    <2> QED
      BY <1>3, <2>1, <2>2, <2>3
  <1>4. CASE UseDeleted \/ Race \/ Ended \/ UNCHANGED vars
    BY <1>0, <1>4
    DEF UseDeleted, Race, Ended, Crashed, vars, TypeInv, TypeOK, PushFits, queue, sending,
        closing, looper, report
  <1> QED
    BY <1>1, <1>2, <1>3, <1>4 DEF Next

\* The variables of a connection keep their types, whoever reports errors.
THEOREM TypeCorrect == Spec => []TypeOK
  <1>1. Init => TypeInv
    BY TypeInit
  <1>2. TypeInv /\ [Next]_vars => TypeInv'
    BY TypeStep
  <1>3. TypeInv => TypeOK
    BY DEF TypeInv
  <1> QED
    BY <1>1, <1>2, <1>3, PTL DEF Spec

-----------------------------------------------------------------------------
(* The order of the frames.  The decoder numbers them, so what PrepareCB   *)
(* has popped are the first ones, and the socket gets them in turn as long *)
(* as no video thread has begun to report an error past the queue.         *)

Popped  == pushed - Len(pool)
Holding == lpc \in {"set", "take", "write"} /\ ldata # Text
Gone    == IF Holding THEN Popped - 1 ELSE Popped

\* What is queued are the last frames pushed, in order, and PrepareCB holds
\* the one before them.
QueueInv ==
    /\ Len(pool) <= pushed
    /\ \A i \in 1..Len(pool) : pool[i] = Popped + i
    /\ Holding => ldata = Popped

WireFrames == {wire[i].data : i \in 1..Len(wire)} \ {Text}

\* Every frame before them was written, in order, or dropped.
SocketInv ==
    vpc = "idle" =>
        /\ lpc \in {"take", "write"} => write_buf = ldata
        /\ WireFrames \cup dropped = 1..Gone
        /\ WireFrames \cap dropped = {}
        /\ \A i, j \in 1..Len(wire) :
              i < j /\ wire[i].data # Text /\ wire[j].data # Text
                  => wire[i].data < wire[j].data

OrderInv == TypeInv /\ QueueInv /\ SocketInv

LEMMA OrderInit == ASSUME Init PROVE OrderInv
  <1>1. Len(pool) = 0 /\ Len(wire) = 0 /\ ~Holding
    BY DEF Init, Holding
  <1>2. QueueInv
    BY <1>1 DEF Init, QueueInv
  <1>3. WireFrames = {} /\ Gone = 0
    <2>1. 1..Len(wire) = {}
      BY <1>1
    <2>2. WireFrames = {}
      BY <2>1 DEF WireFrames
    <2>3. pushed = 0
      BY DEF Init
    <2>4. Popped = 0
      BY <1>1, <2>3 DEF Popped
    <2> QED
      BY <1>1, <2>2, <2>4 DEF Gone
  <1>4. SocketInv
    BY <1>1, <1>3 DEF Init, SocketInv
  <1> QED
    BY <1>2, <1>4, TypeInit DEF OrderInv

\* What moves no frame.
LEMMA OrderSame ==
    ASSUME QueueInv, SocketInv, UNCHANGED <<pushed, pool, wire, dropped>>,
           vpc' = "idle" => vpc = "idle" /\ UNCHANGED write_buf,
           Holding' <=> Holding, Holding => ldata' = ldata,
           lpc' \in {"take", "write"} => lpc \in {"take", "write"} /\ ldata' = ldata
    PROVE  QueueInv' /\ SocketInv'
  <1>1. Popped' = Popped /\ Gone' = Gone /\ WireFrames' = WireFrames
    BY DEF Popped, Gone, WireFrames
  <1>2. QueueInv'
    BY <1>1 DEF QueueInv
  <1>3. SocketInv'
    BY <1>1 DEF SocketInv
  <1> QED
    BY <1>2, <1>3

\* A push: the number of what was popped stays.
LEMMA OrderPush == ASSUME OrderInv, SendPush PROVE QueueInv' /\ SocketInv'
  <1>1. /\ pool \in Seq(Frame) /\ pushed \in Nat /\ pushed + 1 \in Frame
        /\ pushed' = pushed + 1 /\ pool' = Append(pool, pushed + 1)
        /\ UNCHANGED <<wire, dropped, lpc, ldata, write_buf, vpc>>
    BY DEF SendPush, OrderInv, TypeInv, TypeOK, PushFits, Frame, sending, looper, report
  <1>2. /\ Len(pool) \in Nat /\ Len(pool') = Len(pool) + 1
        /\ \A i \in 1..Len(pool) : pool'[i] = pool[i]
        /\ pool'[Len(pool) + 1] = pushed + 1
    BY <1>1, AppendProperties, LenProperties
  <1>3. Popped' = Popped /\ Holding' = Holding /\ Gone' = Gone /\ WireFrames' = WireFrames
    BY <1>1, <1>2 DEF Popped, Holding, Gone, WireFrames
  <1>4. \A i \in 1..Len(pool') : pool'[i] = Popped + i
    BY <1>1, <1>2 DEF OrderInv, QueueInv, Popped
  <1>5. QueueInv'
    BY <1>1, <1>2, <1>3, <1>4 DEF OrderInv, QueueInv
  <1>6. SocketInv'
    BY <1>1, <1>3 DEF OrderInv, SocketInv
  <1> QED
    BY <1>5, <1>6

\* A pop: the frame in hand is the next one.
LEMMA OrderPop == ASSUME OrderInv, PrepareCB_Pop PROVE QueueInv' /\ SocketInv'
  <1>1. /\ pool \in Seq(Frame) /\ pool # <<>> /\ pushed \in Nat
        /\ pool' = Tail(pool) /\ ldata' = Head(pool) /\ lpc = "idle" /\ lpc' = "set"
        /\ UNCHANGED <<pushed, wire, dropped, write_buf, vpc>>
    BY DEF PrepareCB_Pop, OrderInv, TypeInv, TypeOK, sending, report
  <1>2. /\ Len(pool) \in Nat \ {0} /\ Len(pool') = Len(pool) - 1
        /\ \A i \in 1..Len(pool') : pool'[i] = pool[i + 1]
        /\ ldata' = pool[1] /\ ldata' \in Frame
    BY <1>1, HeadTailProperties, EmptySeq
  <1>3. Popped \in Nat /\ Popped' = Popped + 1
    BY <1>1, <1>2 DEF Popped, OrderInv, QueueInv
  <1>4. Holding' /\ ~Holding /\ Gone' = Gone /\ WireFrames' = WireFrames
    BY <1>1, <1>2, <1>3 DEF Holding, Gone, WireFrames, Frame, Text
  <1>5. ldata' = Popped'
    BY <1>2, <1>3 DEF OrderInv, QueueInv
  <1>6. \A i \in 1..Len(pool') : pool'[i] = Popped' + i
    BY <1>2, <1>3 DEF OrderInv, QueueInv
  <1>7. QueueInv'
    BY <1>1, <1>2, <1>5, <1>6 DEF OrderInv, QueueInv
  <1>8. SocketInv'
    BY <1>1, <1>4 DEF OrderInv, SocketInv
  <1> QED
    BY <1>7, <1>8

\* A write: the socket gets the frame in hand or loses it, and the earlier
\* ones have had their turn.
LEMMA OrderWrite == ASSUME OrderInv, Write PROVE QueueInv' /\ SocketInv'
  <1>1. /\ wire \in Seq(Item) /\ ldata \in Data /\ write_buf \in Data /\ dropped \subseteq Frame
        /\ pushed \in Nat /\ pool \in Seq(Frame) /\ lpc = "write" /\ lreq \in Req
        /\ UNCHANGED <<pushed, pool, write_buf, ldata, vpc>>
    BY DEF Write, OrderInv, TypeInv, TypeOK, ReqInv, Types, InHandInv, queue, report
  <1>2. Popped \in Nat /\ Popped' = Popped
    BY <1>1, LenProperties DEF Popped, OrderInv, QueueInv
  <1>3. lpc' \notin {"set", "take", "write"}
    BY DEF Write, Written
  <1>4. ~Holding' /\ Gone' = Popped
    BY <1>2, <1>3 DEF Holding, Gone
  <1>5. QueueInv'
    BY <1>1, <1>2, <1>4 DEF OrderInv, QueueInv
  <1>6. SUFFICES ASSUME vpc = "idle" PROVE SocketInv'
    BY <1>1, <1>5 DEF SocketInv
  <1>7. write_buf = ldata /\ (ldata # Text => ldata = Popped /\ Gone = Popped - 1)
        /\ (ldata = Text => Gone = Popped)
    BY <1>1, <1>6 DEF OrderInv, QueueInv, SocketInv, Holding, Gone
  <1>8. 1..Popped = 1..Gone \cup ({ldata} \ {Text}) /\ (ldata # Text => ldata \notin 1..Gone)
    <2>1. CASE ldata = Text
      BY <1>7, <2>1
    <2>2. CASE ldata # Text
      <3>1. Popped >= 1
        BY <1>1, <1>7, <2>2 DEF Data, Frame
      <3> QED
        BY <1>2, <1>7, <2>2, <3>1
    <2> QED
      BY <2>1, <2>2
  <1>9. CASE Accepted(lreq) /\ UNCHANGED dropped
    <2>1. PICK w \in BOOLEAN : wire' = Append(wire, [data |-> write_buf, whole |-> w])
      BY <1>1, <1>9, AcceptedIsTyped
    <2>2. [data |-> write_buf, whole |-> w] \in Item
      BY <1>1 DEF Item
    <2>3. /\ Len(wire) \in Nat /\ Len(wire') = Len(wire) + 1
          /\ \A i \in 1..Len(wire) : wire'[i] = wire[i]
          /\ wire'[Len(wire) + 1].data = ldata
      BY <1>1, <1>7, <2>1, <2>2, AppendProperties, LenProperties
    <2>4. WireFrames' = WireFrames \cup ({ldata} \ {Text})
      BY <2>3 DEF WireFrames
    <2>5. WireFrames' \cup dropped' = 1..Gone'
      BY <1>4, <1>6, <1>8, <1>9, <2>4 DEF OrderInv, SocketInv
    <2>6. WireFrames' \cap dropped' = {}
      BY <1>6, <1>8, <1>9, <2>4 DEF OrderInv, SocketInv
    <2>7. \A i \in 1..Len(wire) : wire[i].data # Text => wire[i].data \in 1..Gone
      BY <1>6 DEF OrderInv, SocketInv, WireFrames
    <2>8. \A i, j \in 1..Len(wire') :
              i < j /\ wire'[i].data # Text /\ wire'[j].data # Text
                  => wire'[i].data < wire'[j].data
      <3> SUFFICES ASSUME NEW i \in 1..Len(wire'), NEW j \in 1..Len(wire'), i < j,
                          wire'[i].data # Text, wire'[j].data # Text
                   PROVE  wire'[i].data < wire'[j].data
        OBVIOUS
      <3>1. CASE j <= Len(wire)
        BY <1>6, <2>3, <3>1 DEF OrderInv, SocketInv
      <3>2. CASE j = Len(wire) + 1
        <4>1. wire'[i].data \in 1..Gone /\ wire'[j].data = ldata /\ ldata = Popped /\ Gone = Popped - 1
          BY <1>7, <2>3, <2>7, <3>2
        <4> QED
          BY <1>2, <4>1
      <3> QED
        BY <2>3, <3>1, <3>2
    <2> QED
      BY <1>3, <2>5, <2>6, <2>8 DEF SocketInv
  <1>10. CASE dropped' = dropped \cup ({ldata} \ {Text}) /\ UNCHANGED wire
    <2>1. WireFrames' = WireFrames
      BY <1>10 DEF WireFrames
    <2>2. WireFrames' \cup dropped' = 1..Gone' /\ WireFrames' \cap dropped' = {}
      BY <1>4, <1>6, <1>8, <1>10, <2>1 DEF OrderInv, SocketInv
    <2> QED
      BY <1>3, <1>6, <1>10, <2>2 DEF OrderInv, SocketInv
  <1> QED
    BY <1>9, <1>10 DEF Write

LEMMA OrderByLoop == ASSUME OrderInv, LoopStep PROVE QueueInv' /\ SocketInv'
  <1>0. QueueInv /\ SocketInv
    BY DEF OrderInv
  <1>1. CASE PrepareCB_Pop \/ Write
    BY <1>1, OrderPop, OrderWrite
  <1>2. CASE SetBuf
    <2>1. Holding' = Holding /\ write_buf' = ldata'
          /\ UNCHANGED <<pushed, pool, wire, dropped, ldata, vpc>>
      BY <1>2 DEF SetBuf, Holding, queue, report
    <2>2. Popped' = Popped /\ Gone' = Gone /\ WireFrames' = WireFrames
      BY <2>1 DEF Popped, Gone, WireFrames
    <2> QED
      BY <1>0, <2>1, <2>2 DEF QueueInv, SocketInv
  <1>3. CASE TakeReq
    <2>1. Holding' <=> Holding
      BY <1>3 DEF TakeReq, Holding
    <2> QED
      BY <1>0, <1>3, <2>1, OrderSame DEF TakeReq, queue, report
  <1>4. CASE GiveBack \/ ReadCB_Close
    <2>1. ~Holding /\ ~Holding' /\ lpc' \notin {"take", "write"}
      BY <1>4 DEF GiveBack, ReadCB_Close, Written, Holding
    <2>2. UNCHANGED <<pushed, pool, wire, dropped, write_buf, ldata, vpc>>
      BY <1>4 DEF GiveBack, ReadCB_Close, queue, sending, report
    <2> QED
      BY <1>0, <2>1, <2>2, OrderSame
  <1>5. CASE closeinl \/ AfterClientClose \/ Delete \/ \E r \in Req : AfterSend(r)
    <2>1. UNCHANGED <<pushed, pool, wire, dropped, write_buf, lpc, ldata, vpc>>
      BY <1>5 DEF closeinl, AfterClientClose, Delete, AfterSend, queue, sending, looper, report
    <2>2. Holding' <=> Holding
      BY <2>1 DEF Holding
    <2> QED
      BY <1>0, <2>1, <2>2, OrderSame
  <1> QED
    BY <1>1, <1>2, <1>3, <1>4, <1>5 DEF LoopStep

LEMMA OrderStep == ASSUME OrderInv, [Next]_vars PROVE OrderInv'
  <1>0. QueueInv /\ SocketInv /\ TypeInv'
    BY TypeStep DEF OrderInv
  <1>1. CASE LoopStep
    BY <1>0, <1>1, OrderByLoop DEF OrderInv
  <1>2. CASE SendPush
    BY <1>0, <1>2, OrderPush DEF OrderInv
  <1>3. CASE ReadCB_Report
    <2>1. /\ ~Holding /\ ~Holding' /\ lpc' = "set"
          /\ UNCHANGED <<pushed, pool, wire, dropped, write_buf, vpc>>
      BY <1>3 DEF ReadCB_Report, Holding, queue, sending, report
    <2> QED
      BY <1>0, <2>1, OrderSame DEF OrderInv
  <1>4. CASE ReportStep
    <2>1. /\ vpc' # "idle"
          /\ UNCHANGED <<pushed, pool, lpc, ldata>>
      BY <1>4
      DEF ReportStep, Report_SetBuf, Report_TakeReq, Report_Write, Report_GiveBack,
          Report_Close, queue, looper
    <2>2. Holding' = Holding /\ Popped' = Popped
      BY <2>1 DEF Holding, Popped
    <2> QED
      BY <1>0, <2>1, <2>2 DEF OrderInv, QueueInv, SocketInv
  <1>5. CASE SendCheck \/ Close \/ UseDeleted \/ Race \/ Ended \/ UNCHANGED vars
    <2>1. UNCHANGED <<pushed, pool, wire, dropped, write_buf, lpc, ldata, vpc>>
      BY <1>5
      DEF SendCheck, Close, UseDeleted, Race, Ended, Crashed, vars, queue, sending, looper, report
    <2>2. Holding' <=> Holding
      BY <2>1 DEF Holding
    <2> QED
      BY <1>0, <2>1, <2>2, OrderSame DEF OrderInv
  <1> QED
    BY <1>1, <1>2, <1>3, <1>4, <1>5 DEF Next

\* The line of frames, piece by piece.
LEMMA LinePieces ==
    ASSUME OrderInv
    PROVE  /\ Len(wire) \in Nat /\ Len(InHand) \in Nat /\ Len(pool) \in Nat
           /\ DOMAIN Line = 1..(Len(wire) + Len(InHand) + Len(pool))
           /\ \A i \in 1..Len(wire) : Line[i] = wire[i].data
           /\ \A i \in 1..Len(InHand) : Line[Len(wire) + i] = Popped
           /\ \A i \in 1..Len(pool) : Line[Len(wire) + Len(InHand) + i] = Popped + i
           /\ Len(InHand) = IF Holding THEN 1 ELSE 0
  <1>1. /\ wire \in Seq(Item) /\ pool \in Seq(Data) /\ ldata \in Data /\ pushed \in Nat
    BY DEF OrderInv, TypeInv, TypeOK, Data
  <1>2. Len(wire) \in Nat /\ Len(pool) \in Nat /\ Popped \in Int
        /\ DOMAIN wire = 1..Len(wire) /\ \A i \in 1..Len(wire) : wire[i].data \in Data
    <2>1. Len(wire) \in Nat /\ Len(pool) \in Nat /\ DOMAIN wire = 1..Len(wire)
      BY <1>1, LenProperties
    <2>2. \A i \in 1..Len(wire) : wire[i] \in Item
      BY <1>1, ElementOfSeq
    <2> QED
      BY <1>1, <2>1, <2>2 DEF Popped, Item
  <1>3. Sent \in Seq(Data) /\ Len(Sent) = Len(wire) /\ \A i \in 1..Len(wire) : Sent[i] = wire[i].data
    BY <1>2 DEF Sent
  <1>4. /\ InHand \in Seq(Data) /\ Len(InHand) = IF Holding THEN 1 ELSE 0
        /\ \A i \in 1..Len(InHand) : InHand[i] = Popped
    BY <1>1 DEF InHand, Holding, OrderInv, QueueInv
  <1>5. /\ Sent \o InHand \in Seq(Data) /\ Len(Sent \o InHand) = Len(wire) + Len(InHand)
        /\ \A i \in 1..(Len(wire) + Len(InHand)) :
              (Sent \o InHand)[i] = IF i <= Len(wire) THEN Sent[i] ELSE InHand[i - Len(wire)]
    <2>1. /\ Sent \o InHand \in Seq(Data) /\ Len(Sent \o InHand) = Len(Sent) + Len(InHand)
          /\ \A i \in 1..(Len(Sent) + Len(InHand)) :
                (Sent \o InHand)[i] = IF i <= Len(Sent) THEN Sent[i] ELSE InHand[i - Len(Sent)]
      BY <1>3, <1>4, ConcatProperties
    <2> QED
      BY <1>3, <2>1
  <1>6. /\ Line \in Seq(Data) /\ Len(Line) = Len(wire) + Len(InHand) + Len(pool)
        /\ \A i \in 1..(Len(wire) + Len(InHand) + Len(pool)) :
              Line[i] = IF i <= Len(wire) + Len(InHand) THEN (Sent \o InHand)[i]
                        ELSE pool[i - (Len(wire) + Len(InHand))]
    <2> DEFINE Ahead == Sent \o InHand
    <2>0. Line = Ahead \o pool
      BY DEF Line
    <2> HIDE DEF Ahead
    <2>1. Ahead \in Seq(Data) /\ Len(Ahead) = Len(wire) + Len(InHand)
      BY <1>5 DEF Ahead
    <2>2. /\ Line \in Seq(Data) /\ Len(Line) = Len(Ahead) + Len(pool)
          /\ \A i \in 1..(Len(Ahead) + Len(pool)) :
                Line[i] = IF i <= Len(Ahead) THEN Ahead[i] ELSE pool[i - Len(Ahead)]
      BY <1>1, <2>0, <2>1, ConcatProperties
    <2> QED
      BY <2>1, <2>2 DEF Ahead
  <1>7. DOMAIN Line = 1..(Len(wire) + Len(InHand) + Len(pool))
    BY <1>6, LenProperties
  <1>n. Len(wire) \in Nat /\ Len(InHand) \in {0, 1} /\ Len(pool) \in Nat
    BY <1>2, <1>4
  <1>8. \A i \in 1..Len(wire) : Line[i] = wire[i].data
    <2> SUFFICES ASSUME NEW i \in 1..Len(wire) PROVE Line[i] = wire[i].data
      OBVIOUS
    <2>1. i \in Nat /\ i <= Len(wire) /\ i \in 1..(Len(wire) + Len(InHand))
          /\ i \in 1..(Len(wire) + Len(InHand) + Len(pool))
      BY <1>n
    <2>2. i <= Len(wire) + Len(InHand)
      BY <1>n, <2>1
    <2>3. Line[i] = (Sent \o InHand)[i]
      BY <1>6, <2>1, <2>2
    <2>4. (Sent \o InHand)[i] = Sent[i]
      BY <1>5, <2>1
    <2> QED
      BY <1>3, <2>3, <2>4
  <1>9. \A i \in 1..Len(InHand) : Line[Len(wire) + i] = Popped
    <2> SUFFICES ASSUME NEW i \in 1..Len(InHand) PROVE Line[Len(wire) + i] = Popped
      OBVIOUS
    <2> DEFINE j == Len(wire) + i
    <2>1. j \in Nat /\ j > Len(wire) /\ j <= Len(wire) + Len(InHand) /\ j - Len(wire) = i
          /\ j \in 1..(Len(wire) + Len(InHand))
          /\ j \in 1..(Len(wire) + Len(InHand) + Len(pool))
      BY <1>n
    <2> HIDE DEF j
    <2>2. Line[j] = (Sent \o InHand)[j]
      BY <1>6, <2>1
    <2>3. (Sent \o InHand)[j] = InHand[i]
      BY <1>5, <1>n, <2>1
    <2>4. Line[j] = Popped
      BY <1>4, <2>2, <2>3
    <2> QED
      BY <2>4 DEF j
  <1>10. \A i \in 1..Len(pool) : Line[Len(wire) + Len(InHand) + i] = Popped + i
    <2> SUFFICES ASSUME NEW i \in 1..Len(pool)
                 PROVE  Line[Len(wire) + Len(InHand) + i] = Popped + i
      OBVIOUS
    <2>1. Len(InHand) \in Nat
      BY <1>4
    <2>2. Line[Len(wire) + Len(InHand) + i] = pool[i]
      BY <1>2, <1>6, <2>1
    <2> QED
      BY <2>2 DEF OrderInv, QueueInv
  <1> QED
    BY <1>4, <1>n, <1>7, <1>8, <1>9, <1>10

\* A frame on the wire is one of those that had their turn.
LEMMA WireIsGone ==
    ASSUME OrderInv, vpc = "idle"
    PROVE  /\ \A i \in 1..Len(wire) : wire[i].data # Text => wire[i].data \in 1..Gone
           /\ Popped \in Nat /\ Gone \in Nat /\ pushed = Popped + Len(pool)
           /\ Popped = Gone + Len(InHand) /\ Len(InHand) \in {0, 1}
  <1>1. Len(pool) \in Nat /\ Len(InHand) = IF Holding THEN 1 ELSE 0
    BY LinePieces
  <1>2. pushed \in Nat /\ ldata \in Data
    BY DEF OrderInv, TypeInv, TypeOK
  <1>3. Popped \in Nat /\ pushed = Popped + Len(pool)
    BY <1>1, <1>2 DEF OrderInv, QueueInv, Popped
  <1>4. CASE Holding
    <2>1. Popped \in Nat \ {0}
      BY <1>2, <1>3, <1>4 DEF OrderInv, QueueInv, Holding, Data, Frame
    <2>2. Gone = Popped - 1
      BY <1>4 DEF Gone
    <2> QED
      BY <1>1, <1>3, <1>4, <2>1, <2>2 DEF OrderInv, SocketInv, WireFrames
  <1>5. CASE ~Holding
    <2>1. Gone = Popped
      BY <1>5 DEF Gone
    <2> QED
      BY <1>1, <1>3, <1>5, <2>1 DEF OrderInv, SocketInv, WireFrames
  <1> QED
    BY <1>4, <1>5

LEMMA LineIsOrdered == ASSUME OrderInv, vpc = "idle" PROVE FramesInOrder
  <1>0. SUFFICES ASSUME NEW i \in DOMAIN Line, NEW j \in DOMAIN Line, i < j,
                        Line[i] # Text, Line[j] # Text
                 PROVE  Line[i] < Line[j]
    BY DEF FramesInOrder
  <1> DEFINE w == Len(wire)
             h == Len(InHand)
             n == Len(pool)
  <1>1. w \in Nat /\ h \in {0, 1} /\ n \in Nat /\ i \in 1..(w + h + n) /\ j \in 1..(w + h + n)
        /\ Popped \in Nat /\ Gone \in Nat /\ Popped = Gone + h
    BY <1>0, LinePieces, WireIsGone
  <1>2. /\ \A k \in 1..w : Line[k] # Text => Line[k] \in 1..Gone
        /\ \A k \in 1..h : Line[w + k] = Popped
        /\ \A k \in 1..n : Line[w + h + k] = Popped + k
    BY LinePieces, WireIsGone
  <1> HIDE DEF w, h, n
  <1>3. CASE j <= w
    <2>1. i \in 1..Len(wire) /\ j \in 1..Len(wire)
      BY <1>0, <1>1, <1>3 DEF w
    <2> QED
      BY <1>0, <2>1, LinePieces DEF OrderInv, SocketInv
  <1>4. CASE j > w /\ j <= w + h
    <2>1. i <= w /\ Line[j] = Popped
      <3>1. j = w + 1 /\ h = 1
        BY <1>1, <1>4
      <3> QED
        BY <1>0, <1>1, <1>2, <3>1
    <2>2. Line[i] \in 1..Gone /\ h = 1
      BY <1>0, <1>1, <1>2, <1>4, <2>1
    <2> QED
      BY <1>1, <2>1, <2>2
  <1>5. CASE j > w + h
    <2>1. Line[j] = Popped + (j - (w + h)) /\ j - (w + h) \in 1..n
      <3>1. j - (w + h) \in 1..n /\ w + h + (j - (w + h)) = j
        BY <1>1, <1>5
      <3> QED
        BY <1>2, <3>1
    <2>2. CASE i <= w + h
      <3>1. Line[i] \in 1..Popped
        <4>1. CASE i <= w
          <5>1. Line[i] \in 1..Gone
            BY <1>0, <1>1, <1>2, <4>1
          <5> QED
            BY <1>1, <5>1
        <4>2. CASE i > w
          <5>1. i = w + 1 /\ h = 1
            BY <1>1, <2>2, <4>2
          <5>2. Line[i] = Popped
            BY <1>2, <5>1
          <5> QED
            BY <1>1, <5>1, <5>2
        <4> QED
          BY <1>1, <4>1, <4>2
      <3> QED
        BY <1>1, <2>1, <3>1
    <2>3. CASE i > w + h
      <3>1. i - (w + h) \in 1..n /\ w + h + (i - (w + h)) = i
        BY <1>1, <2>3
      <3>2. Line[i] = Popped + (i - (w + h))
        BY <1>2, <3>1
      <3> QED
        BY <1>0, <1>1, <2>1, <3>2
    <2> QED
      BY <1>1, <2>2, <2>3
  <1> QED
    BY <1>1, <1>3, <1>4, <1>5

LEMMA LineIsComplete == ASSUME OrderInv, vpc = "idle" PROVE NoFrameLost
  <1> DEFINE w == Len(wire)
             h == Len(InHand)
             n == Len(pool)
  <1>1. w \in Nat /\ h \in {0, 1} /\ n \in Nat /\ DOMAIN Line = 1..(w + h + n)
        /\ Popped \in Nat /\ Gone \in Nat /\ Popped = Gone + h /\ pushed = Popped + n
    BY LinePieces, WireIsGone
  <1>2. /\ \A k \in 1..w : Line[k] = wire[k].data
        /\ \A k \in 1..h : Line[w + k] = Popped
        /\ \A k \in 1..n : Line[w + h + k] = Popped + k
    BY LinePieces
  <1>3. /\ ({wire[k].data : k \in 1..w} \ {Text}) \cup dropped = 1..Gone
        /\ ({wire[k].data : k \in 1..w} \ {Text}) \cap dropped = {}
        /\ dropped \subseteq Frame
    BY DEF OrderInv, SocketInv, TypeInv, TypeOK, WireFrames
  <1> HIDE DEF w, h, n
  <1>4. ToSet(Line) = {wire[k].data : k \in 1..w} \cup (Gone + 1)..pushed
    <2>1. ASSUME NEW x \in ToSet(Line)
          PROVE  x \in {wire[k].data : k \in 1..w} \cup (Gone + 1)..pushed
      <3>1. PICK k \in 1..(w + h + n) : x = Line[k]
        BY <1>1, <2>1 DEF ToSet
      <3>2. CASE k <= w
        <4>1. k \in 1..w /\ x = wire[k].data
          BY <1>1, <1>2, <3>1, <3>2
        <4> QED
          BY <4>1
      <3>3. CASE k > w /\ k <= w + h
        <4>1. k = w + 1 /\ h = 1
          BY <1>1, <3>3
        <4>2. x = Popped
          BY <1>2, <3>1, <4>1
        <4> QED
          BY <1>1, <4>1, <4>2
      <3>4. CASE k > w + h
        <4>1. k - (w + h) \in 1..n /\ w + h + (k - (w + h)) = k
          BY <1>1, <3>4
        <4>2. x = Popped + (k - (w + h))
          BY <1>2, <3>1, <4>1
        <4> QED
          BY <1>1, <4>1, <4>2
      <3> QED
        BY <1>1, <3>2, <3>3, <3>4
    <2>2. ASSUME NEW x \in {wire[k].data : k \in 1..w} PROVE x \in ToSet(Line)
      <3>1. PICK k \in 1..w : x = wire[k].data
        BY <2>2
      <3>2. k \in DOMAIN Line /\ x = Line[k]
        BY <1>1, <1>2, <3>1
      <3> QED
        BY <3>2 DEF ToSet
    <2>3. ASSUME NEW x \in (Gone + 1)..pushed PROVE x \in ToSet(Line)
      <3>1. CASE x = Popped
        <4>1. h = 1 /\ w + 1 \in DOMAIN Line
          BY <1>1, <3>1
        <4>2. Line[w + 1] = x
          BY <1>2, <3>1, <4>1
        <4> QED
          BY <4>1, <4>2 DEF ToSet
      <3>2. CASE x # Popped
        <4>1. x - Popped \in 1..n /\ w + h + (x - Popped) \in DOMAIN Line
          BY <1>1, <3>2
        <4>2. Line[w + h + (x - Popped)] = Popped + (x - Popped)
          BY <1>2, <4>1
        <4>3. Popped + (x - Popped) = x
          BY <1>1
        <4> QED
          BY <4>1, <4>2, <4>3 DEF ToSet
      <3> QED
        BY <3>1, <3>2
    <2> QED
      BY <2>1, <2>2, <2>3
  <1>5. 1..pushed = 1..Gone \cup (Gone + 1)..pushed /\ Text \notin (Gone + 1)..pushed
    BY <1>1 DEF Text
  <1>6. (Gone + 1)..pushed \cap dropped = {}
    <2>1. dropped \subseteq 1..Gone
      BY <1>3
    <2> QED
      BY <1>1, <2>1
  <1>7. Text \notin dropped
    BY <1>3 DEF Frame, Text
  <1>8. 1..pushed = (ToSet(Line) \ {Text}) \cup dropped
    BY <1>3, <1>4, <1>5
  <1>9. ToSet(Line) \cap dropped = {}
    BY <1>3, <1>4, <1>6, <1>7
  <1> QED
    BY <1>8, <1>9 DEF NoFrameLost

LEMMA OrderAlways == Spec => []OrderInv
  <1>1. Init => OrderInv
    BY OrderInit
  <1>2. OrderInv /\ [Next]_vars => OrderInv'
    BY OrderStep
  <1> QED
    BY <1>1, <1>2, PTL DEF Spec

\* Until a video thread begins to report an error past the queue, the frames
\* go to the socket in the order the decoder pushed them and none goes twice,
\* for any number of frames, of failed writes and of errors ReadCB reports.
THEOREM FramesKeepOrder == Spec => [](vpc = "idle" => FramesInOrder)
  <1>1. OrderInv => (vpc = "idle" => FramesInOrder)
    BY LineIsOrdered
  <1> QED
    BY <1>1, OrderAlways, PTL

\* Until then no frame disappears either: each one pushed was refused by
\* uv_write, or is on the wire, in PrepareCB's hand or queued, and a refused
\* one is nowhere else.
THEOREM FramesAreKept == Spec => [](vpc = "idle" => NoFrameLost)
  <1>1. OrderInv => (vpc = "idle" => NoFrameLost)
    BY LineIsComplete
  <1> QED
    BY <1>1, OrderAlways, PTL

-----------------------------------------------------------------------------
(* The steps of FrameChannel.                                              *)

\* The delete waits for a push that has begun, and finds the loop at rest.
OpenInv ==
    /\ pushing => ~deleted
    /\ deleted => lpc = "idle"

LEMMA OpenStep == ASSUME ClosedInv, OpenInv, [Next]_vars PROVE OpenInv'
  <1> USE DEF OpenInv
  <1>1. CASE SendCheck \/ SendPush \/ Close
    BY <1>1 DEF SendCheck, SendPush, Close, queue, closing, looper
  <1>2. CASE ReadCB_Report
    BY <1>2 DEF ReadCB_Report, queue, closing, ClosedInv
  <1>3. CASE LoopStep
    <2>1. CASE PrepareCB_Pop
      BY <2>1 DEF PrepareCB_Pop, closing, ClosedInv
    <2>2. CASE SetBuf \/ TakeReq \/ Write \/ GiveBack \/ ReadCB_Close
      BY <2>2 DEF SetBuf, TakeReq, Write, GiveBack, ReadCB_Close, queue, closing
    <2>3. CASE closeinl \/ AfterClientClose \/ Delete \/ \E r \in Req : AfterSend(r)
      BY <2>3 DEF closeinl, AfterClientClose, Delete, AfterSend, queue, closing, looper
    <2> QED
      BY <1>3, <2>1, <2>2, <2>3 DEF LoopStep
  <1>4. CASE ReportStep
    BY <1>4
    DEF ReportStep, Report_SetBuf, Report_TakeReq, Report_Write, Report_GiveBack,
        Report_Close, queue, closing, looper
  <1>5. CASE UseDeleted \/ Race \/ Ended \/ UNCHANGED vars
    BY <1>5 DEF UseDeleted, Race, Ended, Crashed, vars, queue, closing, looper
  <1> QED
    BY <1>1, <1>2, <1>3, <1>4, <1>5 DEF Next

ChannelInv == OrderInv /\ ClosedInv /\ OpenInv

Waiting == InHand \o pool

LEMMA WaitingIsTyped ==
    ASSUME OrderInv
    PROVE  /\ InHand \in Seq(Data) /\ pool \in Seq(Data) /\ Waiting \in Seq(Data)
           /\ Len(InHand) \in Nat /\ Len(pool) \in Nat
           /\ Len(InHand) = IF Holding THEN 1 ELSE 0
           /\ Len(Waiting) = Len(InHand) + Len(pool)
           /\ \A i \in 1..(Len(InHand) + Len(pool)) :
                 Waiting[i] = IF i <= Len(InHand) THEN InHand[i] ELSE pool[i - Len(InHand)]
  <1>1. pool \in Seq(Data) /\ ldata \in Data
    BY DEF OrderInv, TypeInv, TypeOK, Data
  <1>2. InHand \in Seq(Data)
    BY <1>1 DEF InHand
  <1> QED
    BY <1>1, <1>2, LinePieces, ConcatProperties DEF Waiting

\* A push is a Put.
LEMMA PushPuts == ASSUME ChannelInv, SendPush PROVE Channel!Put
  <1>1. /\ pool \in Seq(Data) /\ InHand \in Seq(Data) /\ pushed + 1 \in Data
        /\ pushed' = pushed + 1 /\ pool' = Append(pool, pushed + 1)
        /\ UNCHANGED <<wire, deleted, lpc, ldata>> /\ ~deleted /\ pushed < MaxFrame
    BY WaitingIsTyped
    DEF SendPush, ChannelInv, OrderInv, TypeInv, TypeOK, PushFits, Data, Frame, sending,
        closing, looper, OpenInv
  <1>2. InHand' = InHand /\ Sent' = Sent
    BY <1>1 DEF InHand, Sent
  <1>3. InHand \o Append(pool, pushed + 1) = Append(InHand \o pool, pushed + 1)
    <2>1. /\ <<pushed + 1>> \in Seq(Data) /\ InHand \o pool \in Seq(Data)
      BY <1>1, ConcatProperties
    <2>2. Append(pool, pushed + 1) = pool \o <<pushed + 1>>
      BY <1>1, AppendIsConcat
    <2>3. InHand \o (pool \o <<pushed + 1>>) = (InHand \o pool) \o <<pushed + 1>>
      BY <1>1, <2>1, ConcatAssociative
    <2>4. Append(InHand \o pool, pushed + 1) = (InHand \o pool) \o <<pushed + 1>>
      BY <1>1, <2>1, AppendIsConcat
    <2> QED
      BY <2>2, <2>3, <2>4
  <1> QED
    BY <1>1, <1>2, <1>3 DEF Channel!Put

\* A pop moves a frame from the queue to PrepareCB's hand: nothing of the
\* channel changes.
LEMMA PopKeepsWaiting == ASSUME ChannelInv, PrepareCB_Pop PROVE UNCHANGED <<Waiting, Sent, pushed, deleted>>
  <1>1. /\ pool \in Seq(Frame) /\ pool # <<>> /\ lpc = "idle" /\ lpc' = "set"
        /\ ldata' = Head(pool) /\ pool' = Tail(pool)
        /\ UNCHANGED <<pushed, wire, deleted>>
    BY DEF PrepareCB_Pop, ChannelInv, OrderInv, TypeInv, TypeOK, sending, closing
  <1>2. Head(pool) \in Frame /\ Tail(pool) \in Seq(Frame) /\ Len(Tail(pool)) = Len(pool) - 1
        /\ Len(pool) \in Nat \ {0} /\ Head(pool) = pool[1]
        /\ \A i \in 1..Len(Tail(pool)) : Tail(pool)[i] = pool[i + 1]
    BY <1>1, HeadTailProperties, EmptySeq
  <1>3. InHand = <<>> /\ InHand' = <<Head(pool)>>
    BY <1>1, <1>2 DEF InHand, Frame, Text
  <1>4. <<>> \o pool = pool
    BY <1>1, ConcatEmptySeq
  <1>5. <<Head(pool)>> \o Tail(pool) = pool
    <2> DEFINE one  == <<Head(pool)>>
               rest == Tail(pool)
    <2>1. one \in Seq(Frame) /\ Len(one) = 1 /\ one[1] = pool[1]
      BY <1>2
    <2>2. /\ rest \in Seq(Frame) /\ Len(rest) = Len(pool) - 1
          /\ \A i \in 1..Len(rest) : rest[i] = pool[i + 1]
      BY <1>2
    <2> HIDE DEF one, rest
    <2>3. /\ one \o rest \in Seq(Frame) /\ Len(one \o rest) = Len(one) + Len(rest)
          /\ \A i \in 1..(Len(one) + Len(rest)) :
                (one \o rest)[i] = IF i <= Len(one) THEN one[i] ELSE rest[i - Len(one)]
      BY <2>1, <2>2, ConcatProperties
    <2>4. Len(one \o rest) = Len(pool)
      BY <1>2, <2>1, <2>2, <2>3
    <2>5. \A i \in 1..Len(pool) : (one \o rest)[i] = pool[i]
      <3> SUFFICES ASSUME NEW i \in 1..Len(pool) PROVE (one \o rest)[i] = pool[i]
        OBVIOUS
      <3>1. CASE i = 1
        BY <1>2, <2>1, <2>2, <2>3, <3>1
      <3>2. CASE i # 1
        <4>1. i - 1 \in 1..Len(rest) /\ (i - 1) + 1 = i
          BY <1>2, <2>2, <3>2
        <4>2. (one \o rest)[i] = rest[i - 1]
          BY <1>2, <2>1, <2>2, <2>3, <3>2
        <4> QED
          BY <2>2, <4>1, <4>2
      <3> QED
        BY <3>1, <3>2
    <2> QED
      BY <1>1, <2>3, <2>4, <2>5, SeqEqual DEF one, rest
  <1>6. Waiting' = Waiting
    BY <1>1, <1>3, <1>4, <1>5 DEF Waiting
  <1> QED
    BY <1>1, <1>6 DEF Sent

LEMMA HeadOfWaiting ==
    ASSUME ChannelInv, Holding
    PROVE  /\ InHand = <<ldata>> /\ Waiting # <<>>
           /\ Head(Waiting) = ldata /\ Tail(Waiting) = pool
  <1>1. InHand = <<ldata>> /\ ldata \in Data /\ pool \in Seq(Data)
    BY DEF Holding, InHand, ChannelInv, OrderInv, TypeInv, TypeOK, Data
  <1>2. /\ Waiting \in Seq(Data) /\ Len(pool) \in Nat /\ Len(Waiting) = 1 + Len(pool)
        /\ \A i \in 1..(1 + Len(pool)) : Waiting[i] = IF i <= 1 THEN InHand[i] ELSE pool[i - 1]
    BY <1>1, WaitingIsTyped DEF ChannelInv
  <1>3. Waiting # <<>>
    BY <1>2, EmptySeq
  <1>4. Head(Waiting) = Waiting[1] /\ Waiting[1] = ldata
    BY <1>1, <1>2, <1>3
  <1> DEFINE tail == Tail(Waiting)
  <1>5. tail \in Seq(Data) /\ Len(tail) = Len(Waiting) - 1
        /\ \A i \in 1..Len(tail) : tail[i] = Waiting[i + 1]
    BY <1>2, <1>3, HeadTailProperties
  <1> HIDE DEF tail
  <1>6. Len(tail) = Len(pool) /\ \A i \in 1..Len(tail) : tail[i] = pool[i]
    <2>1. Len(tail) = Len(pool)
      BY <1>2, <1>5
    <2>2. ASSUME NEW i \in 1..Len(tail) PROVE tail[i] = pool[i]
      <3>1. i + 1 \in 1..(1 + Len(pool)) /\ ~(i + 1 <= 1) /\ (i + 1) - 1 = i
        BY <1>2, <2>1
      <3> QED
        BY <1>2, <1>5, <3>1
    <2> QED
      BY <2>1, <2>2
  <1>7. tail = pool
    BY <1>1, <1>5, <1>6, SeqEqual
  <1> QED
    BY <1>1, <1>3, <1>4, <1>7 DEF tail

\* What the socket accepts is appended to what was sent.
LEMMA SentGrows ==
    ASSUME wire \in Seq(Item), write_buf \in Data, NEW r \in Req, Accepted(r)
    PROVE  Sent' = Append(Sent, write_buf)
  <1>1. PICK w \in BOOLEAN : wire' = Append(wire, [data |-> write_buf, whole |-> w])
    BY AcceptedIsTyped
  <1>2. [data |-> write_buf, whole |-> w] \in Item
    BY DEF Item
  <1>3. /\ wire' \in Seq(Item) /\ Len(wire) \in Nat /\ Len(wire') = Len(wire) + 1
        /\ \A i \in 1..Len(wire) : wire'[i] = wire[i]
        /\ wire'[Len(wire) + 1].data = write_buf
    BY <1>1, <1>2, AppendProperties, LenProperties
  <1>4. /\ DOMAIN wire = 1..Len(wire) /\ DOMAIN wire' = 1..(Len(wire) + 1)
        /\ \A i \in 1..Len(wire) : wire[i].data \in Data
    <2>1. \A i \in 1..Len(wire) : wire[i] \in Item
      BY ElementOfSeq
    <2> QED
      BY <1>3, <2>1, LenProperties DEF Item
  <1>5. /\ Sent \in Seq(Data) /\ Len(Sent) = Len(wire)
        /\ \A i \in 1..Len(wire) : Sent[i] = wire[i].data
    BY <1>3, <1>4 DEF Sent
  <1>6. \A i \in 1..(Len(wire) + 1) : wire'[i].data \in Data
    BY <1>3, <1>4
  <1>7. /\ Sent' \in Seq(Data) /\ Len(Sent') = Len(wire) + 1
        /\ \A i \in 1..(Len(wire) + 1) : Sent'[i] = wire'[i].data
    BY <1>3, <1>4, <1>6 DEF Sent
  <1>8. /\ Append(Sent, write_buf) \in Seq(Data) /\ Len(Append(Sent, write_buf)) = Len(wire) + 1
        /\ \A i \in 1..Len(wire) : Append(Sent, write_buf)[i] = wire[i].data
        /\ Append(Sent, write_buf)[Len(wire) + 1] = write_buf
    <2>1. /\ Append(Sent, write_buf) \in Seq(Data)
          /\ Len(Append(Sent, write_buf)) = Len(Sent) + 1
          /\ \A i \in 1..Len(Sent) : Append(Sent, write_buf)[i] = Sent[i]
          /\ Append(Sent, write_buf)[Len(Sent) + 1] = write_buf
      BY <1>5, AppendProperties
    <2> QED
      BY <1>5, <2>1
  <1>9. \A i \in 1..Len(Sent') : Sent'[i] = Append(Sent, write_buf)[i]
    BY <1>3, <1>7, <1>8
  <1> QED
    BY <1>7, <1>8, <1>9, SeqEqual

\* A write delivers the frame in hand, drops it, or is an error text.
LEMMA WriteDelivers ==
    ASSUME ChannelInv, Write, vpc = "idle"
    PROVE  \/ Channel!Deliver \/ Channel!Drop \/ Channel!Report
           \/ UNCHANGED <<Waiting, Sent, pushed, deleted>>
  <1>1. /\ lpc = "write" /\ ~deleted /\ lreq \in Req /\ wire \in Seq(Item) /\ write_buf \in Data
        /\ write_buf = ldata /\ pool \in Seq(Data)
        /\ UNCHANGED <<pushed, pool, deleted>>
    BY DEF Write, ChannelInv, OpenInv, OrderInv, TypeInv, TypeOK, ReqInv, Types, InHandInv,
           SocketInv, queue, closing, Data
  <1>2. InHand' = <<>> /\ InHand' \o pool = pool
    BY <1>1, ConcatEmptySeq DEF Write, Written, InHand
  <1>3. CASE Holding
    <2>1. InHand \o pool # <<>> /\ Head(InHand \o pool) = ldata /\ Tail(InHand \o pool) = pool
      BY <1>3, HeadOfWaiting DEF Waiting
    <2>2. CASE Accepted(lreq)
      <3>1. Sent' = Append(Sent, ldata)
        BY <1>1, <2>2, SentGrows
      <3> QED
        BY <1>1, <1>2, <2>1, <3>1 DEF Channel!Deliver
    <2>3. CASE UNCHANGED wire
      BY <1>1, <1>2, <2>1, <2>3 DEF Channel!Drop, Sent
    <2> QED
      BY <2>2, <2>3 DEF Write
  <1>4. CASE ~Holding
    <2>1. ldata = Text /\ InHand = <<>>
      BY <1>1, <1>4 DEF Holding, InHand
    <2>2. CASE Accepted(lreq)
      <3>1. Sent' = Append(Sent, 0)
        BY <1>1, <2>1, <2>2, SentGrows DEF Text
      <3> QED
        BY <1>1, <1>2, <2>1, <3>1 DEF Channel!Report
    <2>3. CASE UNCHANGED wire
      BY <1>1, <1>2, <2>1, <2>3 DEF Sent, Waiting
    <2> QED
      BY <2>2, <2>3 DEF Write
  <1> QED
    BY <1>3, <1>4

\* Every step of the connection is one of the channel's, or leaves it alone.
LEMMA ChannelStep ==
    ASSUME ChannelInv, vpc = "idle", vpc' = "idle", [Next]_vars
    PROVE  [Channel!Next]_(Channel!vars)
  <1>0. SUFFICES \/ Channel!Next \/ UNCHANGED <<Waiting, Sent, pushed, deleted>>
    BY DEF Channel!vars, Waiting
  <1>1. CASE SendPush
    BY <1>1, PushPuts DEF Channel!Next
  <1>2. CASE PrepareCB_Pop
    BY <1>2, PopKeepsWaiting
  <1>3. CASE Write
    BY <1>3, WriteDelivers DEF Channel!Next
  <1>4. CASE Delete
    <2>1. UNCHANGED <<wire, lpc, ldata, pool, pushed>> /\ deleted' = TRUE /\ ~deleted
      BY <1>4 DEF Delete, queue, sending, looper
    <2>2. InHand' = InHand /\ Sent' = Sent
      BY <2>1 DEF InHand, Sent
    <2> QED
      BY <2>1, <2>2 DEF Channel!Next, Channel!Close
  <1>5. CASE SetBuf \/ TakeReq
    <2>1. UNCHANGED <<wire, ldata, pool, pushed, deleted>> /\ lpc \in {"set", "take"}
          /\ lpc' \in {"take", "write"}
      BY <1>5 DEF SetBuf, TakeReq, queue, closing
    <2>2. InHand' = InHand /\ Sent' = Sent
      BY <2>1 DEF InHand, Sent
    <2> QED
      BY <2>1, <2>2 DEF Waiting
  <1>6. CASE GiveBack \/ ReadCB_Close \/ ReadCB_Report
    <2>1. UNCHANGED <<wire, pool, pushed, deleted>>
      BY <1>6 DEF GiveBack, ReadCB_Close, ReadCB_Report, queue, closing, sending
    <2>2. lpc \notin {"set", "take", "write"} /\ (lpc' = "set" => ldata' = Text)
          /\ lpc' \notin {"take", "write"}
      BY <1>6 DEF GiveBack, ReadCB_Close, ReadCB_Report, Written
    <2>3. InHand' = InHand /\ Sent' = Sent
      BY <2>1, <2>2 DEF InHand, Sent
    <2> QED
      BY <2>1, <2>3 DEF Waiting
  <1>7. CASE \/ SendCheck \/ Close \/ closeinl \/ AfterClientClose \/ UseDeleted \/ Race
             \/ Ended \/ (\E r \in Req : AfterSend(r)) \/ UNCHANGED vars
    <2>1. UNCHANGED <<wire, lpc, ldata, pool, pushed, deleted>>
      BY <1>7
      DEF SendCheck, Close, closeinl, AfterClientClose, UseDeleted, Race, Ended, AfterSend,
          Crashed, vars, queue, closing, sending, looper
    <2>2. InHand' = InHand /\ Sent' = Sent
      BY <2>1 DEF InHand, Sent
    <2> QED
      BY <2>1, <2>2 DEF Waiting
  <1>8. ~ReportStep
    BY DEF ReportStep, Report_SetBuf, Report_TakeReq, Report_Write, Report_GiveBack, Report_Close
  <1> QED
    BY <1>1, <1>2, <1>3, <1>4, <1>5, <1>6, <1>7, <1>8 DEF Next, LoopStep

\* Without a video thread that reports errors the connection is a channel of
\* frames: the specification of AcceptClient implements FrameChannel.
THEOREM ImplementsChannel == ASSUME "video" \notin Reporters PROVE Spec => ChannelSpec
  <1> DEFINE Silent == vpc = "idle"
  <1>1. Init => ChannelInv /\ Silent
    BY OrderInit, ReqInit DEF Init, ChannelInv, OpenInv
  <1>2. ChannelInv /\ Silent /\ [Next]_vars => ChannelInv' /\ Silent'
    <2> SUFFICES ASSUME ChannelInv, vpc = "idle", [Next]_vars PROVE ChannelInv' /\ vpc' = "idle"
      OBVIOUS
    <2>1. ChannelInv'
      BY OrderStep, ClosedStep, OpenStep DEF ChannelInv
    <2>2. ~ReportStep
      BY DEF ReportStep, Report_SetBuf, Report_TakeReq, Report_Write, Report_GiveBack, Report_Close
    <2>3. vpc' = "idle"
      BY <2>2
      DEF Next, LoopStep, SendCheck, SendPush, Close, ReadCB_Report, PrepareCB_Pop, SetBuf,
          TakeReq, Write, GiveBack, ReadCB_Close, closeinl, AfterClientClose, Delete,
          AfterSend, UseDeleted, Race, Ended, Crashed, vars, report
    <2> QED
      BY <2>1, <2>3
  <1>3. Init => Channel!Init
    <2> SUFFICES ASSUME Init PROVE Channel!Init
      OBVIOUS
    <2>1. InHand = <<>> /\ pool = <<>> /\ wire = <<>>
      BY DEF Init, InHand
    <2>2. Sent = <<>> /\ InHand \o pool = <<>>
      BY <2>1, ConcatEmptySeq DEF Sent
    <2> QED
      BY <2>2 DEF Init, Channel!Init
  <1>4. ChannelInv /\ Silent /\ Silent' /\ [Next]_vars => [Channel!Next]_(Channel!vars)
    BY ChannelStep
  <1> HIDE DEF Silent
  <1> QED
    BY <1>1, <1>2, <1>3, <1>4, PTL DEF Spec, ChannelSpec, Channel!Spec

=============================================================================
