---------------------------- MODULE ReceiveBuffer ----------------------------
(***************************************************************************)
(* How what a client sends becomes the string ReadCB works with            *)
(* (AcceptClient::AfterRecv in src/src/common/TcpServer.cpp and the head   *)
(* of ReadCB in src/src/VideoService.cpp).  TCP keeps the order of bytes   *)
(* and not the borders of messages; a read is copied over the start of     *)
(* read_buffer, which is cleared once, in the constructor; the string ends *)
(* at the first NUL; strtok then writes NULs into the buffer.              *)
(*                                                                         *)
(* Characters are one-letter strings, Nul is the NUL byte.                 *)
(***************************************************************************)
EXTENDS Integers, Sequences, FiniteSets

CONSTANTS
    BufSize,      \* size of read_buf and read_buffer, 100 in the code
    Message,      \* what clients send, which may hold NULs
    MaxMessages   \* bound: messages of the connection

Nul     == "NUL"
Foreign == "?"     \* a byte from beyond the buffer
\* The characters of messages.
Char    == UNION {{m[i] : i \in 1..Len(m)} : m \in Message}

ASSUME BufferAssumption ==
    /\ BufSize \in Nat \ {0} /\ MaxMessages \in Nat
    /\ Message \subseteq Seq(Char)
    /\ Foreign \notin Char

VARIABLES
    sent,         \* messages the client has sent
    wire,         \* bytes of them not read yet
    read_buffer,  \* AcceptClient::read_buffer
    reads,        \* what each read delivered (history)
    strings       \* the string ReadCB made of it, tmp (history)

buffer == <<sent, wire, read_buffer, reads, strings>>

BufferTypeOK ==
    /\ sent \in Seq(Message) /\ Len(sent) <= MaxMessages
    /\ DOMAIN read_buffer = 1..BufSize
    /\ Len(reads) = Len(strings)
    /\ \A i \in 1..Len(reads) : Len(reads[i]) \in 1..BufSize

\* Mutant: no memset in the constructor.
BufferInit_NotCleared ==
    /\ sent = <<>> /\ wire = <<>> /\ reads = <<>> /\ strings = <<>>
    /\ read_buffer = [i \in 1..BufSize |-> Foreign]

BufferInit ==
    /\ sent = <<>> /\ wire = <<>> /\ reads = <<>> /\ strings = <<>>
    /\ read_buffer = [i \in 1..BufSize |-> Nul]

-----------------------------------------------------------------------------
\* Mutant: one byte less is copied.
Overwrite_OneLess(bytes) ==
    [i \in 1..BufSize |-> IF i < Len(bytes) THEN bytes[i] ELSE read_buffer[i]]

\* memcpy of one read over the start of read_buffer.
Overwrite(bytes) ==
    [i \in 1..BufSize |-> IF i <= Len(bytes) THEN bytes[i] ELSE read_buffer[i]]

\* The strings that start at b: up to the first NUL, or, if b is full, on
\* into the member that follows it in the object.
CString(b) ==
    IF \E i \in 1..BufSize : b[i] = Nul
    THEN {SubSeq(b, 1, (CHOOSE i \in 1..BufSize :
                            b[i] = Nul /\ \A j \in 1..(i - 1) : b[j] # Nul) - 1)}
    ELSE {b, Append(b, Foreign)}

\* The words strtok finds, as intervals: runs without a comma.
Words(s) ==
    {w \in (1..Len(s)) \X (1..Len(s)) :
        /\ w[1] <= w[2]
        /\ \A i \in w[1]..w[2] : s[i] # ","
        /\ w[1] = 1 \/ s[w[1] - 1] = ","
        /\ w[2] = Len(s) \/ s[w[2] + 1] = ","}

Rank(s, w) == Cardinality({v \in Words(s) : v[1] <= w[1]})

\* The n-th word, <<>> for the NULL pointer.
Word(s, n) ==
    IF Cardinality(Words(s)) < n THEN <<>>
    ELSE LET w == CHOOSE v \in Words(s) : Rank(s, v) = n
         IN  SubSeq(s, w[1], w[2])

\* What the three calls of strtok leave of the buffer: each ends its word
\* with a NUL in place of the comma behind it.
Strtok(b, s) ==
    LET cut == {w[2] + 1 : w \in {v \in Words(s) : Rank(s, v) <= 3}}
    IN  [i \in 1..BufSize |-> IF i \in cut THEN Nul ELSE b[i]]

\* atoi of a word of digits, with an optional sign.
Digit == [c \in {"0", "1", "2", "3"} |->
            CASE c = "0" -> 0 [] c = "1" -> 1 [] c = "2" -> 2 [] c = "3" -> 3]
Atoi(w) ==
    LET neg   == w # <<>> /\ w[1] = "-"
        first == IF neg THEN 2 ELSE 1
        last  == CHOOSE n \in (first - 1)..Len(w) :
                    /\ \A i \in first..n : w[i] \in DOMAIN Digit
                    /\ n = Len(w) \/ w[n + 1] \notin DOMAIN Digit
        val[n \in (first - 1)..last] ==
            IF n < first THEN 0 ELSE 10 * val[n - 1] + Digit[w[n]]
    IN  IF neg THEN -val[last] ELSE val[last]

-----------------------------------------------------------------------------
\* The client writes a message; the stream has no borders.
ClientSends(m) ==
    /\ Len(sent) < MaxMessages
    /\ sent' = Append(sent, m)
    /\ wire' = wire \o m
    /\ UNCHANGED <<read_buffer, reads, strings>>

\* A read of n bytes reaches ReadCB as the string s.
Receive(n, s) ==
    LET bytes == SubSeq(wire, 1, n)
        full  == Overwrite(bytes)
    IN  /\ n <= BufSize /\ n <= Len(wire)
        /\ wire' = SubSeq(wire, n + 1, Len(wire))
        /\ s \in CString(full)
        /\ read_buffer' = Strtok(full, s)
        /\ reads' = Append(reads, bytes)
        /\ strings' = Append(strings, s)
        /\ UNCHANGED sent

-----------------------------------------------------------------------------
\* The text that bytes stand for: those before the first NUL, if there is one.
Text(bytes) ==
    IF \E i \in 1..Len(bytes) : bytes[i] = Nul
    THEN SubSeq(bytes, 1, (CHOOSE i \in 1..Len(bytes) :
                              bytes[i] = Nul /\ \A j \in 1..(i - 1) : bytes[j] # Nul) - 1)
    ELSE bytes

\* The string is the text of what was just read.  Only when the read brought
\* no NUL of its own may it be another: an earlier read was longer and left
\* its tail behind, or the buffer has been full and has no end.
StringAsRead ==
    \A i \in 1..Len(reads) :
        \/ strings[i] = Text(reads[i])
        \/ /\ \A p \in 1..Len(reads[i]) : reads[i][p] # Nul
           /\ \E j \in 1..i : Len(reads[j]) > Len(reads[i]) \/ Len(reads[j]) = BufSize

\* No string has a byte the client did not send before a read has filled
\* the whole buffer.
OwnBytes ==
    \A i \in 1..Len(strings) : \A p \in 1..Len(strings[i]) :
        strings[i][p] = Foreign => \E j \in 1..i : Len(reads[j]) = BufSize
=============================================================================
