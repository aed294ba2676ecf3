----------------------------- MODULE RequestPath -----------------------------
(***************************************************************************)
(* From the bytes a client sends to the stream that is opened for them:    *)
(* ReceiveBuffer on the loop thread, ReadCB and SearchVideo there, GetIV   *)
(* on the video threads, and C7Platform's Init on the main thread, all     *)
(* running at the same time.                                               *)
(*                                                                         *)
(* One connection, whose object outlives its video threads; what happens   *)
(* when it does not is in VideoService.                                    *)
(***************************************************************************)
EXTENDS ReceiveBuffer, C7Platform

CONSTANTS
    MaxReads,  \* bound: reads of the connection, and so video threads
    NoRes      \* no stream

VARIABLES
    loop,        \* the loop thread: between callbacks, or in SearchVideo
    reading,     \* libuv reads from the connection
    asked,       \* AcceptClient::isuseraskforclosed
    told,        \* SearchVideo's refusal was sent
    registered,  \* strings in puid_client_map
    client,      \* AcceptClient::resource_puid, resource_index, f_clip_limit
    vpc,         \* each video thread in GetIV; thread i is that of string i
    selectInfo,  \* its copy of the PU's resources
    opened,      \* the resource it has a stream of
    fault        \* why the process ended, if it did

connection == <<loop, reading, asked, told, registered, client>>
thread     == <<vpc, selectInfo, opened>>
vars       == <<buffer, platform, connection, thread, fault>>

Thread == 1..MaxReads

ConnectionTypeOK ==
    /\ loop \in {"idle", "search"}
    /\ reading \in BOOLEAN /\ asked \in BOOLEAN /\ told \in BOOLEAN
    /\ registered \subseteq {strings[i] : i \in 1..Len(strings)}
    /\ client.index \in Int
    /\ vpc \in [Thread -> {"unused", "find", "start", "done"}]
    /\ \A t \in Thread : vpc[t] # "unused" => t <= Len(strings)
    /\ \A t \in Thread : vpc[t] # "done" => opened[t] = NoRes
    /\ fault \in {"none", "null", "resource", "race"}

TypeOK == BufferTypeOK /\ PlatformTypeOK /\ ConnectionTypeOK

Init ==
    /\ BufferInit /\ PlatformInit
    /\ loop = "idle"
    /\ reading = TRUE /\ asked = FALSE /\ told = FALSE
    /\ registered = {}
    /\ client = [puid |-> <<>>, index |-> 0, clip |-> <<>>]
    /\ vpc = [t \in Thread |-> "unused"]
    /\ selectInfo = [t \in Thread |-> <<>>]
    /\ opened = [t \in Thread |-> NoRes]
    /\ fault = "none"

Running == fault = "none" /\ main # "exited"

-----------------------------------------------------------------------------
InRange(res, i) == i \in 0..(Len(res) - 1)

\* Mutant: the bound is not looked at, nor is what lies beyond it.
Found_NoBound(res, i) == InRange(res, i) => res[i + 1].type = "IV"

\* Mutant: the index is compared as if it began at 1.
Found_OneBased(res, i) == 0 < i /\ i < Len(res) /\ res[i + 1].type = "IV"

\* SearchVideo's condition.  The index is compared with size() as an unsigned
\* number, so that a negative one is out of range.
Found(res, i) == InRange(res, i) /\ res[i + 1].type = "IV"

\* The fields a request sets: without a second word the index is 0, without
\* a third one (clip <<>>) the limit is 3.5.
Request(s) ==
    [puid |-> Word(s, 1),
     index |-> IF Word(s, 2) = <<>> THEN 0 ELSE Atoi(Word(s, 2)),
     clip |-> Word(s, 3)]

\* AfterRecv with data, and ReadCB up to SearchVideo.  A string of commas, or
\* an empty one, has no first word, and an std::string is made of a NULL
\* pointer.
ReadCB ==
    /\ loop = "idle" /\ reading /\ Len(reads) < MaxReads
    /\ \E n \in 1..Len(wire) : \E s \in CString(Overwrite(SubSeq(wire, 1, n))) :
        /\ Receive(n, s)
        /\ \/ s \in registered
              /\ UNCHANGED <<loop, registered, client, fault>>
           \/ s \notin registered /\ Words(s) # {}
              /\ registered' = registered \cup {s}
              /\ client' = Request(s)
              /\ loop' = "search"
              /\ UNCHANGED fault
           \/ s \notin registered /\ Words(s) = {}
              /\ fault' = "null"
              /\ UNCHANGED <<loop, registered, client>>
    /\ UNCHANGED <<platform, reading, asked, told, thread>>

\* SearchVideo, and the thread or the refusal.
SearchVideo ==
    /\ loop = "search"
    /\ loop' = "idle"
    /\ \E res \in Lookup(client.puid) :
        \/ /\ Found(res, client.index)
           /\ vpc' = [vpc EXCEPT ![Len(strings)] = "find"]
           /\ UNCHANGED <<asked, told>>
        \/ /\ ~Found(res, client.index)
           /\ asked' = TRUE /\ told' = TRUE
           /\ UNCHANGED vpc
    /\ UNCHANGED <<buffer, platform, reading, registered, client, selectInfo, opened,
                   fault>>

\* The end of the stream, or an error.
AfterRecvError ==
    /\ loop = "idle" /\ reading
    /\ reading' = FALSE /\ asked' = TRUE
    /\ UNCHANGED <<buffer, platform, loop, told, registered, client, thread, fault>>

\* closeinl stops the reads.
PrepareCB ==
    /\ loop = "idle" /\ reading /\ asked
    /\ reading' = FALSE
    /\ UNCHANGED <<buffer, platform, loop, asked, told, registered, client, thread, fault>>

-----------------------------------------------------------------------------
\* GetIV looks up again, by what the client object holds by now; end() is
\* dereferenced without a check, and an empty vector has no element.
GetIV_Find(t) ==
    /\ vpc[t] = "find"
    /\ \E res \in Lookup(client.puid) :
        \/ /\ res # <<>>
           /\ selectInfo' = [selectInfo EXCEPT ![t] = res]
           /\ vpc' = [vpc EXCEPT ![t] = "start"]
           /\ UNCHANGED fault
        \/ /\ res = <<>>
           /\ fault' = "resource"
           /\ UNCHANGED <<selectInfo, vpc>>
    /\ UNCHANGED <<buffer, platform, connection, opened>>

\* C7_StartStream, on an element of the copy that is not checked either: one
\* beyond its end may end the process or be a handle the SDK refuses.
GetIV_StartStream(t) ==
    LET i == client.index IN
    /\ vpc[t] = "start"
    /\ \/ /\ InRange(selectInfo[t], i)
          /\ opened' = [opened EXCEPT ![t] = selectInfo[t][i + 1]]
          /\ vpc' = [vpc EXCEPT ![t] = "done"]
          /\ UNCHANGED fault
       \/ /\ vpc' = [vpc EXCEPT ![t] = "done"]
          /\ UNCHANGED <<opened, fault>>
       \/ /\ ~InRange(selectInfo[t], i)
          /\ fault' = "resource"
          /\ UNCHANGED <<opened, vpc>>
    /\ UNCHANGED <<buffer, platform, connection, selectInfo>>

\* A find walks the tree while a node is linked in.
MapRace ==
    /\ Rebalancing
    /\ loop = "search" \/ \E t \in Thread : vpc[t] = "find"
    /\ fault' = "race"
    /\ UNCHANGED <<buffer, platform, connection, thread>>

-----------------------------------------------------------------------------
\* The main thread, in Init.
MainStep ==
    /\ PlatformNext
    /\ UNCHANGED <<buffer, connection, thread, fault>>

ClientStep ==
    /\ reading
    /\ \E m \in Message : ClientSends(m)
    /\ UNCHANGED <<platform, connection, thread, fault>>

\* The process is gone, or the connection is closed and nothing is under way.
Quiet ==
    /\ \/ ~Running
       \/ /\ main = "ready" /\ loop = "idle" /\ ~reading
          /\ \A t \in Thread : vpc[t] \in {"unused", "done"}
    /\ UNCHANGED vars

Next ==
    \/ /\ Running
       /\ \/ MainStep \/ ClientStep
          \/ ReadCB \/ SearchVideo \/ AfterRecvError \/ PrepareCB \/ MapRace
          \/ \E t \in Thread : GetIV_Find(t) \/ GetIV_StartStream(t)
    \/ Quiet

Spec == Init /\ [][Next]_vars

-----------------------------------------------------------------------------
\* The resource that an id and an index stand for, by what the SDK knows.
Named(r) ==
    LET res == Nameable(r.puid)
    IN  IF InRange(res, r.index) /\ res[r.index + 1].type = "IV"
        THEN res[r.index + 1] ELSE NoRes

\* The comment at ReadCB: a string stands for which video of which id.  When a
\* client's one message arrives in one read, in spite of the platform being
\* filled meanwhile and searched twice without a lock, the stream opened for
\* it is the one the message names.
AskedIsOpened ==
    /\ Len(reads) = 1 /\ reads[1] = sent[1] /\ Len(reads[1]) < BufSize
    /\ misread = {}
    => \A t \in Thread : opened[t] # NoRes => opened[t] = Named(Request(Text(sent[1])))

\* A client is refused a video that the platform has only while Init is
\* still filling the map.
OnlyUnknownRefused ==
    [][told' /\ ~told /\ misread = {} =>
          main # "ready" \/ Named(client) = NoRes]_vars

\* GetIV's unchecked lookup fails only if the connection sent a second string
\* after SearchVideo had found the first, or while the map is being changed.
LookupFault == fault = "resource" => Len(strings) >= 2 \/ Rebalancing
=============================================================================
