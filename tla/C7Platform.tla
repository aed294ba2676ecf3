----------------------------- MODULE C7Platform -----------------------------
(***************************************************************************)
(* src/src/C7Platform.cpp: how the main thread fills resourceMap, which    *)
(* the loop thread and the video threads search without a lock, from the   *)
(* moment the server is up.                                                *)
(*                                                                         *)
(* A platform lists peripheral units (PUs), each with resources; a single  *)
(* device is one PU.  What the SDK knows of them does not change while     *)
(* Init runs.  Most results of the calls to it are not looked at: a call   *)
(* that fails leaves the variable as it was.  A text that a client may     *)
(* send is a sequence of characters.  Of a resource, its name and its      *)
(* index are left out: nothing reads them.                                 *)
(***************************************************************************)
EXTENDS Integers, Sequences, FiniteSets

CONSTANTS
    GET_CNT,     \* bound of the code: PUs listed, and resources of one PU
    DeviceKey,   \* "151038402365732956", under which a device is filed
    Content      \* what the SDK may know, PUs with their resources, and
                 \* which of the calls to it may then fail

IsSequence(s) == s \in Seq({s[i] : i \in DOMAIN s})

ASSUME PlatformAssumption ==
    /\ GET_CNT \in Nat \ {0}
    /\ \A c \in Content :
          /\ c.platform \in BOOLEAN /\ IsSequence(c.pus) /\ Len(c.pus) > 0
          /\ \A i \in 1..Len(c.pus) :
                IsSequence(c.pus[i].res) /\ c.pus[i].usable \in BOOLEAN
          /\ c.fails \subseteq {"open", "platform", "list", "puid", "usable", "type",
                               "fork", "device"}

VARIABLES
    content,        \* what the SDK knows, a member of Content
    main,           \* where the main thread is in Init
    nPlatformType,  \* 0 for a platform, 1 for a device
    todo,           \* the PUs listed and not yet looked at
    szPUID,         \* the id read last
    szType,         \* the type of a PU read last
    nUsable,        \* the state read last, of a PU or a resource
    filing,         \* the entry that insert is linking into the map
    resourceMap,    \* PU id to the resources stored
    misread         \* ids of PUs that were not read as they are (history)

locals   == <<nPlatformType, todo, szPUID, szType, nUsable>>
platform == <<content, main, locals, filing, resourceMap, misread>>

\* The bytes of a C7_STR or of memory nobody has written.
Garbage == <<"?">>
StackType(type) == IF type = "?" THEN {"?", "ST", "IV"} ELSE {type}
NoEntry == [key |-> <<>>, res |-> <<>>]

PlatformTypeOK ==
    /\ content \in Content
    /\ main \in {"open", "platform", "list", "device", "create", "next", "filing", "ready", "exited"}
    /\ nPlatformType \in {0, 1}
    /\ Len(todo) <= GET_CNT
    /\ main # "filing" => filing = NoEntry
    /\ Len(filing.res) <= GET_CNT
    /\ \A k \in DOMAIN resourceMap : Len(resourceMap[k]) <= GET_CNT

PlatformInit ==
    /\ content \in Content
    /\ main = "open"
    /\ nPlatformType \in {0, 1}
    /\ todo = <<>>
    /\ szPUID = Garbage /\ szType = "?" /\ nUsable = FALSE
    /\ filing = NoEntry
    /\ resourceMap = <<>>
    /\ misread = {}

-----------------------------------------------------------------------------
\* Mutant: more handles are taken than the array has room for.
Fork_NoCap(list) == list

\* An array of GET_CNT handles is all that is asked for, from offset 0.
Fork(list) == SubSeq(list, 1, IF Len(list) > GET_CNT THEN GET_CNT ELSE Len(list))

\* Mutant: whatever is offline is left out.
Skipped_AnyType(r) == ~r.usable

\* A station (RT_SELF) that is offline is left out, as a PU and as a
\* resource; a camera that is offline is not.
Skipped(r) == ~r.usable /\ r.type = "ST"

\* vtInfo of one PU: what the loop over its resources has pushed, of those
\* resources as they were read.
Stored(list) ==
    LET vtInfo[j \in 0..Len(list)] ==
            IF j = 0 THEN <<>>
            ELSE IF Skipped(list[j]) THEN vtInfo[j - 1]
                 ELSE Append(vtInfo[j - 1], list[j])
    IN  vtInfo[Len(list)]

\* What a variable holds after a call for value whose result is not looked at.
Got(call, value, before) == {value} \cup (IF call \in content.fails THEN before ELSE {})

\* The turns of a loop over list in which a call fails.
Failing(call, list) == IF call \in content.fails THEN SUBSET DOMAIN list ELSE {{}}

\* Where what turn j finds in its variable comes from: its own call, or that
\* of the last turn whose call did not fail, 0 if there is none.
LastRead(failed, j) == CHOOSE i \in (0..j) \ failed : \A k \in (i + 1)..j : k \in failed

\* The ways to read a list of resources.  Their state is read into the same
\* variable as that of the PU, usable; their type into a variable of the
\* loop's body that nothing sets before.
Readings(list, usable) ==
    {[j \in DOMAIN list |->
        LET t == LastRead(ft, j)
            u == LastRead(fu, j)
        IN  [h |-> list[j].h,
             type |-> IF t = 0 THEN type ELSE list[t].type,
             usable |-> IF u = 0 THEN usable ELSE list[u].usable]] :
        ft \in Failing("type", list), fu \in Failing("usable", list), type \in StackType("?")}

\* Mutant: an entry that is there is replaced.
Insert_Replace(map, e) ==
    [k \in DOMAIN map \cup {e.key} |-> IF k = e.key THEN e.res ELSE map[k]]

\* std::map::insert keeps an entry that is there.
Insert(map, e) ==
    [k \in DOMAIN map \cup {e.key} |-> IF k \in DOMAIN map THEN map[k] ELSE e.res]

\* exit(-1) on the main thread.
Exit == main' = "exited"

\* C7_Initialize and C7_Open.
Open ==
    /\ main = "open"
    /\ main' = "platform" \/ ("open" \in content.fails /\ Exit)
    /\ UNCHANGED <<content, locals, filing, resourceMap, misread>>

\* The result of C7_GetPlatformType is not looked at: when it fails,
\* nPlatformType is what the stack held.
GetPlatformType ==
    /\ main = "platform"
    /\ nPlatformType' \in Got("platform", IF content.platform THEN 0 ELSE 1, {nPlatformType})
    /\ main' = IF nPlatformType' = 0 THEN "list" ELSE "device"
    /\ UNCHANGED <<content, todo, szPUID, szType, nUsable, filing, resourceMap, misread>>

ForkPUList ==
    /\ main = "list"
    /\ \/ main' = "next" /\ todo' = Fork(content.pus)
       \/ "list" \in content.fails /\ Exit /\ UNCHANGED todo
    /\ UNCHANGED <<content, nPlatformType, szPUID, szType, nUsable, filing, resourceMap,
                   misread>>

\* The resources of a PU are read, and its entry made.
MakeEntry(key, pu, usable, right) ==
    \E list \in Readings(Fork(pu.res), usable) :
        /\ main' = "filing"
        /\ filing' = [key |-> key, res |-> Stored(list)]
        /\ nUsable' = IF list = <<>> THEN usable ELSE list[Len(list)].usable
        /\ misread' = IF right /\ list = Fork(pu.res) THEN misread
                      ELSE misread \cup {pu.puid}

\* One turn of Init's loop, up to the insert.  The id is read once more for
\* each resource, with the same outcomes.
NextPU ==
    LET pu == Head(todo) IN
    /\ main = "next" /\ todo # <<>>
    /\ todo' = Tail(todo)
    /\ szPUID' \in Got("puid", pu.puid, {szPUID})
    /\ szType' \in Got("type", pu.type, StackType(szType))
    /\ \E usable \in Got("usable", pu.usable, {nUsable}) :
        LET right   == szPUID' = pu.puid /\ szType' = pu.type /\ usable = pu.usable
            skipped == Skipped([type |-> szType', usable |-> usable])
        IN  \/ /\ skipped
               /\ nUsable' = usable
               /\ misread' = IF right THEN misread ELSE misread \cup {pu.puid}
               /\ UNCHANGED <<main, filing>>
            \/ ~skipped /\ MakeEntry(szPUID', pu, usable, right)
            \/ /\ ~skipped /\ "fork" \in content.fails
               /\ Exit
               /\ UNCHANGED <<nUsable, filing, misread>>
    /\ UNCHANGED <<content, nPlatformType, resourceMap>>

\* A device: a call that fails leaves the map empty.
ForkOnePU ==
    /\ main = "device"
    /\ \/ main' = "create" /\ UNCHANGED misread
       \/ "device" \in content.fails /\ main' = "next"
          /\ misread' = misread \cup {content.pus[1].puid}
    /\ UNCHANGED <<content, locals, filing, resourceMap>>

\* ... and so does one that is not a station, is offline or seems to be: the
\* state is the one call whose result is not looked at.  The id it is filed
\* under is a literal of the code.
CreateResource ==
    LET pu == content.pus[1] IN
    /\ main = "create"
    /\ \/ \E usable \in Got("usable", pu.usable, {FALSE}) :
            \/ /\ pu.type = "ST" /\ usable
               /\ MakeEntry(DeviceKey, pu, usable, usable = pu.usable)
            \/ /\ pu.type # "ST" \/ ~usable
               /\ main' = "next"
               /\ misread' = IF usable = pu.usable THEN misread ELSE misread \cup {pu.puid}
               /\ UNCHANGED <<nUsable, filing>>
       \/ /\ content.fails \cap {"type", "fork"} # {}
          /\ main' = "next"
          /\ misread' = misread \cup {pu.puid}
          /\ UNCHANGED <<nUsable, filing>>
    /\ UNCHANGED <<content, nPlatformType, todo, szPUID, szType, resourceMap>>

FileEntry ==
    /\ main = "filing"
    /\ resourceMap' = Insert(resourceMap, filing)
    /\ filing' = NoEntry
    /\ main' = "next"
    /\ UNCHANGED <<content, locals, misread>>

\* The variables of Init are gone.
InitReturns ==
    /\ main = "next" /\ todo = <<>>
    /\ main' = "ready"
    /\ szPUID' = Garbage /\ szType' = "?" /\ nUsable' = FALSE
    /\ UNCHANGED <<content, nPlatformType, todo, filing, resourceMap, misread>>

PlatformNext ==
    \/ Open \/ GetPlatformType \/ ForkPUList \/ NextPU \/ ForkOnePU
    \/ CreateResource \/ FileEntry \/ InitReturns

-----------------------------------------------------------------------------
\* A new node is being linked in and the tree rebalanced.
Rebalancing == main = "filing" /\ filing.key \notin DOMAIN resourceMap

\* What find may answer another thread: the entry, or nothing (<<>>), which
\* during a rebalancing may also be the answer for a key that is there.
Lookup(key) ==
    {resourceMap[k] : k \in DOMAIN resourceMap \cap {key}}
        \cup (IF key \notin DOMAIN resourceMap \/ Rebalancing THEN {<<>>} ELSE {})

\* The reference the map is compared with, by what the SDK knows.  Of the
\* PUs that are listed, those whose resources a client may name, and by which
\* id; a device has resources only if it is a station.
Listed == IF nPlatformType = 0 THEN Fork(content.pus) ELSE <<content.pus[1]>>
Has(i) ==
    LET pu == Listed[i]
    IN  IF nPlatformType = 0 THEN pu.usable \/ pu.type # "ST" ELSE pu.usable /\ pu.type = "ST"
Key(i) == IF nPlatformType = 0 THEN Listed[i].puid ELSE DeviceKey

\* The k-th resource in use is the one with k of them up to it.
InUse(list) ==
    LET used == {j \in 1..Len(list) : list[j].usable \/ list[j].type # "ST"}
    IN  [k \in 1..Cardinality(used) |->
            list[CHOOSE j \in used : Cardinality({i \in used : i <= j}) = k]]

\* The resources an id stands for: those of the first PU that has it.
Nameable(key) ==
    LET named == {i \in 1..Len(Listed) : Has(i) /\ Key(i) = key}
        first == CHOOSE i \in named : \A j \in named : i <= j
    IN  IF named = {} THEN <<>> ELSE InUse(Fork(Listed[first].res))

\* PU i and its resources were read as they are, and its id is that of no
\* other PU nor what memory held before.
OwnId(i) ==
    /\ Listed[i].puid \notin misread \cup {Garbage}
    /\ \A j \in 1..Len(Listed) : Listed[j].puid = Listed[i].puid => j = i

\* Once Init has returned, every PU it listed that is online is in the map
\* with its own resources in the platform's order.  A PU of which a call
\* failed may be lost, kept though it is offline or filed with wrong
\* resources or under another's id, but harms no other PU.
AllFiled ==
    main = "ready" =>
        \A i \in 1..Len(Listed) :
            Has(i) /\ OwnId(i) =>
                Key(i) \in DOMAIN resourceMap /\ resourceMap[Key(i)] = Nameable(Key(i))
=============================================================================
