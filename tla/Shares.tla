------------------------------- MODULE Shares -------------------------------
(***************************************************************************)
(* What is shared, and under which names: the resource store of the        *)
(* servers, which hashes a file once and serves it later by its path, and  *)
(* the client, which keeps aliases and cached metadata by resource id and  *)
(* saves a download under the name it was last told.  Users edit files at  *)
(* any time, a read may fail while a file is hashed, daemons restart.  A   *)
(* connection carries messages in order until it ends (MessageChannel,     *)
(* Transfers); a chunk is a block of a file.  Hashes do not collide: the   *)
(* id of a resource is the content that was hashed.                        *)
(***************************************************************************)
EXTENDS Naturals, Sequences, FiniteSets, Functions

CONSTANTS
    Servers,    \* the peers that share files
    Paths,      \* where files may be, the same on every server
    SharedDir,  \* the paths in the shared directory, scanned at start
    NameOf,     \* NameOf[p]: the file name of path p
    Contents,   \* what files may hold: sequences of blocks, and their prefixes
    NoFile,     \* nothing at a path
    Disks,      \* what the servers' files may be at first
    MaxChanges, \* how often a user changes or adds files or a daemon restarts
    MaxAsks     \* how many commands the client is given

ASSUME PathsAssumption ==
    SharedDir \subseteq Paths /\ DOMAIN NameOf = Paths /\ NoFile \notin Contents
\* What a chunk may carry.
Blocks == UNION {Range(c) : c \in Contents}

ASSUME ContentsAssumption ==
    /\ IsFiniteSet(Contents) /\ Contents \subseteq Seq(Blocks)
    /\ \A c \in Contents : \A n \in 0..Len(c) : SubSeq(c, 1, n) \in Contents
ASSUME DisksAssumption == Disks \subseteq [Servers -> [Paths -> Contents \cup {NoFile}]]
ASSUME BoundsAssumption == MaxChanges \in Nat /\ MaxAsks \in Nat

VARIABLES
    disk,       \* disk[s][p]: the content of the file at p, or NoFile
    index,      \* index[s]: resource id -> path, the store of server s
    uploads,    \* uploads[s]: resource id -> path and blocks sent
    asked,      \* asked[s]: requests under way to s
    answers,    \* answers[s]: messages under way from s
    aliases,    \* resource_aliases: alias number -> resource id
    aliasOf,    \* resource_id_to_alias
    info,       \* resource_info: resource id -> name
    downloads,  \* resource id -> the name to save it under and the server
    temp,       \* temporary file -> blocks written
    saved,      \* file name -> what the last completed download left there
    heard,      \* history: heard[s]: the ids s has listed
    unsteady,   \* history: servers whose files changed, were hashed in part, or
                \* whose connection ended
    changes, asks  \* counters behind MaxChanges and MaxAsks

serverVars == <<disk, index, uploads>>
clientVars == <<aliases, aliasOf, info, downloads, temp, saved, heard>>
vars == <<serverVars, asked, answers, clientVars, unsteady, changes, asks>>

Ids == Contents
Names == {NameOf[p] : p \in Paths}

\* HashMap::insert and HashMap::remove.
Put(map, k, v) == [x \in DOMAIN map \cup {k} |-> IF x = k THEN v ELSE map[x]]
Drop(map, k) == [x \in DOMAIN map \ {k} |-> map[x]]
Empty == [x \in {} |-> 0]

\* The stores that hold the files at some paths, of two with one content the one
\* that was hashed last.
Stores(files, paths) ==
    LET found == {p \in paths : files[p] # NoFile} IN
    {kept \in [{files[p] : p \in found} -> found] :
        \A id \in DOMAIN kept : files[kept[id]] = id}

\* Every file has been shared: found at start, or added.
Init ==
    /\ disk \in Disks
    /\ index \in [Servers -> UNION {Stores(disk[s], Paths) : s \in Servers}]
    /\ \A s \in Servers : index[s] \in Stores(disk[s], Paths)
    /\ uploads = [s \in Servers |-> Empty]
    /\ asked = [s \in Servers |-> <<>>] /\ answers = [s \in Servers |-> <<>>]
    /\ aliases = <<>> /\ aliasOf = Empty /\ info = Empty
    /\ downloads = Empty /\ temp = Empty /\ saved = Empty
    /\ heard = [s \in Servers |-> {}] /\ unsteady = {}
    /\ changes = 0 /\ asks = 0

-----------------------------------------------------------------------------
(* The servers' files and stores.                                          *)

Changes(s) ==
    /\ changes < MaxChanges
    /\ changes' = changes + 1
    /\ unsteady' = unsteady \cup {s}

\* A user writes or deletes a file.  The index is not told.  An upload reads the
\* file as it is by then, but is not disturbed by a deletion.
Edit(s, p) ==
    /\ Changes(s)
    /\ \E c \in Contents \cup {NoFile} :
          /\ c = NoFile => \A id \in DOMAIN uploads[s] : uploads[s][id].path # p
          /\ disk' = [disk EXCEPT ![s][p] = c]
    /\ UNCHANGED <<index, uploads, asked, answers, clientVars, asks>>

\* hash_file: a read error ends the hash as the end of the file does.
Hashed(c) == {SubSeq(c, 1, n) : n \in 0..Len(c)}

\* `parsip add`: whatever was hashed is indexed; the entries that an earlier
\* content of the file left stay.
AddResource(s, p) ==
    /\ changes < MaxChanges
    /\ changes' = changes + 1
    /\ disk[s][p] # NoFile
    /\ \E id \in Hashed(disk[s][p]) :
          /\ index' = [index EXCEPT ![s] = Put(@, id, p)]
          /\ unsteady' = IF id = disk[s][p] THEN unsteady ELSE unsteady \cup {s}
    /\ UNCHANGED <<disk, uploads, asked, answers, clientVars, asks>>

\* The connection to s ends: what is under way on it is gone, its uploads stop,
\* and the client cancels its downloads from s (cancel_download).
Disconnected(s) ==
    LET mine == {id \in DOMAIN downloads : downloads[id].from = s} IN
    /\ asked' = [asked EXCEPT ![s] = <<>>]
    /\ answers' = [answers EXCEPT ![s] = <<>>]
    /\ uploads' = [uploads EXCEPT ![s] = Empty]
    /\ downloads' = [id \in DOMAIN downloads \ mine |-> downloads[id]]
    /\ temp' = [t \in DOMAIN temp \ mine |-> temp[t]]
    /\ UNCHANGED <<aliases, aliasOf, info, saved, heard>>

\* The daemon of s is stopped and started again, and the peers reconnect.  The
\* shared directory is scanned; what was added from elsewhere is not remembered.
Restart(s) ==
    /\ Changes(s)
    /\ Disconnected(s)
    /\ \E kept \in Stores(disk[s], SharedDir) : index' = [index EXCEPT ![s] = kept]
    /\ UNCHANGED <<disk, asks>>

-----------------------------------------------------------------------------
(* Serving.                                                                *)

NextRequest(s) == asked' = [asked EXCEPT ![s] = Tail(@)]
Reply(s, m) == answers' = [answers EXCEPT ![s] = Append(@, m)]

\* Message::ListResources.
ServeList(s) ==
    /\ asked[s] # <<>> /\ Head(asked[s]).type = "List"
    /\ NextRequest(s)
    /\ Reply(s, [type |-> "Resources",
                 names |-> [id \in DOMAIN index[s] |-> NameOf[index[s][id]]]])
    /\ UNCHANGED <<serverVars, clientVars, unsteady, changes, asks>>

HasFile(s, id) == id \in DOMAIN index[s] /\ disk[s][index[s][id]] # NoFile

\* Message::DownloadResource: the file is opened by its path; without an entry
\* or a file nothing is sent.
ServeGet(s) ==
    /\ asked[s] # <<>> /\ Head(asked[s]).type = "Get"
    /\ NextRequest(s)
    /\ LET id == Head(asked[s]).id IN
       uploads' = IF HasFile(s, id)
                  THEN [uploads EXCEPT ![s] = Put(@, id, [path |-> index[s][id], sent |-> 0])]
                  ELSE uploads
    /\ UNCHANGED <<disk, index, answers, clientVars, unsteady, changes, asks>>

\* The upload thread: the next block of the file as it is now, or the end.
UploadChunk(s, id) ==
    /\ id \in DOMAIN uploads[s]
    /\ LET n == uploads[s][id].sent + 1
           file == disk[s][uploads[s][id].path]
       IN  /\ n <= Len(file)
           /\ Reply(s, [type |-> "Chunk", id |-> id, offset |-> n - 1, data |-> file[n]])
           /\ uploads' = [uploads EXCEPT ![s][id].sent = n]
    /\ UNCHANGED <<disk, index, asked, clientVars, unsteady, changes, asks>>

\* Bug variant: the end is sent with the last block, so not for an empty file.
UploadEndNonEmpty(s, id) ==
    /\ id \in DOMAIN uploads[s]
    /\ uploads[s][id].sent > 0
    /\ uploads[s][id].sent >= Len(disk[s][uploads[s][id].path])
    /\ Reply(s, [type |-> "End", id |-> id])
    /\ uploads' = [uploads EXCEPT ![s] = Drop(@, id)]
    /\ UNCHANGED <<disk, index, asked, clientVars, unsteady, changes, asks>>

UploadEnd(s, id) ==
    /\ id \in DOMAIN uploads[s]
    /\ uploads[s][id].sent >= Len(disk[s][uploads[s][id].path])
    /\ Reply(s, [type |-> "End", id |-> id])
    /\ uploads' = [uploads EXCEPT ![s] = Drop(@, id)]
    /\ UNCHANGED <<disk, index, asked, clientVars, unsteady, changes, asks>>

-----------------------------------------------------------------------------
(* The client's commands.                                                  *)

Ask ==
    /\ asks < MaxAsks
    /\ asks' = asks + 1

AskList(s) ==
    /\ Ask
    /\ asked' = [asked EXCEPT ![s] = Append(@, [type |-> "List"])]
    /\ UNCHANGED <<serverVars, answers, clientVars, unsteady, changes>>

\* New resources get the next numbers of next_resource_id, in some order.
GiveAliases(new) ==
    LET next == Len(aliases)
        last == next + Cardinality(new)
    IN  \E number \in Bijection(new, (next + 1)..last) :
          /\ aliasOf' = [id \in DOMAIN aliasOf \cup new |->
                           IF id \in new THEN number[id] ELSE aliasOf[id]]
          /\ aliases' = [n \in 1..last |->
                           IF n <= next THEN aliases[n]
                           ELSE CHOOSE id \in new : number[id] = n]

\* Bug variant: without the reverse lookup.
AddAliasesAgain(ids) == GiveAliases(ids)

\* add_resource of the registry, for several resources in turn: a known one keeps
\* its alias.
AddAliases(ids) == GiveAliases(ids \ DOMAIN aliasOf)

\* `parsip add` at the client: the resource gets an alias and no metadata.
AskAdd(id) ==
    /\ Ask
    /\ AddAliases({id})
    /\ UNCHANGED <<serverVars, asked, answers, info, downloads, temp, saved, heard,
                   unsteady, changes>>

\* Bug variant: the temporary file is named after the resource.
TempNamed(id) == info[id]

\* The temporary file of a download.
Temp(id) == id

\* `parsip get`: the alias must be known, its metadata cached, and no download of
\* the resource under way, from whichever server.  Refused, it changes nothing.
AskGet(s, a) ==
    /\ Ask
    /\ a \in DOMAIN aliases
    /\ LET id == aliases[a] IN
       /\ id \in DOMAIN info
       /\ id \notin DOMAIN downloads
       /\ downloads' = Put(downloads, id, [name |-> info[id], from |-> s])
       /\ temp' = Put(temp, Temp(id), <<>>)
       /\ asked' = [asked EXCEPT ![s] = Append(@, [type |-> "Get", id |-> id])]
    /\ UNCHANGED <<serverVars, answers, aliases, aliasOf, info, saved, heard,
                   unsteady, changes>>

-----------------------------------------------------------------------------
(* The client's handlers.                                                  *)

NextAnswer(s, type) ==
    /\ answers[s] # <<>> /\ Head(answers[s]).type = type
    /\ answers' = [answers EXCEPT ![s] = Tail(@)]

\* Bug variant: metadata is cached with a new alias only.
CacheNew(names) ==
    info' = [id \in DOMAIN info \cup (DOMAIN names \ DOMAIN aliasOf) |->
                IF id \in DOMAIN info THEN info[id] ELSE names[id]]

\* cache_info of every listed resource: by id, whoever listed it last.
CacheInfo(names) ==
    info' = [id \in DOMAIN info \cup DOMAIN names |->
                IF id \in DOMAIN names THEN names[id] ELSE info[id]]

\* Message::ResourceList, in the order of the server's HashMap.
HandleResources(s) ==
    /\ NextAnswer(s, "Resources")
    /\ LET names == Head(answers[s]).names IN
       /\ AddAliases(DOMAIN names)
       /\ CacheInfo(names)
       /\ heard' = [heard EXCEPT ![s] = @ \cup DOMAIN names]
    /\ UNCHANGED <<serverVars, asked, downloads, temp, saved, unsteady, changes, asks>>

\* Message::ResourceChunk, routed by the resource; without a download dropped.
HandleChunk(s) ==
    /\ NextAnswer(s, "Chunk")
    /\ LET m == Head(answers[s]) IN
       temp' = IF m.id \in DOMAIN downloads
               THEN [temp EXCEPT ![Temp(m.id)] = Append(@, m.data)] ELSE temp
    /\ UNCHANGED <<serverVars, asked, aliases, aliasOf, info, downloads, saved, heard,
                   unsteady, changes, asks>>

\* Message::ResourceEnd: the temporary file gets the name that the download was
\* started with, over whatever has it.
Complete(s, id) ==
    /\ saved' = Put(saved, downloads[id].name,
                    [id |-> id, content |-> temp[Temp(id)], from |-> s])
    /\ downloads' = Drop(downloads, id)
    /\ temp' = Drop(temp, Temp(id))

HandleEnd(s) ==
    /\ NextAnswer(s, "End")
    /\ LET id == Head(answers[s]).id IN
       IF id \in DOMAIN downloads THEN Complete(s, id)
       ELSE UNCHANGED <<saved, downloads, temp>>
    /\ UNCHANGED <<serverVars, asked, aliases, aliasOf, info, heard, unsteady,
                   changes, asks>>

Serve(s) == \/ ServeList(s) \/ ServeGet(s)
            \/ \E id \in Ids : UploadChunk(s, id) \/ UploadEnd(s, id)

Handle(s) == HandleResources(s) \/ HandleChunk(s) \/ HandleEnd(s)

Next == \/ \E s \in Servers :
              \/ Restart(s) \/ Serve(s) \/ Handle(s)
              \/ \E p \in Paths : Edit(s, p) \/ AddResource(s, p)
              \/ AskList(s)
              \/ \E a \in DOMAIN aliases : AskGet(s, a)
        \/ \E id \in Ids : AskAdd(id)

Spec == Init /\ [][Next]_vars

\* The servers' threads and the client's event loop run.  Nobody is obliged to
\* give a command, to change a file or to restart a daemon.
FairSpec ==
    Spec /\ \A s \in Servers : WF_vars(Serve(s)) /\ WF_vars(Handle(s))

-----------------------------------------------------------------------------
(* Properties.                                                             *)

\* A map from some of the keys.
IsMap(map, keys, values) == DOMAIN map \subseteq keys /\ map \in [DOMAIN map -> values]

Requests == [type : {"List"}] \cup [type : {"Get"}, id : Ids]
Messages ==
    [type : {"Resources"}, names : UNION {[ids -> Names] : ids \in SUBSET Ids}]
    \cup [type : {"Chunk"}, id : Ids, offset : Nat, data : Blocks]
    \cup [type : {"End"}, id : Ids]
Uploads == [path : Paths, sent : Nat]
Downloads == [name : Names, from : Servers]
Saves == [id : Ids, content : Seq(Blocks), from : Servers]

\* The type invariant; an upload has its file open.
TypeOK ==
    /\ disk \in [Servers -> [Paths -> Contents \cup {NoFile}]]
    /\ index = [s \in Servers |-> index[s]] /\ uploads = [s \in Servers |-> uploads[s]]
    /\ \A s \in Servers : /\ IsMap(index[s], Ids, Paths)
                          /\ IsMap(uploads[s], Ids, Uploads)
                          /\ \A id \in DOMAIN uploads[s] :
                                disk[s][uploads[s][id].path] # NoFile
    /\ asked \in [Servers -> Seq(Requests)] /\ answers \in [Servers -> Seq(Messages)]
    /\ aliases \in Seq(Ids) /\ IsMap(aliasOf, Ids, Nat)
    /\ IsMap(info, Ids, Names)
    /\ IsMap(downloads, Ids, Downloads)
    /\ IsMap(temp, Ids, Seq(Blocks)) /\ DOMAIN temp = {Temp(id) : id \in DOMAIN downloads}
    /\ IsMap(saved, Names, Saves)
    /\ heard \in [Servers -> SUBSET Ids] /\ unsteady \subseteq Servers
    /\ changes \in 0..MaxChanges /\ asks \in 0..MaxAsks

\* An alias keeps the resource it was given for, and a resource its alias, however
\* lists of several servers, in any order, and own additions are interleaved.
AliasesKeepTheirResource ==
    [][/\ \A n \in DOMAIN aliases : aliases'[n] = aliases[n] /\ aliasOf'[aliases[n]] = n
       /\ \A id \in DOMAIN aliasOf' : aliases'[aliasOf'[id]] = id]_vars

\* What a server has listed can be asked for: its alias and its metadata are kept,
\* also if the resource had an alias before it was first heard of.
ListedCanBeFetched ==
    \A s \in Servers : heard[s] \subseteq DOMAIN aliasOf \cap DOMAIN info

\* The two alias maps are inverse.
AliasesAreInverse ==
    /\ \A id \in DOMAIN aliasOf : aliasOf[id] \in DOMAIN aliases /\ aliases[aliasOf[id]] = id
    /\ \A n \in DOMAIN aliases : aliases[n] \in DOMAIN aliasOf /\ aliasOf[aliases[n]] = n

\* What concerns resource id on one connection, by position.
Gets(requests, id) ==
    {i \in DOMAIN requests : requests[i] = [type |-> "Get", id |-> id]}
OfType(messages, id, type) ==
    {i \in DOMAIN messages : messages[i].type = type /\ messages[i].id = id}
Chunks(messages, id) == OfType(messages, id, "Chunk")
Ends(messages, id) == OfType(messages, id, "End")

InFlight(requests, sending, messages, id) ==
    \/ Gets(requests, id) # {} \/ id \in DOMAIN sending
    \/ Chunks(messages, id) # {} \/ Ends(messages, id) # {}

\* A resource is on its way as one thing: a request, then an upload with its chunks,
\* then the chunks and the end behind them.
OneThing(requests, sending, messages, id) ==
    /\ \A i, j \in Gets(requests, id) : i = j
    /\ Gets(requests, id) # {} => /\ id \notin DOMAIN sending
                                  /\ Chunks(messages, id) = {} /\ Ends(messages, id) = {}
    /\ id \in DOMAIN sending => Ends(messages, id) = {}
    /\ \A e \in Ends(messages, id) :
          \A i \in Chunks(messages, id) \cup Ends(messages, id) : i <= e

\* It comes from the server its download is from, and from no other.
OneTransferEach ==
    \A s \in Servers, id \in Ids :
        /\ InFlight(asked[s], uploads[s], answers[s], id) =>
              id \in DOMAIN downloads /\ downloads[id].from = s
        /\ OneThing(asked[s], uploads[s], answers[s], id)

\* The store and the uploads of a steady server are of files as they were hashed.
SteadyFiles ==
    \A s \in Servers \ unsteady :
        /\ \A id \in DOMAIN index[s] : disk[s][index[s][id]] = id
        /\ \A id \in DOMAIN uploads[s] : /\ disk[s][uploads[s][id].path] = id
                                         /\ uploads[s][id].sent <= Len(id)

\* How many blocks are written, and how many will be, chunk after chunk.
Reached(messages, written, id) ==
    {Len(written)} \cup {messages[i].offset + 1 : i \in Chunks(messages, id)}

\* Of what a steady server sends, the temporary file has the first blocks and the
\* chunks under way have the next, in order, up to what was sent.
InOrder(requests, sending, messages, written, id) ==
    LET reached == Reached(messages, written, id) IN
    /\ Len(written) <= Len(id) /\ \A k \in 1..Len(written) : written[k] = id[k]
    /\ Gets(requests, id) # {} => written = <<>>
    /\ \A i \in Chunks(messages, id) :
          /\ messages[i].offset < Len(id)
          /\ messages[i].offset \in reached
          /\ messages[i].data = id[messages[i].offset + 1]
          /\ \A j \in Chunks(messages, id) : i < j => messages[i].offset < messages[j].offset
          /\ id \in DOMAIN sending => messages[i].offset < sending[id].sent
    /\ id \in DOMAIN sending => sending[id].sent \in reached
    /\ Ends(messages, id) # {} => Len(id) \in reached

ChunksInOrder ==
    \A s \in Servers \ unsteady, id \in DOMAIN downloads :
        downloads[id].from = s =>
            InOrder(asked[s], uploads[s], answers[s], temp[Temp(id)], id)

\* The registry and the transfers together: an inductive invariant.
SharesInv ==
    /\ TypeOK
    /\ AliasesAreInverse
    /\ ListedCanBeFetched
    /\ OneTransferEach
    /\ SteadyFiles
    /\ ChunksInOrder

\* A completed download holds what was asked for, whatever other downloads with the
\* same name, lists and cancellations went on at the same time, if the files of the
\* server that sent it are as they were hashed.
SavesWhatWasAsked ==
    \A n \in DOMAIN saved :
        saved[n].content = saved[n].id \/ saved[n].from \in unsteady

\* The downloads from a server of what it has listed all end, if it goes on sharing
\* that unchanged.  One of what it never listed may wait for ever.
Listed(s) == {id \in heard[s] \cap DOMAIN downloads : downloads[id].from = s}
GetOfListedEnds ==
    \A s \in Servers : Listed(s) # {} ~> Listed(s) = {} \/ s \in unsteady
=============================================================================
