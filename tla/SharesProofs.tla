----------------------------- MODULE SharesProofs -----------------------------
(***************************************************************************)
(* The safety of Shares for any servers, paths, file names and contents    *)
(* and any number of commands, edits, additions and restarts.  SharesInv   *)
(* is inductive: of one resource one thing is under way at a time, and     *)
(* what a steady server sends arrives block by block.                      *)
(***************************************************************************)
EXTENDS Shares, SequenceTheorems, FiniteSetTheorems, TLAPS

\* Every download has a temporary file, and each of those a download.
LEMMA TempIsOfDownloads ==
    ASSUME TypeOK
    PROVE  DOMAIN temp = DOMAIN downloads /\ temp \in [DOMAIN temp -> Seq(Blocks)]
<1>1. IsMap(temp, Ids, Seq(Blocks)) /\ DOMAIN temp = {Temp(id) : id \in DOMAIN downloads}
    BY DEF TypeOK
<1>2. temp \in [DOMAIN temp -> Seq(Blocks)]
    BY <1>1 DEF IsMap
<1>3. DOMAIN temp = DOMAIN downloads
    BY <1>1 DEF Temp
<1> QED
    BY <1>2, <1>3

-----------------------------------------------------------------------------
(* Aliases.                                                                *)

\* New aliases go to new resources, one each, and the old ones stay.
LEMMA AliasesGiven ==
    ASSUME TypeOK, AliasesAreInverse, NEW ids \in SUBSET Ids, AddAliases(ids)
    PROVE  /\ aliases' \in Seq(Ids) /\ IsMap(aliasOf', Ids, Nat)
           /\ AliasesAreInverse'
           /\ DOMAIN aliasOf' = DOMAIN aliasOf \cup ids
           /\ \A n \in DOMAIN aliases : n \in DOMAIN aliases' /\ aliases'[n] = aliases[n]
<1> DEFINE new == ids \ DOMAIN aliasOf
           next == Len(aliases)
           last == next + Cardinality(new)
<1>1. IsFiniteSet(new)
    BY ContentsAssumption, FS_Subset DEF Ids
<1>2. Cardinality(new) \in Nat /\ next \in Nat /\ DOMAIN aliases = 1..next
    BY <1>1, FS_CardinalityType DEF TypeOK
<1>3. last \in Nat /\ next <= last
    BY <1>2
<1>4. PICK number \in Bijection(new, (next + 1)..last) :
          /\ aliasOf' = [id \in DOMAIN aliasOf \cup new |->
                           IF id \in new THEN number[id] ELSE aliasOf[id]]
          /\ aliases' = [n \in 1..last |->
                           IF n <= next THEN aliases[n]
                           ELSE CHOOSE id \in new : number[id] = n]
    BY DEF AddAliases, GiveAliases
<1> HIDE DEF last, next, new
<1>5. /\ number \in [new -> (next + 1)..last]
      /\ \A id, jd \in new : number[id] = number[jd] => id = jd
      /\ \A n \in (next + 1)..last : \E id \in new : number[id] = n
    BY DEF Bijection, Injection, Surjection, IsInjective
<1>6. \A n \in (next + 1)..last : aliases'[n] \in new /\ number[aliases'[n]] = n
  <2> SUFFICES ASSUME NEW n \in (next + 1)..last
               PROVE  aliases'[n] \in new /\ number[aliases'[n]] = n
    OBVIOUS
  <2>1. n \in 1..last /\ ~(n <= next)
    BY <1>2, <1>3
  <2>2. aliases'[n] = CHOOSE id \in new : number[id] = n
    BY <1>4, <2>1
  <2>3. \E id \in new : number[id] = n
    BY <1>5
  <2> QED
    BY <2>2, <2>3
<1>7. \A n \in 1..next : n \in 1..last /\ aliases'[n] = aliases[n]
    BY <1>2, <1>3, <1>4
<1>8. DOMAIN aliases' = 1..last /\ \A n \in 1..last : aliases'[n] \in Ids
  <2>1. \A n \in 1..last : n \in 1..next \/ n \in (next + 1)..last
    BY <1>2, <1>3
  <2>2. \A n \in 1..next : aliases[n] \in Ids
    BY <1>2 DEF TypeOK
  <2> QED
    BY <1>4, <1>6, <1>7, <2>1, <2>2 DEF new
<1>9. aliases' \in Seq(Ids)
  <2>1. aliases' \in [1..last -> Ids]
    BY <1>4, <1>8
  <2> QED
    BY <1>3, <2>1
<1>10. DOMAIN aliasOf' = DOMAIN aliasOf \cup ids /\ IsMap(aliasOf', Ids, Nat)
  <2>1. DOMAIN aliasOf \subseteq Ids /\ \A id \in DOMAIN aliasOf : aliasOf[id] \in Nat
    BY DEF TypeOK, IsMap
  <2>2. \A id \in new : number[id] \in Nat
    BY <1>2, <1>3, <1>5
  <2> QED
    BY <1>4, <2>1, <2>2 DEF new, IsMap
<1>11. AliasesAreInverse'
  <2>1. ASSUME NEW id \in DOMAIN aliasOf' PROVE aliasOf'[id] \in DOMAIN aliases' /\ aliases'[aliasOf'[id]] = id
    <3>1. CASE id \in new
      <4>1. aliasOf'[id] = number[id] /\ number[id] \in (next + 1)..last
        BY <1>4, <1>5, <3>1
      <4>2. aliases'[number[id]] = id
        BY <1>5, <1>6, <3>1, <4>1
      <4>3. number[id] \in 1..last
        BY <1>2, <1>3, <4>1
      <4> QED
        BY <1>8, <4>1, <4>2, <4>3
    <3>2. CASE id \notin new
      <4>1. id \in DOMAIN aliasOf /\ aliasOf'[id] = aliasOf[id]
        BY <1>4, <3>2
      <4>2. aliasOf[id] \in 1..next /\ aliases[aliasOf[id]] = id
        BY <1>2, <4>1 DEF AliasesAreInverse
      <4> QED
        BY <1>7, <1>8, <4>1, <4>2
    <3> QED
        BY <3>1, <3>2
  <2>2. ASSUME NEW n \in DOMAIN aliases' PROVE aliases'[n] \in DOMAIN aliasOf' /\ aliasOf'[aliases'[n]] = n
    <3>1. CASE n \in 1..next
      <4>1. aliases'[n] = aliases[n] /\ aliases[n] \in DOMAIN aliasOf /\ aliasOf[aliases[n]] = n
        BY <1>2, <1>7, <3>1 DEF AliasesAreInverse
      <4> QED
        BY <1>4, <4>1 DEF new
    <3>2. CASE n \in (next + 1)..last
        BY <1>4, <1>6, <3>2
    <3> QED
        BY <1>2, <1>3, <1>8, <3>1, <3>2
  <2> QED
    BY <2>1, <2>2 DEF AliasesAreInverse
<1> QED
    BY <1>2, <1>7, <1>8, <1>9, <1>10, <1>11

-----------------------------------------------------------------------------
(* Types.                                                                  *)

\* An insertion keeps a map a map.
LEMMA PutIs ==
    ASSUME NEW map, NEW K, NEW V, IsMap(map, K, V), NEW k \in K, NEW v \in V
    PROVE  IsMap(Put(map, k, v), K, V)
BY DEF IsMap, Put

\* One server's entry changes, and no other's.
LEMMA Updated ==
    ASSUME NEW f, f = [t \in Servers |-> f[t]], NEW s \in Servers, NEW v
    PROVE  LET g == [f EXCEPT ![s] = v] IN
           /\ g = [t \in Servers |-> g[t]] /\ g[s] = v
           /\ \A t \in Servers : t # s => g[t] = f[t]
OBVIOUS

\* The parts of TypeOK.
ServerTypes ==
    /\ disk \in [Servers -> [Paths -> Contents \cup {NoFile}]]
    /\ index = [s \in Servers |-> index[s]] /\ uploads = [s \in Servers |-> uploads[s]]
    /\ \A s \in Servers : /\ IsMap(index[s], Ids, Paths)
                          /\ IsMap(uploads[s], Ids, Uploads)
                          /\ \A id \in DOMAIN uploads[s] :
                                disk[s][uploads[s][id].path] # NoFile
    /\ unsteady \subseteq Servers
RegistryTypes ==
    /\ aliases \in Seq(Ids) /\ IsMap(aliasOf, Ids, Nat)
    /\ IsMap(info, Ids, Names)
    /\ heard \in [Servers -> SUBSET Ids]
DownloadTypes ==
    /\ IsMap(downloads, Ids, Downloads)
    /\ IsMap(temp, Ids, Seq(Blocks)) /\ DOMAIN temp = {Temp(id) : id \in DOMAIN downloads}
    /\ IsMap(saved, Names, Saves)
QueueTypes ==
    /\ asked \in [Servers -> Seq(Requests)] /\ answers \in [Servers -> Seq(Messages)]
    /\ changes \in 0..MaxChanges /\ asks \in 0..MaxAsks

\* The type invariant by component.
LEMMA TypeParts ==
    TypeOK <=> ServerTypes /\ RegistryTypes /\ DownloadTypes /\ QueueTypes
BY DEF TypeOK, ServerTypes, RegistryTypes, DownloadTypes, QueueTypes

\* The files of a server, and what reads them.
LEMMA ServerStepTypes ==
    ASSUME ServerTypes, NEW s \in Servers,
           \/ \E p \in Paths : Edit(s, p) \/ AddResource(s, p)
           \/ Restart(s)
           \/ ServeGet(s) /\ Head(asked[s]).id \in Ids
           \/ \E id \in Ids : UploadChunk(s, id) \/ UploadEnd(s, id)
    PROVE  ServerTypes'
<1>1. ASSUME NEW p \in Paths, Edit(s, p) PROVE ServerTypes'
  <2>1. PICK c \in Contents \cup {NoFile} :
            /\ c = NoFile => \A id \in DOMAIN uploads[s] : uploads[s][id].path # p
            /\ disk' = [disk EXCEPT ![s][p] = c]
    BY <1>1 DEF Edit
  <2>2. disk' \in [Servers -> [Paths -> Contents \cup {NoFile}]]
    BY <2>1 DEF ServerTypes
  <2>3. \A t \in Servers, q \in Paths : disk'[t][q] # disk[t][q] => t = s /\ q = p /\ disk'[t][q] = c
    BY <2>1 DEF ServerTypes
  <2>4. \A t \in Servers : \A id \in DOMAIN uploads[t] : disk'[t][uploads[t][id].path] # NoFile
    <3> SUFFICES ASSUME NEW t \in Servers, NEW id \in DOMAIN uploads[t]
                 PROVE  disk'[t][uploads[t][id].path] # NoFile
        OBVIOUS
    <3>1. uploads[t][id].path \in Paths /\ disk[t][uploads[t][id].path] # NoFile
        BY DEF ServerTypes, IsMap, Uploads
    <3> QED
        BY <2>1, <2>3, <3>1
  <2>5. UNCHANGED <<index, uploads>> /\ unsteady' \subseteq Servers
    BY <1>1 DEF Edit, Changes, ServerTypes
  <2> QED
    BY <2>2, <2>4, <2>5 DEF ServerTypes
<1>2. ASSUME NEW p \in Paths, AddResource(s, p) PROVE ServerTypes'
  <2>1. PICK id \in Hashed(disk[s][p]) :
            /\ index' = [index EXCEPT ![s] = Put(@, id, p)]
            /\ unsteady' = IF id = disk[s][p] THEN unsteady ELSE unsteady \cup {s}
    BY <1>2 DEF AddResource
  <2>2. disk[s][p] \in Contents
    BY <1>2 DEF AddResource, ServerTypes
  <2>3. id \in Ids
    BY <2>2, ContentsAssumption DEF Hashed, Ids
  <2>4. IsMap(Put(index[s], id, p), Ids, Paths)
    BY <2>3, PutIs DEF ServerTypes
  <2>5. index' = [t \in Servers |-> index'[t]] /\ \A t \in Servers : IsMap(index'[t], Ids, Paths)
    BY <2>1, <2>4 DEF ServerTypes
  <2> QED
    BY <1>2, <2>1, <2>5 DEF AddResource, ServerTypes
<1>3. CASE Restart(s)
  <2>1. PICK kept \in Stores(disk[s], SharedDir) : index' = [index EXCEPT ![s] = kept]
    BY <1>3 DEF Restart
  <2>2. IsMap(kept, Ids, Paths)
    BY PathsAssumption DEF Stores, IsMap, ServerTypes, Ids
  <2>3. index' = [t \in Servers |-> index'[t]] /\ \A t \in Servers : IsMap(index'[t], Ids, Paths)
    BY <2>1, <2>2 DEF ServerTypes
  <2>4. uploads' = [uploads EXCEPT ![s] = Empty] /\ disk' = disk /\ unsteady' \subseteq Servers
    BY <1>3 DEF Restart, Disconnected, Changes, ServerTypes
  <2>5. IsMap(Empty, Ids, Uploads) /\ DOMAIN Empty = {}
    BY DEF IsMap, Empty
  <2> QED
    BY <2>3, <2>4, <2>5 DEF ServerTypes
<1>4. CASE ServeGet(s) /\ Head(asked[s]).id \in Ids
  <2> DEFINE id == Head(asked[s]).id
             file == [path |-> index[s][id], sent |-> 0]
             map == Put(uploads[s], id, file)
  <2>1. /\ UNCHANGED <<disk, index, unsteady>>
        /\ uploads' = IF HasFile(s, id) THEN [uploads EXCEPT ![s] = map] ELSE uploads
    BY <1>4 DEF ServeGet
  <2>2. CASE ~HasFile(s, id)
    BY <2>1, <2>2 DEF ServerTypes
  <2>3. CASE HasFile(s, id)
    <3>1. file \in Uploads /\ disk[s][file.path] # NoFile
        BY <2>3 DEF HasFile, ServerTypes, IsMap, Uploads
    <3>2. id \in Ids /\ IsMap(uploads[s], Ids, Uploads)
        BY <1>4 DEF ServerTypes
    <3> HIDE DEF file, id
    <3>3. /\ IsMap(map, Ids, Uploads) /\ DOMAIN map = DOMAIN uploads[s] \cup {id}
          /\ map[id] = file /\ \A x \in DOMAIN uploads[s] : x # id => map[x] = uploads[s][x]
        BY <3>1, <3>2 DEF Put, IsMap
    <3> HIDE DEF map
    <3>4. /\ uploads' = [t \in Servers |-> uploads'[t]] /\ uploads'[s] = map
          /\ \A t \in Servers : t # s => uploads'[t] = uploads[t]
        BY <2>1, <2>3, Updated DEF ServerTypes
    <3>5. \A jd \in DOMAIN map : disk[s][map[jd].path] # NoFile
        BY <3>1, <3>3 DEF ServerTypes
    <3>6. \A t \in Servers : /\ IsMap(uploads'[t], Ids, Uploads)
                             /\ \A jd \in DOMAIN uploads'[t] : disk[t][uploads'[t][jd].path] # NoFile
        BY <3>3, <3>4, <3>5 DEF ServerTypes
    <3> QED
        BY <2>1, <3>4, <3>6 DEF ServerTypes
  <2> QED
    BY <2>2, <2>3
<1>5. ASSUME NEW id \in Ids, UploadChunk(s, id) PROVE ServerTypes'
  <2> DEFINE map == [uploads[s] EXCEPT ![id].sent = uploads[s][id].sent + 1]
  <2>1. /\ id \in DOMAIN uploads[s] /\ UNCHANGED <<disk, index, unsteady>>
        /\ uploads' = [uploads EXCEPT ![s] = map]
    BY <1>5 DEF UploadChunk
  <2>2. /\ IsMap(map, Ids, Uploads) /\ DOMAIN map = DOMAIN uploads[s]
        /\ \A jd \in DOMAIN map : map[jd].path = uploads[s][jd].path
    BY <2>1 DEF IsMap, Uploads, ServerTypes
  <2> HIDE DEF map
  <2>3. /\ uploads' = [t \in Servers |-> uploads'[t]] /\ uploads'[s] = map
        /\ \A t \in Servers : t # s => uploads'[t] = uploads[t]
    BY <2>1, Updated DEF ServerTypes
  <2>4. \A t \in Servers : /\ IsMap(uploads'[t], Ids, Uploads)
                           /\ \A jd \in DOMAIN uploads'[t] : disk[t][uploads'[t][jd].path] # NoFile
    BY <2>2, <2>3 DEF ServerTypes
  <2> QED
    BY <2>1, <2>3, <2>4 DEF ServerTypes
<1>6. ASSUME NEW id \in Ids, UploadEnd(s, id) PROVE ServerTypes'
  <2> DEFINE map == Drop(uploads[s], id)
  <2>1. /\ UNCHANGED <<disk, index, unsteady>> /\ uploads' = [uploads EXCEPT ![s] = map]
    BY <1>6 DEF UploadEnd
  <2>2. /\ IsMap(map, Ids, Uploads) /\ DOMAIN map = DOMAIN uploads[s] \ {id}
        /\ \A x \in DOMAIN map : map[x] = uploads[s][x]
    BY DEF Drop, IsMap, ServerTypes
  <2> HIDE DEF map
  <2>3. /\ uploads' = [t \in Servers |-> uploads'[t]] /\ uploads'[s] = map
        /\ \A t \in Servers : t # s => uploads'[t] = uploads[t]
    BY <2>1, Updated DEF ServerTypes
  <2>4. \A t \in Servers : /\ IsMap(uploads'[t], Ids, Uploads)
                           /\ \A jd \in DOMAIN uploads'[t] : disk[t][uploads'[t][jd].path] # NoFile
    BY <2>2, <2>3 DEF ServerTypes
  <2> QED
    BY <2>1, <2>3, <2>4 DEF ServerTypes
<1> QED
    BY <1>1, <1>2, <1>3, <1>4, <1>5, <1>6

\* What the client finds at the head of a connection, and a server.
LEMMA NextInTypes ==
    ASSUME TypeOK, NEW s \in Servers
    PROVE  /\ answers[s] # <<>> /\ Head(answers[s]).type = "Resources" =>
                /\ DOMAIN Head(answers[s]).names \subseteq Ids
                /\ Head(answers[s]).names \in [DOMAIN Head(answers[s]).names -> Names]
           /\ answers[s] # <<>> /\ Head(answers[s]).type = "Chunk" =>
                /\ Head(answers[s]).id \in Ids /\ Head(answers[s]).data \in Blocks
                /\ Head(answers[s]).offset \in Nat
           /\ answers[s] # <<>> /\ Head(answers[s]).type = "End" => Head(answers[s]).id \in Ids
           /\ asked[s] # <<>> /\ Head(asked[s]).type = "Get" =>
                /\ Head(asked[s]).id \in Ids
                /\ Head(asked[s]) = [type |-> "Get", id |-> Head(asked[s]).id]
<1>1. answers[s] \in Seq(Messages) /\ asked[s] \in Seq(Requests)
    BY DEF TypeOK
<1>2. answers[s] # <<>> => Head(answers[s]) \in Messages
    BY <1>1, HeadTailProperties
<1>3. asked[s] # <<>> => Head(asked[s]) \in Requests
    BY <1>1, HeadTailProperties
<1>4. ASSUME NEW m \in Messages
      PROVE  /\ m.type = "Resources" => /\ DOMAIN m.names \subseteq Ids
                                        /\ m.names \in [DOMAIN m.names -> Names]
             /\ m.type = "Chunk" => m.id \in Ids /\ m.data \in Blocks /\ m.offset \in Nat
             /\ m.type = "End" => m.id \in Ids
    BY DEF Messages
<1>5. ASSUME NEW m \in Requests, m.type = "Get"
      PROVE  m.id \in Ids /\ m = [type |-> "Get", id |-> m.id]
    BY <1>5 DEF Requests
<1> QED
    BY <1>2, <1>3, <1>4, <1>5

\* What a step of a server leaves alone, and one of the client.
LEMMA ServingLeavesClient ==
    ASSUME NEW s \in Servers, Serve(s) \/ \E p \in Paths : Edit(s, p) \/ AddResource(s, p)
    PROVE  UNCHANGED <<aliases, aliasOf, info, downloads, temp, saved, heard>>
<1>1. ASSUME NEW p \in Paths, Edit(s, p) \/ AddResource(s, p)
      PROVE  UNCHANGED <<aliases, aliasOf, info, downloads, temp, saved, heard>>
    BY <1>1 DEF Edit, AddResource, clientVars
<1>2. ASSUME NEW id \in Ids, UploadChunk(s, id) \/ UploadEnd(s, id)
      PROVE  UNCHANGED <<aliases, aliasOf, info, downloads, temp, saved, heard>>
    BY <1>2 DEF UploadChunk, UploadEnd, clientVars
<1>3. CASE ServeList(s) \/ ServeGet(s)
    BY <1>3 DEF ServeList, ServeGet, clientVars
<1> QED
    BY <1>1, <1>2, <1>3 DEF Serve

\* The registry: aliases and metadata.
RegistrySound == RegistryTypes /\ AliasesAreInverse /\ ListedCanBeFetched

\* Aliases stay inverse, and what is listed stays fetchable.
LEMMA RegistryStep ==
    ASSUME TypeOK, RegistrySound, Next
    PROVE  RegistrySound'
<1> USE DEF RegistrySound
<1>1. ASSUME NEW id \in Ids, AskAdd(id) PROVE RegistrySound'
  <2>1. UNCHANGED <<info, heard>> /\ AddAliases({id})
    BY <1>1 DEF AskAdd
  <2>2. /\ aliases' \in Seq(Ids) /\ IsMap(aliasOf', Ids, Nat) /\ AliasesAreInverse'
        /\ DOMAIN aliasOf' = DOMAIN aliasOf \cup {id}
    BY <2>1, AliasesGiven
  <2> QED
    BY <2>1, <2>2 DEF RegistryTypes, ListedCanBeFetched
<1>2. ASSUME NEW s \in Servers, HandleResources(s) PROVE RegistrySound'
  <2> DEFINE names == Head(answers[s]).names
  <2>1. /\ AddAliases(DOMAIN names) /\ CacheInfo(names)
        /\ heard' = [heard EXCEPT ![s] = @ \cup DOMAIN names]
    BY <1>2 DEF HandleResources
  <2>2. DOMAIN names \subseteq Ids /\ names \in [DOMAIN names -> Names]
    BY <1>2, NextInTypes DEF HandleResources, NextAnswer
  <2> HIDE DEF names
  <2>3. /\ aliases' \in Seq(Ids) /\ IsMap(aliasOf', Ids, Nat) /\ AliasesAreInverse'
        /\ DOMAIN aliasOf' = DOMAIN aliasOf \cup DOMAIN names
    BY <2>1, <2>2, AliasesGiven
  <2>4. IsMap(info', Ids, Names) /\ DOMAIN info' = DOMAIN info \cup DOMAIN names
    BY <2>1, <2>2 DEF CacheInfo, IsMap, RegistryTypes
  <2>5. /\ heard' \in [Servers -> SUBSET Ids]
        /\ \A t \in Servers : heard'[t] \subseteq heard[t] \cup DOMAIN names
    BY <2>1, <2>2 DEF RegistryTypes
  <2> QED
    BY <2>3, <2>4, <2>5 DEF RegistryTypes, ListedCanBeFetched
<1>3. CASE UNCHANGED <<aliases, aliasOf, info, heard>>
    BY <1>3 DEF RegistryTypes, AliasesAreInverse, ListedCanBeFetched
<1>4. \/ \E id \in Ids : AskAdd(id)
      \/ \E s \in Servers : HandleResources(s)
      \/ UNCHANGED <<aliases, aliasOf, info, heard>>
  <2>1. ASSUME NEW s \in Servers, Restart(s) \/ AskList(s) \/ HandleChunk(s) \/ HandleEnd(s)
        PROVE  UNCHANGED <<aliases, aliasOf, info, heard>>
    BY <2>1 DEF Restart, Disconnected, AskList, HandleChunk, HandleEnd, clientVars
  <2>2. ASSUME NEW s \in Servers, NEW a \in DOMAIN aliases, AskGet(s, a)
        PROVE  UNCHANGED <<aliases, aliasOf, info, heard>>
    BY <2>2 DEF AskGet
  <2> QED
    BY <2>1, <2>2, ServingLeavesClient DEF Next, Handle
<1> QED
    BY <1>1, <1>2, <1>3, <1>4

\* Downloads, with their temporary files, and what is saved.
LEMMA DownloadStep ==
    ASSUME TypeOK, Next
    PROVE  DownloadTypes'
<1> USE DEF Temp
<1>0. DownloadTypes
    BY TypeParts
<1>1. ASSUME NEW s \in Servers, Disconnected(s) PROVE DownloadTypes'
    BY <1>0, <1>1 DEF Disconnected, DownloadTypes, IsMap
<1>2. ASSUME NEW s \in Servers, NEW a \in DOMAIN aliases, AskGet(s, a) PROVE DownloadTypes'
  <2> DEFINE id == aliases[a]
             download == [name |-> info[id], from |-> s]
  <2>1. /\ id \in DOMAIN info /\ downloads' = Put(downloads, id, download)
        /\ temp' = Put(temp, id, <<>>) /\ saved' = saved
    BY <1>2 DEF AskGet
  <2>2. id \in Ids /\ download \in Downloads
    BY <2>1 DEF TypeOK, IsMap, Downloads
  <2> HIDE DEF id, download
  <2>3. IsMap(downloads', Ids, Downloads) /\ DOMAIN downloads' = DOMAIN downloads \cup {id}
    BY <1>0, <2>1, <2>2 DEF Put, IsMap, DownloadTypes
  <2>4. IsMap(temp', Ids, Seq(Blocks)) /\ DOMAIN temp' = DOMAIN temp \cup {id}
    BY <1>0, <2>1, <2>2 DEF Put, IsMap, DownloadTypes
  <2> QED
    BY <1>0, <2>1, <2>3, <2>4 DEF DownloadTypes
<1>3. ASSUME NEW s \in Servers, HandleChunk(s) PROVE DownloadTypes'
  <2> DEFINE m == Head(answers[s])
  <2>1. /\ temp' = IF m.id \in DOMAIN downloads
                   THEN [temp EXCEPT ![m.id] = Append(temp[m.id], m.data)] ELSE temp
        /\ UNCHANGED <<downloads, saved>>
    BY <1>3 DEF HandleChunk
  <2>2. m.data \in Blocks
    BY <1>3, NextInTypes DEF HandleChunk, NextAnswer
  <2> HIDE DEF m
  <2>3. m.id \in DOMAIN downloads => m.id \in DOMAIN temp /\ temp[m.id] \in Seq(Blocks)
    BY <1>0 DEF DownloadTypes, IsMap
  <2>4. m.id \in DOMAIN downloads => Append(temp[m.id], m.data) \in Seq(Blocks)
    BY <2>2, <2>3
  <2>5. IsMap(temp', Ids, Seq(Blocks)) /\ DOMAIN temp' = DOMAIN temp
    BY <1>0, <2>1, <2>4 DEF DownloadTypes, IsMap
  <2> QED
    BY <1>0, <2>1, <2>5 DEF DownloadTypes
<1>4. ASSUME NEW s \in Servers, HandleEnd(s) PROVE DownloadTypes'
  <2> DEFINE id == Head(answers[s]).id
             file == [id |-> id, content |-> temp[id], from |-> s]
  <2>1. IF id \in DOMAIN downloads
        THEN /\ saved' = Put(saved, downloads[id].name, file)
             /\ downloads' = Drop(downloads, id) /\ temp' = Drop(temp, id)
        ELSE UNCHANGED <<saved, downloads, temp>>
    BY <1>4 DEF HandleEnd, Complete
  <2>2. CASE id \in DOMAIN downloads
    <3>1. file \in Saves /\ downloads[id].name \in Names
        BY <1>0, <2>2 DEF DownloadTypes, IsMap, Saves, Downloads
    <3> HIDE DEF id, file
    <3>2. IsMap(saved', Names, Saves)
        BY <1>0, <2>1, <2>2, <3>1 DEF DownloadTypes, IsMap, Put
    <3>3. IsMap(downloads', Ids, Downloads) /\ DOMAIN downloads' = DOMAIN downloads \ {id}
        BY <1>0, <2>1, <2>2 DEF DownloadTypes, IsMap, Drop
    <3>4. IsMap(temp', Ids, Seq(Blocks)) /\ DOMAIN temp' = DOMAIN temp \ {id}
        BY <1>0, <2>1, <2>2 DEF DownloadTypes, IsMap, Drop
    <3> QED
        BY <1>0, <3>2, <3>3, <3>4 DEF DownloadTypes
  <2> QED
    BY <1>0, <2>1, <2>2 DEF DownloadTypes
<1>5. CASE UNCHANGED <<downloads, temp, saved>>
    BY <1>0, <1>5 DEF DownloadTypes
<1>6. \/ \E s \in Servers : \/ Disconnected(s) \/ HandleChunk(s) \/ HandleEnd(s)
                            \/ \E a \in DOMAIN aliases : AskGet(s, a)
      \/ UNCHANGED <<downloads, temp, saved>>
  <2>1. ASSUME NEW s \in Servers, AskList(s) \/ HandleResources(s)
        PROVE  UNCHANGED <<downloads, temp, saved>>
    BY <2>1 DEF AskList, HandleResources, clientVars
  <2>2. ASSUME NEW id \in Ids, AskAdd(id) PROVE UNCHANGED <<downloads, temp, saved>>
    BY <2>2 DEF AskAdd
  <2>3. ASSUME NEW s \in Servers, Restart(s) PROVE Disconnected(s)
    BY <2>3 DEF Restart
  <2> QED
    BY <2>1, <2>2, <2>3, ServingLeavesClient DEF Next, Handle
<1> QED
    BY <1>1, <1>2, <1>3, <1>4, <1>5, <1>6

-----------------------------------------------------------------------------
(* One resource on one connection: what the two ends do to its flow.       *)

\* The same chunks and ends, d places further on.
Shifted(new, old, d, id) ==
    /\ \A i \in Nat : /\ i \in Chunks(new, id) <=> i + d \in Chunks(old, id)
                      /\ i \in Ends(new, id) <=> i + d \in Ends(old, id)
                      /\ i \in Chunks(new, id) => new[i] = old[i + d]
    /\ \A k \in Chunks(old, id) \cup Ends(old, id) : k \in Nat /\ k >= d /\ k - d \in Nat

\* Chunks and ends of a resource are at positions of the queue.
LEMMA Positions ==
    ASSUME NEW messages \in Seq(Messages), NEW id
    PROVE  /\ Chunks(messages, id) \subseteq 1..Len(messages)
           /\ Ends(messages, id) \subseteq 1..Len(messages)
           /\ Chunks(messages, id) \cup Ends(messages, id) \subseteq Nat
           /\ \A i \in Chunks(messages, id) : messages[i].offset \in Nat
<1>1. \A i \in 1..Len(messages) : messages[i] \in Messages
    OBVIOUS
<1>2. \A m \in Messages : m.type = "Chunk" => m.offset \in Nat
    BY DEF Messages
<1> QED
    BY <1>1, <1>2 DEF Chunks, Ends, OfType

\* A message of another resource leaves the ones of this where they are.
LEMMA OtherMessageLeft ==
    ASSUME NEW q \in Seq(Messages), NEW m \in Messages, NEW id,
           m.type \in {"Chunk", "End"} => m.id # id
    PROVE  Shifted(Append(q, m), q, 0, id)
<1>1. /\ Len(q) \in Nat /\ Len(Append(q, m)) = Len(q) + 1 /\ Append(q, m) \in Seq(Messages)
      /\ Append(q, m)[Len(q) + 1] = m /\ \A i \in 1..Len(q) : Append(q, m)[i] = q[i]
    BY AppendProperties
<1> DEFINE new == Append(q, m)
<1>2. DOMAIN new = 1..(Len(q) + 1) /\ DOMAIN q = 1..Len(q)
    BY <1>1
<1> HIDE DEF new
<1>3. \A i \in 1..(Len(q) + 1) : i = Len(q) + 1 \/ i \in 1..Len(q)
    BY <1>1
<1>4. \A type \in {"Chunk", "End"} : OfType(new, id, type) = OfType(q, id, type)
    BY <1>1, <1>2, <1>3 DEF OfType, new
<1>5. \A i \in Chunks(q, id) \cup Ends(q, id) : i \in Nat /\ new[i] = q[i]
    BY <1>1, <1>2 DEF Chunks, Ends, OfType, new
<1>6. \A i \in Nat : i + 0 = i /\ i - 0 = i /\ i >= 0
    OBVIOUS
<1> QED
    BY <1>4, <1>5, <1>6 DEF Shifted, Chunks, Ends, new

IsTail(new, q) == new = Tail(q)

\* Taking a message moves the positions of all others by one.
LEMMA MessageTaken ==
    ASSUME NEW q \in Seq(Messages), q # <<>>, NEW new, IsTail(new, q), NEW id
    PROVE  /\ new \in Seq(Messages)
           /\ \A i \in Nat : /\ i \in Chunks(new, id) <=> i # 0 /\ i + 1 \in Chunks(q, id)
                             /\ i \in Ends(new, id) <=> i # 0 /\ i + 1 \in Ends(q, id)
                             /\ i \in Chunks(new, id) => new[i] = q[i + 1]
           /\ \A k \in Chunks(q, id) \cup Ends(q, id) : k \in Nat /\ k >= 1 /\ k - 1 \in Nat
           /\ Head(q) = q[1]
           /\ \A type \in {"Chunk", "End"} :
                 1 \in OfType(q, id, type) <=> Head(q).type = type /\ Head(q).id = id
<1>1. /\ Len(q) \in Nat \ {0} /\ Len(new) = Len(q) - 1 /\ new \in Seq(Messages)
      /\ Head(q) = q[1] /\ \A i \in 1..(Len(q) - 1) : new[i] = q[i + 1]
    BY HeadTailProperties DEF IsTail
<1>2. DOMAIN new = 1..(Len(q) - 1) /\ DOMAIN q = 1..Len(q)
    BY <1>1
<1>3. \A i \in Nat : /\ i \in DOMAIN new => i # 0 /\ i + 1 \in DOMAIN q /\ new[i] = q[i + 1]
                     /\ i + 1 \in DOMAIN q /\ i # 0 => i \in DOMAIN new
    BY <1>1, <1>2
<1>4. \A type \in {"Chunk", "End"}, i \in Nat :
          i \in OfType(new, id, type) <=> i # 0 /\ i + 1 \in OfType(q, id, type)
    BY <1>3 DEF OfType
<1>5. \A k \in Chunks(q, id) \cup Ends(q, id) : k \in Nat /\ k >= 1 /\ k - 1 \in Nat
    BY <1>1, <1>2 DEF Chunks, Ends, OfType
<1>6. \A i \in Nat : i \in Chunks(new, id) => new[i] = q[i + 1]
    BY <1>3 DEF Chunks, OfType
<1>7. \A type \in {"Chunk", "End"} :
          1 \in OfType(q, id, type) <=> Head(q).type = type /\ Head(q).id = id
    BY <1>1, <1>2 DEF OfType
<1> QED
    BY <1>1, <1>4, <1>5, <1>6, <1>7 DEF Chunks, Ends

\* So does taking one of another resource, which loses none of this.
LEMMA OtherMessageTaken ==
    ASSUME NEW q \in Seq(Messages), q # <<>>, NEW new, IsTail(new, q), NEW id,
           Head(q).type \in {"Chunk", "End"} => Head(q).id # id
    PROVE  Shifted(new, q, 1, id)
<1>1. 1 \notin Chunks(q, id) /\ 1 \notin Ends(q, id)
    BY MessageTaken DEF Chunks, Ends
<1>2. \A i \in Nat : /\ i \in Chunks(new, id) <=> i + 1 \in Chunks(q, id)
                     /\ i \in Ends(new, id) <=> i + 1 \in Ends(q, id)
  <2> SUFFICES ASSUME NEW i \in Nat
               PROVE  /\ i \in Chunks(new, id) <=> i + 1 \in Chunks(q, id)
                      /\ i \in Ends(new, id) <=> i + 1 \in Ends(q, id)
    OBVIOUS
  <2>1. CASE i = 0
    <3>1. i + 1 = 1
        BY <2>1
    <3> QED
        BY <1>1, <2>1, <3>1, MessageTaken
  <2>2. CASE i # 0
    BY <2>2, MessageTaken
  <2> QED
    BY <2>1, <2>2
<1>3. \A i \in Nat : i \in Chunks(new, id) => new[i] = q[i + 1]
    BY MessageTaken
<1>4. \A k \in Chunks(q, id) \cup Ends(q, id) : k \in Nat /\ k >= 1 /\ k - 1 \in Nat
    BY MessageTaken
<1> QED
    BY <1>2, <1>3, <1>4 DEF Shifted

\* What the resource id has to do with a connection is as it was.
ConnectionKept(a2, u2, q2, a, u, q, id) ==
    /\ q2 \in Seq(Messages) /\ \E d \in Nat : Shifted(q2, q, d, id)
    /\ \A i, j \in Gets(a2, id) : (\A k, l \in Gets(a, id) : k = l) => i = j
    /\ Gets(a2, id) # {} => Gets(a, id) # {}
    /\ id \in DOMAIN u2 <=> id \in DOMAIN u
    /\ id \in DOMAIN u => u2[id].sent = u[id].sent

\* An untouched queue is shifted by nothing.
LEMMA NothingShifted ==
    ASSUME NEW q \in Seq(Messages), NEW id
    PROVE  Shifted(q, q, 0, id)
<1>1. \A i \in Nat : i + 0 = i /\ i - 0 = i /\ i >= 0
    OBVIOUS
<1> QED
    BY <1>1, Positions DEF Shifted

\* An untouched connection is as it was.
LEMMA SameConnection ==
    ASSUME NEW a, NEW u, NEW q \in Seq(Messages), NEW id
    PROVE  ConnectionKept(a, u, q, a, u, q, id)
BY NothingShifted DEF ConnectionKept

\* A connection that is the same for a resource, but for shifted positions,
\* carries the same of it.
LEMMA FlowKept ==
    ASSUME NEW a, NEW a2, NEW u, NEW u2, NEW q, NEW q2, NEW id,
           ConnectionKept(a2, u2, q2, a, u, q, id)
    PROVE  /\ InFlight(a2, u2, q2, id) => InFlight(a, u, q, id)
           /\ OneThing(a, u, q, id) => OneThing(a2, u2, q2, id)
           /\ \A w : InOrder(a, u, q, w, id) => InOrder(a2, u2, q2, w, id)
<1>0. PICK d \in Nat :
          /\ q2 \in Seq(Messages) /\ Shifted(q2, q, d, id)
          /\ \A i, j \in Gets(a2, id) : (\A k, l \in Gets(a, id) : k = l) => i = j
          /\ Gets(a2, id) # {} => Gets(a, id) # {}
          /\ id \in DOMAIN u2 <=> id \in DOMAIN u
          /\ id \in DOMAIN u => u2[id].sent = u[id].sent
    BY DEF ConnectionKept
<1>1. \A i \in Chunks(q2, id) \cup Ends(q2, id) : i \in Nat
    BY <1>0, Positions
<1>2. \A i \in Chunks(q2, id) : i + d \in Chunks(q, id) /\ q2[i] = q[i + d]
    BY <1>0, <1>1 DEF Shifted
<1>3. \A i \in Ends(q2, id) : i + d \in Ends(q, id)
    BY <1>0, <1>1 DEF Shifted
<1>4. \A k \in Chunks(q, id) : k - d \in Chunks(q2, id) /\ q2[k - d] = q[k]
  <2> SUFFICES ASSUME NEW k \in Chunks(q, id) PROVE k - d \in Chunks(q2, id) /\ q2[k - d] = q[k]
    OBVIOUS
  <2>1. k \in Nat /\ k - d \in Nat /\ (k - d) + d = k
    BY <1>0 DEF Shifted
  <2> QED
    BY <1>0, <2>1 DEF Shifted
<1>5. \A i, j \in Nat : i <= j <=> i + d <= j + d
    OBVIOUS
<1>6. \A i, j \in Nat : i < j <=> i + d < j + d
    OBVIOUS
<1>7. InFlight(a2, u2, q2, id) => InFlight(a, u, q, id)
    BY <1>0, <1>2, <1>3 DEF InFlight
<1>8. ASSUME OneThing(a, u, q, id) PROVE OneThing(a2, u2, q2, id)
  <2>1. \A i, j \in Gets(a2, id) : i = j
    BY <1>0, <1>8 DEF OneThing
  <2>2. Gets(a2, id) # {} => id \notin DOMAIN u2 /\ Chunks(q2, id) = {} /\ Ends(q2, id) = {}
    BY <1>0, <1>2, <1>3, <1>8 DEF OneThing
  <2>3. id \in DOMAIN u2 => Ends(q2, id) = {}
    BY <1>0, <1>3, <1>8 DEF OneThing
  <2>4. ASSUME NEW e \in Ends(q2, id), NEW i \in Chunks(q2, id) \cup Ends(q2, id) PROVE i <= e
    <3>1. e + d \in Ends(q, id) /\ i + d \in Chunks(q, id) \cup Ends(q, id)
        BY <1>2, <1>3
    <3>2. i + d <= e + d
        BY <1>8, <3>1 DEF OneThing
    <3> QED
        BY <1>1, <1>5, <3>2
  <2> QED
    BY <2>1, <2>2, <2>3, <2>4 DEF OneThing
<1>9. ASSUME NEW w, InOrder(a, u, q, w, id) PROVE InOrder(a2, u2, q2, w, id)
  <2>1. Reached(q2, w, id) = Reached(q, w, id)
    BY <1>2, <1>4 DEF Reached
  <2> DEFINE reached == Reached(q, w, id)
  <2>2. /\ Len(w) <= Len(id) /\ \A k \in 1..Len(w) : w[k] = id[k]
        /\ Gets(a2, id) # {} => w = <<>>
        /\ id \in DOMAIN u2 => u2[id].sent \in reached
    BY <1>0, <1>9 DEF InOrder
  <2>3. Ends(q2, id) # {} => Len(id) \in reached
    BY <1>3, <1>9 DEF InOrder
  <2>4. ASSUME NEW i \in Chunks(q2, id)
        PROVE  /\ q2[i].offset < Len(id) /\ q2[i].offset \in reached
               /\ q2[i].data = id[q2[i].offset + 1]
               /\ \A j \in Chunks(q2, id) : i < j => q2[i].offset < q2[j].offset
               /\ id \in DOMAIN u2 => q2[i].offset < u2[id].sent
    <3>1. i + d \in Chunks(q, id) /\ q2[i] = q[i + d]
        BY <1>2
    <3>2. \A j \in Chunks(q, id) : i + d < j => q[i + d].offset < q[j].offset
        BY <1>9, <3>1 DEF InOrder
    <3>3. \A j \in Chunks(q2, id) : i < j => q2[i].offset < q2[j].offset
        BY <1>1, <1>2, <1>6, <3>1, <3>2
    <3>4. /\ q[i + d].offset < Len(id) /\ q[i + d].offset \in reached
          /\ q[i + d].data = id[q[i + d].offset + 1]
          /\ id \in DOMAIN u => q[i + d].offset < u[id].sent
        BY <1>9, <3>1 DEF InOrder
    <3> QED
        BY <1>0, <3>1, <3>3, <3>4
  <2> QED
    BY <2>1, <2>2, <2>3, <2>4 DEF InOrder
<1> QED
    BY <1>7, <1>8, <1>9

\* Requests: one is sent, one is taken.
LEMMA RequestSent ==
    ASSUME NEW a \in Seq(Requests), NEW r \in Requests, NEW id
    PROVE  /\ Append(a, r) \in Seq(Requests)
           /\ r = [type |-> "Get", id |-> id] => Gets(Append(a, r), id) = Gets(a, id) \cup {Len(a) + 1}
           /\ r # [type |-> "Get", id |-> id] => Gets(Append(a, r), id) = Gets(a, id)
<1>1. /\ Len(a) \in Nat /\ Len(Append(a, r)) = Len(a) + 1 /\ Append(a, r) \in Seq(Requests)
      /\ Append(a, r)[Len(a) + 1] = r /\ \A i \in 1..Len(a) : Append(a, r)[i] = a[i]
    BY AppendProperties
<1>2. DOMAIN Append(a, r) = 1..(Len(a) + 1) /\ DOMAIN a = 1..Len(a)
    BY <1>1
<1>3. \A i \in 1..(Len(a) + 1) : i = Len(a) + 1 \/ i \in 1..Len(a)
    BY <1>1
<1>4. \A i \in 1..Len(a) : i \in 1..(Len(a) + 1) /\ i # Len(a) + 1
    BY <1>1
<1>5. Len(a) + 1 \in 1..(Len(a) + 1)
    BY <1>1
<1> QED
    BY <1>1, <1>2, <1>3, <1>4, <1>5 DEF Gets

\* Taking a request leaves at most the gets there were.
LEMMA RequestTaken ==
    ASSUME NEW a \in Seq(Requests), a # <<>>, NEW id
    PROVE  /\ Tail(a) \in Seq(Requests)
           /\ Gets(Tail(a), id) # {} => \E i \in Gets(a, id) : i # 1
           /\ \A i, j \in Gets(Tail(a), id) : (\A k, l \in Gets(a, id) : k = l) => i = j
           /\ Head(a) = [type |-> "Get", id |-> id] => 1 \in Gets(a, id)
<1>1. /\ Len(a) \in Nat \ {0} /\ Head(a) = a[1] /\ Len(Tail(a)) = Len(a) - 1 /\ Tail(a) \in Seq(Requests)
      /\ \A i \in 1..(Len(a) - 1) : Tail(a)[i] = a[i + 1]
    BY HeadTailProperties
<1>2. DOMAIN Tail(a) = 1..(Len(a) - 1) /\ DOMAIN a = 1..Len(a)
    BY <1>1
<1>3. \A i \in Gets(Tail(a), id) : i \in Nat /\ i + 1 # 1 /\ i + 1 \in Gets(a, id)
  <2> SUFFICES ASSUME NEW i \in Gets(Tail(a), id)
               PROVE  i \in Nat /\ i + 1 # 1 /\ i + 1 \in Gets(a, id)
    OBVIOUS
  <2>1. i \in 1..(Len(a) - 1) /\ Tail(a)[i] = [type |-> "Get", id |-> id]
    BY <1>2 DEF Gets
  <2>2. i \in Nat /\ i + 1 # 1 /\ i + 1 \in 1..Len(a) /\ a[i + 1] = [type |-> "Get", id |-> id]
    BY <1>1, <2>1
  <2> QED
    BY <1>2, <2>2 DEF Gets
<1>4. \A i, j \in Nat : i + 1 = j + 1 => i = j
    OBVIOUS
<1>5. Head(a) = [type |-> "Get", id |-> id] => 1 \in Gets(a, id)
    BY <1>1, <1>2 DEF Gets
<1> QED
    BY <1>1, <1>3, <1>4, <1>5

\* Messages about the resource: a chunk or the end is sent.
LEMMA ChunkSent ==
    ASSUME NEW q \in Seq(Messages), NEW m \in Messages, m.type = "Chunk"
    PROVE  LET id == m.id IN
           /\ Append(q, m) \in Seq(Messages) /\ Len(q) \in Nat
           /\ Chunks(Append(q, m), id) = Chunks(q, id) \cup {Len(q) + 1}
           /\ Ends(Append(q, m), id) = Ends(q, id)
           /\ Append(q, m)[Len(q) + 1] = m
           /\ \A i \in Chunks(q, id) : i \in Nat /\ i <= Len(q) /\ Append(q, m)[i] = q[i]
<1>1. /\ Len(q) \in Nat /\ Len(Append(q, m)) = Len(q) + 1 /\ Append(q, m) \in Seq(Messages)
      /\ Append(q, m)[Len(q) + 1] = m /\ \A i \in 1..Len(q) : Append(q, m)[i] = q[i]
    BY AppendProperties
<1>2. DOMAIN Append(q, m) = 1..(Len(q) + 1) /\ DOMAIN q = 1..Len(q)
    BY <1>1
<1>3. \A i \in 1..(Len(q) + 1) : i = Len(q) + 1 \/ i \in 1..Len(q)
    BY <1>1
<1>4. \A i \in 1..Len(q) : i \in 1..(Len(q) + 1) /\ i # Len(q) + 1 /\ i <= Len(q) /\ i \in Nat
    BY <1>1
<1>5. Len(q) + 1 \in 1..(Len(q) + 1)
    BY <1>1
<1> DEFINE new == Append(q, m)
<1> HIDE DEF new
<1>6. Chunks(new, m.id) = Chunks(q, m.id) \cup {Len(q) + 1}
    BY <1>1, <1>2, <1>3, <1>4, <1>5 DEF Chunks, OfType, new
<1>7. Ends(new, m.id) = Ends(q, m.id)
    BY <1>1, <1>2, <1>3, <1>4 DEF Ends, OfType, new
<1>8. \A i \in Chunks(q, m.id) : i \in 1..Len(q)
    BY <1>2 DEF Chunks, OfType
<1> QED
    BY <1>1, <1>4, <1>6, <1>7, <1>8 DEF new

\* An end comes behind all chunks.
LEMMA EndSent ==
    ASSUME NEW q \in Seq(Messages), NEW m \in Messages, m.type = "End"
    PROVE  LET id == m.id IN
           /\ Append(q, m) \in Seq(Messages) /\ Len(q) \in Nat
           /\ Ends(Append(q, m), id) = Ends(q, id) \cup {Len(q) + 1}
           /\ Chunks(Append(q, m), id) = Chunks(q, id)
           /\ \A i \in Chunks(q, id) : i \in Nat /\ i <= Len(q) /\ Append(q, m)[i] = q[i]
<1>1. /\ Len(q) \in Nat /\ Len(Append(q, m)) = Len(q) + 1 /\ Append(q, m) \in Seq(Messages)
      /\ Append(q, m)[Len(q) + 1] = m /\ \A i \in 1..Len(q) : Append(q, m)[i] = q[i]
    BY AppendProperties
<1>2. DOMAIN Append(q, m) = 1..(Len(q) + 1) /\ DOMAIN q = 1..Len(q)
    BY <1>1
<1>3. \A i \in 1..(Len(q) + 1) : i = Len(q) + 1 \/ i \in 1..Len(q)
    BY <1>1
<1>4. \A i \in 1..Len(q) : i \in 1..(Len(q) + 1) /\ i # Len(q) + 1 /\ i <= Len(q) /\ i \in Nat
    BY <1>1
<1>5. Len(q) + 1 \in 1..(Len(q) + 1)
    BY <1>1
<1> DEFINE new == Append(q, m)
<1> HIDE DEF new
<1>6. Ends(new, m.id) = Ends(q, m.id) \cup {Len(q) + 1}
    BY <1>1, <1>2, <1>3, <1>4, <1>5 DEF Ends, OfType, new
<1>7. Chunks(new, m.id) = Chunks(q, m.id)
    BY <1>1, <1>2, <1>3, <1>4 DEF Chunks, OfType, new
<1>8. \A i \in Chunks(q, m.id) : i \in 1..Len(q)
    BY <1>2 DEF Chunks, OfType
<1> QED
    BY <1>1, <1>4, <1>6, <1>7, <1>8 DEF new

-----------------------------------------------------------------------------
(* The steps of a transfer: from request to upload, chunk by chunk, to the *)
(* end, and on the other side into the temporary file.                     *)

\* A get becomes an upload of nothing yet.
LEMMA GetServed ==
    ASSUME NEW a \in Seq(Requests), a # <<>>, NEW id, Head(a) = [type |-> "Get", id |-> id],
           NEW u, NEW u2, NEW q, OneThing(a, u, q, id),
           id \in DOMAIN u2 => u2[id].sent = 0
    PROVE  /\ InFlight(a, u, q, id)
           /\ OneThing(Tail(a), u2, q, id)
           /\ \A w : InOrder(a, u, q, w, id) => InOrder(Tail(a), u2, q, w, id)
<1>1. 1 \in Gets(a, id) /\ Gets(Tail(a), id) = {}
    BY RequestTaken DEF OneThing
<1>2. Chunks(q, id) = {} /\ Ends(q, id) = {}
    BY <1>1 DEF OneThing
<1>3. ASSUME NEW w, InOrder(a, u, q, w, id) PROVE InOrder(Tail(a), u2, q, w, id)
  <2>1. Len(w) <= Len(id) /\ (\A k \in 1..Len(w) : w[k] = id[k]) /\ w = <<>>
    BY <1>1, <1>3 DEF InOrder
  <2>2. Len(w) \in Reached(q, w, id) /\ Len(w) = 0
    BY <2>1 DEF Reached
  <2> QED
    BY <1>1, <1>2, <2>1, <2>2 DEF InOrder
<1> QED
    BY <1>1, <1>2, <1>3 DEF InFlight, OneThing

\* A chunk goes out behind the others, and the upload has sent one more.
LEMMA ChunkFlows ==
    ASSUME NEW a, NEW u, NEW u2, NEW q \in Seq(Messages), NEW m \in Messages, NEW id,
           m.type = "Chunk", m.id = id,
           id \in DOMAIN u, u[id].sent = m.offset,
           id \in DOMAIN u2, u2[id].sent = m.offset + 1,
           OneThing(a, u, q, id)
    PROVE  /\ InFlight(a, u, q, id)
           /\ OneThing(a, u2, Append(q, m), id)
           /\ \A w : /\ InOrder(a, u, q, w, id)
                     /\ m.offset < Len(id) /\ m.data = id[m.offset + 1]
                     => InOrder(a, u2, Append(q, m), w, id)
<1> DEFINE q2 == Append(q, m)
           end == Len(q) + 1
<1>1. /\ q2 \in Seq(Messages) /\ Len(q) \in Nat
      /\ Chunks(q2, id) = Chunks(q, id) \cup {end} /\ Ends(q2, id) = Ends(q, id)
      /\ q2[end] = m
      /\ \A i \in Chunks(q, id) : i \in Nat /\ i <= Len(q) /\ q2[i] = q[i]
    BY ChunkSent
<1>2. m.offset \in Nat
    BY DEF Messages
<1>3. Gets(a, id) = {} /\ Ends(q, id) = {}
    BY DEF OneThing
<1> HIDE DEF q2
<1>4. OneThing(a, u2, q2, id)
    BY <1>1, <1>3 DEF OneThing
<1>5. ASSUME NEW w, InOrder(a, u, q, w, id), m.offset < Len(id), m.data = id[m.offset + 1]
      PROVE  InOrder(a, u2, q2, w, id)
  <2>1. Reached(q2, w, id) = Reached(q, w, id) \cup {m.offset + 1}
    BY <1>1 DEF Reached
  <2>2. /\ Len(w) <= Len(id) /\ \A k \in 1..Len(w) : w[k] = id[k]
        /\ m.offset \in Reached(q, w, id)
    BY <1>5 DEF InOrder
  <2>3. \A i \in Chunks(q, id) : q[i].offset < m.offset /\ q[i].offset \in Nat /\ ~(end < i)
    BY <1>1, <1>5, Positions DEF InOrder
  <2>4. \A i \in Chunks(q, id) :
            /\ q[i].offset < Len(id) /\ q[i].offset \in Reached(q, w, id)
            /\ q[i].data = id[q[i].offset + 1]
            /\ \A j \in Chunks(q, id) : i < j => q[i].offset < q[j].offset
    BY <1>5 DEF InOrder
  <2>5. ASSUME NEW i \in Chunks(q2, id)
        PROVE  /\ q2[i].offset < Len(id)
               /\ q2[i].offset \in Reached(q2, w, id)
               /\ q2[i].data = id[q2[i].offset + 1]
               /\ \A j \in Chunks(q2, id) : i < j => q2[i].offset < q2[j].offset
               /\ id \in DOMAIN u2 => q2[i].offset < u2[id].sent
    <3>1. CASE i = end
      <4>1. \A j \in Chunks(q2, id) : ~(end < j)
        BY <1>1, <2>3
      <4> QED
        BY <1>1, <1>2, <1>5, <2>1, <2>2, <3>1, <4>1
    <3>2. CASE i \in Chunks(q, id)
      <4>1. q2[i] = q[i] /\ q[i].offset < m.offset + 1
        BY <1>1, <1>2, <2>3, <3>2
      <4>2. \A j \in Chunks(q2, id) : i < j => q2[i].offset < q2[j].offset
        BY <1>1, <2>3, <2>4, <3>2, <4>1
      <4> QED
        BY <2>1, <2>4, <3>2, <4>1, <4>2
    <3> QED
        BY <1>1, <3>1, <3>2
  <2>6. u2[id].sent \in Reached(q2, w, id)
    BY <2>1
  <2> QED
    BY <1>1, <1>3, <2>2, <2>5, <2>6 DEF InOrder
<1> QED
    BY <1>4, <1>5 DEF InFlight, q2

\* The end goes out when all has been sent.
LEMMA EndFlows ==
    ASSUME NEW a, NEW u, NEW u2, NEW q \in Seq(Messages), NEW m \in Messages, NEW id,
           m.type = "End", m.id = id, id \in DOMAIN u, id \notin DOMAIN u2,
           OneThing(a, u, q, id)
    PROVE  /\ InFlight(a, u, q, id)
           /\ OneThing(a, u2, Append(q, m), id)
           /\ \A w : InOrder(a, u, q, w, id) /\ u[id].sent = Len(id)
                     => InOrder(a, u2, Append(q, m), w, id)
<1> DEFINE q2 == Append(q, m)
<1>1. /\ q2 \in Seq(Messages) /\ Len(q) \in Nat
      /\ Ends(q2, id) = Ends(q, id) \cup {Len(q) + 1} /\ Chunks(q2, id) = Chunks(q, id)
      /\ \A i \in Chunks(q, id) : i \in Nat /\ i <= Len(q) /\ q2[i] = q[i]
    BY EndSent
<1>2. Gets(a, id) = {} /\ Ends(q, id) = {}
    BY DEF OneThing
<1> HIDE DEF q2
<1>3. OneThing(a, u2, q2, id)
  <2>1. \A i \in Chunks(q2, id) \cup Ends(q2, id) : i <= Len(q) + 1
    BY <1>1, <1>2
  <2> QED
    BY <1>1, <1>2, <2>1 DEF OneThing
<1>4. ASSUME NEW w, InOrder(a, u, q, w, id), u[id].sent = Len(id)
      PROVE  InOrder(a, u2, q2, w, id)
  <2>1. Reached(q2, w, id) = Reached(q, w, id)
    BY <1>1 DEF Reached
  <2> QED
    BY <1>1, <1>2, <1>4, <2>1 DEF InOrder
<1> QED
    BY <1>3, <1>4 DEF InFlight, q2

\* The first chunk in the queue is the next one of the file.
LEMMA ChunkTaken ==
    ASSUME NEW a, NEW u, NEW q \in Seq(Messages), q # <<>>, NEW q2, IsTail(q2, q),
           NEW id \in Seq(Blocks),
           Head(q).type = "Chunk", Head(q).id = id, Head(q).data \in Blocks,
           OneThing(a, u, q, id)
    PROVE  /\ InFlight(a, u, q, id)
           /\ OneThing(a, u, q2, id)
           /\ \A w \in Seq(Blocks) :
                 InOrder(a, u, q, w, id) => InOrder(a, u, q2, Append(w, Head(q).data), id)
<1> DEFINE m == Head(q)
<1>1. /\ q2 \in Seq(Messages)
      /\ \A i \in Chunks(q2, id) : i \in Nat /\ i # 0 /\ i + 1 \in Chunks(q, id) /\ q2[i] = q[i + 1]
      /\ \A i \in Ends(q2, id) : i \in Nat /\ i # 0 /\ i + 1 \in Ends(q, id)
      /\ \A k \in Chunks(q, id) : k # 1 => /\ k \in Nat /\ k - 1 \in Nat /\ (k - 1) + 1 = k
                                           /\ k - 1 \in Chunks(q2, id) /\ 1 < k
      /\ 1 \in Chunks(q, id) /\ m = q[1]
  <2>1. q2 \in Seq(Messages)
    BY MessageTaken
  <2>2. \A i \in Chunks(q2, id) \cup Ends(q2, id) : i \in Nat
    BY <2>1, Positions
  <2>3. 1 \in Chunks(q, id) /\ m = q[1]
    BY MessageTaken DEF Chunks
  <2>4. ASSUME NEW k \in Chunks(q, id), k # 1
        PROVE  k \in Nat /\ k - 1 \in Nat /\ (k - 1) + 1 = k /\ k - 1 # 0 /\ 1 < k
    <3>1. k \in Nat /\ k >= 1
        BY MessageTaken
    <3> QED
        BY <2>4, <3>1
  <2>5. \A k \in Chunks(q, id) : k # 1 => k - 1 \in Chunks(q2, id)
    BY <2>4, MessageTaken
  <2> QED
    <3>1. \A i \in Chunks(q2, id) : i # 0 /\ i + 1 \in Chunks(q, id) /\ q2[i] = q[i + 1]
        BY <2>2, MessageTaken
    <3>2. \A i \in Ends(q2, id) : i # 0 /\ i + 1 \in Ends(q, id)
        BY <2>2, MessageTaken
    <3> QED
        BY <2>1, <2>2, <2>3, <2>4, <2>5, <3>1, <3>2
<1>2. Gets(a, id) = {}
    BY <1>1 DEF OneThing
<1> HIDE DEF m
<1>3. OneThing(a, u, q2, id)
  <2>1. ASSUME NEW e \in Ends(q2, id), NEW i \in Chunks(q2, id) \cup Ends(q2, id) PROVE i <= e
    <3>1. i + 1 <= e + 1 /\ i \in Nat /\ e \in Nat
        BY <1>1 DEF OneThing
    <3> QED
        BY <3>1
  <2> QED
    BY <1>1, <1>2, <2>1 DEF OneThing
<1>4. ASSUME NEW w \in Seq(Blocks), InOrder(a, u, q, w, id)
      PROVE  InOrder(a, u, q2, Append(w, m.data), id)
  <2> DEFINE w2 == Append(w, m.data)
             n == Len(w)
  <2>1. m.data \in Blocks
    BY DEF m
  <2>2. /\ n \in Nat /\ Len(w2) = n + 1 /\ w2[n + 1] = m.data /\ \A k \in 1..n : w2[k] = w[k]
    BY <2>1, AppendProperties
  <2> HIDE DEF w2, n
  <2>3. \A i \in Chunks(q, id) : q[i].offset \in Nat
    BY Positions
  <2>4. \A i \in Chunks(q, id) :
            /\ q[i].offset < Len(id) /\ q[i].offset \in Reached(q, w, id)
            /\ q[i].data = id[q[i].offset + 1]
            /\ \A j \in Chunks(q, id) : i < j => q[i].offset < q[j].offset
            /\ id \in DOMAIN u => q[i].offset < u[id].sent
    BY <1>4 DEF InOrder
  <2>5. m.offset = n
    <3>1. ASSUME m.offset # n PROVE FALSE
      <4>1. PICK j \in Chunks(q, id) : m.offset = q[j].offset + 1
        BY <1>1, <2>4, <3>1 DEF Reached, n
      <4>2. j # 1
        BY <1>1, <2>3, <4>1
      <4>3. m.offset < q[j].offset
        BY <1>1, <2>4, <4>2
      <4> QED
        BY <2>3, <4>1, <4>3
    <3> QED
        BY <3>1
  <2>6. Reached(q, w, id) \subseteq Reached(q2, w2, id) \cup {n}
    <3>1. ASSUME NEW k \in Chunks(q, id) PROVE q[k].offset + 1 \in Reached(q2, w2, id)
      <4>1. CASE k = 1
        BY <1>1, <2>2, <2>5, <4>1 DEF Reached
      <4>2. CASE k # 1
        <5>1. k - 1 \in Chunks(q2, id) /\ q2[k - 1] = q[k]
            BY <1>1, <4>2
        <5> QED
            BY <5>1 DEF Reached
      <4> QED
        BY <4>1, <4>2
    <3> QED
        BY <3>1 DEF Reached, n
  <2>7. Len(w2) <= Len(id) /\ \A k \in 1..Len(w2) : w2[k] = id[k]
    <3>1. n < Len(id) /\ m.data = id[n + 1] /\ Len(id) \in Nat
        BY <1>1, <2>4, <2>5
    <3>2. \A k \in 1..n : w[k] = id[k]
        BY <1>4 DEF InOrder, n
    <3>3. \A k \in 1..(n + 1) : k = n + 1 \/ k \in 1..n
        BY <2>2
    <3> QED
        BY <2>2, <3>1, <3>2, <3>3
  <2>8. ASSUME NEW i \in Chunks(q2, id)
        PROVE  /\ q2[i].offset < Len(id)
               /\ q2[i].offset \in Reached(q2, w2, id)
               /\ q2[i].data = id[q2[i].offset + 1]
               /\ \A j \in Chunks(q2, id) : i < j => q2[i].offset < q2[j].offset
               /\ id \in DOMAIN u => q2[i].offset < u[id].sent
    <3>1. i + 1 \in Chunks(q, id) /\ q2[i] = q[i + 1] /\ i \in Nat /\ 1 < i + 1
        BY <1>1
    <3>2. n < q2[i].offset /\ q2[i].offset \in Nat
        BY <1>1, <2>3, <2>4, <2>5, <3>1
    <3>3. q2[i].offset \in Reached(q2, w2, id)
        BY <2>2, <2>4, <2>6, <3>1, <3>2
    <3>4. ASSUME NEW j \in Chunks(q2, id), i < j PROVE q2[i].offset < q2[j].offset
      <4>1. j \in Nat /\ j + 1 \in Chunks(q, id) /\ q2[j] = q[j + 1] /\ i + 1 < j + 1
        BY <1>1, <3>1, <3>4
      <4> QED
        BY <2>4, <3>1, <4>1
    <3> QED
        BY <2>4, <3>1, <3>3, <3>4
  <2>9. id \in DOMAIN u => u[id].sent \in Reached(q2, w2, id)
    <3>1. id \in DOMAIN u => n < u[id].sent /\ u[id].sent \in Reached(q, w, id)
        BY <1>1, <1>4, <2>4, <2>5 DEF InOrder
    <3> QED
        BY <2>2, <2>6, <3>1
  <2>10. Ends(q2, id) # {} => Len(id) \in Reached(q2, w2, id)
    <3>1. Ends(q2, id) # {} => Len(id) \in Reached(q, w, id)
        BY <1>1, <1>4 DEF InOrder
    <3>2. n < Len(id) /\ Len(id) \in Nat
        BY <1>1, <2>4, <2>5
    <3> QED
        BY <2>2, <2>6, <3>1, <3>2
  <2> QED
    BY <1>2, <2>7, <2>8, <2>9, <2>10 DEF InOrder, w2
<1> QED
    BY <1>1, <1>3, <1>4 DEF InFlight, m

\* The end in front of the queue finds the file whole, and leaves nothing of
\* it.
LEMMA EndTaken ==
    ASSUME NEW a, NEW u, NEW q \in Seq(Messages), q # <<>>, NEW q2, IsTail(q2, q),
           NEW id \in Seq(Blocks),
           Head(q).type = "End", Head(q).id = id, OneThing(a, u, q, id)
    PROVE  /\ InFlight(a, u, q, id)
           /\ ~InFlight(a, u, q2, id)
           /\ OneThing(a, u, q2, id)
           /\ \A w \in Seq(Blocks) : InOrder(a, u, q, w, id) => w = id
<1>1. /\ 1 \in Ends(q, id) /\ 1 \notin Chunks(q, id)
      /\ q2 \in Seq(Messages)
    BY MessageTaken DEF Ends, Chunks
<1>2. Gets(a, id) = {} /\ id \notin DOMAIN u
    BY <1>1 DEF OneThing
<1>3. \A k \in Chunks(q, id) \cup Ends(q, id) : k = 1
  <2>1. \A k \in Chunks(q, id) \cup Ends(q, id) : k \in Nat /\ k >= 1 /\ k <= 1
    BY <1>1, MessageTaken DEF OneThing
  <2> QED
    BY <2>1
<1>4. Chunks(q2, id) = {} /\ Ends(q2, id) = {}
  <2>1. \A i \in Chunks(q2, id) \cup Ends(q2, id) :
            i \in Nat /\ i # 0 /\ i + 1 \in Chunks(q, id) \cup Ends(q, id)
    <3>1. \A i \in Chunks(q2, id) \cup Ends(q2, id) : i \in Nat
        BY <1>1, Positions
    <3>2. \A i \in Chunks(q2, id) : i # 0 /\ i + 1 \in Chunks(q, id)
        BY <3>1, MessageTaken
    <3>3. \A i \in Ends(q2, id) : i # 0 /\ i + 1 \in Ends(q, id)
        BY <3>1, MessageTaken
    <3> QED
        BY <3>1, <3>2, <3>3
  <2>2. \A i \in Nat : i # 0 => i + 1 # 1
    OBVIOUS
  <2> QED
    BY <1>3, <2>1, <2>2
<1>5. ASSUME NEW w \in Seq(Blocks), InOrder(a, u, q, w, id) PROVE w = id
  <2>1. Chunks(q, id) = {}
    BY <1>1, <1>3
  <2>2. Len(w) = Len(id) /\ \A k \in 1..Len(w) : w[k] = id[k]
    BY <1>1, <1>5, <2>1 DEF InOrder, Reached
  <2> QED
    BY <2>2
<1> QED
    BY <1>1, <1>2, <1>4, <1>5 DEF InFlight, OneThing

-----------------------------------------------------------------------------
(* The steps of the specification.                                         *)

FlowAt(s, id) ==
    /\ InFlight(asked[s], uploads[s], answers[s], id) =>
          id \in DOMAIN downloads /\ downloads[id].from = s
    /\ OneThing(asked[s], uploads[s], answers[s], id)
OrderAt(s, id) ==
    s \notin unsteady /\ id \in DOMAIN downloads /\ downloads[id].from = s =>
        InOrder(asked[s], uploads[s], answers[s], temp[Temp(id)], id)

\* The two invariants of transfers, by server and resource.
LEMMA FlowsAre ==
    ASSUME TypeOK
    PROVE  /\ OneTransferEach <=> \A s \in Servers, id \in Ids : FlowAt(s, id)
           /\ ChunksInOrder <=> \A s \in Servers, id \in Ids : OrderAt(s, id)
<1>1. DOMAIN downloads \subseteq Ids
    BY DEF TypeOK, IsMap
<1>2. OneTransferEach <=> \A s \in Servers, id \in Ids : FlowAt(s, id)
    BY DEF OneTransferEach, FlowAt
<1>3. ChunksInOrder <=> \A s \in Servers, id \in Ids : OrderAt(s, id)
    BY <1>1 DEF ChunksInOrder, OrderAt
<1> QED
    BY <1>2, <1>3

\* A step that does not concern a resource on a connection.
DownloadKept(id) ==
    /\ id \in DOMAIN downloads' <=> id \in DOMAIN downloads
    /\ id \in DOMAIN downloads => /\ downloads'[id].from = downloads[id].from
                                  /\ temp'[id] = temp[id]

\* A step on other resources leaves a transfer in order.
LEMMA Unconcerned ==
    ASSUME NEW s \in Servers, NEW id \in Ids, FlowAt(s, id), OrderAt(s, id),
           ConnectionKept(asked'[s], uploads'[s], answers'[s], asked[s], uploads[s], answers[s], id),
           DownloadKept(id), unsteady \subseteq unsteady'
    PROVE  FlowAt(s, id)' /\ OrderAt(s, id)'
<1>1. /\ InFlight(asked'[s], uploads'[s], answers'[s], id) => InFlight(asked[s], uploads[s], answers[s], id)
      /\ OneThing(asked[s], uploads[s], answers[s], id) => OneThing(asked'[s], uploads'[s], answers'[s], id)
      /\ \A w : InOrder(asked[s], uploads[s], answers[s], w, id) =>
                InOrder(asked'[s], uploads'[s], answers'[s], w, id)
    BY FlowKept
<1>2. FlowAt(s, id)'
    BY <1>1 DEF FlowAt, DownloadKept
<1>3. OrderAt(s, id)'
    BY <1>1 DEF OrderAt, DownloadKept, Temp
<1> QED
    BY <1>2, <1>3

\* What a server sends.
ListAnswer(s) ==
    [type |-> "Resources", names |-> [id \in DOMAIN index[s] |-> NameOf[index[s][id]]]]
NextChunk(s, id) ==
    [type |-> "Chunk", id |-> id, offset |-> (uploads[s][id].sent + 1) - 1,
     data |-> disk[s][uploads[s][id].path][uploads[s][id].sent + 1]]

\* What servers send has its type.
LEMMA SentTypes ==
    ASSUME TypeOK, NEW s \in Servers
    PROVE  /\ ListAnswer(s) \in Messages /\ ListAnswer(s).type = "Resources"
           /\ \A id \in Ids : UploadChunk(s, id) =>
                /\ NextChunk(s, id) \in Messages
                /\ NextChunk(s, id).type = "Chunk" /\ NextChunk(s, id).id = id
                /\ NextChunk(s, id).offset = uploads[s][id].sent
<1>1. ListAnswer(s) \in Messages /\ ListAnswer(s).type = "Resources"
  <2> DEFINE names == [id \in DOMAIN index[s] |-> NameOf[index[s][id]]]
  <2>1. DOMAIN index[s] \in SUBSET Ids /\ \A id \in DOMAIN index[s] : index[s][id] \in Paths
    BY DEF TypeOK, IsMap
  <2>2. names \in [DOMAIN index[s] -> Names]
    BY <2>1 DEF Names
  <2> QED
    BY <2>1, <2>2 DEF ListAnswer, Messages
<1>2. ASSUME NEW id \in Ids, UploadChunk(s, id)
      PROVE  /\ NextChunk(s, id) \in Messages
             /\ NextChunk(s, id).type = "Chunk" /\ NextChunk(s, id).id = id
             /\ NextChunk(s, id).offset = uploads[s][id].sent
  <2> DEFINE n == uploads[s][id].sent + 1
             file == disk[s][uploads[s][id].path]
  <2>1. id \in DOMAIN uploads[s] /\ n <= Len(file)
    BY <1>2 DEF UploadChunk
  <2>2. uploads[s][id].sent \in Nat /\ uploads[s][id].path \in Paths /\ file # NoFile
    BY <2>1 DEF TypeOK, IsMap, Uploads
  <2>3. file \in Seq(Blocks)
    BY <2>2, ContentsAssumption DEF TypeOK
  <2> HIDE DEF file
  <2>4. n \in 1..Len(file) /\ n - 1 \in Nat /\ n - 1 = uploads[s][id].sent
    BY <2>1, <2>2, <2>3
  <2>5. file[n] \in Blocks
    BY <2>3, <2>4
  <2> QED
    BY <2>4, <2>5 DEF NextChunk, Messages, file
<1> QED
    BY <1>1, <1>2

\* The queues: what is under way keeps its types.
LEMMA QueueStep ==
    ASSUME TypeOK, Next
    PROVE  QueueTypes'
<1>0. QueueTypes
    BY TypeParts
<1>1. ASSUME NEW s \in Servers, NEW r \in Requests, asked' = [asked EXCEPT ![s] = Append(@, r)]
      PROVE  asked' \in [Servers -> Seq(Requests)]
    BY <1>0, <1>1, AppendProperties DEF QueueTypes
<1>2. ASSUME NEW s \in Servers, asked[s] # <<>>, NextRequest(s)
      PROVE  asked' \in [Servers -> Seq(Requests)]
    BY <1>0, <1>2, HeadTailProperties DEF QueueTypes, NextRequest
<1>3. ASSUME NEW s \in Servers, NEW m \in Messages, Reply(s, m)
      PROVE  answers' \in [Servers -> Seq(Messages)]
    BY <1>0, <1>3, AppendProperties DEF QueueTypes, Reply
<1>4. ASSUME NEW s \in Servers, NEW type, NextAnswer(s, type)
      PROVE  answers' \in [Servers -> Seq(Messages)]
    BY <1>0, <1>4, HeadTailProperties DEF QueueTypes, NextAnswer
<1>5. ASSUME NEW s \in Servers, NEW p \in Paths, Edit(s, p) \/ AddResource(s, p) PROVE QueueTypes'
    BY <1>0, <1>5, BoundsAssumption DEF QueueTypes, Edit, AddResource, Changes
<1>6. ASSUME NEW s \in Servers, Restart(s) PROVE QueueTypes'
  <2>1. /\ asked' = [asked EXCEPT ![s] = <<>>] /\ answers' = [answers EXCEPT ![s] = <<>>]
        /\ changes < MaxChanges /\ changes' = changes + 1 /\ asks' = asks
    BY <1>6 DEF Restart, Disconnected, Changes
  <2> QED
    BY <1>0, <2>1, BoundsAssumption DEF QueueTypes
<1>7. ASSUME NEW s \in Servers, ServeList(s) PROVE QueueTypes'
  <2>1. /\ asked[s] # <<>> /\ NextRequest(s) /\ Reply(s, ListAnswer(s))
        /\ UNCHANGED <<changes, asks>>
    BY <1>7 DEF ServeList, ListAnswer
  <2> QED
    BY <1>0, <1>2, <1>3, <2>1, SentTypes DEF QueueTypes
<1>8. ASSUME NEW s \in Servers, ServeGet(s) PROVE QueueTypes'
    BY <1>0, <1>2, <1>8 DEF ServeGet, QueueTypes
<1>9. ASSUME NEW s \in Servers, NEW id \in Ids, UploadChunk(s, id) PROVE QueueTypes'
  <2>1. Reply(s, NextChunk(s, id)) /\ UNCHANGED <<asked, changes, asks>>
    BY <1>9 DEF UploadChunk, NextChunk
  <2> QED
    BY <1>0, <1>3, <1>9, <2>1, SentTypes DEF QueueTypes
<1>10. ASSUME NEW s \in Servers, NEW id \in Ids, UploadEnd(s, id) PROVE QueueTypes'
  <2>1. [type |-> "End", id |-> id] \in Messages
    BY DEF Messages
  <2> QED
    BY <1>0, <1>3, <1>10, <2>1 DEF UploadEnd, QueueTypes
<1>11. ASSUME NEW s \in Servers, AskList(s) PROVE QueueTypes'
  <2>1. [type |-> "List"] \in Requests
    BY DEF Requests
  <2> QED
    BY <1>0, <1>1, <1>11, <2>1, BoundsAssumption DEF AskList, Ask, QueueTypes
<1>12. ASSUME NEW s \in Servers, NEW a \in DOMAIN aliases, AskGet(s, a) PROVE QueueTypes'
  <2>1. aliases[a] \in Ids /\ [type |-> "Get", id |-> aliases[a]] \in Requests
    BY DEF Requests, TypeOK
  <2> QED
    BY <1>0, <1>1, <1>12, <2>1, BoundsAssumption DEF AskGet, Ask, QueueTypes
<1>13. ASSUME NEW id \in Ids, AskAdd(id) PROVE QueueTypes'
    BY <1>0, <1>13, BoundsAssumption DEF AskAdd, Ask, QueueTypes
<1>14. ASSUME NEW s \in Servers, Handle(s) PROVE QueueTypes'
    BY <1>0, <1>4, <1>14 DEF Handle, HandleResources, HandleChunk, HandleEnd, QueueTypes
<1> QED
    BY <1>5, <1>6, <1>7, <1>8, <1>9, <1>10, <1>11, <1>12, <1>13, <1>14 DEF Next, Serve

\* Types of the servers are preserved.
LEMMA ServersStep ==
    ASSUME TypeOK, Next
    PROVE  ServerTypes'
<1>0. ServerTypes
    BY TypeParts
<1>1. ASSUME NEW s \in Servers, ServeList(s) \/ AskList(s) \/ Handle(s) PROVE ServerTypes'
    BY <1>0, <1>1 DEF ServeList, AskList, Handle, HandleResources, HandleChunk, HandleEnd,
                      ServerTypes, serverVars
<1>2. ASSUME NEW s \in Servers, NEW a \in DOMAIN aliases, AskGet(s, a) PROVE ServerTypes'
    BY <1>0, <1>2 DEF AskGet, ServerTypes, serverVars
<1>3. ASSUME NEW id \in Ids, AskAdd(id) PROVE ServerTypes'
    BY <1>0, <1>3 DEF AskAdd, ServerTypes, serverVars
<1>4. ASSUME NEW s \in Servers, ServeGet(s) PROVE ServerTypes'
  <2>1. Head(asked[s]).id \in Ids
    BY <1>4, NextInTypes DEF ServeGet
  <2> QED
    BY <1>0, <1>4, <2>1, ServerStepTypes
<1>5. ASSUME NEW s \in Servers, NEW id \in Ids, UploadChunk(s, id) \/ UploadEnd(s, id) PROVE ServerTypes'
    BY <1>0, <1>5, ServerStepTypes
<1>6. ASSUME NEW s \in Servers, NEW p \in Paths, Edit(s, p) \/ AddResource(s, p) PROVE ServerTypes'
    BY <1>0, <1>6, ServerStepTypes
<1>7. ASSUME NEW s \in Servers, Restart(s) PROVE ServerTypes'
    BY <1>0, <1>7, ServerStepTypes
<1> QED
    BY <1>1, <1>2, <1>3, <1>4, <1>5, <1>6, <1>7 DEF Next, Serve

\* All types are preserved.
LEMMA TypesStep ==
    ASSUME TypeOK, RegistrySound, Next
    PROVE  TypeOK'
<1>1. ServerTypes' /\ DownloadTypes' /\ QueueTypes' /\ RegistryTypes'
    BY ServersStep, DownloadStep, QueueStep, RegistryStep DEF RegistrySound
<1> QED
    BY <1>1 DEF TypeOK, ServerTypes, RegistryTypes, DownloadTypes, QueueTypes

\* What the uploads and requests of a server become, action by action.
LEMMA UploadsBecome ==
    ASSUME TypeOK, NEW s \in Servers
    PROVE  /\ ServeGet(s) => /\ uploads' = [t \in Servers |-> uploads'[t]]
                             /\ \A t \in Servers : t # s => uploads'[t] = uploads[t]
                             /\ LET id == Head(asked[s]).id
                                    file == [path |-> index[s][id], sent |-> 0]
                                IN  uploads'[s] = IF HasFile(s, id) THEN Put(uploads[s], id, file)
                                                  ELSE uploads[s]
           /\ \A id \in Ids : UploadChunk(s, id) =>
                /\ \A t \in Servers : t # s => uploads'[t] = uploads[t]
                /\ id \in DOMAIN uploads[s]
                /\ uploads'[s] = [uploads[s] EXCEPT ![id].sent = uploads[s][id].sent + 1]
           /\ \A id \in Ids : UploadEnd(s, id) =>
                /\ \A t \in Servers : t # s => uploads'[t] = uploads[t]
                /\ id \in DOMAIN uploads[s] /\ uploads'[s] = Drop(uploads[s], id)
<1>0. uploads = [t \in Servers |-> uploads[t]]
    BY DEF TypeOK
<1>1. ASSUME ServeGet(s)
      PROVE  /\ uploads' = [t \in Servers |-> uploads'[t]]
             /\ \A t \in Servers : t # s => uploads'[t] = uploads[t]
             /\ LET id == Head(asked[s]).id
                    file == [path |-> index[s][id], sent |-> 0]
                IN  uploads'[s] = IF HasFile(s, id) THEN Put(uploads[s], id, file) ELSE uploads[s]
  <2> DEFINE id == Head(asked[s]).id
             map == Put(uploads[s], id, [path |-> index[s][id], sent |-> 0])
  <2>1. uploads' = IF HasFile(s, id) THEN [uploads EXCEPT ![s] = map] ELSE uploads
    BY <1>1 DEF ServeGet
  <2> HIDE DEF id, map
  <2>2. CASE HasFile(s, id)
    <3>1. uploads' = [uploads EXCEPT ![s] = map]
        BY <2>1, <2>2
    <3>2. /\ uploads' = [t \in Servers |-> uploads'[t]] /\ uploads'[s] = map
          /\ \A t \in Servers : t # s => uploads'[t] = uploads[t]
        BY <1>0, <3>1, Updated
    <3> QED
        BY <2>2, <3>2 DEF id, map
  <2>3. CASE ~HasFile(s, id)
    BY <1>0, <2>1, <2>3 DEF id
  <2> QED
    BY <2>2, <2>3
<1>2. ASSUME NEW id \in Ids, UploadChunk(s, id)
      PROVE  /\ \A t \in Servers : t # s => uploads'[t] = uploads[t]
             /\ id \in DOMAIN uploads[s]
             /\ uploads'[s] = [uploads[s] EXCEPT ![id].sent = uploads[s][id].sent + 1]
  <2> DEFINE map == [uploads[s] EXCEPT ![id].sent = uploads[s][id].sent + 1]
  <2>1. id \in DOMAIN uploads[s] /\ uploads' = [uploads EXCEPT ![s] = map]
    BY <1>2 DEF UploadChunk
  <2> HIDE DEF map
  <2> QED
    BY <1>0, <2>1, Updated DEF map
<1>3. ASSUME NEW id \in Ids, UploadEnd(s, id)
      PROVE  /\ \A t \in Servers : t # s => uploads'[t] = uploads[t]
             /\ id \in DOMAIN uploads[s] /\ uploads'[s] = Drop(uploads[s], id)
  <2>1. id \in DOMAIN uploads[s] /\ uploads' = [uploads EXCEPT ![s] = Drop(uploads[s], id)]
    BY <1>3 DEF UploadEnd
  <2> QED
    BY <1>0, <2>1, Updated
<1> QED
    BY <1>1, <1>2, <1>3

\* An upload of a steady server, before and after a step.
SteadyAt(s) ==
    s \notin unsteady =>
        /\ \A id \in DOMAIN index[s] : disk[s][index[s][id]] = id
        /\ \A id \in DOMAIN uploads[s] : /\ disk[s][uploads[s][id].path] = id
                                         /\ uploads[s][id].sent <= Len(id)

\* Steadiness by server.
LEMMA SteadyIs == SteadyFiles <=> \A s \in Servers : SteadyAt(s)
BY DEF SteadyFiles, SteadyAt

\* An id is the content that was hashed.
LEMMA IdsAreContents == \A id \in Ids : id \in Seq(Blocks) /\ Len(id) \in Nat
BY ContentsAssumption DEF Ids

\* A server that is not marked as unsteady serves what it hashed.
LEMMA SteadyStep ==
    ASSUME TypeOK, SteadyFiles, Next
    PROVE  SteadyFiles'
<1>0. \A t \in Servers : SteadyAt(t)
    BY SteadyIs
<1>1. ASSUME NEW t \in Servers, disk'[t] = disk[t], index'[t] = index[t], uploads'[t] = uploads[t],
             unsteady \subseteq unsteady'
      PROVE  SteadyAt(t)'
    BY <1>0, <1>1 DEF SteadyAt
<1>2. ASSUME NEW t \in Servers, t \in unsteady'
      PROVE  SteadyAt(t)'
    BY <1>2 DEF SteadyAt
<1>3. ASSUME NEW s \in Servers, NEW p \in Paths, Edit(s, p) PROVE \A t \in Servers : SteadyAt(t)'
  <2>1. /\ \E c : disk' = [disk EXCEPT ![s][p] = c]
        /\ UNCHANGED <<index, uploads>> /\ unsteady' = unsteady \cup {s}
    BY <1>3 DEF Edit, Changes
  <2>2. \A t \in Servers : t # s => disk'[t] = disk[t]
    BY <2>1 DEF TypeOK
  <2> QED
    BY <1>1, <1>2, <2>1, <2>2
<1>4. ASSUME NEW s \in Servers, NEW p \in Paths, AddResource(s, p) PROVE \A t \in Servers : SteadyAt(t)'
  <2>1. PICK id \in Hashed(disk[s][p]) :
            /\ index' = [index EXCEPT ![s] = Put(@, id, p)]
            /\ unsteady' = IF id = disk[s][p] THEN unsteady ELSE unsteady \cup {s}
    BY <1>4 DEF AddResource
  <2>2. UNCHANGED <<disk, uploads>>
    BY <1>4 DEF AddResource
  <2>3. index'[s] = Put(index[s], id, p) /\ \A t \in Servers : t # s => index'[t] = index[t]
    BY <2>1, Updated DEF TypeOK
  <2>4. id = disk[s][p] => SteadyAt(s)'
    BY <1>0, <2>1, <2>2, <2>3 DEF SteadyAt, Put
  <2> QED
    BY <1>1, <1>2, <2>1, <2>2, <2>3, <2>4
<1>5. ASSUME NEW s \in Servers, Restart(s) PROVE \A t \in Servers : SteadyAt(t)'
  <2>1. /\ uploads' = [uploads EXCEPT ![s] = Empty] /\ \E kept : index' = [index EXCEPT ![s] = kept]
        /\ disk' = disk /\ unsteady' = unsteady \cup {s}
    BY <1>5 DEF Restart, Disconnected, Changes
  <2>2. \A t \in Servers : t # s => uploads'[t] = uploads[t] /\ index'[t] = index[t]
    BY <2>1, Updated DEF TypeOK
  <2> QED
    BY <1>1, <1>2, <2>1, <2>2
<1>6. ASSUME NEW s \in Servers, ServeGet(s) PROVE \A t \in Servers : SteadyAt(t)'
  <2> DEFINE id == Head(asked[s]).id
             file == [path |-> index[s][id], sent |-> 0]
  <2>1. UNCHANGED <<disk, index, unsteady>> /\ id \in Ids
    BY <1>6, NextInTypes DEF ServeGet
  <2>2. /\ \A t \in Servers : t # s => uploads'[t] = uploads[t]
        /\ uploads'[s] = IF HasFile(s, id) THEN Put(uploads[s], id, file) ELSE uploads[s]
    BY <1>6, UploadsBecome
  <2>3. ASSUME HasFile(s, id) PROVE SteadyAt(s)'
    <3>1. file.path = index[s][id] /\ file.sent = 0 /\ id \in DOMAIN index[s] /\ 0 <= Len(id)
        BY <2>1, <2>3, IdsAreContents DEF HasFile
    <3> HIDE DEF id, file
    <3>2. uploads'[s] = Put(uploads[s], id, file)
        BY <2>2, <2>3
    <3> QED
        BY <1>0, <2>1, <3>1, <3>2 DEF SteadyAt, Put
  <2>4. ~HasFile(s, id) => SteadyAt(s)'
    BY <1>1, <2>1, <2>2
  <2> QED
    BY <1>1, <2>1, <2>2, <2>3, <2>4
<1>7. ASSUME NEW s \in Servers, NEW id \in Ids, UploadChunk(s, id) PROVE \A t \in Servers : SteadyAt(t)'
  <2>1. /\ UNCHANGED <<disk, index, unsteady>>
        /\ uploads[s][id].sent + 1 <= Len(disk[s][uploads[s][id].path])
    BY <1>7 DEF UploadChunk
  <2>2. /\ \A t \in Servers : t # s => uploads'[t] = uploads[t]
        /\ id \in DOMAIN uploads[s]
        /\ uploads'[s] = [uploads[s] EXCEPT ![id].sent = uploads[s][id].sent + 1]
    BY <1>7, UploadsBecome
  <2>3. uploads[s] \in [DOMAIN uploads[s] -> Uploads]
    BY DEF TypeOK, IsMap
  <2>4. /\ DOMAIN uploads'[s] = DOMAIN uploads[s]
        /\ \A jd \in DOMAIN uploads[s] :
              /\ uploads'[s][jd].path = uploads[s][jd].path
              /\ jd # id => uploads'[s][jd].sent = uploads[s][jd].sent
        /\ uploads'[s][id].sent = uploads[s][id].sent + 1
    BY <2>2, <2>3 DEF Uploads
  <2>5. SteadyAt(s)'
    <3>1. SUFFICES ASSUME s \notin unsteady
                   PROVE  /\ \A jd \in DOMAIN index[s] : disk[s][index[s][jd]] = jd
                          /\ \A jd \in DOMAIN uploads'[s] : /\ disk[s][uploads'[s][jd].path] = jd
                                                            /\ uploads'[s][jd].sent <= Len(jd)
        BY <2>1 DEF SteadyAt
    <3>2. \A jd \in DOMAIN uploads[s] : /\ disk[s][uploads[s][jd].path] = jd
                                        /\ uploads[s][jd].sent <= Len(jd)
        BY <1>0, <3>1 DEF SteadyAt
    <3>3. uploads'[s][id].sent <= Len(id)
        BY <2>1, <2>2, <2>4, <3>2
    <3> QED
        BY <1>0, <2>4, <3>1, <3>2, <3>3 DEF SteadyAt
  <2> QED
    BY <1>1, <2>1, <2>2, <2>5
<1>8. ASSUME NEW s \in Servers, NEW id \in Ids, UploadEnd(s, id) PROVE \A t \in Servers : SteadyAt(t)'
  <2>1. UNCHANGED <<disk, index, unsteady>>
    BY <1>8 DEF UploadEnd
  <2>2. /\ \A t \in Servers : t # s => uploads'[t] = uploads[t]
        /\ uploads'[s] = Drop(uploads[s], id)
    BY <1>8, UploadsBecome
  <2>3. SteadyAt(s)'
    BY <1>0, <2>1, <2>2 DEF SteadyAt, Drop
  <2> QED
    BY <1>1, <2>1, <2>2, <2>3
<1>9. ASSUME UNCHANGED <<disk, index, uploads, unsteady>> PROVE \A t \in Servers : SteadyAt(t)'
    BY <1>1, <1>9
<1>10. \/ \E s \in Servers : \/ Restart(s) \/ ServeGet(s)
                             \/ \E p \in Paths : Edit(s, p) \/ AddResource(s, p)
                             \/ \E id \in Ids : UploadChunk(s, id) \/ UploadEnd(s, id)
       \/ UNCHANGED <<disk, index, uploads, unsteady>>
  <2>1. ASSUME NEW s \in Servers, ServeList(s) \/ AskList(s) \/ Handle(s)
        PROVE  UNCHANGED <<disk, index, uploads, unsteady>>
    BY <2>1 DEF ServeList, AskList, Handle, HandleResources, HandleChunk, HandleEnd, serverVars
  <2>2. ASSUME NEW s \in Servers, NEW a \in DOMAIN aliases, AskGet(s, a)
        PROVE  UNCHANGED <<disk, index, uploads, unsteady>>
    BY <2>2 DEF AskGet, serverVars
  <2>3. ASSUME NEW id \in Ids, AskAdd(id) PROVE UNCHANGED <<disk, index, uploads, unsteady>>
    BY <2>3 DEF AskAdd, serverVars
  <2> QED
    BY <2>1, <2>2, <2>3 DEF Next, Serve
<1> QED
  <2>1. \A t \in Servers : SteadyAt(t)'
    BY <1>3, <1>4, <1>5, <1>6, <1>7, <1>8, <1>9, <1>10
  <2> QED
    BY <2>1 DEF SteadyFiles, SteadyAt

-----------------------------------------------------------------------------
(* The transfers, step by step.                                            *)

FlowsSound == \A t \in Servers, jd \in Ids : FlowAt(t, jd) /\ OrderAt(t, jd)

\* On the other connections nothing happens.
LEMMA OtherConnections ==
    ASSUME TypeOK, FlowsSound, NEW s \in Servers, NEW t \in Servers, t # s,
           asked'[t] = asked[t], answers'[t] = answers[t], uploads'[t] = uploads[t],
           NEW jd \in Ids, DownloadKept(jd), unsteady \subseteq unsteady'
    PROVE  FlowAt(t, jd)' /\ OrderAt(t, jd)'
<1>1. answers[t] \in Seq(Messages)
    BY DEF TypeOK
<1>2. ConnectionKept(asked[t], uploads[t], answers[t], asked[t], uploads[t], answers[t], jd)
    BY <1>1, SameConnection
<1>3. ConnectionKept(asked'[t], uploads'[t], answers'[t], asked[t], uploads[t], answers[t], jd)
    BY <1>2
<1> QED
    BY <1>3, Unconcerned DEF FlowsSound

\* Steps that concern no resource.
LEMMA QuietFlows ==
    ASSUME TypeOK, FlowsSound, NEW s \in Servers,
           \/ \E p \in Paths : Edit(s, p) \/ AddResource(s, p)
           \/ ServeList(s) \/ AskList(s) \/ HandleResources(s)
           \/ \E id \in Ids : AskAdd(id)
    PROVE  \A t \in Servers, jd \in Ids : FlowAt(t, jd)' /\ OrderAt(t, jd)'
<1>0. /\ asked[s] \in Seq(Requests) /\ answers[s] \in Seq(Messages)
      /\ asked \in [Servers -> Seq(Requests)] /\ answers \in [Servers -> Seq(Messages)]
    BY DEF TypeOK
<1>1. UNCHANGED <<uploads, downloads, temp>> /\ unsteady \subseteq unsteady'
  <2>1. ASSUME NEW p \in Paths, Edit(s, p) \/ AddResource(s, p)
        PROVE  UNCHANGED <<uploads, downloads, temp>> /\ unsteady \subseteq unsteady'
    BY <2>1 DEF Edit, AddResource, Changes, clientVars
  <2>2. ASSUME NEW id \in Ids, AskAdd(id)
        PROVE  UNCHANGED <<uploads, downloads, temp>> /\ unsteady \subseteq unsteady'
    BY <2>2 DEF AskAdd, serverVars
  <2>3. ASSUME ServeList(s) \/ AskList(s) \/ HandleResources(s)
        PROVE  UNCHANGED <<uploads, downloads, temp>> /\ unsteady \subseteq unsteady'
    BY <2>3 DEF ServeList, AskList, HandleResources, serverVars, clientVars
  <2> QED
    BY <2>1, <2>2, <2>3
<1>2. \A jd \in Ids : DownloadKept(jd)
    BY <1>1 DEF DownloadKept
<1>3. /\ \A t \in Servers : t # s => asked'[t] = asked[t] /\ answers'[t] = answers[t]
      /\ \A jd \in Ids : ConnectionKept(asked'[s], uploads[s], answers'[s],
                                        asked[s], uploads[s], answers[s], jd)
  <2>1. CASE UNCHANGED <<asked, answers>>
    BY <1>0, <2>1, SameConnection
  <2>2. CASE ServeList(s)
    <3> DEFINE m == ListAnswer(s)
    <3>1. /\ asked[s] # <<>> /\ asked' = [asked EXCEPT ![s] = Tail(asked[s])]
          /\ answers' = [answers EXCEPT ![s] = Append(answers[s], m)]
        BY <2>2 DEF ServeList, NextRequest, Reply, ListAnswer
    <3>2. m \in Messages /\ m.type = "Resources"
        BY SentTypes
    <3> HIDE DEF m
    <3>3. /\ asked'[s] = Tail(asked[s]) /\ answers'[s] = Append(answers[s], m)
          /\ \A t \in Servers : t # s => asked'[t] = asked[t] /\ answers'[t] = answers[t]
          /\ answers'[s] \in Seq(Messages)
        BY <1>0, <3>1, <3>2
    <3>4. ASSUME NEW jd \in Ids
          PROVE  ConnectionKept(asked'[s], uploads[s], answers'[s], asked[s], uploads[s], answers[s], jd)
      <4>1. Shifted(answers'[s], answers[s], 0, jd)
        BY <1>0, <3>2, <3>3, OtherMessageLeft
      <4>2. /\ \A i, j \in Gets(asked'[s], jd) : (\A k, l \in Gets(asked[s], jd) : k = l) => i = j
            /\ Gets(asked'[s], jd) # {} => Gets(asked[s], jd) # {}
        BY <1>0, <3>1, <3>3, RequestTaken
      <4> QED
        BY <3>3, <4>1, <4>2 DEF ConnectionKept
    <3> QED
        BY <3>3, <3>4
  <2>3. CASE AskList(s)
    <3>1. asked' = [asked EXCEPT ![s] = Append(asked[s], [type |-> "List"])] /\ answers' = answers
        BY <2>3 DEF AskList
    <3>2. asked'[s] = Append(asked[s], [type |-> "List"]) /\ \A t \in Servers : t # s => asked'[t] = asked[t]
        BY <1>0, <3>1
    <3>3. [type |-> "List"] \in Requests /\ \A jd : [type |-> "List"] # [type |-> "Get", id |-> jd]
        BY DEF Requests
    <3>4. \A jd \in Ids : Gets(asked'[s], jd) = Gets(asked[s], jd)
        BY <1>0, <3>2, <3>3, RequestSent
    <3>5. \A jd \in Ids : Shifted(answers'[s], answers[s], 0, jd)
        BY <1>0, <3>1, NothingShifted
    <3> QED
        BY <1>0, <3>1, <3>2, <3>4, <3>5 DEF ConnectionKept
  <2>4. CASE HandleResources(s)
    <3>1. /\ answers[s] # <<>> /\ Head(answers[s]).type = "Resources" /\ asked' = asked
          /\ answers' = [answers EXCEPT ![s] = Tail(answers[s])]
        BY <2>4 DEF HandleResources, NextAnswer
    <3>2. answers'[s] = Tail(answers[s]) /\ \A t \in Servers : t # s => answers'[t] = answers[t]
        BY <1>0, <3>1
    <3>3. IsTail(answers'[s], answers[s]) /\ answers'[s] \in Seq(Messages)
        BY <1>0, <3>1, <3>2 DEF IsTail
    <3>4. \A jd \in Ids : Shifted(answers'[s], answers[s], 1, jd)
        BY <1>0, <3>1, <3>3, OtherMessageTaken
    <3> QED
        BY <3>1, <3>2, <3>3, <3>4 DEF ConnectionKept
  <2>5. ASSUME NEW p \in Paths, Edit(s, p) \/ AddResource(s, p) PROVE UNCHANGED <<asked, answers>>
    BY <2>5 DEF Edit, AddResource
  <2>6. ASSUME NEW id \in Ids, AskAdd(id) PROVE UNCHANGED <<asked, answers>>
    BY <2>6 DEF AskAdd
  <2> QED
    BY <2>1, <2>2, <2>3, <2>4, <2>5, <2>6
<1>4. ASSUME NEW t \in Servers, NEW jd \in Ids PROVE FlowAt(t, jd)' /\ OrderAt(t, jd)'
  <2>1. CASE t = s
    <3>1. ConnectionKept(asked'[t], uploads'[t], answers'[t], asked[t], uploads[t], answers[t], jd)
        BY <1>1, <1>3, <2>1
    <3> QED
        BY <1>1, <1>2, <3>1, Unconcerned DEF FlowsSound
  <2>2. CASE t # s
    BY <1>1, <1>2, <1>3, <2>2, OtherConnections
  <2> QED
    BY <2>1, <2>2
<1> QED
    BY <1>4

\* A request is served: the upload of the resource starts, or nothing is sent.
LEMMA ServeGetFlows ==
    ASSUME TypeOK, FlowsSound, NEW s \in Servers, ServeGet(s)
    PROVE  \A t \in Servers, jd \in Ids : FlowAt(t, jd)' /\ OrderAt(t, jd)'
<1>0. PICK id : id = Head(asked[s]).id
    OBVIOUS
<1> DEFINE file == [path |-> index[s][id], sent |-> 0]
<1>1. /\ asked[s] \in Seq(Requests) /\ answers[s] \in Seq(Messages)
      /\ asked \in [Servers -> Seq(Requests)]
    BY DEF TypeOK
<1>2. /\ asked[s] # <<>> /\ Head(asked[s]) = [type |-> "Get", id |-> id] /\ id \in Ids
      /\ UNCHANGED <<answers, downloads, temp, unsteady>>
    BY <1>0, NextInTypes DEF ServeGet, clientVars
<1>3. asked' = [asked EXCEPT ![s] = Tail(asked[s])]
    BY DEF ServeGet, NextRequest
<1>4. asked'[s] = Tail(asked[s]) /\ \A t \in Servers : t # s => asked'[t] = asked[t]
    BY <1>1, <1>3
<1>5. /\ \A t \in Servers : t # s => uploads'[t] = uploads[t]
      /\ uploads'[s] = IF HasFile(s, id) THEN Put(uploads[s], id, file) ELSE uploads[s]
    BY <1>0, UploadsBecome
<1>6. file.sent = 0
    OBVIOUS
<1> HIDE DEF file
<1>7. \A jd \in Ids : DownloadKept(jd)
    BY <1>2 DEF DownloadKept
<1>8. FlowAt(s, id)' /\ OrderAt(s, id)'
  <2>1. FlowAt(s, id) /\ OrderAt(s, id)
    BY <1>2 DEF FlowsSound
  <2>2. id \notin DOMAIN uploads[s]
    BY <1>1, <1>2, <2>1, RequestTaken DEF FlowAt, OneThing
  <2>3. id \in DOMAIN uploads'[s] => uploads'[s][id].sent = 0
    BY <1>5, <1>6, <2>2 DEF Put
  <2>4. /\ InFlight(asked[s], uploads[s], answers[s], id)
        /\ OneThing(asked'[s], uploads'[s], answers[s], id)
        /\ \A w : InOrder(asked[s], uploads[s], answers[s], w, id) =>
                  InOrder(asked'[s], uploads'[s], answers[s], w, id)
    BY <1>1, <1>2, <1>4, <2>1, <2>3, GetServed DEF FlowAt
  <2>5. FlowAt(s, id)'
    BY <1>2, <2>1, <2>4 DEF FlowAt
  <2>6. OrderAt(s, id)'
    BY <1>2, <2>1, <2>4 DEF OrderAt, Temp
  <2> QED
    BY <2>5, <2>6
<1>9. ASSUME NEW jd \in Ids, jd # id PROVE FlowAt(s, jd)' /\ OrderAt(s, jd)'
  <2>1. /\ jd \in DOMAIN uploads'[s] <=> jd \in DOMAIN uploads[s]
        /\ jd \in DOMAIN uploads[s] => uploads'[s][jd].sent = uploads[s][jd].sent
    BY <1>5, <1>9 DEF Put
  <2>2. /\ \A i, j \in Gets(asked'[s], jd) : (\A k, l \in Gets(asked[s], jd) : k = l) => i = j
        /\ Gets(asked'[s], jd) # {} => Gets(asked[s], jd) # {}
    BY <1>1, <1>2, <1>4, RequestTaken
  <2>3. Shifted(answers'[s], answers[s], 0, jd) /\ answers'[s] \in Seq(Messages)
    BY <1>1, <1>2, NothingShifted
  <2>4. ConnectionKept(asked'[s], uploads'[s], answers'[s], asked[s], uploads[s], answers[s], jd)
    BY <2>1, <2>2, <2>3 DEF ConnectionKept
  <2> QED
    BY <1>2, <1>7, <2>4, Unconcerned DEF FlowsSound
<1>10. ASSUME NEW t \in Servers, t # s, NEW jd \in Ids PROVE FlowAt(t, jd)' /\ OrderAt(t, jd)'
    BY <1>2, <1>4, <1>5, <1>7, <1>10, OtherConnections
<1> QED
    BY <1>8, <1>9, <1>10

\* The next chunk of an upload is sent, or its end.
LEMMA UploadFlows ==
    ASSUME TypeOK, FlowsSound, SteadyFiles, NEW s \in Servers, NEW id \in Ids,
           UploadChunk(s, id) \/ UploadEnd(s, id)
    PROVE  \A t \in Servers, jd \in Ids : FlowAt(t, jd)' /\ OrderAt(t, jd)'
<1>1. answers \in [Servers -> Seq(Messages)] /\ answers[s] \in Seq(Messages)
    BY DEF TypeOK
<1>2. UNCHANGED <<asked, downloads, temp, unsteady>>
    BY DEF UploadChunk, UploadEnd, clientVars
<1>3. \A jd \in Ids : DownloadKept(jd)
    BY <1>2 DEF DownloadKept
<1>4. FlowAt(s, id) /\ OrderAt(s, id)
    BY DEF FlowsSound
<1>5. id \in DOMAIN uploads[s] /\ \A t \in Servers : t # s => uploads'[t] = uploads[t]
    BY UploadsBecome
<1>6. uploads[s] \in [DOMAIN uploads[s] -> Uploads]
    BY DEF TypeOK, IsMap
<1>7. s \notin unsteady => /\ disk[s][uploads[s][id].path] = id
                           /\ uploads[s][id].sent <= Len(id)
    BY <1>5 DEF SteadyFiles
<1>8. PICK m \in Messages :
        /\ answers' = [answers EXCEPT ![s] = Append(answers[s], m)]
        /\ m.id = id /\ m.type \in {"Chunk", "End"}
        /\ FlowAt(s, id)' /\ OrderAt(s, id)'
        /\ \A jd \in Ids : jd # id =>
              /\ jd \in DOMAIN uploads'[s] <=> jd \in DOMAIN uploads[s]
              /\ jd \in DOMAIN uploads[s] => uploads'[s][jd].sent = uploads[s][jd].sent
  <2>1. CASE UploadChunk(s, id)
    <3> DEFINE m == NextChunk(s, id)
               n == uploads[s][id].sent + 1
    <3>1. /\ n <= Len(disk[s][uploads[s][id].path])
          /\ answers' = [answers EXCEPT ![s] = Append(answers[s], m)]
        BY <2>1 DEF UploadChunk, Reply, NextChunk
    <3>2. m \in Messages /\ m.type = "Chunk" /\ m.id = id /\ m.offset = uploads[s][id].sent
        BY <2>1, SentTypes
    <3>3. m.data = disk[s][uploads[s][id].path][n]
        BY DEF NextChunk
    <3> HIDE DEF m
    <3>4. answers'[s] = Append(answers[s], m)
        BY <1>1, <3>1
    <3>5. uploads'[s] = [uploads[s] EXCEPT ![id].sent = n]
        BY <2>1, UploadsBecome
    <3>6. /\ DOMAIN uploads'[s] = DOMAIN uploads[s] /\ uploads'[s][id].sent = m.offset + 1
          /\ \A jd \in DOMAIN uploads[s] : jd # id => uploads'[s][jd].sent = uploads[s][jd].sent
        BY <1>5, <1>6, <3>2, <3>5 DEF Uploads
    <3>7. /\ InFlight(asked[s], uploads[s], answers[s], id)
          /\ OneThing(asked[s], uploads'[s], Append(answers[s], m), id)
          /\ \A w : /\ InOrder(asked[s], uploads[s], answers[s], w, id)
                    /\ m.offset < Len(id) /\ m.data = id[m.offset + 1]
                    => InOrder(asked[s], uploads'[s], Append(answers[s], m), w, id)
        BY <1>1, <1>4, <1>5, <3>2, <3>6, ChunkFlows DEF FlowAt
    <3>8. s \notin unsteady => m.offset < Len(id) /\ m.data = id[m.offset + 1]
      <4>1. uploads[s][id].sent \in Nat /\ Len(id) \in Nat
        BY <1>5, <1>6, IdsAreContents DEF Uploads
      <4> QED
        BY <1>7, <3>1, <3>2, <3>3, <4>1
    <3>9. FlowAt(s, id)'
        BY <1>2, <1>4, <3>4, <3>7 DEF FlowAt
    <3>10. OrderAt(s, id)'
        BY <1>2, <1>4, <3>4, <3>7, <3>8 DEF OrderAt, Temp
    <3> QED
        BY <3>1, <3>2, <3>6, <3>9, <3>10
  <2>2. CASE UploadEnd(s, id)
    <3> DEFINE m == [type |-> "End", id |-> id]
    <3>1. m \in Messages /\ m.type = "End" /\ m.id = id
        BY DEF Messages
    <3>2. /\ uploads[s][id].sent >= Len(disk[s][uploads[s][id].path])
          /\ answers' = [answers EXCEPT ![s] = Append(answers[s], m)]
        BY <2>2 DEF UploadEnd, Reply
    <3> HIDE DEF m
    <3>3. answers'[s] = Append(answers[s], m)
        BY <1>1, <3>2
    <3>4. uploads'[s] = Drop(uploads[s], id)
        BY <2>2, UploadsBecome
    <3>5. /\ DOMAIN uploads'[s] = DOMAIN uploads[s] \ {id}
          /\ \A jd \in DOMAIN uploads'[s] : uploads'[s][jd] = uploads[s][jd]
        BY <3>4 DEF Drop
    <3>6. /\ InFlight(asked[s], uploads[s], answers[s], id)
          /\ OneThing(asked[s], uploads'[s], Append(answers[s], m), id)
          /\ \A w : InOrder(asked[s], uploads[s], answers[s], w, id) /\ uploads[s][id].sent = Len(id)
                    => InOrder(asked[s], uploads'[s], Append(answers[s], m), w, id)
        BY <1>1, <1>4, <1>5, <3>1, <3>5, EndFlows DEF FlowAt
    <3>7. s \notin unsteady => uploads[s][id].sent = Len(id)
      <4>1. uploads[s][id].sent \in Nat /\ Len(id) \in Nat
        BY <1>5, <1>6, IdsAreContents DEF Uploads
      <4> QED
        BY <1>7, <3>2, <4>1
    <3>8. FlowAt(s, id)'
        BY <1>2, <1>4, <3>3, <3>6 DEF FlowAt
    <3>9. OrderAt(s, id)'
        BY <1>2, <1>4, <3>3, <3>6, <3>7 DEF OrderAt, Temp
    <3> QED
        BY <3>1, <3>2, <3>5, <3>8, <3>9
  <2> QED
    BY <2>1, <2>2
<1>9. /\ answers'[s] = Append(answers[s], m) /\ answers'[s] \in Seq(Messages)
      /\ \A t \in Servers : t # s => answers'[t] = answers[t]
    BY <1>1, <1>8, AppendProperties
<1>10. ASSUME NEW jd \in Ids, jd # id PROVE FlowAt(s, jd)' /\ OrderAt(s, jd)'
  <2>1. Shifted(answers'[s], answers[s], 0, jd)
    BY <1>1, <1>8, <1>9, <1>10, OtherMessageLeft
  <2>2. ConnectionKept(asked'[s], uploads'[s], answers'[s], asked[s], uploads[s], answers[s], jd)
    BY <1>2, <1>8, <1>9, <1>10, <2>1 DEF ConnectionKept
  <2> QED
    BY <1>2, <1>3, <2>2, Unconcerned DEF FlowsSound
<1>11. ASSUME NEW t \in Servers, t # s, NEW jd \in Ids PROVE FlowAt(t, jd)' /\ OrderAt(t, jd)'
    BY <1>2, <1>3, <1>5, <1>9, <1>11, OtherConnections
<1> QED
    BY <1>8, <1>10, <1>11

\* A resource without a download is nowhere on its way.
LEMMA NothingUnderWay ==
    ASSUME FlowsSound, NEW s \in Servers, NEW id \in Ids,
           ~(id \in DOMAIN downloads /\ downloads[id].from = s)
    PROVE  /\ Gets(asked[s], id) = {} /\ id \notin DOMAIN uploads[s]
           /\ Chunks(answers[s], id) = {} /\ Ends(answers[s], id) = {}
BY DEF FlowsSound, FlowAt, InFlight

\* A download is asked for: of this resource nothing else is on its way.
LEMMA AskGetFlows ==
    ASSUME TypeOK, FlowsSound, NEW s \in Servers, NEW a \in DOMAIN aliases, AskGet(s, a)
    PROVE  \A t \in Servers, jd \in Ids : FlowAt(t, jd)' /\ OrderAt(t, jd)'
<1>0. PICK id : id = aliases[a]
    OBVIOUS
<1> DEFINE download == [name |-> info[id], from |-> s]
           get == [type |-> "Get", id |-> id]
<1>1. asked \in [Servers -> Seq(Requests)] /\ asked[s] \in Seq(Requests)
    BY DEF TypeOK
<1>2. /\ id \in Ids /\ id \notin DOMAIN downloads /\ UNCHANGED <<uploads, answers, unsteady>>
      /\ downloads' = Put(downloads, id, download) /\ temp' = Put(temp, id, <<>>)
      /\ asked' = [asked EXCEPT ![s] = Append(asked[s], get)]
    BY <1>0 DEF AskGet, TypeOK, Temp, serverVars
<1>3. DOMAIN temp = DOMAIN downloads
    BY TempIsOfDownloads
<1>4. /\ DOMAIN downloads' = DOMAIN downloads \cup {id} /\ downloads'[id].from = s
      /\ \A jd \in DOMAIN downloads : downloads'[jd] = downloads[jd] /\ temp'[jd] = temp[jd]
      /\ temp'[id] = <<>>
    BY <1>2, <1>3 DEF Put
<1>5. get \in Requests /\ \A jd : jd # id => get # [type |-> "Get", id |-> jd]
    BY <1>2 DEF Requests
<1>6. asked'[s] = Append(asked[s], get) /\ \A t \in Servers : t # s => asked'[t] = asked[t]
    BY <1>1, <1>2
<1>7. \A t \in Servers : /\ Gets(asked[t], id) = {} /\ id \notin DOMAIN uploads[t]
                         /\ Chunks(answers[t], id) = {} /\ Ends(answers[t], id) = {}
    BY <1>2, NothingUnderWay
<1>8. FlowAt(s, id)' /\ OrderAt(s, id)'
  <2>1. Gets(asked'[s], id) = {Len(asked[s]) + 1}
    BY <1>1, <1>5, <1>6, <1>7, RequestSent
  <2>2. FlowAt(s, id)'
    BY <1>2, <1>4, <1>7, <2>1 DEF FlowAt, OneThing
  <2>3. InOrder(asked'[s], uploads[s], answers[s], <<>>, id)
    <3>1. \A w : w = <<>> => Len(w) <= Len(id) /\ \A k \in 1..Len(w) : w[k] = id[k]
        BY <1>2, IdsAreContents
    <3> QED
        BY <1>7, <3>1 DEF InOrder
  <2>4. OrderAt(s, id)'
    BY <1>2, <1>4, <2>3 DEF OrderAt, Temp
  <2> QED
    BY <2>2, <2>4
<1>9. ASSUME NEW t \in Servers, t # s PROVE FlowAt(t, id)' /\ OrderAt(t, id)'
  <2>1. FlowAt(t, id)
    BY <1>2 DEF FlowsSound
  <2> QED
    BY <1>2, <1>4, <1>6, <1>7, <1>9, <2>1 DEF FlowAt, OrderAt, InFlight
<1>10. ASSUME NEW jd \in Ids, jd # id PROVE DownloadKept(jd)
    BY <1>4, <1>10 DEF DownloadKept
<1>11. ASSUME NEW jd \in Ids, jd # id PROVE FlowAt(s, jd)' /\ OrderAt(s, jd)'
  <2>1. Gets(asked'[s], jd) = Gets(asked[s], jd)
    BY <1>1, <1>5, <1>6, <1>11, RequestSent
  <2>2. Shifted(answers'[s], answers[s], 0, jd) /\ answers'[s] \in Seq(Messages)
    BY <1>2, NothingShifted DEF TypeOK
  <2>3. ConnectionKept(asked'[s], uploads'[s], answers'[s], asked[s], uploads[s], answers[s], jd)
    BY <1>2, <2>1, <2>2 DEF ConnectionKept
  <2> QED
    BY <1>2, <1>10, <1>11, <2>3, Unconcerned DEF FlowsSound
<1>12. ASSUME NEW t \in Servers, t # s, NEW jd \in Ids, jd # id PROVE FlowAt(t, jd)' /\ OrderAt(t, jd)'
    BY <1>2, <1>6, <1>10, <1>12, OtherConnections
<1> QED
    BY <1>8, <1>9, <1>11, <1>12

\* The message at the head is taken: what other resources have on their way stays.
LEMMA AnswerTaken ==
    ASSUME TypeOK, FlowsSound, NEW s \in Servers, answers[s] # <<>>, NEW id,
           answers' = [answers EXCEPT ![s] = Tail(@)],
           Head(answers[s]).id = id, Head(answers[s]).type \in {"Chunk", "End"},
           UNCHANGED <<asked, uploads, unsteady>>,
           \A jd \in Ids : jd # id => DownloadKept(jd)
    PROVE  /\ answers[s] \in Seq(Messages) /\ IsTail(answers'[s], answers[s])
           /\ \A t \in Servers : t # s => answers'[t] = answers[t]
           /\ \A t \in Servers, jd \in Ids : jd # id => FlowAt(t, jd)' /\ OrderAt(t, jd)'
<1>1. /\ answers[s] \in Seq(Messages) /\ answers'[s] = Tail(answers[s])
      /\ \A t \in Servers : t # s => answers'[t] = answers[t]
    BY DEF TypeOK
<1>2. IsTail(answers'[s], answers[s]) /\ answers'[s] \in Seq(Messages)
    BY <1>1 DEF IsTail
<1>3. ASSUME NEW t \in Servers, NEW jd \in Ids, jd # id PROVE FlowAt(t, jd)' /\ OrderAt(t, jd)'
  <2>1. CASE t = s
    <3>1. Shifted(answers'[s], answers[s], 1, jd)
        BY <1>1, <1>2, <1>3, OtherMessageTaken
    <3>2. ConnectionKept(asked'[s], uploads'[s], answers'[s], asked[s], uploads[s], answers[s], jd)
        BY <1>2, <3>1 DEF ConnectionKept
    <3> QED
        BY <1>3, <2>1, <3>2, Unconcerned DEF FlowsSound
  <2>2. CASE t # s
    BY <1>1, <1>3, <2>2, OtherConnections
  <2> QED
    BY <2>1, <2>2
<1> QED
    BY <1>1, <1>2, <1>3

\* A chunk is written: it is the next one.
LEMMA HandleChunkFlows ==
    ASSUME TypeOK, FlowsSound, NEW s \in Servers, HandleChunk(s)
    PROVE  \A t \in Servers, jd \in Ids : FlowAt(t, jd)' /\ OrderAt(t, jd)'
<1>0. PICK m : m = Head(answers[s])
    OBVIOUS
<1>1. /\ answers[s] # <<>> /\ m.type = "Chunk" /\ answers' = [answers EXCEPT ![s] = Tail(@)]
      /\ temp' = IF m.id \in DOMAIN downloads
                 THEN [temp EXCEPT ![m.id] = Append(temp[m.id], m.data)] ELSE temp
      /\ UNCHANGED <<asked, uploads, downloads, unsteady>>
    BY <1>0 DEF HandleChunk, NextAnswer, Temp, serverVars
<1>2. m.id \in Ids /\ m.data \in Blocks /\ m.id \in Seq(Blocks)
    BY <1>0, <1>1, NextInTypes, IdsAreContents
<1>3. DOMAIN temp = DOMAIN downloads /\ temp \in [DOMAIN temp -> Seq(Blocks)]
    BY TempIsOfDownloads
<1>4. \A jd \in Ids : jd # m.id => DownloadKept(jd)
    BY <1>1, <1>3 DEF DownloadKept
<1>5. /\ answers[s] \in Seq(Messages) /\ IsTail(answers'[s], answers[s])
      /\ \A t \in Servers : t # s => answers'[t] = answers[t]
      /\ \A t \in Servers, jd \in Ids : jd # m.id => FlowAt(t, jd)' /\ OrderAt(t, jd)'
    BY <1>0, <1>1, <1>4, AnswerTaken
<1>6. FlowAt(s, m.id) /\ OrderAt(s, m.id)
    BY <1>2 DEF FlowsSound
<1>7. /\ InFlight(asked[s], uploads[s], answers[s], m.id)
      /\ OneThing(asked[s], uploads[s], answers'[s], m.id)
      /\ \A w \in Seq(Blocks) :
            InOrder(asked[s], uploads[s], answers[s], w, m.id) =>
                InOrder(asked[s], uploads[s], answers'[s], Append(w, m.data), m.id)
    BY <1>0, <1>1, <1>2, <1>5, <1>6, ChunkTaken DEF FlowAt
<1>8. m.id \in DOMAIN downloads /\ downloads[m.id].from = s
    BY <1>6, <1>7 DEF FlowAt
<1>9. temp'[m.id] = Append(temp[m.id], m.data) /\ temp[m.id] \in Seq(Blocks)
    BY <1>1, <1>3, <1>8
<1>10. FlowAt(s, m.id)' /\ OrderAt(s, m.id)'
    BY <1>1, <1>6, <1>7, <1>8, <1>9 DEF FlowAt, OrderAt, Temp
<1>11. ASSUME NEW t \in Servers, t # s PROVE FlowAt(t, m.id)' /\ OrderAt(t, m.id)'
  <2>1. FlowAt(t, m.id)
    BY <1>2 DEF FlowsSound
  <2> QED
    BY <1>1, <1>5, <1>8, <1>11, <2>1 DEF FlowAt, OrderAt
<1> QED
    BY <1>5, <1>10, <1>11

\* The end is taken: the download is complete, and nothing more is on its way.
LEMMA HandleEndFlows ==
    ASSUME TypeOK, FlowsSound, NEW s \in Servers, HandleEnd(s)
    PROVE  /\ \A t \in Servers, jd \in Ids : FlowAt(t, jd)' /\ OrderAt(t, jd)'
           /\ LET id == Head(answers[s]).id IN
              /\ id \in DOMAIN downloads /\ downloads[id].from = s /\ id \in DOMAIN temp
              /\ s \notin unsteady => temp[id] = id
              /\ saved' = Put(saved, downloads[id].name, [id |-> id, content |-> temp[id], from |-> s])
<1>0. PICK id : id = Head(answers[s]).id
    OBVIOUS
<1>1. /\ answers[s] # <<>> /\ Head(answers[s]).type = "End"
      /\ answers' = [answers EXCEPT ![s] = Tail(@)]
      /\ UNCHANGED <<asked, uploads, unsteady>>
      /\ IF id \in DOMAIN downloads
         THEN /\ saved' = Put(saved, downloads[id].name, [id |-> id, content |-> temp[id], from |-> s])
              /\ downloads' = Drop(downloads, id) /\ temp' = Drop(temp, id)
         ELSE UNCHANGED <<saved, downloads, temp>>
    BY <1>0 DEF HandleEnd, NextAnswer, Complete, Temp, serverVars
<1>2. id \in Ids /\ id \in Seq(Blocks)
    BY <1>0, <1>1, NextInTypes, IdsAreContents
<1>3. DOMAIN temp = DOMAIN downloads /\ temp \in [DOMAIN temp -> Seq(Blocks)]
    BY TempIsOfDownloads
<1>4. \A jd \in Ids : jd # id => DownloadKept(jd)
    BY <1>1, <1>3 DEF DownloadKept, Drop
<1>5. /\ answers[s] \in Seq(Messages) /\ IsTail(answers'[s], answers[s])
      /\ \A t \in Servers : t # s => answers'[t] = answers[t]
      /\ \A t \in Servers, jd \in Ids : jd # id => FlowAt(t, jd)' /\ OrderAt(t, jd)'
    BY <1>0, <1>1, <1>4, AnswerTaken
<1>6. FlowAt(s, id) /\ OrderAt(s, id)
    BY <1>2 DEF FlowsSound
<1> DEFINE q == answers[s]
           q2 == answers'[s]
<1> HIDE DEF q, q2
<1>7. /\ InFlight(asked[s], uploads[s], answers[s], id)
      /\ ~InFlight(asked[s], uploads[s], answers'[s], id)
      /\ OneThing(asked[s], uploads[s], answers'[s], id)
      /\ \A w \in Seq(Blocks) : InOrder(asked[s], uploads[s], answers[s], w, id) => w = id
  <2>1. /\ q \in Seq(Messages) /\ q # <<>> /\ IsTail(q2, q)
        /\ Head(q).type = "End" /\ Head(q).id = id /\ OneThing(asked[s], uploads[s], q, id)
    BY <1>0, <1>1, <1>5, <1>6 DEF FlowAt, q, q2
  <2>2. /\ InFlight(asked[s], uploads[s], q, id) /\ ~InFlight(asked[s], uploads[s], q2, id)
        /\ OneThing(asked[s], uploads[s], q2, id)
        /\ \A w \in Seq(Blocks) : InOrder(asked[s], uploads[s], q, w, id) => w = id
    BY <1>2, <2>1, EndTaken
  <2> QED
    BY <2>2 DEF q, q2
<1>8. id \in DOMAIN downloads /\ downloads[id].from = s
    BY <1>6, <1>7 DEF FlowAt
<1>9. id \notin DOMAIN downloads'
    BY <1>1, <1>8 DEF Drop
<1>10. FlowAt(s, id)' /\ OrderAt(s, id)'
    BY <1>1, <1>7, <1>9 DEF FlowAt, OrderAt
<1>11. ASSUME NEW t \in Servers, t # s PROVE FlowAt(t, id)' /\ OrderAt(t, id)'
  <2>1. FlowAt(t, id) /\ ~InFlight(asked[t], uploads[t], answers[t], id)
    BY <1>2, <1>8, <1>11 DEF FlowsSound, FlowAt
  <2> QED
    BY <1>1, <1>5, <1>9, <1>11, <2>1 DEF FlowAt, OrderAt
<1>12. s \notin unsteady => temp[id] = id
    BY <1>3, <1>6, <1>7, <1>8 DEF OrderAt, Temp
<1> QED
    BY <1>0, <1>1, <1>3, <1>5, <1>8, <1>10, <1>11, <1>12

\* A daemon restarts: what was on its way on its connection is gone with it.
LEMMA RestartFlows ==
    ASSUME TypeOK, FlowsSound, NEW s \in Servers, Restart(s)
    PROVE  \A t \in Servers, jd \in Ids : FlowAt(t, jd)' /\ OrderAt(t, jd)'
<1> DEFINE mine == {id \in DOMAIN downloads : downloads[id].from = s}
<1>1. /\ asked' = [asked EXCEPT ![s] = <<>>] /\ answers' = [answers EXCEPT ![s] = <<>>]
      /\ uploads' = [uploads EXCEPT ![s] = Empty]
      /\ downloads' = [id \in DOMAIN downloads \ mine |-> downloads[id]]
      /\ temp' = [id \in DOMAIN temp \ mine |-> temp[id]]
      /\ unsteady' = unsteady \cup {s}
    BY DEF Restart, Disconnected, Changes
<1>2. /\ asked'[s] = <<>> /\ answers'[s] = <<>> /\ uploads'[s] = Empty
      /\ \A t \in Servers : t # s => /\ asked'[t] = asked[t] /\ answers'[t] = answers[t]
                                     /\ uploads'[t] = uploads[t]
    BY <1>1, Updated DEF TypeOK
<1>3. DOMAIN temp = DOMAIN downloads
    BY TempIsOfDownloads
<1>4. \A jd \in Ids : jd \notin mine => DownloadKept(jd)
    BY <1>1, <1>3 DEF DownloadKept
<1>5. ASSUME NEW jd \in Ids PROVE FlowAt(s, jd)' /\ OrderAt(s, jd)'
  <2>1. Gets(<<>>, jd) = {} /\ Chunks(<<>>, jd) = {} /\ Ends(<<>>, jd) = {} /\ DOMAIN Empty = {}
    BY DEF Gets, Chunks, Ends, OfType, Empty
  <2>2. FlowAt(s, jd)'
    BY <1>2, <2>1 DEF FlowAt, InFlight, OneThing
  <2>3. OrderAt(s, jd)'
    BY <1>1 DEF OrderAt
  <2> QED
    BY <2>2, <2>3
<1>6. ASSUME NEW t \in Servers, t # s, NEW jd \in mine PROVE FlowAt(t, jd)' /\ OrderAt(t, jd)'
  <2>1. jd \in Ids /\ jd \notin DOMAIN downloads'
    BY <1>1 DEF TypeOK, IsMap
  <2>2. FlowAt(t, jd) /\ ~InFlight(asked[t], uploads[t], answers[t], jd)
    BY <1>6, <2>1 DEF FlowsSound, FlowAt
  <2> QED
    BY <1>2, <1>6, <2>1, <2>2 DEF FlowAt, OrderAt
<1>7. ASSUME NEW t \in Servers, t # s, NEW jd \in Ids, jd \notin mine
      PROVE  FlowAt(t, jd)' /\ OrderAt(t, jd)'
  <2>1. DownloadKept(jd) /\ unsteady \subseteq unsteady'
    BY <1>1, <1>4, <1>7
  <2> QED
    BY <1>2, <1>7, <2>1, OtherConnections
<1> QED
    BY <1>5, <1>6, <1>7

-----------------------------------------------------------------------------
(* Theorems.                                                               *)

\* Transfers stay in order at every step.
LEMMA FlowsStep ==
    ASSUME TypeOK, FlowsSound, SteadyFiles, Next
    PROVE  \A t \in Servers, jd \in Ids : FlowAt(t, jd)' /\ OrderAt(t, jd)'
<1> DEFINE Sound == \A t \in Servers, jd \in Ids : FlowAt(t, jd)' /\ OrderAt(t, jd)'
<1>1. ASSUME NEW s \in Servers, ServeList(s) \/ AskList(s) \/ HandleResources(s) PROVE Sound
    BY <1>1, QuietFlows
<1>2. ASSUME NEW s \in Servers, NEW p \in Paths, Edit(s, p) \/ AddResource(s, p) PROVE Sound
    BY <1>2, QuietFlows
<1>3. ASSUME NEW id \in Ids, AskAdd(id) PROVE Sound
  <2>1. CASE Servers = {}
    BY <2>1
  <2>2. ASSUME NEW s \in Servers PROVE Sound
    BY <1>3, QuietFlows
  <2> QED
    BY <2>1, <2>2
<1>4. ASSUME NEW s \in Servers, ServeGet(s) PROVE Sound
    BY <1>4, ServeGetFlows
<1>5. ASSUME NEW s \in Servers, NEW id \in Ids, UploadChunk(s, id) \/ UploadEnd(s, id) PROVE Sound
    BY <1>5, UploadFlows
<1>6. ASSUME NEW s \in Servers, NEW a \in DOMAIN aliases, AskGet(s, a) PROVE Sound
    BY <1>6, AskGetFlows
<1>7. ASSUME NEW s \in Servers, HandleChunk(s) PROVE Sound
    BY <1>7, HandleChunkFlows
<1>8. ASSUME NEW s \in Servers, HandleEnd(s) PROVE Sound
    BY <1>8, HandleEndFlows
<1>9. ASSUME NEW s \in Servers, Restart(s) PROVE Sound
    BY <1>9, RestartFlows
<1> HIDE DEF Sound
<1> QED
  <2>1. Sound
    BY <1>1, <1>2, <1>3, <1>4, <1>5, <1>6, <1>7, <1>8, <1>9 DEF Next, Serve, Handle
  <2> QED
    BY <2>1 DEF Sound

\* The invariant by its parts.
LEMMA InvParts ==
    SharesInv <=> TypeOK /\ RegistrySound /\ FlowsSound /\ SteadyFiles
<1>1. TypeOK => RegistryTypes
    BY TypeParts
<1>2. TypeOK => (OneTransferEach /\ ChunksInOrder <=> FlowsSound)
    BY FlowsAre DEF FlowsSound
<1> QED
    BY <1>1, <1>2 DEF SharesInv, RegistrySound

\* SharesInv holds initially.
LEMMA InvInit ==
    ASSUME Init
    PROVE  SharesInv
<1>1. ServerTypes
  <2>1. ASSUME NEW s \in Servers PROVE IsMap(index[s], Ids, Paths)
    <3>1. disk[s] \in [Paths -> Contents \cup {NoFile}] /\ index[s] \in Stores(disk[s], Paths)
        BY DisksAssumption DEF Init
    <3> QED
        BY <3>1 DEF Stores, IsMap, Ids
  <2>2. /\ disk \in [Servers -> [Paths -> Contents \cup {NoFile}]]
        /\ index = [s \in Servers |-> index[s]] /\ unsteady = {}
        /\ uploads = [s \in Servers |-> Empty]
    BY DisksAssumption DEF Init
  <2>3. DOMAIN Empty = {} /\ IsMap(Empty, Ids, Uploads)
    BY DEF Empty, IsMap
  <2>4. \A s \in Servers : uploads[s] = Empty
    BY <2>2
  <2>5. uploads = [s \in Servers |-> uploads[s]]
    BY <2>2
  <2> QED
    BY <2>1, <2>2, <2>3, <2>4, <2>5 DEF ServerTypes
<1>2. DOMAIN Empty = {} /\ \A K, V : IsMap(Empty, K, V)
    BY DEF Empty, IsMap
<1>3. RegistryTypes /\ DownloadTypes /\ QueueTypes
    BY <1>2, BoundsAssumption DEF Init, RegistryTypes, DownloadTypes, QueueTypes
<1>4. TypeOK
    BY <1>1, <1>3, TypeParts
<1>5. AliasesAreInverse /\ ListedCanBeFetched
    BY <1>2 DEF Init, AliasesAreInverse, ListedCanBeFetched
<1>6. \A s \in Servers : asked[s] = <<>> /\ answers[s] = <<>> /\ uploads[s] = Empty
    BY DEF Init
<1>7. FlowsSound
  <2>1. \A id : Gets(<<>>, id) = {} /\ Chunks(<<>>, id) = {} /\ Ends(<<>>, id) = {}
    BY DEF Gets, Chunks, Ends, OfType
  <2>2. downloads = Empty
    BY DEF Init
  <2> QED
    BY <1>2, <1>6, <2>1, <2>2 DEF FlowsSound, FlowAt, OrderAt, InFlight, OneThing
<1>8. SteadyFiles
  <2>1. ASSUME NEW s \in Servers, NEW id \in DOMAIN index[s] PROVE disk[s][index[s][id]] = id
    BY DEF Init, Stores
  <2> QED
    BY <1>2, <1>6, <2>1 DEF SteadyFiles
<1> QED
    BY <1>3, <1>4, <1>5, <1>7, <1>8, InvParts DEF RegistrySound

\* SharesInv is preserved by every step.
LEMMA InvStep ==
    ASSUME SharesInv, [Next]_vars
    PROVE  SharesInv'
<1>1. ASSUME Next PROVE SharesInv'
  <2>1. TypeOK /\ RegistrySound /\ FlowsSound /\ SteadyFiles
    BY InvParts
  <2>2. TypeOK' /\ RegistrySound' /\ SteadyFiles'
    BY <1>1, <2>1, TypesStep, RegistryStep, SteadyStep
  <2>3. \A t \in Servers, jd \in Ids : FlowAt(t, jd)' /\ OrderAt(t, jd)'
    BY <1>1, <2>1, FlowsStep
  <2>4. OneTransferEach' /\ ChunksInOrder'
    <3>1. DOMAIN downloads' \subseteq Ids
        BY <2>2 DEF TypeOK, IsMap
    <3> QED
        BY <2>3, <3>1 DEF FlowAt, OrderAt, OneTransferEach, ChunksInOrder
  <2> QED
    BY <2>2, <2>4 DEF SharesInv, RegistrySound
<1>2. CASE UNCHANGED vars
    BY <1>2 DEF vars, serverVars, clientVars, SharesInv, TypeOK, AliasesAreInverse,
                ListedCanBeFetched, OneTransferEach, SteadyFiles, ChunksInOrder
<1> QED
    BY <1>1, <1>2

\* Aliases and metadata agree, of each resource one thing is on its way, and what a
\* steady server sends arrives block by block.
THEOREM TransfersAreInOrder == Spec => []SharesInv
<1>1. Init => SharesInv
    BY InvInit
<1>2. SharesInv /\ [Next]_vars => SharesInv'
    BY InvStep
<1> QED
    BY <1>1, <1>2, PTL DEF Spec

\* An alias stays with its resource whatever is listed or added.
THEOREM AliasesStay == Spec => AliasesKeepTheirResource
<1> DEFINE Kept ==
        /\ \A n \in DOMAIN aliases : aliases'[n] = aliases[n] /\ aliasOf'[aliases[n]] = n
        /\ \A id \in DOMAIN aliasOf' : aliases'[aliasOf'[id]] = id
<1>1. ASSUME SharesInv, [Next]_vars PROVE [Kept]_vars
  <2>1. ASSUME NEW ids \in SUBSET Ids, AddAliases(ids) PROVE Kept
    <3>1. /\ \A n \in DOMAIN aliases : n \in DOMAIN aliases' /\ aliases'[n] = aliases[n]
          /\ AliasesAreInverse'
        BY <1>1, <2>1, AliasesGiven DEF SharesInv
    <3> QED
        BY <3>1 DEF AliasesAreInverse
  <2>2. CASE UNCHANGED <<aliases, aliasOf>>
    BY <1>1, <2>2 DEF SharesInv, AliasesAreInverse
  <2>3. ASSUME NEW id \in Ids, AskAdd(id) PROVE Kept
    BY <2>1, <2>3 DEF AskAdd
  <2>4. ASSUME NEW s \in Servers, HandleResources(s) PROVE Kept
    <3>1. AddAliases(DOMAIN Head(answers[s]).names) /\ DOMAIN Head(answers[s]).names \subseteq Ids
        BY <1>1, <2>4, NextInTypes DEF HandleResources, NextAnswer, SharesInv
    <3> QED
        BY <2>1, <3>1
  <2>5. ASSUME Next
        PROVE  \/ \E id \in Ids : AskAdd(id)
               \/ \E s \in Servers : HandleResources(s)
               \/ UNCHANGED <<aliases, aliasOf>>
    <3>1. ASSUME NEW s \in Servers, Restart(s) \/ AskList(s) \/ HandleChunk(s) \/ HandleEnd(s)
          PROVE  UNCHANGED <<aliases, aliasOf>>
        BY <3>1 DEF Restart, Disconnected, AskList, HandleChunk, HandleEnd, clientVars
    <3>2. ASSUME NEW s \in Servers, NEW a \in DOMAIN aliases, AskGet(s, a)
          PROVE  UNCHANGED <<aliases, aliasOf>>
        BY <3>2 DEF AskGet
    <3> QED
        BY <2>5, <3>1, <3>2, ServingLeavesClient DEF Next, Handle
  <2> QED
    BY <1>1, <2>2, <2>3, <2>4, <2>5
<1>2. SharesInv /\ [Next]_vars => [Kept]_vars
    BY <1>1
<1> QED
    BY <1>2, TransfersAreInOrder, PTL DEF Spec, AliasesKeepTheirResource

\* A completed download is what was asked for.
LEMMA SavedStep ==
    ASSUME SharesInv, SavesWhatWasAsked, [Next]_vars
    PROVE  SavesWhatWasAsked'
<1>1. unsteady \subseteq unsteady'
  <2>1. ASSUME NEW s \in Servers, NEW p \in Paths, Edit(s, p) \/ AddResource(s, p)
        PROVE  unsteady \subseteq unsteady'
    BY <2>1 DEF Edit, AddResource, Changes
  <2>2. ASSUME NEW s \in Servers, Restart(s) PROVE unsteady \subseteq unsteady'
    BY <2>2 DEF Restart, Changes
  <2>3. ASSUME NEW s \in Servers, NEW id \in Ids, UploadChunk(s, id) \/ UploadEnd(s, id)
        PROVE  unsteady' = unsteady
    BY <2>3 DEF UploadChunk, UploadEnd
  <2>4. ASSUME NEW s \in Servers, ServeList(s) \/ ServeGet(s) \/ AskList(s) \/ Handle(s)
        PROVE  unsteady' = unsteady
    BY <2>4 DEF ServeList, ServeGet, AskList, Handle, HandleResources, HandleChunk, HandleEnd
  <2>5. ASSUME NEW s \in Servers, NEW a \in DOMAIN aliases, AskGet(s, a) PROVE unsteady' = unsteady
    BY <2>5 DEF AskGet
  <2>6. ASSUME NEW id \in Ids, AskAdd(id) PROVE unsteady' = unsteady
    BY <2>6 DEF AskAdd
  <2>7. UNCHANGED vars => unsteady' = unsteady
    BY DEF vars
  <2> QED
    BY <2>1, <2>2, <2>3, <2>4, <2>5, <2>6, <2>7 DEF Next, Serve
<1>2. CASE saved' = saved
    BY <1>1, <1>2 DEF SavesWhatWasAsked
<1>3. ASSUME NEW s \in Servers, HandleEnd(s) PROVE SavesWhatWasAsked'
  <2>1. PICK id : id = Head(answers[s]).id
    OBVIOUS
  <2>2. TypeOK /\ FlowsSound
    BY InvParts
  <2>3. /\ s \notin unsteady => temp[id] = id
        /\ saved' = Put(saved, downloads[id].name, [id |-> id, content |-> temp[id], from |-> s])
    BY <1>3, <2>1, <2>2, HandleEndFlows
  <2> QED
    BY <1>1, <2>3 DEF SavesWhatWasAsked, Put
<1>4. saved' = saved \/ \E s \in Servers : HandleEnd(s)
  <2>1. ASSUME NEW s \in Servers,
               Restart(s) \/ AskList(s) \/ HandleChunk(s) \/ HandleResources(s)
        PROVE  saved' = saved
    BY <2>1 DEF Restart, Disconnected, AskList, HandleChunk, HandleResources, clientVars
  <2>2. ASSUME NEW s \in Servers, NEW a \in DOMAIN aliases, AskGet(s, a) PROVE saved' = saved
    BY <2>2 DEF AskGet
  <2>3. ASSUME NEW id \in Ids, AskAdd(id) PROVE saved' = saved
    BY <2>3 DEF AskAdd
  <2>4. UNCHANGED vars => saved' = saved
    BY DEF vars, clientVars
  <2> QED
    BY <2>1, <2>2, <2>3, <2>4, ServingLeavesClient DEF Next, Handle
<1> QED
    BY <1>2, <1>3, <1>4

\* What complete_download saves, under the name it was listed with, is what the
\* user asked for, unless the files of the server changed or a read of one failed.
THEOREM DownloadsAreWhatWasAsked == Spec => []SavesWhatWasAsked
<1>1. Init => SavesWhatWasAsked
    BY DEF Init, Empty, SavesWhatWasAsked
<1>2. SharesInv /\ SavesWhatWasAsked /\ [Next]_vars => SavesWhatWasAsked'
    BY SavedStep
<1> QED
    BY <1>1, <1>2, TransfersAreInOrder, PTL DEF Spec
=============================================================================
