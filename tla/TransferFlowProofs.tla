-------------------------- MODULE TransferFlowProofs --------------------------
(***************************************************************************)
(* The data of Transfers, for any servers, resources, clients and size: as *)
(* long as every peer has one link and the disk does not fail, what is     *)
(* saved is the whole resource.  FlowInv is inductive: it follows each     *)
(* request from the link it goes out on to the file it fills.              *)
(***************************************************************************)
EXTENDS TransfersProofs

-----------------------------------------------------------------------------
(* Data frames in queues, by their position.                               *)

IsDataOf(m, q) == IsData(m) /\ m.req = q
IsDownloadOf(m, q) == m.type = "download" /\ m.req = q

\* Positions after a message is queued.
LEMMA PlacesAfterSend ==
    ASSUME NEW S, NEW w \in Seq(S), NEW m \in S, NEW q
    PROVE  LET new == Append(w, m)
               last == Len(w) + 1
           IN  /\ \A i \in DOMAIN w : i \in DOMAIN new /\ i < last /\ new[i] = w[i]
               /\ \A i \in DOMAIN new : i \in DOMAIN w \/ i = last
               /\ last \in DOMAIN new /\ last \notin DOMAIN w /\ new[last] = m
               /\ last \in Int /\ DOMAIN w \subseteq Int
<1>1. /\ Append(w, m) \in Seq(S) /\ Len(w) \in Nat /\ Len(Append(w, m)) = Len(w) + 1
      /\ Append(w, m)[Len(w) + 1] = m /\ \A i \in 1..Len(w) : Append(w, m)[i] = w[i]
    BY AppendProperties
<1> DEFINE new == Append(w, m)
           last == Len(w) + 1
<1>2. DOMAIN new = 1..last /\ DOMAIN w = 1..Len(w)
    BY <1>1
<1>3. /\ \A i \in 1..Len(w) : i \in 1..last /\ i < last
      /\ \A i \in 1..last : i \in 1..Len(w) \/ i = last
      /\ last \in 1..last /\ last \notin 1..Len(w) /\ last \in Int /\ 1..Len(w) \subseteq Int
    BY <1>1
<1>4. new[last] = m /\ \A i \in 1..Len(w) : new[i] = w[i]
    BY <1>1
<1> HIDE DEF new, last
<1> QED
    BY <1>2, <1>3, <1>4 DEF new, last

\* Positions after the first one is taken.
LEMMA PlacesAfterTake ==
    ASSUME NEW S, NEW w \in Seq(S), w # <<>>
    PROVE  LET new == Tail(w) IN
           /\ \A i \in DOMAIN new : i \in Int /\ i + 1 \in DOMAIN w /\ i + 1 # 1 /\ new[i] = w[i + 1]
           /\ \A k \in DOMAIN w : k # 1 => k - 1 \in DOMAIN new /\ new[k - 1] = w[k]
           /\ 1 \in DOMAIN w /\ w[1] = Head(w) /\ \A k \in DOMAIN w : k \in Int /\ 1 <= k
<1>1. /\ Len(w) \in Nat \ {0} /\ Head(w) = w[1] /\ Len(Tail(w)) = Len(w) - 1 /\ Tail(w) \in Seq(S)
      /\ \A i \in 1..(Len(w) - 1) : Tail(w)[i] = w[i + 1]
    BY HeadTailProperties
<1> DEFINE new == Tail(w)
<1>2. DOMAIN new = 1..(Len(w) - 1) /\ DOMAIN w = 1..Len(w) /\ 1 \in DOMAIN w
    BY <1>1
<1> HIDE DEF new
<1>3. \A i \in DOMAIN new : i \in Int /\ i + 1 # 1 /\ i + 1 \in DOMAIN w /\ new[i] = w[i + 1]
    BY <1>1, <1>2 DEF new
<1>4. \A k \in DOMAIN w : k # 1 => k - 1 \in DOMAIN new /\ new[k - 1] = w[k]
    BY <1>1, <1>2 DEF new
<1> QED
    BY <1>1, <1>2, <1>3, <1>4 DEF new

\* A frame is sent behind the others.
LEMMA OrderAfterOther ==
    ASSUME NEW S, NEW w \in Seq(S), NEW m \in S, NEW q, ~IsDataOf(m, q),
           NEW a, NEW b, InOrder(w, q, a, b)
    PROVE  InOrder(Append(w, m), q, a, b)
<1> DEFINE new == Append(w, m)
           last == Len(w) + 1
<1>1. /\ \A i \in DOMAIN w : i \in DOMAIN new /\ i < last /\ new[i] = w[i]
      /\ \A i \in DOMAIN new : i \in DOMAIN w \/ i = last
      /\ last \in DOMAIN new /\ last \notin DOMAIN w /\ new[last] = m
    BY PlacesAfterSend
<1> HIDE DEF new, last
<1>2. DataOf(new, q) = DataOf(w, q)
    BY <1>1 DEF DataOf, IsDataOf
<1>3. \A i \in DataOf(w, q) : new[i] = w[i]
    BY <1>1 DEF DataOf
<1>4. Ranks(new, q) = Ranks(w, q)
    BY <1>2, <1>3 DEF Ranks
<1>5. \A i, j \in DataOf(new, q) : i < j => Rank(new[i]) < Rank(new[j])
    BY <1>2, <1>3 DEF InOrder
<1>6. InOrder(new, q, a, b)
    BY <1>4, <1>5 DEF InOrder
<1> QED
    BY <1>6 DEF new

\* The frame with the next rank prolongs the line.
LEMMA OrderAfterSend ==
    ASSUME NEW S, NEW w \in Seq(S), NEW m \in S, NEW q, IsDataOf(m, q),
           NEW a \in Nat, NEW b \in Nat, a <= b + 1, Rank(m) = b + 1, InOrder(w, q, a, b)
    PROVE  InOrder(Append(w, m), q, a, b + 1)
<1> DEFINE new == Append(w, m)
           last == Len(w) + 1
<1>1. /\ \A i \in DOMAIN w : i \in DOMAIN new /\ i < last /\ new[i] = w[i]
      /\ \A i \in DOMAIN new : i \in DOMAIN w \/ i = last
      /\ last \in DOMAIN new /\ last \notin DOMAIN w /\ new[last] = m
      /\ last \in Int /\ DOMAIN w \subseteq Int
    BY PlacesAfterSend
<1> HIDE DEF new, last
<1>2. DataOf(new, q) = DataOf(w, q) \cup {last}
    BY <1>1 DEF DataOf, IsDataOf
<1>3. \A i \in DataOf(w, q) : new[i] = w[i] /\ i < last /\ i \in Int
    BY <1>1 DEF DataOf
<1>4. Ranks(new, q) = Ranks(w, q) \cup {b + 1}
    BY <1>1, <1>2, <1>3 DEF Ranks
<1>5. a..(b + 1) = (a..b) \cup {b + 1}
    OBVIOUS
<1>6. \A i \in DataOf(w, q) : Rank(new[i]) \in a..b
    BY <1>3 DEF InOrder, Ranks
<1>7. ASSUME NEW i \in DataOf(new, q), NEW j \in DataOf(new, q), i < j
      PROVE  Rank(new[i]) < Rank(new[j])
  <2>1. i \in DataOf(w, q)
    BY <1>1, <1>2, <1>3, <1>7
  <2>2. CASE j = last
    BY <1>1, <1>6, <2>1, <2>2
  <2>3. CASE j \in DataOf(w, q)
    BY <1>3, <1>7, <2>1, <2>3 DEF InOrder
  <2> QED
    BY <1>2, <2>2, <2>3
<1> QED
    BY <1>4, <1>5, <1>7 DEF InOrder, new

\* The first frame is taken.
LEMMA OrderAfterTake ==
    ASSUME NEW S, NEW w \in Seq(S), w # <<>>, NEW q, NEW a \in Nat, NEW b \in Nat,
           InOrder(w, q, a, b)
    PROVE  /\ ~IsDataOf(Head(w), q) => InOrder(Tail(w), q, a, b)
           /\ IsDataOf(Head(w), q) =>
                 a <= b /\ Rank(Head(w)) = a /\ InOrder(Tail(w), q, a + 1, b)
<1> DEFINE new == Tail(w)
           h == Head(w)
<1>1. /\ \A i \in DOMAIN new : i \in Int /\ i + 1 \in DOMAIN w /\ i + 1 # 1 /\ new[i] = w[i + 1]
      /\ \A k \in DOMAIN w : k # 1 => k - 1 \in DOMAIN new /\ new[k - 1] = w[k]
      /\ 1 \in DOMAIN w /\ w[1] = h /\ \A k \in DOMAIN w : k \in Int /\ 1 <= k
    BY PlacesAfterTake
<1> HIDE DEF new, h
<1>2. \A i \in DataOf(new, q) : /\ i \in Int /\ i + 1 \in DataOf(w, q) /\ i + 1 # 1
                                /\ new[i] = w[i + 1]
    BY <1>1 DEF DataOf
<1>3. \A k \in DataOf(w, q) : /\ k \in Int /\ 1 <= k
                              /\ k # 1 => k - 1 \in DataOf(new, q) /\ new[k - 1] = w[k]
    BY <1>1 DEF DataOf
<1>4. 1 \in DataOf(w, q) <=> IsDataOf(h, q)
    BY <1>1 DEF DataOf, IsDataOf
<1>5. \A i, j \in DataOf(new, q) : i < j => Rank(new[i]) < Rank(new[j])
  <2>1. \A i, j \in DataOf(new, q) : i < j => i + 1 < j + 1
    BY <1>2
  <2> QED
    BY <1>2, <2>1 DEF InOrder
<1>6. ASSUME ~IsDataOf(h, q) PROVE InOrder(new, q, a, b)
  <2>1. Ranks(new, q) = Ranks(w, q)
    BY <1>2, <1>3, <1>4, <1>6 DEF Ranks
  <2> QED
    BY <1>5, <2>1 DEF InOrder
<1>7. ASSUME IsDataOf(h, q) PROVE a <= b /\ Rank(h) = a /\ InOrder(new, q, a + 1, b)
  <2>1. Ranks(w, q) = Ranks(new, q) \cup {Rank(h)}
    <3>1. ASSUME NEW k \in DataOf(w, q) PROVE Rank(w[k]) \in Ranks(new, q) \cup {Rank(h)}
      <4>1. CASE k = 1
        BY <1>1, <4>1
      <4>2. CASE k # 1
        BY <1>3, <4>2 DEF Ranks
      <4> QED
        BY <4>1, <4>2
    <3>2. ASSUME NEW i \in DataOf(new, q) PROVE Rank(new[i]) \in Ranks(w, q)
        BY <1>2 DEF Ranks
    <3>3. Rank(h) \in Ranks(w, q)
        BY <1>1, <1>4, <1>7 DEF Ranks
    <3> QED
        BY <3>1, <3>2, <3>3 DEF Ranks
  <2>2. Rank(h) \in a..b
    BY <2>1 DEF InOrder
  <2>3. \A i \in DataOf(new, q) : Rank(h) < Rank(new[i])
    <3>1. \A i \in DataOf(new, q) : 1 < i + 1
        BY <1>2, <1>3
    <3> QED
        BY <1>1, <1>2, <1>4, <1>7, <3>1 DEF InOrder
  <2>4. \A r \in Ranks(new, q) : Rank(h) < r /\ r \in a..b
    BY <2>1, <2>3 DEF Ranks, InOrder
  <2>5. Rank(h) = a
    BY <2>1, <2>2, <2>4 DEF InOrder
  <2>6. Ranks(new, q) = (a + 1)..b
    <3>1. Ranks(w, q) = a..b
        BY DEF InOrder
    <3>2. \A r \in Ranks(new, q) : r \in a..b /\ a < r
        BY <2>4, <2>5
    <3>3. \A r \in (a + 1)..b : r \in a..b /\ r # a
        OBVIOUS
    <3>4. \A r \in a..b : a < r => r \in (a + 1)..b
        OBVIOUS
    <3> QED
        BY <2>1, <2>5, <3>1, <3>2, <3>3, <3>4
  <2> QED
    BY <1>5, <2>2, <2>5, <2>6 DEF InOrder
<1> QED
    BY <1>6, <1>7 DEF new, h

\* A queue without frames of a request holds an empty line, wherever it
\* stands.
LEMMA NothingInOrder ==
    ASSUME NEW w, NEW q, \A i \in DOMAIN w : ~IsDataOf(w[i], q), NEW n \in Nat
    PROVE  InOrder(w, q, n + 1, n)
<1>1. DataOf(w, q) = {} /\ (n + 1)..n = {}
    BY DEF DataOf, IsDataOf
<1> QED
    BY <1>1 DEF InOrder, Ranks

\* The download requests on a link after one more is queued.
LEMMA DownloadsAfterSend ==
    ASSUME NEW S, NEW w \in Seq(S), NEW m \in S, NEW q
    PROVE  /\ ~IsDownloadOf(m, q) => Downloads(Append(w, m), q) = Downloads(w, q)
           /\ IsDownloadOf(m, q) => Downloads(Append(w, m), q) = Downloads(w, q) \cup {Len(w) + 1}
<1> DEFINE new == Append(w, m)
           last == Len(w) + 1
<1>1. /\ \A i \in DOMAIN w : i \in DOMAIN new /\ i < last /\ new[i] = w[i]
      /\ \A i \in DOMAIN new : i \in DOMAIN w \/ i = last
      /\ last \in DOMAIN new /\ last \notin DOMAIN w /\ new[last] = m
    BY PlacesAfterSend
<1> HIDE DEF new, last
<1>2. ~IsDownloadOf(m, q) => Downloads(new, q) = Downloads(w, q)
    BY <1>1 DEF Downloads, IsDownloadOf
<1>3. IsDownloadOf(m, q) => Downloads(new, q) = Downloads(w, q) \cup {last}
    BY <1>1 DEF Downloads, IsDownloadOf
<1> QED
    BY <1>2, <1>3 DEF new, last

\* The download requests on a link after the first message is taken.
LEMMA DownloadsAfterTake ==
    ASSUME NEW S, NEW w \in Seq(S), w # <<>>, NEW q, \A i, j \in Downloads(w, q) : i = j
    PROVE  /\ \A i, j \in Downloads(Tail(w), q) : i = j
           /\ Downloads(Tail(w), q) # {} => Downloads(w, q) # {}
           /\ IsDownloadOf(Head(w), q) => Downloads(w, q) # {} /\ Downloads(Tail(w), q) = {}
<1> DEFINE new == Tail(w)
           h == Head(w)
<1>1. /\ \A i \in DOMAIN new : i \in Int /\ i + 1 \in DOMAIN w /\ i + 1 # 1 /\ new[i] = w[i + 1]
      /\ 1 \in DOMAIN w /\ w[1] = h
    BY PlacesAfterTake
<1> HIDE DEF new, h
<1>2. \A i \in Downloads(new, q) : i \in Int /\ i + 1 \in Downloads(w, q) /\ i + 1 # 1
    BY <1>1 DEF Downloads
<1>3. IsDownloadOf(h, q) => 1 \in Downloads(w, q)
    BY <1>1 DEF Downloads, IsDownloadOf
<1>4. \A i, j \in Int : i + 1 = j + 1 => i = j
    OBVIOUS
<1>5. \A i, j \in Downloads(new, q) : i = j
    BY <1>2, <1>4
<1>6. IsDownloadOf(h, q) => Downloads(w, q) # {} /\ Downloads(new, q) = {}
    BY <1>2, <1>3
<1> QED
    BY <1>2, <1>5, <1>6 DEF new, h

-----------------------------------------------------------------------------
(* What a live link carries for a request.                                 *)

\* A message to the server that is no request for q leaves q as it is.
LEMMA LinkSendsToServer ==
    ASSUME NEW S, NEW toServer \in Seq(S), NEW m \in S, NEW q, ~IsDownloadOf(m, q),
           NEW toLocal, NEW sending, NEW n, OnLink(toLocal, toServer, sending, q, n)
    PROVE  OnLink(toLocal, Append(toServer, m), sending, q, n)
<1>1. Downloads(Append(toServer, m), q) = Downloads(toServer, q)
    BY DownloadsAfterSend
<1> QED
    BY <1>1 DEF OnLink

\* A request is served: one for q starts its only upload, at its first frame.
LEMMA LinkServes ==
    ASSUME NEW S, NEW toServer \in Seq(S), toServer # <<>>, NEW q,
           NEW toLocal, NEW sending, NEW n, OnLink(toLocal, toServer, sending, q, n)
    PROVE  /\ OnLink(toLocal, Tail(toServer), sending, q, n)
           /\ IsDownloadOf(Head(toServer), q) => sending = {}
           /\ \A u : IsDownloadOf(Head(toServer), q) /\ u.next = 1 =>
                 OnLink(toLocal, Tail(toServer), {u}, q, n)
<1>1. PICK last \in n..(Size + 1) :
        /\ InOrder(toLocal, q, n + 1, last)
        /\ \A u, v \in sending : u = v
        /\ \A u \in sending : u.next = last + 1
        /\ \A i, j \in Downloads(toServer, q) : i = j
        /\ Downloads(toServer, q) # {} => last = 0 /\ sending = {}
    BY DEF OnLink
<1> DEFINE new == Tail(toServer)
<1>2. /\ \A i, j \in Downloads(new, q) : i = j
      /\ Downloads(new, q) # {} => Downloads(toServer, q) # {}
      /\ IsDownloadOf(Head(toServer), q) => Downloads(toServer, q) # {} /\ Downloads(new, q) = {}
    BY <1>1, DownloadsAfterTake
<1> HIDE DEF new
<1>3. OnLink(toLocal, new, sending, q, n)
    BY <1>1, <1>2 DEF OnLink
<1>4. IsDownloadOf(Head(toServer), q) => sending = {}
    BY <1>1, <1>2
<1>5. ASSUME NEW u, IsDownloadOf(Head(toServer), q), u.next = 1
      PROVE  OnLink(toLocal, new, {u}, q, n)
  <2>1. last = 0 /\ Downloads(new, q) = {}
    BY <1>1, <1>2, <1>5
  <2>2. \A v \in {u} : v.next = last + 1
    BY <1>5, <2>1
  <2> QED
    BY <1>1, <2>1, <2>2 DEF OnLink
<1> QED
    BY <1>3, <1>4, <1>5 DEF new

\* An upload may stop at any point.
LEMMA LinkLosesUpload ==
    ASSUME NEW toLocal, NEW toServer, NEW sending, NEW less, less \subseteq sending, NEW q, NEW n,
           OnLink(toLocal, toServer, sending, q, n)
    PROVE  OnLink(toLocal, toServer, less, q, n)
BY DEF OnLink

\* A frame of another request leaves q as it is.
LEMMA LinkSendsOther ==
    ASSUME NEW S, NEW toLocal \in Seq(S), NEW m \in S, NEW q, ~IsDataOf(m, q),
           NEW toServer, NEW sending, NEW n, OnLink(toLocal, toServer, sending, q, n)
    PROVE  OnLink(Append(toLocal, m), toServer, sending, q, n)
<1>1. \A b : InOrder(toLocal, q, n + 1, b) => InOrder(Append(toLocal, m), q, n + 1, b)
    BY OrderAfterOther
<1> QED
    BY <1>1 DEF OnLink

\* The upload sends its next frame, and goes on or is done.
LEMMA LinkSendsData ==
    ASSUME NEW S, NEW toLocal \in Seq(S), NEW m \in S, NEW q, IsDataOf(m, q),
           NEW toServer, NEW sending, NEW n \in Nat, OnLink(toLocal, toServer, sending, q, n),
           NEW u \in sending, u.next \in 1..(Size + 1), Rank(m) = u.next, NEW rest,
           \A v, w \in rest : v = w, \A v \in rest : v.next = u.next + 1
    PROVE  OnLink(Append(toLocal, m), toServer, rest, q, n)
<1>1. PICK last \in n..(Size + 1) :
        /\ InOrder(toLocal, q, n + 1, last)
        /\ \A v \in sending : v.next = last + 1
        /\ \A i, j \in Downloads(toServer, q) : i = j
        /\ Downloads(toServer, q) # {} => last = 0 /\ sending = {}
    BY DEF OnLink
<1>2. last \in Nat /\ u.next = last + 1 /\ last + 1 \in n..(Size + 1) /\ n + 1 <= last + 1
      /\ n + 1 \in Nat
    BY <1>1, BoundsAssumption
<1>3. InOrder(Append(toLocal, m), q, n + 1, last + 1)
    BY <1>1, <1>2, OrderAfterSend
<1>4. Downloads(toServer, q) = {}
    BY <1>1
<1>5. \A v \in rest : v.next = (last + 1) + 1
    BY <1>2
<1> QED
    BY <1>2, <1>3, <1>4, <1>5 DEF OnLink

\* What a reader takes is the next frame, or one of another request.
LEMMA LinkIsRead ==
    ASSUME NEW S, NEW toLocal \in Seq(S), toLocal # <<>>, NEW q,
           NEW toServer, NEW sending, NEW n \in Nat, OnLink(toLocal, toServer, sending, q, n)
    PROVE  /\ ~IsDataOf(Head(toLocal), q) => OnLink(Tail(toLocal), toServer, sending, q, n)
           /\ IsDataOf(Head(toLocal), q) =>
                 /\ n + 1 <= Size + 1 /\ Rank(Head(toLocal)) = n + 1
                 /\ OnLink(Tail(toLocal), toServer, sending, q, n + 1)
<1>1. PICK last \in n..(Size + 1) :
        /\ InOrder(toLocal, q, n + 1, last)
        /\ \A u, v \in sending : u = v
        /\ \A u \in sending : u.next = last + 1
        /\ \A i, j \in Downloads(toServer, q) : i = j
        /\ Downloads(toServer, q) # {} => last = 0 /\ sending = {}
    BY DEF OnLink
<1>2. last \in Nat /\ n + 1 \in Nat
    BY <1>1, BoundsAssumption
<1>3. /\ ~IsDataOf(Head(toLocal), q) => InOrder(Tail(toLocal), q, n + 1, last)
      /\ IsDataOf(Head(toLocal), q) => /\ n + 1 <= last /\ Rank(Head(toLocal)) = n + 1
                                       /\ InOrder(Tail(toLocal), q, (n + 1) + 1, last)
    BY <1>1, <1>2, OrderAfterTake
<1>4. ~IsDataOf(Head(toLocal), q) => OnLink(Tail(toLocal), toServer, sending, q, n)
    BY <1>1, <1>3 DEF OnLink
<1>5. ASSUME IsDataOf(Head(toLocal), q)
      PROVE  /\ n + 1 <= Size + 1 /\ Rank(Head(toLocal)) = n + 1
             /\ OnLink(Tail(toLocal), toServer, sending, q, n + 1)
  <2>1. last \in (n + 1)..(Size + 1) /\ n + 1 <= Size + 1
    BY <1>1, <1>2, <1>3, <1>5, BoundsAssumption
  <2> QED
    BY <1>1, <1>3, <1>5, <2>1 DEF OnLink
<1> QED
    BY <1>4, <1>5

\* Nothing of q is under way, or only the request.
LEMMA LinkIsFresh ==
    ASSUME NEW toLocal, NEW toServer, NEW q, NEW n \in 0..(Size + 1),
           \A i \in DOMAIN toLocal : ~IsDataOf(toLocal[i], q),
           \A i, j \in Downloads(toServer, q) : i = j,
           Downloads(toServer, q) # {} => n = 0
    PROVE  OnLink(toLocal, toServer, {}, q, n)
<1>1. InOrder(toLocal, q, n + 1, n)
    BY NothingInOrder, BoundsAssumption
<1>2. n \in n..(Size + 1)
    BY BoundsAssumption
<1> QED
    BY <1>1, <1>2 DEF OnLink

-----------------------------------------------------------------------------
(* The events the loop has yet to see.                                     *)

\* An event that is wanted, or no frame, may be queued.
LEMMA WantedAfterSend ==
    ASSUME NEW S, NEW w \in Seq(S), NEW m \in S, NEW map, EventsAreWanted(w, map),
           IsData(m) => /\ m.req \in DOMAIN map
                        /\ \A i \in DOMAIN w : w[i].type = "disconnected" =>
                              ~Wanted(m, w[i].peer, map)
    PROVE  EventsAreWanted(Append(w, m), map)
<1> DEFINE new == Append(w, m)
           last == Len(w) + 1
<1>1. /\ \A i \in DOMAIN w : i \in DOMAIN new /\ i < last /\ new[i] = w[i]
      /\ \A i \in DOMAIN new : i \in DOMAIN w \/ i = last
      /\ last \in DOMAIN new /\ last \notin DOMAIN w /\ new[last] = m
    BY PlacesAfterSend
<1>2. /\ \A j \in DOMAIN w : 1..j \subseteq DOMAIN w
      /\ \A i \in 1..last : i \in DOMAIN w \/ i = last
  <2>1. DOMAIN w = 1..Len(w) /\ Len(w) \in Nat
    OBVIOUS
  <2> QED
    BY <2>1
<1> HIDE DEF new, last
<1>3. ASSUME NEW j \in DOMAIN w, IsData(new[j])
      PROVE  /\ new[j].req \in DOMAIN map
             /\ \A i \in 1..j : new[i].type = "disconnected" => ~Wanted(new[j], new[i].peer, map)
  <2>1. new[j] = w[j] /\ \A i \in 1..j : i \in DOMAIN w /\ new[i] = w[i]
    BY <1>1, <1>2
  <2> QED
    BY <1>3, <2>1 DEF EventsAreWanted
<1>4. ASSUME IsData(new[last])
      PROVE  /\ new[last].req \in DOMAIN map
             /\ \A i \in 1..last : new[i].type = "disconnected" => ~Wanted(new[last], new[i].peer, map)
    BY <1>1, <1>2, <1>4 DEF IsData
<1>5. EventsAreWanted(new, map)
    BY <1>1, <1>3, <1>4 DEF EventsAreWanted
<1> QED
    BY <1>5 DEF new

\* An event is taken while transfers may start, or end, with none of their data
\* among the other events.
LEMMA WantedAfterTake ==
    ASSUME NEW S, NEW w \in Seq(S), w # <<>>, NEW old, NEW new, EventsAreWanted(w, old),
           \A k \in DOMAIN w : /\ k # 1 /\ IsData(w[k]) =>
                                     /\ w[k].req \in DOMAIN new
                                     /\ new[w[k].req].peer = old[w[k].req].peer
    PROVE  EventsAreWanted(Tail(w), new)
<1> DEFINE rest == Tail(w)
<1>1. \A i \in DOMAIN rest : i \in Int /\ i + 1 \in DOMAIN w /\ i + 1 # 1 /\ rest[i] = w[i + 1]
    BY PlacesAfterTake
<1>2. \A j \in DOMAIN rest : \A i \in 1..j : i \in DOMAIN rest /\ i + 1 \in 1..(j + 1)
  <2>1. DOMAIN rest = 1..(Len(w) - 1) /\ Len(w) \in Nat
    BY HeadTailProperties
  <2> QED
    BY <2>1
<1> HIDE DEF rest
<1>3. ASSUME NEW j \in DOMAIN rest, IsData(rest[j])
      PROVE  /\ rest[j].req \in DOMAIN new
             /\ \A i \in 1..j : rest[i].type = "disconnected" => ~Wanted(rest[j], rest[i].peer, new)
  <2>1. /\ rest[j] = w[j + 1] /\ j + 1 \in DOMAIN w /\ j + 1 # 1
        /\ \A i \in 1..j : rest[i] = w[i + 1] /\ i + 1 \in 1..(j + 1)
    BY <1>1, <1>2
  <2>2. /\ w[j + 1].req \in DOMAIN new
        /\ new[w[j + 1].req].peer = old[w[j + 1].req].peer
    BY <1>3, <2>1
  <2>3. /\ w[j + 1].req \in DOMAIN old
        /\ \A k \in 1..(j + 1) : w[k].type = "disconnected" => ~Wanted(w[j + 1], w[k].peer, old)
    BY <1>3, <2>1 DEF EventsAreWanted
  <2> QED
    BY <2>1, <2>2, <2>3 DEF Wanted
<1>4. EventsAreWanted(rest, new)
    BY <1>3 DEF EventsAreWanted
<1> QED
    BY <1>4 DEF rest

-----------------------------------------------------------------------------
(* A link is unused until it is up.                                        *)

\* Nothing is sent on a link before it is up.
LEMMA NothingStaysBefore ==
    ASSUME LoopInv, IndexIsOfPeers, NothingBefore, OneLinkEach, [Next]_vars
    PROVE  NothingBefore'
<1>0. TypeOK /\ LinkTypes /\ FrameTypes
    BY TypeParts DEF LoopInv
<1>1. ASSUME UNCHANGED <<link, srvLink, mine, theirs, toMe, toSrv, uploads>> PROVE NothingBefore'
    BY <1>1 DEF NothingBefore
<1>2. CASE UNCHANGED vars
    BY <1>1, <1>2 DEF vars, linkVars
<1>3. ASSUME NEW l \in Links, Connect(l) PROVE NothingBefore'
    BY <1>0, <1>3, LinksAssumption DEF Connect, NothingBefore, LinkTypes, OfLink
<1>4. ASSUME NEW l \in Links, ReaderEnds(l) \/ ReadTimesOut(l) \/ Remove(l) PROVE NothingBefore'
  <2>1. /\ \A k \in Links : link'[k] = "down" <=> link[k] = "down"
        /\ \A s \in Servers : mine'[s] \in {mine[s], NoLink}
        /\ UNCHANGED <<srvLink, theirs, toMe, toSrv, uploads>>
    BY <1>0, <1>4 DEF ReaderEnds, ReadTimesOut, Remove, LinkTypes
  <2> QED
    BY <1>0, <2>1 DEF NothingBefore, LinkTypes
<1>5. ASSUME NEW l \in Links, ServerEnds(l) PROVE NothingBefore'
  <2>1. /\ srvLink[l] = "up" /\ \A k \in Links : k # l => srvLink'[k] = srvLink[k]
        /\ \A s \in Servers : theirs'[s] \in {theirs[s], NoLink}
        /\ UNCHANGED <<link, mine, toMe, toSrv, uploads>>
    BY <1>0, <1>5 DEF ServerEnds, LinkTypes
  <2> QED
    BY <1>0, <2>1 DEF NothingBefore, LinkTypes, OfLink
<1>6. ASSUME NEW l \in Links, ReadFrame(l) PROVE NothingBefore'
    BY <1>0, <1>6 DEF ReadFrame, NothingBefore, FrameTypes, linkVars
<1>7. ASSUME NEW l \in Links, Lose(l) PROVE NothingBefore'
    BY <1>1, <1>7 DEF Lose
<1>8. ASSUME NEW s \in Servers, NEW m, Reply(s, m)
      PROVE  \A k \in Links : link[k] = "down" => toMe'[k] = toMe[k]
    BY <1>0, <1>8 DEF Reply, NothingBefore, LinkTypes, FrameTypes
<1>9. ASSUME NEW l \in Links, Serve(l) PROVE NothingBefore'
  <2>1. /\ srvLink[l] = "up" /\ UNCHANGED <<link, srvLink, mine, theirs>>
        /\ toSrv' = [toSrv EXCEPT ![l] = Tail(@)]
    BY <1>9 DEF Serve, ServeList, ServeDownload, IgnoreDownload, TakeRequest, linkVars
  <2>2. link[l] # "down" /\ \A k \in Links : link[k] = "down" => toSrv'[k] = toSrv[k]
    BY <1>0, <2>1 DEF NothingBefore, FrameTypes
  <2>3. \A k \in Links : link[k] = "down" => toMe'[k] = toMe[k]
    BY <1>8, <1>9, LinksAssumption DEF Serve, ServeList, ServeDownload, IgnoreDownload
  <2>4. \A u \in uploads' : u \in uploads \/ u.server = ServerOf[l]
    BY <1>9 DEF Serve, ServeList, ServeDownload, IgnoreDownload
  <2>5. \A k \in Links : link[k] = "down" => ServerOf[k] # ServerOf[l]
    BY <2>2, OneLinkEach DEF OneLinkEach
  <2> QED
    BY <2>1, <2>2, <2>3, <2>4, <2>5 DEF NothingBefore
<1>10. ASSUME NEW u \in uploads, Upload(u) PROVE NothingBefore'
  <2>1. u.server \in Servers /\ u \in Uploads
    BY <1>0 DEF FrameTypes, Uploads
  <2>2. UNCHANGED <<link, srvLink, mine, theirs, toSrv>>
    BY <1>10 DEF Upload, UploadChunk, UploadEnd, UploadAborts, linkVars
  <2>3. \A k \in Links : link[k] = "down" => toMe'[k] = toMe[k]
    BY <1>8, <1>10, <2>1 DEF Upload, UploadChunk, UploadEnd, UploadAborts
  <2>4. \A v \in uploads' : v \in uploads \/ v.server = u.server
    BY <1>10, <2>1 DEF Upload, UploadChunk, UploadEnd, UploadAborts, Uploads
  <2> QED
    BY <2>2, <2>3, <2>4 DEF NothingBefore
<1>11. ASSUME NEW c, NEW m, Ask(c, m) PROVE NothingBefore'
    BY <1>1, <1>11 DEF Ask, linkVars
<1>12. ASSUME NEW s \in Servers, NEW m, SendTo(s, m), UNCHANGED <<linkVars, toMe, uploads>>
       PROVE  NothingBefore'
  <2>1. \A k \in Links : link[k] = "down" => toSrv'[k] = toSrv[k]
    BY <1>0, <1>12 DEF SendTo, NothingBefore, LinkTypes, FrameTypes
  <2> QED
    BY <1>12, <2>1 DEF NothingBefore, linkVars
<1>13. CASE HandleList
  <2>1. TakeEvent("list") /\ SendTo(Head(events).peer, [type |-> "list", req |-> nextReq])
    BY <1>13 DEF HandleList
  <2>2. Head(events).peer \in Servers
    BY <1>0, <2>1, NextEvent DEF TakeEvent
  <2> QED
    BY <1>12, <2>1, <2>2 DEF TakeEvent
<1>14. CASE HandleGet
  <2>1. /\ TakeEvent("get")
        /\ SendTo(Head(events).peer,
                  [type |-> "download", req |-> nextReq, res |-> Head(events).res])
    BY <1>14 DEF HandleGet
  <2>2. Head(events).peer \in Servers
    BY <1>0, <2>1, NextEvent DEF TakeEvent
  <2> QED
    BY <1>12, <2>1, <2>2 DEF TakeEvent
<1>15. CASE \/ HandleGetFails \/ HandleResources \/ HandleChunk \/ HandleEnd \/ HandleEndFails
            \/ HandleDisconnected
    BY <1>1, <1>15 DEF HandleGetFails, HandleResources, HandleChunk, HandleEnd, HandleEndFails,
       HandleDisconnected, TakeEvent, linkVars
<1> QED
    BY <1>2, <1>3, <1>4, <1>5, <1>6, <1>7, <1>9, <1>10, <1>11, <1>13, <1>14, <1>15
    DEF Next, EventLoop, AskList, AskGet

-----------------------------------------------------------------------------
(* Steps of the links and the servers.                                     *)

EventPart(d, queue, q, n) ==
    /\ ~d.broken /\ Len(d.got) <= Size /\ \A k \in 1..Len(d.got) : d.got[k] = k
    /\ n \in Len(d.got)..(Size + 1) /\ InOrder(queue, q, Len(d.got) + 1, n)
LinkPart(q, s, n) ==
    \A l \in Links : ServerOf[l] = s /\ link[l] = "up" =>
        OnLink(toMe[l], toSrv[l], Sending(uploads, ServerOf[l], q), q, n)

\* A transfer flows through the events and its link.
LEMMA FlowParts ==
    ASSUME NEW q
    PROVE  Flows(q) <=> \E n : /\ EventPart(downloads[transfers[q].res], events, q, n)
                               /\ LinkPart(q, transfers[q].peer, n)
BY DEF Flows, EventPart, LinkPart

\* How much of a download there is.
LEMMA FlowBounds ==
    ASSUME FlowInv, NEW q \in DOMAIN transfers
    PROVE  LET d == downloads[transfers[q].res] IN
           /\ transfers[q].res \in DOMAIN downloads /\ d.got \in Chunks /\ Len(d.got) \in Nat
           /\ \E n \in Nat : EventPart(d, events, q, n) /\ LinkPart(q, transfers[q].peer, n)
<1>1. transfers[q].res \in DOMAIN downloads
    BY DEF FlowInv, OneTransferEach
<1> DEFINE d == downloads[transfers[q].res]
<1>2. d.got \in Chunks
    BY <1>1 DEF FlowInv, LoopInv, TypeOK
<1> HIDE DEF d
<1>3. Len(d.got) \in Nat
    BY <1>2 DEF Chunks
<1>4. PICK n : EventPart(d, events, q, n) /\ LinkPart(q, transfers[q].peer, n)
    BY FlowParts DEF FlowInv, d
<1>5. n \in Nat
    BY <1>3, <1>4, BoundsAssumption DEF EventPart
<1> QED
    BY <1>1, <1>2, <1>3, <1>4, <1>5 DEF d

\* A link comes up.
LEMMA FlowWhenConnecting ==
    ASSUME FlowInv, OneLinkEach, NEW l \in Links, Connect(l)
    PROVE  FramesAreWanted' /\ \A q \in DOMAIN transfers' : Flows(q)'
<1>1. /\ link[l] = "down" /\ link' = [link EXCEPT ![l] = "up"]
      /\ UNCHANGED <<toMe, toSrv, uploads, events, transfers, downloads>>
    BY DEF Connect, loopVars
<1>2. /\ toMe[l] = <<>> /\ toSrv[l] = <<>> /\ \A u \in uploads : u.server # ServerOf[l]
    BY <1>1 DEF FlowInv, NothingBefore
<1>3. \A k \in Links : link'[k] = "up" => link[k] = "up" \/ k = l
    BY <1>1 DEF FlowInv, LoopInv, TypeOK
<1>4. FramesAreWanted'
  <2>1. Range(toMe[l]) = {} /\ Range(toSrv[l]) = {}
    BY <1>2 DEF Range
  <2> QED
    BY <1>1, <1>2, <1>3, <2>1 DEF FlowInv, FramesAreWanted
<1>5. ASSUME NEW q \in DOMAIN transfers PROVE Flows(q)'
  <2> DEFINE d == downloads[transfers[q].res]
  <2>1. Len(d.got) \in Nat
    BY <1>5, FlowBounds
  <2>2. PICK n \in Nat : EventPart(d, events, q, n) /\ LinkPart(q, transfers[q].peer, n)
    BY <1>5, FlowBounds
  <2>3. n \in 0..(Size + 1)
    BY <2>1, <2>2, BoundsAssumption DEF EventPart
  <2>4. OnLink(toMe[l], toSrv[l], {}, q, n)
    <3>1. DOMAIN toMe[l] = {} /\ Downloads(toSrv[l], q) = {}
        BY <1>2 DEF Downloads
    <3> QED
        BY <2>3, <3>1, LinkIsFresh
  <2>5. Sending(uploads, ServerOf[l], q) = {}
    BY <1>2 DEF Sending
  <2>6. LinkPart(q, transfers[q].peer, n)'
    BY <1>1, <1>3, <2>2, <2>4, <2>5 DEF LinkPart
  <2> QED
    BY <1>1, <2>2, <2>6 DEF Flows, EventPart, LinkPart
<1> QED
    BY <1>1, <1>4, <1>5

\* Links end, or a command is queued.
LEMMA FlowWhenEnding ==
    ASSUME FlowInv, UNCHANGED <<toMe, toSrv, uploads, transfers, downloads>>,
           \A k \in Links : link'[k] = "up" => link[k] = "up",
           events' = events \/ \E m \in Events : ~IsData(m) /\ events' = Append(events, m)
    PROVE  FramesAreWanted' /\ \A q \in DOMAIN transfers' : Flows(q)'
<1>1. events \in Seq(Events)
    BY DEF FlowInv, LoopInv, TypeOK
<1>2. EventsAreWanted(events', transfers)
  <2>1. ASSUME NEW m \in Events, ~IsData(m)
        PROVE  EventsAreWanted(Append(events, m), transfers)
    BY <1>1, <2>1, WantedAfterSend DEF FlowInv, FramesAreWanted
  <2> QED
    BY <2>1 DEF FlowInv, FramesAreWanted
<1>3. FramesAreWanted'
    BY <1>2 DEF FlowInv, FramesAreWanted
<1>4. ASSUME NEW q \in DOMAIN transfers PROVE Flows(q)'
  <2> DEFINE d == downloads[transfers[q].res]
  <2>1. PICK n \in Nat : EventPart(d, events, q, n) /\ LinkPart(q, transfers[q].peer, n)
    BY <1>4, FlowBounds
  <2>2. EventPart(d, events', q, n)
    <3>1. ASSUME NEW m \in Events, ~IsData(m) PROVE EventPart(d, Append(events, m), q, n)
        BY <1>1, <2>1, <3>1, OrderAfterOther DEF EventPart, IsDataOf
    <3> QED
        BY <2>1, <3>1
  <2>3. LinkPart(q, transfers[q].peer, n)'
    BY <2>1 DEF LinkPart
  <2> QED
    BY <2>2, <2>3 DEF Flows, EventPart, LinkPart
<1> QED
    BY <1>3, <1>4

\* The reader hands a frame to the loop.
LEMMA FlowWhenReading ==
    ASSUME FlowInv, OneLinkEach, NEW l \in Links, ReadFrame(l)
    PROVE  FramesAreWanted' /\ \A q \in DOMAIN transfers' : Flows(q)'
<1> DEFINE h == Head(toMe[l])
<1>1. /\ link[l] = "up" /\ toMe[l] # <<>> /\ events' = Append(events, h)
      /\ toMe' = [toMe EXCEPT ![l] = Tail(toMe[l])]
      /\ UNCHANGED <<link, toSrv, uploads, transfers, downloads>>
    BY DEF ReadFrame, linkVars, loopVars
<1>2. /\ events \in Seq(Events) /\ toMe[l] \in Seq(FromServer) /\ toMe \in [Links -> Seq(FromServer)]
    BY DEF FlowInv, LoopInv, TypeOK
<1>3. /\ h \in Range(toMe[l]) /\ h \in FromServer /\ h \in Events
      /\ Range(Tail(toMe[l])) \subseteq Range(toMe[l])
    BY <1>1, <1>2, TakenFirst DEF Events
<1>4. toMe'[l] = Tail(toMe[l]) /\ \A k \in Links : k # l => toMe'[k] = toMe[k]
    BY <1>1, <1>2
<1>5. IsData(h) => Wanted(h, ServerOf[l], transfers)
    BY <1>1, <1>3 DEF FlowInv, FramesAreWanted
<1> HIDE DEF h
<1>6. EventsAreWanted(events', transfers)
  <2>1. ASSUME IsData(h), NEW i \in DOMAIN events, events[i].type = "disconnected"
        PROVE  ~Wanted(h, events[i].peer, transfers)
    <3>1. HasEnded(events[i].peer)
        BY <2>1 DEF FlowInv, EndsAreReal, Range
    <3>2. PICK k \in Links : ServerOf[k] = events[i].peer /\ link[k] \in {"ended", "closed"}
        BY <3>1 DEF HasEnded
    <3>3. ServerOf[k] # ServerOf[l]
        BY <1>1, <3>2, OneLinkEach DEF OneLinkEach
    <3> QED
        BY <1>5, <2>1, <3>2, <3>3 DEF Wanted
  <2>2. IsData(h) => h.req \in DOMAIN transfers
    BY <1>5 DEF Wanted
  <2>3. EventsAreWanted(events, transfers)
    BY DEF FlowInv, FramesAreWanted
  <2>4. EventsAreWanted(Append(events, h), transfers)
    BY <1>2, <1>3, <2>1, <2>2, <2>3, WantedAfterSend
  <2> QED
    BY <1>1, <2>4
<1>7. FramesAreWanted'
    BY <1>1, <1>3, <1>4, <1>6 DEF FlowInv, FramesAreWanted
<1>8. ASSUME NEW q \in DOMAIN transfers PROVE Flows(q)'
  <2> DEFINE d == downloads[transfers[q].res]
             sending == Sending(uploads, ServerOf[l], q)
  <2>1. d.got \in Chunks /\ Len(d.got) \in Nat
    BY <1>8, FlowBounds
  <2>2. PICK n \in Nat : EventPart(d, events, q, n) /\ LinkPart(q, transfers[q].peer, n)
    BY <1>8, FlowBounds
  <2>3. d' = d
    BY <1>1
  <2> HIDE DEF d
  <2>4. CASE ~IsDataOf(h, q)
    <3>1. EventPart(d, Append(events, h), q, n)
        BY <1>2, <1>3, <2>2, <2>4, OrderAfterOther DEF EventPart
    <3>2. OnLink(toMe[l], toSrv[l], sending, q, n) =>
            OnLink(Tail(toMe[l]), toSrv[l], sending, q, n)
        BY <1>1, <1>2, <2>4, LinkIsRead DEF h
    <3>3. LinkPart(q, transfers[q].peer, n)'
        BY <1>1, <1>4, <2>2, <3>2 DEF LinkPart
    <3> QED
        BY <1>1, <2>3, <3>1, <3>3 DEF Flows, EventPart, LinkPart, d
  <2>5. CASE IsDataOf(h, q)
    <3>1. transfers[q].peer = ServerOf[l]
        BY <1>5, <2>5 DEF IsDataOf, Wanted
    <3>2. OnLink(toMe[l], toSrv[l], sending, q, n)
        BY <1>1, <2>2, <3>1 DEF LinkPart
    <3>3. /\ n + 1 <= Size + 1 /\ Rank(h) = n + 1
          /\ OnLink(Tail(toMe[l]), toSrv[l], sending, q, n + 1)
        BY <1>1, <1>2, <2>5, <3>2, LinkIsRead DEF h
    <3>4. EventPart(d, Append(events, h), q, n + 1)
      <4>1. /\ Len(d.got) + 1 \in Nat /\ Len(d.got) + 1 <= n + 1
            /\ n + 1 \in Len(d.got)..(Size + 1)
        BY <2>1, <2>2, <3>3, BoundsAssumption DEF EventPart
      <4>2. InOrder(events, q, Len(d.got) + 1, n)
        BY <2>2 DEF EventPart
      <4>3. InOrder(Append(events, h), q, Len(d.got) + 1, n + 1)
        BY <1>2, <1>3, <2>5, <3>3, <4>1, <4>2, OrderAfterSend
      <4> QED
        BY <2>2, <4>1, <4>3 DEF EventPart
    <3>5. \A k \in Links : ServerOf[k] = ServerOf[l] => k = l
        BY OneLinkEach DEF OneLinkEach
    <3>6. LinkPart(q, transfers[q].peer, n + 1)'
        BY <1>1, <1>4, <3>1, <3>3, <3>5 DEF LinkPart
    <3> QED
        BY <1>1, <2>3, <3>4, <3>6 DEF Flows, EventPart, LinkPart, d
  <2> QED
    BY <2>4, <2>5
<1> QED
    BY <1>1, <1>7, <1>8

\* The servers work: it is enough that every live link goes on carrying what is
\* wanted.
LEMMA FlowWhenServing ==
    ASSUME FlowInv, UNCHANGED <<link, events, transfers, downloads>>,
           \A l \in Links : link[l] = "up" =>
              /\ \A m \in Range(toMe'[l]) : IsData(m) => Wanted(m, ServerOf[l], transfers)
              /\ \A m \in Range(toSrv'[l]) : m.type = "download" => Wanted(m, ServerOf[l], transfers)
              /\ \A u \in uploads' : u.server = ServerOf[l] => Wanted(u, ServerOf[l], transfers),
           \A q \in DOMAIN transfers : \A l \in Links : \A n \in Nat :
              OnLink(toMe[l], toSrv[l], Sending(uploads, ServerOf[l], q), q, n) =>
                 OnLink(toMe'[l], toSrv'[l], Sending(uploads', ServerOf[l], q), q, n)
    PROVE  FramesAreWanted' /\ \A q \in DOMAIN transfers' : Flows(q)'
<1>1. FramesAreWanted'
    BY DEF FlowInv, FramesAreWanted
<1>2. ASSUME NEW q \in DOMAIN transfers PROVE Flows(q)'
  <2>1. PICK n \in Nat : /\ EventPart(downloads[transfers[q].res], events, q, n)
                         /\ LinkPart(q, transfers[q].peer, n)
    BY <1>2, FlowBounds
  <2>2. LinkPart(q, transfers[q].peer, n)'
    BY <2>1 DEF LinkPart
  <2> QED
    BY <2>1, <2>2 DEF Flows, EventPart, LinkPart
<1> QED
    BY <1>1, <1>2

\* A list, or a request that is ignored, leaves the transfers alone.
LEMMA FlowWhenListing ==
    ASSUME FlowInv, NEW l \in Links, ServeList(l) \/ IgnoreDownload(l)
    PROVE  FramesAreWanted' /\ \A q \in DOMAIN transfers' : Flows(q)'
<1> DEFINE m == [type |-> "resources", req |-> Head(toSrv[l]).req]
<1>0. TypeOK /\ ServerOf[l] \in Servers
    BY LinksAssumption DEF FlowInv, LoopInv
<1>1. PICK type : TakeRequest(l, type)
    BY DEF ServeList, IgnoreDownload
<1>2. /\ toSrv[l] # <<>> /\ toSrv' = [toSrv EXCEPT ![l] = Tail(toSrv[l])]
      /\ UNCHANGED <<link, events, transfers, downloads, uploads>>
      /\ toMe' = toMe \/ Reply(ServerOf[l], m)
    BY DEF ServeList, IgnoreDownload, TakeRequest, linkVars, loopVars
<1>3. m \in FromServer /\ ~IsData(m)
  <2>1. Head(toSrv[l]).req \in Nat
    BY <1>0, <1>2, NextRequest
  <2> QED
    BY <2>1 DEF FromServer, IsData
<1> HIDE DEF m
<1>4. \A k \in Links : toMe'[k] = toMe[k] \/ toMe'[k] = Append(toMe[k], m)
    BY <1>0, <1>2 DEF Reply, TypeOK
<1>5. \A k \in Links : toMe[k] \in Seq(FromServer) /\ toSrv[k] \in Seq(ToServer)
    BY <1>0 DEF TypeOK
<1>6. \A k \in Links : toSrv'[k] = toSrv[k] \/ (toSrv[k] # <<>> /\ toSrv'[k] = Tail(toSrv[k]))
    BY <1>0, <1>2 DEF TypeOK
<1>7. \A k \in Links : /\ Range(toMe'[k]) \subseteq Range(toMe[k]) \cup {m}
                       /\ Range(toSrv'[k]) \subseteq Range(toSrv[k])
  <2> SUFFICES ASSUME NEW k \in Links
               PROVE  /\ Range(toMe'[k]) \subseteq Range(toMe[k]) \cup {m}
                      /\ Range(toSrv'[k]) \subseteq Range(toSrv[k])
    OBVIOUS
  <2>1. Range(Append(toMe[k], m)) = Range(toMe[k]) \cup {m}
    BY <1>3, <1>5, QueuedLast
  <2>2. toSrv[k] # <<>> => Range(Tail(toSrv[k])) \subseteq Range(toSrv[k])
    BY <1>5, TakenFirst
  <2> QED
    BY <1>4, <1>6, <2>1, <2>2
<1>8. ASSUME NEW q \in DOMAIN transfers, NEW k \in Links, NEW n \in Nat,
             NEW sending, OnLink(toMe[k], toSrv[k], sending, q, n)
      PROVE  OnLink(toMe'[k], toSrv'[k], sending, q, n)
  <2>1. OnLink(toMe[k], toSrv'[k], sending, q, n)
    BY <1>5, <1>6, <1>8, LinkServes
  <2> QED
    BY <1>3, <1>4, <1>5, <2>1, LinkSendsOther DEF IsDataOf
<1> QED
    BY <1>2, <1>3, <1>7, <1>8, FlowWhenServing DEF FlowInv, FramesAreWanted

\* A request for q becomes the upload of q.
LEMMA FlowWhenUploadStarts ==
    ASSUME FlowInv, OneLinkEach, NEW l \in Links, ServeDownload(l)
    PROVE  FramesAreWanted' /\ \A q \in DOMAIN transfers' : Flows(q)'
<1> DEFINE m == Head(toSrv[l])
           u == [server |-> ServerOf[l], req |-> m.req, res |-> m.res, next |-> 1]
<1>0. TypeOK /\ FramesAreWanted
    BY DEF FlowInv, LoopInv
<1>1. /\ toSrv[l] # <<>> /\ m.type = "download" /\ toSrv' = [toSrv EXCEPT ![l] = Tail(toSrv[l])]
      /\ uploads' = uploads \cup {u} /\ UNCHANGED <<toMe, link, events, transfers, downloads>>
    BY DEF ServeDownload, TakeRequest, linkVars, loopVars
<1>2. u.server = ServerOf[l] /\ u.req = m.req /\ u.next = 1
    OBVIOUS
<1>3. m \in Range(toSrv[l])
    BY <1>0, <1>1, NextRequest
<1> HIDE DEF u
<1>4. \A k \in Links : toSrv[k] \in Seq(ToServer)
    BY <1>0 DEF TypeOK
<1>5. toSrv'[l] = Tail(toSrv[l]) /\ \A k \in Links : k # l => toSrv'[k] = toSrv[k]
    BY <1>0, <1>1 DEF TypeOK
<1>6. Range(Tail(toSrv[l])) \subseteq Range(toSrv[l])
    BY <1>1, <1>4, TakenFirst
<1>7. link[l] = "up" => Wanted(u, ServerOf[l], transfers)
    BY <1>0, <1>1, <1>2, <1>3 DEF FramesAreWanted, Wanted
<1>8. \A k \in Links : ServerOf[k] = ServerOf[l] => k = l
    BY OneLinkEach DEF OneLinkEach
<1>9. ASSUME NEW q \in DOMAIN transfers, NEW k \in Links, NEW n \in Nat,
             OnLink(toMe[k], toSrv[k], Sending(uploads, ServerOf[k], q), q, n)
      PROVE  OnLink(toMe'[k], toSrv'[k], Sending(uploads', ServerOf[k], q), q, n)
  <2> DEFINE old == Sending(uploads, ServerOf[k], q)
             new == Sending(uploads', ServerOf[k], q)
  <2>1. CASE k # l
    <3>1. new = old
        BY <1>1, <1>2, <1>8, <2>1 DEF Sending
    <3> QED
        BY <1>1, <1>5, <1>9, <2>1, <3>1
  <2>2. CASE k = l /\ q # m.req
    <3>1. new = old
        BY <1>1, <1>2, <2>2 DEF Sending
    <3>2. OnLink(toMe[l], Tail(toSrv[l]), old, q, n)
        BY <1>1, <1>4, <1>9, <2>2, LinkServes
    <3> QED
        BY <1>1, <1>5, <2>2, <3>1, <3>2
  <2>3. CASE k = l /\ q = m.req
    <3>1. IsDownloadOf(Head(toSrv[l]), q)
        BY <1>1, <2>3 DEF IsDownloadOf
    <3> HIDE DEF m
    <3>2. old = {} /\ OnLink(toMe[l], Tail(toSrv[l]), {u}, q, n)
        BY <1>1, <1>2, <1>4, <1>9, <2>3, <3>1, LinkServes
    <3>3. new = {u}
        BY <1>1, <1>2, <2>3, <3>2 DEF Sending
    <3> QED
        BY <1>1, <1>5, <2>3, <3>2, <3>3
  <2> QED
    BY <2>1, <2>2, <2>3
<1>10. \A k \in Links : link[k] = "up" =>
          /\ \A x \in Range(toMe'[k]) : IsData(x) => Wanted(x, ServerOf[k], transfers)
          /\ \A x \in Range(toSrv'[k]) : x.type = "download" => Wanted(x, ServerOf[k], transfers)
          /\ \A x \in uploads' : x.server = ServerOf[k] => Wanted(x, ServerOf[k], transfers)
    BY <1>0, <1>1, <1>2, <1>5, <1>6, <1>7, <1>8 DEF FramesAreWanted
<1> QED
    BY <1>1, <1>9, <1>10, FlowWhenServing

\* An upload sends a frame: its next chunk, or the end.
LEMMA FlowWhenUploadSends ==
    ASSUME FlowInv, OneLinkEach, NEW u \in uploads, NEW m \in FromServer, Reply(u.server, m),
           IsData(m), m.req = u.req, Rank(m) = u.next, NEW rest, uploads' = (uploads \ {u}) \cup rest,
           \A v, w \in rest : v = w,
           \A v \in rest : v.server = u.server /\ v.req = u.req /\ v.next = u.next + 1,
           UNCHANGED <<linkVars, toSrv, events, loopVars>>
    PROVE  FramesAreWanted' /\ \A q \in DOMAIN transfers' : Flows(q)'
<1>0. TypeOK /\ FramesAreWanted /\ u \in Uploads /\ u.server \in Servers /\ u.next \in 1..(Size + 1)
    BY DEF FlowInv, LoopInv, TypeOK, Uploads
<1>1. PICK l \in Links : l = theirs[u.server] /\ ServerOf[l] = u.server
    BY <1>0 DEF Reply, FlowInv, NothingBefore, OfLink
<1>2. toMe' = [toMe EXCEPT ![l] = Append(toMe[l], m)]
    BY <1>1 DEF Reply
<1>3. \A k \in Links : toMe[k] \in Seq(FromServer)
    BY <1>0 DEF TypeOK
<1>4. toMe'[l] = Append(toMe[l], m) /\ \A k \in Links : k # l => toMe'[k] = toMe[k]
    BY <1>0, <1>2 DEF TypeOK
<1>5. Range(Append(toMe[l], m)) = Range(toMe[l]) \cup {m}
    BY <1>3, QueuedLast
<1>6. UNCHANGED <<link, events, transfers, downloads, toSrv>>
    BY DEF linkVars, loopVars
<1>7. \A k \in Links : ServerOf[k] = ServerOf[l] => k = l
    BY OneLinkEach DEF OneLinkEach
<1>8. \A k \in Links : link[k] = "up" =>
          /\ \A x \in Range(toMe'[k]) : IsData(x) => Wanted(x, ServerOf[k], transfers)
          /\ \A x \in Range(toSrv'[k]) : x.type = "download" => Wanted(x, ServerOf[k], transfers)
          /\ \A x \in uploads' : x.server = ServerOf[k] => Wanted(x, ServerOf[k], transfers)
  <2>1. link[l] = "up" => /\ Wanted(m, ServerOf[l], transfers)
                          /\ \A v \in rest : Wanted(v, ServerOf[l], transfers)
    BY <1>0, <1>1 DEF FramesAreWanted, Wanted
  <2> SUFFICES ASSUME NEW k \in Links, link[k] = "up"
               PROVE  /\ \A x \in Range(toMe'[k]) : IsData(x) => Wanted(x, ServerOf[k], transfers)
                      /\ \A x \in Range(toSrv'[k]) :
                            x.type = "download" => Wanted(x, ServerOf[k], transfers)
                      /\ \A x \in uploads' : x.server = ServerOf[k] => Wanted(x, ServerOf[k], transfers)
    OBVIOUS
  <2>2. /\ \A x \in Range(toMe[k]) : IsData(x) => Wanted(x, ServerOf[k], transfers)
        /\ \A x \in Range(toSrv[k]) : x.type = "download" => Wanted(x, ServerOf[k], transfers)
        /\ \A x \in uploads : x.server = ServerOf[k] => Wanted(x, ServerOf[k], transfers)
    BY <1>0, <1>6 DEF FramesAreWanted
  <2>3. \A x \in Range(toMe'[k]) : IsData(x) => Wanted(x, ServerOf[k], transfers)
    BY <1>4, <1>5, <2>1, <2>2
  <2>4. \A x \in uploads' : x.server = ServerOf[k] => Wanted(x, ServerOf[k], transfers)
    BY <1>0, <1>1, <1>7, <2>1, <2>2
  <2> QED
    BY <1>6, <2>2, <2>3, <2>4
<1>9. ASSUME NEW q \in DOMAIN transfers, NEW k \in Links, NEW n \in Nat,
             OnLink(toMe[k], toSrv[k], Sending(uploads, ServerOf[k], q), q, n)
      PROVE  OnLink(toMe'[k], toSrv'[k], Sending(uploads', ServerOf[k], q), q, n)
  <2> DEFINE old == Sending(uploads, ServerOf[k], q)
             new == Sending(uploads', ServerOf[k], q)
  <2>1. CASE k # l
    <3>1. new = old
        BY <1>1, <1>7, <2>1 DEF Sending
    <3> QED
        BY <1>4, <1>6, <1>9, <2>1, <3>1
  <2>2. CASE k = l /\ q # u.req
    <3>1. new = old
        BY <2>2 DEF Sending
    <3>2. OnLink(Append(toMe[l], m), toSrv[l], old, q, n)
        BY <1>3, <1>9, <2>2, LinkSendsOther DEF IsDataOf
    <3> QED
        BY <1>4, <1>6, <2>2, <3>1, <3>2
  <2>3. CASE k = l /\ q = u.req
    <3>1. u \in old /\ \A v \in old : v = u
        BY <1>1, <1>9, <2>3 DEF Sending, OnLink
    <3>2. new = rest
        BY <1>1, <2>3, <3>1 DEF Sending
    <3> HIDE DEF old, new
    <3>3. OnLink(toMe[l], toSrv[l], old, q, n)
        BY <1>9, <2>3 DEF old
    <3>4. OnLink(Append(toMe[l], m), toSrv[l], rest, q, n)
        BY <1>0, <1>3, <2>3, <3>1, <3>3, LinkSendsData DEF IsDataOf
    <3> QED
        BY <1>4, <1>6, <2>3, <3>2, <3>4 DEF new
  <2> QED
    BY <2>1, <2>2, <2>3
<1> QED
    BY <1>6, <1>8, <1>9, FlowWhenServing

\* An upload sends the next frame to the link it was asked on, for it is the
\* only one.
LEMMA FlowWhenUploading ==
    ASSUME FlowInv, OneLinkEach, NEW u \in uploads, Upload(u)
    PROVE  FramesAreWanted' /\ \A q \in DOMAIN transfers' : Flows(q)'
<1>0. u \in Uploads
    BY DEF FlowInv, LoopInv, TypeOK
<1>1. CASE UploadChunk(u)
  <2> DEFINE m == [type |-> "chunk", req |-> u.req, res |-> u.res, index |-> u.next]
             rest == {[u EXCEPT !.next = @ + 1]}
  <2>1. /\ u.next <= Size /\ Reply(u.server, m) /\ uploads' = (uploads \ {u}) \cup rest
        /\ UNCHANGED <<linkVars, toSrv, events, loopVars>>
    BY <1>1 DEF UploadChunk
  <2>2. m \in FromServer /\ IsData(m) /\ m.req = u.req /\ Rank(m) = u.next
    BY <1>0, <2>1, BoundsAssumption DEF Uploads, FromServer, IsData, Rank
  <2>3. /\ \A v, w \in rest : v = w
        /\ \A w \in rest : w.server = u.server /\ w.req = u.req /\ w.next = u.next + 1
    BY <1>0 DEF Uploads
  <2> HIDE DEF m, rest
  <2> QED
    BY <2>1, <2>2, <2>3, FlowWhenUploadSends
<1>2. CASE UploadEnd(u)
  <2> DEFINE m == [type |-> "end", req |-> u.req, res |-> u.res]
             rest == {}
  <2>1. /\ u.next > Size /\ Reply(u.server, m) /\ uploads' = (uploads \ {u}) \cup rest
        /\ UNCHANGED <<linkVars, toSrv, events, loopVars>>
    BY <1>2 DEF UploadEnd
  <2>2. m \in FromServer /\ IsData(m) /\ m.req = u.req /\ Rank(m) = u.next
    BY <1>0, <2>1, BoundsAssumption DEF Uploads, FromServer, IsData, Rank
  <2>3. /\ \A v, w \in rest : v = w
        /\ \A w \in rest : w.server = u.server /\ w.req = u.req /\ w.next = u.next + 1
    OBVIOUS
  <2> HIDE DEF m, rest
  <2> QED
    BY <2>1, <2>2, <2>3, FlowWhenUploadSends
<1>3. CASE UploadAborts(u)
  <2>1. uploads' \subseteq uploads /\ UNCHANGED <<link, toMe, toSrv, events, transfers, downloads>>
    BY <1>3 DEF UploadAborts, linkVars, loopVars
  <2>2. ASSUME NEW q, NEW s PROVE Sending(uploads', s, q) \subseteq Sending(uploads, s, q)
    BY <2>1 DEF Sending
  <2>3. ASSUME NEW q \in DOMAIN transfers, NEW k \in Links, NEW n \in Nat,
               OnLink(toMe[k], toSrv[k], Sending(uploads, ServerOf[k], q), q, n)
        PROVE  OnLink(toMe'[k], toSrv'[k], Sending(uploads', ServerOf[k], q), q, n)
    BY <2>1, <2>2, <2>3, LinkLosesUpload
  <2> QED
    BY <2>1, <2>3, FlowWhenServing DEF FlowInv, FramesAreWanted
<1> QED
    BY <1>1, <1>2, <1>3 DEF Upload

-----------------------------------------------------------------------------
(* The event loop.                                                         *)

\* A transfer that the event is not about goes on; the loop may send a frame that
\* does not ask for it.
LEMMA FlowGoesOn ==
    ASSUME FlowInv, events # <<>>, events' = Tail(events), UNCHANGED <<link, toMe, uploads>>,
           NEW q \in DOMAIN transfers, q \in DOMAIN transfers', transfers'[q] = transfers[q],
           downloads'[transfers[q].res] = downloads[transfers[q].res],
           ~IsDataOf(Head(events), q),
           \A l \in Links : \/ toSrv'[l] = toSrv[l]
                            \/ \E m \in ToServer : ~IsDownloadOf(m, q) /\ toSrv'[l] = Append(toSrv[l], m)
    PROVE  Flows(q)'
<1> DEFINE d == downloads[transfers[q].res]
<1>0. TypeOK
    BY DEF FlowInv, LoopInv
<1>1. d.got \in Chunks /\ Len(d.got) \in Nat
    BY FlowBounds
<1>2. PICK n \in Nat : EventPart(d, events, q, n) /\ LinkPart(q, transfers[q].peer, n)
    BY FlowBounds
<1>3. EventPart(d, Tail(events), q, n)
  <2>1. InOrder(events, q, Len(d.got) + 1, n) /\ Len(d.got) + 1 \in Nat /\ events \in Seq(Events)
    BY <1>0, <1>1, <1>2 DEF EventPart, TypeOK
  <2>2. InOrder(Tail(events), q, Len(d.got) + 1, n)
    BY <2>1, OrderAfterTake
  <2> QED
    BY <1>2, <2>2 DEF EventPart
<1>4. ASSUME NEW l \in Links, OnLink(toMe[l], toSrv[l], Sending(uploads, ServerOf[l], q), q, n)
      PROVE  OnLink(toMe[l], toSrv'[l], Sending(uploads, ServerOf[l], q), q, n)
  <2>1. CASE toSrv'[l] = toSrv[l]
    BY <1>4, <2>1
  <2>2. CASE toSrv'[l] # toSrv[l]
    <3>1. PICK m \in ToServer : ~IsDownloadOf(m, q) /\ toSrv'[l] = Append(toSrv[l], m)
        BY <2>2
    <3>2. toSrv[l] \in Seq(ToServer)
        BY <1>0 DEF TypeOK
    <3> QED
        BY <1>4, <3>1, <3>2, LinkSendsToServer
  <2> QED
    BY <2>1, <2>2
<1>5. LinkPart(q, transfers[q].peer, n)'
    BY <1>2, <1>4 DEF LinkPart
<1> QED
    BY <1>3, <1>5 DEF Flows, EventPart, LinkPart

\* It is enough that the transfers with something under way stay.
Stays(q) == q \in DOMAIN transfers' /\ transfers'[q].peer = transfers[q].peer

\* What is under way stays wanted, if its transfers stay.
LEMMA WantedGoesOn ==
    ASSUME FlowInv, events # <<>>, events' = Tail(events), UNCHANGED <<link, toMe, uploads>>,
           \A k \in DOMAIN events : k # 1 /\ IsData(events[k]) => Stays(events[k].req),
           \A l \in Links : link[l] = "up" =>
              /\ \A m \in Range(toMe[l]) : IsData(m) => Stays(m.req)
              /\ \A m \in Range(toSrv[l]) : m.type = "download" => Stays(m.req)
              /\ \A u \in uploads : u.server = ServerOf[l] => Stays(u.req)
              /\ \A m \in Range(toSrv'[l]) :
                    m \in Range(toSrv[l]) \/ (m.type = "download" => Wanted(m, ServerOf[l], transfers'))
    PROVE  FramesAreWanted'
<1>0. FramesAreWanted /\ events \in Seq(Events)
    BY DEF FlowInv, LoopInv, TypeOK
<1>1. EventsAreWanted(Tail(events), transfers')
    BY <1>0, WantedAfterTake DEF FramesAreWanted, Stays
<1>2. ASSUME NEW l \in Links, link[l] = "up"
      PROVE  /\ \A m \in Range(toMe[l]) : IsData(m) => Wanted(m, ServerOf[l], transfers')
             /\ \A m \in Range(toSrv'[l]) : m.type = "download" => Wanted(m, ServerOf[l], transfers')
             /\ \A u \in uploads : u.server = ServerOf[l] => Wanted(u, ServerOf[l], transfers')
    BY <1>0, <1>2 DEF FramesAreWanted, Wanted, Stays
<1> QED
    BY <1>1, <1>2 DEF FramesAreWanted

\* An event about no transfer leaves them all alone.
LEMMA FlowWhenHandlingOther ==
    ASSUME FlowInv, NEW type, TakeEvent(type), type \notin {"chunk", "end"},
           UNCHANGED <<transfers, downloads, files>>,
           \A l \in Links : \/ toSrv'[l] = toSrv[l]
                            \/ \E m \in ToServer : m.type # "download" /\ toSrv'[l] = Append(toSrv[l], m)
    PROVE  FramesAreWanted' /\ \A q \in DOMAIN transfers' : Flows(q)'
<1>0. TypeOK /\ FramesAreWanted
    BY DEF FlowInv, LoopInv
<1>1. /\ events # <<>> /\ events' = Tail(events) /\ Head(events).type = type
      /\ UNCHANGED <<link, toMe, uploads>>
    BY <1>0, EventTaken DEF linkVars
<1>2. \A q \in DOMAIN transfers : Stays(q)
    BY DEF Stays
<1>3. FramesAreWanted'
  <2>1. ASSUME NEW l \in Links, NEW m \in Range(toSrv'[l]), m \notin Range(toSrv[l])
        PROVE  m.type # "download"
    <3>1. PICK x \in ToServer : x.type # "download" /\ toSrv'[l] = Append(toSrv[l], x)
        BY <2>1
    <3>2. Range(Append(toSrv[l], x)) = Range(toSrv[l]) \cup {x}
        BY <1>0, QueuedLast DEF TypeOK
    <3> QED
        BY <2>1, <3>1, <3>2
  <2>2. \A k \in DOMAIN events : IsData(events[k]) => events[k].req \in DOMAIN transfers
    BY <1>0 DEF FramesAreWanted, EventsAreWanted
  <2>3. \A l \in Links : link[l] = "up" =>
              /\ \A m \in Range(toMe[l]) : IsData(m) => m.req \in DOMAIN transfers
              /\ \A m \in Range(toSrv[l]) : m.type = "download" => m.req \in DOMAIN transfers
              /\ \A u \in uploads : u.server = ServerOf[l] => u.req \in DOMAIN transfers
    BY <1>0 DEF FramesAreWanted, Wanted
  <2> QED
    BY <1>1, <1>2, <2>1, <2>2, <2>3, WantedGoesOn
<1>4. ASSUME NEW q \in DOMAIN transfers PROVE Flows(q)'
  <2>1. ~IsDataOf(Head(events), q)
    BY <1>1 DEF IsDataOf, IsData
  <2>2. \A l \in Links : \/ toSrv'[l] = toSrv[l]
                         \/ \E m \in ToServer : ~IsDownloadOf(m, q) /\ toSrv'[l] = Append(toSrv[l], m)
    BY DEF IsDownloadOf
  <2> QED
    BY <1>1, <1>4, <2>1, <2>2, FlowGoesOn
<1> QED
    BY <1>3, <1>4

\* The part of the invariant that the other lemmas keep.
Rest == FramesAreWanted /\ OneTransferEach /\ (\A q \in DOMAIN transfers : Flows(q)) /\ FilesAreWhole

\* Steps outside the loop keep the rest of the invariant.
LEMMA RestWhenUntouched ==
    ASSUME FlowInv, UNCHANGED <<transfers, downloads, files>>,
           FramesAreWanted', \A q \in DOMAIN transfers' : Flows(q)'
    PROVE  Rest'
BY DEF Rest, FlowInv, OneTransferEach, FilesAreWhole

\* So do handlers that touch no transfer.
LEMMA RestWhenHandlingOther ==
    ASSUME FlowInv, HandleList \/ HandleGetFails \/ HandleResources
    PROVE  Rest'
<1>0. TypeOK
    BY DEF FlowInv, LoopInv
<1>1. CASE HandleList
  <2> DEFINE m == [type |-> "list", req |-> nextReq]
  <2>1. /\ TakeEvent("list") /\ SendTo(Head(events).peer, m)
        /\ UNCHANGED <<transfers, downloads, files>>
    BY <1>1 DEF HandleList
  <2>2. m \in ToServer /\ m.type # "download"
    BY <1>0 DEF TypeOK, ToServer
  <2> HIDE DEF m
  <2>3. \A l \in Links : toSrv'[l] = toSrv[l] \/ toSrv'[l] = Append(toSrv[l], m)
    BY <1>0, <2>1 DEF SendTo, TypeOK
  <2>4. FramesAreWanted' /\ \A q \in DOMAIN transfers' : Flows(q)'
    BY <2>1, <2>2, <2>3, FlowWhenHandlingOther
  <2> QED
    BY <2>1, <2>4, RestWhenUntouched
<1>2. CASE HandleGetFails \/ HandleResources
  <2>1. PICK type : /\ TakeEvent(type) /\ type \notin {"chunk", "end"}
                    /\ UNCHANGED <<toSrv, transfers, downloads, files>>
    BY <1>2 DEF HandleGetFails, HandleResources, loopVars
  <2>2. FramesAreWanted' /\ \A q \in DOMAIN transfers' : Flows(q)'
    BY <2>1, FlowWhenHandlingOther
  <2> QED
    BY <2>1, <2>2, RestWhenUntouched
<1> QED
    BY <1>1, <1>2

\* A new transfer starts with nothing under way but its request.
LEMMA RestWhenGetting ==
    ASSUME FlowInv, HandleGet
    PROVE  Rest'
<1> DEFINE e == Head(events)
           m == [type |-> "download", req |-> nextReq, res |-> e.res]
           d == [got |-> <<>>, broken |-> FALSE]
           t == [peer |-> e.peer, res |-> e.res, via |-> mine[e.peer]]
<1>0. TypeOK /\ FramesAreWanted /\ FramesMatch
    BY DEF FlowInv, LoopInv
<1>1. /\ TakeEvent("get") /\ e.res \notin DOMAIN downloads /\ SendTo(e.peer, m)
      /\ downloads' = Put(downloads, e.res, d) /\ transfers' = Put(transfers, nextReq, t)
      /\ files' = files
    BY DEF HandleGet
<1>2. /\ events # <<>> /\ events' = Tail(events) /\ e.type = "get"
      /\ Range(events') \subseteq Range(events) /\ events' \in Seq(Events)
      /\ UNCHANGED <<link, toMe, uploads>>
    BY <1>0, <1>1, EventTaken DEF linkVars
<1>3. e.peer \in Servers /\ e.res \in Resources
    BY <1>0, <1>2, NextEvent
<1>4. /\ m \in ToServer /\ m.type = "download" /\ m.req = nextReq
      /\ t.peer = e.peer /\ t.res = e.res /\ d.got = <<>> /\ ~d.broken
    BY <1>0, <1>3 DEF TypeOK, ToServer
<1>5. nextReq \in Nat /\ nextReq \notin DOMAIN transfers
    BY <1>0 DEF TypeOK, Requests
<1> HIDE DEF e, m, d, t
<1>6. /\ DOMAIN transfers' = DOMAIN transfers \cup {nextReq} /\ transfers'[nextReq] = t
      /\ \A q \in DOMAIN transfers : transfers'[q] = transfers[q]
      /\ DOMAIN downloads' = DOMAIN downloads \cup {e.res} /\ downloads'[e.res] = d
      /\ \A r \in DOMAIN downloads : downloads'[r] = downloads[r]
    BY <1>1, <1>5 DEF Put
<1>7. \A l \in Links : \/ toSrv'[l] = toSrv[l]
                       \/ toSrv'[l] = Append(toSrv[l], m) /\ ServerOf[l] = e.peer
  <2>1. OfLink(e.peer, mine[e.peer])
    BY <1>3 DEF FlowInv, IndexIsOfPeers
  <2> QED
    BY <1>0, <1>1, <2>1 DEF SendTo, TypeOK, OfLink
<1>8. \A l \in Links : toSrv[l] \in Seq(ToServer) /\ toMe[l] \in Seq(FromServer)
    BY <1>0 DEF TypeOK
\* Nothing is about the new request yet.
<1>9. /\ \A i \in DOMAIN events' : ~IsDataOf(events'[i], nextReq)
      /\ \A l \in Links : /\ \A i \in DOMAIN toMe[l] : ~IsDataOf(toMe[l][i], nextReq)
                          /\ Downloads(toSrv[l], nextReq) = {}
      /\ \A u \in uploads : u.req # nextReq
  <2>1. \A x : Consistent(x, nextReq, transfers) => x.req < nextReq
    BY DEF Consistent, OfRequest
  <2>2. \A x \in FromServer : Consistent(x, nextReq, transfers) => ~IsDataOf(x, nextReq)
    <3>1. \A x \in FromServer : x.req \in Nat
        BY DEF FromServer
    <3> QED
        BY <1>5, <2>1, <3>1 DEF IsDataOf
  <2>3. \A x \in ToServer : Consistent(x, nextReq, transfers) => x.req # nextReq
    <3>1. \A x \in ToServer : x.req \in Nat
        BY DEF ToServer
    <3> QED
        BY <1>5, <2>1, <3>1
  <2>4. \A x \in Events : IsData(x) => x \in FromServer
    BY DEF Events, FromServer, IsData
  <2>5. ASSUME NEW i \in DOMAIN events' PROVE ~IsDataOf(events'[i], nextReq)
    <3>1. events'[i] \in Range(events) /\ events'[i] \in Events
        BY <1>2, <2>5 DEF Range
    <3> QED
        BY <1>0, <2>2, <2>4, <3>1 DEF FramesMatch, IsDataOf
  <2>6. ASSUME NEW l \in Links
        PROVE  /\ \A i \in DOMAIN toMe[l] : ~IsDataOf(toMe[l][i], nextReq)
               /\ Downloads(toSrv[l], nextReq) = {}
    <3>1. \A i \in DOMAIN toMe[l] : toMe[l][i] \in Range(toMe[l]) /\ toMe[l][i] \in FromServer
        BY <1>8 DEF Range
    <3>2. \A i \in DOMAIN toSrv[l] : toSrv[l][i] \in Range(toSrv[l]) /\ toSrv[l][i] \in ToServer
        BY <1>8 DEF Range
    <3> QED
        BY <1>0, <2>2, <2>3, <3>1, <3>2 DEF FramesMatch, Downloads
  <2>7. ASSUME NEW u \in uploads PROVE u.req # nextReq
    BY <1>0, <1>5 DEF FramesMatch, OfRequest, TypeOK, Uploads
  <2> QED
    BY <2>5, <2>6, <2>7
<1>10. FramesAreWanted'
  <2>1. \A q \in DOMAIN transfers : Stays(q)
    BY <1>6 DEF Stays
  <2>2. ASSUME NEW l \in Links, NEW x \in Range(toSrv'[l]), x \notin Range(toSrv[l])
        PROVE  Wanted(x, ServerOf[l], transfers')
    <3>1. Range(Append(toSrv[l], m)) = Range(toSrv[l]) \cup {m}
        BY <1>4, <1>8, QueuedLast
    <3>2. x = m /\ ServerOf[l] = e.peer
        BY <1>7, <2>2, <3>1
    <3> QED
        BY <1>4, <1>6, <3>2 DEF Wanted
  <2>3. \A k \in DOMAIN events : IsData(events[k]) => events[k].req \in DOMAIN transfers
    BY <1>0 DEF FramesAreWanted, EventsAreWanted
  <2>4. \A l \in Links : link[l] = "up" =>
              /\ \A x \in Range(toMe[l]) : IsData(x) => x.req \in DOMAIN transfers
              /\ \A x \in Range(toSrv[l]) : x.type = "download" => x.req \in DOMAIN transfers
              /\ \A u \in uploads : u.server = ServerOf[l] => u.req \in DOMAIN transfers
    BY <1>0 DEF FramesAreWanted, Wanted
  <2> QED
    BY <1>2, <2>1, <2>2, <2>3, <2>4, WantedGoesOn
<1>11. \A q \in DOMAIN transfers : transfers[q].res \in DOMAIN downloads /\ transfers[q].res # e.res
    BY <1>1 DEF FlowInv, OneTransferEach
<1>12. OneTransferEach'
    BY <1>4, <1>5, <1>6, <1>11 DEF FlowInv, OneTransferEach
<1>13. ASSUME NEW q \in DOMAIN transfers PROVE Flows(q)'
  <2>1. ~IsDataOf(e, q)
    BY <1>2 DEF IsDataOf, IsData
  <2>2. ~IsDownloadOf(m, q)
    BY <1>4, <1>5, <1>13 DEF IsDownloadOf
  <2>3. q \in DOMAIN transfers' /\ transfers'[q] = transfers[q]
        /\ downloads'[transfers[q].res] = downloads[transfers[q].res]
    BY <1>6, <1>11, <1>13
  <2>4. \A l \in Links : \/ toSrv'[l] = toSrv[l]
                         \/ \E x \in ToServer : ~IsDownloadOf(x, q) /\ toSrv'[l] = Append(toSrv[l], x)
    BY <1>4, <1>7, <2>2
  <2> QED
    BY <1>2, <1>13, <2>1, <2>3, <2>4, FlowGoesOn DEF e
<1>14. ASSUME NEW q, q = nextReq PROVE Flows(q)'
  <2>1. EventPart(d, events', q, 0)
    <3>1. Len(d.got) = 0 /\ 0 \in 0..(Size + 1) /\ 0 <= Size
        BY <1>4, BoundsAssumption
    <3>2. InOrder(events', q, 0 + 1, 0)
        BY <1>9, <1>14, NothingInOrder
    <3> QED
        BY <1>4, <3>1, <3>2 DEF EventPart
  <2>2. ASSUME NEW l \in Links PROVE OnLink(toMe[l], toSrv'[l], Sending(uploads, ServerOf[l], q), q, 0)
    <3>1. Sending(uploads, ServerOf[l], q) = {}
        BY <1>9, <1>14 DEF Sending
    <3>2. \A i, j \in Downloads(toSrv'[l], q) : i = j
      <4>1. IsDownloadOf(m, q)
        BY <1>4, <1>14 DEF IsDownloadOf
      <4>2. Downloads(Append(toSrv[l], m), q) = Downloads(toSrv[l], q) \cup {Len(toSrv[l]) + 1}
        BY <1>4, <1>8, <4>1, DownloadsAfterSend
      <4>3. Downloads(toSrv[l], q) = {}
        BY <1>9, <1>14
      <4>4. Downloads(toSrv'[l], q) \in {{}, {Len(toSrv[l]) + 1}}
        BY <1>7, <4>2, <4>3
      <4> QED
        BY <4>4
    <3>3. 0 \in 0..(Size + 1)
        BY BoundsAssumption
    <3> QED
        BY <1>9, <1>14, <3>1, <3>2, <3>3, LinkIsFresh
  <2>3. EventPart(downloads'[transfers'[q].res], events', q, 0)
    BY <1>4, <1>6, <1>14, <2>1
  <2>4. \A l \in Links : ServerOf[l] = transfers'[q].peer /\ link'[l] = "up" =>
            OnLink(toMe'[l], toSrv'[l], Sending(uploads', ServerOf[l], q), q, 0)
    BY <1>2, <2>2
  <2> QED
    BY <2>3, <2>4 DEF Flows, EventPart
<1>15. FilesAreWhole'
    BY <1>1 DEF FlowInv, FilesAreWhole
<1>16. \A q \in DOMAIN transfers' : Flows(q)'
    BY <1>6, <1>13, <1>14
<1> QED
    BY <1>10, <1>12, <1>15, <1>16 DEF Rest

\* The data frame that the loop takes is the next of its transfer.
LEMMA NextFrame ==
    ASSUME FlowInv, events # <<>>, IsData(Head(events))
    PROVE  LET e == Head(events)
               q == e.req
               d == downloads[e.res]
           IN  /\ q \in DOMAIN transfers /\ e.res = transfers[q].res /\ e.res \in DOMAIN downloads
               /\ ~d.broken /\ d.got \in Chunks /\ Len(d.got) \in Nat /\ Len(d.got) <= Size
               /\ \A k \in 1..Len(d.got) : d.got[k] = k
               /\ Rank(e) = Len(d.got) + 1
               /\ \E n \in Nat : /\ n \in (Len(d.got) + 1)..(Size + 1)
                                 /\ InOrder(Tail(events), q, (Len(d.got) + 1) + 1, n)
                                 /\ LinkPart(q, transfers[q].peer, n)
<1> DEFINE e == Head(events)
           q == e.req
           d == downloads[transfers[q].res]
<1>0. TypeOK /\ FramesAreWanted /\ FramesMatch /\ OneTransferEach
    BY DEF FlowInv, LoopInv
<1>1. 1 \in DOMAIN events /\ e = events[1] /\ e \in Events /\ e \in Range(events)
    BY <1>0, PlacesAfterTake, NextEvent DEF TypeOK
<1>2. q \in DOMAIN transfers
    BY <1>0, <1>1 DEF FramesAreWanted, EventsAreWanted
<1>3. e \in FromServer /\ e.type \notin {"list", "resources"}
    BY <1>1 DEF Events, FromServer, IsData
<1>4. e.res = transfers[q].res
    BY <1>0, <1>1, <1>2, <1>3 DEF FramesMatch, Consistent, OfRequest
<1>5. e.res \in DOMAIN downloads
    BY <1>0, <1>2, <1>4 DEF OneTransferEach
<1> HIDE DEF e, q, d
<1>6. d.got \in Chunks /\ Len(d.got) \in Nat
    BY <1>2, FlowBounds DEF d
<1>7. PICK n \in Nat : EventPart(d, events, q, n) /\ LinkPart(q, transfers[q].peer, n)
    BY <1>2, FlowBounds DEF d
<1>8. IsDataOf(e, q)
    BY DEF IsDataOf, e, q
<1>9. /\ Len(d.got) + 1 <= n /\ Rank(e) = Len(d.got) + 1
      /\ InOrder(Tail(events), q, (Len(d.got) + 1) + 1, n)
  <2>1. InOrder(events, q, Len(d.got) + 1, n) /\ events \in Seq(Events) /\ Len(d.got) + 1 \in Nat
    BY <1>0, <1>6, <1>7 DEF EventPart, TypeOK
  <2> QED
    BY <1>8, <2>1, OrderAfterTake DEF e
<1>10. n \in (Len(d.got) + 1)..(Size + 1)
    BY <1>6, <1>7, <1>9, BoundsAssumption DEF EventPart
<1>11. ~d.broken /\ Len(d.got) <= Size /\ \A k \in 1..Len(d.got) : d.got[k] = k
    BY <1>7 DEF EventPart
<1> QED
    BY <1>2, <1>4, <1>5, <1>6, <1>7, <1>9, <1>10, <1>11 DEF e, q, d

\* A chunk is the next one of its download.
LEMMA RestWhenWriting ==
    ASSUME FlowInv, ~DiskFaults, HandleChunk
    PROVE  Rest'
<1> DEFINE e == Head(events)
           p == e.req
           d == downloads[e.res]
           new == [got |-> Append(d.got, e.index), broken |-> FALSE]
<1>0. TypeOK /\ FramesAreWanted /\ OneTransferEach
    BY DEF FlowInv, LoopInv
<1>1. TakeEvent("chunk") /\ UNCHANGED <<toSrv, nextReq, pending, transfers, files, client>>
    BY DEF HandleChunk
<1>2. /\ events # <<>> /\ events' = Tail(events) /\ e.type = "chunk"
      /\ UNCHANGED <<link, toMe, uploads>>
    BY <1>0, <1>1, EventTaken DEF linkVars
<1>3. IsData(e) /\ e.index \in 1..Size /\ Rank(e) = e.index
    BY <1>0, <1>2, NextEvent DEF IsData, Rank
<1>4. /\ p \in DOMAIN transfers /\ e.res = transfers[p].res /\ e.res \in DOMAIN downloads
      /\ ~d.broken /\ d.got \in Chunks /\ Len(d.got) \in Nat /\ Len(d.got) <= Size
      /\ \A k \in 1..Len(d.got) : d.got[k] = k
      /\ e.index = Len(d.got) + 1
    BY <1>2, <1>3, NextFrame
<1>5. PICK n \in Nat : /\ n \in (Len(d.got) + 1)..(Size + 1)
                       /\ InOrder(Tail(events), p, (Len(d.got) + 1) + 1, n)
                       /\ LinkPart(p, transfers[p].peer, n)
    BY <1>2, <1>3, NextFrame
<1>6. downloads' = [downloads EXCEPT ![e.res] = new]
  <2>1. DiskFaults = FALSE
    BY FaultsAssumption
  <2>2. PICK fails \in {FALSE, DiskFaults} :
          downloads' = [downloads EXCEPT ![e.res] =
                          [got |-> Append(@.got, e.index), broken |-> fails]]
    BY <1>4 DEF HandleChunk
  <2>3. fails = FALSE
    BY <2>1, <2>2
  <2> QED
    BY <2>2, <2>3
<1>7. DOMAIN downloads' = DOMAIN downloads /\ downloads'[e.res] = new
      /\ \A r \in DOMAIN downloads : r # e.res => downloads'[r] = downloads[r]
    BY <1>0, <1>4, <1>6 DEF TypeOK
<1>8. /\ ~new.broken /\ Len(new.got) = Len(d.got) + 1 /\ Len(new.got) <= Size
      /\ \A k \in 1..Len(new.got) : new.got[k] = k
  <2>1. /\ Len(Append(d.got, e.index)) = Len(d.got) + 1
        /\ Append(d.got, e.index)[Len(d.got) + 1] = e.index
        /\ \A i \in 1..Len(d.got) : Append(d.got, e.index)[i] = d.got[i]
    BY <1>3, <1>4, AppendProperties DEF Chunks
  <2>2. \A k \in 1..(Len(d.got) + 1) : k \in 1..Len(d.got) \/ k = Len(d.got) + 1
    BY <1>4
  <2> QED
    BY <1>3, <1>4, <2>1, <2>2
<1> HIDE DEF new
<1>9. ASSUME NEW q, q = p PROVE Flows(q)'
  <2>1. EventPart(new, Tail(events), q, n)
    BY <1>5, <1>8, <1>9 DEF EventPart
  <2>2. LinkPart(q, transfers[q].peer, n)'
    BY <1>1, <1>2, <1>5, <1>9 DEF LinkPart
  <2>3. EventPart(downloads'[transfers'[q].res], events', q, n)
    BY <1>1, <1>2, <1>4, <1>7, <1>9, <2>1
  <2> QED
    BY <1>1, <2>2, <2>3 DEF Flows, EventPart, LinkPart
<1>10. ASSUME NEW q \in DOMAIN transfers, q # p PROVE Flows(q)'
  <2>1. transfers[q].res # e.res /\ transfers[q].res \in DOMAIN downloads
    BY <1>0, <1>4, <1>10 DEF OneTransferEach
  <2>2. ~IsDataOf(e, q)
    BY <1>10 DEF IsDataOf
  <2>3. downloads'[transfers[q].res] = downloads[transfers[q].res]
    BY <1>7, <2>1
  <2> QED
    BY <1>1, <1>2, <1>10, <2>2, <2>3, FlowGoesOn
<1>11. FramesAreWanted'
  <2>1. \A q \in DOMAIN transfers : Stays(q)
    BY <1>1 DEF Stays
  <2>2. \A k \in DOMAIN events : IsData(events[k]) => events[k].req \in DOMAIN transfers
    BY <1>0 DEF FramesAreWanted, EventsAreWanted
  <2>3. \A l \in Links : link[l] = "up" =>
              /\ \A m \in Range(toMe[l]) : IsData(m) => m.req \in DOMAIN transfers
              /\ \A m \in Range(toSrv[l]) : m.type = "download" => m.req \in DOMAIN transfers
              /\ \A u \in uploads : u.server = ServerOf[l] => u.req \in DOMAIN transfers
    BY <1>0 DEF FramesAreWanted, Wanted
  <2> QED
    BY <1>1, <1>2, <2>1, <2>2, <2>3, WantedGoesOn
<1>12. OneTransferEach' /\ FilesAreWhole'
    BY <1>0, <1>1, <1>7 DEF FlowInv, OneTransferEach, FilesAreWhole
<1>13. \A q \in DOMAIN transfers' : Flows(q)'
    BY <1>1, <1>9, <1>10
<1> QED
    BY <1>11, <1>12, <1>13 DEF Rest

\* The end finds the whole resource written, and nothing of the request behind it.
LEMMA RestWhenEnding ==
    ASSUME FlowInv, HandleEnd
    PROVE  Rest'
<1> DEFINE e == Head(events)
           p == e.req
           d == downloads[e.res]
<1>0. TypeOK /\ FramesAreWanted /\ OneTransferEach
    BY DEF FlowInv, LoopInv
<1>1. /\ TakeEvent("end") /\ files' = Put(files, e.res, d.got)
      /\ downloads' = Drop(downloads, {e.res}) /\ transfers' = Drop(transfers, {p})
      /\ toSrv' = toSrv
    BY DEF HandleEnd
<1>2. /\ events # <<>> /\ events' = Tail(events) /\ e.type = "end"
      /\ UNCHANGED <<link, toMe, uploads>>
    BY <1>0, <1>1, EventTaken DEF linkVars
<1>3. IsData(e) /\ Rank(e) = Size + 1
    BY <1>2 DEF IsData, Rank
<1>4. /\ p \in DOMAIN transfers /\ e.res = transfers[p].res /\ e.res \in DOMAIN downloads
      /\ d.got \in Chunks /\ Len(d.got) \in Nat
      /\ \A k \in 1..Len(d.got) : d.got[k] = k
      /\ Size + 1 = Len(d.got) + 1
    BY <1>2, <1>3, NextFrame
<1>5. PICK n \in Nat : /\ n \in (Len(d.got) + 1)..(Size + 1)
                       /\ InOrder(Tail(events), p, (Len(d.got) + 1) + 1, n)
                       /\ LinkPart(p, transfers[p].peer, n)
    BY <1>2, <1>3, NextFrame
<1>6. n = Size + 1 /\ Len(d.got) = Size /\ (n + 1)..n = {}
    BY <1>4, <1>5, BoundsAssumption
<1>7. d.got = Whole
  <2> HIDE DEF e, p, d
  <2>0. PICK g \in Seq(1..Size) : g = d.got
    BY <1>4 DEF Chunks
  <2>1. g = [k \in 1..Size |-> g[k]]
    BY <1>6, <2>0
  <2> QED
    BY <1>4, <1>6, <2>0, <2>1 DEF Whole
<1> HIDE DEF e, p, d
<1>8. FilesAreWhole'
    BY <1>1, <1>7 DEF FlowInv, FilesAreWhole, Put
<1>9. /\ DOMAIN transfers' = DOMAIN transfers \ {p}
      /\ \A q \in DOMAIN transfers' : transfers'[q] = transfers[q]
      /\ DOMAIN downloads' = DOMAIN downloads \ {e.res}
      /\ \A r \in DOMAIN downloads' : downloads'[r] = downloads[r]
    BY <1>1 DEF Drop, Restrict
<1>10. \A q \in DOMAIN transfers : q # p => transfers[q].res # e.res
    BY <1>0, <1>4 DEF OneTransferEach
<1>11. OneTransferEach'
    BY <1>0, <1>9, <1>10 DEF OneTransferEach
<1>12. \A q \in DOMAIN transfers : q # p => Stays(q)
    BY <1>9 DEF Stays
<1>13. ASSUME NEW k \in DOMAIN events, k # 1, IsData(events[k])
       PROVE  events[k].req \in DOMAIN transfers /\ events[k].req # p
  <2>1. events[k].req \in DOMAIN transfers
    BY <1>0, <1>13 DEF FramesAreWanted, EventsAreWanted
  <2>2. Ranks(Tail(events), p) = {}
    BY <1>5, <1>6 DEF InOrder
  <2>3. k - 1 \in DOMAIN Tail(events) /\ Tail(events)[k - 1] = events[k]
    BY <1>0, <1>2, <1>13, PlacesAfterTake DEF TypeOK
  <2> QED
    BY <1>13, <2>1, <2>2, <2>3 DEF Ranks, DataOf
<1>14. ASSUME NEW l \in Links, link[l] = "up"
       PROVE  /\ \A m \in Range(toMe[l]) : IsData(m) => m.req \in DOMAIN transfers /\ m.req # p
              /\ \A m \in Range(toSrv[l]) : m.type = "download" =>
                                               m.req \in DOMAIN transfers /\ m.req # p
              /\ \A u \in uploads : u.server = ServerOf[l] => u.req \in DOMAIN transfers /\ u.req # p
  <2>1. /\ \A m \in Range(toMe[l]) : IsData(m) => Wanted(m, ServerOf[l], transfers)
        /\ \A m \in Range(toSrv[l]) : m.type = "download" => Wanted(m, ServerOf[l], transfers)
        /\ \A u \in uploads : u.server = ServerOf[l] => Wanted(u, ServerOf[l], transfers)
    BY <1>0, <1>14 DEF FramesAreWanted
  <2>2. CASE ServerOf[l] # transfers[p].peer
    BY <2>1, <2>2 DEF Wanted
  <2>3. CASE ServerOf[l] = transfers[p].peer
    <3>1. OnLink(toMe[l], toSrv[l], Sending(uploads, ServerOf[l], p), p, n)
        BY <1>5, <1>14, <2>3 DEF LinkPart
    <3>2. PICK last \in n..(Size + 1) :
            /\ InOrder(toMe[l], p, n + 1, last)
            /\ \A u \in Sending(uploads, ServerOf[l], p) : u.next = last + 1
            /\ Downloads(toSrv[l], p) # {} => last = 0
        BY <3>1 DEF OnLink
    <3>3. last = n /\ n + 1 > Size + 1 /\ n # 0
        BY <1>6, <3>2, BoundsAssumption
    <3>4. DataOf(toMe[l], p) = {} /\ Downloads(toSrv[l], p) = {}
        BY <1>6, <3>2, <3>3 DEF InOrder, Ranks
    <3>5. \A u \in uploads : u.next <= Size + 1
        BY <1>0, BoundsAssumption DEF TypeOK, Uploads
    <3>6. Sending(uploads, ServerOf[l], p) = {}
      <4>1. SUFFICES ASSUME NEW u \in uploads, u.server = ServerOf[l], u.req = p
                     PROVE  FALSE
        BY DEF Sending
      <4>2. u.next = last + 1
        BY <3>2, <4>1 DEF Sending
      <4>3. u.next <= Size + 1 /\ last = Size + 1
        BY <1>6, <3>3, <3>5, <4>1
      <4> QED
        BY <4>2, <4>3, BoundsAssumption
    <3> QED
        BY <2>1, <3>4, <3>6 DEF Wanted, DataOf, Downloads, Sending, Range
  <2> QED
    BY <2>2, <2>3
<1>15. FramesAreWanted'
    BY <1>1, <1>2, <1>12, <1>13, <1>14, WantedGoesOn
<1>16. ASSUME NEW q \in DOMAIN transfers, q # p PROVE Flows(q)'
  <2>1. ~IsDataOf(e, q)
    BY <1>16 DEF IsDataOf, p
  <2>2. q \in DOMAIN transfers' /\ transfers'[q] = transfers[q]
    BY <1>9, <1>16
  <2>3. downloads'[transfers[q].res] = downloads[transfers[q].res]
    BY <1>0, <1>9, <1>10, <1>16 DEF OneTransferEach
  <2> QED
    BY <1>1, <1>2, <1>16, <2>1, <2>2, <2>3, FlowGoesOn DEF e
<1>17. \A q \in DOMAIN transfers' : Flows(q)'
    BY <1>9, <1>16
<1> QED
    BY <1>8, <1>11, <1>15, <1>17 DEF Rest

\* No end fails: its download is there, and unbroken.
LEMMA EndsDoNotFail ==
    ASSUME FlowInv, ~DiskFaults
    PROVE  ~HandleEndFails
<1> SUFFICES ASSUME HandleEndFails PROVE FALSE
    OBVIOUS
<1>1. events # <<>> /\ Head(events).type = "end"
    BY DEF HandleEndFails, TakeEvent
<1>2. Head(events).res \in DOMAIN downloads /\ ~downloads[Head(events).res].broken
    BY <1>1, NextFrame DEF IsData
<1> QED
    BY <1>2 DEF HandleEndFails

\* What a disconnect cancels has nothing left under way.
LEMMA RestWhenDisconnected ==
    ASSUME FlowInv, OneLinkEach, HandleDisconnected
    PROVE  Rest'
<1> DEFINE e == Head(events)
           qs == Cancelled(e.peer)
<1>0. TypeOK /\ FramesAreWanted /\ OneTransferEach
    BY DEF FlowInv, LoopInv
<1>1. /\ TakeEvent("disconnected") /\ transfers' = Drop(transfers, qs)
      /\ downloads' = Drop(downloads, {transfers[q].res : q \in qs})
      /\ UNCHANGED <<toSrv, nextReq, files>>
    BY DEF HandleDisconnected
<1>2. /\ events # <<>> /\ events' = Tail(events) /\ e.type = "disconnected"
      /\ UNCHANGED <<link, toMe, uploads>>
    BY <1>0, <1>1, EventTaken DEF linkVars
<1>3. /\ 1 \in DOMAIN events /\ events[1] = e /\ e \in Range(events)
      /\ \A k \in DOMAIN events : 1 \in 1..k
    BY <1>0, <1>2, PlacesAfterTake, NextEvent DEF TypeOK
<1>4. qs = {q \in DOMAIN transfers : transfers[q].peer = e.peer}
    BY DEF Cancelled
<1> HIDE DEF e, qs
<1>5. /\ DOMAIN transfers' = DOMAIN transfers \ qs
      /\ \A q \in DOMAIN transfers' : transfers'[q] = transfers[q]
      /\ DOMAIN downloads' = DOMAIN downloads \ {transfers[q].res : q \in qs}
      /\ \A r \in DOMAIN downloads' : downloads'[r] = downloads[r]
    BY <1>1 DEF Drop, Restrict
<1>6. \A q \in DOMAIN transfers' :
        transfers[q].res \in DOMAIN downloads /\ transfers[q].res \in DOMAIN downloads'
    BY <1>0, <1>4, <1>5 DEF OneTransferEach
<1>7. OneTransferEach'
    BY <1>0, <1>5, <1>6 DEF OneTransferEach
<1>8. \A q \in DOMAIN transfers : transfers[q].peer # e.peer => Stays(q)
    BY <1>4, <1>5 DEF Stays
<1>9. ASSUME NEW k \in DOMAIN events, IsData(events[k]) PROVE Stays(events[k].req)
  <2>1. events[k].req \in DOMAIN transfers /\ ~Wanted(events[k], e.peer, transfers)
    BY <1>0, <1>2, <1>3, <1>9 DEF FramesAreWanted, EventsAreWanted
  <2> QED
    BY <1>8, <2>1 DEF Wanted
<1>10. ASSUME NEW l \in Links, link[l] = "up"
       PROVE  /\ \A m \in Range(toMe[l]) : IsData(m) => Stays(m.req)
              /\ \A m \in Range(toSrv[l]) : m.type = "download" => Stays(m.req)
              /\ \A u \in uploads : u.server = ServerOf[l] => Stays(u.req)
  <2>1. PICK k \in Links : ServerOf[k] = e.peer /\ link[k] \in {"ended", "closed"}
    BY <1>2, <1>3 DEF FlowInv, EndsAreReal, HasEnded
  <2>2. ServerOf[l] # e.peer
    BY <1>10, <2>1, OneLinkEach DEF OneLinkEach
  <2> QED
    BY <1>0, <1>8, <1>10, <2>2 DEF FramesAreWanted, Wanted
<1>11. FramesAreWanted'
    BY <1>1, <1>2, <1>9, <1>10, WantedGoesOn
<1>12. ASSUME NEW q \in DOMAIN transfers' PROVE Flows(q)'
  <2>1. ~IsDataOf(e, q)
    BY <1>2 DEF IsDataOf, IsData
  <2>2. /\ q \in DOMAIN transfers /\ transfers'[q] = transfers[q]
        /\ downloads'[transfers[q].res] = downloads[transfers[q].res]
    BY <1>5, <1>6, <1>12
  <2> QED
    BY <1>1, <1>2, <1>12, <2>1, <2>2, FlowGoesOn DEF e
<1>13. FilesAreWhole'
    BY <1>1 DEF FlowInv, FilesAreWhole
<1> QED
    BY <1>7, <1>11, <1>12, <1>13 DEF Rest

-----------------------------------------------------------------------------
(* The theorems.                                                           *)

\* The rest of FlowInv is preserved by every step.
LEMMA RestStep ==
    ASSUME FlowInv, OneLinkEach, ~DiskFaults, [Next]_vars
    PROVE  Rest'
<1>0. TypeOK
    BY DEF FlowInv, LoopInv
<1>1. ASSUME UNCHANGED loopVars, FramesAreWanted' /\ \A q \in DOMAIN transfers' : Flows(q)'
      PROVE  Rest'
    BY <1>1, RestWhenUntouched DEF loopVars
<1>2. CASE UNCHANGED vars
  <2>1. FramesAreWanted' /\ \A q \in DOMAIN transfers' : Flows(q)'
    BY <1>2, FlowWhenEnding DEF vars, linkVars, loopVars
  <2> QED
    BY <1>1, <1>2, <2>1 DEF vars
<1>3. ASSUME NEW l \in Links, Connect(l) PROVE Rest'
    BY <1>1, <1>3, FlowWhenConnecting DEF Connect
<1>4. ASSUME NEW l \in Links, \/ Lose(l) \/ ReaderEnds(l) \/ ReadTimesOut(l) \/ Remove(l)
                              \/ ServerEnds(l)
      PROVE  Rest'
  <2>1. \A k \in Links : link'[k] = "up" => link[k] = "up"
    BY <1>0, <1>4 DEF Lose, ReaderEnds, ReadTimesOut, Remove, ServerEnds, TypeOK
  <2>2. UNCHANGED <<toMe, toSrv, uploads, loopVars>>
    BY <1>4 DEF Lose, ReaderEnds, ReadTimesOut, Remove, ServerEnds
  <2>3. events' = events \/ events' = Append(events, Ended(ServerOf[l]))
    BY <1>4 DEF Lose, ReaderEnds, ReadTimesOut, Remove, ServerEnds, Ended
  <2>4. Ended(ServerOf[l]) \in Events /\ ~IsData(Ended(ServerOf[l]))
    <3>1. Ended(ServerOf[l]) \in Events
        BY LinksAssumption, EndedIsNoFrame
    <3> QED
        BY <3>1 DEF Ended, IsData
  <2>5. FramesAreWanted' /\ \A q \in DOMAIN transfers' : Flows(q)'
    BY <2>1, <2>2, <2>3, <2>4, FlowWhenEnding DEF loopVars
  <2> QED
    BY <1>1, <2>2, <2>5
<1>5. ASSUME NEW l \in Links, ReadFrame(l) PROVE Rest'
    BY <1>1, <1>5, FlowWhenReading DEF ReadFrame
<1>6. ASSUME NEW l \in Links, Serve(l) PROVE Rest'
  <2>1. UNCHANGED loopVars
    BY <1>6 DEF Serve, ServeList, ServeDownload, IgnoreDownload, TakeRequest
  <2> QED
    BY <1>1, <1>6, <2>1, FlowWhenListing, FlowWhenUploadStarts DEF Serve
<1>7. ASSUME NEW u \in uploads, Upload(u) PROVE Rest'
  <2>1. UNCHANGED loopVars
    BY <1>7 DEF Upload, UploadChunk, UploadEnd, UploadAborts
  <2> QED
    BY <1>1, <1>7, <2>1, FlowWhenUploading
<1>8. ASSUME NEW c, NEW m \in Events, ~IsData(m), Ask(c, m) PROVE Rest'
  <2>1. /\ UNCHANGED <<link, toMe, toSrv, uploads, transfers, downloads, loopVars>>
        /\ events' = Append(events, m)
    BY <1>8 DEF Ask, linkVars, loopVars
  <2>2. FramesAreWanted' /\ \A q \in DOMAIN transfers' : Flows(q)'
    BY <1>8, <2>1, FlowWhenEnding
  <2> QED
    BY <1>1, <2>1, <2>2
<1>9. ASSUME NEW c \in Clients, NEW s \in Servers, AskList(c, s) PROVE Rest'
  <2> DEFINE m == [type |-> "list", client |-> c, peer |-> s]
  <2>1. Ask(c, m) /\ m \in Events /\ ~IsData(m)
    BY <1>9 DEF AskList, Events, IsData
  <2> QED
    BY <1>8, <2>1
<1>10. ASSUME NEW c \in Clients, NEW s \in Servers, NEW r \in Resources, AskGet(c, s, r) PROVE Rest'
  <2> DEFINE m == [type |-> "get", client |-> c, peer |-> s, res |-> r]
  <2>1. Ask(c, m) /\ m \in Events /\ ~IsData(m)
    BY <1>10 DEF AskGet, Events, IsData
  <2> QED
    BY <1>8, <2>1
<1>11. CASE EventLoop
    BY <1>11, RestWhenHandlingOther, RestWhenGetting, RestWhenWriting, RestWhenEnding,
       EndsDoNotFail, RestWhenDisconnected DEF EventLoop
<1> QED
    BY <1>2, <1>3, <1>4, <1>5, <1>6, <1>7, <1>9, <1>10, <1>11 DEF Next

\* While every peer has one link and the disk does not fail, each transfer is one
\* unbroken line of frames from the server's file to the download, whatever links
\* are lost, times out or is not served.
THEOREM TransfersFlow ==
    ASSUME OneLinkEach, ~DiskFaults
    PROVE  Spec => []FlowInv
<1>1. Init => FlowInv
  <2> SUFFICES ASSUME Init PROVE FlowInv
    OBVIOUS
  <2>1. LoopInv
    BY LoopInit
  <2>2. IndexIsOfPeers /\ NothingBefore
    BY DEF Init, IndexIsOfPeers, NothingBefore, OfLink, Empty
  <2>3. Range(events) = {} /\ \A l \in Links : link[l] # "up"
    BY DEF Init, Range
  <2>4. EventsAreWanted(events, transfers)
    BY DEF Init, EventsAreWanted
  <2>5. EndsAreReal /\ FramesAreWanted
    BY <2>3, <2>4 DEF EndsAreReal, FramesAreWanted
  <2>6. DOMAIN transfers = {} /\ DOMAIN files = {}
    BY DEF Init, Empty
  <2> QED
    BY <2>1, <2>2, <2>5, <2>6 DEF FlowInv, OneTransferEach, FilesAreWhole
<1>2. FlowInv /\ [Next]_vars => FlowInv'
  <2> SUFFICES ASSUME FlowInv, [Next]_vars PROVE FlowInv'
    OBVIOUS
  <2>1. LoopInv' /\ IndexIsOfPeers' /\ EndsAreReal' /\ NothingBefore'
    BY LoopStep, IndexStaysOfPeers, EndsStayReal, NothingStaysBefore DEF FlowInv
  <2>2. Rest'
    BY RestStep
  <2> QED
    BY <2>1, <2>2 DEF FlowInv, Rest
<1> QED
    BY <1>1, <1>2, PTL DEF Spec

\* What is saved is the whole resource: no chunk lost, repeated, or taken from
\* another request's upload.
THEOREM DownloadsAreWhole ==
    ASSUME OneLinkEach, ~DiskFaults
    PROVE  Spec => []FilesAreWhole
<1>1. FlowInv => FilesAreWhole
    BY DEF FlowInv
<1> QED
    BY <1>1, TransfersFlow, PTL

\* The transfer of another peer never loses its download to a disconnect.
THEOREM DisconnectsSpareOthers ==
    ASSUME OneLinkEach, ~DiskFaults
    PROVE  Spec => DisconnectSparesOthers
<1>1. ASSUME FlowInv, [Next]_vars, events # <<>>, Head(events).type = "disconnected",
             events' = Tail(events), NEW q \in DOMAIN transfers',
             transfers'[q].res \in DOMAIN downloads
      PROVE  transfers'[q].res \in DOMAIN downloads'
  <2>1. CASE Rest'
    BY <1>1, <2>1 DEF Rest, OneTransferEach
  <2> QED
    BY <1>1, <2>1, RestStep
<1>2. FlowInv /\ [Next]_vars =>
        [(events # <<>> /\ Head(events).type = "disconnected" /\ events' = Tail(events)) =>
            \A q \in DOMAIN transfers' :
               transfers'[q].res \in DOMAIN downloads =>
                  transfers'[q].res \in DOMAIN downloads']_vars
    BY <1>1
<1> QED
    BY <1>2, TransfersFlow, PTL DEF Spec, DisconnectSparesOthers
=============================================================================
