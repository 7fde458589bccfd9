---------------------------- MODULE PeerLinkProofs ----------------------------
(***************************************************************************)
(* The safety of PeerLink for any nodes, order of ids and connections, any *)
(* number of faults and with or without read timeouts.  LinkInv is         *)
(* inductive, and when nothing is under way CalmLinks makes the ends of a  *)
(* calm network agree.                                                     *)
(***************************************************************************)
EXTENDS PeerLink, TLAPS

States == ShakingStates \cup {"idle", "reading", "ended", "closed"}

\* What one thread's step leaves alone: every other thread.
OnlyEnd(c, n, s) ==
    /\ end' \in [Conns -> [Nodes -> States]]
    /\ end'[c][n] = s
    /\ \A d \in Conns, m \in Nodes : d # c \/ m # n => end'[d][m] = end[d][m]

\* A connection has two ends, each the other of the other.
LEMMA EndsAre ==
    ASSUME NEW c \in Conns, NEW n \in Ends(c)
    PROVE  /\ n \in Nodes /\ Dialer[c] \in Nodes /\ Acceptor[c] \in Nodes
           /\ Other(c, n) \in Ends(c) /\ Other(c, n) \in Nodes /\ Other(c, n) # n
           /\ Ends(c) = {n, Other(c, n)} /\ Other(c, Other(c, n)) = n
BY EndsAssumption DEF Ends, Other

\* Two connections between the same two nodes go the same way, or one each way.
LEMMA SamePair ==
    ASSUME NEW c \in Conns, NEW d \in Conns, NEW n \in Nodes,
           n \in Ends(c), n \in Ends(d), Other(c, n) = Other(d, n)
    PROVE  /\ SameWay(c, d) \/ (Dialer[c] = Acceptor[d] /\ Acceptor[c] = Dialer[d])
           /\ (DialledByLarger(c) /\ DialledByLarger(d)) => SameWay(c, d)
           /\ (~DialledByLarger(c) /\ ~DialledByLarger(d)) => SameWay(c, d)
<1>1. SameWay(c, d) \/ (Dialer[c] = Acceptor[d] /\ Acceptor[c] = Dialer[d])
    BY EndsAssumption DEF Ends, Other, SameWay
<1>2. /\ Rank[Dialer[c]] \in Nat /\ Rank[Acceptor[c]] \in Nat
      /\ Rank[Dialer[c]] # Rank[Acceptor[c]]
    BY EndsAssumption, RankAssumption
<1> QED
    BY <1>1, <1>2 DEF DialledByLarger

\* Both ends judge a connection alike.
LEMMA KeepNewIs ==
    ASSUME NEW c \in Conns, NEW n \in Ends(c)
    PROVE  KeepNew(c, n) <=> DialledByLarger(c)
<1>1. /\ Rank[Dialer[c]] \in Nat /\ Rank[Acceptor[c]] \in Nat
      /\ Rank[Dialer[c]] # Rank[Acceptor[c]] /\ Dialer[c] # Acceptor[c]
    BY EndsAssumption, RankAssumption
<1> QED
    BY <1>1 DEF KeepNew, DialledByLarger, Other, Ends

\* SetEnd moves one end to a state of the type and leaves every other.
LEMMA SetEndIs ==
    ASSUME TypeOK, NEW c \in Conns, NEW n \in Nodes, NEW s \in States, SetEnd(c, n, s)
    PROVE  OnlyEnd(c, n, s)
BY DEF TypeOK, SetEnd, OnlyEnd, States

\* A thread that runs moves on: no thread is added, and none goes back.
LEMMA ThreadMoves ==
    ASSUME DialledTogether, NEW c \in Conns, NEW n \in Ends(c), NEW s \in States \ {"idle"},
           end[c][n] # "idle", OnlyEnd(c, n, s)
    PROVE  /\ DialledTogether'
           /\ \A d \in Conns, m \in Nodes : end'[d][m] = "idle" <=> end[d][m] = "idle"
<1>1. n \in Nodes
    BY EndsAre
<1>2. \A d \in Conns, m \in Nodes : end'[d][m] = "idle" <=> end[d][m] = "idle"
    <2> TAKE d \in Conns, m \in Nodes
    <2> QED
        BY <1>1 DEF OnlyEnd
<1>3. \A d \in Conns : Dialer[d] \in Nodes /\ Acceptor[d] \in Nodes
    BY EndsAssumption
<1> QED
    BY <1>2, <1>3 DEF DialledTogether

\* What one thread's step must show to keep the ties as they are.
ReadIsIndexed(c, n) ==
    /\ table[n][Other(c, n)] # NoConn
    /\ DialledByLarger(c) => table[n][Other(c, n)] = c

\* A thread that moves on leaves the ties as decided, if no winner is given up
\* and whoever reads has an entry.
LEMMA CalmMove ==
    ASSUME CalmLinks, DialledTogether, NEW c \in Conns, NEW n \in Ends(c),
           NEW s \in States \ {"idle"}, end[c][n] # "idle", OnlyEnd(c, n, s),
           UNCHANGED <<lost, restarted, calm>>,
           calm /\ s \in {"ended", "closed"} => ~DialledByLarger(c),
           calm => \A d \in Conns : \A m \in Ends(d) :
                      end'[d][m] = "reading" => ReadIsIndexed(d, m)'
    PROVE  CalmLinks'
<1> SUFFICES ASSUME calm PROVE CalmLinks'
    BY DEF CalmLinks
<1>1. \A d \in Conns : Dialer[d] \in Nodes /\ Acceptor[d] \in Nodes
    BY EndsAssumption
<1>2. \A d \in Conns, m \in Nodes : end'[d][m] = "idle" <=> end[d][m] = "idle"
    BY ThreadMoves
<1>3. \A d, e \in Conns :
         (SameWay(d, e) /\ end'[d][Dialer[d]] # "idle" /\ end'[e][Dialer[e]] # "idle")
            => d = e
    BY <1>1, <1>2 DEF CalmLinks
<1>4. ASSUME NEW d \in Conns, NEW m \in Ends(d), end'[d][m] \in {"ended", "closed"}
      PROVE  ~DialledByLarger(d)
    <2>1. CASE d = c /\ m = n
        BY <1>4, <2>1, EndsAre DEF OnlyEnd
    <2>2. CASE d # c \/ m # n
        BY <1>4, <2>2, EndsAre DEF CalmLinks, OnlyEnd
    <2> QED
        BY <2>1, <2>2
<1> QED
    BY <1>3, <1>4 DEF CalmLinks, ReadIsIndexed

\* Nothing has been dialled yet.
LEMMA InitInv == Init => LinkInv
<1> SUFFICES ASSUME Init PROVE LinkInv
    OBVIOUS
<1>1. TypeOK
    BY DEF Init, TypeOK, NoEntries
<1>2. IndexNamesOpenConn /\ IndexedIsProved
    BY DEF Init, NoEntries, IndexNamesOpenConn, IndexedIsProved
<1>3. SaidFollowsEnd /\ DialledTogether
    BY EndsAssumption DEF Init, SaidFollowsEnd, DialledTogether, Ends
<1>4. CalmLinks
    BY EndsAre, EndsAssumption DEF Init, CalmLinks
<1> QED
    BY <1>1, <1>2, <1>3, <1>4 DEF LinkInv

\* A dial starts both threads of a connection nobody used before.
LEMMA DialStep ==
    ASSUME LinkInv, NEW c \in Conns, Dial(c)
    PROVE  LinkInv'
<1> USE DEF LinkInv
<1>1. /\ \A n \in Nodes : end[c][n] = "idle" /\ said[c][n] = 0
      /\ \A n \in Nodes : end'[c][n] = IF n \in Ends(c) THEN "starting" ELSE "idle"
      /\ \A d \in Conns \ {c} : end'[d] = end[d]
      /\ UNCHANGED <<said, table, lost, restarted, calm>>
    BY EndsAssumption DEF Dial, TypeOK, DialledTogether, SaidFollowsEnd, Ends
<1>2. TypeOK'
    BY <1>1 DEF Dial, TypeOK, ShakingStates
<1>3. IndexNamesOpenConn' /\ IndexedIsProved'
    <2> SUFFICES ASSUME NEW n \in Nodes, NEW m \in Nodes, table'[n][m] # NoConn
                 PROVE  /\ n \in Ends(table'[n][m]) /\ m = Other(table'[n][m], n)
                        /\ end'[table'[n][m]][n] \in {"reading", "ended"}
                        /\ said'[table'[n][m]][m] = 2
        BY DEF IndexNamesOpenConn, IndexedIsProved
    <2>1. table[n][m] \in Conns \ {c}
        BY <1>1 DEF IndexNamesOpenConn, TypeOK
    <2> QED
        BY <1>1, <2>1 DEF IndexNamesOpenConn, IndexedIsProved
<1>4. SaidFollowsEnd' /\ DialledTogether'
    BY <1>1, EndsAssumption DEF SaidFollowsEnd, DialledTogether, Ends
<1>5. CalmLinks'
    <2> SUFFICES ASSUME calm PROVE CalmLinks'
        BY <1>1 DEF CalmLinks
    <2>1. \A d \in Conns : SameWay(c, d) => end[d][Dialer[d]] = "idle"
        BY DEF Dial
    <2>2. \A d, e \in Conns :
             (SameWay(d, e) /\ end'[d][Dialer[d]] # "idle" /\ end'[e][Dialer[e]] # "idle")
                => d = e
        BY <1>1, <2>1 DEF CalmLinks, SameWay
    <2>3. \A d \in Conns : \A n \in Ends(d) :
              /\ end'[d][n] \in {"ended", "closed"} => ~DialledByLarger(d)
              /\ end'[d][n] = "reading" =>
                    /\ table[n][Other(d, n)] # NoConn
                    /\ DialledByLarger(d) => table[n][Other(d, n)] = d
        BY <1>1, EndsAre DEF CalmLinks
    <2> QED
        BY <1>1, <2>2, <2>3 DEF CalmLinks
<1> QED
    BY <1>2, <1>3, <1>4, <1>5

\* A frame counts once at its sender, or is lost on a dead path.
LEMMA SayIs ==
    ASSUME TypeOK, NEW c \in Conns, NEW n \in Nodes, Say(c, n), said[c][n] <= 1
    PROVE  /\ said' \in [Conns -> [Nodes -> 0..2]]
           /\ \A d \in Conns, m \in Nodes : d # c \/ m # n => said'[d][m] = said[d][m]
           /\ said'[c][n] \in {said[c][n], said[c][n] + 1}
<1>1. said[c][n] \in 0..2 /\ said[c][n] + 1 \in 0..2
    BY DEF TypeOK
<1>2. CASE c \in lost
    BY <1>2 DEF Say, TypeOK
<1>3. CASE said' = [said EXCEPT ![c][n] = said[c][n] + 1]
    BY <1>1, <1>3 DEF TypeOK
<1> QED
    BY <1>2, <1>3 DEF Say

\* A step of a handshake changes what is said and leaves the indexes alone.
LEMMA ShakeStep ==
    ASSUME LinkInv, NEW c \in Conns, NEW n \in Ends(c), Greet(c, n) \/ Prove(c, n)
    PROVE  LinkInv'
<1> USE DEF LinkInv
<1>1. n \in Nodes
    BY EndsAre
<1> DEFINE s == IF end[c][n] = "starting" THEN "greeting" ELSE "proving"
<1>2. OnlyEnd(c, n, s)
    BY <1>1, SetEndIs DEF Greet, Prove, States, ShakingStates
<1>3. \/ end[c][n] = "starting" /\ said[c][n] = 0
      \/ end[c][n] = "greeting" /\ said[c][n] <= 1
    BY <1>1 DEF Greet, Prove, SaidFollowsEnd
<1>4. /\ said' \in [Conns -> [Nodes -> 0..2]]
      /\ \A d \in Conns, m \in Nodes : d # c \/ m # n => said'[d][m] = said[d][m]
      /\ said'[c][n] \in {said[c][n], said[c][n] + 1}
    BY <1>1, <1>3, SayIs DEF Greet, Prove
<1>5. UNCHANGED <<table, lost, restarted, calm>>
    BY DEF Greet, Prove
<1>6. TypeOK'
    BY <1>2, <1>4, <1>5 DEF TypeOK, OnlyEnd, States
<1>7. IndexNamesOpenConn' /\ IndexedIsProved'
    <2> SUFFICES ASSUME NEW p \in Nodes, NEW m \in Nodes, table'[p][m] # NoConn
                 PROVE  /\ p \in Ends(table'[p][m]) /\ m = Other(table'[p][m], p)
                        /\ end'[table'[p][m]][p] \in {"reading", "ended"}
                        /\ said'[table'[p][m]][m] = 2
        BY DEF IndexNamesOpenConn, IndexedIsProved
    <2>1. /\ table[p][m] \in Conns
          /\ table'[p][m] = table[p][m]
          /\ end[table[p][m]][p] \in {"reading", "ended"}
          /\ said[table[p][m]][m] = 2
        BY <1>5 DEF IndexNamesOpenConn, IndexedIsProved, TypeOK
    <2>2. table[p][m] # c \/ p # n
        BY <1>3, <2>1
    <2>3. table[p][m] # c \/ m # n
        BY <1>3, <2>1
    <2> QED
        BY <1>2, <1>4, <2>1, <2>2, <2>3 DEF IndexNamesOpenConn, OnlyEnd
<1>8. SaidFollowsEnd'
    <2> SUFFICES ASSUME NEW d \in Conns, NEW m \in Nodes
                 PROVE  /\ end'[d][m] \in {"idle", "starting"} => said'[d][m] = 0
                        /\ end'[d][m] = "greeting" => said'[d][m] <= 1
        BY DEF SaidFollowsEnd
    <2>1. CASE d = c /\ m = n
        BY <1>2, <1>3, <1>4, <2>1 DEF OnlyEnd
    <2>2. CASE d # c \/ m # n
        BY <1>2, <1>4, <2>2 DEF SaidFollowsEnd, OnlyEnd
    <2> QED
        BY <2>1, <2>2
<1>9. end[c][n] # "idle" /\ s \in States \ {"idle"}
    BY <1>3 DEF States, ShakingStates
<1>10. DialledTogether'
    BY <1>2, <1>9, ThreadMoves
<1>11. calm => \A d \in Conns : \A m \in Ends(d) :
                 end'[d][m] = "reading" => ReadIsIndexed(d, m)'
    BY <1>2, <1>5, EndsAre DEF CalmLinks, ReadIsIndexed, OnlyEnd
<1>12. CalmLinks'
    BY <1>2, <1>5, <1>9, <1>11, CalmMove
<1> QED
    BY <1>6, <1>7, <1>8, <1>10, <1>12

\* A thread gives up its handshake, or its reader stops.
LEMMA QuitStep ==
    ASSUME LinkInv, NEW c \in Conns, NEW n \in Ends(c),
           \/ Refuse(c, n) \/ HandshakeFails(c, n) \/ HandshakeBreaks(c, n)
           \/ ReaderEnds(c, n) \/ ReadTimesOut(c, n)
    PROVE  LinkInv'
<1> USE DEF LinkInv
<1>1. n \in Nodes /\ Other(c, n) \in Ends(c)
    BY EndsAre
<1> DEFINE s == IF Shaking(c, n) THEN "closed" ELSE "ended"
<1>2. /\ Shaking(c, n) \/ end[c][n] = "reading"
      /\ UNCHANGED <<said, table, lost, restarted, calm>>
    BY DEF Refuse, Proved, HandshakeFails, HandshakeBreaks, ReaderEnds, ReadTimesOut,
       Shaking, ShakingStates
<1>3. SetEnd(c, n, s)
    BY DEF Refuse, Proved, HandshakeFails, HandshakeBreaks, ReaderEnds, ReadTimesOut,
       Shaking, ShakingStates
<1>4. OnlyEnd(c, n, s) /\ s \in States \ {"idle"} /\ end[c][n] # "idle"
    BY <1>1, <1>2, <1>3, SetEndIs DEF States, Shaking, ShakingStates
<1>5. TypeOK'
    BY <1>2, <1>4 DEF TypeOK, OnlyEnd, States
<1>6. IndexNamesOpenConn' /\ IndexedIsProved'
    <2> SUFFICES ASSUME NEW p \in Nodes, NEW m \in Nodes, table[p][m] # NoConn
                 PROVE  end'[table[p][m]][p] \in {"reading", "ended"}
        BY <1>2 DEF IndexNamesOpenConn, IndexedIsProved
    <2>1. table[p][m] \in Conns /\ end[table[p][m]][p] \in {"reading", "ended"}
        BY DEF IndexNamesOpenConn, TypeOK
    <2>2. CASE table[p][m] = c /\ p = n
        BY <1>2, <1>4, <2>1, <2>2 DEF OnlyEnd, Shaking, ShakingStates
    <2>3. CASE table[p][m] # c \/ p # n
        BY <1>4, <2>1, <2>3 DEF OnlyEnd
    <2> QED
        BY <2>2, <2>3
<1>7. SaidFollowsEnd'
    BY <1>2, <1>4 DEF SaidFollowsEnd, OnlyEnd
<1>8. DialledTogether'
    BY <1>4, ThreadMoves
<1>9. calm => ~DialledByLarger(c)
    <2>1. CASE Refuse(c, n)
        BY <2>1, KeepNewIs DEF Refuse
    <2>2. CASE end[c][Other(c, n)] = "closed"
        BY <1>1, <2>2 DEF CalmLinks
    <2>3. CASE c \in lost \/ ReadTimesOut(c, n)
        BY <2>3 DEF CalmLinks, ReadTimesOut
    <2> QED
        BY <2>1, <2>2, <2>3 DEF HandshakeFails, HandshakeBreaks, ReaderEnds
<1>10. calm => \A d \in Conns : \A m \in Ends(d) :
                 end'[d][m] = "reading" => ReadIsIndexed(d, m)'
    BY <1>2, <1>4, EndsAre DEF CalmLinks, ReadIsIndexed, OnlyEnd
<1>11. CalmLinks'
    BY <1>2, <1>4, <1>9, <1>10, CalmMove
<1> QED
    BY <1>5, <1>6, <1>7, <1>8, <1>11

\* A registered connection takes the place of one that loses against it.
LEMMA RegisterStep ==
    ASSUME LinkInv, NEW c \in Conns, NEW n \in Ends(c), Register(c, n)
    PROVE  LinkInv'
<1> USE DEF LinkInv
<1> DEFINE p == Other(c, n)
<1>1. n \in Nodes /\ p \in Nodes /\ p # n /\ c # NoConn
    BY EndsAre, OtherAssumption
<1>2. OnlyEnd(c, n, "reading") /\ end[c][n] = "proving" /\ said[c][p] = 2
    BY <1>1, SetEndIs DEF Register, Proved, States
<1>3. /\ UNCHANGED <<said, lost, restarted, calm>>
      /\ table' \in [Nodes -> [Nodes -> Conns \cup {NoConn}]]
      /\ table'[n][p] = c
      /\ \A q, m \in Nodes : q # n \/ m # p => table'[q][m] = table[q][m]
    BY <1>1 DEF Register, TypeOK
<1>4. TypeOK'
    <2>1. \A m \in Nodes : table'[m][m] = NoConn
        BY <1>1, <1>3 DEF TypeOK
    <2> QED
        BY <2>1, <1>2, <1>3 DEF TypeOK, OnlyEnd, States
<1>5. IndexNamesOpenConn' /\ IndexedIsProved'
    <2> SUFFICES ASSUME NEW q \in Nodes, NEW m \in Nodes, table'[q][m] # NoConn
                 PROVE  /\ q \in Ends(table'[q][m]) /\ m = Other(table'[q][m], q)
                        /\ end'[table'[q][m]][q] \in {"reading", "ended"}
                        /\ said'[table'[q][m]][m] = 2
        BY DEF IndexNamesOpenConn, IndexedIsProved
    <2>1. CASE q = n /\ m = p
        BY <1>2, <1>3, <2>1 DEF OnlyEnd
    <2>2. CASE q # n \/ m # p
        <3>1. table'[q][m] = table[q][m] /\ table[q][m] \in Conns
            BY <1>3, <2>2 DEF TypeOK
        <3>2. end[table[q][m]][q] \in {"reading", "ended"}
            BY <3>1 DEF IndexNamesOpenConn
        <3>3. end'[table[q][m]][q] = end[table[q][m]][q]
            BY <1>2, <3>1, <3>2 DEF OnlyEnd
        <3> QED
            BY <1>3, <3>1, <3>2, <3>3 DEF IndexNamesOpenConn, IndexedIsProved
    <2> QED
        BY <2>1, <2>2
<1>6. SaidFollowsEnd'
    BY <1>2, <1>3 DEF SaidFollowsEnd, OnlyEnd
<1>7. "reading" \in States \ {"idle"} /\ end[c][n] # "idle"
    BY <1>2 DEF States
<1>8. DialledTogether'
    BY <1>2, <1>7, ThreadMoves
<1>9. ASSUME calm, NEW d \in Conns, NEW m \in Ends(d), end'[d][m] = "reading"
      PROVE  ReadIsIndexed(d, m)'
    <2>1. m \in Nodes /\ Other(d, m) \in Nodes
        BY EndsAre
    <2>2. CASE m # n \/ Other(d, m) # p
        <3>1. end[d][m] = "reading"
            BY <1>2, <1>9, <2>1, <2>2 DEF OnlyEnd
        <3>2. table'[m][Other(d, m)] = table[m][Other(d, m)]
            BY <1>3, <2>1, <2>2
        <3> QED
            BY <1>9, <3>1, <3>2 DEF CalmLinks, ReadIsIndexed
    <2>3. CASE m = n /\ Other(d, m) = p
        <3> SUFFICES ASSUME DialledByLarger(d), d # c PROVE FALSE
            BY <1>1, <1>3, <2>3 DEF ReadIsIndexed
        <3>1. end[d][n] = "reading"
            BY <1>1, <1>2, <1>9, <2>3 DEF OnlyEnd
        <3>2. table[n][p] = d
            BY <1>9, <2>3, <3>1 DEF CalmLinks
        <3>3. DialledByLarger(c)
            BY <3>2, KeepNewIs, OtherAssumption DEF Register
        <3>4. SameWay(c, d)
            BY <1>1, <2>3, <3>3, SamePair
        <3>5. end[c][Dialer[c]] # "idle" /\ end[d][Dialer[d]] # "idle"
            BY <1>2, <2>3, <3>1, EndsAre, EndsAssumption DEF DialledTogether, Ends
        <3> QED
            BY <1>9, <3>4, <3>5 DEF CalmLinks
    <2> QED
        BY <2>2, <2>3
<1>10. CalmLinks'
    BY <1>2, <1>3, <1>7, <1>9, CalmMove
<1> QED
    BY <1>4, <1>5, <1>6, <1>8, <1>10

\* The cleanup of a connection takes its own entry away and no other one.
LEMMA RemoveStep ==
    ASSUME LinkInv, NEW c \in Conns, NEW n \in Ends(c), Remove(c, n)
    PROVE  LinkInv'
<1> USE DEF LinkInv
<1>1. n \in Nodes
    BY EndsAre
<1>2. OnlyEnd(c, n, "closed") /\ end[c][n] = "ended"
    BY <1>1, SetEndIs DEF Remove, States
<1>3. /\ UNCHANGED <<said, lost, restarted, calm>>
      /\ table' \in [Nodes -> [Nodes -> Conns \cup {NoConn}]]
      /\ \A q, m \in Nodes : table'[q][m] = IF q = n /\ table[q][m] = c THEN NoConn
                                           ELSE table[q][m]
    BY <1>1 DEF Remove, TypeOK
<1>4. TypeOK'
    BY <1>2, <1>3 DEF TypeOK, OnlyEnd, States
<1>5. IndexNamesOpenConn' /\ IndexedIsProved'
    <2> SUFFICES ASSUME NEW q \in Nodes, NEW m \in Nodes, table'[q][m] # NoConn
                 PROVE  /\ q \in Ends(table'[q][m]) /\ m = Other(table'[q][m], q)
                        /\ end'[table'[q][m]][q] \in {"reading", "ended"}
                        /\ said'[table'[q][m]][m] = 2
        BY DEF IndexNamesOpenConn, IndexedIsProved
    <2>1. table'[q][m] = table[q][m] /\ table[q][m] \in Conns /\ (table[q][m] # c \/ q # n)
        BY <1>3 DEF TypeOK
    <2>2. end'[table[q][m]][q] = end[table[q][m]][q]
        BY <1>2, <2>1 DEF OnlyEnd
    <2> QED
        BY <1>3, <2>1, <2>2 DEF IndexNamesOpenConn, IndexedIsProved
<1>6. SaidFollowsEnd'
    BY <1>2, <1>3 DEF SaidFollowsEnd, OnlyEnd
<1>7. "closed" \in States \ {"idle"} /\ end[c][n] # "idle"
    BY <1>2 DEF States
<1>8. DialledTogether'
    BY <1>2, <1>7, ThreadMoves
<1>9. calm => ~DialledByLarger(c)
    BY <1>2 DEF CalmLinks
<1>10. ASSUME calm, NEW d \in Conns, NEW m \in Ends(d), end'[d][m] = "reading"
       PROVE  ReadIsIndexed(d, m)'
    <2>1. m \in Nodes /\ Other(d, m) \in Nodes
        BY EndsAre
    <2>2. (d # c \/ m # n) /\ end[d][m] = "reading"
        BY <1>2, <1>10, <2>1 DEF OnlyEnd
    <2>3. ReadIsIndexed(d, m)
        BY <1>10, <2>2 DEF CalmLinks, ReadIsIndexed
    <2>4. ~(m = n /\ table[m][Other(d, m)] = c)
        <3> SUFFICES ASSUME m = n, table[n][Other(d, n)] = c PROVE FALSE
            OBVIOUS
        <3>1. Other(c, n) = Other(d, n)
            BY <2>1, OtherAssumption DEF IndexNamesOpenConn
        <3>2. ~DialledByLarger(d)
            BY <2>2, <2>3 DEF ReadIsIndexed
        <3>3. SameWay(c, d)
            BY <1>1, <1>9, <1>10, <3>1, <3>2, SamePair
        <3>4. end[c][Dialer[c]] # "idle" /\ end[d][Dialer[d]] # "idle"
            BY <1>2, <2>2, EndsAssumption DEF DialledTogether, Ends
        <3> QED
            BY <1>10, <2>2, <3>3, <3>4 DEF CalmLinks
    <2> QED
        BY <1>3, <2>1, <2>3, <2>4 DEF ReadIsIndexed
<1>11. CalmLinks'
    BY <1>2, <1>3, <1>7, <1>9, <1>10, CalmMove
<1> QED
    BY <1>4, <1>5, <1>6, <1>8, <1>11

\* A restart closes what the daemon had and leaves its index empty.
LEMMA RestartStep ==
    ASSUME LinkInv, NEW n \in Nodes, Restart(n)
    PROVE  LinkInv'
<1> USE DEF LinkInv
<1>1. /\ end' \in [Conns -> [Nodes -> States]]
      /\ \A c \in Conns, m \in Nodes :
            end'[c][m] = IF m = n /\ end[c][m] # "idle" THEN "closed" ELSE end[c][m]
    BY DEF Restart, TypeOK, States
<1>2. /\ UNCHANGED <<said, lost, calm>> /\ ~calm /\ restarted' \subseteq Nodes
      /\ table' \in [Nodes -> [Nodes -> Conns \cup {NoConn}]]
      /\ \A q, m \in Nodes : table'[q][m] = IF q = n THEN NoConn ELSE table[q][m]
    BY OtherAssumption DEF Restart, MayFail, NoEntries, TypeOK
<1>3. TypeOK'
    BY <1>1, <1>2 DEF TypeOK, States
<1>4. IndexNamesOpenConn' /\ IndexedIsProved'
    <2> SUFFICES ASSUME NEW q \in Nodes \ {n}, NEW m \in Nodes, table[q][m] # NoConn
                 PROVE  /\ q \in Ends(table[q][m]) /\ m = Other(table[q][m], q)
                        /\ end'[table[q][m]][q] \in {"reading", "ended"}
                        /\ said[table[q][m]][m] = 2
        BY <1>2 DEF IndexNamesOpenConn, IndexedIsProved
    <2> QED
        BY <1>1 DEF IndexNamesOpenConn, IndexedIsProved, TypeOK
<1>5. SaidFollowsEnd'
    BY <1>1, <1>2 DEF SaidFollowsEnd
<1>6. DialledTogether'
    <2>1. \A c \in Conns, m \in Nodes : end'[c][m] = "idle" <=> end[c][m] = "idle"
        BY <1>1
    <2> QED
        BY <2>1, EndsAssumption DEF DialledTogether
<1>7. CalmLinks'
    BY <1>2 DEF CalmLinks
<1> QED
    BY <1>3, <1>4, <1>5, <1>6, <1>7

\* Every step preserves the invariant.
LEMMA NextInv == LinkInv /\ [Next]_vars => LinkInv'
<1> SUFFICES ASSUME LinkInv, [Next]_vars PROVE LinkInv'
    OBVIOUS
<1>1. ASSUME NEW n \in Nodes, Restart(n) PROVE LinkInv'
    BY <1>1, RestartStep
<1>2. ASSUME NEW c \in Conns, Dial(c) PROVE LinkInv'
    BY <1>2, DialStep
<1>3. ASSUME NEW c \in Conns, Lose(c) PROVE LinkInv'
    BY <1>3 DEF Lose, MayFail, LinkInv, TypeOK, IndexNamesOpenConn, IndexedIsProved,
       SaidFollowsEnd, DialledTogether, CalmLinks
<1>4. ASSUME NEW c \in Conns, NEW n \in Ends(c),
             \/ Shake(c, n) \/ HandshakeBreaks(c, n) \/ Session(c, n) \/ ReadTimesOut(c, n)
      PROVE  LinkInv'
    BY <1>4, ShakeStep, RegisterStep, QuitStep, RemoveStep DEF Shake, Session
<1>5. ASSUME UNCHANGED vars PROVE LinkInv'
    BY <1>5 DEF vars, LinkInv, TypeOK, IndexNamesOpenConn, IndexedIsProved,
       SaidFollowsEnd, DialledTogether, CalmLinks
<1> QED
    BY <1>1, <1>2, <1>3, <1>4, <1>5 DEF Next

\* Whatever is dialled, lost, refused, timed out or restarted, an index names open
\* connections to proven peers only, and the ties are decided alike at both ends.
THEOREM IndexesAreSound == Spec => []LinkInv
<1> QED
    BY InitInv, NextInv, PTL DEF Spec

\* In a calm network where nothing is under way an indexed connection is read at
\* both ends.
LEMMA BothRead ==
    ASSUME LinkInv, Quiet, NEW n \in Nodes, NEW m \in Nodes, table[n][m] # NoConn
    PROVE  LET c == table[n][m] IN
           /\ c \in Conns /\ n \in Ends(c) /\ m \in Ends(c)
           /\ m = Other(c, n) /\ n = Other(c, m)
           /\ end[c][n] = "reading" /\ end[c][m] = "reading"
<1> USE DEF LinkInv
<1> DEFINE c == table[n][m]
<1>1. /\ c \in Conns /\ n \in Ends(c) /\ m = Other(c, n)
    BY DEF TypeOK, IndexNamesOpenConn
<1>2. m \in Ends(c) /\ n = Other(c, m)
    BY <1>1, EndsAre
<1>3. end[c][n] = "reading" /\ end[c][m] \in {"idle", "reading"}
    BY <1>1, <1>2 DEF Quiet, IndexNamesOpenConn
<1>4. end[c][m] # "idle"
    BY <1>1, <1>2, <1>3 DEF Ends, Other, DialledTogether
<1> QED
    BY <1>1, <1>2, <1>3, <1>4

\* When all is quiet and calm, an entry at one end is the entry at the other.
LEMMA EntriesAgree ==
    ASSUME LinkInv, calm, Quiet, NEW n \in Nodes, NEW m \in Nodes, table[n][m] # NoConn
    PROVE  table[m][n] = table[n][m]
<1> USE DEF LinkInv
<1> DEFINE c == table[n][m]
           d == table[m][n]
<1>1. /\ c \in Conns /\ n \in Ends(c) /\ m \in Ends(c)
      /\ m = Other(c, n) /\ n = Other(c, m)
      /\ end[c][n] = "reading" /\ end[c][m] = "reading"
    BY BothRead
<1>2. d # NoConn /\ (DialledByLarger(c) => d = c)
    BY <1>1 DEF CalmLinks
<1>3. /\ d \in Conns /\ n \in Ends(d) /\ m \in Ends(d)
      /\ m = Other(d, n) /\ n = Other(d, m)
      /\ end[d][n] = "reading" /\ end[d][m] = "reading"
    BY <1>2, BothRead
<1>4. DialledByLarger(d) => d = c
    BY <1>3 DEF CalmLinks
<1>5. ASSUME ~DialledByLarger(c), ~DialledByLarger(d) PROVE d = c
    <2>1. SameWay(c, d)
        BY <1>1, <1>3, <1>5, SamePair
    <2>2. end[c][Dialer[c]] # "idle" /\ end[d][Dialer[d]] # "idle"
        BY <1>1, <1>3 DEF Ends, DialledTogether
    <2> QED
        BY <1>1, <1>3, <2>1, <2>2 DEF CalmLinks
<1> QED
    BY <1>2, <1>4, <1>5

\* Nodes that dial each other at most once each, over a network without faults, end
\* up with the same connection at both ends, in whatever order the two ends of the
\* crossing dials shake hands, register and refuse.
THEOREM CalmEndsAlwaysAgree == Spec => []CalmEndsAgree
<1>1. LinkInv => CalmEndsAgree
  <2> SUFFICES ASSUME LinkInv, calm, Quiet PROVE EndsAgree /\ UntrackedIsDisplaced
    BY DEF CalmEndsAgree
  <2>1. EndsAgree
    BY EntriesAgree DEF EndsAgree
  <2>2. ASSUME NEW c \in Conns, NEW n \in Ends(c), end[c][n] = "reading",
               table[n][Other(c, n)] # c
        PROVE  LET current == table[n][Other(c, n)] IN
               current # NoConn /\ DialledByLarger(current) /\ ~DialledByLarger(c)
    <3> DEFINE m == Other(c, n)
               d == table[n][m]
    <3>1. d # NoConn /\ ~DialledByLarger(c)
        BY <2>2 DEF LinkInv, CalmLinks
    <3>2. n \in Nodes /\ m \in Nodes /\ Ends(c) = {n, m}
        BY EndsAssumption DEF Ends, Other
    <3>3. d \in Conns /\ n \in Ends(d) /\ m = Other(d, n) /\ end[d][n] \in {"reading", "ended"}
        BY <3>1, <3>2 DEF LinkInv, TypeOK, IndexNamesOpenConn
    <3>4. end[c][Dialer[c]] # "idle" /\ end[d][Dialer[d]] # "idle"
        BY <2>2, <3>3 DEF LinkInv, DialledTogether, Ends
    <3>5. ~SameWay(c, d)
        BY <2>2, <3>3, <3>4 DEF LinkInv, CalmLinks
    <3>6. Dialer[d] = Acceptor[c] /\ Acceptor[d] = Dialer[c]
        BY <3>3, <3>5, EndsAssumption DEF SameWay, Ends, Other
    <3>7. Rank[Dialer[c]] \in Nat /\ Rank[Acceptor[c]] \in Nat
          /\ Rank[Dialer[c]] # Rank[Acceptor[c]]
        BY EndsAssumption, RankAssumption
    <3> QED
        BY <3>1, <3>6, <3>7 DEF DialledByLarger
  <2>3. UntrackedIsDisplaced
    BY <2>2 DEF UntrackedIsDisplaced
  <2> QED
    BY <2>1, <2>3
<1> QED
    BY <1>1, IndexesAreSound, PTL
=============================================================================
