----------------------------- MODULE ChatProofs -----------------------------
(***************************************************************************)
(* Theorems about the chat of proj/ for any number of users, slots and     *)
(* lines, as long as the slots suffice for those who are connected: with   *)
(* more, GetID falls off its end.                                          *)
(*                                                                         *)
(* First what a step does to the lines under way or on a screen (Onward    *)
(* says which steps of the others leave them right), then one lemma per    *)
(* step that IInv is preserved, the users' steps before the server's.      *)
(***************************************************************************)
EXTENDS Chat, TLAPS, FiniteSetTheorems, SequenceTheorems, WellFoundedInduction

USE ChatAssumption

----------------------------------------------------------------------------
(* Facts about slots, and about what recv leaves in a socket.              *)

LEMMA SlotsAreNaturals == Slots \subseteq Nat /\ MAX_CLIENT \in Nat
BY DEF Slots

LEMMA SlotSets ==
  ASSUME NEW S \in SUBSET Slots
  PROVE  IsFiniteSet(S) /\ Cardinality(S) \in 0 .. MAX_CLIENT
<1>1. IsFiniteSet(Slots) /\ Cardinality(Slots) = MAX_CLIENT
  BY FS_Interval, MAX_CLIENT - 1 \in Int, 0 \in Int DEF Slots
<1>2. IsFiniteSet(S) /\ Cardinality(S) <= MAX_CLIENT
  BY <1>1, FS_Subset
<1>3. Cardinality(S) \in Nat
  BY <1>2, FS_CardinalityType
<1> QED  BY <1>2, <1>3

LEMMA Least ==
  ASSUME NEW S \in SUBSET Nat, S # {}
  PROVE  Min(S) \in S /\ \A y \in S : Min(S) <= y
<1> DEFINE R == OpToRel(<, Nat)
<1>1. IsWellFoundedOn(R, Nat)
  BY NatLessThanWellFounded
<1>2. \A x, y \in Nat : <<y, x>> \in R <=> y < x
  BY DEF OpToRel
<1> HIDE DEF R
<1>3. PICK x \in S : \A y \in S : ~ (<<y, x>> \in R)
  BY <1>1, WFMin
<1>4. ASSUME NEW y \in S PROVE x <= y
  <2>1. ~ (<<y, x>> \in R) /\ y \in Nat /\ x \in Nat
    BY <1>3
  <2>2. ~ (y < x)
    BY <1>2, <2>1, Zenon
  <2> QED  BY <2>1, <2>2
<1> QED  BY <1>4 DEF Min

(* What is left after a recv: the queue without a non-empty prefix. *)
LEMMA RestOf ==
  ASSUME NEW S, NEW q \in Seq(S), NEW r \in Rests(q)
  PROVE  /\ r \in Seq(S)
         /\ \E k \in 1 .. Len(q) :
              /\ Len(r) = Len(q) - k
              /\ \A n \in 1 .. Len(r) : r[n] = q[n + k]
<1>1. PICK m \in 2 .. Len(q) + 1 : r = SubSeq(q, m, Len(q))
  BY DEF Rests
<1>2. Len(q) \in Nat /\ \A n \in 1 .. Len(q) : q[n] \in S
  BY LenProperties, ElementOfSeq
<1>3. m \in Int /\ Len(q) \in Int /\ \A n \in m .. Len(q) : q[n] \in S
  BY <1>2
<1>4. /\ SubSeq(q, m, Len(q)) \in Seq(S)
      /\ Len(SubSeq(q, m, Len(q))) = IF m <= Len(q) THEN Len(q) - m + 1 ELSE 0
      /\ \A n \in 1 .. Len(q) - m + 1 : SubSeq(q, m, Len(q))[n] = q[m + n - 1]
  BY <1>3, SubSeqProperties
<1>5. m - 1 \in 1 .. Len(q) /\ Len(r) = Len(q) - (m - 1)
  BY <1>1, <1>2, <1>4
<1>6. \A n \in 1 .. Len(r) : r[n] = q[n + (m - 1)]
  BY <1>1, <1>2, <1>4, <1>5
<1> QED  BY <1>1, <1>4, <1>5, <1>6

(* Who holds a connection. *)
LEMMA HeldBy ==
  ASSUME NEW u
  PROVE  u \in Held <=> \/ \E n \in DOMAIN backlog : u = backlog[n]
                        \/ \E j \in InUse : u = Client[j].sockfd
BY DEF Held

LEMMA RoomForOne ==
  ASSUME TypeOK, SlotsInv, MaxOnline <= MAX_CLIENT, backlog # <<>>
  PROVE  InUse # Slots
<1> SUFFICES ASSUME InUse = Slots PROVE FALSE
  OBVIOUS
<1> DEFINE T == Online \cup Held
           R == T \ {backlog[1]}
           f == [j \in Slots |-> Client[j].sockfd]
<1>1. backlog[1] \in Held /\ 1 \in DOMAIN backlog
  BY EmptySeq, LenProperties, HeldBy DEF TypeOK
<1>2. f \in [Slots -> R]
  <2>1. ASSUME NEW j \in Slots PROVE Client[j].sockfd \in Held /\ Client[j].sockfd # backlog[1]
    BY <1>1, HeldBy DEF SlotsInv
  <2> QED  BY <2>1
<1>3. \A j, k \in Slots : f[j] = f[k] => j = k
  BY DEF SlotsInv
<1>4. IsFiniteSet(T) /\ Cardinality(T) <= MAX_CLIENT /\ Cardinality(T) \in Nat
  BY FS_CardinalityType DEF SlotsInv
<1>5. IsFiniteSet(R) /\ Cardinality(R) < MAX_CLIENT
  <2>1. backlog[1] \in T
    BY <1>1
  <2> HIDE DEF T
  <2>2. IsFiniteSet(R) /\ Cardinality(R) = Cardinality(T) - 1
    BY <1>4, <2>1, FS_RemoveElement
  <2> QED  BY <1>4, <2>2
<1>6. IsFiniteSet(Slots) /\ Cardinality(Slots) = MAX_CLIENT
  BY FS_Interval, MAX_CLIENT - 1 \in Int, 0 \in Int DEF Slots
<1> HIDE DEF f, R
<1> QED  BY <1>2, <1>3, <1>5, <1>6, FS_PigeonHole

----------------------------------------------------------------------------
(* The lines users see.                                                    *)

LEMMA TransmittedIs ==
  ASSUME TypeOK, NEW u \in Users
  PROVE  /\ Transmitted(u) \in Seq(Lines)
         /\ Len(shown[u]) \in Nat /\ Len(toClient[u]) \in Nat
         /\ DOMAIN Transmitted(u) = 1 .. Len(shown[u]) + Len(toClient[u])
         /\ \A n \in DOMAIN Transmitted(u) :
              Transmitted(u)[n] = IF n <= Len(shown[u]) THEN shown[u][n]
                                  ELSE toClient[u][n - Len(shown[u])]
<1>1. shown[u] \in Seq(Lines) /\ toClient[u] \in Seq(Lines)
  BY DEF TypeOK
<1>2. /\ Transmitted(u) \in Seq(Lines)
      /\ Len(Transmitted(u)) = Len(shown[u]) + Len(toClient[u])
      /\ \A n \in 1 .. Len(shown[u]) + Len(toClient[u]) :
           Transmitted(u)[n] = IF n <= Len(shown[u]) THEN shown[u][n]
                               ELSE toClient[u][n - Len(shown[u])]
  BY <1>1, ConcatProperties DEF Transmitted
<1>3. DOMAIN Transmitted(u) = 1 .. Len(shown[u]) + Len(toClient[u])
  BY <1>2, LenProperties
<1>4. Len(shown[u]) \in Nat /\ Len(toClient[u]) \in Nat
  BY <1>1, LenProperties
<1> QED  BY <1>2, <1>3, <1>4

LEMMA TransmittedNext ==
  ASSUME TypeOK', NEW u \in Users
  PROVE  /\ Transmitted(u)' \in Seq(Lines)
         /\ Len(shown'[u]) \in Nat /\ Len(toClient'[u]) \in Nat
         /\ DOMAIN Transmitted(u)' = 1 .. Len(shown'[u]) + Len(toClient'[u])
         /\ \A n \in DOMAIN Transmitted(u)' :
              Transmitted(u)'[n] = IF n <= Len(shown'[u]) THEN shown'[u][n]
                                   ELSE toClient'[u][n - Len(shown'[u])]
<1>1. shown'[u] \in Seq(Lines) /\ toClient'[u] \in Seq(Lines)
  BY DEF TypeOK, Lines, LogOut
<1>2. /\ Transmitted(u)' \in Seq(Lines)
      /\ Len(Transmitted(u)') = Len(shown'[u]) + Len(toClient'[u])
      /\ \A n \in 1 .. Len(shown'[u]) + Len(toClient'[u]) :
           Transmitted(u)'[n] = IF n <= Len(shown'[u]) THEN shown'[u][n]
                                ELSE toClient'[u][n - Len(shown'[u])]
  BY <1>1, ConcatProperties DEF Transmitted
<1>3. DOMAIN Transmitted(u)' = 1 .. Len(shown'[u]) + Len(toClient'[u])
  BY <1>2, LenProperties
<1>4. Len(shown'[u]) \in Nat /\ Len(toClient'[u]) \in Nat
  BY <1>1, LenProperties
<1> QED  BY <1>2, <1>3, <1>4

LEMMA Below ==
  ASSUME NEW a \in Nat, NEW b \in Nat, NEW n \in 1 .. a + b
  PROVE  \A m \in 1 .. n - 1 : m \in 1 .. a + b
OBVIOUS

LEMMA InFront ==
  ASSUME NEW a \in Nat, NEW b \in Nat
  PROVE  \A m \in 1 .. a : m \in 1 .. a + b /\ m <= a
OBVIOUS

(* What LinesInv says of one line. *)
LineOK(u, n) ==
  LET v == Transmitted(u)[n].uid
      k == Transmitted(u)[n].line
  IN /\ v # u
     /\ k = LogOut => Departed(v)
     /\ k # LogOut =>
          /\ v \in Users /\ k <= typed[v]
          /\ \A m \in DOMAIN toServer[v] : k < toServer[v][m]
          /\ \A m \in 1 .. n - 1 : Transmitted(u)[m].uid = v => Transmitted(u)[m].line < k

LEMMA LinesAreOK ==
  LinesInv <=> \A u \in Users : \A n \in DOMAIN Transmitted(u) : LineOK(u, n)
BY DEF LinesInv, LineOK

(* How a step may change what a line is compared with: nobody who has left *)
(* comes back, and what is new on the way to the server is newer than all  *)
(* that was typed before.                                                  *)
Onward ==
  /\ \A v \in Users \cup {Nobody} : Departed(v) => Departed(v)'
  /\ \A v \in Users : typed[v] <= typed'[v]
  /\ \A v \in Users : \A m \in DOMAIN toServer'[v] :
       \/ \E k \in DOMAIN toServer[v] : toServer'[v][m] = toServer[v][k]
       \/ toServer'[v][m] > typed[v]
       \/ typed[v] = 0

(* A line stays right when the lines ahead of it were ahead of it before.  *)
LEMMA LineKept ==
  ASSUME TypeOK, TypeOK', LinesInv, Onward, NEW u \in Users,
         NEW n \in DOMAIN Transmitted(u)', NEW o \in DOMAIN Transmitted(u),
         Transmitted(u)'[n] = Transmitted(u)[o],
         \A m \in 1 .. n - 1 : \E p \in 1 .. o - 1 : Transmitted(u)'[m] = Transmitted(u)[p]
  PROVE  LineOK(u, n)'
<1>1. LineOK(u, o)
  BY LinesAreOK
<1>2. Transmitted(u)[o] \in Lines
  BY TransmittedIs, ElementOfSeq, LenProperties
<1>3. PICK v \in Users \cup {Nobody}, k \in 1 .. LogOut :
        Transmitted(u)[o].uid = v /\ Transmitted(u)[o].line = k
  BY <1>2 DEF Lines
<1>4. v # u /\ (k = LogOut => Departed(v)')
  BY <1>1, <1>3 DEF LineOK, Onward
<1>5. ASSUME k # LogOut
      PROVE  /\ v \in Users /\ k <= typed'[v]
             /\ \A m \in DOMAIN toServer'[v] : k < toServer'[v][m]
             /\ \A m \in 1 .. n - 1 : Transmitted(u)'[m].uid = v => Transmitted(u)'[m].line < k
  <2>1. /\ v \in Users /\ k <= typed[v]
        /\ \A m \in DOMAIN toServer[v] : k < toServer[v][m]
        /\ \A m \in 1 .. o - 1 : Transmitted(u)[m].uid = v => Transmitted(u)[m].line < k
    BY <1>1, <1>3, <1>5 DEF LineOK
  <2>2. typed[v] \in Int /\ typed'[v] \in Int /\ typed[v] <= typed'[v] /\ k \in Int /\ k >= 1
    BY <2>1 DEF TypeOK, Onward, LogOut
  <2>3. ASSUME NEW m \in DOMAIN toServer'[v]
        PROVE  k < toServer'[v][m]
    <3>1. toServer'[v] \in Seq(0 .. MaxLines)
      BY <2>1 DEF TypeOK
    <3>2. toServer'[v][m] \in Int
      BY <3>1, ElementOfSeq, LenProperties
    <3> QED  BY <2>1, <2>2, <3>2 DEF Onward
  <2>4. k <= typed'[v]
    BY <2>1, <2>2
  <2> QED  BY <2>1, <2>3, <2>4
<1>6. Transmitted(u)'[n].uid = v /\ Transmitted(u)'[n].line = k
  BY <1>3
<1> QED  BY <1>4, <1>5, <1>6 DEF LineOK, LogOut, Departed

LEMMA LinesUntouched ==
  ASSUME TypeOK, TypeOK', LinesInv, Onward, UNCHANGED <<shown, toClient>>
  PROVE  LinesInv'
<1> SUFFICES ASSUME NEW u \in Users, NEW n \in DOMAIN Transmitted(u)' PROVE LineOK(u, n)'
  BY DEF LinesInv, LineOK
<1>1. Transmitted(u)' = Transmitted(u)
  BY DEF Transmitted
<1>2. \A m \in 1 .. n - 1 : \E p \in 1 .. n - 1 : Transmitted(u)'[m] = Transmitted(u)[p]
  BY <1>1
<1> QED  BY <1>1, <1>2, LineKept

(* ServerInput shows the first of the lines that have arrived, and some of *)
(* those behind it are lost.                                               *)
LEMMA LinesRead ==
  ASSUME TypeOK, TypeOK', LinesInv, Onward, NEW w \in Users, toClient[w] # <<>>,
         shown' = [shown EXCEPT ![w] = Append(@, Head(toClient[w]))],
         NEW rest \in Rests(toClient[w]),
         toClient' = [toClient EXCEPT ![w] = rest]
  PROVE  LinesInv'
<1> SUFFICES ASSUME NEW u \in Users, NEW n \in DOMAIN Transmitted(u)' PROVE LineOK(u, n)'
  BY DEF LinesInv, LineOK
<1>1. CASE u # w
  <2>1. shown'[u] = shown[u] /\ toClient'[u] = toClient[u]
    BY <1>1 DEF TypeOK
  <2>2. Transmitted(u)' = Transmitted(u)
    BY <2>1 DEF Transmitted
  <2>3. \A m \in 1 .. n - 1 : \E p \in 1 .. n - 1 : Transmitted(u)'[m] = Transmitted(u)[p]
    BY <2>2
  <2> QED  BY <2>2, <2>3, LineKept
<1>2. CASE u = w
  <2> DEFINE s == shown[u]
             t == toClient[u]
  <2>1. s \in Seq(Lines) /\ t \in Seq(Lines) /\ t # <<>>
    BY <1>2 DEF TypeOK
  <2>2. shown'[u] = Append(s, Head(t)) /\ toClient'[u] = rest
    BY <1>2 DEF TypeOK
  <2>3. PICK d \in 1 .. Len(t) :
          Len(rest) = Len(t) - d /\ \A m \in 1 .. Len(rest) : rest[m] = t[m + d]
    BY <1>2, <2>1, RestOf
  <2>4. Head(t) \in Lines /\ Head(t) = t[1]
    BY <2>1, HeadTailProperties
  <2>5. /\ Len(shown'[u]) = Len(s) + 1
        /\ \A m \in 1 .. Len(s) : shown'[u][m] = s[m]
        /\ shown'[u][Len(s) + 1] = t[1]
    BY <2>1, <2>2, <2>4, AppendProperties, LenProperties
  <2> DEFINE old(m) == IF m <= Len(s) + 1 THEN m ELSE m - 1 + d
  <2>6. /\ DOMAIN Transmitted(u) = 1 .. Len(s) + Len(t)
        /\ \A m \in DOMAIN Transmitted(u) :
             Transmitted(u)[m] = IF m <= Len(s) THEN s[m] ELSE t[m - Len(s)]
        /\ Len(s) \in Nat /\ Len(t) \in Nat
    BY TransmittedIs
  <2>7. /\ DOMAIN Transmitted(u)' = 1 .. Len(s) + 1 + Len(rest)
        /\ \A m \in DOMAIN Transmitted(u)' :
             Transmitted(u)'[m] = IF m <= Len(s) + 1 THEN shown'[u][m]
                                  ELSE rest[m - (Len(s) + 1)]
    <3> DEFINE s1 == shown'[u]
    <3>1. /\ DOMAIN Transmitted(u)' = 1 .. Len(s1) + Len(rest)
          /\ \A m \in DOMAIN Transmitted(u)' :
               Transmitted(u)'[m] = IF m <= Len(s1) THEN s1[m] ELSE rest[m - Len(s1)]
      BY <2>2, TransmittedNext
    <3>2. Len(s1) = Len(s) + 1
      BY <2>5
    <3> HIDE DEF s1, s, t
    <3>3. /\ DOMAIN Transmitted(u)' = 1 .. Len(s) + 1 + Len(rest)
          /\ \A m \in DOMAIN Transmitted(u)' :
               Transmitted(u)'[m] = IF m <= Len(s) + 1 THEN s1[m]
                                    ELSE rest[m - (Len(s) + 1)]
      BY <3>1, <3>2
    <3> QED  BY <3>3 DEF s1
  <2>8. ASSUME NEW m \in DOMAIN Transmitted(u)'
        PROVE  old(m) \in DOMAIN Transmitted(u) /\ Transmitted(u)'[m] = Transmitted(u)[old(m)]
    <3> HIDE DEF s, t
    <3>0. m \in Int /\ m >= 1 /\ m <= Len(s) + 1 + Len(rest) /\ Len(rest) \in Nat
      BY <2>3, <2>6, <2>7
    <3>1. CASE m <= Len(s)
      <4>1. old(m) = m /\ m \in DOMAIN Transmitted(u) /\ m \in 1 .. Len(s)
        BY <3>0, <3>1, <2>6
      <4>2. Transmitted(u)[m] = s[m]
        BY <3>1, <4>1, <2>6
      <4>3. Transmitted(u)'[m] = shown'[u][m] /\ shown'[u][m] = s[m]
        BY <3>0, <3>1, <4>1, <2>5, <2>6, <2>7
      <4> QED  BY <4>1, <4>2, <4>3
    <3>2. CASE m = Len(s) + 1
      <4>1. old(m) = m /\ m \in DOMAIN Transmitted(u) /\ m - Len(s) = 1 /\ ~ (m <= Len(s))
        BY <3>0, <3>2, <2>3, <2>6
      <4>2. Transmitted(u)[m] = t[1]
        BY <4>1, <2>6
      <4>3. Transmitted(u)'[m] = shown'[u][m]
        <5>1. m <= Len(s) + 1
          BY <3>2, <2>6
        <5> QED  BY <5>1, <2>7
      <4> QED  BY <3>2, <4>1, <4>2, <4>3, <2>5
    <3>3. CASE m > Len(s) + 1
      <4>1. m - (Len(s) + 1) \in 1 .. Len(rest) /\ m \in Int
        BY <3>3, <2>3, <2>6, <2>7
      <4>2. rest[m - (Len(s) + 1)] = t[m - (Len(s) + 1) + d]
        BY <4>1, <2>3
      <4>3. old(m) = m - 1 + d /\ old(m) \in 1 .. Len(s) + Len(t) /\ old(m) > Len(s)
        BY <4>1, <3>3, <2>3, <2>6
      <4>4. old(m) - Len(s) = m - (Len(s) + 1) + d
        BY <4>1, <4>3, <2>6
      <4>5. Transmitted(u)[old(m)] = t[old(m) - Len(s)]
        BY <4>3, <2>6
      <4>6. Transmitted(u)'[m] = rest[m - (Len(s) + 1)]
        BY <3>3, <4>1, <2>6, <2>7
      <4> QED  BY <4>2, <4>3, <4>4, <4>5, <4>6, <2>6
    <3> QED  BY <3>1, <3>2, <3>3, <2>6, <2>7
  <2>9. \A m \in 1 .. n - 1 : m \in DOMAIN Transmitted(u)' /\ old(m) \in 1 .. old(n) - 1
    <3> HIDE DEF s, t
    <3> QED  BY <2>3, <2>6, <2>7
  <2> HIDE DEF old
  <2>10. \A m \in 1 .. n - 1 : \E p \in 1 .. old(n) - 1 : Transmitted(u)'[m] = Transmitted(u)[p]
    BY <2>8, <2>9
  <2> QED  BY <2>8, <2>10, LineKept
<1> QED  BY <1>1, <1>2

(* CloseClient: what has not been shown never will be. *)
LEMMA LinesDropped ==
  ASSUME TypeOK, TypeOK', LinesInv, Onward, NEW w \in Users,
         UNCHANGED shown, toClient' = [toClient EXCEPT ![w] = <<>>]
  PROVE  LinesInv'
<1> SUFFICES ASSUME NEW u \in Users, NEW n \in DOMAIN Transmitted(u)' PROVE LineOK(u, n)'
  BY DEF LinesInv, LineOK
<1>1. toClient'[u] = toClient[u] \/ toClient'[u] = <<>>
  BY DEF TypeOK
<1>2. Len(toClient'[u]) = Len(toClient[u]) \/ Len(toClient'[u]) = 0
  BY <1>1, EmptySeq
<1>3. /\ DOMAIN Transmitted(u) = 1 .. Len(shown[u]) + Len(toClient[u])
      /\ \A m \in DOMAIN Transmitted(u) :
           Transmitted(u)[m] = IF m <= Len(shown[u]) THEN shown[u][m]
                               ELSE toClient[u][m - Len(shown[u])]
      /\ Len(shown[u]) \in Nat /\ Len(toClient[u]) \in Nat
  BY TransmittedIs
<1>4. /\ DOMAIN Transmitted(u)' = 1 .. Len(shown[u]) + Len(toClient'[u])
      /\ \A m \in DOMAIN Transmitted(u)' :
           Transmitted(u)'[m] = IF m <= Len(shown[u]) THEN shown[u][m]
                                ELSE toClient'[u][m - Len(shown[u])]
      /\ Len(toClient'[u]) \in Nat
  BY TransmittedNext
<1>5. ASSUME NEW m \in DOMAIN Transmitted(u)'
      PROVE  m \in DOMAIN Transmitted(u) /\ Transmitted(u)'[m] = Transmitted(u)[m]
  <2>1. CASE toClient'[u] = toClient[u]
    BY <2>1, <1>3, <1>4
  <2>2. CASE Len(toClient'[u]) = 0
    <3>1. m \in 1 .. Len(shown[u])
      BY <2>2, <1>3, <1>4
    <3>2. m \in 1 .. Len(shown[u]) + Len(toClient[u]) /\ m <= Len(shown[u])
      <4>1. Len(shown[u]) \in Nat /\ Len(toClient[u]) \in Nat
        BY <1>3
      <4> QED  BY <3>1, <4>1, InFront
    <3> QED  BY <3>2, <1>3, <1>4
  <2> QED  BY <2>1, <2>2, <1>1, EmptySeq
<1>6. \A m \in 1 .. n - 1 : m \in DOMAIN Transmitted(u)'
  BY <1>3, <1>4, Below
<1>7. \A m \in 1 .. n - 1 : \E p \in 1 .. n - 1 : Transmitted(u)'[m] = Transmitted(u)[p]
  BY <1>5, <1>6
<1> QED  BY <1>5, <1>7, LineKept

(* A relayed line that is right for every screen it goes to: newer than    *)
(* all the lines of its author, older than what the author has under way.  *)
LEMMA LinesRelayed ==
  ASSUME TypeOK, TypeOK', LinesInv, Onward, UNCHANGED shown,
         NEW from, NEW v \in Users \cup {Nobody}, NEW k \in 1 .. LogOut,
         SendToOtherClients(from, Line(v, k)),
         v \notin Reached(from),
         k = LogOut => Departed(v)',
         k # LogOut =>
           /\ v \in Users /\ k <= typed'[v]
           /\ \A m \in DOMAIN toServer'[v] : k < toServer'[v][m]
           /\ \A u \in Users : \A m \in DOMAIN Transmitted(u) :
                Transmitted(u)[m].uid = v => Transmitted(u)[m].line < k
  PROVE  LinesInv'
<1> SUFFICES ASSUME NEW u \in Users, NEW n \in DOMAIN Transmitted(u)' PROVE LineOK(u, n)'
  BY DEF LinesInv, LineOK
<1> DEFINE s == shown[u]
           t == toClient[u]
<1>0. Line(v, k) \in Lines /\ Line(v, k).uid = v /\ Line(v, k).line = k
  BY DEF Line, Lines
<1>1. /\ DOMAIN Transmitted(u) = 1 .. Len(s) + Len(t)
      /\ \A m \in DOMAIN Transmitted(u) :
           Transmitted(u)[m] = IF m <= Len(s) THEN s[m] ELSE t[m - Len(s)]
      /\ Len(s) \in Nat /\ Len(t) \in Nat
  BY TransmittedIs
<1>2. /\ DOMAIN Transmitted(u)' = 1 .. Len(s) + Len(toClient'[u])
      /\ \A m \in DOMAIN Transmitted(u)' :
           Transmitted(u)'[m] = IF m <= Len(s) THEN s[m] ELSE toClient'[u][m - Len(s)]
      /\ Len(toClient'[u]) \in Nat
  BY TransmittedNext
<1>3. \/ toClient'[u] = t
      \/ u \in Reached(from) /\ toClient'[u] = Append(t, Line(v, k))
  BY DEF SendToOtherClients
<1>4. CASE toClient'[u] = t
  <2>1. \A m \in DOMAIN Transmitted(u)' :
          m \in DOMAIN Transmitted(u) /\ Transmitted(u)'[m] = Transmitted(u)[m]
    BY <1>1, <1>2, <1>4
  <2>2. \A m \in 1 .. n - 1 : m \in DOMAIN Transmitted(u)'
    <3> HIDE DEF s, t
    <3> QED  BY <1>1, <1>2, Below
  <2>3. \A m \in 1 .. n - 1 : \E p \in 1 .. n - 1 : Transmitted(u)'[m] = Transmitted(u)[p]
    BY <2>1, <2>2
  <2> QED  BY <2>1, <2>3, LineKept
<1>5. CASE u \in Reached(from) /\ toClient'[u] = Append(t, Line(v, k))
  <2>0. t \in Seq(Lines)
    BY DEF TypeOK
  <2>1. /\ Len(toClient'[u]) = Len(t) + 1
        /\ \A m \in 1 .. Len(t) : toClient'[u][m] = t[m]
        /\ toClient'[u][Len(t) + 1] = Line(v, k)
    BY <1>0, <1>5, <2>0, AppendProperties, LenProperties
  <2> HIDE DEF s, t
  <2>2. \A m \in DOMAIN Transmitted(u) :
          m \in DOMAIN Transmitted(u)' /\ Transmitted(u)'[m] = Transmitted(u)[m]
    BY <1>1, <1>2, <2>1
  <2>3. \A m \in 1 .. n - 1 : m \in DOMAIN Transmitted(u)
    BY <1>1, <1>2, <2>1
  <2>4. CASE n \in DOMAIN Transmitted(u)
    <3>1. \A m \in 1 .. n - 1 : \E p \in 1 .. n - 1 : Transmitted(u)'[m] = Transmitted(u)[p]
      BY <2>2, <2>3
    <3> QED  BY <2>2, <2>4, <3>1, LineKept
  <2>5. CASE n \notin DOMAIN Transmitted(u)
    <3>1. n = Len(s) + Len(t) + 1
      <4>1. n \in 1 .. Len(s) + (Len(t) + 1) /\ n \notin 1 .. Len(s) + Len(t)
        BY <1>1, <1>2, <2>1, <2>5, Zenon
      <4>2. Len(s) \in Nat /\ Len(t) \in Nat
        BY <1>1
      <4> QED  BY <4>1, <4>2
    <3>2. Transmitted(u)'[n] = Line(v, k)
      BY <3>1, <1>1, <1>2, <2>1
    <3>3. v # u
      BY <1>5
    <3>4. \A m \in 1 .. n - 1 : Transmitted(u)'[m] = Transmitted(u)[m]
      BY <2>2, <2>3
    <3> QED  BY <1>0, <2>3, <3>2, <3>3, <3>4 DEF LineOK, LogOut, Departed
  <2> QED  BY <2>4, <2>5
<1> QED  BY <1>3, <1>4, <1>5

----------------------------------------------------------------------------
(* The users' steps leave the server where it is.                          *)

LEMMA SameSlots ==
  ASSUME UNCHANGED Client
  PROVE  /\ InUse' = InUse
         /\ UNCHANGED backlog => Held' = Held
         /\ \A n \in Nat : UNCHANGED fdvar => Set(n)' = Set(n)
BY DEF InUse, Held, Set

LEMMA RoundKept ==
  ASSUME TypeOK, RoundInv, UNCHANGED <<server, Client, fdvar, count, i>>,
         backlog # <<>> => backlog' # <<>>
  PROVE  RoundInv'
<1>1. i \in Nat
  BY DEF TypeOK
<1>2. Set(0)' = Set(0) /\ Set(i)' = Set(i)
  BY <1>1, SameSlots
<1> QED  BY <1>2 DEF RoundInv

(* No more connections than before, and the same users. *)
LEMMA CountKept ==
  ASSUME SlotsInv, MaxOnline <= MAX_CLIENT, (Online \cup Held)' \subseteq Online \cup Held
  PROVE  IsFiniteSet(Online \cup Held)' /\ (Cardinality(Online \cup Held) <= MaxOnline)'
<1> DEFINE T == Online \cup Held
<1>1. IsFiniteSet(T) /\ Cardinality(T) <= MaxOnline
  BY DEF SlotsInv
<1> HIDE DEF T
<1>2. ASSUME NEW U \in SUBSET T
      PROVE  IsFiniteSet(U) /\ Cardinality(U) <= MaxOnline
  <2>1. IsFiniteSet(U) /\ Cardinality(U) <= Cardinality(T)
    BY <1>1, FS_Subset
  <2>2. Cardinality(U) \in Nat /\ Cardinality(T) \in Nat
    BY <1>1, <2>1, FS_CardinalityType
  <2> QED  BY <1>1, <2>1, <2>2
<1>3. (Online \cup Held)' \in SUBSET T
  BY DEF T
<1> QED  BY <1>2, <1>3

(* Users who have left stay away when connections are only given up. *)
LEMMA AwayKept ==
  ASSUME \A u \in Users : client[u] = "gone" => client'[u] = "gone",
         \A u \in Held' : u \in Held \/ client[u] # "gone"
  PROVE  \A v \in Users \cup {Nobody} : Departed(v) => Departed(v)'
BY DEF Departed

LEMMA ConnectIInv ==
  ASSUME IInv, MaxOnline <= MAX_CLIENT, NEW w \in Users, Connect(w)
  PROVE  IInv'
<1> USE DEF IInv
<1>1. /\ backlog \in Seq(Users) /\ backlog' \in Seq(Users)
      /\ Len(backlog') = Len(backlog) + 1 /\ Len(backlog) \in Nat
      /\ \A n \in 1 .. Len(backlog) : backlog'[n] = backlog[n]
      /\ backlog'[Len(backlog) + 1] = w
      /\ DOMAIN backlog = 1 .. Len(backlog) /\ DOMAIN backlog' = 1 .. Len(backlog) + 1
  BY AppendProperties, LenProperties DEF TypeOK, Connect
<1>2. InUse' = InUse /\ Held' = Held \cup {w}
  <2>1. InUse' = InUse
    BY SameSlots DEF Connect, serverVars
  <2>2. {backlog'[n] : n \in DOMAIN backlog'} = {backlog[n] : n \in DOMAIN backlog} \cup {w}
    BY <1>1
  <2> QED  BY <2>1, <2>2 DEF Held, Connect, serverVars
<1>3. client[w] = "idle" /\ client' = [client EXCEPT ![w] = "naming"]
  BY DEF Connect
<1>4. w \notin Held /\ w \notin fdvar /\ w \notin Online
  BY <1>3 DEF ConnectInv, Online
<1>5. TypeOK'
  BY <1>1, <1>3 DEF TypeOK, Connect, serverVars
<1>6. SlotsInv'
  <2>1. Online' = Online \cup {w}
    BY <1>3 DEF Online, TypeOK
  <2>2. (Online \cup Held)' = (Online \cup Held) \cup {w}
    BY <2>1, <1>2
  <2> DEFINE T == Online \cup Held
  <2>3. IsFiniteSet(T) /\ Cardinality(T) < MaxOnline
    BY DEF SlotsInv, Connect
  <2> HIDE DEF T
  <2>4. IsFiniteSet(T \cup {w}) /\ Cardinality(T \cup {w}) <= MaxOnline
    <3>1. Cardinality(T) \in Nat
      BY <2>3, FS_CardinalityType
    <3>0. /\ IsFiniteSet(T \cup {w})
          /\ Cardinality(T \cup {w}) = IF w \in T THEN Cardinality(T) ELSE Cardinality(T) + 1
      BY <2>3, FS_AddElement
    <3>2. IsFiniteSet(T \cup {w}) /\ Cardinality(T \cup {w}) <= Cardinality(T) + 1
      BY <3>0, <3>1
    <3>3. Cardinality(T \cup {w}) \in Nat
      BY <3>2, FS_CardinalityType
    <3> QED  BY <2>3, <3>1, <3>2, <3>3
  <2>5. IsFiniteSet(Online \cup Held)' /\ (Cardinality(Online \cup Held) <= MaxOnline)'
    BY <2>2, <2>4 DEF T
  <2>6. UNCHANGED Client
    BY DEF Connect, serverVars
  <2>7. /\ \A n \in DOMAIN backlog : backlog[n] # w
        /\ \A j \in InUse : Client[j].sockfd # w
    BY <1>4, HeldBy
  <2>8. \A m, n \in DOMAIN backlog' : backlog'[m] = backlog'[n] => m = n
    <3>1. \A m, n \in DOMAIN backlog : backlog[m] = backlog[n] => m = n
      BY DEF SlotsInv
    <3>2. \A n \in DOMAIN backlog' : n = Len(backlog) + 1 \/ n \in DOMAIN backlog
      BY <1>1
    <3> QED  BY <1>1, <2>7, <3>1, <3>2
  <2>9. \A j \in InUse, n \in DOMAIN backlog' : Client[j].sockfd # backlog'[n]
    <3>1. \A j \in InUse, n \in DOMAIN backlog : Client[j].sockfd # backlog[n]
      BY DEF SlotsInv
    <3>2. \A n \in DOMAIN backlog' : n = Len(backlog) + 1 \/ n \in DOMAIN backlog
      BY <1>1
    <3> QED  BY <1>1, <2>7, <3>1, <3>2
  <2>10. /\ \A j \in InUse : Client[j].sockfd \in Users
         /\ \A j, k \in InUse : Client[j].sockfd = Client[k].sockfd => j = k
    BY DEF SlotsInv
  <2> QED  BY <1>2, <2>5, <2>6, <2>8, <2>9, <2>10 DEF SlotsInv
<1>7. RoundInv'
  <2>1. backlog' # <<>>
    BY <1>1, EmptySeq
  <2> QED  BY <2>1, RoundKept DEF Connect, serverVars
<1>8. ConnectInv'
  <2>1. \A n \in DOMAIN backlog' : backlog'[n] \notin fdvar
    <3>1. \A n \in DOMAIN backlog' : n = Len(backlog) + 1 \/ n \in DOMAIN backlog
      BY <1>1
    <3> QED  BY <1>1, <1>4, <3>1 DEF ConnectInv
  <2> QED  BY <1>2, <1>3, <2>1 DEF ConnectInv, TypeOK, Connect, serverVars
<1>9. SentInv'
  BY <1>3 DEF SentInv, TypeOK, Connect
<1>10. \A v \in Users \cup {Nobody} : Departed(v) => Departed(v)'
  BY <1>2, <1>3, AwayKept DEF TypeOK
<1>11. NamesInv'
  <2> SUFFICES ASSUME NEW j \in Slots PROVE NamesInv!(j)'
    BY DEF NamesInv
  <2>1. Client' = Client /\ toServer' = toServer /\ server' = server /\ id' = id
    BY DEF Connect, serverVars
  <2>2. Client[j].uid \in Users \cup {Nobody}
    BY DEF TypeOK
  <2>3. j \in InUse => Client[j].sockfd \in Held /\ Client[j].sockfd \in Users /\ Client[j].sockfd # w
    BY <1>4, HeldBy DEF SlotsInv
  <2>4. j \in InUse => client'[Client[j].sockfd] = client[Client[j].sockfd]
    BY <1>3, <2>3 DEF TypeOK
  <2> QED  BY <1>2, <1>10, <2>1, <2>2, <2>4 DEF NamesInv, Named
<1>12. LinesInv'
  <2>1. Onward
    BY <1>10 DEF Onward, Connect, TypeOK
  <2> QED  BY <1>5, <2>1, LinesUntouched DEF Connect
<1> QED  BY <1>5, <1>6, <1>7, <1>8, <1>9, <1>11, <1>12

(* The steps of a connected user, and the server's that only read: what    *)
(* the invariant says of slots and rounds is untouched.                    *)
LEMMA StepInPlace ==
  ASSUME IInv, MaxOnline <= MAX_CLIENT, UNCHANGED <<serverVars, backlog>>,
         client' \in [Users -> {"idle", "naming", "chatting", "gone"}],
         \A u \in Users : client'[u] # client[u] => u \in Online /\ client'[u] # "idle",
         \A u \in Users : client[u] = "gone" => client'[u] = "gone"
  PROVE  /\ SlotsInv' /\ RoundInv' /\ ConnectInv'
         /\ InUse' = InUse /\ Held' = Held
         /\ \A v \in Users \cup {Nobody} : Departed(v) => Departed(v)'
<1> USE DEF IInv, serverVars
<1>1. InUse' = InUse /\ Held' = Held
  BY SameSlots
<1>2. (Online \cup Held)' \subseteq Online \cup Held
  BY <1>1 DEF Online
<1>3. IsFiniteSet(Online \cup Held)' /\ (Cardinality(Online \cup Held) <= MaxOnline)'
  BY <1>2, CountKept
<1>4. SlotsInv'
  BY <1>1, <1>3 DEF SlotsInv
<1>5. RoundInv'
  BY RoundKept
<1>6. ConnectInv'
  BY <1>1 DEF ConnectInv, Online
<1>7. \A v \in Users \cup {Nobody} : Departed(v) => Departed(v)'
  BY <1>1, AwayKept
<1> QED  BY <1>1, <1>4, <1>5, <1>6, <1>7

LEMMA NamesKept ==
  ASSUME TypeOK, SlotsInv, NamesInv, UNCHANGED <<server, Client, id>>,
         \A v \in Users \cup {Nobody} : Departed(v) => Departed(v)',
         \A u \in Users : /\ client[u] # "naming" => client'[u] # "naming"
                          /\ client[u] = "gone" => client'[u] = "gone",
         \A u \in Users : client[u] = "gone" => toServer'[u] = toServer[u],
         \A u \in Users : client[u] # "naming" =>
           \A n \in DOMAIN toServer'[u] :
             toServer'[u][n] > 0 \/ \E m \in DOMAIN toServer[u] : toServer'[u][n] = toServer[u][m]
  PROVE  NamesInv'
<1> SUFFICES ASSUME NEW j \in Slots PROVE NamesInv!(j)'
  BY DEF NamesInv
<1>1. InUse' = InUse
  BY SameSlots
<1>2. Client[j].uid \in Users \cup {Nobody} /\ (j \in InUse => Client[j].sockfd \in Users)
  BY DEF TypeOK, SlotsInv
<1>3. ASSUME j \in InUse, Named(j) PROVE Named(j)'
  BY <1>2, <1>3 DEF Named
<1> QED  BY <1>1, <1>2, <1>3 DEF NamesInv

LEMMA TypeIDIInv ==
  ASSUME IInv, MaxOnline <= MAX_CLIENT, NEW w \in Users, TypeID(w)
  PROVE  IInv'
<1> USE DEF IInv
<1>1. client[w] = "naming" /\ client' = [client EXCEPT ![w] = "chatting"]
  BY DEF TypeID
<1>2. toServer[w] = <<>> /\ typed[w] = 0 /\ toServer' = [toServer EXCEPT ![w] = <<0>>]
  <2>1. Append(<<>>, 0) = <<0>>
    OBVIOUS
  <2> QED  BY <1>1, <2>1 DEF SentInv, TypeID
<1>3. TypeOK'
  <2>1. <<0>> \in Seq(0 .. MaxLines)
    BY 0 \in 0 .. MaxLines
  <2> QED  BY <1>1, <1>2, <2>1 DEF TypeOK, TypeID, serverVars
<1>4. /\ SlotsInv' /\ RoundInv' /\ ConnectInv'
      /\ \A v \in Users \cup {Nobody} : Departed(v) => Departed(v)'
  <2>1. client' \in [Users -> {"idle", "naming", "chatting", "gone"}]
    BY <1>3 DEF TypeOK
  <2> QED  BY <1>1, <2>1, StepInPlace DEF TypeID, TypeOK, Online
<1>5. DOMAIN <<0>> = {1} /\ <<0>>[1] = 0
  OBVIOUS
<1>6. SentInv'
  <2> SUFFICES ASSUME NEW u \in Users PROVE SentInv!(u)'
    BY DEF SentInv
  <2>1. CASE u # w
    BY <1>1, <1>2, <2>1 DEF SentInv, TypeOK, TypeID
  <2>2. CASE u = w
    <3>1. toServer'[u] = <<0>> /\ client'[u] = "chatting" /\ link'[u] = "open" /\ typed'[u] = 0
      BY <1>1, <1>2, <2>2 DEF SentInv, TypeOK, TypeID
    <3> QED  BY <1>5, <3>1
  <2> QED  BY <2>1, <2>2
<1>7. NamesInv'
  <2>1. \A u \in Users : client[u] # "naming" => toServer'[u] = toServer[u]
    BY <1>1, <1>2 DEF TypeOK
  <2>2. \A u \in Users : /\ client[u] # "naming" => client'[u] # "naming"
                         /\ client[u] = "gone" => client'[u] = "gone"
    BY <1>1 DEF TypeOK
  <2> QED  BY <1>4, <2>1, <2>2, NamesKept DEF TypeID, serverVars
<1>8. LinesInv'
  <2>1. \A u \in Users : toServer'[u] = toServer[u] \/ typed[u] = 0
    BY <1>2 DEF TypeOK
  <2>2. Onward
    BY <1>4, <2>1 DEF Onward, TypeID, TypeOK
  <2> QED  BY <1>3, <2>2, LinesUntouched DEF TypeID
<1> QED  BY <1>3, <1>4, <1>6, <1>7, <1>8

LEMMA TypeLineIInv ==
  ASSUME IInv, MaxOnline <= MAX_CLIENT, NEW w \in Users, TypeLine(w)
  PROVE  IInv'
<1> USE DEF IInv
<1> DEFINE k == typed[w] + 1
           q == toServer[w]
<1>1. /\ client[w] = "chatting" /\ k \in 1 .. MaxLines
      /\ typed' = [typed EXCEPT ![w] = k]
      /\ q \in Seq(0 .. MaxLines)
      /\ toServer' = [toServer EXCEPT ![w] = Append(q, k)]
  BY DEF TypeLine, TypeOK
<1>2. /\ Append(q, k) \in Seq(0 .. MaxLines)
      /\ DOMAIN q = 1 .. Len(q) /\ Len(q) \in Nat
      /\ DOMAIN Append(q, k) = 1 .. Len(q) + 1
      /\ \A n \in 1 .. Len(q) : Append(q, k)[n] = q[n]
      /\ Append(q, k)[Len(q) + 1] = k
  BY <1>1, k \in 0 .. MaxLines, AppendProperties, LenProperties
<1>3. \A n \in DOMAIN Append(q, k) :
        \/ n \in DOMAIN q /\ Append(q, k)[n] = q[n]
        \/ n = Len(q) + 1 /\ Append(q, k)[n] = k
  <2> HIDE DEF k, q
  <2> QED  BY <1>2
<1>4. TypeOK'
  BY <1>1, <1>2 DEF TypeOK, TypeLine, serverVars
<1>5. /\ SlotsInv' /\ RoundInv' /\ ConnectInv'
      /\ \A v \in Users \cup {Nobody} : Departed(v) => Departed(v)'
  BY StepInPlace DEF TypeLine, TypeOK
<1>6. SentInv'
  <2> SUFFICES ASSUME NEW u \in Users PROVE SentInv!(u)'
    BY DEF SentInv
  <2>1. CASE u # w
    BY <1>1, <2>1 DEF SentInv, TypeOK, TypeLine
  <2>2. CASE u = w
    <3>1. toServer'[u] = Append(q, k) /\ typed'[u] = k
      BY <1>1, <2>2 DEF TypeOK
    <3>2. \A n \in DOMAIN q : q[n] <= typed[w] /\ \A m \in 1 .. n - 1 : q[m] < q[n]
      BY DEF SentInv
    <3>3. \A n \in DOMAIN q : q[n] < k
      <4>1. \A n \in DOMAIN q : q[n] \in Int
        BY <1>1, <1>2, ElementOfSeq
      <4> QED  BY <3>2, <4>1 DEF TypeOK
    <3>4. ASSUME NEW n \in DOMAIN Append(q, k)
          PROVE  /\ Append(q, k)[n] <= k
                 /\ \A m \in 1 .. n - 1 : Append(q, k)[m] < Append(q, k)[n]
      <4> HIDE DEF q, k
      <4>1. \A m \in 1 .. n - 1 : m \in DOMAIN q /\ Append(q, k)[m] = q[m]
        BY <1>2
      <4>2. CASE n \in DOMAIN q
        BY <1>1, <1>2, <3>2, <3>3, <4>1, <4>2
      <4>3. CASE n = Len(q) + 1
        BY <1>1, <1>2, <3>3, <4>1, <4>3
      <4> QED  BY <1>3, <4>2, <4>3
    <3>5. client'[u] = "chatting" /\ link'[u] = "open"
      BY <1>1, <2>2 DEF SentInv, TypeOK, TypeLine
    <3> QED  BY <3>1, <3>4, <3>5
  <2> QED  BY <2>1, <2>2
<1>7. ASSUME NEW u \in Users, NEW n \in DOMAIN toServer'[u]
      PROVE  \/ \E m \in DOMAIN toServer[u] : toServer'[u][n] = toServer[u][m]
             \/ toServer'[u][n] > typed[u] /\ toServer'[u][n] > 0
  <2>1. CASE u # w
    BY <1>1, <2>1 DEF TypeOK
  <2>2. CASE u = w
    BY <1>1, <1>3, <2>2 DEF TypeOK
  <2> QED  BY <2>1, <2>2
<1>8. NamesInv'
  <2>1. \A u \in Users : client[u] = "gone" => toServer'[u] = toServer[u]
    BY <1>1 DEF TypeOK
  <2>2. client' = client
    BY DEF TypeLine
  <2> QED  BY <1>5, <1>7, <2>1, <2>2, NamesKept DEF TypeLine, serverVars
<1>9. LinesInv'
  <2>1. \A u \in Users : typed[u] <= typed'[u]
    BY <1>1 DEF TypeOK
  <2>2. Onward
    BY <1>5, <1>7, <2>1 DEF Onward
  <2> QED  BY <1>4, <2>2, LinesUntouched DEF TypeLine
<1> QED  BY <1>4, <1>5, <1>6, <1>8, <1>9

LEMMA ServerInputIInv ==
  ASSUME IInv, MaxOnline <= MAX_CLIENT, NEW w \in Users, ServerInput(w)
  PROVE  IInv'
<1> USE DEF IInv
<1>1. PICK rest \in Rests(toClient[w]) : toClient' = [toClient EXCEPT ![w] = rest]
  BY DEF ServerInput
<1>2. /\ toClient[w] # <<>>
      /\ shown' = [shown EXCEPT ![w] = Append(@, Head(toClient[w]))]
      /\ UNCHANGED <<serverVars, client, typed, backlog, link, toServer>>
  BY DEF ServerInput
<1>3. TypeOK'
  <2>1. rest \in Seq(Lines)
    BY <1>1, RestOf DEF TypeOK
  <2>2. Append(shown[w], Head(toClient[w])) \in Seq(Lines)
    <3>1. shown[w] \in Seq(Lines) /\ toClient[w] \in Seq(Lines)
      BY DEF TypeOK
    <3> QED  BY <1>2, <3>1, HeadTailProperties, AppendProperties
  <2>3. toClient' \in [Users -> Seq(Lines)] /\ shown' \in [Users -> Seq(Lines)]
    BY <1>1, <1>2, <2>1, <2>2 DEF TypeOK
  <2> QED  BY <1>2, <2>3 DEF TypeOK, serverVars
<1>4. /\ SlotsInv' /\ RoundInv' /\ ConnectInv'
      /\ \A v \in Users \cup {Nobody} : Departed(v) => Departed(v)'
  BY <1>2, StepInPlace DEF TypeOK
<1>5. SentInv'
  BY <1>2 DEF SentInv
<1>6. NamesInv'
  BY <1>2, <1>4, NamesKept DEF serverVars
<1>7. LinesInv'
  <2>1. Onward
    BY <1>2, <1>4 DEF Onward, TypeOK
  <2> QED  BY <1>1, <1>2, <1>3, <2>1, LinesRead
<1> QED  BY <1>3, <1>4, <1>5, <1>6, <1>7

LEMMA ServerTerminatedIInv ==
  ASSUME IInv, MaxOnline <= MAX_CLIENT, NEW w \in Users, ServerTerminated(w)
  PROVE  IInv'
<1> USE DEF IInv
<1>1. /\ client' = [client EXCEPT ![w] = "gone"] /\ w \in Online
      /\ UNCHANGED <<serverVars, typed, shown, backlog, link, toServer, toClient>>
  BY DEF ServerTerminated
<1>2. TypeOK'
  BY <1>1 DEF TypeOK, serverVars
<1>3. /\ SlotsInv' /\ RoundInv' /\ ConnectInv'
      /\ \A v \in Users \cup {Nobody} : Departed(v) => Departed(v)'
  <2>1. client' \in [Users -> {"idle", "naming", "chatting", "gone"}]
    BY <1>2 DEF TypeOK
  <2> QED  BY <1>1, <2>1, StepInPlace DEF TypeOK
<1>4. SentInv'
  BY <1>1 DEF SentInv, TypeOK
<1>5. NamesInv'
  BY <1>1, <1>3, NamesKept DEF serverVars, TypeOK
<1>6. LinesInv'
  <2>1. Onward
    BY <1>1, <1>3 DEF Onward, TypeOK
  <2> QED  BY <1>1, <1>2, <2>1, LinesUntouched
<1> QED  BY <1>2, <1>3, <1>4, <1>5, <1>6

LEMMA CloseClientIInv ==
  ASSUME IInv, MaxOnline <= MAX_CLIENT, NEW w \in Users, CloseClient(w)
  PROVE  IInv'
<1> USE DEF IInv
<1>1. /\ client' = [client EXCEPT ![w] = "gone"] /\ w \in Online
      /\ link' = [link EXCEPT ![w] = IF toClient[w] = <<>> THEN "fin" ELSE "reset"]
      /\ toClient' = [toClient EXCEPT ![w] = <<>>]
      /\ UNCHANGED <<serverVars, typed, shown, backlog, toServer>>
  BY DEF CloseClient
<1>2. TypeOK'
  <2>1. <<>> \in Seq(Lines)
    BY EmptySeq
  <2> QED  BY <1>1, <2>1 DEF TypeOK, serverVars
<1>3. /\ SlotsInv' /\ RoundInv' /\ ConnectInv'
      /\ \A v \in Users \cup {Nobody} : Departed(v) => Departed(v)'
  <2>1. client' \in [Users -> {"idle", "naming", "chatting", "gone"}]
    BY <1>2 DEF TypeOK
  <2> QED  BY <1>1, <2>1, StepInPlace DEF TypeOK
<1>4. SentInv'
  BY <1>1 DEF SentInv, TypeOK
<1>5. NamesInv'
  BY <1>1, <1>3, NamesKept DEF serverVars, TypeOK
<1>6. LinesInv'
  <2>1. Onward
    BY <1>1, <1>3 DEF Onward, TypeOK
  <2> QED  BY <1>1, <1>2, <2>1, LinesDropped
<1> QED  BY <1>2, <1>3, <1>4, <1>5, <1>6

----------------------------------------------------------------------------
(* The steps of the server.                                                *)

(* A recv takes the first string, and the rest is all newer. *)
LEMMA Received ==
  ASSUME TypeOK, SentInv, NEW w \in Users, toServer[w] # <<>>,
         NEW rest \in Rests(toServer[w]), toServer' = [toServer EXCEPT ![w] = rest],
         UNCHANGED <<client, typed>>,
         \A u \in Users : link'[u] # "open" => link[u] # "open"
  PROVE  /\ toServer' \in [Users -> Seq(0 .. MaxLines)]
         /\ SentInv'
         /\ \A u \in Users : \A n \in DOMAIN toServer'[u] :
              \E m \in DOMAIN toServer[u] : toServer'[u][n] = toServer[u][m]
         /\ Head(toServer[w]) = toServer[w][1] /\ 1 \in DOMAIN toServer[w]
         /\ \A n \in DOMAIN toServer'[w] : toServer'[w][n] > Head(toServer[w])
         /\ client[w] \notin {"idle", "naming"}
<1> DEFINE q == toServer[w]
<1>1. /\ q \in Seq(0 .. MaxLines) /\ Len(q) \in Nat /\ DOMAIN q = 1 .. Len(q)
      /\ Head(q) = q[1]
      /\ \A n \in DOMAIN q : q[n] \in Int
  <2>1. q \in Seq(0 .. MaxLines)
    BY DEF TypeOK
  <2>2. Len(q) \in Nat /\ DOMAIN q = 1 .. Len(q)
    BY <2>1, LenProperties
  <2>3. \A n \in DOMAIN q : q[n] \in 0 .. MaxLines
    BY <2>1, <2>2, ElementOfSeq
  <2> QED  BY <2>1, <2>2, <2>3
<1>2. PICK k \in 1 .. Len(q) :
        Len(rest) = Len(q) - k /\ \A n \in 1 .. Len(rest) : rest[n] = q[n + k]
  <2> DEFINE K == 0 .. MaxLines
  <2>1. rest \in Rests(q) /\ q \in Seq(K)
    BY <1>1
  <2> HIDE DEF q, K
  <2> QED  BY <2>1, RestOf
<1>3. rest \in Seq(0 .. MaxLines)
  BY <1>1, RestOf
<1>4. DOMAIN rest = 1 .. Len(rest) /\ toServer'[w] = rest
  BY <1>3, LenProperties DEF TypeOK
<1>5. \A n \in DOMAIN q : q[n] <= typed[w] /\ \A m \in 1 .. n - 1 : q[m] < q[n]
  BY DEF SentInv
<1>6. \A n \in DOMAIN rest : n \in Int /\ n >= 1 /\ n + k \in DOMAIN q /\ rest[n] = q[n + k]
  <2> HIDE DEF q
  <2> QED  BY <1>1, <1>2, <1>4
<1>7. \A n \in DOMAIN rest : rest[n] > q[1]
  <2>1. \A n \in DOMAIN rest : 1 \in 1 .. (n + k) - 1
    BY <1>2, <1>6
  <2>2. \A n \in DOMAIN rest : q[1] < q[n + k]
    BY <1>5, <1>6, <2>1
  <2>3. 1 \in DOMAIN q
    BY <1>1, EmptySeq
  <2> HIDE DEF q
  <2> QED  BY <1>1, <1>6, <2>2, <2>3
<1>8. \A n \in DOMAIN rest : rest[n] <= typed[w] /\ \A m \in 1 .. n - 1 : rest[m] < rest[n]
  <2> SUFFICES ASSUME NEW n \in DOMAIN rest, NEW m \in 1 .. n - 1
               PROVE  rest[m] < rest[n]
    BY <1>5, <1>6
  <2>1. m \in DOMAIN rest /\ m + k \in 1 .. (n + k) - 1
    BY <1>2, <1>4, <1>6
  <2> QED  BY <1>5, <1>6, <2>1
<1>9. client[w] \notin {"idle", "naming"}
  BY DEF SentInv
<1>10. SentInv'
  <2> SUFFICES ASSUME NEW u \in Users PROVE SentInv!(u)'
    BY DEF SentInv
  <2>1. CASE u # w
    BY <2>1 DEF SentInv, TypeOK
  <2>2. CASE u = w
    BY <1>4, <1>8, <1>9, <2>2 DEF SentInv
  <2> QED  BY <2>1, <2>2
<1>11. ASSUME NEW u \in Users, NEW n \in DOMAIN toServer'[u]
       PROVE  \E m \in DOMAIN toServer[u] : toServer'[u][n] = toServer[u][m]
  <2>1. CASE u # w
    BY <2>1 DEF TypeOK
  <2>2. CASE u = w
    BY <1>4, <1>6, <2>2
  <2> QED  BY <2>1, <2>2
<1>12. toServer' \in [Users -> Seq(0 .. MaxLines)]
  BY <1>3 DEF TypeOK
<1>13. 1 \in DOMAIN q
  BY <1>1, EmptySeq
<1> QED  BY <1>1, <1>4, <1>7, <1>9, <1>10, <1>11, <1>12, <1>13

(* When the server ends, its slots, its backlog and the round end with it. *)
LEMMA Ended ==
  ASSUME IInv, MaxOnline <= MAX_CLIENT, NEW how \in {"stopped", "died"}, Exit(how),
         UNCHANGED client
  PROVE  /\ SlotsInv' /\ RoundInv' /\ ConnectInv' /\ NamesInv'
         /\ \A v \in Users \cup {Nobody} : Departed(v) => Departed(v)'
         /\ server' = how /\ Client' \in [Slots -> [sockfd : Users \cup {Nobody}, inUse : BOOLEAN,
                                                    uid : Users \cup {Nobody}]]
         /\ backlog' = <<>> /\ fdvar' = {} /\ count' = 0 /\ i' = MAX_CLIENT /\ id' = 0
<1> USE DEF IInv
<1>1. /\ server' = how /\ Client' = Unused /\ backlog' = <<>>
      /\ fdvar' = {} /\ count' = 0 /\ i' = MAX_CLIENT /\ id' = 0
  BY DEF Exit
<1>2. InUse' = {}
  BY <1>1 DEF InUse, Unused
<1>3. Held' = {}
  BY <1>1, <1>2, EmptySeq DEF Held
<1>4. IsFiniteSet(Online \cup Held)' /\ (Cardinality(Online \cup Held) <= MaxOnline)'
  <2>1. (Online \cup Held)' \subseteq Online \cup Held
    BY <1>3 DEF Online
  <2> QED  BY <2>1, CountKept
<1>5. DOMAIN backlog' = {}
  BY <1>1, EmptySeq
<1>6. SlotsInv'
  BY <1>2, <1>4, <1>5 DEF SlotsInv
<1>7. RoundInv'
  BY <1>1 DEF RoundInv
<1>8. ConnectInv'
  BY <1>1, <1>3, <1>5 DEF ConnectInv
<1>9. NamesInv'
  <2>1. \A j \in Slots : Client'[j].uid = Nobody
    BY <1>1 DEF Unused
  <2> QED  BY <1>2, <2>1 DEF NamesInv, Departed
<1>10. \A v \in Users \cup {Nobody} : Departed(v) => Departed(v)'
  BY <1>3, AwayKept
<1>11. Client' \in [Slots -> [sockfd : Users \cup {Nobody}, inUse : BOOLEAN,
                              uid : Users \cup {Nobody}]]
  BY <1>1 DEF Unused
<1> QED  BY <1>1, <1>6, <1>7, <1>8, <1>9, <1>10, <1>11

LEMMA ExitIInv ==
  ASSUME IInv, MaxOnline <= MAX_CLIENT, RecvError \/ CloseServer
  PROVE  IInv'
<1> USE DEF IInv
<1>1. PICK how \in {"stopped", "died"} : Exit(how)
  BY DEF RecvError, CloseServer
<1>2. UNCHANGED <<userVars, link, toServer, toClient>>
  BY DEF RecvError, CloseServer
<1>3. /\ SlotsInv' /\ RoundInv' /\ ConnectInv' /\ NamesInv'
      /\ \A v \in Users \cup {Nobody} : Departed(v) => Departed(v)'
      /\ server' = how /\ Client' \in [Slots -> [sockfd : Users \cup {Nobody}, inUse : BOOLEAN,
                                                 uid : Users \cup {Nobody}]]
      /\ backlog' = <<>> /\ fdvar' = {} /\ count' = 0 /\ i' = MAX_CLIENT /\ id' = 0
  BY <1>1, <1>2, Ended DEF userVars
<1>4. TypeOK'
  BY <1>2, <1>3, EmptySeq DEF TypeOK, userVars, Slots
<1>5. SentInv'
  BY <1>2 DEF SentInv, userVars
<1>6. LinesInv'
  <2>1. Onward
    BY <1>2, <1>3 DEF Onward, TypeOK, userVars
  <2> QED  BY <1>2, <1>4, <2>1, LinesUntouched DEF userVars
<1> QED  BY <1>3, <1>4, <1>5, <1>6

(* A socket has been served, and the loop goes on at the slot next: what   *)
(* it has ahead are the sockets in S, one less than count.                 *)
LEMMA ServedRound ==
  ASSUME TypeOK, NEW next \in 0 .. MAX_CLIENT, Served(next), count > 0,
         NEW S, S = {j \in InUse' : j >= next /\ Client'[j].sockfd \in fdvar},
         count - 1 = Cardinality(S)
  PROVE  /\ RoundInv'
         /\ server' \in {"select", "round"} /\ fdvar' \subseteq fdvar
         /\ count' \in 0 .. MAX_CLIENT + 1 /\ i' \in 0 .. MAX_CLIENT /\ id' \in Slots
<1>1. count \in Nat /\ count' = count - 1 /\ count' \in 0 .. MAX_CLIENT + 1
  BY DEF TypeOK, Served
<1>2. i' \in 0 .. MAX_CLIENT /\ id' \in Slots
  BY DEF Served, Slots
<1>3. CASE count' = 0
  BY <1>1, <1>2, <1>3 DEF Served, RoundInv
<1>4. CASE count' # 0
  <2>1. server' = "round" /\ i' = next /\ fdvar' = fdvar
    BY <1>4 DEF Served
  <2>2. Set(i)' = S
    BY <2>1 DEF Set
  <2>3. Set(i)' # {}
    BY <1>1, <1>4, <2>2, FS_EmptySet
  <2>4. i' # MAX_CLIENT
    BY <2>1, <2>2, <2>3 DEF InUse, Slots
  <2> QED  BY <1>1, <1>2, <1>4, <2>1, <2>2, <2>3, <2>4 DEF RoundInv
<1> QED  BY <1>3, <1>4

LEMMA SelectIInv ==
  ASSUME IInv, MaxOnline <= MAX_CLIENT, Select
  PROVE  IInv'
<1> USE DEF IInv
<1> DEFINE R == {u \in {Client[j].sockfd : j \in InUse} : Readable(u)}
           S == {j \in InUse : Readable(Client[j].sockfd)}
<1>1. /\ server = "select" /\ server' = "round"
      /\ fdvar' = (IF backlog = <<>> THEN {} ELSE {Sockfd}) \cup R
      /\ fdvar' # {} /\ count' = Cardinality(fdvar')
      /\ i' = IF Sockfd \in fdvar' THEN MAX_CLIENT ELSE 0
      /\ UNCHANGED <<Client, id, backlog, userVars, link, toServer, toClient>>
  BY DEF Select
<1>2. R \subseteq Users /\ R \subseteq Held /\ Sockfd \notin R
  BY DEF SlotsInv, Held
<1>3. Cardinality(R) = Cardinality(S) /\ IsFiniteSet(R) /\ Cardinality(S) \in 0 .. MAX_CLIENT
  <2> DEFINE f == [j \in S |-> Client[j].sockfd]
  <2>1. S \in SUBSET Slots
    BY DEF InUse
  <2>2. IsFiniteSet(S) /\ Cardinality(S) \in 0 .. MAX_CLIENT
    BY <2>1, SlotSets
  <2>3. f \in Bijection(S, R)
    BY DEF SlotsInv, Bijection, Injection, Surjection, IsInjective
  <2>4. ExistsBijection(S, R)
    BY <2>3 DEF ExistsBijection
  <2> HIDE DEF f, S, R
  <2> QED  BY <2>2, <2>4, FS_Bijection
<1>4. Set(0)' = S
  <2>1. InUse' = InUse
    BY <1>1, SameSlots
  <2>2. \A j \in InUse : j >= 0 /\ Client[j].sockfd # Sockfd
    BY DEF InUse, Slots, SlotsInv
  <2> QED  BY <1>1, <2>1, <2>2 DEF Set
<1>5. /\ backlog # <<>> => /\ Sockfd \in fdvar' /\ i' = MAX_CLIENT
                           /\ count' = Cardinality(S) + 1
      /\ backlog = <<>> => /\ Sockfd \notin fdvar' /\ i' = 0
                           /\ count' = Cardinality(S) /\ S # {}
  <2>1. CASE backlog # <<>>
    <3>1. fdvar' = R \cup {Sockfd}
      BY <1>1, <2>1
    <3> HIDE DEF R, S
    <3>2. Cardinality(fdvar') = Cardinality(R) + 1
      BY <1>2, <1>3, <3>1, FS_AddElement
    <3> QED  BY <1>1, <1>3, <2>1, <3>1, <3>2
  <2>2. CASE backlog = <<>>
    <3>1. fdvar' = R /\ S # {}
      BY <1>1, <2>2
    <3> QED  BY <1>1, <1>2, <1>3, <2>2, <3>1
  <2> QED  BY <2>1, <2>2
<1>6. TypeOK'
  <2>1. count' \in 0 .. MAX_CLIENT + 1 /\ i' \in 0 .. MAX_CLIENT
    <3> HIDE DEF S
    <3> QED  BY <1>3, <1>5
  <2>2. fdvar' \subseteq Users \cup {Sockfd}
    BY <1>1, <1>2
  <2> QED  BY <1>1, <2>1, <2>2 DEF TypeOK, userVars
<1>7. RoundInv'
  <2>1. count' > 0
    <3> HIDE DEF S
    <3>1. S = {} <=> Cardinality(S) = 0
      <4>1. IsFiniteSet(S)
        BY SlotSets DEF S, InUse
      <4> QED  BY <4>1, FS_EmptySet
    <3> QED  BY <1>3, <1>5, <3>1
  <2>2. CASE backlog # <<>>
    <3> HIDE DEF S
    <3> QED  BY <1>1, <1>4, <1>5, <2>1, <2>2 DEF RoundInv
  <2>3. CASE backlog = <<>>
    <3>1. Set(i)' = S
      BY <1>4, <1>5, <2>3 DEF Set
    <3> HIDE DEF S
    <3> QED  BY <1>1, <1>4, <1>5, <2>1, <2>3, <3>1 DEF RoundInv
  <2> QED  BY <2>2, <2>3
<1>8. InUse' = InUse /\ Held' = Held
  BY <1>1, SameSlots
<1>9. SlotsInv'
  <2>1. (Online \cup Held)' \subseteq Online \cup Held
    BY <1>1, <1>8 DEF Online, userVars
  <2>2. IsFiniteSet(Online \cup Held)' /\ (Cardinality(Online \cup Held) <= MaxOnline)'
    BY <2>1, CountKept
  <2> QED  BY <1>1, <1>8, <2>2 DEF SlotsInv
<1>10. ConnectInv'
  <2>1. \A n \in DOMAIN backlog : backlog[n] \in Users /\ backlog[n] \notin R
    BY LenProperties, ElementOfSeq DEF SlotsInv, TypeOK
  <2>2. \A u \in Users : u \in fdvar' => u \in Held
    BY <1>1, <1>2
  <2> QED  BY <1>1, <1>8, <2>1, <2>2 DEF ConnectInv, userVars
<1>11. SentInv'
  BY <1>1 DEF SentInv, userVars
<1>12. \A v \in Users \cup {Nobody} : Departed(v) => Departed(v)'
  BY <1>1, <1>8, AwayKept DEF userVars
<1>13. NamesInv'
  <2> SUFFICES ASSUME NEW j \in Slots PROVE NamesInv!(j)'
    BY DEF NamesInv
  <2>1. Client[j].uid \in Users \cup {Nobody}
    BY DEF TypeOK
  <2> QED  BY <1>1, <1>8, <1>12, <2>1 DEF NamesInv, Named, userVars
<1>14. LinesInv'
  <2>1. Onward
    BY <1>1, <1>12 DEF Onward, TypeOK, userVars
  <2> QED  BY <1>1, <1>6, <2>1, LinesUntouched DEF userVars
<1> QED  BY <1>6, <1>7, <1>9, <1>10, <1>11, <1>13, <1>14

(* Accept gives the first of the backlog a slot that was not in use. *)
LEMMA AcceptIInv ==
  ASSUME IInv, MaxOnline <= MAX_CLIENT, Accept
  PROVE  IInv'
<1> USE DEF IInv
<1> DEFINE w == Head(backlog)
<1>1. /\ server = "round" /\ server' = "login"
      /\ Sockfd \in fdvar /\ Set(i) = {} /\ backlog # <<>>
      /\ backlog' = Tail(backlog)
      /\ UNCHANGED <<fdvar, count, i, userVars, link, toServer, toClient>>
  BY DEF Accept
<1>2. PICK j \in Slots \ InUse :
        /\ Client' = [Client EXCEPT ![j].inUse = TRUE, ![j].sockfd = w]
        /\ id' = j
  <2>1. Slots \ InUse # {} /\ Slots \ InUse \subseteq Nat
    BY <1>1, RoomForOne, SlotsAreNaturals DEF InUse
  <2>2. Min(Slots \ InUse) \in Slots \ InUse
    BY <2>1, Least
  <2>3. GetID = {Min(Slots \ InUse)}
    BY <2>1 DEF GetID
  <2> QED  BY <2>2, <2>3 DEF Accept
<1>3. /\ w \in Users /\ w = backlog[1] /\ 1 \in DOMAIN backlog
      /\ backlog' \in Seq(Users)
      /\ \A n \in DOMAIN backlog' : n + 1 \in DOMAIN backlog /\ n + 1 # 1 /\ n \in Int
                                    /\ backlog'[n] = backlog[n + 1]
  <2>1. backlog \in Seq(Users)
    BY DEF TypeOK
  <2>2. /\ w \in Users /\ backlog' \in Seq(Users) /\ Len(backlog') = Len(backlog) - 1
        /\ \A n \in 1 .. Len(backlog') : backlog'[n] = backlog[n + 1]
    BY <1>1, <2>1, HeadTailProperties
  <2>3. /\ DOMAIN backlog = 1 .. Len(backlog) /\ DOMAIN backlog' = 1 .. Len(backlog')
        /\ Len(backlog) \in Nat
    BY <2>1, <2>2, LenProperties
  <2>4. 1 \in DOMAIN backlog /\ w = backlog[1]
    BY <1>1, <2>1, <2>3, EmptySeq
  <2> HIDE DEF w
  <2> QED  BY <2>2, <2>3, <2>4
<1> HIDE DEF w
<1>4. /\ \A k \in Slots \ {j} : Client'[k] = Client[k]
      /\ Client'[j].sockfd = w /\ Client'[j].uid = Client[j].uid
      /\ InUse' = InUse \cup {j} /\ j \notin InUse /\ \A k \in InUse : Client'[k] = Client[k]
      /\ Client' \in [Slots -> [sockfd : Users \cup {Nobody}, inUse : BOOLEAN,
                                uid : Users \cup {Nobody}]]
  <2>1. Client[j] \in [sockfd : Users \cup {Nobody}, inUse : BOOLEAN, uid : Users \cup {Nobody}]
    BY DEF TypeOK
  <2>2. /\ Client'[j] = [sockfd |-> w, inUse |-> TRUE, uid |-> Client[j].uid]
        /\ \A k \in Slots \ {j} : Client'[k] = Client[k]
        /\ DOMAIN Client' = Slots /\ Client' = [k \in Slots |-> Client'[k]]
    BY <1>2, <2>1 DEF TypeOK
  <2>3. Client'[j] \in [sockfd : Users \cup {Nobody}, inUse : BOOLEAN, uid : Users \cup {Nobody}]
    BY <1>3, <2>1, <2>2
  <2>4. \A k \in Slots : Client'[k] \in [sockfd : Users \cup {Nobody}, inUse : BOOLEAN,
                                         uid : Users \cup {Nobody}]
    BY <2>2, <2>3 DEF TypeOK
  <2>5. Client' \in [Slots -> [sockfd : Users \cup {Nobody}, inUse : BOOLEAN,
                               uid : Users \cup {Nobody}]]
    BY <2>2, <2>4
  <2>6. Client'[j].inUse /\ Client'[j].sockfd = w /\ Client'[j].uid = Client[j].uid
    BY <2>2
  <2>7. InUse' = InUse \cup {j}
    BY <2>2, <2>6 DEF InUse
  <2>8. InUse \subseteq Slots \ {j}
    BY <1>2 DEF InUse
  <2> QED  BY <2>2, <2>5, <2>6, <2>7, <2>8
<1>5. /\ w \in Held /\ w \notin fdvar /\ \A k \in InUse : Client[k].sockfd # w
      /\ \A n \in DOMAIN backlog' : backlog'[n] # w
  BY <1>3, HeldBy DEF ConnectInv, SlotsInv
<1>6. Held' \subseteq Held
  <2> SUFFICES ASSUME NEW u \in Held' PROVE u \in Held
    OBVIOUS
  <2>1. \/ \E n \in DOMAIN backlog' : u = backlog'[n]
        \/ \E k \in InUse' : u = Client'[k].sockfd
    BY DEF Held
  <2>2. CASE \E n \in DOMAIN backlog' : u = backlog'[n]
    BY <1>3, <2>2, HeldBy
  <2>3. CASE \E k \in InUse' : u = Client'[k].sockfd
    BY <1>4, <1>5, <2>3, HeldBy
  <2> QED  BY <2>1, <2>2, <2>3
<1>7. TypeOK'
  BY <1>1, <1>2, <1>3, <1>4 DEF TypeOK, userVars
<1>8. SlotsInv'
  <2>1. (Online \cup Held)' \subseteq Online \cup Held
    BY <1>1, <1>6 DEF Online, userVars
  <2>2. IsFiniteSet(Online \cup Held)' /\ (Cardinality(Online \cup Held) <= MaxOnline)'
    BY <2>1, CountKept
  <2>3. /\ \A k \in InUse' : Client'[k].sockfd \in Users
        /\ \A k, l \in InUse' : Client'[k].sockfd = Client'[l].sockfd => k = l
    <3>1. \A k \in InUse' : \/ k = j /\ Client'[k].sockfd = w
                            \/ k \in InUse /\ Client'[k].sockfd = Client[k].sockfd
      BY <1>4
    <3>2. \A k \in InUse' : Client'[k].sockfd \in Users
      BY <1>3, <3>1 DEF SlotsInv
    <3>3. ASSUME NEW k \in InUse', NEW l \in InUse', Client'[k].sockfd = Client'[l].sockfd
          PROVE  k = l
      BY <1>5, <3>1, <3>3 DEF SlotsInv
    <3> QED  BY <3>2, <3>3
  <2>4. \A m, n \in DOMAIN backlog' : backlog'[m] = backlog'[n] => m = n
    BY <1>3 DEF SlotsInv
  <2>5. \A k \in InUse', n \in DOMAIN backlog' : Client'[k].sockfd # backlog'[n]
    BY <1>3, <1>4, <1>5 DEF SlotsInv
  <2> QED  BY <2>2, <2>3, <2>4, <2>5 DEF SlotsInv
<1>9. RoundInv'
  <2>1. Set(0)' = Set(0)
    BY <1>1, <1>4, <1>5 DEF Set
  <2>2. count > 0 /\ count = Cardinality(Set(0)) + 1
    <3>1. count > 0 /\ (i # MAX_CLIENT => count = Cardinality(Set(i)))
      BY <1>1 DEF RoundInv
    <3>2. Cardinality(Set(i)) = 0
      BY <1>1, FS_EmptySet
    <3>3. i = MAX_CLIENT
      BY <3>1, <3>2
    <3> QED  BY <1>1, <3>1, <3>3 DEF RoundInv
  <2> QED  BY <1>1, <2>1, <2>2 DEF RoundInv
<1>10. ConnectInv'
  <2>1. \A n \in DOMAIN backlog' : backlog'[n] \notin fdvar
    BY <1>3 DEF ConnectInv
  <2> QED  BY <1>1, <1>2, <1>4, <1>5, <1>6, <2>1 DEF ConnectInv, userVars
<1>11. SentInv'
  BY <1>1 DEF SentInv, userVars
<1>12. \A v \in Users \cup {Nobody} : Departed(v) => Departed(v)'
  BY <1>1, <1>6, AwayKept DEF userVars
<1>13. NamesInv'
  <2> SUFFICES ASSUME NEW k \in Slots PROVE NamesInv!(k)'
    BY DEF NamesInv
  <2>1. Client[k].uid \in Users \cup {Nobody}
    BY DEF TypeOK
  <2>2. CASE k = j
    <3>1. Departed(Client[k].uid)
      BY <1>2, <2>2 DEF NamesInv
    <3>2. Client'[k].uid = Client[k].uid
      BY <1>4, <2>2
    <3> QED  BY <1>1, <1>2, <1>12, <2>1, <2>2, <3>1, <3>2
  <2>3. CASE k # j
    <3>1. Client'[k] = Client[k] /\ (k \in InUse' <=> k \in InUse)
      BY <1>4, <2>3
    <3> QED  BY <1>1, <1>12, <2>1, <3>1 DEF NamesInv, Named, userVars
  <2> QED  BY <2>2, <2>3
<1>14. LinesInv'
  <2>1. Onward
    BY <1>1, <1>12 DEF Onward, TypeOK, userVars
  <2> QED  BY <1>1, <1>7, <2>1, LinesUntouched DEF userVars
<1> QED  BY <1>7, <1>8, <1>9, <1>10, <1>11, <1>13, <1>14

LEMMA LogInIInv ==
  ASSUME IInv, MaxOnline <= MAX_CLIENT, LogIn
  PROVE  IInv'
<1> USE DEF IInv
<1> DEFINE u == Client[id].sockfd
<1>1. server = "login" /\ Served(0) /\ UNCHANGED <<backlog, userVars, link, toClient>>
  BY DEF LogIn
<1>2. id \in InUse /\ id \in Slots /\ u \in Users /\ u \notin fdvar
  BY <1>1 DEF ConnectInv, SlotsInv, InUse
<1>3. \/ /\ toServer[u] # <<>>
         /\ Client' = [Client EXCEPT ![id].uid = u]
         /\ \E rest \in Rests(toServer[u]) : toServer' = [toServer EXCEPT ![u] = rest]
      \/ EndOfFile(u) /\ UNCHANGED <<Client, toServer>>
  BY DEF LogIn
<1> HIDE DEF u
<1>4. /\ \A k \in Slots : /\ Client'[k].sockfd = Client[k].sockfd
                          /\ Client'[k].inUse = Client[k].inUse
                          /\ k # id => Client'[k] = Client[k]
      /\ InUse' = InUse /\ Held' = Held
      /\ Client' \in [Slots -> [sockfd : Users \cup {Nobody}, inUse : BOOLEAN,
                                uid : Users \cup {Nobody}]]
  <2>1. /\ \A k \in Slots : /\ Client'[k].sockfd = Client[k].sockfd
                            /\ Client'[k].inUse = Client[k].inUse
                            /\ k # id => Client'[k] = Client[k]
        /\ Client' \in [Slots -> [sockfd : Users \cup {Nobody}, inUse : BOOLEAN,
                                  uid : Users \cup {Nobody}]]
    <3>1. CASE Client' = [Client EXCEPT ![id].uid = u]
      <4>1. Client[id] \in [sockfd : Users \cup {Nobody}, inUse : BOOLEAN, uid : Users \cup {Nobody}]
        BY <1>2 DEF TypeOK
      <4>2. /\ Client'[id] = [sockfd |-> Client[id].sockfd, inUse |-> Client[id].inUse, uid |-> u]
            /\ \A k \in Slots \ {id} : Client'[k] = Client[k]
        BY <1>2, <3>1, <4>1 DEF TypeOK
      <4>3. Client'[id] \in [sockfd : Users \cup {Nobody}, inUse : BOOLEAN, uid : Users \cup {Nobody}]
        BY <1>2, <4>1, <4>2
      <4>5. Client' \in [Slots -> [sockfd : Users \cup {Nobody}, inUse : BOOLEAN,
                                  uid : Users \cup {Nobody}]]
        BY <1>2, <3>1, <4>3 DEF TypeOK
      <4>4. \A k \in Slots : /\ Client'[k].sockfd = Client[k].sockfd
                             /\ Client'[k].inUse = Client[k].inUse
                             /\ k # id => Client'[k] = Client[k]
        BY <4>2
      <4> QED  BY <4>4, <4>5
    <3>2. CASE UNCHANGED Client
      BY <3>2 DEF TypeOK
    <3> QED  BY <1>3, <3>1, <3>2
  <2>2. InUse' = InUse
    BY <2>1 DEF InUse
  <2>3. Held' = Held
    BY <1>1, <2>1, <2>2 DEF Held, InUse
  <2> QED  BY <2>1, <2>2, <2>3
<1>5. /\ RoundInv'
      /\ server' \in {"select", "round"} /\ fdvar' \subseteq fdvar
      /\ count' \in 0 .. MAX_CLIENT + 1 /\ i' \in 0 .. MAX_CLIENT /\ id' \in Slots
  <2>1. Set(0) = {j \in InUse' : j >= 0 /\ Client'[j].sockfd \in fdvar}
    BY <1>4 DEF Set, InUse
  <2>2. count > 0 /\ count = Cardinality(Set(0)) + 1
    BY <1>1 DEF RoundInv
  <2>3. Cardinality(Set(0)) \in Nat
    <3>1. Set(0) \in SUBSET Slots
      BY DEF Set, InUse
    <3> QED  BY <3>1, SlotSets
  <2>4. count - 1 = Cardinality(Set(0)) /\ 0 \in 0 .. MAX_CLIENT
    BY <2>2, <2>3
  <2> QED  BY <1>1, <2>1, <2>2, <2>4, ServedRound
<1>6. /\ toServer' \in [Users -> Seq(0 .. MaxLines)]
      /\ SentInv'
      /\ \A x \in Users : \A n \in DOMAIN toServer'[x] :
           \E m \in DOMAIN toServer[x] : toServer'[x][n] = toServer[x][m]
      /\ \A x \in Users \ {u} : toServer'[x] = toServer[x]
      /\ \/ /\ Client' = [Client EXCEPT ![id].uid = u] /\ client[u] # "naming"
            /\ \A n \in DOMAIN toServer'[u] : toServer'[u][n] > 0
         \/ /\ UNCHANGED Client /\ client[u] = "gone" /\ toServer'[u] = <<>>
  <2>1. CASE toServer[u] # <<>> /\ Client' = [Client EXCEPT ![id].uid = u]
               /\ \E rest \in Rests(toServer[u]) : toServer' = [toServer EXCEPT ![u] = rest]
    <3>1. PICK rest \in Rests(toServer[u]) : toServer' = [toServer EXCEPT ![u] = rest]
      BY <2>1
    <3>2. /\ toServer' \in [Users -> Seq(0 .. MaxLines)]
          /\ SentInv'
          /\ \A x \in Users : \A n \in DOMAIN toServer'[x] :
               \E m \in DOMAIN toServer[x] : toServer'[x][n] = toServer[x][m]
          /\ Head(toServer[u]) = toServer[u][1] /\ 1 \in DOMAIN toServer[u]
          /\ \A n \in DOMAIN toServer'[u] : toServer'[u][n] > Head(toServer[u])
          /\ client[u] \notin {"idle", "naming"}
      BY <1>1, <1>2, <2>1, <3>1, Received DEF userVars
    <3>3. Head(toServer[u]) \in 0 .. MaxLines
      BY <1>2, <2>1, HeadTailProperties DEF TypeOK
    <3>4. \A n \in DOMAIN toServer'[u] : toServer'[u][n] \in Int
      <4>1. toServer'[u] \in Seq(0 .. MaxLines)
        BY <1>2, <3>2
      <4> QED  BY <4>1, LenProperties, ElementOfSeq
    <3>5. \A n \in DOMAIN toServer'[u] : toServer'[u][n] > 0
      BY <3>2, <3>3, <3>4
    <3>6. \A x \in Users \ {u} : toServer'[x] = toServer[x]
      BY <3>1 DEF TypeOK
    <3> QED  BY <2>1, <3>2, <3>5, <3>6
  <2>2. CASE EndOfFile(u) /\ UNCHANGED <<Client, toServer>>
    BY <1>1, <1>2, <2>2 DEF EndOfFile, SentInv, TypeOK, userVars
  <2> QED  BY <1>3, <2>1, <2>2
<1>7. TypeOK'
  BY <1>1, <1>4, <1>5, <1>6 DEF TypeOK, userVars
<1>8. SlotsInv'
  <2>1. (Online \cup Held)' \subseteq Online \cup Held
    BY <1>1, <1>4 DEF Online, userVars
  <2>2. IsFiniteSet(Online \cup Held)' /\ (Cardinality(Online \cup Held) <= MaxOnline)'
    BY <2>1, CountKept
  <2> QED  BY <1>1, <1>4, <2>2 DEF SlotsInv, InUse
<1>9. ConnectInv'
  BY <1>1, <1>4, <1>5 DEF ConnectInv, userVars
<1>10. \A v \in Users \cup {Nobody} : Departed(v) => Departed(v)'
  BY <1>1, <1>4, AwayKept DEF userVars
<1>11. NamesInv'
  <2> SUFFICES ASSUME NEW k \in Slots PROVE NamesInv!(k)'
    BY DEF NamesInv
  <2>1. Client[k].uid \in Users \cup {Nobody}
    BY DEF TypeOK
  <2>2. CASE k = id
    <3>1. CASE /\ Client' = [Client EXCEPT ![id].uid = u] /\ client[u] # "naming"
               /\ \A n \in DOMAIN toServer'[u] : toServer'[u][n] > 0
      <4>1. Client'[k].uid = u /\ Client'[k].sockfd = u
        BY <1>2, <2>2, <3>1 DEF TypeOK, u
      <4> QED  BY <1>1, <1>2, <1>4, <2>2, <3>1, <4>1 DEF Named, userVars
    <3>2. CASE UNCHANGED Client /\ client[u] = "gone" /\ toServer'[u] = <<>>
      <4>1. Client'[k].sockfd = u /\ client'[u] = "gone"
        BY <1>1, <2>2, <3>2 DEF u, userVars
      <4>2. Named(k)' \/ Departed(Client[k].uid)'
        <5>1. CASE Named(k)
          BY <1>1, <2>2, <3>2, <4>1, <5>1, EmptySeq DEF Named, userVars
        <5>2. CASE Departed(Client[k].uid)
          BY <1>10, <2>1, <5>2, <3>2 DEF Departed
        <5> QED  BY <5>1, <5>2 DEF NamesInv
      <4> QED  BY <1>2, <1>4, <2>2, <3>2, <4>1, <4>2
    <3> QED  BY <1>6, <3>1, <3>2
  <2>3. CASE k # id
    <3>1. Client'[k] = Client[k] /\ (k \in InUse' <=> k \in InUse)
      BY <1>4, <2>3
    <3>2. k \in InUse => Client[k].sockfd \in Users \ {u}
      BY <1>2, <2>3 DEF SlotsInv, u
    <3>3. k \in InUse => toServer'[Client[k].sockfd] = toServer[Client[k].sockfd]
      BY <1>6, <3>2
    <3>4. client' = client
      BY <1>1 DEF userVars
    <3> QED  BY <1>10, <2>1, <2>3, <3>1, <3>3, <3>4 DEF NamesInv, Named
  <2> QED  BY <2>2, <2>3
<1>12. LinesInv'
  <2>1. Onward
    BY <1>1, <1>6, <1>10 DEF Onward, TypeOK, userVars
  <2> QED  BY <1>1, <1>7, <2>1, LinesUntouched DEF userVars
<1> QED  BY <1>5, <1>6, <1>7, <1>8, <1>9, <1>11, <1>12

(* What a relay leaves in the sockets of the others. *)
LEMMA RelayEffect ==
  ASSUME TypeOK, NEW j, NEW v \in Users \cup {Nobody}, NEW k \in 1 .. LogOut,
         SendToOtherClients(j, Line(v, k))
  PROVE  /\ toClient' \in [Users -> Seq(Lines)]
         /\ link' \in [Users -> {"open", "fin", "broken", "reset"}]
         /\ \A u \in Users : link'[u] # "open" => link[u] # "open"
<1>1. Line(v, k) \in Lines
  BY DEF Line, Lines
<1>2. \A u \in Users : Append(toClient[u], Line(v, k)) \in Seq(Lines) /\ toClient[u] \in Seq(Lines)
  BY <1>1, AppendProperties DEF TypeOK
<1>3. toClient' \in [Users -> Seq(Lines)]
  BY <1>2 DEF SendToOtherClients
<1>4. PICK refused \in SUBSET {u \in Reached(j) : link[u] = "fin"} :
        link' = [u \in Users |-> IF u \in refused THEN "broken" ELSE link[u]]
  BY DEF SendToOtherClients
<1>5. link' \in [Users -> {"open", "fin", "broken", "reset"}]
  BY <1>4 DEF TypeOK
<1>6. \A u \in Users : link'[u] # "open" => link[u] # "open"
  BY <1>4
<1> QED  BY <1>3, <1>5, <1>6

(* The slot the loop has come to, and what its for loop has ahead then. *)
LEMMA Turn ==
  ASSUME IInv, NEW j \in Slots, server = "round", Set(i) # {}, j = Min(Set(i))
  PROVE  /\ j \in InUse /\ Client[j].sockfd \in Users /\ j \in Set(i)
         /\ j + 1 \in 0 .. MAX_CLIENT /\ count > 0
         /\ count - 1 = Cardinality(Set(i) \ {j})
         /\ Set(i) \ {j} = {l \in InUse : l >= j + 1 /\ Client[l].sockfd \in fdvar}
<1> USE DEF IInv
<1>1. Set(i) \in SUBSET Slots /\ Set(i) \in SUBSET Nat
  BY DEF Set, InUse, Slots
<1>2. j \in Set(i) /\ \A l \in Set(i) : j <= l
  BY <1>1, Least
<1>3. j \in InUse /\ Client[j].sockfd \in Users /\ i # MAX_CLIENT
  BY <1>2 DEF Set, SlotsInv, InUse, Slots
<1>4. count > 0 /\ count = Cardinality(Set(i))
  BY <1>3 DEF RoundInv
<1>5. IsFiniteSet(Set(i))
  BY <1>1, SlotSets
<1>6. Cardinality(Set(i) \ {j}) = Cardinality(Set(i)) - 1
  BY <1>2, <1>5, FS_RemoveElement
<1>7. i \in Int /\ j \in Int /\ j >= i /\ \A l \in InUse : l \in Int
  BY <1>2 DEF Set, TypeOK, InUse, Slots
<1>8. Set(i) \ {j} = {l \in InUse : l >= j + 1 /\ Client[l].sockfd \in fdvar}
  <2>1. ASSUME NEW l \in InUse
        PROVE  l \in Set(i) \ {j} <=> l >= j + 1 /\ Client[l].sockfd \in fdvar
    <3>1. l \in Int /\ (l \in Set(i) <=> l >= i /\ Client[l].sockfd \in fdvar)
      BY <1>7 DEF Set
    <3>2. l \in Set(i) => j <= l
      BY <1>2
    <3> QED  BY <1>7, <3>1, <3>2
  <2>2. Set(i) \subseteq InUse
    BY DEF Set
  <2> QED  BY <2>1, <2>2
<1>9. j + 1 \in 0 .. MAX_CLIENT
  BY DEF Slots
<1> QED  BY <1>2, <1>3, <1>4, <1>6, <1>8, <1>9

(* Whether the server lives or dies of the relay, the slots, the round and *)
(* the names are in order afterwards.                                      *)
LEMMA AfterRelay ==
  ASSUME IInv, MaxOnline <= MAX_CLIENT, NEW j \in Slots,
         server = "round", Set(i) # {}, j = Min(Set(i)), UNCHANGED <<client, typed, shown>>,
         \A u \in Users \ {Client[j].sockfd} : toServer'[u] = toServer[u],
         \/ /\ Served(j + 1) /\ UNCHANGED <<Client, backlog>>
            /\ \A n \in DOMAIN toServer'[Client[j].sockfd] :
                 \E m \in DOMAIN toServer[Client[j].sockfd] :
                   toServer'[Client[j].sockfd][n] = toServer[Client[j].sockfd][m]
            /\ toServer[Client[j].sockfd] # <<>>
         \/ /\ Served(j + 1) /\ Free(j) /\ UNCHANGED backlog
            /\ client[Client[j].sockfd] = "gone"
         \/ Exit("died")
  PROVE  /\ SlotsInv' /\ RoundInv' /\ ConnectInv' /\ NamesInv'
         /\ \A v \in Users \cup {Nobody} : Departed(v) => Departed(v)'
         /\ server' \in {"select", "round", "died"}
         /\ Client' \in [Slots -> [sockfd : Users \cup {Nobody}, inUse : BOOLEAN,
                                   uid : Users \cup {Nobody}]]
         /\ backlog' \in Seq(Users) /\ fdvar' \subseteq Users \cup {Sockfd}
         /\ count' \in 0 .. MAX_CLIENT + 1 /\ i' \in 0 .. MAX_CLIENT /\ id' \in Slots
         /\ ~ UNCHANGED Client => Client[j].sockfd \notin Held'
<1> USE DEF IInv
<1> DEFINE w == Client[j].sockfd
<1>0. /\ j \in InUse /\ w \in Users /\ j \in Set(i)
      /\ j + 1 \in 0 .. MAX_CLIENT /\ count > 0
      /\ count - 1 = Cardinality(Set(i) \ {j})
      /\ Set(i) \ {j} = {l \in InUse : l >= j + 1 /\ Client[l].sockfd \in fdvar}
  BY Turn
<1>1. ASSUME Exit("died")
      PROVE  /\ SlotsInv' /\ RoundInv' /\ ConnectInv' /\ NamesInv'
             /\ \A v \in Users \cup {Nobody} : Departed(v) => Departed(v)'
             /\ server' = "died"
             /\ Client' \in [Slots -> [sockfd : Users \cup {Nobody}, inUse : BOOLEAN,
                                       uid : Users \cup {Nobody}]]
             /\ backlog' = <<>> /\ fdvar' = {} /\ count' = 0 /\ i' = MAX_CLIENT /\ id' = 0
             /\ Held' = {}
  <2>1. InUse' = {}
    BY <1>1 DEF InUse, Unused, Exit
  <2>2. Held' = {}
    BY <1>1, <2>1, EmptySeq DEF Held, Exit
  <2> QED  BY <1>1, <2>2, Ended
<1>2. CASE Exit("died")
  BY <1>1, <1>2, EmptySeq DEF Slots
<1>3. ASSUME Served(j + 1), UNCHANGED backlog,
             \/ UNCHANGED Client /\ InUse' = InUse
             \/ /\ InUse' = InUse \ {j} /\ client[w] = "gone"
                /\ \A l \in Slots \ {j} : Client'[l] = Client[l]
                /\ Client'[j].uid = Client[j].uid,
             Client' \in [Slots -> [sockfd : Users \cup {Nobody}, inUse : BOOLEAN,
                                    uid : Users \cup {Nobody}]],
             UNCHANGED Client => /\ toServer[w] # <<>>
                                 /\ \A n \in DOMAIN toServer'[w] : \E m \in DOMAIN toServer[w] :
                                      toServer'[w][n] = toServer[w][m]
      PROVE  /\ SlotsInv' /\ RoundInv' /\ ConnectInv' /\ NamesInv'
             /\ \A v \in Users \cup {Nobody} : Departed(v) => Departed(v)'
             /\ server' \in {"select", "round"} /\ fdvar' \subseteq fdvar
             /\ count' \in 0 .. MAX_CLIENT + 1 /\ i' \in 0 .. MAX_CLIENT /\ id' \in Slots
             /\ ~ UNCHANGED Client => w \notin Held'
  <2>1. /\ InUse' \subseteq InUse /\ InUse \subseteq Slots
        /\ \A l \in InUse' : Client'[l] = Client[l]
    BY <1>3 DEF InUse
  <2>2. Held' \subseteq Held
    BY <1>3, <2>1 DEF Held
  <2>3. Set(i) \ {j} = {l \in InUse' : l >= j + 1 /\ Client'[l].sockfd \in fdvar}
    <3>1. \A l \in InUse : l >= j + 1 => l # j
      BY DEF Slots
    <3> QED  BY <1>0, <1>3, <2>1, <3>1
  <2>4. /\ RoundInv'
        /\ server' \in {"select", "round"} /\ fdvar' \subseteq fdvar
        /\ count' \in 0 .. MAX_CLIENT + 1 /\ i' \in 0 .. MAX_CLIENT /\ id' \in Slots
    BY <1>0, <1>3, <2>3, ServedRound
  <2>5. SlotsInv'
    <3>1. (Online \cup Held)' \subseteq Online \cup Held
      BY <2>2 DEF Online
    <3>2. IsFiniteSet(Online \cup Held)' /\ (Cardinality(Online \cup Held) <= MaxOnline)'
      BY <3>1, CountKept
    <3> QED  BY <1>3, <2>1, <3>2 DEF SlotsInv
  <2>6. ConnectInv'
    BY <1>3, <2>2, <2>4 DEF ConnectInv
  <2>7. \A v \in Users \cup {Nobody} : Departed(v) => Departed(v)'
    BY <2>2, AwayKept
  <2>8. ~ UNCHANGED Client => w \notin Held'
    <3> SUFFICES ASSUME ~ UNCHANGED Client, w \in Held' PROVE FALSE
      OBVIOUS
    <3>1. \/ \E n \in DOMAIN backlog : w = backlog[n]
          \/ \E l \in InUse \ {j} : w = Client[l].sockfd
      BY <1>3, <2>1 DEF Held
    <3> QED  BY <1>0, <3>1 DEF SlotsInv
  <2>9. NamesInv'
    <3> SUFFICES ASSUME NEW l \in Slots PROVE NamesInv!(l)'
      BY DEF NamesInv
    <3>1. Client[l].uid \in Users \cup {Nobody} /\ Client'[l].uid = Client[l].uid
      BY <1>3 DEF TypeOK
    <3>2. CASE l # j
      <4>1. Client'[l] = Client[l] /\ (l \in InUse' <=> l \in InUse)
        BY <1>3, <3>2
      <4>2. l \in InUse => Client[l].sockfd \in Users \ {w}
        BY <1>0, <3>2 DEF SlotsInv
      <4>3. l \in InUse => toServer'[Client[l].sockfd] = toServer[Client[l].sockfd]
        BY <4>2
      <4> QED  BY <2>7, <3>1, <4>1, <4>3 DEF NamesInv, Named
    <3>3. CASE l = j /\ UNCHANGED Client
      <4>1. Named(j)
        BY <1>0, <1>3, <3>3 DEF NamesInv
      <4>2. InUse' = InUse
        BY <3>3, SameSlots
      <4> QED  BY <1>0, <1>3, <3>3, <4>1, <4>2 DEF Named
    <3>4. CASE l = j /\ ~ UNCHANGED Client
      <4>1. j \notin InUse' /\ client[w] = "gone"
        BY <1>3, <3>4
      <4>2. Departed(Client[j].uid)'
        <5>1. CASE Named(j)
          BY <1>3, <2>8, <3>1, <3>4, <4>1, <5>1 DEF Named, Departed
        <5>2. CASE Departed(Client[j].uid)
          BY <2>7, <3>1, <3>4, <5>2 DEF Departed
        <5> QED  BY <5>1, <5>2 DEF NamesInv
      <4> QED  BY <3>1, <3>4, <4>1, <4>2 DEF Departed
    <3> QED  BY <3>2, <3>3, <3>4
  <2> QED  BY <2>4, <2>5, <2>6, <2>7, <2>8, <2>9
<1>4. CASE /\ Served(j + 1) /\ UNCHANGED <<Client, backlog>>
           /\ \A n \in DOMAIN toServer'[w] : \E m \in DOMAIN toServer[w] :
                toServer'[w][n] = toServer[w][m]
           /\ toServer[w] # <<>>
  <2>1. InUse' = InUse
    BY <1>4, SameSlots
  <2> QED  BY <1>3, <1>4, <2>1 DEF TypeOK
<1>5. CASE Served(j + 1) /\ Free(j) /\ UNCHANGED backlog /\ client[w] = "gone"
  <2>1. Client[j] \in [sockfd : Users \cup {Nobody}, inUse : BOOLEAN, uid : Users \cup {Nobody}]
    BY DEF TypeOK
  <2>2. /\ Client'[j] = [sockfd |-> Client[j].sockfd, inUse |-> FALSE, uid |-> Client[j].uid]
        /\ \A l \in Slots \ {j} : Client'[l] = Client[l]
    BY <1>5, <2>1 DEF TypeOK, Free
  <2>3. Client'[j] \in [sockfd : Users \cup {Nobody}, inUse : BOOLEAN, uid : Users \cup {Nobody}]
    BY <2>1, <2>2
  <2>4. Client' \in [Slots -> [sockfd : Users \cup {Nobody}, inUse : BOOLEAN,
                               uid : Users \cup {Nobody}]]
    BY <1>5, <2>3 DEF TypeOK, Free
  <2>5. InUse' = InUse \ {j}
    BY <2>2 DEF InUse
  <2>6. ~ UNCHANGED Client
    BY <1>0, <2>5 DEF InUse
  <2>7. /\ SlotsInv' /\ RoundInv' /\ ConnectInv' /\ NamesInv'
        /\ \A v \in Users \cup {Nobody} : Departed(v) => Departed(v)'
        /\ server' \in {"select", "round"} /\ fdvar' \subseteq fdvar
        /\ count' \in 0 .. MAX_CLIENT + 1 /\ i' \in 0 .. MAX_CLIENT /\ id' \in Slots
        /\ ~ UNCHANGED Client => w \notin Held'
    <3>1. Client'[j].uid = Client[j].uid
      BY <2>2
    <3>2. \A l \in Slots \ {j} : Client'[l] = Client[l]
      BY <2>2
    <3> HIDE DEF w
    <3> QED  BY <1>3, <1>5, <2>4, <2>5, <2>6, <3>1, <3>2
  <2> QED  BY <1>5, <2>4, <2>7 DEF TypeOK
<1> QED  BY <1>2, <1>4, <1>5

(* A line that was read is the next of a user the server knows by name. *)
LEMMA LineIsNext ==
  ASSUME IInv, NEW j \in InUse, server = "round", toServer[Client[j].sockfd] # <<>>
  PROVE  LET w == Client[j].sockfd
             k == Head(toServer[w])
         IN /\ w \in Users /\ Client[j].uid = w /\ k \in 1 .. MaxLines /\ k <= typed[w]
            /\ w \notin Reached(j)
            /\ \A u \in Users : \A m \in DOMAIN Transmitted(u) :
                 Transmitted(u)[m].uid = w => Transmitted(u)[m].line < k
<1> USE DEF IInv
<1> DEFINE w == Client[j].sockfd
           k == Head(toServer[w])
<1>1. w \in Users /\ w \in Held /\ j \in Slots
  BY HeldBy DEF SlotsInv, InUse
<1>2. toServer[w] \in Seq(0 .. MaxLines)
  BY <1>1 DEF TypeOK
<1>3. k \in 0 .. MaxLines /\ k = toServer[w][1] /\ 1 \in DOMAIN toServer[w]
  BY <1>2, HeadTailProperties, EmptySeq, LenProperties
<1>4. Named(j)
  BY <1>1 DEF NamesInv
<1>5. Client[j].uid = w /\ k > 0 /\ k <= typed[w]
  BY <1>1, <1>3, <1>4 DEF Named, SentInv
<1>6. w \notin Reached(j)
  BY DEF Reached, Others, SlotsInv
<1>7. ASSUME NEW u \in Users, NEW m \in DOMAIN Transmitted(u), Transmitted(u)[m].uid = w
      PROVE  Transmitted(u)[m].line < k
  <2>1. LineOK(u, m)
    BY <1>7, LinesAreOK
  <2> DEFINE l == Transmitted(u)[m].line
  <2>2. l # LogOut
    BY <1>1, <1>7, <2>1 DEF LineOK, Departed
  <2>3. l < toServer[w][1]
    BY <1>3, <1>7, <2>1, <2>2 DEF LineOK
  <2> QED  BY <1>3, <2>3
<1>8. k \in 1 .. MaxLines
  <2> HIDE DEF k
  <2> QED  BY <1>3, <1>5
<1> QED  BY <1>1, <1>5, <1>6, <1>7, <1>8

LEMMA ProcessClientIInv ==
  ASSUME IInv, MaxOnline <= MAX_CLIENT, NEW j \in Slots, ProcessClient(j)
  PROVE  IInv'
<1> USE DEF IInv
<1> DEFINE w == Client[j].sockfd
           v == Client[j].uid
<1>1. /\ server = "round" /\ Set(i) # {} /\ j = Min(Set(i))
      /\ UNCHANGED <<client, typed, shown>>
  BY DEF ProcessClient, userVars
<1>2. j \in InUse /\ w \in Users /\ v \in Users \cup {Nobody}
  BY <1>1, Turn DEF TypeOK
<1>3. CASE /\ toServer[w] # <<>>
           /\ \E rest \in Rests(toServer[w]) : toServer' = [toServer EXCEPT ![w] = rest]
           /\ SendToOtherClients(j, Line(v, Head(toServer[w])))
           /\ IF Failing(j) = {} THEN Served(j + 1) /\ UNCHANGED <<Client, backlog>>
              ELSE Exit("died")
  <2> DEFINE k == Head(toServer[w])
  <2>1. /\ v = w /\ k \in 1 .. MaxLines /\ k <= typed[w] /\ w \notin Reached(j)
        /\ \A u \in Users : \A m \in DOMAIN Transmitted(u) :
             Transmitted(u)[m].uid = w => Transmitted(u)[m].line < k
    BY <1>1, <1>2, <1>3, LineIsNext
  <2>2. SendToOtherClients(j, Line(v, k))
    BY <1>3
  <2>3. k \in 1 .. LogOut /\ k # LogOut
    <3> HIDE DEF k
    <3> QED  BY <2>1 DEF LogOut
  <2>4. /\ toClient' \in [Users -> Seq(Lines)]
        /\ link' \in [Users -> {"open", "fin", "broken", "reset"}]
        /\ \A u \in Users : link'[u] # "open" => link[u] # "open"
    <3> HIDE DEF k, v
    <3> QED  BY <1>2, <2>2, <2>3, RelayEffect
  <2>5. PICK rest \in Rests(toServer[w]) : toServer' = [toServer EXCEPT ![w] = rest]
    BY <1>3
  <2>6. /\ toServer' \in [Users -> Seq(0 .. MaxLines)]
        /\ SentInv'
        /\ \A u \in Users : \A n \in DOMAIN toServer'[u] :
             \E m \in DOMAIN toServer[u] : toServer'[u][n] = toServer[u][m]
        /\ \A n \in DOMAIN toServer'[w] : toServer'[w][n] > k
    <3> HIDE DEF w
    <3> QED  BY <1>1, <1>2, <1>3, <2>4, <2>5, Received
  <2>7. \A u \in Users \ {w} : toServer'[u] = toServer[u]
    BY <2>5 DEF TypeOK
  <2>8. /\ SlotsInv' /\ RoundInv' /\ ConnectInv' /\ NamesInv'
        /\ \A x \in Users \cup {Nobody} : Departed(x) => Departed(x)'
        /\ server' \in {"select", "round", "died"}
        /\ Client' \in [Slots -> [sockfd : Users \cup {Nobody}, inUse : BOOLEAN,
                                  uid : Users \cup {Nobody}]]
        /\ backlog' \in Seq(Users) /\ fdvar' \subseteq Users \cup {Sockfd}
        /\ count' \in 0 .. MAX_CLIENT + 1 /\ i' \in 0 .. MAX_CLIENT /\ id' \in Slots
    BY <1>1, <1>2, <1>3, <2>6, <2>7, AfterRelay
  <2>9. TypeOK'
    BY <1>1, <2>4, <2>6, <2>8 DEF TypeOK
  <2>10. Onward
    BY <1>1, <2>6, <2>8 DEF Onward, TypeOK
  <2>11. \A n \in DOMAIN toServer'[w] : k < toServer'[w][n]
    <3>1. toServer'[w] \in Seq(0 .. MaxLines)
      BY <1>2, <2>6
    <3>2. \A n \in DOMAIN toServer'[w] : toServer'[w][n] \in Int
      BY <3>1, LenProperties, ElementOfSeq
    <3> HIDE DEF k, w
    <3> QED  BY <2>1, <2>6, <3>2
  <2>12. LinesInv'
    <3> HIDE DEF k, w, v
    <3> QED  BY <1>1, <1>2, <2>1, <2>2, <2>3, <2>9, <2>10, <2>11, LinesRelayed
  <2> QED  BY <2>6, <2>8, <2>9, <2>12
<1>4. CASE /\ EndOfFile(w)
           /\ SendToOtherClients(j, Line(v, LogOut))
           /\ IF Failing(j) = {} THEN Served(j + 1) /\ Free(j) /\ UNCHANGED backlog
              ELSE Exit("died")
           /\ UNCHANGED toServer
  <2>1. client[w] = "gone"
    BY <1>2, <1>4 DEF EndOfFile, SentInv
  <2>2. LogOut \in 1 .. LogOut
    BY DEF LogOut
  <2>3. /\ toClient' \in [Users -> Seq(Lines)]
        /\ link' \in [Users -> {"open", "fin", "broken", "reset"}]
        /\ \A u \in Users : link'[u] # "open" => link[u] # "open"
    BY <1>2, <1>4, <2>2, RelayEffect
  <2>4. /\ SlotsInv' /\ RoundInv' /\ ConnectInv' /\ NamesInv'
        /\ \A x \in Users \cup {Nobody} : Departed(x) => Departed(x)'
        /\ server' \in {"select", "round", "died"}
        /\ Client' \in [Slots -> [sockfd : Users \cup {Nobody}, inUse : BOOLEAN,
                                  uid : Users \cup {Nobody}]]
        /\ backlog' \in Seq(Users) /\ fdvar' \subseteq Users \cup {Sockfd}
        /\ count' \in 0 .. MAX_CLIENT + 1 /\ i' \in 0 .. MAX_CLIENT /\ id' \in Slots
        /\ ~ UNCHANGED Client => w \notin Held'
    BY <1>1, <1>2, <1>4, <2>1, AfterRelay
  <2>5. TypeOK'
    BY <1>1, <1>4, <2>3, <2>4 DEF TypeOK
  <2>6. SentInv'
    BY <1>1, <1>4, <2>3 DEF SentInv
  <2>7. ~ UNCHANGED Client
    <3>1. j \in Slots /\ Client[j].inUse
      BY <1>2 DEF InUse
    <3>2. ~ Client'[j].inUse
      BY <1>4 DEF TypeOK, Free, Exit, Unused
    <3> QED  BY <3>1, <3>2
  <2>8. PICK x \in Users \cup {Nobody}, y \in Users : x = v /\ y = w
    BY <1>2
  <2>9. x \notin Reached(j) /\ Departed(x)'
    <3>1. \A z \in Reached(j) : z \in Held /\ z # y
      BY <1>2, <2>8, HeldBy DEF Reached, Others, SlotsInv
    <3>2. y \notin Held' /\ client'[y] = "gone"
      BY <1>1, <2>1, <2>4, <2>7, <2>8
    <3>3. CASE Named(j)
      <4>1. x = y
        BY <2>8, <3>3 DEF Named
      <4> HIDE DEF v, w
      <4> QED  BY <3>1, <3>2, <4>1 DEF Departed
    <3>4. CASE Departed(v)
      <4>1. Departed(x)
        BY <2>8, <3>4 DEF Departed
      <4>2. Departed(x)'
        BY <2>4, <4>1
      <4>3. x \notin Reached(j)
        <5>1. \A z \in Reached(j) : z \in Users
          BY <1>2 DEF Reached, Others, SlotsInv
        <5> QED  BY <3>1, <4>1, <5>1 DEF Departed
      <4> QED  BY <4>2, <4>3
    <3> QED  BY <3>3, <3>4 DEF NamesInv
  <2>10. Onward
    <3>1. UNCHANGED <<typed, toServer>>
      BY <1>1, <1>4
    <3>2. \A z \in Users : typed[z] <= typed'[z]
      BY <3>1 DEF TypeOK
    <3> QED  BY <2>4, <3>1, <3>2 DEF Onward
  <2>11. SendToOtherClients(j, Line(x, LogOut))
    BY <1>4, <2>8
  <2>12. LinesInv'
    <3> HIDE DEF v, w
    <3> QED  BY <1>1, <2>2, <2>5, <2>9, <2>10, <2>11, LinesRelayed
  <2> QED  BY <2>4, <2>5, <2>6, <2>12
<1> QED  BY <1>3, <1>4 DEF ProcessClient

----------------------------------------------------------------------------
LEMMA InitIInv == Init => IInv
<1> SUFFICES ASSUME Init PROVE IInv
  OBVIOUS
<1> USE DEF Init
<1>1. InUse = {} /\ DOMAIN backlog = {}
  BY EmptySeq DEF InUse, Unused
<1>2. Held = {} /\ Online = {}
  BY <1>1 DEF Held, Online
<1>3. TypeOK
  <2>1. Client \in [Slots -> [sockfd : Users \cup {Nobody}, inUse : BOOLEAN,
                              uid : Users \cup {Nobody}]]
    BY DEF Unused
  <2>2. i \in 0 .. MAX_CLIENT /\ id \in Slots /\ count \in 0 .. MAX_CLIENT + 1
    BY DEF Slots
  <2> QED  BY <2>1, <2>2, EmptySeq DEF TypeOK
<1>4. SlotsInv
  <2>1. Online \cup Held = {}
    BY <1>2
  <2>2. IsFiniteSet(Online \cup Held) /\ Cardinality(Online \cup Held) = 0
    <3>1. IsFiniteSet({}) /\ Cardinality({}) = 0
      BY FS_EmptySet
    <3> QED  BY <2>1, <3>1, Zenon
  <2>3. Cardinality(Online \cup Held) <= MaxOnline
    BY <2>2
  <2> QED  BY <1>1, <2>2, <2>3 DEF SlotsInv
<1>5. RoundInv
  BY DEF RoundInv
<1>6. ConnectInv
  BY <1>1, <1>2 DEF ConnectInv
<1>7. SentInv
  BY EmptySeq DEF SentInv
<1>8. NamesInv
  <2>1. \A j \in Slots : Client[j].uid = Nobody
    BY DEF Unused
  <2> QED  BY <1>1, <2>1 DEF NamesInv, Departed
<1>9. LinesInv
  <2>1. \A u \in Users : DOMAIN Transmitted(u) = {}
    BY <1>3, TransmittedIs, EmptySeq
  <2> QED  BY <2>1 DEF LinesInv
<1> QED  BY <1>3, <1>4, <1>5, <1>6, <1>7, <1>8, <1>9 DEF IInv

LEMMA NextIInv == MaxOnline <= MAX_CLIENT /\ IInv /\ [Next]_vars => IInv'
<1> SUFFICES ASSUME MaxOnline <= MAX_CLIENT, IInv, [Next]_vars PROVE IInv'
  OBVIOUS
<1>1. CASE UNCHANGED vars
  <2> USE DEF IInv
  <2>1. UNCHANGED <<serverVars, userVars, backlog, link, toServer, toClient>>
    BY <1>1 DEF vars
  <2>2. UNCHANGED <<client, typed, shown>>
    BY <2>1 DEF userVars
  <2>3. TypeOK'
    BY <2>1, <2>2 DEF TypeOK, serverVars
  <2>4. /\ SlotsInv' /\ RoundInv' /\ ConnectInv'
        /\ \A v \in Users \cup {Nobody} : Departed(v) => Departed(v)'
    BY <2>1, <2>2, StepInPlace DEF TypeOK
  <2>5. SentInv'
    BY <2>1, <2>2 DEF SentInv
  <2>6. NamesInv'
    BY <2>1, <2>2, <2>4, NamesKept DEF serverVars
  <2>7. Onward
    BY <2>1, <2>2, <2>4 DEF Onward, TypeOK
  <2>8. LinesInv'
    BY <2>1, <2>2, <2>3, <2>7, LinesUntouched
  <2> QED  BY <2>3, <2>4, <2>5, <2>6, <2>8
<1>2. CASE Server
  BY <1>2, SelectIInv, AcceptIInv, LogInIInv, ProcessClientIInv, ExitIInv DEF Server
<1>3. CASE CloseServer
  BY <1>3, ExitIInv
<1>4. ASSUME NEW u \in Users, Connect(u) \/ KeyboardInput(u) \/ ReadServer(u) \/ CloseClient(u)
      PROVE  IInv'
  BY <1>4, ConnectIInv, TypeIDIInv, TypeLineIInv, ServerInputIInv, ServerTerminatedIInv,
     CloseClientIInv DEF KeyboardInput, ReadServer
<1> QED  BY <1>1, <1>2, <1>3, <1>4 DEF Next

----------------------------------------------------------------------------
(* For any number of users, slots and lines, as long as no more users are  *)
(* connected than there are slots: the count of the select loop is the     *)
(* number of sockets still to be served, no connection is in two slots,    *)
(* accept never blocks, and every slot bears the name of its user or of    *)
(* one who has left.                                                       *)
THEOREM Invariance ==
  ASSUME MaxOnline <= MAX_CLIENT
  PROVE  Spec => []IInv
<1>1. MaxOnline <= MAX_CLIENT
  OBVIOUS
<1>2. IInv /\ [Next]_vars => IInv'
  BY <1>1, NextIInv
<1> QED  BY InitIInv, <1>2, PTL DEF Spec

(* What a screen shows was typed by the user it names, is shown once and   *)
(* in the order typed, never to its author and never after its author's    *)
(* log-out, whatever TCP joins and whoever leaves when.                    *)
THEOREM ScreensAreTrue ==
  ASSUME MaxOnline <= MAX_CLIENT
  PROVE  Spec => []Transcript
<1>1. IInv => Transcript
  <2> SUFFICES ASSUME LinesInv PROVE Transcript
    BY DEF IInv
  <2> QED  BY DEF LinesInv, Transcript, Departed
<1>2. Spec => []IInv
  BY Invariance
<1> QED  BY <1>1, <1>2, PTL

=============================================================================
