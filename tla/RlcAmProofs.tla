------------------------------ MODULE RlcAmProofs ------------------------------
(***************************************************************************)
(* What holds of the acknowledged bearer of RlcAm for every modulus and    *)
(* window, every stream of SDUs, every grant and every number of losses.   *)
(*                                                                         *)
(* RlcAmInvariant is the inductive invariant.  Its parts are:              *)
(*   WindowsInv  the state variables of both entities follow one another;  *)
(*   EntriesInv  what the receiver holds is between VR(R) and VR(H);       *)
(*   BuffersInv  the sender still has what the receiver has not;           *)
(*   StatusInv   what each STATUS PDU on its way says was true, and is     *)
(*               still true of what it acknowledges;                       *)
(*   TimersInv, PursuitInv  what makes the sender go on;                   *)
(*   StreamInv   a PDU stands for one stretch of the stream of SDUs,       *)
(*               wherever there is a copy of it.                           *)
(* Each action has a lemma that it keeps all of them.  From them follow    *)
(* the safety properties of RlcAm, and that the bearer implements          *)
(* OrderedChannel.                                                         *)
(*                                                                         *)
(* Two hypotheses say what the MAC under a bearer must grant.              *)
(* statusInOrder: a STATUS PDU does not overtake another (the code takes   *)
(* an ACK_SN that is behind VT(A) for one far ahead, lte-rlc-am.cc         *)
(* 2164-2180).  NoStaleCopies: no copy of an old PDU is left when its      *)
(* number is used again (the receiver cannot tell the two apart).  Both    *)
(* hold in the instance that TLC checks.                                   *)
(***************************************************************************)
EXTENDS RlcAm, DataLemmas

--------------------------------------------------------------------------------
(* Sequence numbers.  From is a distance on a circle.                      *)

(* At most half of the numbers are in a window.                            *)
LEMMA Sizes ==
  /\ Modulus \in Nat /\ WindowSize \in Nat
  /\ 1 <= WindowSize /\ 2 * WindowSize <= Modulus
BY RlcAmAssumption

(* The distance of b from a.                                               *)
LEMMA FromIs ==
  \A a, b \in Sn : From(a, b) \in Sn /\ From(a, b) = IF a <= b THEN b - a ELSE b - a + Modulus
BY Sizes DEF From, Sn

(* A number n steps further, and the one before.                           *)
LEMMA PlusIs ==
  /\ \A a, n \in Sn : /\ Plus(a, n) \in Sn
                      /\ Plus(a, n) = IF a + n < Modulus THEN a + n ELSE a + n - Modulus
  /\ \A a \in Sn : Plus(a, -1) \in Sn /\ Plus(a, -1) = IF a = 0 THEN Modulus - 1 ELSE a - 1
BY Sizes DEF Plus, Sn

(* The numbers are an interval that starts at 0.                           *)
LEMMA SnIs == \A n : n \in Sn <=> n \in Int /\ 0 <= n /\ n < Modulus
BY Sizes DEF Sn

(* The size of the window is a distance too.                               *)
LEMMA WindowIsSn == WindowSize \in Sn /\ 1 \in Sn /\ 0 \in Sn
BY Sizes DEF Sn

(* Distance and sum undo each other.                                       *)
LEMMA FromPlus ==
  /\ \A a, n \in Sn : From(a, Plus(a, n)) = n
  /\ \A a, b \in Sn : Plus(a, From(a, b)) = b
BY FromIs, PlusIs, SnIs, Sizes

(* A number is at distance 0 from itself.                                  *)
LEMMA FromSelf == \A a \in Sn : From(a, a) = 0
BY FromIs, SnIs, Sizes

(* Only a number itself is at distance 0.                                  *)
LEMMA FromZero == \A a, b \in Sn : From(a, b) = 0 => a = b
BY FromIs, SnIs, Sizes

(* No two numbers are at one distance.                                     *)
LEMMA FromEqual == \A a, b, c \in Sn : From(a, b) = From(a, c) => b = c
BY FromIs, SnIs, Sizes

(* Distances add up, around the circle.                                    *)
LEMMA FromAdds ==
  \A a, b, c \in Sn :
     From(a, c) = IF From(a, b) + From(b, c) < Modulus THEN From(a, b) + From(b, c)
                  ELSE From(a, b) + From(b, c) - Modulus
BY FromIs, SnIs, Sizes

(* b lies on the way from a to c when its distance is the smaller one.     *)
LEMMA FromChain ==
  \A a, b, c \in Sn : From(a, b) <= From(a, c) <=> From(a, c) = From(a, b) + From(b, c)
BY FromIs, SnIs, Sizes

(* The numbers of a window, by their distance from its lower edge.         *)
LEMMA BetweenIs ==
  \A low, high, sn : sn \in Between(low, high) <=> sn \in Sn /\ From(low, sn) < From(low, high)
BY DEF Between

--------------------------------------------------------------------------------
(* The first number from sn on that is missing, when `top' is.             *)
LEMMA FirstMissingIs ==
  ASSUME NEW entries, NEW sn \in Sn, NEW top \in Sn, ~entries[top].complete
  PROVE  LET x == FirstMissing(entries, sn)
         IN  /\ x \in Sn
             /\ From(sn, x) <= From(sn, top)
             /\ ~entries[x].complete
             /\ \A y \in Sn : From(sn, y) < From(sn, x) => entries[y].complete
<1> DEFINE P(n) == ~entries[Plus(sn, n)].complete
           S == {n \in 0..(Modulus - 1) : P(n)}
<1>1. From(sn, top) \in S
  BY FromIs, FromPlus DEF Sn
<1>2. PICK n \in S : \A m \in S : n <= m
  <2>1. S \subseteq Nat
    BY Sizes
  <2> HIDE DEF S
  <2> QED
    BY <1>1, <2>1, LeastNat
<1>3. n \in 0..(Modulus - 1) /\ n \in Sn /\ n <= From(sn, top)
  BY <1>1, <1>2 DEF Sn
<1>4. P(n) /\ \A m \in 0..(n - 1) : entries[Plus(sn, m)].complete
  <2>1. ASSUME NEW m \in 0..(n - 1) PROVE entries[Plus(sn, m)].complete
    <3>1. m \in 0..(Modulus - 1) /\ m < n
      BY <1>3, Sizes
    <3>2. m \notin S
      BY <1>2, <1>3, <3>1
    <3> QED
      BY <3>1, <3>2
  <2> QED
    BY <1>2, <2>1
<1>5. \A k \in 0..(Modulus - 1) :
         P(k) /\ (\A m \in 0..(k - 1) : entries[Plus(sn, m)].complete) => k = n
  <2> SUFFICES ASSUME NEW k \in 0..(Modulus - 1), P(k),
                      \A m \in 0..(k - 1) : entries[Plus(sn, m)].complete, k # n
               PROVE  FALSE
    OBVIOUS
  <2>1. n <= k
    BY <1>2
  <2>2. n \in 0..(k - 1)
    BY <1>3, <2>1, Sizes
  <2> QED
    BY <1>4, <2>2
<1>6. FirstMissing(entries, sn) = Plus(sn, n)
  BY <1>3, <1>4, <1>5 DEF FirstMissing
<1> HIDE DEF S
<1>7. Plus(sn, n) \in Sn /\ From(sn, Plus(sn, n)) = n
  BY <1>3, PlusIs, FromPlus
<1>8. ASSUME NEW y \in Sn, From(sn, y) < n PROVE entries[y].complete
  <2>1. From(sn, y) \in 0..(n - 1) /\ Plus(sn, From(sn, y)) = y
    BY <1>3, <1>8, FromIs, FromPlus, SnIs
  <2> QED
    BY <1>4, <2>1
<1> QED
  BY <1>3, <1>4, <1>6, <1>7, <1>8

--------------------------------------------------------------------------------
(* The sizes of lists of pieces.                                           *)

(* A piece is a stretch of one SDU that is not empty.                      *)
LEMMA PieceIs ==
  \A piece \in Piece :
     /\ piece.sdu \in DOMAIN SduSizes /\ piece.from \in Nat /\ piece.to \in Nat
     /\ piece.from < piece.to /\ piece.to <= SduSizes[piece.sdu]
     /\ Size(piece) \in Nat /\ Size(piece) = piece.to - piece.from
BY DEF Piece, Size

(* SizeOf adds from left to right.                                         *)
LEMMA SizeOfSteps ==
  ASSUME NEW s \in Seq(Piece)
  PROVE  \E r \in [0..Len(s) -> Nat] :
           /\ r[0] = 0
           /\ \A k \in 1..Len(s) : r[k] = r[k - 1] + Size(s[k])
           /\ SizeOf(s) = r[Len(s)]
<1> DEFINE Step(g) == [t \in SUBSET DOMAIN s |->
                         IF t = {} THEN 0 ELSE g[t \ {Max(t)}] + Size(s[Max(t)])]
           I == CHOOSE g : g = Step(g)
           h == [p \in (1..Len(s)) \X Nat |-> p[2] + Size(s[p[1]])]
<1>1. DOMAIN s = 1..Len(s) /\ Len(s) \in Nat
  OBVIOUS
<1>2. \A k \in 1..Len(s) : Size(s[k]) \in Nat
  BY PieceIs
<1>3. \A k \in 1..Len(s) : \A v \in Nat : h[<<k, v>>] = v + Size(s[k]) /\ h[<<k, v>>] \in Nat
  BY <1>2
<1>4. SizeOf(s) = I[1..Len(s)]
  BY <1>1 DEF SizeOf, FoldLeft, MapThenFoldSet
<1> HIDE DEF h
<1>3a. StepIn(1..Len(s), Nat, h)
  BY <1>3 DEF StepIn
<1>5. \A t \in SUBSET (1..Len(s)) : t # {} => Max(t) \in 1..Len(s)
  BY <1>1, MaxOfSub
<1>6. \E g : g = Step(g)
  <2>1. PICK g : FoldLeftOf(Len(s), Nat, 0, h, g)
    BY <1>1, <1>3a, FoldLeftExists
  <2>2. ASSUME NEW t \in SUBSET (1..Len(s)), t # {}
        PROVE  g[t] = g[t \ {Max(t)}] + Size(s[Max(t)])
    <3>1. g[t \ {Max(t)}] \in Nat /\ g[t] = h[<<Max(t), g[t \ {Max(t)}]>>]
      BY <2>1, <2>2 DEF FoldLeftOf
    <3> QED
      BY <1>3, <1>5, <2>2, <3>1
  <2>3. g = Step(g)
    BY <1>1, <2>1, <2>2 DEF FoldLeftOf
  <2> QED
    BY <2>3
<1>7. I = Step(I)
  BY <1>6
<1> HIDE DEF I
<1>8. I[{}] = 0
  BY <1>7
<1>9. ASSUME NEW t \in SUBSET (1..Len(s)), t # {}, I[t \ {Max(t)}] \in Nat
      PROVE  I[t] = h[<<Max(t), I[t \ {Max(t)}]>>]
  <2>1. I[t] = I[t \ {Max(t)}] + Size(s[Max(t)])
    BY <1>1, <1>7, <1>9
  <2> QED
    BY <1>3, <1>5, <1>9, <2>1
<1>9a. Unfolds(Len(s), Nat, 0, h, I)
  BY <1>8, <1>9 DEF Unfolds
<1>10. PICK r : Reaches(Len(s), Nat, 0, h, I, r)
  BY <1>1, <1>3a, <1>9a, FoldLeftSteps
<1>11. ASSUME NEW k \in 1..Len(s) PROVE r[k] = r[k - 1] + Size(s[k])
  <2>1. k - 1 \in 0..Len(s)
    BY <1>1
  <2> QED
    BY <1>3, <1>10, <2>1 DEF Reaches
<1> QED
  BY <1>4, <1>10, <1>11 DEF Reaches

(* The size of a sequence of pieces is a natural number.                   *)
LEMMA SizeOfType ==
  ASSUME NEW s \in Seq(Piece)
  PROVE  SizeOf(s) \in Nat /\ (s = <<>> => SizeOf(s) = 0)
<1>1. PICK r \in [0..Len(s) -> Nat] : r[0] = 0 /\ SizeOf(s) = r[Len(s)]
  BY SizeOfSteps
<1>2. Len(s) \in Nat /\ (s = <<>> => Len(s) = 0)
  OBVIOUS
<1> QED
  BY <1>1, <1>2

(* The sizes of the first n pieces and of one more.                        *)
LEMMA SizeOfOneMore ==
  ASSUME NEW s \in Seq(Piece), NEW n \in 0..(Len(s) - 1)
  PROVE  /\ SubSeq(s, 1, n) \in Seq(Piece) /\ SubSeq(s, 1, n + 1) \in Seq(Piece)
         /\ SizeOf(SubSeq(s, 1, n + 1)) = SizeOf(SubSeq(s, 1, n)) + Size(s[n + 1])
<1> DEFINE a == SubSeq(s, 1, n)
           b == SubSeq(s, 1, n + 1)
<1>1. a \in Seq(Piece) /\ Len(a) = n /\ \A k \in 1..n : a[k] = s[k]
  OBVIOUS
<1>2. b \in Seq(Piece) /\ Len(b) = n + 1 /\ \A k \in 1..(n + 1) : b[k] = s[k]
  OBVIOUS
<1> HIDE DEF a, b
<1>3. PICK p \in [0..n -> Nat] :
        p[0] = 0 /\ (\A k \in 1..n : p[k] = p[k - 1] + Size(a[k])) /\ SizeOf(a) = p[n]
  BY <1>1, SizeOfSteps
<1>4. PICK q \in [0..(n + 1) -> Nat] :
        q[0] = 0 /\ (\A k \in 1..(n + 1) : q[k] = q[k - 1] + Size(b[k])) /\ SizeOf(b) = q[n + 1]
  BY <1>2, SizeOfSteps
<1>6. ASSUME NEW k \in 0..(n - 1), p[k] = q[k] PROVE p[k + 1] = q[k + 1]
  <2>1. k + 1 \in 1..n /\ k + 1 \in 1..(n + 1) /\ (k + 1) - 1 = k
    OBVIOUS
  <2>2. p[k] = q[k] /\ a[k + 1] = b[k + 1]
    BY <1>1, <1>2, <1>6, <2>1
  <2>3. p[k + 1] = p[k] + Size(a[k + 1]) /\ q[k + 1] = q[k] + Size(b[k + 1])
    BY <1>3, <1>4, <2>1
  <2> QED
    BY <2>2, <2>3
<1>7. p[n] = q[n]
  <2>1. n \in Nat /\ p[0] = q[0]
    BY <1>3, <1>4
  <2>2. \A k \in 0..n : p[k] = q[k]
    BY <1>6, <2>1, StepsAgree
  <2> QED
    BY <2>1, <2>2
<1>8. q[n + 1] = q[n] + Size(b[n + 1])
  <2>1. n + 1 \in 1..(n + 1) /\ (n + 1) - 1 = n
    OBVIOUS
  <2> QED
    BY <1>4, <2>1
<1>9. SizeOf(b) = SizeOf(a) + Size(s[n + 1])
  <2>1. b[n + 1] = s[n + 1]
    BY <1>2
  <2>2. SizeOf(b) = q[n + 1] /\ SizeOf(a) = p[n]
    BY <1>3, <1>4
  <2> QED
    BY <1>7, <1>8, <2>1, <2>2
<1>10. SubSeq(s, 1, n) = a /\ SubSeq(s, 1, n + 1) = b
  BY DEF a, b
<1>11. a \in Seq(Piece) /\ b \in Seq(Piece) /\ SizeOf(b) = SizeOf(a) + Size(s[n + 1])
  BY <1>1, <1>2, <1>9
<1> QED
  BY <1>10, <1>11

--------------------------------------------------------------------------------
(* The stream of SDUs.  A position is an SDU and an offset in it; the data *)
(* field of a PDU leads from one position to another, and only its last    *)
(* piece may end inside an SDU.                                            *)

At(piece) == <<piece.sdu, piece.from>>
After(piece) == IF IsLast(piece) THEN <<piece.sdu + 1, 0>> ELSE <<piece.sdu, piece.to>>

(* The pieces lead from p to q without a gap.                              *)
Spans(data, p, q) ==
  /\ data \in Seq(Piece) /\ data # <<>>
  /\ At(data[1]) = p
  /\ After(data[Len(data)]) = q
  /\ \A i \in 1..(Len(data) - 1) : IsLast(data[i]) /\ At(data[i + 1]) = After(data[i])

(* What waits in a queue leads from p to q.                                *)
Pending(queue, p, q) == (queue = <<>> /\ p = q) \/ Spans(queue, p, q)

(* The first pieces of a queue and the others.                             *)
LEMMA SpansSplit ==
  ASSUME NEW s \in Seq(Piece), NEW p, NEW q, Spans(s, p, q), NEW n \in 1..Len(s)
  PROVE  /\ Spans(SubSeq(s, 1, n), p, After(s[n]))
         /\ Pending(SubSeq(s, n + 1, Len(s)), After(s[n]), q)
<1> DEFINE a == SubSeq(s, 1, n)
           b == SubSeq(s, n + 1, Len(s))
<1>1. a \in Seq(Piece) /\ Len(a) = n /\ \A k \in 1..n : a[k] = s[k]
  OBVIOUS
<1>2. b \in Seq(Piece) /\ Len(b) = Len(s) - n /\ \A k \in 1..(Len(s) - n) : b[k] = s[n + k]
  OBVIOUS
<1>3. Len(s) \in Nat /\ n \in Nat /\ 1 <= n /\ n <= Len(s)
  OBVIOUS
<1> HIDE DEF a, b
<1>4. Spans(a, p, After(s[n]))
  <2>1. a # <<>> /\ a[1] = s[1] /\ a[n] = s[n]
    BY <1>1, <1>3
  <2>2. ASSUME NEW i \in 1..(n - 1) PROVE IsLast(a[i]) /\ At(a[i + 1]) = After(a[i])
    <3>1. a[i] = s[i] /\ a[i + 1] = s[i + 1] /\ i \in 1..(Len(s) - 1)
      BY <1>1, <1>3
    <3> QED
      BY <3>1 DEF Spans
  <2> QED
    BY <1>1, <2>1, <2>2 DEF Spans
<1>5. CASE n = Len(s)
  <2>1. b = <<>>
    BY <1>2, <1>3, <1>5
  <2>2. After(s[n]) = q
    BY <1>5 DEF Spans
  <2> QED
    BY <1>4, <2>1, <2>2 DEF Pending, a, b
<1>6. CASE n # Len(s)
  <2>1. b # <<>> /\ b[1] = s[n + 1] /\ b[Len(b)] = s[Len(s)]
    <3>1. 1 \in 1..(Len(s) - n) /\ Len(s) - n \in 1..(Len(s) - n) /\ n + (Len(s) - n) = Len(s)
      BY <1>3, <1>6
    <3>2. b[1] = s[n + 1] /\ b[Len(s) - n] = s[n + (Len(s) - n)]
      BY <1>2, <3>1
    <3> QED
      BY <1>2, <3>1, <3>2
  <2>2. ASSUME NEW i \in 1..(Len(b) - 1) PROVE IsLast(b[i]) /\ At(b[i + 1]) = After(b[i])
    <3>1. b[i] = s[n + i] /\ b[i + 1] = s[(n + i) + 1] /\ n + i \in 1..(Len(s) - 1)
      BY <1>2, <1>3, <1>6
    <3> QED
      BY <3>1 DEF Spans
  <2>3. At(s[n + 1]) = After(s[n]) /\ n \in 1..(Len(s) - 1)
    BY <1>3, <1>6 DEF Spans
  <2>4. After(s[Len(s)]) = q
    BY DEF Spans
  <2>5. Spans(b, After(s[n]), q)
    BY <1>2, <2>1, <2>2, <2>3, <2>4 DEF Spans
  <2> QED
    BY <1>4, <2>5 DEF Pending, a, b
<1> QED
  BY <1>5, <1>6

(* What a new PDU takes of the queue, and what it leaves.                  *)
LEMMA DataFieldIs ==
  ASSUME NEW grant \in Nat \ {0}, NEW p, NEW q, Spans(txonBuffer, p, q)
  PROVE  \E m : /\ Spans(DataField(grant).data, p, m)
                /\ Pending(DataField(grant).left, m, q)
                /\ DataField(grant).left \in Seq(Piece)
<1>1. txonBuffer \in Seq(Piece) /\ txonBuffer # <<>> /\ Len(txonBuffer) \in Nat /\ Len(txonBuffer) > 0
  BY DEF Spans
<1> DEFINE L == Len(txonBuffer)
           sizes(n) == SizeOf(SubSeq(txonBuffer, 1, n))
           S == {n \in 0..L : sizes(n) <= grant}
           whole == Max(S)
           room == grant - sizes(whole)
           next == txonBuffer[whole + 1]
           rest == SubSeq(txonBuffer, whole + 2, L)
           start == SubSeq(txonBuffer, 1, whole)
           cut == [next EXCEPT !.to = next.from + room]
           other == [next EXCEPT !.from = next.from + room]
<1>2. \A n \in 0..L : SubSeq(txonBuffer, 1, n) \in Seq(Piece) /\ sizes(n) \in Nat
  <2> SUFFICES ASSUME NEW n \in 0..L
               PROVE  SubSeq(txonBuffer, 1, n) \in Seq(Piece) /\ sizes(n) \in Nat
    OBVIOUS
  <2>1. SubSeq(txonBuffer, 1, n) \in Seq(Piece)
    BY <1>1
  <2> QED
    BY <2>1, SizeOfType
<1>3. 0 \in S
  <2>1. SubSeq(txonBuffer, 1, 0) = <<>> /\ <<>> \in Seq(Piece)
    BY <1>1
  <2>2. sizes(0) = 0
    BY <2>1, SizeOfType
  <2> QED
    BY <1>1, <2>2
<1>4. whole \in S /\ \A n \in S : n <= whole
  <2>1. IsFiniteSet(0..L) /\ S \subseteq 0..L /\ S \subseteq Int
    BY <1>1, FS_Interval
  <2>2. IsFiniteSet(S)
    BY <2>1, FS_Subset
  <2> HIDE DEF S
  <2>3. Max(S) \in S /\ \A n \in S : Max(S) >= n
    BY <1>3, <2>1, <2>2, MaxOfFinite
  <2>4. \A n \in S : n \in Int /\ Max(S) \in Int
    BY <2>1, <2>3
  <2> QED
    BY <2>3, <2>4
<1>5. DataField(grant) =
        IF whole = L \/ room = 0
          THEN [data |-> start, left |-> SubSeq(txonBuffer, whole + 1, L)]
          ELSE [data |-> start \o <<cut>>, left |-> <<other>> \o rest]
  BY DEF DataField
<1>6. whole \in 0..L /\ whole \in Nat /\ sizes(whole) \in Nat /\ sizes(whole) <= grant
  BY <1>2, <1>4
<1>7. whole # L => whole + 1 \in 0..L /\ whole \in 0..(L - 1) /\ sizes(whole + 1) > grant
  <2> SUFFICES ASSUME whole # L PROVE whole + 1 \in 0..L /\ whole \in 0..(L - 1) /\ sizes(whole + 1) > grant
    OBVIOUS
  <2> HIDE DEF whole, sizes
  <2>1. whole + 1 \in 0..L /\ whole \in 0..(L - 1)
    BY <1>1, <1>6
  <2>2. whole + 1 \notin S
    BY <1>4, <1>6
  <2>3. sizes(whole + 1) \in Nat
    BY <1>2, <2>1
  <2> QED
    BY <2>1, <2>2, <2>3
<1> HIDE DEF whole, S
<1>8. CASE whole = L \/ room = 0
  <2>1. whole # 0
    <3>1. SubSeq(txonBuffer, 1, 0) = <<>> /\ <<>> \in Seq(Piece)
      BY <1>1
    <3>2. whole = 0 => sizes(whole) = 0
      BY <3>1, SizeOfType
    <3> QED
      BY <1>1, <1>8, <3>2
  <2>2. whole \in 1..L
    BY <1>6, <2>1
  <2>3. Spans(start, p, After(txonBuffer[whole]))
        /\ Pending(SubSeq(txonBuffer, whole + 1, L), After(txonBuffer[whole]), q)
    BY <1>1, <2>2, SpansSplit
  <2>4. DataField(grant).data = start /\ DataField(grant).left = SubSeq(txonBuffer, whole + 1, L)
    <3>1. DataField(grant) = [data |-> start, left |-> SubSeq(txonBuffer, whole + 1, L)]
      BY <1>5, <1>8
    <3>2. PICK d : d = start
      OBVIOUS
    <3>3. PICK l : l = SubSeq(txonBuffer, whole + 1, L)
      OBVIOUS
    <3>4. DataField(grant) = [data |-> d, left |-> l]
      BY <3>1, <3>2, <3>3
    <3>5. DataField(grant).data = d /\ DataField(grant).left = l
      BY <3>4
    <3> QED
      BY <3>5, <3>2, <3>3
  <2>5. SubSeq(txonBuffer, whole + 1, L) \in Seq(Piece)
    BY <1>1, <1>6
  <2> QED
    BY <2>3, <2>4, <2>5
<1>9. CASE ~(whole = L \/ room = 0)
  <2>1. whole \in 0..(L - 1) /\ sizes(whole + 1) > grant
    BY <1>7, <1>9
  <2>2. sizes(whole + 1) = sizes(whole) + Size(next)
    BY <1>1, <2>1, SizeOfOneMore
  <2>3. next \in Piece /\ whole + 1 \in 1..L
    BY <1>1, <1>6, <2>1
  <2>4. room \in Nat /\ 0 < room /\ room < Size(next)
    BY <1>6, <1>9, <2>1, <2>2, <2>3, PieceIs
  <2> HIDE DEF room, next, sizes
  <2>5. /\ cut \in Piece /\ cut.sdu = next.sdu /\ cut.from = next.from /\ cut.to = next.from + room
        /\ other \in Piece /\ other.sdu = next.sdu /\ other.from = next.from + room
        /\ other.to = next.to
    <3>1. next \in [sdu : DOMAIN SduSizes, from : Nat, to : Nat]
      BY <2>3 DEF Piece
    <3>2. cut \in [sdu : DOMAIN SduSizes, from : Nat, to : Nat]
          /\ cut.sdu = next.sdu /\ cut.from = next.from /\ cut.to = next.from + room
      BY <2>4, <3>1
    <3>3. other \in [sdu : DOMAIN SduSizes, from : Nat, to : Nat]
          /\ other.sdu = next.sdu /\ other.from = next.from + room /\ other.to = next.to
      BY <2>4, <3>1
    <3> HIDE DEF cut, other
    <3>4. /\ cut.from < cut.to /\ cut.to <= SduSizes[cut.sdu]
          /\ other.from < other.to /\ other.to <= SduSizes[other.sdu]
      <4>1. SduSizes[next.sdu] \in Nat
        BY <3>1, RlcAmAssumption
      <4>2. /\ next.from \in Nat /\ next.to \in Nat /\ next.from < next.to
            /\ next.to <= SduSizes[next.sdu] /\ Size(next) = next.to - next.from
        BY ONLY <2>3, PieceIs
      <4>3. /\ cut.sdu = next.sdu /\ cut.from = next.from /\ cut.to = next.from + room
            /\ other.sdu = next.sdu /\ other.from = next.from + room /\ other.to = next.to
        BY ONLY <3>2, <3>3
      <4>4. cut.from < cut.to /\ cut.to <= SduSizes[next.sdu]
        BY ONLY <2>4, <4>1, <4>2, <4>3
      <4>5. other.from < other.to /\ other.to <= SduSizes[next.sdu]
        BY ONLY <2>4, <4>1, <4>2, <4>3
      <4> QED
        BY ONLY <4>3, <4>4, <4>5
    <3> QED
      BY <3>2, <3>3, <3>4 DEF Piece
  <2>6. At(cut) = At(next) /\ After(cut) = At(other) /\ After(other) = After(next)
    <3>1. ~IsLast(cut)
      <4>1. /\ next.from \in Nat /\ next.to \in Nat /\ next.to <= SduSizes[next.sdu]
            /\ Size(next) = next.to - next.from /\ next.sdu \in DOMAIN SduSizes
        BY ONLY <2>3, PieceIs
      <4>2. SduSizes[next.sdu] \in Nat
        BY ONLY <4>1, RlcAmAssumption
      <4>3. next.from + room < SduSizes[next.sdu]
        BY ONLY <2>4, <4>1, <4>2
      <4>4. cut.sdu = next.sdu /\ cut.to = next.from + room
        BY ONLY <2>5
      <4>5. next.from + room # SduSizes[next.sdu]
        BY ONLY <2>4, <4>1, <4>2, <4>3
      <4> QED
        BY ONLY <4>4, <4>5 DEF IsLast
    <3>2. IsLast(other) <=> IsLast(next)
      BY <2>5 DEF IsLast
    <3> QED
      BY <2>5, <3>1, <3>2 DEF At, After
  <2> HIDE DEF cut, other
  <2> DEFINE data == start \o <<cut>>
             left == <<other>> \o rest
  <2>7. start \in Seq(Piece) /\ Len(start) = whole /\ \A k \in 1..whole : start[k] = txonBuffer[k]
    BY <1>1, <1>6
  <2>8. /\ rest \in Seq(Piece) /\ Len(rest) = L - whole - 1
        /\ \A k \in 1..(L - whole - 1) : rest[k] = txonBuffer[whole + 1 + k]
    BY <1>1, <2>1
  <2> HIDE DEF start, rest
  <2>9. /\ data \in Seq(Piece) /\ Len(data) = whole + 1
        /\ data[whole + 1] = cut /\ \A k \in 1..whole : data[k] = txonBuffer[k]
    BY <1>6, <2>5, <2>7
  <2>10. /\ left \in Seq(Piece) /\ Len(left) = L - whole
         /\ left[1] = other /\ \A k \in 2..(L - whole) : left[k] = txonBuffer[whole + k]
    <3>1. left \in Seq(Piece) /\ Len(left) = L - whole /\ left[1] = other
      BY <1>1, <2>1, <2>5, <2>8
    <3>2. ASSUME NEW k \in 2..(L - whole) PROVE left[k] = txonBuffer[whole + k]
      <4>1. k - 1 \in 1..(L - whole - 1) /\ whole + 1 + (k - 1) = whole + k
        BY <1>1, <1>6
      <4>2. left[k] = rest[k - 1]
        BY <1>1, <1>6, <2>5, <2>8, <4>1
      <4> QED
        BY <2>8, <4>1, <4>2
    <3> QED
      BY <3>1, <3>2
  <2> HIDE DEF data, left
  <2>11. Spans(data, p, After(cut))
    <3>1. data # <<>> /\ data[Len(data)] = cut
      BY <1>6, <2>9
    <3>2. At(data[1]) = p
      <4>1. CASE whole = 0
        <5>1. data[1] = cut /\ next = txonBuffer[1]
          BY <2>9, <4>1 DEF next
        <5> QED
          BY <2>6, <5>1 DEF Spans
      <4>2. CASE whole # 0
        <5>1. data[1] = txonBuffer[1]
          BY <1>6, <2>9, <4>2
        <5> QED
          BY <5>1 DEF Spans
      <4> QED
        BY <4>1, <4>2
    <3>3. ASSUME NEW i \in 1..(Len(data) - 1) PROVE IsLast(data[i]) /\ At(data[i + 1]) = After(data[i])
      <4>1. i \in 1..whole /\ i \in 1..(L - 1) /\ data[i] = txonBuffer[i]
        BY <1>1, <1>6, <2>1, <2>9
      <4>2. IsLast(txonBuffer[i]) /\ At(txonBuffer[i + 1]) = After(txonBuffer[i])
        BY <4>1 DEF Spans
      <4>3. CASE i = whole
        <5>1. data[i + 1] = cut /\ txonBuffer[i + 1] = next
          BY <2>9, <4>3 DEF next
        <5> QED
          BY <2>6, <4>1, <4>2, <5>1
      <4>4. CASE i # whole
        <5>1. i + 1 \in 1..whole
          BY <1>6, <4>1, <4>4
        <5> QED
          BY <2>9, <4>1, <4>2, <5>1
      <4> QED
        BY <4>3, <4>4
    <3> QED
      BY <2>9, <3>1, <3>2, <3>3 DEF Spans
  <2>12. Spans(left, After(cut), q)
    <3>1. left # <<>> /\ At(left[1]) = After(cut)
      BY <2>6, <2>10, <2>1, <1>1, <1>6
    <3>2. After(left[Len(left)]) = q
      <4>1. CASE L - whole = 1
        <5>1. left[Len(left)] = other /\ next = txonBuffer[L]
          BY <1>1, <1>6, <2>10, <4>1 DEF next
        <5> QED
          BY <2>6, <5>1 DEF Spans
      <4>2. CASE L - whole # 1
        <5>1. L - whole \in 2..(L - whole) /\ whole + (L - whole) = L
          BY <1>1, <1>6, <2>1, <4>2
        <5>2. left[Len(left)] = txonBuffer[L]
          BY <2>10, <5>1
        <5> QED
          BY <5>2 DEF Spans
      <4> QED
        BY <4>1, <4>2
    <3>3. ASSUME NEW i \in 1..(Len(left) - 1) PROVE IsLast(left[i]) /\ At(left[i + 1]) = After(left[i])
      <4>1. whole + i \in 1..(L - 1) /\ i + 1 \in 2..(L - whole)
        BY <1>1, <1>6, <2>10
      <4>2. IsLast(txonBuffer[whole + i]) /\ At(txonBuffer[(whole + i) + 1]) = After(txonBuffer[whole + i])
        BY <4>1 DEF Spans
      <4>3. left[i + 1] = txonBuffer[(whole + i) + 1]
        <5>1. left[i + 1] = txonBuffer[whole + (i + 1)] /\ whole + (i + 1) = (whole + i) + 1
          BY <1>6, <2>10, <4>1
        <5> QED
          BY <5>1
      <4>4. CASE i = 1
        <5>1. left[i] = other /\ txonBuffer[whole + i] = next
          BY <2>10, <4>4 DEF next
        <5>2. IsLast(other)
          BY <2>5, <4>2, <5>1 DEF IsLast
        <5> QED
          BY <2>6, <4>2, <4>3, <5>1, <5>2
      <4>5. CASE i # 1
        <5>1. i \in 2..(L - whole)
          BY <1>1, <1>6, <2>10, <4>5
        <5> QED
          BY <2>10, <4>2, <4>3, <5>1
      <4> QED
        BY <4>4, <4>5
    <3> QED
      BY <2>10, <3>1, <3>2, <3>3 DEF Spans
  <2>13. DataField(grant).data = data /\ DataField(grant).left = left
    BY <1>5, <1>9 DEF data, left, cut, other, room
  <2> QED
    BY <2>10, <2>11, <2>12, <2>13 DEF Pending
<1> QED
  BY <1>8, <1>9

--------------------------------------------------------------------------------
(* Reassembly.                                                             *)

(* Pieces of one SDU, from its beginning, without a gap.                   *)
Run(pieces, sdu) ==
  /\ pieces \in Seq(Piece) /\ pieces # <<>>
  /\ \A i \in 1..Len(pieces) : pieces[i].sdu = sdu
  /\ pieces[1].from = 0
  /\ \A i \in 1..(Len(pieces) - 1) : pieces[i].to = pieces[i + 1].from

(* What is kept of the next SDU when the stream has come to position p.    *)
Kept(kept, sdu, p) ==
  \/ kept = <<>> /\ p = <<sdu, 0>>
  \/ Run(kept, sdu) /\ ~IsLast(kept[Len(kept)]) /\ p = <<sdu, kept[Len(kept)].to>>

(* The state of a reassembly: what is kept, the SDUs found, no failure     *)
(* yet.                                                                    *)
ReassemblyState == [kept : Seq(Piece), sdus : Seq(Seq(Piece)), ok : BOOLEAN]

(* After `before' SDUs, those in the state are the next ones.              *)
GoodState(state, before, p) ==
  /\ state \in ReassemblyState
  /\ state.ok
  /\ Kept(state.kept, before + Len(state.sdus) + 1, p)
  /\ \A i \in 1..Len(state.sdus) : SduOf(state.sdus[i]) = before + i

(* Pieces from the first to the last of an SDU are that SDU.               *)
LEMMA RunIsSdu ==
  ASSUME NEW pieces, NEW sdu, Run(pieces, sdu), IsLast(pieces[Len(pieces)])
  PROVE  SduOf(pieces) = sdu
<1>1. Len(pieces) \in Nat /\ 1 <= Len(pieces) /\ Head(pieces) = pieces[1]
      /\ Last(pieces) = pieces[Len(pieces)]
  BY DEF Run, Last
<1>2. ASSUME NEW i \in 1..(Len(pieces) - 1)
      PROVE  pieces[i].sdu = pieces[i + 1].sdu /\ pieces[i].to = pieces[i + 1].from
  <2>1. i \in 1..Len(pieces) /\ i + 1 \in 1..Len(pieces)
    BY <1>1
  <2> QED
    BY <2>1 DEF Run
<1>3. IsFirst(pieces[1]) /\ pieces[1].sdu = sdu
  BY <1>1 DEF Run, IsFirst
<1> QED
  BY <1>1, <1>2, <1>3 DEF SduOf

(* The SDUs of a data field are consecutive.                               *)
LEMMA SpansSdus ==
  ASSUME NEW data, NEW p, NEW q, Spans(data, p, q)
  PROVE  \A i \in 1..Len(data) : data[i].sdu = p[1] + (i - 1) /\ (i # 1 => data[i].from = 0)
<1>1. data \in Seq(Piece) /\ Len(data) \in Nat /\ 1 <= Len(data)
  BY DEF Spans
<1>2. data[1].sdu = p[1] /\ p[1] \in Int
  BY <1>1, PieceIs, RlcAmAssumption DEF Spans, At
<1> DEFINE N == {n \in Nat : n + 1 <= Len(data) => data[n + 1].sdu = p[1] + n}
<1>3. 0 \in N
  BY <1>1, <1>2
<1>4. ASSUME NEW i \in 1..(Len(data) - 1)
      PROVE  data[i + 1].sdu = data[i].sdu + 1 /\ data[i + 1].from = 0
  BY <1>1 DEF Spans, At, After
<1>5. ASSUME NEW n \in Nat, n \in N PROVE n + 1 \in N
  <2>1. CASE (n + 1) + 1 <= Len(data)
    <3>1. n + 1 \in 1..(Len(data) - 1)
      BY <1>1, <2>1
    <3>2. data[(n + 1) + 1].sdu = data[n + 1].sdu + 1
      BY <1>4, <3>1
    <3>3. data[n + 1].sdu = p[1] + n
      BY <1>1, <1>5, <2>1
    <3> QED
      BY <1>2, <3>2, <3>3
  <2> QED
    BY <2>1
<1>6. Nat \subseteq N
  <2> HIDE DEF N
  <2> QED
    BY <1>3, <1>5, SetInduction
<1>7. ASSUME NEW i \in 1..Len(data)
      PROVE  data[i].sdu = p[1] + (i - 1) /\ (i # 1 => data[i].from = 0)
  <2>1. i - 1 \in N /\ (i - 1) + 1 = i
    BY <1>1, <1>6
  <2>2. i # 1 => i - 1 \in 1..(Len(data) - 1)
    BY <1>1
  <2> QED
    BY <1>1, <1>4, <2>1, <2>2
<1> QED
  BY <1>7

(* The first piece joined to what was kept.                                *)
Joined(state, data) ==
  [i \in DOMAIN data |-> IF i = 1 THEN Append(state.kept, data[1]) ELSE <<data[i]>>]

(* All but the last of the joined groups are whole SDUs.                   *)
LEMMA JoinedType ==
  ASSUME NEW state \in ReassemblyState, NEW data \in Seq(Piece), data # <<>>
  PROVE  /\ Joined(state, data) \in Seq(Seq(Piece))
         /\ Len(Joined(state, data)) = Len(data)
         /\ Last(Joined(state, data)) = Joined(state, data)[Len(data)]
         /\ Last(Joined(state, data)) \in Seq(Piece)
         /\ Front(Joined(state, data)) \in Seq(Seq(Piece))
         /\ Len(Front(Joined(state, data))) = Len(data) - 1
         /\ \A i \in 1..(Len(data) - 1) : Front(Joined(state, data))[i] = Joined(state, data)[i]
<1> DEFINE joined == Joined(state, data)
<1>1. Len(data) \in Nat /\ 1 <= Len(data) /\ DOMAIN data = 1..Len(data)
  OBVIOUS
<1>2. \A i \in 1..Len(data) : joined[i] \in Seq(Piece)
  <2>1. state.kept \in Seq(Piece)
    BY DEF ReassemblyState
  <2> QED
    BY <1>1, <2>1 DEF Joined
<1>3. joined \in [1..Len(data) -> Seq(Piece)]
  BY <1>1, <1>2 DEF Joined
<1> HIDE DEF joined
<1>4. joined \in Seq(Seq(Piece)) /\ Len(joined) = Len(data)
  BY <1>1, <1>3
<1>5. Last(joined) = joined[Len(data)] /\ Last(joined) \in Seq(Piece)
  BY <1>1, <1>2, <1>4 DEF Last
<1>6. /\ Front(joined) \in Seq(Seq(Piece)) /\ Len(Front(joined)) = Len(data) - 1
      /\ \A i \in 1..(Len(data) - 1) : Front(joined)[i] = joined[i]
  BY <1>1, <1>4 DEF Front
<1> QED
  BY <1>4, <1>5, <1>6 DEF joined

(* The outcomes of a reassembly, by where its first and last pieces end.   *)
LEMMA ReassembleIs ==
  ASSUME NEW state \in ReassemblyState, NEW data \in Seq(Piece), data # <<>>
  PROVE  /\ Reassemble(state, data) \in ReassemblyState
         /\ (state.kept = <<>>) = IsFirst(data[1]) =>
              Reassemble(state, data) =
                [kept |-> IF IsLast(data[Len(data)]) THEN <<>> ELSE Joined(state, data)[Len(data)],
                 sdus |-> state.sdus \o (IF IsLast(data[Len(data)]) THEN Joined(state, data)
                                         ELSE Front(Joined(state, data))),
                 ok |-> state.ok]
<1> DEFINE joined == Joined(state, data)
           ends == IsLast(data[Len(data)])
           done == [kept |-> IF ends THEN <<>> ELSE joined[Len(data)],
                    sdus |-> state.sdus \o (IF ends THEN joined ELSE Front(joined)),
                    ok |-> state.ok]
<1>1. Last(data) = data[Len(data)] /\ Head(data) = data[1]
  BY DEF Last
<1>2. /\ joined \in Seq(Seq(Piece)) /\ Last(joined) = joined[Len(data)]
      /\ joined[Len(data)] \in Seq(Piece) /\ Front(joined) \in Seq(Seq(Piece))
  BY JoinedType
<1>3. Reassemble(state, data) =
        IF (state.kept = <<>>) # IsFirst(data[1]) THEN [state EXCEPT !.ok = FALSE] ELSE done
  BY <1>1, <1>2 DEF Reassemble, Joined
<1> HIDE DEF joined, ends
<1>4. done \in ReassemblyState
  <2>1. state.sdus \in Seq(Seq(Piece)) /\ state.ok \in BOOLEAN
    BY DEF ReassemblyState
  <2>2. state.sdus \o (IF ends THEN joined ELSE Front(joined)) \in Seq(Seq(Piece))
    <3>1. (IF ends THEN joined ELSE Front(joined)) \in Seq(Seq(Piece))
      BY <1>2
    <3> QED
      BY <2>1, <3>1, ConcatProperties
  <2>3. (IF ends THEN <<>> ELSE joined[Len(data)]) \in Seq(Piece)
    BY <1>2
  <2> QED
    BY <2>1, <2>2, <2>3 DEF ReassemblyState
<1>5. [state EXCEPT !.ok = FALSE] \in ReassemblyState
  BY DEF ReassemblyState
<1>6. Reassemble(state, data) \in ReassemblyState
  BY <1>3, <1>4, <1>5
<1>7. (state.kept = <<>>) = IsFirst(data[1]) => Reassemble(state, data) = done
  BY <1>3
<1> QED
  BY <1>6, <1>7 DEF joined, ends

(* One more data field.                                                    *)
LEMMA ReassembleKeeps ==
  ASSUME NEW before \in Nat, NEW state, NEW data, NEW p, NEW q,
         GoodState(state, before, p), Spans(data, p, q)
  PROVE  GoodState(Reassemble(state, data), before, q)
<1> DEFINE joined == Joined(state, data)
           n == Len(data)
           sdu == before + Len(state.sdus) + 1
           ends == IsLast(data[n])
           done == Reassemble(state, data)
<1>1. data \in Seq(Piece) /\ data # <<>> /\ n \in Nat /\ 1 <= n
  BY DEF Spans
<1>2. /\ state \in ReassemblyState /\ state.ok /\ Kept(state.kept, sdu, p)
      /\ state.sdus \in Seq(Seq(Piece)) /\ Len(state.sdus) \in Nat /\ sdu \in Nat
      /\ state.kept \in Seq(Piece)
  <2>1. state \in ReassemblyState /\ state.ok /\ Kept(state.kept, sdu, p)
    BY DEF GoodState
  <2>2. state.sdus \in Seq(Seq(Piece)) /\ state.kept \in Seq(Piece)
    BY <2>1 DEF ReassemblyState
  <2> QED
    BY <2>1, <2>2
<1> HIDE DEF sdu
<1>3. data[1] \in Piece /\ data[1].sdu = sdu /\ p = <<sdu, data[1].from>> /\ p[1] = sdu
  BY <1>1, <1>2 DEF Spans, At, Kept
<1>4. \A i \in 1..n : /\ data[i] \in Piece /\ data[i].sdu = sdu + (i - 1)
                      /\ i # 1 => data[i].from = 0
  BY <1>1, <1>3, SpansSdus
<1>5. \A i \in 1..(n - 1) : IsLast(data[i])
  BY DEF Spans
<1>6. (state.kept = <<>>) = IsFirst(data[1])
  <2>1. CASE state.kept = <<>>
    <3>1. p = <<sdu, 0>>
      BY <1>2, <2>1 DEF Kept, Run
    <3> QED
      BY <1>3, <2>1, <3>1 DEF IsFirst
  <2>2. CASE state.kept # <<>>
    <3>1. state.kept[Len(state.kept)] \in Piece
      BY <1>2, <2>2
    <3>2. data[1].from = state.kept[Len(state.kept)].to
      BY <1>2, <1>3, <2>2 DEF Kept
    <3>3. data[1].from # 0
      BY <3>1, <3>2, PieceIs
    <3> QED
      BY <2>2, <3>3 DEF IsFirst
  <2> QED
    BY <2>1, <2>2
<1>7. Run(joined[1], sdu) /\ joined[1][Len(joined[1])] = data[1]
  <2>1. joined[1] = Append(state.kept, data[1])
    BY <1>1 DEF Joined
  <2> DEFINE kept == state.kept
             run == Append(kept, data[1])
  <2>2. /\ run \in Seq(Piece) /\ Len(run) = Len(kept) + 1 /\ Len(kept) \in Nat
        /\ run[Len(run)] = data[1] /\ \A i \in 1..Len(kept) : run[i] = kept[i]
    BY <1>2, <1>3
  <2>3. CASE kept = <<>>
    <3>1. Len(run) = 1 /\ run[1] = data[1] /\ data[1].from = 0
      BY <1>6, <2>2, <2>3 DEF IsFirst
    <3> QED
      BY <1>3, <2>1, <2>2, <3>1 DEF Run
  <2>4. CASE kept # <<>>
    <3>1. Run(kept, sdu) /\ data[1].from = kept[Len(kept)].to /\ 1 <= Len(kept)
      BY <1>2, <1>3, <2>2, <2>4 DEF Kept
    <3> HIDE DEF kept, run
    <3>2. run[1].from = 0 /\ run # <<>>
      BY <2>2, <3>1 DEF Run
    <3>3. \A i \in 1..Len(run) : run[i].sdu = sdu
      BY <1>3, <2>2, <3>1 DEF Run
    <3>4. ASSUME NEW i \in 1..(Len(run) - 1) PROVE run[i].to = run[i + 1].from
      <4>1. CASE i = Len(kept)
        BY <2>2, <3>1, <4>1
      <4>2. CASE i # Len(kept)
        <5>1. i \in 1..(Len(kept) - 1) /\ i \in 1..Len(kept) /\ i + 1 \in 1..Len(kept)
          BY <2>2, <4>2
        <5> QED
          BY <2>2, <3>1, <5>1 DEF Run
      <4> QED
        BY <4>1, <4>2
    <3>5. Run(run, sdu)
      BY <2>2, <3>2, <3>3, <3>4 DEF Run
    <3> QED
      BY <2>1, <2>2, <3>5 DEF run, kept
  <2> QED
    BY <2>3, <2>4
<1>8. ASSUME NEW i \in 1..n
      PROVE  Run(joined[i], sdu + (i - 1)) /\ joined[i][Len(joined[i])] = data[i]
  <2>1. CASE i = 1
    BY <1>2, <1>7, <2>1
  <2>2. CASE i # 1
    <3>1. joined[i] = <<data[i]>>
      BY <1>1, <2>2 DEF Joined
    <3>2. Len(<<data[i]>>) = 1 /\ <<data[i]>>[1] = data[i] /\ <<data[i]>> \in Seq(Piece)
      BY <1>4
    <3> QED
      BY <1>4, <2>2, <3>1, <3>2 DEF Run
  <2> QED
    BY <2>1, <2>2
<1>9. ASSUME NEW i \in 1..n, i # n \/ ends PROVE SduOf(joined[i]) = sdu + (i - 1)
  <2>1. IsLast(data[i])
    BY <1>1, <1>5, <1>9
  <2> QED
    BY <1>8, <2>1, RunIsSdu
<1>10. /\ joined \in Seq(Seq(Piece)) /\ Len(joined) = n
       /\ Front(joined) \in Seq(Seq(Piece)) /\ Len(Front(joined)) = n - 1
       /\ \A i \in 1..(n - 1) : Front(joined)[i] = joined[i]
  BY <1>1, <1>2, JoinedType
<1> DEFINE new == IF ends THEN joined ELSE Front(joined)
<1>11. /\ done \in ReassemblyState /\ done.ok /\ done.sdus = state.sdus \o new
       /\ done.kept = IF ends THEN <<>> ELSE joined[n]
  <2>1. PICK kept : kept = IF ends THEN <<>> ELSE joined[n]
    OBVIOUS
  <2>2. PICK sdus : sdus = state.sdus \o new
    OBVIOUS
  <2>3. done \in ReassemblyState /\ done = [kept |-> kept, sdus |-> sdus, ok |-> state.ok]
    BY <1>1, <1>2, <1>6, <2>1, <2>2, ReassembleIs
  <2>4. done.kept = kept /\ done.sdus = sdus /\ done.ok = state.ok
    BY <2>3
  <2> QED
    BY <1>2, <2>1, <2>2, <2>3, <2>4
<1> HIDE DEF joined, done
<1>12. /\ new \in Seq(Seq(Piece)) /\ Len(new) = IF ends THEN n ELSE n - 1
       /\ \A i \in 1..Len(new) : SduOf(new[i]) = sdu + (i - 1)
  <2>1. CASE ends
    BY <1>9, <1>10, <2>1
  <2>2. CASE ~ends
    <3>1. ASSUME NEW i \in 1..(n - 1) PROVE SduOf(Front(joined)[i]) = sdu + (i - 1)
      BY <1>1, <1>9, <1>10
    <3> QED
      BY <1>10, <2>2, <3>1
  <2> QED
    BY <2>1, <2>2
<1>13. q = After(data[n])
  BY DEF Spans
<1> HIDE DEF ends, new, n
<1>14. Len(done.sdus) = Len(state.sdus) + Len(new) /\ Len(new) \in Nat
  <2>1. PICK old \in Seq(Seq(Piece)) : old = state.sdus
    BY <1>2
  <2>2. PICK more \in Seq(Seq(Piece)) : more = new
    BY <1>12
  <2>3. Len(old \o more) = Len(old) + Len(more) /\ Len(more) \in Nat
    OBVIOUS
  <2> QED
    BY <1>11, <2>1, <2>2, <2>3
<1>15. Kept(done.kept, before + Len(done.sdus) + 1, q)
  <2>1. n \in 1..n
    BY <1>1
  <2>2. CASE ends
    <3>1. before + Len(done.sdus) + 1 = sdu + n
      BY <1>1, <1>2, <1>12, <1>14, <2>2 DEF sdu
    <3>2. q = <<(sdu + (n - 1)) + 1, 0>>
      BY <1>4, <1>13, <2>1, <2>2 DEF After, ends
    <3>3. (sdu + (n - 1)) + 1 = sdu + n
      BY <1>1, <1>2
    <3> QED
      BY <1>11, <2>2, <3>1, <3>2, <3>3 DEF Kept
  <2>3. CASE ~ends
    <3>1. before + Len(done.sdus) + 1 = sdu + (n - 1)
      BY <1>1, <1>2, <1>12, <1>14, <2>3 DEF sdu
    <3>2. q = <<sdu + (n - 1), data[n].to>>
      BY <1>4, <1>13, <2>1, <2>3 DEF After, ends
    <3>3. Run(joined[n], sdu + (n - 1)) /\ joined[n][Len(joined[n])] = data[n]
      BY <1>8, <2>1
    <3> QED
      BY <1>11, <2>3, <3>1, <3>2, <3>3 DEF Kept, ends
  <2> QED
    BY <2>2, <2>3
<1>16. ASSUME NEW i \in 1..Len(done.sdus) PROVE SduOf(done.sdus[i]) = before + i
  <2>1. i \in 1..(Len(state.sdus) + Len(new))
    BY <1>14
  <2>2. done.sdus[i] = IF i <= Len(state.sdus) THEN state.sdus[i] ELSE new[i - Len(state.sdus)]
    BY <1>2, <1>11, <1>12, <2>1, ConcatProperties
  <2>3. CASE i <= Len(state.sdus)
    <3>1. i \in 1..Len(state.sdus)
      BY <1>2, <2>3
    <3> QED
      BY <2>2, <2>3, <3>1 DEF GoodState
  <2>4. CASE ~(i <= Len(state.sdus))
    <3>1. i - Len(state.sdus) \in 1..Len(new)
      BY <1>2, <1>14, <2>1, <2>4
    <3>2. SduOf(new[i - Len(state.sdus)]) = sdu + ((i - Len(state.sdus)) - 1)
      BY <1>12, <3>1
    <3>3. sdu + ((i - Len(state.sdus)) - 1) = before + i
      <4>1. PICK old \in Nat : old = Len(state.sdus)
        BY <1>2
      <4>2. i \in Int /\ sdu = before + old + 1
        BY <1>14, <2>1, <4>1 DEF sdu
      <4>3. sdu + ((i - old) - 1) = before + i
        BY <4>2
      <4> QED
        BY <4>1, <4>3
    <3> QED
      BY <2>2, <2>4, <3>2, <3>3
  <2> QED
    BY <2>3, <2>4
<1>17. GoodState(done, before, q)
  BY <1>11, <1>15, <1>16 DEF GoodState
<1> QED
  BY <1>17 DEF done

(* All the data fields that are delivered at a time.                       *)
LEMMA ReassembleAll ==
  ASSUME NEW k \in Nat, NEW fields, DOMAIN fields = 1..k, NEW P, NEW state, NEW before \in Nat,
         GoodState(state, before, P[0]),
         \A n \in 1..k : Spans(fields[n], P[n - 1], P[n])
  PROVE  GoodState(FoldLeft(Reassemble, state, fields), before, P[k])
<1> DEFINE V == ReassemblyState
           Step(g) == [t \in SUBSET DOMAIN fields |->
                         IF t = {} THEN state ELSE Reassemble(g[t \ {Max(t)}], fields[Max(t)])]
           I == CHOOSE g : g = Step(g)
           h == [x \in (1..k) \X V |-> Reassemble(x[2], fields[x[1]])]
<1>1. state \in V
  BY DEF GoodState
<1>2. \A n \in 1..k : fields[n] \in Seq(Piece) /\ fields[n] # <<>>
  BY DEF Spans
<1>3. \A n \in 1..k : \A v \in V : h[<<n, v>>] = Reassemble(v, fields[n]) /\ h[<<n, v>>] \in V
  BY <1>2, ReassembleIs
<1>4. FoldLeft(Reassemble, state, fields) = I[1..k]
  BY DEF FoldLeft, MapThenFoldSet
<1> HIDE DEF h, V
<1>5. StepIn(1..k, V, h)
  BY <1>3 DEF StepIn
<1>6. \A t \in SUBSET (1..k) : t # {} => Max(t) \in 1..k
  BY MaxOfSub
<1>7. \E g : g = Step(g)
  <2>1. PICK g : FoldLeftOf(k, V, state, h, g)
    BY <1>1, <1>5, FoldLeftExists
  <2>2. ASSUME NEW t \in SUBSET (1..k), t # {}
        PROVE  g[t] = Reassemble(g[t \ {Max(t)}], fields[Max(t)])
    <3>1. g[t \ {Max(t)}] \in V /\ g[t] = h[<<Max(t), g[t \ {Max(t)}]>>]
      BY <2>1, <2>2 DEF FoldLeftOf
    <3> QED
      BY <1>3, <1>6, <2>2, <3>1
  <2>3. g = Step(g)
    BY <2>1, <2>2 DEF FoldLeftOf
  <2> QED
    BY <2>3
<1>8. I = Step(I)
  BY <1>7
<1> HIDE DEF I
<1>9. I[{}] = state
  BY <1>8
<1>10. ASSUME NEW t \in SUBSET (1..k), t # {}, I[t \ {Max(t)}] \in V
       PROVE  I[t] = h[<<Max(t), I[t \ {Max(t)}]>>]
  <2>1. I[t] = Reassemble(I[t \ {Max(t)}], fields[Max(t)])
    BY <1>8, <1>10
  <2> QED
    BY <1>3, <1>6, <1>10, <2>1
<1>11. Unfolds(k, V, state, h, I)
  BY <1>9, <1>10 DEF Unfolds
<1>12. PICK r : Reaches(k, V, state, h, I, r)
  BY <1>1, <1>5, <1>11, FoldLeftSteps
<1> DEFINE N == {n \in Nat : n <= k => GoodState(r[n], before, P[n])}
<1>13. 0 \in N
  BY <1>12 DEF Reaches
<1>14. ASSUME NEW n \in Nat, n \in N PROVE n + 1 \in N
  <2>1. CASE n + 1 <= k
    <3>1. n + 1 \in 1..k /\ (n + 1) - 1 = n /\ n \in 0..k
      BY <2>1
    <3>2. r[n] \in V /\ r[n + 1] = h[<<n + 1, r[n]>>]
      BY <1>12, <3>1 DEF Reaches
    <3>3. r[n + 1] = Reassemble(r[n], fields[n + 1])
      BY <1>3, <3>1, <3>2
    <3>4. GoodState(r[n], before, P[n]) /\ Spans(fields[n + 1], P[n], P[n + 1])
      BY <1>14, <3>1
    <3>5. GoodState(r[n + 1], before, P[n + 1])
      BY <3>3, <3>4, ReassembleKeeps
    <3> QED
      BY <3>5
  <2> QED
    BY <2>1
<1>15. k \in N
  <2> HIDE DEF N
  <2> QED
    BY <1>13, <1>14, SetInduction
<1> QED
  BY <1>4, <1>12, <1>15 DEF Reaches

--------------------------------------------------------------------------------
(* The invariant.                                                          *)

(* The receiver has all of a PDU: it is delivered, or it is complete.      *)
Received(sn) == From(vtA, sn) < From(vtA, vrR) \/ rxonBuffer[sn].complete

(* VT(A) <= VR(R) <= VR(MS) <= VR(H) <= VT(S), and VR(X) is after VR(R).   *)
WindowsInv ==
  /\ From(vtA, vtS) <= WindowSize
  /\ From(vtA, vrR) <= From(vtA, vtS)
  /\ From(vrR, vrMs) <= From(vrR, vrH)
  /\ From(vrR, vrH) <= From(vrR, vtS)
  /\ reorderingTimer => From(vrR, vrX) \in 1..From(vrR, vrH)

(* The receiver holds nothing outside its window, and VR(R) and VR(MS) are *)
(* numbers it misses.                                                      *)
EntriesInv ==
  /\ \A sn \in Sn : rxonBuffer[sn] # NoEntry => sn \in Between(vrR, vrH)
  /\ ~rxonBuffer[vrR].complete
  /\ ~rxonBuffer[vrMs].complete

(* The sender holds nothing outside its window, VT(A) is a number it       *)
(* holds, and what it let go the receiver has.                             *)
BuffersInv ==
  /\ \A sn \in Sn : sn \notin Between(vtA, vtS) => buffer[sn] = "none"
  /\ vtA # vtS => buffer[vtA] # "none"
  /\ \A sn \in Between(vrR, vtS) : buffer[sn] = "none" => rxonBuffer[sn].complete

(* What a STATUS PDU says was true at the peer when it was sent: what it   *)
(* acknowledges was there, what it says is missing is not acknowledged     *)
(* yet, and the first missing one is not after VR(R).                      *)
Missed(status) == status.nacks \cup {status.ackSn}

(* Relative to VT(A) and VR(R), what a STATUS PDU acknowledges is          *)
(* received, and what it reports missing is still in a buffer of the       *)
(* sender or was acknowledged since.                                       *)
GoodStatus(status) ==
  /\ From(vtA, status.ackSn) <= From(vtA, vtS)
  /\ \A n \in status.nacks : From(vtA, n) < From(vtA, status.ackSn)
  /\ \E n \in Missed(status) : From(vtA, n) <= From(vtA, vrR)
  /\ \A n \in Missed(status) : n \in Between(vtA, vtS) => buffer[n] # "none"
  /\ \A sn \in Between(vtA, status.ackSn) \ status.nacks : Received(sn)

(* What was missing later was not acknowledged before.                     *)
Later(earlier, later) ==
  \A n \in Missed(later) : n \in earlier.nacks \/ From(vtA, earlier.ackSn) <= From(vtA, n)

(* Every STATUS PDU on its way is good, and a later one does not take back *)
(* an acknowledgement.                                                     *)
StatusInv ==
  /\ \A i \in DOMAIN statusAir : GoodStatus(statusAir[i])
  /\ \A i, j \in DOMAIN statusAir : i < j => Later(statusAir[i], statusAir[j])

(* Buffers are reported while there is something to send; the last poll    *)
(* was in the last PDU; nothing was sent in part.                          *)
TimersInv ==
  /\ txonBuffer # <<>> \/ vtA # vtS => rbsTimer
  /\ vtA # vtS => pollSn = Plus(vtS, -1)
  /\ retxAlwaysFits => \A sn \in Sn : pdu[sn].sent = 0

(* Once the last poll is answered something that waits to be sent again    *)
(* stays until it is sent: nothing after it is missing, and no answer that *)
(* is still on its way acknowledges it.                                    *)
LastMissing(b) ==
  /\ \A sn \in Between(vtA, vtS) : From(vtA, b) < From(vtA, sn) => Received(sn)
  /\ \A i \in DOMAIN statusAir :
       statusAir[i].ackSn = vtS \/ From(vtA, statusAir[i].ackSn) <= From(vtA, b)

(* While a PDU is not acknowledged the poll timer runs, or there is a PDU  *)
(* to send that will poll, or a poll is due; what was to carry that poll   *)
(* waits to be sent again, or left two places free in the window.          *)
PursuitInv ==
  retxAlwaysFits /\ vtA # vtS =>
    \/ pollTimer
    \/ pollExpired /\ ((retxBuffer # {} /\ vtS # vtMs) \/ From(vtA, vtS) + 2 <= WindowSize)
    \/ txonBuffer # <<>> /\ vtS # vtMs
    \/ \E b \in retxBuffer : LastMissing(b)

(* The PDU of a number leads from its start in the stream to the start of  *)
(* the next one, wherever it is, and what is delivered ends where VR(R)    *)
(* starts.                                                                 *)
StartsAt(start, sn) ==
  /\ start[sn][1] <= accepted + 1
  /\ buffer[sn] # "none" => Spans(pdu[sn].data, start[sn], start[Plus(sn, 1)])
  /\ rxonBuffer[sn] # NoEntry => Spans(rxonBuffer[sn].data, start[sn], start[Plus(sn, 1)])
  /\ \A i \in DOMAIN dataAir :
       dataAir[i].sn = sn => Spans(dataAir[i].data, start[sn], start[Plus(sn, 1)])

(* Where a PDU starts: an SDU and an offset in it.                         *)
Position == Nat \X Nat

(* The PDUs of the window, what waits to be sent and what is kept of the   *)
(* next SDU are consecutive stretches of one stream.                       *)
Stream(start) ==
  /\ start \in [Sn -> Position]
  /\ \A sn \in Between(vrR, vtS) : StartsAt(start, sn)
  /\ start[vtS][1] <= accepted + 1
  /\ Pending(txonBuffer, start[vtS], <<accepted + 1, 0>>)
  /\ Kept(keepS0, Len(received) + 1, start[vrR])

(* There is such a stream, and the SDUs before it were delivered in order, *)
(* once each.                                                              *)
StreamInv ==
  /\ \E start : Stream(start)
  /\ received = [i \in 1..Len(received) |-> i]

(* The inductive invariant.                                                *)
RlcAmInv ==
  /\ RlcAmTypeOK /\ statusInOrder /\ failure = "none"
  /\ WindowsInv /\ EntriesInv /\ BuffersInv /\ StatusInv /\ TimersInv
  /\ PursuitInv /\ StreamInv

--------------------------------------------------------------------------------
(* Windows.                                                                *)

(* Distances from a base that has moved forward.                           *)
LEMMA FromMoves ==
  \A a, x, y \in Sn : From(a, x) <= From(a, y) => From(x, y) = From(a, y) - From(a, x)
BY FromIs, SnIs, Sizes

(* Distances from a base that is behind.                                   *)
LEMMA FromBack ==
  \A a, x, y, z \in Sn : From(a, x) <= From(a, z) /\ From(x, y) <= From(x, z) =>
                           From(a, y) = From(a, x) + From(x, y)
BY FromIs, SnIs, Sizes

(* The types that the arithmetic of a step needs.                          *)
Pointers == vtA \in Sn /\ vtS \in Sn /\ pollSn \in Sn /\ vrR \in Sn /\ vrX \in Sn
            /\ vrMs \in Sn /\ vrH \in Sn

(* The state variables are sequence numbers.                               *)
LEMMA PointersIs ==
  /\ RlcAmTypeOK => Pointers
  /\ Pointers => \A sn \in Sn : Plus(sn, 1) \in Sn /\ Plus(sn, -1) \in Sn
BY PlusIs, WindowIsSn DEF RlcAmTypeOK, Pointers

(* Each part of the invariant speaks of some variables only.               *)
LEMMA Stand ==
  /\ WindowsInv /\ UNCHANGED <<vtA, vtS, vrR, vrX, vrMs, vrH, reorderingTimer>> => WindowsInv'
  /\ EntriesInv /\ UNCHANGED <<vrR, vrMs, vrH, rxonBuffer>> => EntriesInv'
  /\ BuffersInv /\ UNCHANGED <<vtA, vtS, vrR, rxonBuffer, buffer>> => BuffersInv'
  /\ StatusInv /\ UNCHANGED <<vtA, vtS, vrR, rxonBuffer, buffer, statusAir>> => StatusInv'
  /\ TimersInv /\ UNCHANGED <<retxAlwaysFits, txonBuffer, vtA, vtS, rbsTimer, pollSn, pdu>> => TimersInv'
  /\ PursuitInv /\ UNCHANGED <<retxAlwaysFits, txonBuffer, vtA, vtS, vrR, rxonBuffer, buffer,
                               statusAir, pollTimer, pollExpired>> => PursuitInv'
  /\ StreamInv /\ UNCHANGED <<accepted, txonBuffer, vtS, vrR, buffer, pdu, rxonBuffer, dataAir,
                              keepS0, received>> => StreamInv'
<1>1. WindowsInv /\ UNCHANGED <<vtA, vtS, vrR, vrX, vrMs, vrH, reorderingTimer>> => WindowsInv'
  BY DEF WindowsInv
<1>2. EntriesInv /\ UNCHANGED <<vrR, vrMs, vrH, rxonBuffer>> => EntriesInv'
  BY DEF EntriesInv
<1>3. BuffersInv /\ UNCHANGED <<vtA, vtS, vrR, rxonBuffer, buffer>> => BuffersInv'
  BY DEF BuffersInv
<1>4. StatusInv /\ UNCHANGED <<vtA, vtS, vrR, rxonBuffer, buffer, statusAir>> => StatusInv'
  <2> SUFFICES ASSUME StatusInv, UNCHANGED <<vtA, vtS, vrR, rxonBuffer, buffer, statusAir>>
               PROVE  StatusInv'
    OBVIOUS
  <2>1. \A s : GoodStatus(s) => GoodStatus(s)'
    BY DEF GoodStatus, Received
  <2>2. \A s, t : Later(s, t) => Later(s, t)'
    BY DEF Later
  <2> QED
    BY <2>1, <2>2 DEF StatusInv
<1>5. TimersInv /\ UNCHANGED <<retxAlwaysFits, txonBuffer, vtA, vtS, rbsTimer, pollSn, pdu>> => TimersInv'
  BY DEF TimersInv
<1>6. PursuitInv /\ UNCHANGED <<retxAlwaysFits, txonBuffer, vtA, vtS, vrR, rxonBuffer, buffer,
                                statusAir, pollTimer, pollExpired>> => PursuitInv'
  BY DEF PursuitInv, LastMissing, Received, retxBuffer, InBuffer, vtMs
<1>7. StreamInv /\ UNCHANGED <<accepted, txonBuffer, vtS, vrR, buffer, pdu, rxonBuffer, dataAir,
                               keepS0, received>> => StreamInv'
  <2> SUFFICES ASSUME StreamInv,
                      UNCHANGED <<accepted, txonBuffer, vtS, vrR, buffer, pdu, rxonBuffer, dataAir,
                                  keepS0, received>>
               PROVE  StreamInv'
    OBVIOUS
  <2>1. \A start, sn : StartsAt(start, sn) => StartsAt(start, sn)'
    BY DEF StartsAt
  <2>2. \A start : Stream(start) => Stream(start)'
    BY <2>1 DEF Stream
  <2> QED
    BY <2>2 DEF StreamInv
<1> QED
  BY <1>1, <1>2, <1>3, <1>4, <1>5, <1>6, <1>7

--------------------------------------------------------------------------------
(* The beginning.                                                          *)

(* A bearer that was just set up satisfies the invariant.                  *)
LEMMA InitInv == Init /\ statusInOrder => RlcAmInv
<1> SUFFICES ASSUME Init, statusInOrder PROVE RlcAmInv
  OBVIOUS
<1> USE DEF Init
<1>1. FirstSn \in Sn /\ From(FirstSn, FirstSn) = 0
  BY RlcAmAssumption, FromSelf DEF Sn
<1>2. RlcAmTypeOK
  <2>1. NoPdu \in [data : Seq(Piece), sent : Nat]
        /\ NoEntry \in [data : Seq(Piece), got : Nat, complete : BOOLEAN]
    BY DEF NoPdu, NoEntry
  <2>2. SduSizes \in Seq(Nat \ {0}) /\ MaxLosses \in Nat
        /\ RetxAlwaysFits \subseteq BOOLEAN /\ StatusInOrder \subseteq BOOLEAN
    BY RlcAmAssumption
  <2>3. buffer \in [Sn -> {"none", "txed", "retx"}]
        /\ pdu \in [Sn -> [data : Seq(Piece), sent : Nat]]
        /\ rxonBuffer \in [Sn -> [data : Seq(Piece), got : Nat, complete : BOOLEAN]]
    BY <2>1
  <2>4. accepted \in 0..Len(SduSizes) /\ losses \in 0..MaxLosses
    BY <2>2
  <2>5. /\ txonBuffer \in Seq(Piece) /\ keepS0 \in Seq(Piece) /\ received \in Seq(0..Len(SduSizes))
        /\ dataAir \in Seq(AmdPdu) /\ statusAir \in Seq(StatusPdu)
    OBVIOUS
  <2>6. {vtA, vtS, pollSn, vrR, vrX, vrMs, vrH} \subseteq Sn
    BY <1>1
  <2>7. retxAlwaysFits \in BOOLEAN /\ statusInOrder \in BOOLEAN
    BY <2>2
  <2>8. {pollTimer, pollExpired, rbsTimer, reported, reorderingTimer, statusRequested,
         prohibitTimer, statusReported} \subseteq BOOLEAN
    OBVIOUS
  <2> QED
    BY <2>3, <2>4, <2>5, <2>6, <2>7, <2>8 DEF RlcAmTypeOK, Failures
<1>3. WindowsInv
  BY <1>1, Sizes DEF WindowsInv
<1>4. Between(FirstSn, FirstSn) = {}
  BY <1>1, BetweenIs, FromIs, SnIs
<1>5. EntriesInv /\ BuffersInv
  BY <1>1, <1>4 DEF EntriesInv, BuffersInv, NoEntry
<1>6. StatusInv /\ TimersInv /\ PursuitInv
  BY DEF StatusInv, TimersInv, PursuitInv, NoPdu
<1>7. StreamInv
  <2> DEFINE start == [sn \in Sn |-> <<1, 0>>]
  <2>1. start \in [Sn -> Position] /\ start[FirstSn] = <<1, 0>>
    BY <1>1 DEF Position
  <2> HIDE DEF start
  <2>2. Stream(start)
    BY <1>4, <2>1 DEF Stream, Pending, Kept
  <2> QED
    BY <2>2 DEF StreamInv
<1> QED
  BY <1>2, <1>3, <1>5, <1>6, <1>7 DEF RlcAmInv

--------------------------------------------------------------------------------
(* New SDUs, reports and timers.                                           *)

(* A PDU that is not acknowledged makes the window one that is not empty.  *)
LEMMA SomethingUnacknowledged ==
  ASSUME Pointers, NEW sn \in Between(vtA, vtS)
  PROVE  vtA # vtS /\ vtA \in Between(vtA, vtS)
BY FromSelf, BetweenIs, FromIs, SnIs DEF Pointers

(* The head-of-line delay is that of a PDU.                                *)
LEMMA ReportFindsPdu ==
  ASSUME RlcAmTypeOK, failure = "none", NEW txon, NEW buffers,
         \A sn \in Sn : sn \notin Between(vtA, vtS) => buffers[sn] # "retx",
         vtA # vtS => buffers[vtA] # "none",
         ReportBufferStatus(txon, buffers)
  PROVE  failure' = "none" /\ reported' \in BOOLEAN
<1>1. InBuffer("retx", buffers) # {} => buffers[vtA] # "none"
  BY PointersIs, SomethingUnacknowledged DEF InBuffer
<1>2. failure' = "none"
  BY <1>1 DEF ReportBufferStatus
<1>3. reported' \in BOOLEAN
  BY DEF ReportBufferStatus, RlcAmTypeOK
<1> QED
  BY <1>2, <1>3

(* The greatest of some numbers, by their distance.                        *)
LEMMA LastOf ==
  ASSUME NEW base \in Sn, NEW S, S \subseteq Sn, S # {}
  PROVE  \E b \in S : \A m \in S : From(base, m) <= From(base, b)
<1> DEFINE D == {Modulus - From(base, n) : n \in S}
<1>1. \A n \in S : From(base, n) \in Nat /\ From(base, n) < Modulus
  BY FromIs, SnIs
<1>2. D \subseteq Nat /\ D # {}
  BY <1>1, Sizes
<1>3. PICK e \in D : \A f \in D : e <= f
  <2> HIDE DEF D
  <2> QED
    BY <1>2, LeastNat
<1>4. PICK b \in S : e = Modulus - From(base, b)
  BY <1>3
<1>5. ASSUME NEW m \in S PROVE From(base, m) <= From(base, b)
  <2>1. Modulus - From(base, b) <= Modulus - From(base, m)
    BY <1>3, <1>4
  <2> QED
    BY <1>1, <2>1, Sizes
<1> QED
  BY <1>5

(* What is in the MAC.                                                     *)
LEMMA Airs ==
  ASSUME RlcAmTypeOK
  PROVE  /\ dataAir \in Seq(AmdPdu) /\ Len(dataAir) \in Nat /\ DOMAIN dataAir = 1..Len(dataAir)
         /\ statusAir \in Seq(StatusPdu) /\ Len(statusAir) \in Nat
         /\ DOMAIN statusAir = 1..Len(statusAir)
         /\ \A i \in DOMAIN dataAir : dataAir[i] \in AmdPdu
         /\ \A i \in DOMAIN statusAir : statusAir[i] \in StatusPdu /\ statusAir[i].ackSn \in Sn
<1>1. dataAir \in Seq(AmdPdu) /\ statusAir \in Seq(StatusPdu)
  BY DEF RlcAmTypeOK
<1>2. \A i \in DOMAIN statusAir : statusAir[i] \in StatusPdu
  BY <1>1
<1>3. \A s \in StatusPdu : s.ackSn \in Sn
  BY DEF StatusPdu
<1> QED
  BY <1>1, <1>2, <1>3

(* What ReportFindsPdu needs to know of the buffers.                       *)
LEMMA BuffersReport ==
  ASSUME BuffersInv
  PROVE  /\ \A sn \in Sn : sn \notin Between(vtA, vtS) => buffer[sn] # "retx"
         /\ vtA # vtS => buffer[vtA] # "none"
BY DEF BuffersInv

(* A queue with one SDU more.                                              *)
LEMMA PendingMore ==
  ASSUME NEW queue \in Seq(Piece), NEW p, NEW sdu \in DOMAIN SduSizes, Pending(queue, p, <<sdu, 0>>)
  PROVE  /\ FullSdu(sdu) \in Piece
         /\ Spans(Append(queue, FullSdu(sdu)), p, <<sdu + 1, 0>>)
<1>1. SduSizes[sdu] \in Nat \ {0} /\ sdu \in Nat
  BY RlcAmAssumption
<1>2. PICK size : size = SduSizes[sdu]
  OBVIOUS
<1>3. FullSdu(sdu) = [sdu |-> sdu, from |-> 0, to |-> size]
  BY <1>2 DEF FullSdu
<1> DEFINE full == FullSdu(sdu)
<1>4. full.sdu = sdu /\ full.from = 0 /\ full.to = size
  BY <1>3
<1>5. full \in Piece
  BY <1>1, <1>2, <1>3, <1>4 DEF Piece
<1>6. At(full) = <<sdu, 0>> /\ After(full) = <<sdu + 1, 0>>
  BY <1>2, <1>4 DEF At, After, IsLast
<1> HIDE DEF full
<1> DEFINE longer == Append(queue, full)
           n == Len(queue)
<1>7. /\ longer \in Seq(Piece) /\ Len(longer) = n + 1 /\ n \in Nat /\ longer # <<>>
      /\ longer[n + 1] = full /\ \A i \in 1..n : longer[i] = queue[i]
  BY <1>5
<1> HIDE DEF longer
<1>8. CASE queue = <<>>
  <2>1. n = 0 /\ p = <<sdu, 0>>
    BY <1>8 DEF Pending, Spans
  <2> QED
    BY <1>5, <1>6, <1>7, <2>1 DEF Spans, full, longer
<1>9. CASE queue # <<>>
  <2>1. Spans(queue, p, <<sdu, 0>>) /\ 1 <= n
    BY <1>9 DEF Pending
  <2>2. queue[n] \in Piece
    BY <1>7, <2>1
  <2>3. IsLast(queue[n]) /\ After(queue[n]) = <<sdu, 0>>
    <3>1. After(queue[n]) = <<sdu, 0>>
      BY <2>1 DEF Spans
    <3>2. queue[n].to # 0
      BY <2>2, PieceIs
    <3> QED
      BY <3>1, <3>2 DEF After
  <2>4. At(longer[1]) = p
    BY <1>7, <2>1 DEF Spans
  <2>5. ASSUME NEW i \in 1..((n + 1) - 1) PROVE IsLast(longer[i]) /\ At(longer[i + 1]) = After(longer[i])
    <3>1. CASE i = n
      BY <1>6, <1>7, <2>1, <2>3, <3>1
    <3>2. CASE i # n
      <4>1. i \in 1..(n - 1) /\ i \in 1..n /\ i + 1 \in 1..n
        BY <1>7, <3>2
      <4> QED
        BY <1>7, <2>1, <4>1 DEF Spans
    <3> QED
      BY <3>1, <3>2
  <2>6. Spans(longer, p, <<sdu + 1, 0>>)
    BY <1>6, <1>7, <2>4, <2>5 DEF Spans
  <2> QED
    BY <1>5, <2>6 DEF full, longer
<1> QED
  BY <1>8, <1>9

(* An SDU from PDCP is queued or dropped.                                  *)
LEMMA TransmitPdcpPduStep ==
  ASSUME RlcAmInv, TransmitPdcpPdu, UNCHANGED configuration
  PROVE  RlcAmInv'
<1> USE DEF RlcAmInv
<1> SUFFICES RlcAmInv'
  OBVIOUS
<1>1. UNCHANGED <<vtA, vtS, buffer, pdu, pollSn, pollTimer, pollExpired, rxVars, macVars>>
      /\ rbsTimer' = TRUE
  BY DEF TransmitPdcpPdu
<1>2. failure' = "none" /\ reported' \in BOOLEAN
  BY ReportFindsPdu, BuffersReport DEF TransmitPdcpPdu
<1>3. /\ accepted < Len(SduSizes)
      /\ \/ accepted' = accepted + 1 /\ txonBuffer' = Append(txonBuffer, FullSdu(accepted + 1))
         \/ UNCHANGED <<accepted, txonBuffer>>
  BY DEF TransmitPdcpPdu
<1>4. accepted \in Nat /\ txonBuffer \in Seq(Piece) /\ accepted + 1 \in DOMAIN SduSizes
  <2>1. Len(SduSizes) \in Nat /\ DOMAIN SduSizes = 1..Len(SduSizes)
    BY RlcAmAssumption
  <2> QED
    BY <1>3, <2>1 DEF RlcAmTypeOK
<1> USE <1>1 DEF rxVars, macVars, configuration
<1>5. ASSUME NEW start, Stream(start), accepted' = accepted + 1,
             txonBuffer' = Append(txonBuffer, FullSdu(accepted + 1))
      PROVE  Stream(start)'
  <2>1. Spans(txonBuffer', start[vtS], <<(accepted + 1) + 1, 0>>)
    BY <1>4, <1>5, PendingMore DEF Stream
  <2>2. ASSUME NEW sn, StartsAt(start, sn), start[sn] \in Position PROVE StartsAt(start, sn)'
    BY <1>4, <1>5, <2>2 DEF StartsAt, Position
  <2>3. start \in [Sn -> Position] /\ vtS \in Sn /\ \A sn \in Between(vrR, vtS) : sn \in Sn
    BY <1>5, BetweenIs DEF Stream, RlcAmTypeOK
  <2>4. start[vtS][1] <= accepted' + 1
    BY <1>4, <1>5, <2>3 DEF Stream, Position
  <2> QED
    BY <1>5, <2>1, <2>2, <2>3, <2>4 DEF Stream, Pending
<1>6. StreamInv'
  <2>1. CASE UNCHANGED <<accepted, txonBuffer>>
    BY <2>1, Stand
  <2>2. CASE ~UNCHANGED <<accepted, txonBuffer>>
    BY <1>3, <1>5, <2>2 DEF StreamInv
  <2> QED
    BY <2>1, <2>2
<1>7. txonBuffer' \in Seq(Piece) /\ (txonBuffer # <<>> => txonBuffer' # <<>>) /\ accepted' \in 0..Len(SduSizes)
  <2>1. FullSdu(accepted + 1) \in Piece
    <3>1. PICK start : Stream(start)
      BY DEF StreamInv
    <3> QED
      BY <1>4, <3>1, PendingMore DEF Stream
  <2>2. Append(txonBuffer, FullSdu(accepted + 1)) \in Seq(Piece)
        /\ Append(txonBuffer, FullSdu(accepted + 1)) # <<>>
    BY <1>4, <2>1
  <2>3. txonBuffer' \in Seq(Piece) /\ (txonBuffer # <<>> => txonBuffer' # <<>>)
    BY <1>3, <1>4, <2>2
  <2>4. Len(SduSizes) \in Nat
    BY RlcAmAssumption
  <2>5. accepted' \in 0..Len(SduSizes)
    <3>1. PICK len \in Nat : len = Len(SduSizes)
      BY <2>4
    <3>2. accepted' = accepted \/ accepted' = accepted + 1
      BY <1>3
    <3>3. accepted' \in 0..len
      BY <1>3, <1>4, <3>1, <3>2
    <3> QED
      BY <3>1, <3>3
  <2> QED
    BY <2>3, <2>5
<1>8. RlcAmTypeOK'
  BY <1>2, <1>7 DEF RlcAmTypeOK, Failures
<1>9. WindowsInv' /\ EntriesInv' /\ BuffersInv' /\ StatusInv'
  BY Stand
<1>10. TimersInv'
  BY DEF TimersInv
<1>11. PursuitInv'
  BY <1>7 DEF PursuitInv, LastMissing, Received, retxBuffer, InBuffer, vtMs
<1>12. (statusInOrder)'
  OBVIOUS
<1> QED
  BY <1>2, <1>6, <1>8, <1>9, <1>10, <1>11, <1>12

(* A transmit opportunity that is too small, or that finds nothing to      *)
(* send.                                                                   *)
LEMMA WasteStep ==
  ASSUME RlcAmInv, WasteTxOpportunity, UNCHANGED configuration
  PROVE  RlcAmInv'
<1> USE DEF RlcAmInv
<1>1. UNCHANGED <<txonBuffer, accepted, vtA, vtS, buffer, pdu, pollSn, pollTimer, pollExpired,
                  rbsTimer, rxVars, macVars, failure>>
      /\ reported' = FALSE
  BY DEF WasteTxOpportunity
<1> USE <1>1 DEF rxVars, macVars, configuration
<1>2. RlcAmTypeOK'
  BY DEF RlcAmTypeOK, Failures
<1> QED
  BY <1>2, Stand

(* What is no longer in a buffer of the sender was received.               *)
LEMMA AckedIsReceived ==
  ASSUME Pointers, WindowsInv, BuffersInv, NEW sn \in Between(vtA, vtS), buffer[sn] = "none"
  PROVE  Received(sn)
<1>1. CASE From(vtA, sn) < From(vtA, vrR)
  BY <1>1 DEF Received
<1>2. CASE ~(From(vtA, sn) < From(vtA, vrR))
  <2>1. sn \in Sn /\ From(vtA, sn) < From(vtA, vtS) /\ \A y \in Sn : From(vtA, y) \in Int
    BY BetweenIs, FromIs, SnIs DEF Pointers
  <2>2. From(vrR, sn) = From(vtA, sn) - From(vtA, vrR)
        /\ From(vrR, vtS) = From(vtA, vtS) - From(vtA, vrR)
    BY <1>2, <2>1, FromMoves DEF WindowsInv, Pointers
  <2>3. sn \in Between(vrR, vtS)
    BY <2>1, <2>2, BetweenIs DEF Pointers
  <2> QED
    BY <2>3 DEF BuffersInv, Received
<1> QED
  BY <1>1, <1>2

(* The poll timer expires: all that is not acknowledged is sent again when *)
(* there is nothing new to send.                                           *)
LEMMA ExpirePollRetransmitTimerStep ==
  ASSUME RlcAmInv, ExpirePollRetransmitTimer, UNCHANGED configuration
  PROVE  RlcAmInv'
<1> USE DEF RlcAmInv
<1>1. /\ UNCHANGED <<accepted, txonBuffer, vtA, vtS, pdu, pollSn, rbsTimer, rxVars, macVars>>
      /\ pollTimer' = FALSE /\ pollExpired' = TRUE /\ buffer' = ToRetransmit
  BY DEF ExpirePollRetransmitTimer
<1> USE <1>1 DEF rxVars, macVars, configuration
<1>2. /\ buffer' \in [Sn -> {"none", "txed", "retx"}]
      /\ \A sn \in Sn : buffer'[sn] = "none" <=> buffer[sn] = "none"
  BY DEF ToRetransmit, RlcAmTypeOK
<1>3. Pointers /\ \A sn \in Between(vtA, vtS) : sn \in Sn
  BY PointersIs, BetweenIs
<1>4. /\ \A sn \in Sn : sn \notin Between(vtA, vtS) => buffer'[sn] # "retx"
      /\ vtA # vtS => buffer'[vtA] # "none"
  BY <1>2, <1>3 DEF BuffersInv, Pointers
<1>5. failure' = "none" /\ reported' \in BOOLEAN
  <2> PICK buffers : buffers = buffer'
    OBVIOUS
  <2>1. ReportBufferStatus(txonBuffer, buffers)
    BY DEF ExpirePollRetransmitTimer
  <2> QED
    BY <1>4, <2>1, ReportFindsPdu
<1>6. RlcAmTypeOK'
  BY <1>2, <1>5 DEF RlcAmTypeOK, Failures
<1>7. WindowsInv' /\ EntriesInv' /\ TimersInv'
  BY Stand
<1>8. BuffersInv'
  <2>1. \A sn \in Between(vrR, vtS) : sn \in Sn
    BY BetweenIs
  <2> QED
    BY <1>2, <1>3, <2>1 DEF BuffersInv, Pointers
<1>9. StatusInv'
  <2>1. \A s : GoodStatus(s) => GoodStatus(s)'
    BY <1>2, <1>3 DEF GoodStatus, Received
  <2>2. \A s, t : Later(s, t) => Later(s, t)'
    BY DEF Later
  <2> QED
    BY <2>1, <2>2 DEF StatusInv
<1>10. PursuitInv'
  <2> SUFFICES ASSUME vtA # vtS
               PROVE  \/ retxBuffer' # {} /\ vtS # vtMs
                      \/ txonBuffer # <<>> /\ vtS # vtMs
                      \/ \E b \in retxBuffer' : LastMissing(b)'
    BY DEF PursuitInv, vtMs
  <2>1. CASE ~((txonBuffer = <<>> /\ retxBuffer = {}) \/ vtS = vtMs)
    <3>1. buffer' = buffer
      BY <2>1 DEF ToRetransmit
    <3> QED
      BY <2>1, <3>1 DEF retxBuffer, InBuffer
  <2>2. CASE (txonBuffer = <<>> /\ retxBuffer = {}) \/ vtS = vtMs
    <3>1. \A sn \in Between(vtA, vtS) : buffer[sn] # "none" => buffer'[sn] = "retx"
      BY <1>3, <2>2 DEF ToRetransmit, Unacknowledged, RlcAmTypeOK
    <3> DEFINE held == {sn \in Between(vtA, vtS) : buffer[sn] # "none"}
    <3>2. held \subseteq Sn /\ vtA \in held
      <4>1. buffer[vtA] # "none"
        BY DEF BuffersInv
      <4>2. vtA \in Between(vtA, vtS)
        BY <1>3, FromSelf, FromZero, BetweenIs, FromIs, SnIs DEF Pointers
      <4> QED
        BY <1>3, <4>1, <4>2
    <3>3. PICK b \in held : \A m \in held : From(vtA, m) <= From(vtA, b)
      <4> HIDE DEF held
      <4> QED
        BY <1>3, <3>2, LastOf DEF Pointers
    <3>4. \A sn \in Sn : From(vtA, sn) \in Int
      BY <1>3, FromIs, SnIs DEF Pointers
    <3>5. ASSUME NEW sn \in Between(vtA, vtS), From(vtA, b) < From(vtA, sn) PROVE Received(sn)
      <4>1. sn \in Sn /\ b \in Sn /\ buffer[sn] = "none"
        BY <1>3, <3>3, <3>4, <3>5
      <4> QED
        BY <1>3, <4>1, AckedIsReceived
    <3>6. ASSUME NEW i \in DOMAIN statusAir
          PROVE  statusAir[i].ackSn = vtS \/ From(vtA, statusAir[i].ackSn) <= From(vtA, b)
      <4>1. PICK ack \in Sn : ack = statusAir[i].ackSn
        BY Airs
      <4>2. GoodStatus(statusAir[i]) /\ ack \in Missed(statusAir[i])
        BY <4>1 DEF StatusInv, Missed
      <4>3. From(vtA, ack) <= From(vtA, vtS) /\ (ack \in Between(vtA, vtS) => buffer[ack] # "none")
        BY <4>1, <4>2 DEF GoodStatus
      <4>4. CASE From(vtA, ack) = From(vtA, vtS)
        BY <1>3, <4>1, <4>4, FromEqual DEF Pointers
      <4>5. CASE From(vtA, ack) # From(vtA, vtS)
        <5>1. ack \in held
          BY <1>3, <3>4, <4>1, <4>3, <4>5, BetweenIs DEF Pointers
        <5> QED
          BY <3>3, <4>1, <5>1
      <4> QED
        BY <4>4, <4>5
    <3>7. b \in retxBuffer'
      BY <1>3, <3>1, <3>3 DEF retxBuffer, InBuffer
    <3>8. LastMissing(b)'
      BY <3>5, <3>6 DEF LastMissing, Received
    <3> QED
      BY <3>7, <3>8
  <2> QED
    BY <2>1, <2>2
<1>11. StreamInv'
  <2>1. \A start, sn : sn \in Sn /\ StartsAt(start, sn) => StartsAt(start, sn)'
    BY <1>2 DEF StartsAt
  <2>2. \A start : Stream(start) => Stream(start)'
    BY <2>1, BetweenIs DEF Stream
  <2> QED
    BY <2>2 DEF StreamInv
<1> QED
  BY <1>5, <1>6, <1>7, <1>8, <1>9, <1>10, <1>11

(* The buffers are reported again.                                         *)
LEMMA ExpireRbsTimerStep ==
  ASSUME RlcAmInv, ExpireRbsTimer, UNCHANGED configuration
  PROVE  RlcAmInv'
<1> USE DEF RlcAmInv
<1>1. /\ UNCHANGED <<accepted, txonBuffer, vtA, vtS, buffer, pdu, pollSn, pollTimer, pollExpired,
                     rxVars, macVars>>
      /\ rbsTimer' = HasData
  BY DEF ExpireRbsTimer
<1> USE <1>1 DEF rxVars, macVars, configuration
<1>2. failure' = "none" /\ reported' \in BOOLEAN
  <2>1. CASE HasData
    <3>1. ReportBufferStatus(txonBuffer, buffer)
      BY <2>1 DEF ExpireRbsTimer
    <3> QED
      BY <3>1, ReportFindsPdu, BuffersReport
  <2>2. CASE ~HasData
    BY <2>2 DEF ExpireRbsTimer, RlcAmTypeOK
  <2> QED
    BY <2>1, <2>2
<1>3. txonBuffer # <<>> \/ vtA # vtS => HasData
  BY PointersIs DEF BuffersInv, HasData, Pointers
<1>4. RlcAmTypeOK'
  BY <1>2 DEF RlcAmTypeOK, Failures, HasData
<1>5. TimersInv'
  BY <1>3 DEF TimersInv
<1> QED
  BY <1>2, <1>4, <1>5, Stand

(* A STATUS PDU may be sent again.                                         *)
LEMMA ExpireStatusProhibitTimerStep ==
  ASSUME RlcAmInv, ExpireStatusProhibitTimer, UNCHANGED configuration
  PROVE  RlcAmInv'
<1> USE DEF RlcAmInv
<1>1. /\ UNCHANGED <<vrR, vrX, vrMs, vrH, rxonBuffer, reorderingTimer, statusRequested,
                     statusReported, keepS0, received, txVars, macVars, failure>>
      /\ prohibitTimer' = FALSE
  BY DEF ExpireStatusProhibitTimer
<1> USE <1>1 DEF txVars, macVars, configuration
<1>2. RlcAmTypeOK'
  BY DEF RlcAmTypeOK, Failures
<1> QED
  BY <1>2, Stand

(* t-Reordering expires: VR(MS) moves to the next number that is missing.  *)
LEMMA ExpireReorderingTimerStep ==
  ASSUME RlcAmInv, ExpireReorderingTimer, UNCHANGED configuration
  PROVE  RlcAmInv'
<1> USE DEF RlcAmInv
<1>1. /\ UNCHANGED <<vrR, vrH, rxonBuffer, prohibitTimer, statusReported, keepS0, received,
                     txVars, macVars, failure>>
      /\ statusRequested' = TRUE /\ reorderingTimer
      /\ vrMs' = FirstMissing(rxonBuffer, vrX)
      /\ reorderingTimer' = (From(vrR, vrH) > From(vrR, vrMs'))
      /\ vrX' = IF reorderingTimer' THEN vrH ELSE vrX
  BY DEF ExpireReorderingTimer
<1> USE <1>1 DEF txVars, macVars, configuration
<1>2. Pointers
  BY PointersIs
<1>3. ~rxonBuffer[vrH].complete
  <2>1. vrH \notin Between(vrR, vrH)
    BY <1>2, BetweenIs, FromIs, SnIs DEF Pointers
  <2> QED
    BY <1>2, <2>1 DEF EntriesInv, NoEntry, Pointers
<1>4. /\ vrMs' \in Sn /\ From(vrX, vrMs') <= From(vrX, vrH) /\ ~rxonBuffer[vrMs'].complete
  BY <1>2, <1>3, FirstMissingIs DEF Pointers
<1>5. From(vrR, vrX) \in Sn /\ From(vrR, vrH) \in Sn /\ From(vrR, vrMs') \in Sn
      /\ From(vrX, vrMs') \in Sn
  BY <1>2, <1>4, FromIs DEF Pointers
<1>6. From(vrR, vrX) <= From(vrR, vrH)
  BY <1>5, SnIs DEF WindowsInv
<1>7. From(vrR, vrMs') <= From(vrR, vrH)
  <2>1. From(vrR, vrMs') = From(vrR, vrX) + From(vrX, vrMs')
    BY <1>2, <1>4, <1>6, FromBack DEF Pointers
  <2>2. From(vrX, vrH) = From(vrR, vrH) - From(vrR, vrX)
    BY <1>2, <1>6, FromMoves DEF Pointers
  <2> QED
    BY <1>4, <1>5, <2>1, <2>2, SnIs
<1>8. RlcAmTypeOK'
  <2>1. vrX' \in Sn /\ reorderingTimer' \in BOOLEAN
    BY <1>2 DEF Pointers
  <2> QED
    BY <1>4, <2>1 DEF RlcAmTypeOK, Failures
<1>9. WindowsInv'
  <2>1. ASSUME reorderingTimer' PROVE From(vrR, vrX') \in 1..From(vrR, vrH)
    <3>1. vrX' = vrH /\ From(vrR, vrH) > From(vrR, vrMs')
      BY <2>1
    <3>2. From(vrR, vrMs') \in Nat /\ From(vrR, vrH) \in Nat
      BY <1>5, SnIs
    <3> QED
      BY <3>1, <3>2
  <2> QED
    BY <1>7, <2>1 DEF WindowsInv
<1>10. EntriesInv'
  BY <1>4 DEF EntriesInv
<1> QED
  BY <1>8, <1>9, <1>10, Stand

--------------------------------------------------------------------------------
(* STATUS PDUs.                                                            *)

(* The least of some numbers, by their distance.                           *)
LEMMA FirstOf ==
  ASSUME NEW base \in Sn, NEW S, S \subseteq Sn, S # {}
  PROVE  LET x == CHOOSE n \in S : \A m \in S : From(base, n) <= From(base, m)
         IN  x \in S /\ \A m \in S : From(base, x) <= From(base, m)
<1> DEFINE D == {From(base, n) : n \in S}
<1>1. D \subseteq Nat /\ D # {}
  BY FromIs, SnIs
<1>2. PICK d \in D : \A e \in D : d <= e
  <2> HIDE DEF D
  <2> QED
    BY <1>1, LeastNat
<1>3. \E n \in S : \A m \in S : From(base, n) <= From(base, m)
  BY <1>2
<1> QED
  BY <1>3

(* Every number that is missing is found, in order, as far as there is     *)
(* room.                                                                   *)
MissingBefore(sn) == {m \in Between(vrR, vrMs) : ~rxonBuffer[m].complete /\ From(vrR, m) <= From(vrR, sn)}
MissingNow == {sn \in Between(vrR, vrMs) : ~rxonBuffer[sn].complete}
NacksFor(room) == {sn \in MissingNow : Cardinality(MissingBefore(sn)) <= room}

(* The NACKs of a STATUS PDU are the first missing numbers.                *)
LEMMA NacksAre ==
  ASSUME Pointers, NEW room \in 1..WindowSize, ~rxonBuffer[vrR].complete
  PROVE  /\ NacksFor(room) \subseteq MissingNow
         /\ \A n \in NacksFor(room), m \in MissingNow :
               From(vrR, m) <= From(vrR, n) => m \in NacksFor(room)
         /\ vrR # vrMs => vrR \in NacksFor(room)
<1>1. IsFiniteSet(Sn)
  BY Sizes, FS_Interval DEF Sn
<1>2. \A sn : MissingBefore(sn) \subseteq Sn
  BY DEF MissingBefore, Between
<1>3. \A sn : IsFiniteSet(MissingBefore(sn)) /\ Cardinality(MissingBefore(sn)) \in Nat
  BY <1>1, <1>2, FS_Subset, FS_CardinalityType
<1>4. ASSUME NEW n \in NacksFor(room), NEW m \in MissingNow, From(vrR, m) <= From(vrR, n)
      PROVE  m \in NacksFor(room)
  <2>1. n \in Sn /\ m \in Sn
    BY BetweenIs DEF NacksFor, MissingNow
  <2>2. MissingBefore(m) \subseteq MissingBefore(n)
    <3> SUFFICES ASSUME NEW k \in MissingBefore(m) PROVE k \in MissingBefore(n)
      OBVIOUS
    <3>1. k \in Sn /\ k \in Between(vrR, vrMs) /\ ~rxonBuffer[k].complete /\ From(vrR, k) <= From(vrR, m)
      BY BetweenIs DEF MissingBefore
    <3>2. From(vrR, k) \in Int /\ From(vrR, m) \in Int /\ From(vrR, n) \in Int
      BY <2>1, <3>1, FromIs, SnIs DEF Pointers
    <3> QED
      BY <1>4, <3>1, <3>2 DEF MissingBefore
  <2>3. Cardinality(MissingBefore(m)) <= Cardinality(MissingBefore(n))
    BY <1>3, <2>2, FS_Subset
  <2>4. Cardinality(MissingBefore(n)) <= room
    BY DEF NacksFor
  <2>5. Cardinality(MissingBefore(m)) <= room
    BY <1>3, <2>3, <2>4
  <2> QED
    BY <2>5 DEF NacksFor
<1>5. ASSUME vrR # vrMs PROVE vrR \in NacksFor(room)
  <2>1. vrR \in Between(vrR, vrMs)
    <3>1. From(vrR, vrR) = 0 /\ From(vrR, vrMs) # 0 /\ From(vrR, vrMs) \in Sn
      BY <1>5, FromSelf, FromZero, FromIs DEF Pointers
    <3> QED
      BY <3>1, BetweenIs, SnIs DEF Pointers
  <2>2. MissingBefore(vrR) = {vrR}
    <3>1. \A m \in Sn : From(vrR, m) <= From(vrR, vrR) => m = vrR
      BY FromSelf, FromZero, FromIs, SnIs DEF Pointers
    <3>2. From(vrR, vrR) <= From(vrR, vrR)
      BY FromSelf DEF Pointers
    <3> QED
      BY <2>1, <3>1, <3>2, BetweenIs DEF MissingBefore
  <2>3. Cardinality(MissingBefore(vrR)) = 1
    BY <2>2, FS_Singleton
  <2> QED
    BY <2>1, <2>3 DEF NacksFor, MissingNow
<1> QED
  BY <1>4, <1>5 DEF NacksFor

(* ACK_SN is the first missing number that is not among them.              *)
LEMMA AckSnIs ==
  ASSUME Pointers, NEW nacks
  PROVE  /\ AckSn(nacks) \in Sn
         /\ AckSn(nacks) = vrMs \/ AckSn(nacks) \in MissingNow \ nacks
         /\ From(vrR, AckSn(nacks)) <= From(vrR, vrMs)
         /\ \A sn \in MissingNow \ nacks : From(vrR, AckSn(nacks)) <= From(vrR, sn)
<1> DEFINE unsaid == {sn \in Between(vrR, vrMs) : ~rxonBuffer[sn].complete /\ sn \notin nacks} \cup {vrMs}
<1>1. unsaid \subseteq Sn /\ unsaid # {} /\ unsaid = (MissingNow \ nacks) \cup {vrMs}
  BY BetweenIs DEF Pointers, MissingNow
<1>2. AckSn(nacks) = CHOOSE n \in unsaid : \A m \in unsaid : From(vrR, n) <= From(vrR, m)
  BY DEF AckSn
<1> HIDE DEF unsaid
<1>3. AckSn(nacks) \in unsaid /\ \A m \in unsaid : From(vrR, AckSn(nacks)) <= From(vrR, m)
  <2>1. vrR \in Sn
    BY DEF Pointers
  <2> QED
    BY ONLY ZenonT(60), <1>1, <1>2, <2>1, FirstOf
<1> QED
  BY <1>1, <1>3

(* What the STATUS PDU says.                                               *)
LEMMA StatusSays ==
  ASSUME RlcAmInv, NEW room \in 1..WindowSize, NEW nacks, nacks = NacksFor(room),
         NEW ack, ack = AckSn(nacks), NEW status, status = [ackSn |-> ack, nacks |-> nacks]
  PROVE  /\ status \in StatusPdu /\ status.ackSn = ack /\ status.nacks = nacks
         /\ GoodStatus(status)
         /\ ~Received(ack)
         /\ \A s \in StatusPdu : GoodStatus(s) => Later(s, status)
<1> USE DEF RlcAmInv
<1>1. Pointers /\ ~rxonBuffer[vrR].complete /\ ~rxonBuffer[vrMs].complete
  BY PointersIs DEF EntriesInv
<1>2. /\ nacks \subseteq MissingNow
      /\ \A n \in nacks, m \in MissingNow : From(vrR, m) <= From(vrR, n) => m \in nacks
      /\ vrR # vrMs => vrR \in nacks
  BY <1>1, NacksAre
<1>3. /\ ack \in Sn
      /\ ack = vrMs \/ ack \in MissingNow \ nacks
      /\ From(vrR, ack) <= From(vrR, vrMs)
      /\ \A sn \in MissingNow \ nacks : From(vrR, ack) <= From(vrR, sn)
  BY <1>1, AckSnIs
<1>4. \A sn \in MissingNow : sn \in Sn /\ From(vrR, sn) < From(vrR, vrMs) /\ ~rxonBuffer[sn].complete
  BY BetweenIs DEF MissingNow
<1>5. \A a, b \in Sn : From(a, b) \in Nat
  BY FromIs, SnIs
<1>6. ack \in Sn /\ ~rxonBuffer[ack].complete
  BY <1>1, <1>3, <1>4
<1>7. ASSUME NEW n \in nacks PROVE n \in Sn /\ From(vrR, n) < From(vrR, ack)
  <2>1. n \in MissingNow /\ n \in Sn
    BY <1>2, <1>4
  <2>2. CASE ack = vrMs
    BY <1>4, <2>1, <2>2
  <2>3. CASE ack \in MissingNow \ nacks
    <3>1. ~(From(vrR, ack) <= From(vrR, n))
      BY <1>2, <2>3
    <3> QED
      BY <1>1, <1>5, <1>6, <2>1, <3>1 DEF Pointers
  <2> QED
    BY <1>3, <2>2, <2>3
<1>8. status.ackSn = ack /\ status.nacks = nacks /\ status \in StatusPdu
  <2>1. nacks \subseteq Sn
    BY <1>7
  <2> QED
    BY <1>6, <2>1 DEF StatusPdu
<1> DEFINE Missing == Missed(status)
<1>9. Missing = nacks \cup {ack}
  BY <1>8 DEF Missed
(* Distances from VT(A), for what is not before VR(R).                     *)
<1>10. From(vrR, vrMs) <= From(vrR, vtS) /\ From(vtA, vrR) <= From(vtA, vtS)
       /\ From(vtA, vtS) = From(vtA, vrR) + From(vrR, vtS)
  <2>1. From(vrR, vrMs) <= From(vrR, vrH) /\ From(vrR, vrH) <= From(vrR, vtS) /\ From(vtA, vrR) <= From(vtA, vtS)
    BY DEF WindowsInv
  <2> QED
    BY <1>1, <1>5, <2>1, FromChain DEF Pointers
<1>11. ASSUME NEW n \in Missing
       PROVE  /\ n \in Sn /\ ~rxonBuffer[n].complete
              /\ From(vrR, n) <= From(vrR, ack) /\ From(vrR, n) <= From(vrR, vtS)
              /\ From(vtA, n) = From(vtA, vrR) + From(vrR, n)
  <2>1. n \in Sn /\ ~rxonBuffer[n].complete /\ From(vrR, n) <= From(vrR, ack)
    BY <1>1, <1>2, <1>4, <1>5, <1>6, <1>7, <1>9 DEF Pointers
  <2>2. From(vrR, n) <= From(vrR, vtS)
    BY <1>1, <1>3, <1>5, <1>6, <1>10, <2>1 DEF Pointers
  <2> QED
    BY <1>1, <1>10, <2>1, <2>2, FromBack DEF Pointers
<1>12. ack \in Missing
  BY <1>9
<1>13. \A n \in Missing : ~Received(n)
  BY <1>1, <1>5, <1>11 DEF Received, Pointers
<1>14. From(vtA, ack) <= From(vtA, vtS)
  BY <1>1, <1>5, <1>10, <1>11, <1>12 DEF Pointers
<1>15. \A n \in nacks : From(vtA, n) < From(vtA, ack)
  BY <1>1, <1>5, <1>7, <1>9, <1>11, <1>12 DEF Pointers
<1>16. \E n \in Missing : From(vtA, n) <= From(vtA, vrR)
  <2>1. vrR \in Missing
    <3>1. CASE vrR = vrMs
      <4>1. From(vrR, ack) = 0
        BY <1>1, <1>3, <1>5, <1>6, <3>1, FromSelf DEF Pointers
      <4>2. ack = vrR
        BY <1>1, <1>6, <4>1, FromZero DEF Pointers
      <4> QED
        BY <1>12, <4>2
    <3> QED
      BY <1>2, <1>9, <3>1
  <2> QED
    BY <1>1, <1>5, <2>1 DEF Pointers
<1>17. ASSUME NEW n \in Missing, n \in Between(vtA, vtS) PROVE buffer[n] # "none"
  <2>1. From(vtA, n) < From(vtA, vtS) /\ n \in Sn
    BY <1>17, BetweenIs
  <2>2. n \in Between(vrR, vtS)
    BY <1>1, <1>5, <1>10, <1>11, <2>1, BetweenIs DEF Pointers
  <2> QED
    BY <1>11, <2>2 DEF BuffersInv
<1>18. ASSUME NEW sn \in Between(vtA, ack) \ nacks PROVE Received(sn)
  <2>1. sn \in Sn /\ From(vtA, sn) < From(vtA, ack) /\ sn \notin nacks
    BY <1>18, BetweenIs
  <2>2. CASE From(vtA, sn) < From(vtA, vrR)
    BY <2>2 DEF Received
  <2>3. CASE ~(From(vtA, sn) < From(vtA, vrR))
    <3>1. From(vrR, sn) = From(vtA, sn) - From(vtA, vrR)
      BY <1>1, <1>5, <2>1, <2>3, FromMoves DEF Pointers
    <3>2. From(vrR, sn) < From(vrR, ack)
      BY <1>1, <1>5, <1>6, <1>11, <1>12, <2>1, <3>1 DEF Pointers
    <3>3. sn \in Between(vrR, vrMs)
      BY <1>1, <1>3, <1>5, <1>6, <2>1, <3>2, BetweenIs DEF Pointers
    <3>4. sn \notin MissingNow
      BY <1>1, <1>3, <1>5, <1>6, <2>1, <3>2 DEF Pointers
    <3> QED
      BY <3>3, <3>4 DEF MissingNow, Received
  <2> QED
    BY <2>2, <2>3
<1>19. GoodStatus(status)
  BY <1>8, <1>14, <1>15, <1>16, <1>17, <1>18 DEF GoodStatus
<1>20. ASSUME NEW s \in StatusPdu, GoodStatus(s) PROVE Later(s, status)
  <2> SUFFICES ASSUME NEW n \in Missing, n \notin s.nacks PROVE From(vtA, s.ackSn) <= From(vtA, n)
    BY DEF Later
  <2>1. n \notin Between(vtA, s.ackSn)
    BY <1>13, <1>20 DEF GoodStatus
  <2>2. ~(From(vtA, n) < From(vtA, s.ackSn)) /\ From(vtA, n) \in Int
    BY <1>1, <1>5, <1>11, <2>1, BetweenIs DEF Pointers
  <2>3. s.ackSn \in Sn /\ From(vtA, s.ackSn) \in Int
    BY <1>1, <1>5, <1>20 DEF Pointers, StatusPdu
  <2> QED
    BY <2>2, <2>3
<1> QED
  BY <1>8, <1>12, <1>13, <1>19, <1>20

(* A STATUS PDU is sent.                                                   *)
LEMMA SendStatusStep ==
  ASSUME RlcAmInv, NEW room \in 1..WindowSize, SendStatus(room), UNCHANGED configuration
  PROVE  RlcAmInv'
<1> USE DEF RlcAmInv
<1> DEFINE nacks == NacksFor(room)
           ack == AckSn(nacks)
           status == [ackSn |-> ack, nacks |-> nacks]
<1>1. nacks = {sn \in {n \in Between(vrR, vrMs) : ~rxonBuffer[n].complete} :
                  Cardinality({m \in {n \in Between(vrR, vrMs) : ~rxonBuffer[n].complete} :
                                 From(vrR, m) <= From(vrR, sn)}) <= room}
  <2>1. \A sn : {m \in {n \in Between(vrR, vrMs) : ~rxonBuffer[n].complete} :
                    From(vrR, m) <= From(vrR, sn)} = MissingBefore(sn)
    BY DEF MissingBefore
  <2> QED
    BY <2>1 DEF NacksFor, MissingNow
<1>2. /\ UNCHANGED <<vrR, vrX, vrMs, vrH, rxonBuffer, reorderingTimer, keepS0, received,
                     txVars, dataAir, losses, failure>>
      /\ statusRequested' = FALSE /\ statusReported' = FALSE /\ prohibitTimer' = TRUE
      /\ statusAir' = Append(statusAir, status)
  BY <1>1 DEF SendStatus
<1>3. /\ status \in StatusPdu /\ status.ackSn = ack
      /\ GoodStatus(status) /\ ~Received(ack)
      /\ \A s \in StatusPdu : GoodStatus(s) => Later(s, status)
  BY StatusSays
<1> HIDE DEF status, ack, nacks
<1> USE <1>2 DEF txVars, configuration
<1>4. statusAir \in Seq(StatusPdu)
  BY DEF RlcAmTypeOK
<1>5. PICK n \in Nat : n = Len(statusAir)
  BY <1>4
<1>6. /\ statusAir' \in Seq(StatusPdu) /\ DOMAIN statusAir' = 1..(n + 1) /\ DOMAIN statusAir = 1..n
      /\ statusAir'[n + 1] = status /\ \A i \in 1..n : statusAir'[i] = statusAir[i] /\ statusAir[i] \in StatusPdu
  BY <1>3, <1>4, <1>5
<1>7. RlcAmTypeOK'
  BY <1>6 DEF RlcAmTypeOK, Failures
<1>8. StatusInv'
  <2> PICK air : air = statusAir'
    OBVIOUS
  <2>1. \A s : GoodStatus(s) => GoodStatus(s)'
    BY DEF GoodStatus, Received
  <2>2. \A s, t : Later(s, t) => Later(s, t)'
    BY DEF Later
  <2>3. ASSUME NEW i \in 1..(n + 1) PROVE GoodStatus(air[i])'
    <3>1. CASE i = n + 1
      BY <1>3, <1>6, <2>1, <3>1
    <3>2. CASE i # n + 1
      BY <1>6, <2>1, <3>2 DEF StatusInv
    <3> QED
      BY <3>1, <3>2
  <2>4. ASSUME NEW i \in 1..(n + 1), NEW j \in 1..(n + 1), i < j
        PROVE Later(air[i], air[j])'
    <3>1. i \in 1..n
      BY <2>4
    <3>2. CASE j = n + 1
      <4>1. GoodStatus(statusAir[i]) /\ statusAir[i] \in StatusPdu
        BY <1>6, <3>1 DEF StatusInv
      <4> QED
        BY <1>3, <1>6, <2>2, <3>1, <3>2, <4>1
    <3>3. CASE j # n + 1
      BY <1>6, <2>2, <2>4, <3>1, <3>3 DEF StatusInv
    <3> QED
      BY <3>2, <3>3
  <2> QED
    BY <1>6, <2>3, <2>4 DEF StatusInv
<1>9. PursuitInv'
  <2>1. ASSUME NEW b \in retxBuffer, LastMissing(b) PROVE LastMissing(b)'
    <3>1. status.ackSn = vtS \/ From(vtA, status.ackSn) <= From(vtA, b)
      <4>1. b \in Sn /\ ack \in Sn /\ Pointers
        BY <1>3, PointersIs DEF retxBuffer, InBuffer, StatusPdu
      <4>2. ack \in Between(vtA, vtS) \/ ack = vtS
        <5>1. From(vtA, ack) <= From(vtA, vtS)
          BY <1>3 DEF GoodStatus
        <5>2. From(vtA, ack) \in Int /\ From(vtA, vtS) \in Int
          BY <4>1, FromIs, SnIs DEF Pointers
        <5>3. From(vtA, ack) < From(vtA, vtS) \/ From(vtA, ack) = From(vtA, vtS)
          BY <5>1, <5>2
        <5> QED
          BY <4>1, <5>3, FromEqual, BetweenIs DEF Pointers
      <4>3. CASE ack \in Between(vtA, vtS)
        <5>1. ~(From(vtA, b) < From(vtA, ack))
          BY <1>3, <2>1, <4>3 DEF LastMissing
        <5> QED
          BY <1>3, <4>1, <5>1, FromIs, SnIs DEF Pointers
      <4> QED
        BY <1>3, <4>2, <4>3
    <3>2. \A i \in DOMAIN statusAir' :
            statusAir'[i].ackSn = vtS \/ From(vtA, statusAir'[i].ackSn) <= From(vtA, b)
      <4> TAKE i \in DOMAIN statusAir'
      <4>1. CASE i = n + 1
        BY <1>6, <3>1, <4>1
      <4>2. CASE i # n + 1
        BY <1>6, <2>1, <4>2 DEF LastMissing
      <4> QED
        BY <4>1, <4>2
    <3>3. \A sn \in Between(vtA, vtS) : From(vtA, b) < From(vtA, sn) => Received(sn)'
      BY <2>1 DEF LastMissing, Received
    <3> QED
      BY <3>2, <3>3 DEF LastMissing
  <2>2. retxBuffer' = retxBuffer
    BY DEF retxBuffer, InBuffer
  <2> QED
    BY <2>1, <2>2 DEF PursuitInv, vtMs
<1> QED
  BY <1>7, <1>8, <1>9, Stand

--------------------------------------------------------------------------------
(* Losses.                                                                 *)

(* A PDU that left the MAC leaves the others there.                        *)
LEMMA FewerCopies ==
  ASSUME RlcAmTypeOK, NEW i \in DOMAIN dataAir, dataAir' = RemoveAt(dataAir, i)
  PROVE  /\ dataAir' \in Seq(AmdPdu)
         /\ \A j \in DOMAIN dataAir' : \E k \in DOMAIN dataAir : dataAir'[j] = dataAir[k]
<1> PICK n \in Nat : n = Len(dataAir)
  BY Airs
<1>1. dataAir' \in Seq(AmdPdu) /\ Len(dataAir') = n - 1
      /\ \A j \in 1..(n - 1) : dataAir'[j] = IF j < i THEN dataAir[j] ELSE dataAir[j + 1]
  BY Airs, RemovedFromSeq
<1>2. DOMAIN dataAir' = 1..(n - 1) /\ DOMAIN dataAir = 1..n
  BY Airs, <1>1
<1>3. \A j \in 1..(n - 1) : j \in 1..n /\ j + 1 \in 1..n
  OBVIOUS
<1> QED
  BY <1>1, <1>2, <1>3

(* A loss keeps the invariant.                                             *)
LEMMA LoseStep ==
  ASSUME RlcAmInv, Lose, UNCHANGED configuration
  PROVE  RlcAmInv'
<1> USE DEF RlcAmInv
<1>1. UNCHANGED <<txVars, rxVars, failure>> /\ losses < MaxLosses /\ losses' = losses + 1
  BY DEF Lose
<1> USE <1>1 DEF txVars, rxVars, configuration
<1>2. losses' \in 0..MaxLosses
  BY RlcAmAssumption DEF RlcAmTypeOK
<1>3. CASE (\E i \in DOMAIN dataAir : dataAir' = RemoveAt(dataAir, i)) /\ UNCHANGED statusAir
  <2>2. /\ dataAir' \in Seq(AmdPdu)
        /\ \A j \in DOMAIN dataAir' : \E k \in DOMAIN dataAir : dataAir'[j] = dataAir[k]
    BY <1>3, FewerCopies
  <2>3. RlcAmTypeOK'
    BY <1>2, <1>3, <2>2 DEF RlcAmTypeOK, Failures
  <2>4. StreamInv'
    <3>1. \A start, sn : StartsAt(start, sn) => StartsAt(start, sn)'
      BY <2>2 DEF StartsAt
    <3>2. \A start : Stream(start) => Stream(start)'
      BY <3>1 DEF Stream
    <3> QED
      BY <3>2 DEF StreamInv
  <2> QED
    BY <1>3, <2>3, <2>4, Stand
<1>4. CASE (\E i \in DOMAIN statusAir : statusAir' = RemoveAt(statusAir, i)) /\ UNCHANGED dataAir
  <2> PICK i \in DOMAIN statusAir : statusAir' = RemoveAt(statusAir, i)
    BY <1>4
  <2>1. statusAir \in Seq(StatusPdu)
    BY DEF RlcAmTypeOK
  <2> DEFINE to(j) == IF j < i THEN j ELSE j + 1
  <2>2. /\ statusAir' \in Seq(StatusPdu)
        /\ \A j \in DOMAIN statusAir' : to(j) \in DOMAIN statusAir /\ statusAir'[j] = statusAir[to(j)]
        /\ \A j, k \in DOMAIN statusAir' : j < k => to(j) < to(k)
    <3> PICK n \in Nat : n = Len(statusAir)
      BY <2>1
    <3>1. statusAir' \in Seq(StatusPdu) /\ Len(statusAir') = n - 1
          /\ \A j \in 1..(n - 1) : statusAir'[j] = IF j < i THEN statusAir[j] ELSE statusAir[j + 1]
      BY <2>1, RemovedFromSeq
    <3>2. DOMAIN statusAir' = 1..(n - 1) /\ DOMAIN statusAir = 1..n /\ i \in 1..n
      BY <2>1, <3>1
    <3> QED
      BY <3>1, <3>2
  <2> HIDE DEF to
  <2>3. RlcAmTypeOK'
    BY <1>2, <1>4, <2>2 DEF RlcAmTypeOK, Failures
  <2>4. StatusInv'
    <3>1. \A s : GoodStatus(s) => GoodStatus(s)'
      BY DEF GoodStatus, Received
    <3>2. \A s, t : Later(s, t) => Later(s, t)'
      BY DEF Later
    <3> QED
      BY <2>2, <3>1, <3>2 DEF StatusInv
  <2>5. PursuitInv'
    <3>1. \A b : LastMissing(b) => LastMissing(b)'
      BY <2>2 DEF LastMissing, Received
    <3> QED
      BY <3>1 DEF PursuitInv, retxBuffer, InBuffer, vtMs
  <2> QED
    BY <1>4, <2>3, <2>4, <2>5, Stand
<1> QED
  BY <1>3, <1>4 DEF Lose

(* VT(A) becomes the first number the STATUS PDU says is missing.          *)
LEMMA NewVtAIs ==
  ASSUME Pointers, NEW status \in StatusPdu, GoodStatus(status)
  PROVE  /\ \A sn : sn \in Covered(status) <=> sn \in Between(vtA, status.ackSn)
         /\ status.nacks \subseteq Covered(status)
         /\ Missed(status) \subseteq Sn
         /\ NewVtA(status) \in Missed(status)
         /\ \A m \in Missed(status) : From(vtA, NewVtA(status)) <= From(vtA, m)
<1>1. PICK ack : ack = status.ackSn
  OBVIOUS
<1>2. PICK nacks : nacks = status.nacks
  OBVIOUS
<1>3. ack \in Sn /\ nacks \subseteq Sn
  BY <1>1, <1>2 DEF StatusPdu
<1>4. From(vtA, ack) <= From(vtA, vtS) /\ \A n \in nacks : From(vtA, n) < From(vtA, ack)
  BY <1>1, <1>2 DEF GoodStatus
<1>5. \A a \in Sn : From(vtA, a) \in Nat
  BY FromIs, SnIs DEF Pointers
<1>6. \A sn : sn \in Covered(status) <=> sn \in Sn /\ From(vtA, sn) < From(vtA, ack)
  BY <1>1, <1>3, <1>4, <1>5, BetweenIs DEF Covered, Unacknowledged, Pointers
<1>7. nacks \subseteq Covered(status)
  BY <1>3, <1>4, <1>6
<1>8. Missed(status) = nacks \cup {ack} /\ Missed(status) \subseteq Sn
  BY <1>1, <1>2, <1>3 DEF Missed
<1> DEFINE kept == (Unacknowledged \ Covered(status)) \cup (Covered(status) \cap status.nacks)
           x == NewVtA(status)
<1>9. \A sn : sn \in kept <=> sn \in nacks \/ (sn \in Sn /\ From(vtA, ack) <= From(vtA, sn)
                                                /\ From(vtA, sn) < From(vtA, vtS))
  BY <1>2, <1>3, <1>5, <1>6, <1>7, BetweenIs DEF Unacknowledged
<1>10. kept \subseteq Sn /\ (kept # {} => x \in kept /\ \A m \in kept : From(vtA, x) <= From(vtA, m))
  <2>1. kept \subseteq Sn
    BY <1>3, <1>9
  <2>2. kept # {} => x = CHOOSE n \in kept : \A m \in kept : From(vtA, n) <= From(vtA, m)
    BY DEF NewVtA
  <2> HIDE DEF kept, x
  <2> QED
    BY <2>1, <2>2, FirstOf DEF Pointers
<1>11. kept = {} => x = vtS
  BY DEF NewVtA
<1> HIDE DEF kept, x
<1>12. CASE kept = {}
  <2>1. nacks = {} /\ ~(From(vtA, ack) < From(vtA, vtS))
    BY <1>3, <1>5, <1>9, <1>12
  <2>2. ack = vtS
    <3>1. From(vtA, ack) = From(vtA, vtS)
      BY <1>3, <1>4, <1>5, <2>1 DEF Pointers
    <3> QED
      BY <1>3, <3>1, FromEqual DEF Pointers
  <2> QED
    BY <1>2, <1>3, <1>5, <1>6, <1>8, <1>1, <1>11, <1>12, <2>1, <2>2, BetweenIs DEF x
<1>13. CASE kept # {}
  <2>1. x \in kept /\ x \in Sn /\ \A m \in kept : From(vtA, x) <= From(vtA, m)
    BY <1>10, <1>13
  <2>2. \A n \in nacks : n \in kept
    BY <1>9
  <2>3. x \in nacks \/ x = ack
    <3> SUFFICES ASSUME x \notin nacks PROVE x = ack
      OBVIOUS
    <3>1. From(vtA, ack) <= From(vtA, x) /\ From(vtA, x) < From(vtA, vtS)
      BY <1>9, <2>1
    <3>2. ack \in kept
      BY <1>3, <1>5, <1>9, <2>1, <3>1 DEF Pointers
    <3>3. From(vtA, ack) = From(vtA, x)
      BY <1>3, <1>5, <2>1, <3>1, <3>2
    <3> QED
      BY <1>3, <2>1, <3>3, FromEqual DEF Pointers
  <2>4. From(vtA, x) <= From(vtA, ack)
    BY <1>3, <1>4, <1>5, <2>1, <2>3
  <2>5. \A m \in Missed(status) : From(vtA, x) <= From(vtA, m)
    BY <1>8, <2>1, <2>2, <2>4
  <2> QED
    BY <1>1, <1>2, <1>6, <1>7, <1>8, <2>3, <2>5, BetweenIs DEF x
<1> QED
  BY <1>12, <1>13

(* A STATUS PDU arrives: VT(A) moves on, what is acknowledged leaves the   *)
(* buffers, what is missing will be sent again.                            *)
LEMMA ReceiveStatusStep ==
  ASSUME RlcAmInv, NEW i \in DOMAIN statusAir, ReceiveStatus(i), UNCHANGED configuration
  PROVE  RlcAmInv'
<1> USE DEF RlcAmInv
<1>1. i = 1 /\ statusAir \in Seq(StatusPdu)
  BY DEF ReceiveStatus, RlcAmTypeOK
<1>2. PICK status \in StatusPdu : status = statusAir[1]
  BY <1>1
<1>3. PICK x : x = NewVtA(status)
  OBVIOUS
<1>4. PICK ack : ack = status.ackSn
  OBVIOUS
<1>5. PICK nacks : nacks = status.nacks
  OBVIOUS
<1>6. PICK acked : acked = Covered(status) \ nacks
  OBVIOUS
<1>7. Pointers /\ GoodStatus(status) /\ ack \in Sn /\ nacks \subseteq Sn
  BY <1>1, <1>2, <1>4, <1>5, PointersIs DEF StatusInv, StatusPdu
<1>8. /\ UNCHANGED <<accepted, txonBuffer, vtS, pollSn, pollExpired, rbsTimer, reported,
                     rxVars, dataAir, losses>>
      /\ statusAir' = RemoveAt(statusAir, 1)
      /\ pollTimer' = (pollTimer /\ pollSn \notin Covered(status))
      /\ buffer' = [sn \in Sn |-> IF sn \in acked THEN "none"
                                  ELSE IF sn \in Covered(status) \cap nacks THEN "retx" ELSE buffer[sn]]
      /\ pdu' = [sn \in Sn |-> IF sn \in acked THEN NoPdu ELSE pdu[sn]]
      /\ vtA' = x
      /\ failure' = IF \E sn \in Covered(status) \cap nacks : buffer[sn] = "none"
                      THEN "nack_of_unknown" ELSE failure
  BY <1>1, <1>2, <1>3, <1>5, <1>6 DEF ReceiveStatus
<1>9. /\ \A sn : sn \in Covered(status) <=> sn \in Sn /\ From(vtA, sn) < From(vtA, ack)
      /\ nacks \subseteq Covered(status)
      /\ Missed(status) = nacks \cup {ack} /\ Missed(status) \subseteq Sn
      /\ x \in Missed(status)
      /\ \A m \in Missed(status) : From(vtA, x) <= From(vtA, m)
  BY <1>3, <1>4, <1>5, <1>7, NewVtAIs, BetweenIs DEF Missed
<1> USE <1>8 DEF rxVars, configuration
<1>10. \A a, b \in Sn : From(a, b) \in Nat
  BY FromIs, SnIs
<1>11. PICK d : d = From(vtA, x)
  OBVIOUS
<1>12. x \in Sn /\ d \in Nat
  BY <1>7, <1>9, <1>10, <1>11 DEF Pointers
<1>13. /\ \A n \in nacks : From(vtA, n) < From(vtA, ack) /\ From(vtA, n) < From(vtA, vtS)
       /\ From(vtA, ack) <= From(vtA, vtS)
       /\ \E n \in Missed(status) : From(vtA, n) <= From(vtA, vrR)
       /\ \A n \in Missed(status) : From(vtA, n) < From(vtA, vtS) => buffer[n] # "none"
       /\ \A sn \in acked : Received(sn)
  <2>1. \A n \in nacks : From(vtA, n) < From(vtA, ack)
    BY <1>9
  <2>2. From(vtA, ack) <= From(vtA, vtS) /\ From(vtA, ack) \in Int /\ From(vtA, vtS) \in Int
    BY <1>4, <1>7, <1>10 DEF GoodStatus, Pointers
  <2>3. \A n \in nacks : From(vtA, n) < From(vtA, vtS)
    BY <1>7, <1>10, <2>1, <2>2 DEF Pointers
  <2>4. \A n \in Missed(status) : From(vtA, n) < From(vtA, vtS) => buffer[n] # "none"
    BY <1>7, <1>9, BetweenIs DEF GoodStatus
  <2>5. \A sn \in acked : sn \in Between(vtA, status.ackSn) \ status.nacks
    BY <1>4, <1>5, <1>6, <1>9, BetweenIs
  <2>6. \A sn \in acked : Received(sn)
    BY <1>7, <2>5 DEF GoodStatus
  <2>7. \E n \in Missed(status) : From(vtA, n) <= From(vtA, vrR)
    BY <1>7 DEF GoodStatus
  <2> QED
    BY <2>1, <2>2, <2>3, <2>4, <2>6, <2>7
<1>14. d <= From(vtA, ack) /\ d <= From(vtA, vrR) /\ d <= From(vtA, vtS)
  <2>1. PICK n \in Missed(status) : From(vtA, n) <= From(vtA, vrR)
    BY <1>13
  <2>2. d <= From(vtA, n) /\ From(vtA, n) \in Nat /\ From(vtA, vrR) \in Nat
    BY <1>7, <1>9, <1>10, <1>11, <2>1 DEF Pointers
  <2>3. d <= From(vtA, ack) /\ From(vtA, ack) \in Nat /\ From(vtA, vtS) \in Nat
    BY <1>7, <1>9, <1>10, <1>11 DEF Pointers
  <2> QED
    BY <1>12, <1>13, <2>1, <2>2, <2>3
(* Distances from the new base.                                            *)
<1>15. \A y \in Sn : d <= From(vtA, y) => From(x, y) = From(vtA, y) - d
  BY <1>7, <1>11, <1>12, FromMoves DEF Pointers
<1>16. \A y \in Sn : From(x, y) <= From(x, vtS) => From(vtA, y) = d + From(x, y)
  BY <1>7, <1>11, <1>12, <1>14, FromBack DEF Pointers
<1>17. \A y \in Sn : d <= From(vtA, y) => (Received(y) <=> Received(y)')
  <2> SUFFICES ASSUME NEW y \in Sn, d <= From(vtA, y)
               PROVE  From(vtA, y) < From(vtA, vrR) <=> From(x, y) < From(x, vrR)
    BY DEF Received
  <2>1. From(x, y) = From(vtA, y) - d /\ From(x, vrR) = From(vtA, vrR) - d
    BY <1>7, <1>14, <1>15 DEF Pointers
  <2> QED
    BY <1>7, <1>10, <1>12, <2>1 DEF Pointers
<1>18. \A sn \in Sn : sn \in acked => d # From(vtA, sn)
  <2> SUFFICES ASSUME NEW sn \in Sn, sn \in acked, d = From(vtA, sn) PROVE FALSE
    OBVIOUS
  <2>1. sn = x
    BY <1>7, <1>11, <1>12, FromEqual DEF Pointers
  <2> QED
    BY <1>6, <1>7, <1>9, <1>10, <2>1 DEF Pointers
<1>19. \A sn \in Sn : From(vtA, sn) < d => sn \in acked
  BY <1>6, <1>7, <1>9, <1>10, <1>11, <1>12, <1>14 DEF Pointers
<1>20. failure' = "none"
  BY <1>9, <1>13
<1>21. RlcAmTypeOK'
  <2>1. statusAir' \in Seq(StatusPdu)
    BY <1>1, RemovedFromSeq
  <2>2. buffer' \in [Sn -> {"none", "txed", "retx"}] /\ pdu' \in [Sn -> [data : Seq(Piece), sent : Nat]]
    <3>1. buffer' \in [Sn -> {"none", "txed", "retx"}]
      BY DEF RlcAmTypeOK
    <3>2. NoPdu \in [data : Seq(Piece), sent : Nat]
      BY DEF NoPdu
    <3> QED
      BY <3>1, <3>2 DEF RlcAmTypeOK
  <2>3. pollTimer' \in BOOLEAN
    BY DEF RlcAmTypeOK
  <2> QED
    BY ZenonT(60), <1>12, <1>20, <2>1, <2>2, <2>3 DEF RlcAmTypeOK, Failures
<1>22. WindowsInv'
  <2>1. From(x, vtS) = From(vtA, vtS) - d /\ From(x, vrR) = From(vtA, vrR) - d
    BY <1>7, <1>14, <1>15 DEF Pointers
  <2>2. From(vtA, vtS) \in Nat /\ From(vtA, vrR) \in Nat
    BY <1>7, <1>10 DEF Pointers
  <2>3. From(x, vtS) <= WindowSize /\ From(x, vrR) <= From(x, vtS)
    BY <1>12, <2>1, <2>2, Sizes DEF WindowsInv
  <2> QED
    BY <2>3 DEF WindowsInv
<1>23. BuffersInv'
  <2>1. ASSUME NEW sn \in Sn, sn \notin Between(x, vtS) PROVE buffer'[sn] = "none"
    <3>1. CASE sn \in Between(vtA, vtS)
      <4>1. From(vtA, sn) < d
        <5> SUFFICES ASSUME d <= From(vtA, sn) PROVE FALSE
          BY <1>7, <1>10, <1>12 DEF Pointers
        <5>1. From(x, sn) = From(vtA, sn) - d /\ From(x, vtS) = From(vtA, vtS) - d
          BY <1>7, <1>14, <1>15 DEF Pointers
        <5>2. From(vtA, sn) < From(vtA, vtS)
          BY <3>1, BetweenIs
        <5>3. From(x, sn) < From(x, vtS)
          BY <1>7, <1>10, <1>12, <5>1, <5>2 DEF Pointers
        <5> QED
          BY <2>1, <5>3, BetweenIs
      <4> QED
        BY <1>19, <4>1
    <3>2. CASE sn \notin Between(vtA, vtS)
      <4>1. buffer[sn] = "none"
        BY <3>2 DEF BuffersInv
      <4>2. sn \notin nacks
        BY <1>13, <3>2, BetweenIs
      <4> QED
        BY <4>1, <4>2
    <3> QED
      BY <3>1, <3>2
  <2>2. x # vtS => buffer'[x] # "none"
    <3> SUFFICES ASSUME x # vtS PROVE buffer'[x] # "none"
      OBVIOUS
    <3>1. d # From(vtA, vtS)
      BY <1>7, <1>11, <1>12, FromEqual DEF Pointers
    <3>2. From(vtA, x) < From(vtA, vtS)
      BY <1>7, <1>10, <1>11, <1>12, <1>14, <3>1 DEF Pointers
    <3>3. buffer[x] # "none" /\ x \notin acked
      BY <1>9, <1>11, <1>12, <1>13, <1>18, <3>2
    <3> QED
      BY <1>12, <3>3
  <2>3. ASSUME NEW sn \in Between(vrR, vtS), buffer'[sn] = "none" PROVE rxonBuffer[sn].complete
    <3>1. sn \in Sn /\ From(vrR, sn) < From(vrR, vtS)
      BY <2>3, BetweenIs
    <3>2. CASE buffer[sn] = "none"
      BY <2>3, <3>2 DEF BuffersInv
    <3>3. CASE buffer[sn] # "none"
      <4>1. Received(sn)
        BY <1>13, <2>3, <3>1, <3>3
      <4>2. From(vtA, sn) = From(vtA, vrR) + From(vrR, sn)
        BY <1>7, <1>10, <3>1, FromBack DEF WindowsInv, Pointers
      <4> QED
        BY <1>7, <1>10, <3>1, <4>1, <4>2 DEF Received, Pointers
    <3> QED
      BY <3>2, <3>3
  <2> QED
    BY <2>1, <2>2, <2>3 DEF BuffersInv
<1>24. /\ \A j \in DOMAIN statusAir' : j \in Nat /\ j + 1 \in DOMAIN statusAir /\ 1 < j + 1
                                         /\ statusAir'[j] = statusAir[j + 1]
       /\ 1 \in DOMAIN statusAir
  <2> PICK n \in Nat : n = Len(statusAir)
    BY <1>1
  <2>1. statusAir' \in Seq(StatusPdu) /\ Len(statusAir') = n - 1 /\ 1 \in DOMAIN statusAir
        /\ \A j \in 1..(n - 1) : statusAir'[j] = IF j < 1 THEN statusAir[j] ELSE statusAir[j + 1]
    BY <1>1, RemovedFromSeq
  <2>2. DOMAIN statusAir' = 1..(n - 1) /\ DOMAIN statusAir = 1..n
    BY <1>1, <2>1
  <2> QED
    BY <2>1, <2>2
(* The other STATUS PDUs.                                                  *)
<1>25. ASSUME NEW j \in DOMAIN statusAir'
       PROVE  /\ statusAir'[j] \in StatusPdu /\ GoodStatus(statusAir'[j]) /\ Later(status, statusAir'[j])
  BY <1>1, <1>2, <1>24 DEF StatusInv
<1>26. ASSUME NEW t \in StatusPdu, Later(status, t)
       PROVE  \A n \in Missed(t) : n \in Sn /\ n \notin acked /\ d <= From(vtA, n)
                                    /\ From(x, n) = From(vtA, n) - d
  <2> TAKE n \in Missed(t)
  <2>1. n \in Sn
    BY <1>26 DEF Missed, StatusPdu
  <2>2. n \in nacks \/ From(vtA, ack) <= From(vtA, n)
    BY <1>4, <1>5, <1>26 DEF Later
  <2>3. d <= From(vtA, n)
    BY <1>7, <1>9, <1>10, <1>11, <1>12, <1>14, <2>1, <2>2 DEF Pointers
  <2>4. n \notin acked
    BY <1>6, <1>7, <1>9, <1>10, <2>1, <2>2 DEF Pointers
  <2> QED
    BY <1>15, <2>1, <2>3, <2>4
<1>27. ASSUME NEW t \in StatusPdu, Later(status, t), GoodStatus(t) PROVE GoodStatus(t)'
  <2>1. /\ \A n \in Missed(t) : n \in Sn /\ n \notin acked /\ d <= From(vtA, n)
                                  /\ From(x, n) = From(vtA, n) - d
        /\ t.ackSn \in Missed(t) /\ t.nacks \subseteq Missed(t)
    BY <1>26, <1>27 DEF Missed
  <2>2. From(x, vtS) = From(vtA, vtS) - d /\ From(x, vrR) = From(vtA, vrR) - d
        /\ From(vtA, vtS) \in Nat /\ From(vtA, vrR) \in Nat
    BY <1>7, <1>10, <1>14, <1>15 DEF Pointers
  <2>3. \A n \in Missed(t) : From(vtA, n) \in Nat
    BY <1>7, <1>10, <2>1 DEF Pointers
  <2>4. From(x, t.ackSn) <= From(x, vtS)
    BY <1>12, <1>27, <2>1, <2>2, <2>3 DEF GoodStatus
  <2>5. \A n \in t.nacks : From(x, n) < From(x, t.ackSn)
    <3> SUFFICES ASSUME NEW n \in t.nacks PROVE From(x, n) < From(x, t.ackSn)
      OBVIOUS
    <3>1. From(vtA, n) < From(vtA, t.ackSn)
      BY <1>27 DEF GoodStatus
    <3>2. n \in Missed(t) /\ t.ackSn \in Missed(t)
      BY <2>1
    <3> QED
      BY <1>12, <2>1, <2>3, <3>1, <3>2
  <2>6. \E n \in Missed(t) : From(x, n) <= From(x, vrR)
    BY <1>12, <1>27, <2>1, <2>2, <2>3 DEF GoodStatus
  <2>7. ASSUME NEW n \in Missed(t), n \in Between(x, vtS) PROVE buffer'[n] # "none"
    <3>1. From(vtA, n) < From(vtA, vtS)
      BY <1>12, <2>1, <2>2, <2>3, <2>7, BetweenIs
    <3>2. buffer[n] # "none"
      BY <1>27, <2>1, <3>1, BetweenIs DEF GoodStatus
    <3> QED
      BY <2>1, <3>2
  <2>8. ASSUME NEW sn \in Between(x, t.ackSn) \ t.nacks PROVE Received(sn)'
    <3>1. sn \in Sn /\ From(x, sn) < From(x, t.ackSn)
      BY BetweenIs
    <3>2. From(x, sn) \in Nat /\ From(x, t.ackSn) \in Nat /\ From(x, vtS) \in Nat
      BY <1>7, <1>10, <1>12, <2>1, <3>1 DEF Pointers
    <3>3. From(vtA, sn) = d + From(x, sn)
      BY <1>16, <2>4, <3>1, <3>2
    <3>4. sn \in Between(vtA, t.ackSn)
      BY <1>12, <2>1, <2>3, <3>1, <3>2, <3>3, BetweenIs
    <3>5. Received(sn) /\ d <= From(vtA, sn)
      BY <1>12, <1>27, <3>2, <3>3, <3>4 DEF GoodStatus
    <3> QED
      BY <1>17, <3>1, <3>5
  <2> QED
    BY <2>4, <2>5, <2>6, <2>7, <2>8 DEF GoodStatus
<1>28. StatusInv'
  <2> PICK air : air = statusAir'
    OBVIOUS
  <2>1. \A j \in DOMAIN air : GoodStatus(air[j])'
    BY <1>25, <1>27
  <2>2. ASSUME NEW j \in DOMAIN air, NEW k \in DOMAIN air, j < k PROVE Later(air[j], air[k])'
    <3>1. Later(air[j], air[k])
      BY <1>24, <2>2 DEF StatusInv
    <3>2. PICK s : s = air[j]
      OBVIOUS
    <3>3. PICK t : t = air[k]
      OBVIOUS
    <3>4. /\ \A n \in Missed(s) : n \in Sn /\ From(x, n) = From(vtA, n) - d
          /\ \A n \in Missed(t) : n \in Sn /\ From(x, n) = From(vtA, n) - d
      BY <1>25, <1>26, <2>2, <3>2, <3>3
    <3>5. ASSUME NEW n \in Missed(t), n \notin s.nacks PROVE From(x, s.ackSn) <= From(x, n)
      <4>1. From(vtA, s.ackSn) <= From(vtA, n)
        BY <3>1, <3>2, <3>3, <3>5 DEF Later
      <4>2. s.ackSn \in Missed(s) /\ n \in Missed(t)
        BY DEF Missed
      <4> QED
        BY <1>7, <1>10, <1>12, <3>4, <4>1, <4>2 DEF Pointers
    <3> QED
      BY <3>2, <3>3, <3>5 DEF Later
  <2> QED
    BY <2>1, <2>2 DEF StatusInv
<1>29. vtA = vtS => x = vtS
  <2> SUFFICES ASSUME vtA = vtS PROVE x = vtS
    OBVIOUS
  <2>1. d = 0
    BY <1>7, <1>12, <1>14, FromSelf DEF Pointers
  <2> QED
    BY <1>7, <1>11, <1>12, <2>1, FromZero DEF Pointers
<1>30. TimersInv'
  <2>1. retxAlwaysFits => \A sn \in Sn : pdu'[sn].sent = 0
    BY DEF TimersInv, NoPdu
  <2> QED
    BY <1>29, <2>1 DEF TimersInv
<1>31. StreamInv'
  <2>1. ASSUME NEW sn \in Sn, buffer'[sn] # "none" PROVE buffer[sn] # "none" /\ pdu'[sn] = pdu[sn]
    <3>1. sn \in nacks => buffer[sn] # "none"
      BY <1>9, <1>13
    <3> QED
      BY <2>1, <3>1
  <2>2. \A start, sn : sn \in Sn /\ StartsAt(start, sn) => StartsAt(start, sn)'
    BY <2>1 DEF StartsAt
  <2>3. \A start : Stream(start) => Stream(start)'
    BY <2>2, BetweenIs DEF Stream
  <2> QED
    BY <2>3 DEF StreamInv
<1>32. PursuitInv'
  <2> SUFFICES ASSUME retxAlwaysFits, x # vtS
               PROVE  \/ pollTimer'
                      \/ pollExpired /\ (\/ retxBuffer' # {} /\ vtS # Plus(x, WindowSize)
                                         \/ From(x, vtS) + 2 <= WindowSize)
                      \/ txonBuffer # <<>> /\ vtS # Plus(x, WindowSize)
                      \/ \E b \in retxBuffer' : LastMissing(b)'
    BY DEF PursuitInv, vtMs
  <2>1. \A sn \in Between(x, vtS) : sn \in Sn /\ d <= From(vtA, sn) /\ From(x, sn) = From(vtA, sn) - d
                                      /\ From(vtA, sn) < From(vtA, vtS) /\ From(vtA, sn) \in Nat
    <3> SUFFICES ASSUME NEW sn \in Between(x, vtS)
                 PROVE  sn \in Sn /\ d <= From(vtA, sn) /\ From(x, sn) = From(vtA, sn) - d
                        /\ From(vtA, sn) < From(vtA, vtS) /\ From(vtA, sn) \in Nat
      OBVIOUS
    <3>1. sn \in Sn /\ From(x, sn) < From(x, vtS) /\ From(x, vtS) \in Nat /\ From(x, sn) \in Nat
      BY <1>7, <1>10, <1>12, BetweenIs DEF Pointers
    <3>2. From(vtA, sn) = d + From(x, sn) /\ From(x, vtS) = From(vtA, vtS) - d /\ From(vtA, vtS) \in Nat
      BY <1>7, <1>10, <1>14, <1>15, <1>16, <3>1 DEF Pointers
    <3> QED
      BY <1>12, <3>1, <3>2
  <2>2. CASE ack = vtS
    <3>1. x \in nacks
      BY <1>9, <2>2
    <3>2. PICK b \in nacks : \A n \in nacks : From(vtA, n) <= From(vtA, b)
      BY <1>7, <3>1, LastOf DEF Pointers
    <3>3. b \in Sn /\ buffer'[b] = "retx" /\ b \notin acked
      BY <1>6, <1>7, <1>9, <3>2
    <3>4. d <= From(vtA, b) /\ From(x, b) = From(vtA, b) - d /\ From(vtA, b) \in Nat
      BY <1>7, <1>9, <1>10, <1>11, <1>15, <3>2, <3>3 DEF Pointers
    <3>5. ASSUME NEW sn \in Between(x, vtS), From(x, b) < From(x, sn) PROVE Received(sn)'
      <4>1. From(vtA, b) < From(vtA, sn)
        BY <1>12, <2>1, <3>4, <3>5
      <4>2. sn \notin nacks
        BY <2>1, <3>2, <3>4, <4>1
      <4>3. sn \in acked
        BY <1>6, <1>9, <2>1, <2>2, <4>2
      <4> QED
        BY <1>13, <1>17, <2>1, <4>3
    <3>6. ASSUME NEW j \in DOMAIN statusAir'
          PROVE  statusAir'[j].ackSn = vtS \/ From(x, statusAir'[j].ackSn) <= From(x, b)
      <4>1. PICK t \in StatusPdu : t = statusAir'[j]
        BY <1>25
      <4>2. GoodStatus(t) /\ Later(status, t) /\ t.ackSn \in Missed(t)
        BY <1>25, <4>1 DEF Missed
      <4>3. t.ackSn \in Sn /\ From(x, t.ackSn) = From(vtA, t.ackSn) - d /\ From(vtA, t.ackSn) \in Nat
        BY <1>7, <1>10, <1>26, <4>2 DEF Pointers
      <4>4. CASE t.ackSn \in nacks
        BY <1>12, <3>2, <3>4, <4>1, <4>3, <4>4
      <4>5. CASE t.ackSn \notin nacks
        <5>1. From(vtA, vtS) <= From(vtA, t.ackSn)
          BY <1>4, <1>5, <2>2, <4>2, <4>5 DEF Later
        <5>2. From(vtA, t.ackSn) <= From(vtA, vtS)
          BY <4>2 DEF GoodStatus
        <5>3. From(vtA, vtS) = From(vtA, t.ackSn)
          BY <1>7, <1>10, <4>3, <5>1, <5>2 DEF Pointers
        <5> QED
          BY <1>7, <4>1, <4>3, <5>3, FromEqual DEF Pointers
      <4> QED
        BY <4>4, <4>5
    <3>7. b \in retxBuffer' /\ LastMissing(b)'
      BY <3>3, <3>5, <3>6 DEF LastMissing, retxBuffer, InBuffer
    <3> QED
      BY <3>7
  <2>3. CASE ack # vtS
    <3>1. From(vtA, ack) < From(vtA, vtS)
      <4>1. From(vtA, ack) # From(vtA, vtS)
        BY <1>7, <2>3, FromEqual DEF Pointers
      <4> QED
        BY <1>7, <1>10, <1>13, <4>1 DEF Pointers
    <3>2. vtA # vtS
      BY <1>29
    <3>3. CASE pollTimer
      <4>1. pollSn = Plus(vtS, -1) /\ pollSn \in Sn
        BY <1>7, <3>2 DEF TimersInv, Pointers
      <4>2. From(vtA, pollSn) = From(vtA, vtS) - 1
        BY <1>7, <3>2, <4>1, FromIs, PlusIs, SnIs, Sizes DEF Pointers
      <4>3. pollSn \notin Covered(status)
        BY <1>7, <1>9, <1>10, <3>1, <4>1, <4>2 DEF Pointers
      <4> QED
        BY <3>3, <4>3
    <3>7. From(x, vtS) = From(vtA, vtS) - d /\ From(vtA, vtS) \in Nat /\ WindowSize \in Nat
      BY <1>7, <1>10, <1>14, <1>15, Sizes DEF Pointers
    <3>8. ASSUME vtS # vtMs PROVE From(vtA, vtS) < WindowSize /\ vtS # Plus(x, WindowSize)
      <4>1. From(vtA, vtS) # WindowSize
        <5>1. Plus(vtA, From(vtA, vtS)) = vtS
          BY <1>7, FromPlus DEF Pointers
        <5> QED
          BY <3>8, <5>1 DEF vtMs
      <4>2. From(vtA, vtS) < WindowSize
        BY <3>7, <4>1 DEF WindowsInv
      <4>3. From(x, vtS) < WindowSize
        BY <1>12, <3>7, <4>2
      <4>4. From(x, Plus(x, WindowSize)) = WindowSize
        BY <1>12, FromPlus, WindowIsSn
      <4> QED
        BY <3>7, <4>2, <4>3, <4>4
    <3>4. CASE pollExpired /\ ((retxBuffer # {} /\ vtS # vtMs) \/ From(vtA, vtS) + 2 <= WindowSize)
      <4>1. CASE From(vtA, vtS) + 2 <= WindowSize
        BY <1>12, <3>4, <3>7, <4>1
      <4>2. CASE retxBuffer # {} /\ vtS # vtMs /\ retxBuffer' # {}
        BY <3>4, <3>8, <4>2
      <4>3. CASE retxBuffer # {} /\ vtS # vtMs /\ retxBuffer' = {}
        <5>1. PICK b \in Sn : buffer[b] = "retx"
          BY <4>3 DEF retxBuffer, InBuffer
        <5>2. \A sn \in Sn : buffer'[sn] # "retx"
          BY <4>3 DEF retxBuffer, InBuffer
        <5>3. nacks = {}
          BY <1>6, <1>7, <1>9, <5>2
        <5>4. b \in Covered(status)
          BY <1>6, <5>1, <5>2
        <5>5. x = ack
          BY <1>9, <5>3
        <5>6. 1 <= d
          BY <1>7, <1>9, <1>10, <1>11, <1>12, <5>1, <5>4, <5>5 DEF Pointers
        <5> QED
          BY <1>12, <3>4, <3>7, <3>8, <4>3, <5>6
      <4> QED
        BY <3>4, <4>1, <4>2, <4>3
    <3>5. CASE txonBuffer # <<>> /\ vtS # vtMs
      BY <3>5, <3>8
    <3>6. CASE \E b \in retxBuffer : LastMissing(b)
      <4>1. PICK b \in retxBuffer : LastMissing(b)
        BY <3>6
      <4>2. b \in Sn /\ buffer[b] = "retx"
        BY <4>1 DEF retxBuffer, InBuffer
      <4>3. From(vtA, ack) <= From(vtA, b)
        BY <1>1, <1>2, <1>4, <1>24, <2>3, <4>1 DEF LastMissing
      <4>4. b \notin Covered(status) /\ d <= From(vtA, b) /\ From(vtA, b) \in Nat
        BY <1>7, <1>9, <1>10, <1>12, <1>14, <4>2, <4>3 DEF Pointers
      <4>5. b \in retxBuffer'
        BY <1>6, <4>2, <4>4 DEF retxBuffer, InBuffer
      <4>6. From(x, b) = From(vtA, b) - d
        BY <1>15, <4>2, <4>4
      <4>7. ASSUME NEW sn \in Between(x, vtS), From(x, b) < From(x, sn) PROVE Received(sn)'
        <5>1. From(vtA, b) < From(vtA, sn) /\ sn \in Between(vtA, vtS)
          BY <1>12, <2>1, <4>4, <4>6, <4>7, BetweenIs
        <5> QED
          BY <1>17, <2>1, <4>1, <5>1 DEF LastMissing
      <4>8. ASSUME NEW j \in DOMAIN statusAir'
            PROVE  statusAir'[j].ackSn = vtS \/ From(x, statusAir'[j].ackSn) <= From(x, b)
        <5>1. PICK t \in StatusPdu : t = statusAir'[j]
          BY <1>25
        <5>2. Later(status, t) /\ t.ackSn \in Missed(t)
          BY <1>25, <5>1 DEF Missed
        <5>3. t.ackSn \in Sn /\ From(x, t.ackSn) = From(vtA, t.ackSn) - d /\ From(vtA, t.ackSn) \in Nat
          BY <1>7, <1>10, <1>26, <5>2 DEF Pointers
        <5>4. t.ackSn = vtS \/ From(vtA, t.ackSn) <= From(vtA, b)
          BY <1>24, <4>1, <5>1 DEF LastMissing
        <5> QED
          BY <1>12, <4>4, <4>6, <5>1, <5>3, <5>4
      <4> QED
        BY <4>5, <4>7, <4>8 DEF LastMissing
    <3> QED
      BY <3>2, <3>3, <3>4, <3>5, <3>6 DEF PursuitInv
  <2> QED
    BY <2>2, <2>3
<1> QED
  BY <1>20, <1>21, <1>22, <1>23, <1>28, <1>30, <1>31, <1>32, Stand

--------------------------------------------------------------------------------
(* Transmission opportunities.                                             *)

(* The number after another one, in a window with room for it.             *)
LEMMA NextNumber ==
  ASSUME NEW base \in Sn, NEW sn \in Sn, From(base, sn) < WindowSize
  PROVE  /\ From(base, Plus(sn, 1)) = From(base, sn) + 1
         /\ \A y : y \in Between(base, Plus(sn, 1)) <=> y \in Between(base, sn) \/ y = sn
         /\ sn \notin Between(base, sn)
         /\ Plus(sn, 1) \notin Between(base, sn)
         /\ \A y \in Between(base, sn) : Plus(y, 1) # Plus(sn, 1)
         /\ Plus(sn, 1) # sn /\ Plus(sn, 1) # base /\ Plus(Plus(sn, 1), -1) = sn
<1>1. PICK next : next = Plus(sn, 1)
  OBVIOUS
<1>2. next \in Sn /\ next = IF sn + 1 < Modulus THEN sn + 1 ELSE sn + 1 - Modulus
  BY <1>1, PlusIs, WindowIsSn
<1>3. From(base, next) = From(base, sn) + 1
  <2>1. /\ From(base, sn) = IF base <= sn THEN sn - base ELSE sn - base + Modulus
        /\ From(base, next) = IF base <= next THEN next - base ELSE next - base + Modulus
    BY <1>2, FromIs
  <2>2. /\ base \in Int /\ sn \in Int /\ 0 <= base /\ base < Modulus /\ 0 <= sn /\ sn < Modulus
        /\ Modulus \in Int /\ From(base, sn) < Modulus - 1
    <3>1. From(base, sn) \in Nat /\ WindowSize \in Nat /\ 2 * WindowSize <= Modulus /\ 1 <= WindowSize
          /\ Modulus \in Nat
      BY FromIs, SnIs, Sizes
    <3> QED
      BY <3>1, SnIs
  <2>3. PICK f : f = From(base, sn)
    OBVIOUS
  <2>4. PICK g : g = From(base, next)
    OBVIOUS
  <2>5. g = f + 1
    BY <1>2, <2>1, <2>2, <2>3, <2>4
  <2> QED
    BY <2>3, <2>4, <2>5
<1>4. \A y \in Sn : From(base, y) = From(base, sn) => sn = y
  BY FromEqual
<1>5. \A y \in Sn : From(base, y) \in Nat
  BY FromIs, SnIs
<1>6. \A y : y \in Between(base, next) <=> y \in Between(base, sn) \/ y = sn
  <2>1. ASSUME NEW y \in Sn
        PROVE  From(base, y) < From(base, next) <=> From(base, y) < From(base, sn) \/ y = sn
    <3>1. From(base, y) \in Nat /\ From(base, sn) \in Nat
      BY <1>5
    <3>2. From(base, y) < From(base, sn) + 1 <=> From(base, y) < From(base, sn) \/ From(base, y) = From(base, sn)
      BY <3>1
    <3> QED
      BY <1>3, <1>4, <3>2
  <2> QED
    BY <2>1, BetweenIs
<1>7. sn \notin Between(base, sn) /\ next \notin Between(base, sn)
  BY <1>2, <1>3, <1>5, BetweenIs
<1>8. \A y \in Sn : Plus(y, 1) = next => y = sn
  <2> SUFFICES ASSUME NEW y \in Sn, Plus(y, 1) = next PROVE y = sn
    OBVIOUS
  <2>1. next = IF y + 1 < Modulus THEN y + 1 ELSE y + 1 - Modulus
    BY PlusIs, WindowIsSn
  <2>2. /\ y \in Int /\ sn \in Int /\ 0 <= y /\ y < Modulus /\ 0 <= sn /\ sn < Modulus
        /\ Modulus \in Int
    BY SnIs, Sizes
  <2> QED
    BY <1>2, <2>1, <2>2
<1>9. next # sn
  BY <1>2, SnIs, Sizes
<1>10. next # base
  BY <1>2, <1>3, <1>5, FromSelf
<1>11. Plus(next, -1) = sn
  BY <1>2, PlusIs, SnIs, Sizes
<1> QED
  BY <1>1, <1>3, <1>6, <1>7, <1>8, <1>9, <1>10, <1>11, BetweenIs

(* A PDU is sent again.                                                    *)
LEMMA RetransmitStep ==
  ASSUME RlcAmInv, NEW grant \in Grants, retxBuffer # {}, Retransmit(grant), reported' \in BOOLEAN,
         UNCHANGED <<configuration, accepted, vtA, rbsTimer, rxVars, statusAir, losses, failure>>
  PROVE  RlcAmInv'
<1> USE DEF RlcAmInv
<1> DEFINE sn == CHOOSE n \in retxBuffer : \A m \in retxBuffer : From(vtA, n) <= From(vtA, m)
           size == SizeOf(pdu[sn].data)
           sent == pdu[sn].sent
           fits == retxAlwaysFits \/ size - sent <= grant
           upTo == IF fits THEN size ELSE sent + grant
           polls == PollsAgain(sn)
           p == [sn |-> sn, data |-> pdu[sn].data, from |-> sent, to |-> upTo,
                 segment |-> sent > 0 \/ ~fits, last |-> fits, poll |-> polls]
<1>1. /\ dataAir' = Append(dataAir, p)
      /\ pdu' = [pdu EXCEPT ![sn].sent = IF fits THEN 0 ELSE upTo]
      /\ buffer' = [buffer EXCEPT ![sn] = IF fits THEN "txed" ELSE "retx"]
      /\ polls => pollSn' = Plus(vtS, -1) /\ pollTimer' = TRUE /\ pollExpired' = FALSE
      /\ ~polls => UNCHANGED <<pollSn, pollTimer, pollExpired>>
      /\ UNCHANGED <<vtS, txonBuffer>>
  BY DEF Retransmit, Poll
<1>2. retxBuffer \subseteq Sn
  BY DEF retxBuffer, InBuffer
<1>3. Pointers
  BY PointersIs
<1>4. sn \in Sn /\ buffer[sn] = "retx" /\ sn \in retxBuffer
      /\ \A m \in retxBuffer : From(vtA, sn) <= From(vtA, m)
  <2>1. sn \in retxBuffer /\ \A m \in retxBuffer : From(vtA, sn) <= From(vtA, m)
    <3> HIDE DEF size, sent, fits, upTo, polls, p
    <3> QED
      BY <1>2, <1>3, FirstOf DEF Pointers
  <2>2. retxBuffer = {n \in Sn : buffer[n] = "retx"}
    BY DEF retxBuffer, InBuffer
  <2> HIDE DEF sn
  <2> QED
    BY <2>1, <2>2
<1> HIDE DEF sn, size, sent, fits, upTo, polls, p
<1>5. fits \in BOOLEAN /\ polls \in BOOLEAN /\ (retxAlwaysFits => fits)
  BY DEF fits, polls, PollsAgain, RlcAmTypeOK
<1> USE <1>1 DEF rxVars, configuration
<1>12. /\ pdu[sn].data \in Seq(Piece) /\ sent \in Nat /\ size \in Nat /\ upTo \in Nat
       /\ pdu \in [Sn -> [data : Seq(Piece), sent : Nat]]
  <2>1. pdu \in [Sn -> [data : Seq(Piece), sent : Nat]] /\ grant \in Nat
    BY RlcAmAssumption DEF RlcAmTypeOK
  <2>2. pdu[sn].data \in Seq(Piece) /\ sent \in Nat
    BY <1>4, <2>1 DEF sent
  <2>3. size \in Nat
    BY <2>2, SizeOfType DEF size
  <2> QED
    BY <2>1, <2>2, <2>3 DEF upTo
<1>13. /\ pdu' \in [Sn -> [data : Seq(Piece), sent : Nat]]
       /\ \A y \in Sn : pdu'[y].data = pdu[y].data /\ (y # sn => pdu'[y] = pdu[y])
       /\ pdu'[sn].sent = IF fits THEN 0 ELSE upTo
  <2>1. pdu'[sn] = [data |-> pdu[sn].data, sent |-> IF fits THEN 0 ELSE upTo]
    BY <1>4, <1>12
  <2>2. \A y \in Sn : y # sn => pdu'[y] = pdu[y]
    BY <1>12
  <2>3. pdu' \in [Sn -> [data : Seq(Piece), sent : Nat]]
    <3>1. PICK v : v = IF fits THEN 0 ELSE upTo
      OBVIOUS
    <3>2. PICK record \in [data : Seq(Piece), sent : Nat] : record = pdu[sn]
      BY <1>4, <1>12
    <3>3. [record EXCEPT !.sent = v] \in [data : Seq(Piece), sent : Nat]
      BY <1>12, <3>1
    <3>4. pdu' = [pdu EXCEPT ![sn] = [record EXCEPT !.sent = v]]
      BY <1>12, <3>1, <3>2
    <3> QED
      BY <1>12, <3>3, <3>4
  <2> QED
    BY <1>4, <1>12, <2>1, <2>2, <2>3
<1>14. /\ buffer' \in [Sn -> {"none", "txed", "retx"}]
       /\ \A y \in Sn : (buffer'[y] = "none" <=> buffer[y] = "none") /\ (y # sn => buffer'[y] = buffer[y])
  BY <1>4 DEF RlcAmTypeOK
<1>15. p \in AmdPdu /\ p.sn = sn /\ p.data = pdu[sn].data
  BY <1>4, <1>5, <1>12 DEF AmdPdu, p
<1>16. RlcAmTypeOK'
  <2>1. dataAir' \in Seq(AmdPdu)
    BY <1>15, Airs
  <2>2. pollSn' \in Sn /\ pollTimer' \in BOOLEAN /\ pollExpired' \in BOOLEAN
    <3>1. Plus(vtS, -1) \in Sn /\ pollSn \in Sn
      BY <1>3, PointersIs DEF Pointers
    <3>2. pollTimer \in BOOLEAN /\ pollExpired \in BOOLEAN
      BY DEF RlcAmTypeOK
    <3> QED
      BY <1>5, <3>1, <3>2
  <2>3. pdu' \in [Sn -> [data : Seq(Piece), sent : Nat]] /\ buffer' \in [Sn -> {"none", "txed", "retx"}]
    BY <1>13, <1>14
  <2> HIDE <1>1
  <2>4. UNCHANGED <<vtS, txonBuffer>>
    BY <1>1
  <2> QED
    BY ZenonT(60), <2>1, <2>2, <2>3, <2>4 DEF RlcAmTypeOK, Failures
<1>17. WindowsInv' /\ EntriesInv'
  BY Stand
<1>18. BuffersInv'
  BY <1>3, <1>14, BetweenIs DEF BuffersInv, Pointers
<1>19. StatusInv'
  <2>1. \A s : GoodStatus(s) => GoodStatus(s)'
    BY <1>14, BetweenIs DEF GoodStatus, Received
  <2>2. \A s, t : Later(s, t) => Later(s, t)'
    BY DEF Later
  <2> QED
    BY <2>1, <2>2 DEF StatusInv
<1>20. TimersInv'
  <2>1. retxAlwaysFits => \A y \in Sn : pdu'[y].sent = 0
    BY <1>5, <1>13 DEF TimersInv
  <2>2. vtA # vtS => pollSn' = Plus(vtS, -1)
    BY <1>5 DEF TimersInv
  <2> QED
    BY <2>1, <2>2 DEF TimersInv
<1>21. PursuitInv'
  <2> SUFFICES ASSUME retxAlwaysFits, vtA # vtS
               PROVE  \/ pollTimer'
                      \/ txonBuffer # <<>> /\ vtS # vtMs
                      \/ \E b \in retxBuffer' : LastMissing(b)'
    BY DEF PursuitInv, vtMs
  <2>1. CASE polls
    BY <2>1
  <2>2. CASE ~polls
    <3>1. ~pollExpired /\ vtS # vtMs /\ ~(txonBuffer = <<>> /\ retxBuffer = {sn})
      BY <1>4, <2>2 DEF polls, PollsAgain, TimersInv
    <3>2. CASE pollTimer
      BY <2>2, <3>2
    <3>3. CASE txonBuffer # <<>>
      BY <3>1, <3>3
    <3>4. CASE ~pollTimer /\ txonBuffer = <<>>
      <4>1. PICK b \in retxBuffer : LastMissing(b)
        BY <3>1, <3>4 DEF PursuitInv
      <4>2. PICK c \in retxBuffer : c # sn
        BY <1>4, <3>1, <3>4
      <4>3. PICK a \in retxBuffer : a # sn /\ From(vtA, b) <= From(vtA, a)
        <5>1. b \in Sn /\ From(vtA, b) \in Int
          BY <1>2, <1>3, FromIs, SnIs DEF Pointers
        <5>2. CASE b = sn
          BY <1>4, <4>2, <5>2
        <5>3. CASE b # sn
          BY <5>1, <5>3
        <5> QED
          BY <5>2, <5>3
      <4>4. a \in Sn /\ b \in Sn /\ From(vtA, a) \in Int /\ From(vtA, b) \in Int
            /\ \A y \in Sn : From(vtA, y) \in Int
        BY <1>2, <1>3, FromIs, SnIs DEF Pointers
      <4>5. a \in retxBuffer'
        BY <1>14, <4>3, <4>4 DEF retxBuffer, InBuffer
      <4>6. ASSUME NEW y \in Between(vtA, vtS), From(vtA, a) < From(vtA, y) PROVE Received(y)'
        <5>1. y \in Sn /\ From(vtA, b) < From(vtA, y)
          BY <4>3, <4>4, <4>6, BetweenIs
        <5>2. Received(y)
          BY <4>1, <4>6, <5>1 DEF LastMissing
        <5> QED
          BY <5>2 DEF Received
      <4>7. \A i \in DOMAIN statusAir : statusAir[i].ackSn \in Sn
        BY Airs
      <4>8. \A i \in DOMAIN statusAir : statusAir[i].ackSn = vtS \/ From(vtA, statusAir[i].ackSn) <= From(vtA, a)
        BY <4>1, <4>3, <4>4, <4>7 DEF LastMissing
      <4> QED
        BY <4>5, <4>6, <4>8 DEF LastMissing
    <3> QED
      BY <3>2, <3>3, <3>4
  <2> QED
    BY <2>1, <2>2
<1>22. StreamInv'
  <2>1. PICK start : Stream(start)
    BY DEF StreamInv
  <2>2. PICK n \in Nat : n = Len(dataAir)
    BY Airs
  <2>3. DOMAIN dataAir' = 1..(n + 1) /\ DOMAIN dataAir = 1..n /\ dataAir'[n + 1] = p
        /\ \A i \in 1..n : dataAir'[i] = dataAir[i]
    BY <1>15, <2>2, Airs
  <2>4. ASSUME NEW y \in Between(vrR, vtS) PROVE StartsAt(start, y)'
    <3>1. StartsAt(start, y) /\ y \in Sn
      BY <2>1, BetweenIs DEF Stream
    <3>2. buffer'[y] # "none" => Spans(pdu'[y].data, start[y], start[Plus(y, 1)])
      BY <1>13, <1>14, <3>1 DEF StartsAt
    <3>3. ASSUME NEW i \in DOMAIN dataAir', dataAir'[i].sn = y
          PROVE  Spans(dataAir'[i].data, start[y], start[Plus(y, 1)])
      <4>1. CASE i = n + 1
        <5>1. y = sn /\ dataAir'[i] = p
          BY <1>15, <2>3, <3>3, <4>1
        <5>2. Spans(pdu[y].data, start[y], start[Plus(y, 1)])
          BY <1>4, <3>1, <5>1 DEF StartsAt
        <5> QED
          BY <1>15, <5>1, <5>2
      <4>2. CASE i # n + 1
        BY <2>3, <3>1, <3>3, <4>2 DEF StartsAt
      <4> QED
        BY <4>1, <4>2
    <3> QED
      BY <3>1, <3>2, <3>3 DEF StartsAt
  <2> QED
    BY <2>1, <2>4 DEF Stream, StreamInv
<1> QED
  BY <1>16, <1>17, <1>18, <1>19, <1>20, <1>21, <1>22

(* The rest of the queue starts where the data field ends.                 *)
LEMMA PendingStarts ==
  ASSUME NEW queue, NEW m, NEW sdu \in Nat, Pending(queue, m, <<sdu, 0>>)
  PROVE  m[1] <= sdu
<1>1. CASE queue = <<>> /\ m = <<sdu, 0>>
  BY <1>1
<1>2. CASE Spans(queue, m, <<sdu, 0>>)
  <2>1. queue \in Seq(Piece) /\ queue # <<>> /\ At(queue[1]) = m
        /\ After(queue[Len(queue)]) = <<sdu, 0>>
    BY <1>2 DEF Spans
  <2>2. PICK n \in Nat : n = Len(queue) /\ 1 <= n
    BY <2>1
  <2>3. m[1] = queue[1].sdu /\ queue[1] \in Piece /\ queue[n] \in Piece
    BY <2>1, <2>2 DEF At
  <2>4. queue[n].sdu = m[1] + (n - 1)
    BY <1>2, <2>2, SpansSdus
  <2>5. sdu = queue[n].sdu + 1 \/ sdu = queue[n].sdu
    BY <2>1, <2>2 DEF After
  <2>6. m[1] \in Nat
    BY <2>3, PieceIs, RlcAmAssumption
  <2> QED
    BY <2>2, <2>4, <2>5, <2>6
<1> QED
  BY <1>1, <1>2 DEF Pending

(* A new PDU is made of the SDUs that wait.                                *)
LEMMA TransmitNewStep ==
  ASSUME RlcAmInv, NoStaleCopies, NEW grant \in Grants, retxBuffer = {}, txonBuffer # <<>>,
         TransmitNew(grant), reported' \in BOOLEAN,
         UNCHANGED <<configuration, accepted, vtA, rbsTimer, rxVars, statusAir, losses, failure>>
  PROVE  RlcAmInv'
<1> USE DEF RlcAmInv
<1>1. PICK data : data = DataField(grant).data
  OBVIOUS
<1>2. PICK left : left = DataField(grant).left
  OBVIOUS
<1>3. PICK next : next = Plus(vtS, 1)
  OBVIOUS
<1>4. PICK p : p = [sn |-> vtS, data |-> data, from |-> 0, to |-> SizeOf(data),
                    segment |-> FALSE, last |-> TRUE, poll |-> TRUE]
  OBVIOUS
<1>5. /\ vtS # vtMs
      /\ dataAir' = Append(dataAir, p)
      /\ pdu' = [pdu EXCEPT ![vtS] = [data |-> data, sent |-> 0]]
      /\ buffer' = [buffer EXCEPT ![vtS] = "txed"]
      /\ txonBuffer' = left
      /\ vtS' = next
      /\ pollSn' = vtS /\ pollTimer' = TRUE /\ pollExpired' = FALSE
  BY <1>1, <1>2, <1>3, <1>4 DEF TransmitNew, Poll
<1>6. Pointers /\ next \in Sn
  BY <1>3, PointersIs, PlusIs, WindowIsSn DEF Pointers
<1>7. PICK start : Stream(start)
  BY DEF StreamInv
<1>8. accepted \in Nat /\ start \in [Sn -> Position]
  <2>1. accepted \in 0..Len(SduSizes)
    BY DEF RlcAmTypeOK
  <2>2. start \in [Sn -> Position]
    BY <1>7 DEF Stream
  <2> QED
    BY <2>1, <2>2
<1>9. PICK m : /\ Spans(data, start[vtS], m) /\ Pending(left, m, <<accepted + 1, 0>>)
               /\ left \in Seq(Piece)
  <2>1. Spans(txonBuffer, start[vtS], <<accepted + 1, 0>>) /\ grant \in Nat \ {0}
    BY <1>7, RlcAmAssumption DEF Stream, Pending
  <2> QED
    BY <1>1, <1>2, <2>1, DataFieldIs
<1>10. m \in Position /\ m[1] <= accepted + 1 /\ data \in Seq(Piece) /\ SizeOf(data) \in Nat
  <2>1. data \in Seq(Piece) /\ data # <<>> /\ m = After(data[Len(data)])
    BY <1>9 DEF Spans
  <2>2. data[Len(data)] \in Piece
    BY <2>1
  <2>3. m \in Position
    <3>1. PICK piece \in Piece : m = After(piece)
      BY <2>1, <2>2
    <3>2. piece.sdu \in Nat /\ piece.to \in Nat
      BY PieceIs, RlcAmAssumption
    <3> QED
      BY <3>1, <3>2 DEF After, Position
  <2>4. m[1] <= accepted + 1
    <3>1. accepted + 1 \in Nat
      BY <1>8
    <3> QED
      BY <1>9, <3>1, PendingStarts
  <2> QED
    BY <2>1, <2>3, <2>4, SizeOfType
(* The window has room for one more.                                       *)
<1>11. \A a, b \in Sn : From(a, b) \in Nat
  BY FromIs, SnIs
<1>12. From(vtA, vtS) < WindowSize
  <2>1. From(vtA, vtS) # WindowSize
    <3>1. Plus(vtA, From(vtA, vtS)) = vtS
      BY <1>6, FromPlus DEF Pointers
    <3> QED
      BY <1>5, <3>1 DEF vtMs
  <2>2. From(vtA, vtS) <= WindowSize /\ From(vtA, vtS) \in Nat
    BY <1>6, <1>11 DEF WindowsInv, Pointers
  <2> QED
    BY <2>1, <2>2, Sizes
<1>13. From(vrR, vtS) = From(vtA, vtS) - From(vtA, vrR) /\ From(vrR, vtS) < WindowSize
       /\ From(vtA, vrR) <= From(vtA, vtS)
  <2>1. From(vtA, vrR) <= From(vtA, vtS)
    BY DEF WindowsInv
  <2>2. From(vrR, vtS) = From(vtA, vtS) - From(vtA, vrR)
    BY <1>6, <2>1, FromMoves DEF Pointers
  <2>3. From(vtA, vtS) \in Nat /\ From(vtA, vrR) \in Nat
    BY <1>6, <1>11 DEF Pointers
  <2> QED
    BY <1>12, <2>1, <2>2, <2>3, Sizes
<1>15. /\ From(vtA, next) = From(vtA, vtS) + 1 /\ From(vrR, next) = From(vrR, vtS) + 1
       /\ \A sn : sn \in Between(vtA, next) <=> sn \in Between(vtA, vtS) \/ sn = vtS
       /\ \A sn : sn \in Between(vrR, next) <=> sn \in Between(vrR, vtS) \/ sn = vtS
       /\ vtS \notin Between(vrR, vtS) /\ vtS \notin Between(vtA, vtS)
       /\ \A sn \in Between(vrR, vtS) : Plus(sn, 1) # next
       /\ Plus(next, -1) = vtS
  BY <1>3, <1>6, <1>12, <1>13, NextNumber DEF Pointers
<1>16. vtS # next /\ vrR # next /\ \A sn \in Between(vrR, vtS) : sn # next
  BY <1>3, <1>6, <1>13, NextNumber DEF Pointers
<1>17. /\ \A i \in DOMAIN dataAir : dataAir[i].sn # vtS
       /\ rxonBuffer[vtS] = NoEntry
       /\ buffer[vtS] = "none"
  <2>1. ASSUME NEW i \in DOMAIN dataAir, dataAir[i].sn = vtS PROVE FALSE
    <3>1. IsInsideReceivingWindow(dataAir[i].sn)
      BY <1>13, <2>1 DEF IsInsideReceivingWindow
    <3> QED
      BY <1>15, <2>1, <3>1 DEF NoStaleCopies
  <2>2. rxonBuffer[vtS] = NoEntry
    <3>1. ~(From(vrR, vtS) < From(vrR, vrH))
      <4>1. From(vrR, vrH) <= From(vrR, vtS)
        BY DEF WindowsInv
      <4>2. From(vrR, vrH) \in Nat /\ From(vrR, vtS) \in Nat
        BY <1>6, <1>11 DEF Pointers
      <4> QED
        BY <4>1, <4>2
    <3> QED
      BY <1>6, <3>1, BetweenIs DEF EntriesInv, Pointers
  <2>3. buffer[vtS] = "none"
    BY <1>6, <1>15 DEF BuffersInv, Pointers
  <2> QED
    BY <2>1, <2>2, <2>3
<1> USE <1>5 DEF rxVars, configuration
<1>18. /\ buffer' \in [Sn -> {"none", "txed", "retx"}]
       /\ buffer'[vtS] = "txed" /\ \A y \in Sn : y # vtS => buffer'[y] = buffer[y]
       /\ pdu' \in [Sn -> [data : Seq(Piece), sent : Nat]]
       /\ pdu'[vtS].data = data /\ pdu'[vtS].sent = 0 /\ \A y \in Sn : y # vtS => pdu'[y] = pdu[y]
  <2>1. buffer \in [Sn -> {"none", "txed", "retx"}] /\ pdu \in [Sn -> [data : Seq(Piece), sent : Nat]]
    BY DEF RlcAmTypeOK
  <2>2. [data |-> data, sent |-> 0] \in [data : Seq(Piece), sent : Nat]
    BY <1>10
  <2> QED
    BY <1>6, <2>1, <2>2 DEF Pointers
<1>19. p \in AmdPdu /\ p.sn = vtS /\ p.data = data
  BY <1>4, <1>6, <1>10 DEF AmdPdu, Pointers
<1>20. RlcAmTypeOK'
  <2>1. dataAir' \in Seq(AmdPdu)
    BY <1>19, Airs
  <2> QED
    BY <1>6, <1>9, <1>18, <2>1 DEF RlcAmTypeOK, Failures, Pointers
<1>21. WindowsInv'
  <2>1. From(vtA, vtS) \in Nat /\ From(vrR, vtS) \in Nat /\ From(vtA, vrR) \in Nat /\ From(vrR, vrH) \in Nat
        /\ WindowSize \in Nat
    BY <1>6, <1>11, Sizes DEF Pointers
  <2>2. From(vtA, next) <= WindowSize /\ From(vtA, vrR) <= From(vtA, next) /\ From(vrR, vrH) <= From(vrR, next)
    BY <1>12, <1>13, <1>15, <2>1 DEF WindowsInv
  <2> QED
    BY <2>2 DEF WindowsInv
<1>22. EntriesInv'
  BY Stand
<1>23. BuffersInv'
  <2>1. \A sn \in Sn : sn \notin Between(vtA, next) => buffer'[sn] = "none"
    BY <1>15, <1>18 DEF BuffersInv
  <2>2. buffer'[vtA] # "none"
    BY <1>6, <1>18 DEF BuffersInv, Pointers
  <2>3. \A sn \in Between(vrR, next) : buffer'[sn] = "none" => rxonBuffer[sn].complete
    BY <1>15, <1>18, BetweenIs DEF BuffersInv
  <2> QED
    BY <2>1, <2>2, <2>3 DEF BuffersInv
<1>24. StatusInv'
  <2>1. ASSUME NEW s \in StatusPdu, GoodStatus(s) PROVE GoodStatus(s)'
    <3>1. From(vtA, s.ackSn) <= From(vtA, next)
      <4>1. s.ackSn \in Sn /\ From(vtA, s.ackSn) <= From(vtA, vtS)
        BY <2>1 DEF GoodStatus, StatusPdu
      <4>2. From(vtA, s.ackSn) \in Nat /\ From(vtA, vtS) \in Nat
        BY <1>6, <1>11, <4>1 DEF Pointers
      <4> QED
        BY <1>15, <4>1, <4>2
    <3>2. \A n \in Missed(s) : n \in Between(vtA, next) => buffer'[n] # "none"
      BY <1>15, <1>18, <2>1, BetweenIs DEF GoodStatus
    <3> QED
      BY <2>1, <3>1, <3>2 DEF GoodStatus, Received
  <2>2. \A s, t : Later(s, t) => Later(s, t)'
    BY DEF Later
  <2>3. \A i \in DOMAIN statusAir : statusAir[i] \in StatusPdu
    BY Airs
  <2> QED
    BY <2>1, <2>2, <2>3 DEF StatusInv
<1>25. TimersInv'
  <2>1. vtS = Plus(next, -1)
    BY <1>15
  <2>2. rbsTimer
    BY DEF TimersInv
  <2>3. retxAlwaysFits => \A y \in Sn : pdu'[y].sent = 0
    BY <1>18 DEF TimersInv
  <2> QED
    BY <2>1, <2>2, <2>3 DEF TimersInv
<1>26. PursuitInv'
  BY DEF PursuitInv
<1>27. StreamInv'
  <2>1. PICK where : where = [start EXCEPT ![next] = m]
    OBVIOUS
  <2>2. where \in [Sn -> Position] /\ where[next] = m /\ \A y \in Sn : y # next => where[y] = start[y]
    BY <1>6, <1>8, <1>10, <2>1
  <2>3. PICK n \in Nat : n = Len(dataAir)
    BY Airs
  <2>4. DOMAIN dataAir' = 1..(n + 1) /\ DOMAIN dataAir = 1..n /\ dataAir'[n + 1] = p
        /\ \A i \in 1..n : dataAir'[i] = dataAir[i]
    BY <1>19, <2>3, Airs
  <2>5. ASSUME NEW y \in Between(vrR, vtS) PROVE StartsAt(where, y)'
    <3>1. StartsAt(start, y) /\ y \in Sn /\ y # vtS /\ Plus(y, 1) \in Sn
      BY <1>6, <1>7, <1>15, BetweenIs, PointersIs DEF Stream
    <3>2. where[y] = start[y] /\ where[Plus(y, 1)] = start[Plus(y, 1)]
      BY <1>15, <1>16, <2>2, <2>5, <3>1
    <3>3. buffer'[y] # "none" => Spans(pdu'[y].data, start[y], start[Plus(y, 1)])
      BY <1>18, <3>1 DEF StartsAt
    <3>4. ASSUME NEW i \in DOMAIN dataAir', dataAir'[i].sn = y
          PROVE  Spans(dataAir'[i].data, start[y], start[Plus(y, 1)])
      <4>1. i # n + 1
        BY <1>19, <2>4, <3>1, <3>4
      <4> QED
        BY <2>4, <3>1, <3>4, <4>1 DEF StartsAt
    <3> QED
      BY <3>1, <3>2, <3>3, <3>4 DEF StartsAt
  <2>6. ASSUME NEW y \in Sn, y = vtS PROVE StartsAt(where, y)'
    <3>0. y \in Sn /\ y = vtS
      BY <2>6
    <3>1. where[y] = start[y] /\ where[Plus(y, 1)] = m /\ start[y][1] <= accepted + 1
      BY <1>3, <1>7, <1>16, <2>2, <3>0 DEF Stream
    <3>2. Spans(pdu'[y].data, where[y], where[Plus(y, 1)])
      BY <1>9, <1>18, <3>0, <3>1
    <3>3. rxonBuffer[y] = NoEntry
      BY <1>17, <3>0
    <3>4. ASSUME NEW i \in DOMAIN dataAir', dataAir'[i].sn = y
          PROVE  Spans(dataAir'[i].data, where[y], where[Plus(y, 1)])
      <4>1. i = n + 1
        BY <1>17, <2>4, <3>0, <3>4
      <4> QED
        BY <1>9, <1>19, <2>4, <3>0, <3>1, <4>1
    <3> QED
      BY <1>8, <3>1, <3>2, <3>3, <3>4 DEF StartsAt
  <2>7. Stream(where)'
    <3>1. \A y \in Between(vrR, next) : StartsAt(where, y)'
      BY <1>15, <2>5, <2>6, BetweenIs
    <3>2. where[vrR] = start[vrR]
      BY <1>6, <1>16, <2>2 DEF Pointers
    <3> QED
      BY <1>7, <1>9, <1>10, <2>2, <3>1, <3>2 DEF Stream
  <2> QED
    BY <2>7 DEF StreamInv
<1> QED
  BY <1>20, <1>21, <1>22, <1>23, <1>24, <1>25, <1>26, <1>27

(* A transmit opportunity: a STATUS PDU, a retransmission or a new PDU.    *)
LEMMA NotifyTxOpportunityStep ==
  ASSUME RlcAmInv, NoStaleCopies, NEW grant \in Grants, NotifyTxOpportunity(grant),
         UNCHANGED configuration
  PROVE  RlcAmInv'
<1> DEFINE first == retxBuffer # {} /\ Retransmit(grant) /\ UNCHANGED failure
           new == retxBuffer = {} /\ txonBuffer # <<>> /\ TransmitNew(grant) /\ UNCHANGED failure
<1>1. retxBuffer # {} => retxBuffer \cap Unacknowledged # {}
  BY DEF RlcAmInv, BuffersInv, retxBuffer, InBuffer, Unacknowledged
<1>2. first \/ new
  BY <1>1 DEF NotifyTxOpportunity
<1>3. UNCHANGED <<accepted, vtA, rbsTimer, rxVars, statusAir, losses>>
  BY DEF NotifyTxOpportunity
<1>4. reported' \in BOOLEAN
  BY DEF NotifyTxOpportunity
<1>5. CASE first
  BY <1>3, <1>4, <1>5, RetransmitStep
<1>6. CASE new
  BY <1>3, <1>4, <1>6, TransmitNewStep
<1> QED
  BY <1>2, <1>5, <1>6

--------------------------------------------------------------------------------
(* Data PDUs.                                                              *)

(* What is stored is what was there, or the data field of the PDU, or      *)
(* nothing; a PDU that was complete stays.                                 *)
LEMMA StoreIs ==
  ASSUME RlcAmTypeOK, NEW p \in AmdPdu
  PROVE  /\ Store(p) \in [data : Seq(Piece), got : Nat, complete : BOOLEAN]
         /\ Store(p) # NoEntry => \/ Store(p) = rxonBuffer[p.sn]
                                  \/ Store(p).data = p.data
         /\ rxonBuffer[p.sn].complete => Store(p) = rxonBuffer[p.sn]
<1>1. /\ p.sn \in Sn /\ p.data \in Seq(Piece) /\ p.from \in Nat /\ p.to \in Nat
      /\ p.segment \in BOOLEAN /\ p.last \in BOOLEAN
  BY DEF AmdPdu
<1>2. rxonBuffer[p.sn] \in [data : Seq(Piece), got : Nat, complete : BOOLEAN]
  BY <1>1 DEF RlcAmTypeOK
<1>3. NoEntry \in [data : Seq(Piece), got : Nat, complete : BOOLEAN] /\ ~NoEntry.complete
  BY DEF NoEntry
<1> DEFINE grown == [data |-> p.data, got |-> p.to, complete |-> p.last]
<1>4. grown \in [data : Seq(Piece), got : Nat, complete : BOOLEAN] /\ grown.data = p.data
  BY <1>1
<1>5. Store(p) \in {grown, NoEntry, rxonBuffer[p.sn]}
  BY DEF Store
<1>6. rxonBuffer[p.sn].complete => Store(p) = rxonBuffer[p.sn]
  BY <1>3 DEF Store
<1> HIDE DEF grown
<1> QED
  BY <1>2, <1>3, <1>4, <1>5, <1>6

(* The receiver's windows with one PDU more.                               *)
Entries(p) == [rxonBuffer EXCEPT ![p.sn] = Store(p)]
Lower(p) == IF p.sn = vrR THEN FirstMissing(Entries(p), vrR) ELSE vrR
Highest(p) == IF From(vrR, p.sn) >= From(vrR, vrH) THEN Plus(p.sn, 1) ELSE vrH

(* VR(H) moves forward, and not past VT(S).                                *)
LEMMA HighestIs ==
  ASSUME RlcAmInv, NEW p \in AmdPdu, p.sn \in Between(vrR, vtS), From(vrR, p.sn) < WindowSize
  PROVE  /\ Highest(p) \in Sn
         /\ From(vrR, vrH) <= From(vrR, Highest(p))
         /\ From(vrR, Highest(p)) <= From(vrR, vtS)
         /\ From(vrR, p.sn) < From(vrR, Highest(p))
<1> USE DEF RlcAmInv
<1>1. PICK sn \in Sn : sn = p.sn
  BY DEF AmdPdu
<1>2. Pointers /\ \A a, b \in Sn : From(a, b) \in Nat
  BY PointersIs, FromIs, SnIs
<1>3. From(vrR, sn) \in Nat /\ From(vrR, vrH) \in Nat /\ From(vrR, vtS) \in Nat
  BY <1>2 DEF Pointers
<1>4. From(vrR, sn) < From(vrR, vtS) /\ From(vrR, vrH) <= From(vrR, vtS)
  BY <1>1, BetweenIs DEF WindowsInv
<1>5. CASE From(vrR, sn) >= From(vrR, vrH)
  <2>1. Highest(p) = Plus(sn, 1)
    BY <1>1, <1>5 DEF Highest
  <2>2. From(vrR, Plus(sn, 1)) = From(vrR, sn) + 1
    BY <1>1, <1>2, NextNumber DEF Pointers
  <2>3. Plus(sn, 1) \in Sn
    BY <1>2, PointersIs
  <2> QED
    BY <1>1, <1>3, <1>4, <1>5, <2>1, <2>2, <2>3
<1>6. CASE ~(From(vrR, sn) >= From(vrR, vrH))
  <2>1. Highest(p) = vrH
    BY <1>1, <1>6 DEF Highest
  <2> QED
    BY <1>1, <1>2, <1>3, <1>4, <1>6, <2>1 DEF Pointers
<1> QED
  BY <1>5, <1>6

(* The entries once the PDU is stored.                                     *)
LEMMA EntriesAre ==
  ASSUME RlcAmInv, NEW p \in AmdPdu, p.sn \in Between(vrR, vtS), From(vrR, p.sn) < WindowSize
  PROVE  /\ Entries(p) \in [Sn -> [data : Seq(Piece), got : Nat, complete : BOOLEAN]]
         /\ \A sn \in Sn : Entries(p)[sn] # NoEntry =>
              /\ sn \in Between(vrR, Highest(p))
              /\ \/ Entries(p)[sn] = rxonBuffer[sn]
                 \/ sn = p.sn /\ Entries(p)[sn].data = p.data
         /\ \A sn \in Sn : rxonBuffer[sn].complete => Entries(p)[sn].complete
         /\ ~Entries(p)[Highest(p)].complete
<1> USE DEF RlcAmInv
<1>1. p.sn \in Sn
  BY DEF AmdPdu
<1>2. Pointers /\ \A a, b \in Sn : From(a, b) \in Nat
  BY PointersIs, FromIs, SnIs
<1>3. rxonBuffer \in [Sn -> [data : Seq(Piece), got : Nat, complete : BOOLEAN]]
  BY DEF RlcAmTypeOK
<1> DEFINE entries == Entries(p)
<1>4. /\ entries \in [Sn -> [data : Seq(Piece), got : Nat, complete : BOOLEAN]]
      /\ entries[p.sn] = Store(p) /\ \A sn \in Sn : sn # p.sn => entries[sn] = rxonBuffer[sn]
  BY <1>1, <1>3, StoreIs DEF Entries
<1> HIDE DEF entries
<1>5. ASSUME NEW sn \in Sn, entries[sn] # NoEntry
      PROVE  /\ sn \in Between(vrR, Highest(p))
             /\ entries[sn] = rxonBuffer[sn] \/ (sn = p.sn /\ entries[sn].data = p.data)
  <2>1. CASE sn = p.sn
    <3>1. From(vrR, sn) < From(vrR, Highest(p))
      BY <2>1, HighestIs
    <3> QED
      BY <1>4, <1>5, <2>1, <3>1, StoreIs, BetweenIs
  <2>2. CASE sn # p.sn
    <3>1. entries[sn] = rxonBuffer[sn] /\ From(vrR, sn) < From(vrR, vrH)
      BY <1>4, <1>5, <2>2, BetweenIs DEF EntriesInv
    <3>2. From(vrR, vrH) <= From(vrR, Highest(p)) /\ Highest(p) \in Sn
      BY HighestIs
    <3>3. From(vrR, sn) < From(vrR, Highest(p))
      BY <1>2, <3>1, <3>2 DEF Pointers
    <3> QED
      BY <3>1, <3>3, BetweenIs
  <2> QED
    BY <2>1, <2>2
<1>6. \A sn \in Sn : rxonBuffer[sn].complete => entries[sn].complete
  BY <1>4, StoreIs
<1>7. ~entries[Highest(p)].complete
  <2>1. Highest(p) \in Sn
    BY HighestIs
  <2>2. Highest(p) \notin Between(vrR, Highest(p))
    BY <1>2, <2>1, BetweenIs DEF Pointers
  <2>3. entries[Highest(p)] = NoEntry
    BY <1>5, <2>1, <2>2
  <2> QED
    BY <2>3 DEF NoEntry
<1> QED
  BY <1>4, <1>5, <1>6, <1>7 DEF entries

(* VR(R) moves to the first number that is missing.                        *)
LEMMA LowerIs ==
  ASSUME RlcAmInv, NEW p \in AmdPdu, p.sn \in Between(vrR, vtS), From(vrR, p.sn) < WindowSize
  PROVE  /\ Lower(p) \in Sn
         /\ From(vrR, Lower(p)) <= From(vrR, Highest(p))
         /\ ~Entries(p)[Lower(p)].complete
         /\ \A y \in Sn : From(vrR, y) < From(vrR, Lower(p)) => Entries(p)[y].complete
<1> USE DEF RlcAmInv
<1>1. Pointers /\ \A a, b \in Sn : From(a, b) \in Nat
  BY PointersIs, FromIs, SnIs
<1>2. Highest(p) \in Sn /\ ~Entries(p)[Highest(p)].complete
  BY HighestIs, EntriesAre
<1>3. CASE p.sn = vrR
  <2>1. Lower(p) = FirstMissing(Entries(p), vrR)
    BY <1>3 DEF Lower
  <2> QED
    BY <1>1, <1>2, <2>1, FirstMissingIs DEF Pointers
<1>4. CASE p.sn # vrR
  <2>1. Lower(p) = vrR /\ vrR \in Sn /\ From(vrR, vrR) = 0
    BY <1>1, <1>4, FromSelf DEF Lower, Pointers
  <2>2. Entries(p)[vrR] = rxonBuffer[vrR]
    BY <1>1, <1>4 DEF Entries, RlcAmTypeOK, Pointers
  <2>3. ~rxonBuffer[vrR].complete
    BY DEF EntriesInv
  <2> QED
    BY <1>1, <1>2, <2>1, <2>2, <2>3 DEF Pointers
<1> QED
  BY <1>3, <1>4

(* VR(MS) moves to the first number that is missing from it on.            *)
LEMMA NewMsIs ==
  ASSUME RlcAmInv, NEW p \in AmdPdu, p.sn \in Between(vrR, vtS), From(vrR, p.sn) < WindowSize,
         NEW ms, ms = FirstMissing(Entries(p), vrMs)
  PROVE  /\ ms \in Sn /\ ~Entries(p)[ms].complete
         /\ From(vrR, Lower(p)) <= From(vrR, ms)
         /\ From(vrR, ms) <= From(vrR, Highest(p))
<1> USE DEF RlcAmInv
<1>1. Pointers /\ \A a, b \in Sn : From(a, b) \in Nat
  BY PointersIs, FromIs, SnIs
<1>2. Highest(p) \in Sn /\ ~Entries(p)[Highest(p)].complete /\ From(vrR, vrH) <= From(vrR, Highest(p))
  BY HighestIs, EntriesAre
<1>3. ms \in Sn /\ ~Entries(p)[ms].complete /\ From(vrMs, ms) <= From(vrMs, Highest(p))
  BY <1>1, <1>2, FirstMissingIs DEF Pointers
<1>4. From(vrR, vrMs) <= From(vrR, Highest(p))
  <2>1. From(vrR, vrMs) <= From(vrR, vrH)
    BY DEF WindowsInv
  <2>2. From(vrR, vrMs) \in Nat /\ From(vrR, vrH) \in Nat /\ From(vrR, Highest(p)) \in Nat
    BY <1>1, <1>2 DEF Pointers
  <2> QED
    BY <1>2, <2>1, <2>2
<1>5. From(vrR, ms) = From(vrR, vrMs) + From(vrMs, ms)
  BY <1>1, <1>2, <1>3, <1>4, FromBack DEF Pointers
<1>6. From(vrMs, Highest(p)) = From(vrR, Highest(p)) - From(vrR, vrMs)
  BY <1>1, <1>2, <1>4, FromMoves DEF Pointers
<1>7. From(vrR, vrMs) \in Nat /\ From(vrMs, ms) \in Nat /\ From(vrR, Highest(p)) \in Nat
  BY <1>1, <1>2, <1>3 DEF Pointers
<1>8. From(vrR, ms) <= From(vrR, Highest(p))
  BY <1>3, <1>5, <1>6, <1>7
<1>9. From(vrR, Lower(p)) <= From(vrR, ms)
  <2>1. Lower(p) \in Sn /\ ~(From(vrR, ms) < From(vrR, Lower(p)))
    BY <1>3, LowerIs
  <2>2. From(vrR, ms) \in Nat /\ From(vrR, Lower(p)) \in Nat
    BY <1>1, <1>3, <2>1 DEF Pointers
  <2> QED
    BY <2>1, <2>2
<1> QED
  BY <1>3, <1>8, <1>9

(* t-Reordering.                                                           *)
LEMMA UpdateReorderingIs ==
  ASSUME RlcAmInv, NEW lower \in Sn, NEW highest \in Sn,
         From(vrR, lower) <= From(vrR, highest), From(vrR, vrH) <= From(vrR, highest),
         From(vrR, highest) <= From(vrR, vtS), UpdateReordering(lower, highest)
  PROVE  /\ reorderingTimer' \in BOOLEAN /\ vrX' \in Sn
         /\ reorderingTimer' => From(lower, vrX') \in 1..From(lower, highest)
<1> USE DEF RlcAmInv
<1>1. Pointers /\ \A a, b \in Sn : From(a, b) \in Nat
  BY PointersIs, FromIs, SnIs
<1> DEFINE running == reorderingTimer /\ ~WaitsInVain(lower)
           starts == ~running /\ From(lower, highest) > 0
<1>2. reorderingTimer' = (running \/ starts) /\ vrX' = IF starts THEN highest ELSE vrX
  BY DEF UpdateReordering
<1>3. CASE starts
  <2>1. From(lower, highest) \in Nat
    BY <1>1
  <2> QED
    BY <1>2, <1>3, <2>1
<1>4. CASE ~starts /\ running
  <2>1. /\ vrX' = vrX /\ vrX # lower /\ reorderingTimer
        /\ ~(From(lower, vrX) >= WindowSize /\ vrX # Plus(lower, WindowSize))
    BY <1>2, <1>4 DEF WaitsInVain
  <2>2. From(vrR, vrX) \in 1..From(vrR, vrH) /\ vrX \in Sn
    BY <1>1, <2>1 DEF WindowsInv, Pointers
  <2>3. /\ From(vrR, vrX) \in Nat /\ From(vrR, lower) \in Nat /\ From(vrR, highest) \in Nat
        /\ From(vrR, vrH) \in Nat /\ From(lower, vrX) \in Nat /\ From(vrR, vtS) \in Nat
        /\ From(lower, highest) \in Nat
    BY <1>1, <2>2 DEF Pointers
  <2>4. From(vrR, highest) <= WindowSize
    <3>1. From(vtA, vrR) <= From(vtA, vtS) /\ From(vtA, vtS) <= WindowSize
      BY DEF WindowsInv
    <3>2. From(vrR, vtS) = From(vtA, vtS) - From(vtA, vrR)
      BY <1>1, <3>1, FromMoves DEF Pointers
    <3>3. From(vtA, vtS) \in Nat /\ From(vtA, vrR) \in Nat
      BY <1>1 DEF Pointers
    <3> QED
      BY <2>3, <3>1, <3>2, <3>3, Sizes
  <2>5. CASE From(vrR, lower) <= From(vrR, vrX)
    <3>1. From(lower, vrX) = From(vrR, vrX) - From(vrR, lower)
          /\ From(lower, highest) = From(vrR, highest) - From(vrR, lower)
      BY <1>1, <2>2, <2>5, FromMoves DEF Pointers
    <3>2. From(lower, vrX) # 0
      BY <2>1, <2>2, FromZero
    <3>3. From(vrR, vrX) <= From(vrR, highest)
      BY <2>2, <2>3
    <3> QED
      BY <1>2, <1>4, <2>1, <2>2, <2>3, <3>1, <3>2, <3>3
  <2>6. CASE From(vrR, vrX) < From(vrR, lower)
    <3>1. From(lower, vrX) = Modulus - (From(vrR, lower) - From(vrR, vrX))
      <4>1. From(vrR, vrX) = IF From(vrR, lower) + From(lower, vrX) < Modulus
                               THEN From(vrR, lower) + From(lower, vrX)
                               ELSE From(vrR, lower) + From(lower, vrX) - Modulus
        BY <1>1, <2>2, FromAdds DEF Pointers
      <4> QED
        BY <2>3, <2>6, <4>1, Sizes
    <3>2. From(vrR, lower) <= WindowSize /\ 1 <= From(vrR, vrX)
      BY <2>2, <2>3, <2>4, Sizes
    <3>3. From(lower, vrX) > WindowSize
      <4>1. WindowSize \in Nat /\ Modulus \in Nat /\ 2 * WindowSize <= Modulus
        BY Sizes
      <4> QED
        BY <2>3, <3>1, <3>2, <4>1
    <3>4. From(lower, Plus(lower, WindowSize)) = WindowSize
      BY FromPlus, WindowIsSn
    <3> QED
      BY <2>1, <2>3, <3>3, <3>4, Sizes
  <2> QED
    BY <2>3, <2>5, <2>6
<1>5. CASE ~starts /\ ~running
  BY <1>1, <1>2, <1>5 DEF Pointers
<1>6. reorderingTimer' \in BOOLEAN /\ vrX' \in Sn
  BY <1>1, <1>2 DEF Pointers
<1> HIDE DEF starts, running
<1> QED
  BY <1>3, <1>4, <1>5, <1>6

(* A number n steps further is one step after n - 1 steps.                 *)
LEMMA PlusPlus ==
  ASSUME NEW a \in Sn, NEW n \in Sn, n - 1 \in Sn
  PROVE  Plus(Plus(a, n - 1), 1) = Plus(a, n)
<1>1. PICK b \in Sn : b = Plus(a, n - 1)
  BY PlusIs
<1>2. b = IF a + (n - 1) < Modulus THEN a + (n - 1) ELSE a + (n - 1) - Modulus
  BY <1>1, PlusIs
<1>3. Plus(b, 1) = IF b + 1 < Modulus THEN b + 1 ELSE b + 1 - Modulus
  BY PlusIs, WindowIsSn
<1>4. Plus(a, n) = IF a + n < Modulus THEN a + n ELSE a + n - Modulus
  BY PlusIs
<1>5. /\ a \in Int /\ n \in Int /\ Modulus \in Int /\ 0 <= a /\ a < Modulus /\ 1 <= n /\ n < Modulus
  BY SnIs, Sizes
<1>6. Plus(b, 1) = Plus(a, n)
  BY <1>2, <1>3, <1>4, <1>5
<1> QED
  BY <1>1, <1>6

(* The SDUs that are delivered are the next ones.                          *)
LEMMA DeliverIs ==
  ASSUME RlcAmInv, NEW start, Stream(start), NEW lower \in Sn, NEW entries,
         \A y \in Sn : From(vrR, y) < From(vrR, lower) =>
                         Spans(entries[y].data, start[y], start[Plus(y, 1)]),
         Deliver(entries, lower)
  PROVE  /\ failure' = "none" /\ keepS0' \in Seq(Piece)
         /\ received' \in Seq(Nat) /\ received' = [i \in 1..Len(received') |-> i]
         /\ Len(received) <= Len(received')
         /\ Kept(keepS0', Len(received') + 1, start[lower])
<1> USE DEF RlcAmInv
<1> DEFINE k == From(vrR, lower)
           fields == [n \in 1..k |-> entries[Plus(vrR, n - 1)].data]
           state == [kept |-> keepS0, sdus |-> <<>>, ok |-> TRUE]
           done == FoldLeft(Reassemble, state, fields)
           P == [n \in 0..k |-> start[Plus(vrR, n)]]
           before == Len(received)
<1>1. vrR \in Sn /\ k \in Nat /\ k \in Sn /\ keepS0 \in Seq(Piece) /\ received \in Seq(0..Len(SduSizes))
  <2>1. vrR \in Sn /\ keepS0 \in Seq(Piece) /\ received \in Seq(0..Len(SduSizes))
    BY DEF RlcAmTypeOK
  <2> QED
    BY <2>1, FromIs, SnIs
<1>2. /\ keepS0' = done.kept
      /\ received' = received \o [i \in DOMAIN done.sdus |-> SduOf(done.sdus[i])]
      /\ failure' = IF done.ok THEN failure ELSE "framing"
  BY DEF Deliver
<1>3. before \in Nat /\ received \in Seq(Nat) /\ \A i \in 1..before : received[i] = i
  <2>1. received = [i \in 1..Len(received) |-> i]
    BY DEF StreamInv
  <2>2. \A i \in 0..Len(SduSizes) : i \in Nat
    OBVIOUS
  <2> QED
    BY <1>1, <2>1, <2>2
<1>4. \A n \in 0..k : n \in Sn
  <2>1. k < Modulus /\ Modulus \in Nat
    BY <1>1, SnIs, Sizes
  <2> HIDE DEF k
  <2> QED
    BY <1>1, <2>1, SnIs
<1>5. P[0] = start[vrR] /\ P[k] = start[lower]
  <2>1. Plus(vrR, 0) = vrR /\ Plus(vrR, k) = lower
    BY <1>1, PlusIs, SnIs, WindowIsSn, FromPlus
  <2> QED
    BY <1>1, <2>1
<1>6. GoodState(state, before, P[0])
  <2>1. state \in ReassemblyState
    BY <1>1 DEF ReassemblyState
  <2>2. Kept(keepS0, before + 1, P[0])
    BY <1>5 DEF Stream
  <2>3. state.kept = keepS0 /\ state.ok /\ state.sdus = <<>> /\ Len(state.sdus) = 0 /\ before + 0 + 1 = before + 1
    BY <1>3
  <2> HIDE DEF state, P, before
  <2> QED
    BY <2>1, <2>2, <2>3 DEF GoodState
<1>7. ASSUME NEW n \in 1..k PROVE Spans(fields[n], P[n - 1], P[n])
  <2>1. n - 1 \in 0..k /\ n \in 0..k /\ n - 1 \in Sn /\ n \in Sn /\ n - 1 < k
    BY <1>1, <1>4
  <2>2. PICK y \in Sn : y = Plus(vrR, n - 1)
    BY <1>1, <2>1, PlusIs
  <2>3. From(vrR, y) = n - 1
    BY <1>1, <2>1, <2>2, FromPlus
  <2>4. Plus(y, 1) = Plus(vrR, n)
    BY <1>1, <2>1, <2>2, PlusPlus
  <2>5. Spans(entries[y].data, start[y], start[Plus(y, 1)])
    BY <2>1, <2>3
  <2> QED
    BY <2>1, <2>2, <2>4, <2>5
<1>8. DOMAIN fields = 1..k
  OBVIOUS
<1> HIDE DEF k, fields, state, P, before
<1>9. GoodState(done, before, P[k])
  BY <1>1, <1>3, <1>6, <1>7, <1>8, ReassembleAll
<1> HIDE DEF done
<1>10. /\ done.kept \in Seq(Piece) /\ done.sdus \in Seq(Seq(Piece)) /\ done.ok
       /\ Kept(done.kept, before + Len(done.sdus) + 1, P[k])
       /\ \A i \in 1..Len(done.sdus) : SduOf(done.sdus[i]) = before + i
  BY <1>9 DEF GoodState, ReassemblyState
<1>11. PICK m \in Nat : m = Len(done.sdus)
  BY <1>10
<1> DEFINE more == [i \in 1..m |-> SduOf(done.sdus[i])]
<1>12. more \in Seq(Nat) /\ Len(more) = m /\ \A i \in 1..m : more[i] = before + i
  <2>1. \A i \in 1..m : SduOf(done.sdus[i]) = before + i /\ before + i \in Nat
    BY <1>3, <1>10, <1>11
  <2> QED
    BY <2>1
<1>13. received' = received \o more
  <2>1. DOMAIN done.sdus = 1..m
    BY <1>10, <1>11
  <2> QED
    BY <1>2, <2>1
<1> HIDE DEF more
<1>14. /\ received' \in Seq(Nat) /\ Len(received') = before + m
       /\ \A i \in 1..(before + m) : received'[i] = i
  <2>1. received \o more \in Seq(Nat) /\ Len(received \o more) = before + m
        /\ \A i \in 1..(before + m) : (received \o more)[i] = IF i <= before THEN received[i] ELSE more[i - before]
    <3>1. PICK a \in Seq(Nat) : a = received
      BY <1>3
    <3>2. PICK b \in Seq(Nat) : b = more
      BY <1>12
    <3>3. Len(a) = before /\ Len(b) = m
      BY <1>12, <3>1, <3>2 DEF before
    <3>4. a \o b \in Seq(Nat) /\ Len(a \o b) = Len(a) + Len(b)
          /\ \A i \in 1..(Len(a) + Len(b)) : (a \o b)[i] = IF i <= Len(a) THEN a[i] ELSE b[i - Len(a)]
      OBVIOUS
    <3> QED
      BY <3>1, <3>2, <3>3, <3>4
  <2>2. \A i \in 1..(before + m) : (received \o more)[i] = i
    <3> SUFFICES ASSUME NEW i \in 1..(before + m) PROVE (received \o more)[i] = i
      OBVIOUS
    <3>1. CASE i <= before
      BY <1>3, <2>1, <3>1
    <3>2. CASE ~(i <= before)
      <4>1. i - before \in 1..m /\ before + (i - before) = i
        BY <1>3, <1>11, <3>2
      <4> QED
        BY <1>12, <2>1, <3>2, <4>1
    <3> QED
      BY <3>1, <3>2
  <2> QED
    BY <1>13, <2>1, <2>2
<1>15. received' = [i \in 1..Len(received') |-> i]
  BY <1>14
<1>16. failure' = "none"
  BY <1>2, <1>10
<1> QED
  <2>1. Len(received) <= Len(received')
    BY <1>3, <1>11, <1>14 DEF before
  <2>2. Kept(keepS0', Len(received') + 1, start[lower])
    BY <1>2, <1>5, <1>10, <1>11, <1>14
  <2> QED
    BY <1>2, <1>10, <1>14, <1>15, <1>16, <2>1, <2>2

(* A PDU outside the window leaves only its poll.                          *)
LEMMA PassStep ==
  ASSUME RlcAmInv, NEW i \in DOMAIN dataAir, dataAir' = RemoveAt(dataAir, i),
         statusRequested' \in BOOLEAN, statusReported' \in BOOLEAN,
         UNCHANGED <<vrR, vrX, vrMs, vrH, rxonBuffer, reorderingTimer, keepS0, received, failure,
                     prohibitTimer, txVars, statusAir, losses, configuration>>
  PROVE  RlcAmInv'
<1> USE DEF RlcAmInv, txVars, configuration
<1>1. /\ dataAir' \in Seq(AmdPdu)
      /\ \A j \in DOMAIN dataAir' : \E k \in DOMAIN dataAir : dataAir'[j] = dataAir[k]
  BY FewerCopies
<1>2. RlcAmTypeOK'
  BY <1>1 DEF RlcAmTypeOK, Failures
<1>3. StreamInv'
  <2>1. \A start, sn : StartsAt(start, sn) => StartsAt(start, sn)'
    BY <1>1 DEF StartsAt
  <2>2. \A start : Stream(start) => Stream(start)'
    BY <2>1 DEF Stream
  <2> QED
    BY <2>2 DEF StreamInv
<1> QED
  BY <1>2, <1>3, Stand

(* The PDUs that are there, and all before the new VR(R).                  *)
LEMMA AcceptedSpans ==
  ASSUME RlcAmInv, NEW i \in DOMAIN dataAir, NEW p \in AmdPdu, p = dataAir[i],
         p.sn \in Between(vrR, vtS), From(vrR, p.sn) < WindowSize, NEW start, Stream(start)
  PROVE  /\ \A sn \in Between(vrR, vtS) : Entries(p)[sn] # NoEntry =>
              Spans(Entries(p)[sn].data, start[sn], start[Plus(sn, 1)])
         /\ \A y \in Sn : From(vrR, y) < From(vrR, Lower(p)) =>
              Spans(Entries(p)[y].data, start[y], start[Plus(y, 1)])
<1>1. PICK entries : entries = Entries(p)
  OBVIOUS
<1>2. ASSUME NEW sn \in Between(vrR, vtS), entries[sn] # NoEntry
      PROVE  Spans(entries[sn].data, start[sn], start[Plus(sn, 1)])
  <2>1. StartsAt(start, sn) /\ sn \in Sn
    BY BetweenIs DEF Stream
  <2>2. CASE entries[sn] = rxonBuffer[sn]
    BY <1>2, <2>1, <2>2 DEF StartsAt
  <2>3. CASE sn = p.sn /\ entries[sn].data = p.data
    BY <2>1, <2>3 DEF StartsAt
  <2> QED
    BY <1>1, <1>2, <2>1, <2>2, <2>3, EntriesAre
<1>3. ASSUME NEW y \in Sn, From(vrR, y) < From(vrR, Lower(p))
      PROVE  Spans(entries[y].data, start[y], start[Plus(y, 1)])
  <2>1. entries[y] # NoEntry
    <3>1. entries[y].complete
      BY <1>1, <1>3, LowerIs
    <3> QED
      BY <3>1 DEF NoEntry
  <2>2. y \in Between(vrR, vtS)
    <3>1. Pointers /\ Lower(p) \in Sn /\ Highest(p) \in Sn
          /\ From(vrR, Lower(p)) <= From(vrR, Highest(p)) /\ From(vrR, Highest(p)) <= From(vrR, vtS)
      BY PointersIs, LowerIs, HighestIs DEF RlcAmInv
    <3>2. /\ From(vrR, y) \in Nat /\ From(vrR, Lower(p)) \in Nat /\ From(vrR, Highest(p)) \in Nat
          /\ From(vrR, vtS) \in Nat
      BY <3>1, FromIs, SnIs DEF Pointers
    <3>3. From(vrR, y) < From(vrR, vtS)
      BY <1>3, <3>1, <3>2
    <3> QED
      BY <3>3, BetweenIs
  <2> QED
    BY <1>2, <2>1, <2>2
<1> QED
  BY <1>1, <1>2, <1>3

(* The SDUs that the PDU completes are delivered.                          *)
LEMMA AcceptDelivers ==
  ASSUME RlcAmInv, NEW i \in DOMAIN dataAir, NEW p \in AmdPdu, p = dataAir[i],
         p.sn \in Between(vrR, vtS), From(vrR, p.sn) < WindowSize, NEW start, Stream(start),
         Accept(p)
  PROVE  /\ failure' = "none" /\ keepS0' \in Seq(Piece)
         /\ received' \in Seq(Nat) /\ received' = [n \in 1..Len(received') |-> n]
         /\ Len(received) <= Len(received')
         /\ Kept(keepS0', Len(received') + 1, start[Lower(p)])
<1>1. Deliver(Entries(p), Lower(p))
  BY DEF Accept, Entries, Lower
<1>2. Lower(p) \in Sn
  BY LowerIs
<1>3. \A y \in Sn : From(vrR, y) < From(vrR, Lower(p)) =>
              Spans(Entries(p)[y].data, start[y], start[Plus(y, 1)])
  BY AcceptedSpans
<1> QED
  BY <1>1, <1>2, <1>3, DeliverIs

(* A PDU that is new to the receiver keeps the invariant.                  *)
LEMMA AcceptStep ==
  ASSUME RlcAmInv, NEW i \in DOMAIN dataAir, dataAir' = RemoveAt(dataAir, i),
         NEW p, p = dataAir[i], p.sn \in Between(vrR, vtS), From(vrR, p.sn) < WindowSize,
         Accept(p), statusRequested' \in BOOLEAN, statusReported' \in BOOLEAN,
         UNCHANGED <<prohibitTimer, txVars, statusAir, losses, configuration>>
  PROVE  RlcAmInv'
<1> USE DEF RlcAmInv
<1>1. p \in AmdPdu
  BY Airs
<1>2. PICK entries : entries = Entries(p)
  OBVIOUS
<1>3. PICK lower \in Sn : lower = Lower(p)
  BY <1>1, LowerIs
<1>4. PICK highest \in Sn : highest = Highest(p)
  BY <1>1, HighestIs
<1>5. PICK ms \in Sn : ms = FirstMissing(entries, vrMs)
  BY <1>1, <1>2, NewMsIs
<1>6. /\ vrH' = highest /\ vrMs' = ms /\ vrR' = lower
      /\ Deliver(entries, lower)
      /\ rxonBuffer' = [sn \in Sn |-> IF sn \in Between(vrR, lower) THEN NoEntry ELSE entries[sn]]
      /\ UpdateReordering(lower, highest)
  BY <1>2, <1>3, <1>4, <1>5 DEF Accept, Entries, Lower, Highest
(* What the lemmas say of these.                                           *)
<1>7. /\ From(vrR, vrH) <= From(vrR, highest) /\ From(vrR, highest) <= From(vrR, vtS)
      /\ From(vrR, lower) <= From(vrR, highest)
      /\ From(vrR, lower) <= From(vrR, ms) /\ From(vrR, ms) <= From(vrR, highest)
      /\ ~entries[lower].complete /\ ~entries[ms].complete
  BY <1>1, <1>2, <1>3, <1>4, <1>5, HighestIs, LowerIs, NewMsIs
<1>8. /\ entries \in [Sn -> [data : Seq(Piece), got : Nat, complete : BOOLEAN]]
      /\ \A sn \in Sn : entries[sn] # NoEntry =>
           /\ sn \in Between(vrR, highest)
           /\ entries[sn] = rxonBuffer[sn] \/ (sn = p.sn /\ entries[sn].data = p.data)
      /\ \A sn \in Sn : rxonBuffer[sn].complete => entries[sn].complete
      /\ \A sn \in Sn : From(vrR, sn) < From(vrR, lower) => entries[sn].complete
  BY <1>1, <1>2, <1>3, <1>4, EntriesAre, LowerIs
<1>9. Pointers /\ \A a, b \in Sn : From(a, b) \in Nat
  BY PointersIs, FromIs, SnIs
<1>10. reorderingTimer' \in BOOLEAN /\ vrX' \in Sn
       /\ (reorderingTimer' => From(lower, vrX') \in 1..From(lower, highest))
  BY <1>6, <1>7, UpdateReorderingIs
(* Distances.                                                              *)
<1>11. PICK d \in Nat : d = From(vrR, lower)
  BY <1>9 DEF Pointers
<1>12. From(vrR, highest) \in Nat /\ From(vrR, vtS) \in Nat /\ From(vrR, ms) \in Nat
       /\ From(vtA, vrR) \in Nat /\ From(vtA, vtS) \in Nat
  BY <1>9 DEF Pointers
<1>13. From(vtA, vrR) <= From(vtA, vtS) /\ From(vtA, vtS) = From(vtA, vrR) + From(vrR, vtS)
       /\ From(vtA, lower) = From(vtA, vrR) + d
  <2>1. From(vtA, vrR) <= From(vtA, vtS)
    BY DEF WindowsInv
  <2>2. From(vtA, vtS) = From(vtA, vrR) + From(vrR, vtS)
    BY <1>9, <2>1, FromChain DEF Pointers
  <2>3. From(vrR, lower) <= From(vrR, vtS)
    BY <1>7, <1>11, <1>12
  <2>4. From(vtA, lower) = From(vtA, vrR) + d
    BY <1>9, <1>11, <2>1, <2>3, FromBack DEF Pointers
  <2> QED
    BY <2>1, <2>2, <2>4
<1>14. \A y \in Sn : d <= From(vrR, y) => From(lower, y) = From(vrR, y) - d
  BY <1>9, <1>11, FromMoves DEF Pointers
<1>15. \A y \in Sn : y \in Between(lower, vtS) => y \in Between(vrR, vtS) /\ y \notin Between(vrR, lower)
  <2> SUFFICES ASSUME NEW y \in Sn, y \in Between(lower, vtS)
               PROVE  From(vrR, y) < From(vrR, vtS) /\ ~(From(vrR, y) < From(vrR, lower))
    BY BetweenIs
  <2>1. From(lower, y) < From(lower, vtS) /\ From(lower, y) \in Nat /\ From(lower, vtS) \in Nat
    BY <1>9, BetweenIs DEF Pointers
  <2>2. From(lower, vtS) = From(vrR, vtS) - d
    BY <1>7, <1>9, <1>11, <1>12, <1>14 DEF Pointers
  <2>3. From(vrR, y) = d + From(lower, y)
    BY <1>7, <1>9, <1>11, <1>12, <2>1, FromBack DEF Pointers
  <2> QED
    BY <1>11, <1>12, <2>1, <2>2, <2>3
(* The entries after the step.                                             *)
<1>16. PICK after : after = rxonBuffer'
  OBVIOUS
<1>17. /\ after \in [Sn -> [data : Seq(Piece), got : Nat, complete : BOOLEAN]]
       /\ \A sn \in Sn : sn \in Between(vrR, lower) => after[sn] = NoEntry
       /\ \A sn \in Sn : sn \notin Between(vrR, lower) => after[sn] = entries[sn]
  <2>1. NoEntry \in [data : Seq(Piece), got : Nat, complete : BOOLEAN]
    BY DEF NoEntry
  <2> QED
    BY <1>6, <1>8, <1>16, <2>1
<1>18. lower \notin Between(vrR, lower) /\ ms \notin Between(vrR, lower)
  <2>1. From(vrR, lower) \in Nat
    BY <1>11
  <2> QED
    BY <1>7, <1>12, <2>1, BetweenIs
<1>19. \A sn \in Sn : Received(sn) => From(vtA, sn) < From(vtA, lower) \/ after[sn].complete
  <2> SUFFICES ASSUME NEW sn \in Sn, Received(sn)
               PROVE  From(vtA, sn) < From(vtA, lower) \/ after[sn].complete
    OBVIOUS
  <2>1. CASE From(vtA, sn) < From(vtA, vrR)
    <3>1. From(vtA, sn) \in Nat
      BY <1>9 DEF Pointers
    <3> QED
      BY <1>11, <1>12, <1>13, <2>1, <3>1
  <2>2. CASE rxonBuffer[sn].complete
    <3>1. entries[sn].complete
      BY <1>8, <2>2
    <3>2. CASE sn \in Between(vrR, lower)
      <4>1. From(vrR, sn) < From(vrR, lower) /\ From(vrR, sn) \in Nat
        BY <1>9, <3>2, BetweenIs DEF Pointers
      <4>2. From(vrR, sn) <= From(vrR, vtS)
        BY <1>7, <1>11, <1>12, <4>1
      <4>3. From(vtA, sn) = From(vtA, vrR) + From(vrR, sn)
        BY <1>9, <1>13, <4>2, FromBack DEF Pointers
      <4> QED
        BY <1>11, <1>12, <1>13, <4>1, <4>3
    <3>3. CASE sn \notin Between(vrR, lower)
      BY <1>17, <3>1, <3>3
    <3> QED
      BY <3>2, <3>3
  <2> QED
    BY <2>1, <2>2 DEF Received
<1>20. /\ dataAir' \in Seq(AmdPdu)
       /\ \A j \in DOMAIN dataAir' : \E k \in DOMAIN dataAir : dataAir'[j] = dataAir[k]
  BY FewerCopies
(* The SDUs that are delivered.                                            *)
<1>21. PICK start : Stream(start)
  BY DEF StreamInv
<1>22. ASSUME NEW sn \in Sn, sn \in Between(vrR, vtS), entries[sn] # NoEntry
       PROVE  Spans(entries[sn].data, start[sn], start[Plus(sn, 1)])
  BY <1>1, <1>2, <1>21, <1>22, AcceptedSpans
<1>24. /\ failure' = "none" /\ keepS0' \in Seq(Piece)
       /\ received' \in Seq(Nat) /\ received' = [n \in 1..Len(received') |-> n]
       /\ Kept(keepS0', Len(received') + 1, start[lower])
  BY <1>1, <1>3, <1>21, AcceptDelivers
<1>25. start[lower][1] <= accepted + 1
  <2>1. CASE lower = vtS
    BY <1>21, <2>1 DEF Stream
  <2>2. CASE lower # vtS
    <3>1. From(vrR, lower) # From(vrR, vtS)
      BY <1>9, <2>2, FromEqual DEF Pointers
    <3>2. lower \in Between(vrR, vtS)
      BY <1>7, <1>11, <1>12, <3>1, BetweenIs
    <3> QED
      BY <1>21, <3>2 DEF Stream, StartsAt
  <2> QED
    BY <2>1, <2>2
<1>26. accepted \in Nat /\ accepted <= Len(SduSizes) /\ Len(SduSizes) \in Nat
  <2>1. accepted \in 0..Len(SduSizes)
    BY DEF RlcAmTypeOK
  <2>2. Len(SduSizes) \in Nat
    BY RlcAmAssumption
  <2> QED
    BY <2>1, <2>2
<1>27. received' \in Seq(0..Len(SduSizes))
  <2>0. received' \in Seq(Nat)
    BY <1>24
  <2>1. PICK m \in Nat : m = Len(received')
    BY <2>0
  <2>2. start[lower][1] = m + 1
    BY <1>24, <2>1 DEF Kept
  <2>3. m <= Len(SduSizes)
    BY <1>25, <1>26, <2>1, <2>2
  <2>4. received' = [n \in 1..m |-> n]
    BY <1>24, <2>1
  <2>5. \A n \in 1..m : n \in 0..Len(SduSizes)
    BY <1>26, <2>1, <2>3
  <2> QED
    BY <2>4, <2>5
(* The invariant.                                                          *)
<1> USE <1>16 DEF txVars, configuration
<1>28. RlcAmTypeOK'
  <2>1. {vtA, vtS, pollSn, lower, vrX', ms, highest} \subseteq Sn
    BY <1>9, <1>10 DEF Pointers
  <2> HIDE <1>16
  <2>2. {vtA, vtS, pollSn, vrR, vrX, vrMs, vrH}' \subseteq Sn
    BY <1>6, <2>1
  <2>3. rxonBuffer' \in [Sn -> [data : Seq(Piece), got : Nat, complete : BOOLEAN]]
    BY <1>16, <1>17
  <2>4. {pollTimer, pollExpired, rbsTimer, reported, reorderingTimer, statusRequested,
         prohibitTimer, statusReported}' \subseteq BOOLEAN
    BY <1>10 DEF RlcAmTypeOK
  <2>5. /\ retxAlwaysFits' \in BOOLEAN /\ statusInOrder' \in BOOLEAN
        /\ accepted' \in 0..Len(SduSizes) /\ txonBuffer' \in Seq(Piece)
        /\ buffer' \in [Sn -> {"none", "txed", "retx"}]
        /\ pdu' \in [Sn -> [data : Seq(Piece), sent : Nat]]
        /\ statusAir' \in Seq(StatusPdu) /\ losses' \in 0..MaxLosses
    BY DEF RlcAmTypeOK
  <2> QED
    BY <1>20, <1>24, <1>27, <2>2, <2>3, <2>4, <2>5 DEF RlcAmTypeOK, Failures
<1>29. WindowsInv'
  <2>1. From(vtA, lower) <= From(vtA, vtS)
    BY <1>7, <1>11, <1>12, <1>13
  <2>2. From(lower, ms) = From(vrR, ms) - d /\ From(lower, highest) = From(vrR, highest) - d
        /\ From(lower, vtS) = From(vrR, vtS) - d
    BY <1>7, <1>9, <1>11, <1>12, <1>14 DEF Pointers
  <2>3. From(lower, ms) <= From(lower, highest) /\ From(lower, highest) <= From(lower, vtS)
    BY <1>7, <1>12, <2>2
  <2> QED
    BY <1>6, <1>10, <2>1, <2>3 DEF WindowsInv
<1>30. EntriesInv'
  <2>1. ASSUME NEW sn \in Sn, after[sn] # NoEntry PROVE sn \in Between(lower, highest)
    <3>1. sn \notin Between(vrR, lower) /\ entries[sn] # NoEntry
      BY <1>17, <2>1
    <3>2. ~(From(vrR, sn) < From(vrR, lower)) /\ From(vrR, sn) < From(vrR, highest) /\ From(vrR, sn) \in Nat
      BY <1>8, <1>9, <3>1, BetweenIs DEF Pointers
    <3>3. From(lower, sn) = From(vrR, sn) - d /\ From(lower, highest) = From(vrR, highest) - d
      BY <1>7, <1>11, <1>12, <1>14, <3>2
    <3> QED
      BY <1>12, <3>2, <3>3, BetweenIs
  <2>2. ~after[lower].complete /\ ~after[ms].complete
    BY <1>7, <1>17, <1>18
  <2> QED
    BY <1>6, <2>1, <2>2 DEF EntriesInv
<1>31. BuffersInv'
  <2>1. ASSUME NEW sn \in Between(lower, vtS), buffer[sn] = "none" PROVE after[sn].complete
    <3>1. sn \in Sn /\ sn \in Between(vrR, vtS) /\ sn \notin Between(vrR, lower)
      BY <1>15, BetweenIs
    <3>2. entries[sn].complete
      BY <1>8, <2>1, <3>1 DEF BuffersInv
    <3> QED
      BY <1>17, <3>1, <3>2
  <2> QED
    BY <1>6, <2>1 DEF BuffersInv
<1>32. \A sn \in Sn : Received(sn) => Received(sn)'
  BY <1>6, <1>19 DEF Received
<1>33. StatusInv'
  <2>1. ASSUME NEW s \in StatusPdu, GoodStatus(s) PROVE GoodStatus(s)'
    <3>1. \E n \in Missed(s) : From(vtA, n) <= From(vtA, lower)
      <4>1. PICK n \in Missed(s) : From(vtA, n) <= From(vtA, vrR)
        BY <2>1 DEF GoodStatus
      <4>2. n \in Sn
        BY DEF Missed, StatusPdu
      <4>3. From(vtA, n) \in Nat
        BY <1>9, <4>2 DEF Pointers
      <4>4. From(vtA, n) <= From(vtA, lower)
        BY <1>11, <1>12, <1>13, <4>1, <4>3
      <4> QED
        BY <4>4
    <3>2. \A sn \in Between(vtA, s.ackSn) \ s.nacks : Received(sn)'
      BY <1>32, <2>1, BetweenIs DEF GoodStatus
    <3> QED
      BY <1>6, <2>1, <3>1, <3>2 DEF GoodStatus
  <2>2. \A s, t : Later(s, t) => Later(s, t)'
    BY DEF Later
  <2>3. \A j \in DOMAIN statusAir : statusAir[j] \in StatusPdu
    BY Airs
  <2> QED
    BY <2>1, <2>2, <2>3 DEF StatusInv
<1>34. TimersInv'
  BY Stand
<1>35. PursuitInv'
  <2>1. \A b : LastMissing(b) => LastMissing(b)'
    BY <1>32, BetweenIs DEF LastMissing
  <2> QED
    BY <2>1 DEF PursuitInv, retxBuffer, InBuffer, vtMs
<1>36. StreamInv'
  <2>1. ASSUME NEW sn \in Between(lower, vtS) PROVE StartsAt(start, sn)'
    <3>1. sn \in Sn /\ sn \in Between(vrR, vtS) /\ sn \notin Between(vrR, lower)
      BY <1>15, BetweenIs
    <3>2. StartsAt(start, sn)
      BY <1>21, <3>1 DEF Stream
    <3>3. after[sn] # NoEntry => Spans(after[sn].data, start[sn], start[Plus(sn, 1)])
      BY <1>17, <1>22, <3>1
    <3>4. \A j \in DOMAIN dataAir' :
            dataAir'[j].sn = sn => Spans(dataAir'[j].data, start[sn], start[Plus(sn, 1)])
      BY <1>20, <3>2 DEF StartsAt
    <3> QED
      BY <3>2, <3>3, <3>4 DEF StartsAt
  <2>2. Stream(start)'
    BY <1>6, <1>21, <1>24, <2>1 DEF Stream
  <2> QED
    BY <1>24, <2>2 DEF StreamInv
<1> QED
  BY <1>24, <1>28, <1>29, <1>30, <1>31, <1>33, <1>34, <1>35, <1>36

(* A PDU arrives: it is discarded or accepted.                             *)
LEMMA ReceiveDataStep ==
  ASSUME RlcAmInv, NoStaleCopies, NEW i \in DOMAIN dataAir, ReceiveData(i), UNCHANGED configuration
  PROVE  RlcAmInv'
<1> DEFINE p == dataAir[i]
<1>1. /\ dataAir' = RemoveAt(dataAir, i)
      /\ statusRequested' = (statusRequested \/ p.poll)
      /\ statusReported' = (statusReported \/ (p.poll /\ ~prohibitTimer))
      /\ IF IsInsideReceivingWindow(p.sn)
           THEN Accept(p)
           ELSE UNCHANGED <<vrR, vrX, vrMs, vrH, rxonBuffer, reorderingTimer, keepS0,
                            received, failure>>
      /\ UNCHANGED <<prohibitTimer, txVars, statusAir, losses>>
  BY DEF ReceiveData
<1>2. statusRequested' \in BOOLEAN /\ statusReported' \in BOOLEAN
  BY <1>1
<1>3. CASE IsInsideReceivingWindow(p.sn)
  <2>1. p.sn \in Between(vrR, vtS) /\ From(vrR, p.sn) < WindowSize
    BY <1>3 DEF NoStaleCopies, IsInsideReceivingWindow
  <2> QED
    BY <1>1, <1>2, <1>3, <2>1, AcceptStep
<1>4. CASE ~IsInsideReceivingWindow(p.sn)
  BY <1>1, <1>2, <1>4, PassStep
<1> QED
  BY <1>3, <1>4

--------------------------------------------------------------------------------
(* The theorems.                                                           *)

(* Every step keeps the invariant.                                         *)
LEMMA NextInv == RlcAmInv /\ NoStaleCopies /\ [Next]_vars => RlcAmInv'
<1> SUFFICES ASSUME RlcAmInv, NoStaleCopies, [Next]_vars PROVE RlcAmInv'
  OBVIOUS
<1>1. CASE Next
  <2>1. UNCHANGED configuration
    BY <1>1 DEF Next
  <2>2. CASE TransmitPdcpPdu
    BY <2>1, <2>2, TransmitPdcpPduStep
  <2>3. ASSUME NEW grant \in Grants, NotifyTxOpportunity(grant) PROVE RlcAmInv'
    BY <2>1, <2>3, NotifyTxOpportunityStep
  <2>4. CASE WasteTxOpportunity
    BY <2>1, <2>4, WasteStep
  <2>5. CASE ExpirePollRetransmitTimer
    BY <2>1, <2>5, ExpirePollRetransmitTimerStep
  <2>6. CASE ExpireRbsTimer
    BY <2>1, <2>6, ExpireRbsTimerStep
  <2>7. ASSUME NEW i \in DOMAIN statusAir, ReceiveStatus(i) PROVE RlcAmInv'
    BY <2>1, <2>7, ReceiveStatusStep
  <2>8. ASSUME NEW i \in DOMAIN dataAir, ReceiveData(i) PROVE RlcAmInv'
    BY <2>1, <2>8, ReceiveDataStep
  <2>9. CASE ExpireReorderingTimer
    BY <2>1, <2>9, ExpireReorderingTimerStep
  <2>10. ASSUME NEW room \in 1..WindowSize, SendStatus(room) PROVE RlcAmInv'
    BY <2>1, <2>10, SendStatusStep
  <2>11. CASE ExpireStatusProhibitTimer
    BY <2>1, <2>11, ExpireStatusProhibitTimerStep
  <2>12. CASE Lose
    BY <2>1, <2>12, LoseStep
  <2> QED
    BY <1>1, <2>2, <2>3, <2>4, <2>5, <2>6, <2>7, <2>8, <2>9, <2>10, <2>11, <2>12 DEF Next
<1>2. CASE UNCHANGED vars
  <2>1. RlcAmTypeOK'
    BY <1>2 DEF RlcAmInv, RlcAmTypeOK, vars, configuration, txVars, rxVars, macVars
  <2>2. statusInOrder' /\ failure' = "none"
    BY <1>2 DEF RlcAmInv, vars, configuration
  <2> QED
    BY <1>2, <2>1, <2>2, Stand DEF RlcAmInv, vars, configuration, txVars, rxVars, macVars
<1> QED
  BY <1>1, <1>2

(* The windows, the buffers, the STATUS PDUs, the timers and the stream of *)
(* SDUs of a bearer agree in every reachable state (RlcAmInv), through     *)
(* losses, reordering of data PDUs and retransmissions in segments.        *)
THEOREM RlcAmInvariant == SafeSpec /\ statusInOrder /\ []NoStaleCopies => []RlcAmInv
BY InitInv, NextInv, PTL DEF SafeSpec

(* Every variable has its type, whatever the sizes of the window and of    *)
(* the SDUs.                                                               *)
THEOREM RlcAmTypes == SafeSpec /\ statusInOrder /\ []NoStaleCopies => []RlcAmTypeOK
<1>1. RlcAmInv => RlcAmTypeOK
  BY DEF RlcAmInv
<1> QED
  BY <1>1, RlcAmInvariant, PTL

(* No assertion of LteRlcAm fails and no invalid reassembly state is       *)
(* reached, neither in the code that sends nor in the code that receives.  *)
THEOREM NothingFails == SafeSpec /\ statusInOrder /\ []NoStaleCopies => []NoFailure
<1>1. RlcAmInv => NoFailure
  BY DEF RlcAmInv, NoFailure
<1> QED
  BY <1>1, RlcAmInvariant, PTL

(* What ReceiveStatusPdu lets go of (DoReceivePdu with a control PDU) was  *)
(* received by the peer: the sender never forgets a PDU the receiver still *)
(* misses.                                                                 *)
THEOREM AcknowledgedThenReceived ==
  SafeSpec /\ statusInOrder /\ []NoStaleCopies => []AcknowledgedWasReceived
<1>1. RlcAmInv => AcknowledgedWasReceived
  BY DEF RlcAmInv, AcknowledgedWasReceived, WindowsInv, BuffersInv
<1> QED
  BY <1>1, RlcAmInvariant, PTL

(* The receiver's state variables keep their order, VR(R) <= VR(MS) <=     *)
(* VR(H) <= VR(MR), through every move that DoReceivePdu and               *)
(* ExpireReorderingTimer make.                                             *)
THEOREM ReceiverWindowOrder ==
  SafeSpec /\ statusInOrder /\ []NoStaleCopies => []ReceiverWindowIsOrdered
<1>1. RlcAmInv => ReceiverWindowIsOrdered
  <2> SUFFICES ASSUME RlcAmInv PROVE ReceiverWindowIsOrdered
    OBVIOUS
  <2>1. Pointers /\ WindowsInv
    BY PointersIs DEF RlcAmInv
  <2>2. \A a, b \in Sn : From(a, b) \in Nat
    BY FromIs, SnIs
  <2>3. From(vrR, vtS) = From(vtA, vtS) - From(vtA, vrR)
    BY <2>1, FromMoves DEF WindowsInv, Pointers
  <2>4. /\ From(vtA, vtS) \in Nat /\ From(vtA, vrR) \in Nat /\ From(vrR, vrH) \in Nat
        /\ From(vrR, vtS) \in Nat /\ WindowSize \in Nat
    BY <2>1, <2>2, Sizes DEF Pointers
  <2>5. From(vrR, vrH) <= WindowSize
    BY <2>1, <2>3, <2>4 DEF WindowsInv
  <2> QED
    BY <2>1, <2>5 DEF ReceiverWindowIsOrdered, WindowsInv
<1> QED
  BY <1>1, RlcAmInvariant, PTL

(* While a PDU is not acknowledged the buffer report timer runs, and the   *)
(* sender has something to send or waits for the poll timer, unless that   *)
(* timer expired when only a PDU that waited to be sent again could poll   *)
(* (ExpirePollRetransmitTimer) and an older copy of it was acknowledged;   *)
(* then at least two places in the window are free.                        *)
THEOREM UnacknowledgedPursued ==
  SafeSpec /\ statusInOrder /\ []NoStaleCopies => []UnacknowledgedIsPursued
<1>1. RlcAmInv => UnacknowledgedIsPursued
  BY DEF RlcAmInv, UnacknowledgedIsPursued, Stalled, PollFindsNothing, TimersInv, PursuitInv
<1> QED
  BY <1>1, RlcAmInvariant, PTL

--------------------------------------------------------------------------------
(* The bearer as a channel.                                                *)

(* SDUs are delivered in order, once each, and not before they are         *)
(* accepted.                                                               *)
DeliveredInOrder ==
  /\ accepted \in Nat /\ Len(received) \in Nat /\ Len(received) <= accepted
  /\ received = [i \in 1..Len(received) |-> i]

(* The invariant says so.                                                  *)
LEMMA DeliveredIs == RlcAmInv => DeliveredInOrder
<1> SUFFICES ASSUME RlcAmInv PROVE DeliveredInOrder
  OBVIOUS
<1> USE DEF RlcAmInv
<1>1. accepted \in Nat /\ received \in Seq(0..Len(SduSizes)) /\ Pointers
  <2>1. accepted \in 0..Len(SduSizes) /\ received \in Seq(0..Len(SduSizes))
    BY DEF RlcAmTypeOK
  <2> QED
    BY <2>1, PointersIs
<1>2. PICK start : Stream(start)
  BY DEF StreamInv
<1>3. start[vrR][1] <= accepted + 1
  <2>1. CASE vrR = vtS
    BY <1>2, <2>1 DEF Stream
  <2>2. CASE vrR # vtS
    <3>1. From(vrR, vrR) = 0 /\ From(vrR, vtS) \in Nat /\ From(vrR, vtS) # 0
      BY <1>1, <2>2, FromSelf, FromZero, FromIs, SnIs DEF Pointers
    <3>2. vrR \in Between(vrR, vtS)
      BY <1>1, <3>1, BetweenIs DEF Pointers
    <3> QED
      BY <1>2, <3>2 DEF Stream, StartsAt
  <2> QED
    BY <2>1, <2>2
<1>4. PICK m \in Nat : m = Len(received)
  BY <1>1
<1>5. start[vrR][1] = m + 1
  BY <1>2, <1>4 DEF Stream, Kept
<1> QED
  BY <1>1, <1>3, <1>4, <1>5 DEF StreamInv, DeliveredInOrder

(* What a step does to the channel.                                        *)
LEMMA NextDelivers ==
  ASSUME RlcAmInv, NoStaleCopies, [Next]_vars
  PROVE  \/ UNCHANGED <<accepted, received>>
         \/ accepted < Len(SduSizes) /\ accepted' = accepted + 1 /\ UNCHANGED received
         \/ accepted' = accepted /\ Len(received) <= Len(received')
<1> USE DEF RlcAmInv, vars, txVars, rxVars, macVars, configuration
<1>1. CASE UNCHANGED vars
  BY <1>1
<1>2. CASE TransmitPdcpPdu
  BY <1>2 DEF TransmitPdcpPdu
<1>3. ASSUME NEW grant \in Grants, NotifyTxOpportunity(grant) PROVE UNCHANGED <<accepted, received>>
  BY <1>3 DEF NotifyTxOpportunity
<1>4. CASE WasteTxOpportunity
  BY <1>4 DEF WasteTxOpportunity
<1>5. CASE ExpirePollRetransmitTimer
  BY <1>5 DEF ExpirePollRetransmitTimer
<1>6. CASE ExpireRbsTimer
  BY <1>6 DEF ExpireRbsTimer
<1>7. ASSUME NEW i \in DOMAIN statusAir, ReceiveStatus(i) PROVE UNCHANGED <<accepted, received>>
  BY <1>7 DEF ReceiveStatus
<1>8. ASSUME NEW i \in DOMAIN dataAir, ReceiveData(i)
      PROVE  accepted' = accepted /\ Len(received) <= Len(received')
  <2>1. accepted' = accepted /\ Len(received) \in Nat
    BY <1>8, DeliveredIs DEF ReceiveData, DeliveredInOrder
  <2>2. CASE IsInsideReceivingWindow(dataAir[i].sn)
    <3>1. PICK p \in AmdPdu : p = dataAir[i]
      BY Airs
    <3>2. Accept(p) /\ p.sn \in Between(vrR, vtS) /\ From(vrR, p.sn) < WindowSize
      BY <1>8, <2>2, <3>1 DEF ReceiveData, NoStaleCopies, IsInsideReceivingWindow
    <3> QED
      <4>1. PICK start : Stream(start)
        BY DEF StreamInv
      <4> QED
        BY <2>1, <3>1, <3>2, <4>1, AcceptDelivers
  <2>3. CASE ~IsInsideReceivingWindow(dataAir[i].sn)
    BY <1>8, <2>1, <2>3 DEF ReceiveData
  <2> QED
    BY <2>1, <2>2, <2>3
<1>9. CASE ExpireReorderingTimer
  BY <1>9 DEF ExpireReorderingTimer
<1>10. ASSUME NEW room \in 1..WindowSize, SendStatus(room) PROVE UNCHANGED <<accepted, received>>
  BY <1>10 DEF SendStatus
<1>11. CASE ExpireStatusProhibitTimer
  BY <1>11 DEF ExpireStatusProhibitTimer
<1>12. CASE Lose
  BY <1>12 DEF Lose
<1> HIDE DEF RlcAmInv, vars, txVars, rxVars, macVars, configuration
<1> QED
  BY <1>1, <1>2, <1>3, <1>4, <1>5, <1>6, <1>7, <1>8, <1>9, <1>10, <1>11, <1>12 DEF Next

(* The SDUs between two numbers.                                           *)
Numbers(first, last) == [i \in 1..(last - first) |-> first + i]

(* A stretch of numbers has two parts.                                     *)
LEMMA NumbersAre ==
  ASSUME NEW first \in Nat, NEW last \in Nat, first <= last
  PROVE  /\ Numbers(first, last) \in Seq(Nat) /\ Len(Numbers(first, last)) = last - first
         /\ \A i \in 1..(last - first) : Numbers(first, last)[i] = first + i
         /\ Append(Numbers(first, last), last + 1) = Numbers(first, last + 1)
         /\ \A n \in 0..(last - first) :
              /\ SubSeq(Numbers(first, last), 1, n) = Numbers(first, first + n)
              /\ SubSeq(Numbers(first, last), n + 1, last - first) = Numbers(first + n, last)
<1> DEFINE s == Numbers(first, last)
<1>1. s \in Seq(Nat) /\ Len(s) = last - first /\ \A i \in 1..(last - first) : s[i] = first + i
  BY DEF Numbers
<1> HIDE DEF s
<1>2. Append(s, last + 1) = Numbers(first, last + 1)
  <2>1. Append(s, last + 1) = [i \in 1..(Len(s) + 1) |-> IF i = Len(s) + 1 THEN last + 1 ELSE s[i]]
    BY <1>1
  <2>2. Len(s) + 1 = (last + 1) - first
    BY <1>1
  <2>3. \A i \in 1..((last + 1) - first) : (IF i = Len(s) + 1 THEN last + 1 ELSE s[i]) = first + i
    BY <1>1
  <2> QED
    BY <2>1, <2>2, <2>3 DEF Numbers
<1>3. ASSUME NEW n \in 0..(last - first)
      PROVE  /\ SubSeq(s, 1, n) = Numbers(first, first + n)
             /\ SubSeq(s, n + 1, last - first) = Numbers(first + n, last)
  <2>1. SubSeq(s, 1, n) = [i \in 1..n |-> s[i]] /\ (first + n) - first = n
    BY <1>1
  <2>2. \A i \in 1..n : s[i] = first + i
    BY <1>1
  <2>3. SubSeq(s, 1, n) = Numbers(first, first + n)
    BY <2>1, <2>2 DEF Numbers
  <2>4. SubSeq(s, n + 1, last - first) = [i \in 1..(last - (first + n)) |-> s[n + i]]
    BY <1>1
  <2>5. \A i \in 1..(last - (first + n)) : s[n + i] = (first + n) + i
    BY <1>1
  <2>6. SubSeq(s, n + 1, last - first) = Numbers(first + n, last)
    BY <2>4, <2>5 DEF Numbers
  <2> QED
    BY <2>3, <2>6
<1> QED
  BY <1>1, <1>2, <1>3 DEF s

(* What was delivered and the numbers that follow it.                      *)
LEMMA NumbersJoin ==
  ASSUME NEW middle \in Nat, NEW last \in Nat, middle <= last
  PROVE  [i \in 1..middle |-> i] \o Numbers(middle, last) = [i \in 1..last |-> i]
<1>1. [i \in 1..middle |-> i] \in Seq(Nat) /\ Len([i \in 1..middle |-> i]) = middle
  OBVIOUS
<1>2. PICK a \in Seq(Nat) : a = [i \in 1..middle |-> i]
  BY <1>1
<1>3. Len(a) = middle /\ \A i \in 1..middle : a[i] = i
  BY <1>1, <1>2
<1>4. PICK b \in Seq(Nat) : b = Numbers(middle, last) /\ Len(b) = last - middle
                            /\ \A i \in 1..(last - middle) : b[i] = middle + i
  BY NumbersAre
<1>5. a \o b \in Seq(Nat) /\ Len(a \o b) = Len(a) + Len(b)
      /\ \A i \in 1..(Len(a) + Len(b)) : (a \o b)[i] = IF i <= Len(a) THEN a[i] ELSE b[i - Len(a)]
  OBVIOUS
<1>6. PICK s \in Seq(Nat) : s = a \o b
  BY <1>5
<1>7. Len(s) = last /\ \A i \in 1..last : s[i] = i
  <2>1. Len(a) + Len(b) = last
    BY <1>3, <1>4
  <2>2. ASSUME NEW i \in 1..last PROVE s[i] = i
    <3>1. CASE i <= middle
      BY <1>3, <1>5, <1>6, <2>1, <3>1
    <3>2. CASE ~(i <= middle)
      <4>1. i - middle \in 1..(last - middle) /\ middle + (i - middle) = i
        BY <3>2
      <4> QED
        BY <1>3, <1>4, <1>5, <1>6, <2>1, <3>2, <4>1
    <3> QED
      BY <3>1, <3>2
  <2> QED
    BY <1>5, <1>6, <2>1, <2>2
<1>8. s = [i \in 1..last |-> i]
  BY <1>7
<1> QED
  BY <1>2, <1>4, <1>6, <1>8

(* Every step accepts one SDU, delivers some of those in the channel, or   *)
(* does neither.                                                           *)
LEMMA ChannelStep ==
  RlcAmInv /\ NoStaleCopies /\ DeliveredInOrder' /\ [Next]_vars => [Channel!Next]_Channel!channelVars
<1> SUFFICES ASSUME RlcAmInv, NoStaleCopies, DeliveredInOrder', [Next]_vars
             PROVE  [Channel!Next]_Channel!channelVars
  OBVIOUS
<1>1. PICK a \in Nat : a = accepted
  BY DeliveredIs DEF DeliveredInOrder
<1>2. PICK m \in Nat : m = Len(received) /\ m <= a /\ received = [i \in 1..m |-> i]
  BY <1>1, DeliveredIs DEF DeliveredInOrder
<1>3. PICK b \in Nat : b = accepted'
  BY DEF DeliveredInOrder
<1>4. PICK k \in Nat : k = Len(received') /\ k <= b /\ received' = [i \in 1..k |-> i]
  BY <1>3 DEF DeliveredInOrder
<1> DEFINE air == [i \in 1..(accepted - Len(received)) |-> Len(received) + i]
<1>5. air = Numbers(m, a) /\ air' = Numbers(k, b)
  BY <1>1, <1>2, <1>3, <1>4 DEF Numbers
<1> HIDE DEF air
<1>6. CASE UNCHANGED <<accepted, received>>
  <2>1. air' = air
    BY <1>6 DEF air
  <2> QED
    BY <1>6, <2>1 DEF Channel!channelVars, air
<1>7. CASE accepted < Len(SduSizes) /\ accepted' = accepted + 1 /\ UNCHANGED received
  <2>1. k = m /\ b = a + 1
    BY <1>1, <1>2, <1>3, <1>4, <1>7
  <2>2. air' = Append(air, accepted + 1)
    BY <1>1, <1>2, <1>5, <2>1, NumbersAre
  <2>3. Channel!Accept
    BY <1>7, <2>2 DEF Channel!Accept, air
  <2> QED
    BY <2>3 DEF Channel!Next
<1>8. CASE accepted' = accepted /\ Len(received) <= Len(received')
  <2>1. b = a /\ m <= k
    BY <1>1, <1>2, <1>3, <1>4, <1>8
  <2>2. CASE m = k
    <3>1. air' = air /\ received' = received
      BY <1>2, <1>4, <1>5, <2>1, <2>2
    <3> QED
      BY <1>8, <3>1 DEF Channel!channelVars, air
  <2>3. CASE m # k
    <3>1. PICK n \in Nat : n = k - m /\ 1 <= n /\ n <= a - m
      BY <1>4, <2>1, <2>3
    <3>2. Len(air) = a - m /\ n \in 1..Len(air) /\ n \in 0..(a - m) /\ m + n = k
      <4>1. Len(Numbers(m, a)) = a - m
        BY <1>2, NumbersAre
      <4> QED
        BY <1>5, <3>1, <4>1
    <3>3. /\ SubSeq(air, 1, n) = Numbers(m, k)
          /\ SubSeq(air, n + 1, Len(air)) = Numbers(k, a)
      <4>1. \A x \in 0..(a - m) :
              /\ SubSeq(Numbers(m, a), 1, x) = Numbers(m, m + x)
              /\ SubSeq(Numbers(m, a), x + 1, a - m) = Numbers(m + x, a)
        BY <1>2, NumbersAre
      <4> QED
        BY <1>5, <3>2, <4>1
    <3>4. air' = SubSeq(air, n + 1, Len(air))
      BY <1>5, <2>1, <3>3
    <3>5. received' = received \o SubSeq(air, 1, n)
      BY ONLY <1>2, <1>4, <2>1, <3>3, NumbersJoin
    <3>6. Channel!Deliver
      BY <1>8, <3>2, <3>4, <3>5 DEF Channel!Deliver, air
    <3> QED
      BY <3>6 DEF Channel!Next
  <2> QED
    BY <2>2, <2>3
<1> QED
  BY <1>6, <1>7, <1>8, NextDelivers

(* The bearer is an ordered channel that loses nothing it accepted.        *)
THEOREM BearerIsOrderedChannel ==
  SafeSpec /\ statusInOrder /\ []NoStaleCopies => IsOrderedChannel
<1>1. Init => Channel!Init
  <2> SUFFICES ASSUME Init PROVE Channel!Init
    OBVIOUS
  <2>1. accepted = 0 /\ received = <<>> /\ Len(received) = 0
    BY DEF Init
  <2>2. [i \in 1..(accepted - Len(received)) |-> Len(received) + i] = <<>>
    BY <2>1
  <2> QED
    BY <2>1, <2>2 DEF Channel!Init
<1>2. RlcAmInv => DeliveredInOrder
  BY DeliveredIs
<1> QED
  BY <1>1, <1>2, ChannelStep, RlcAmInvariant, PTL DEF SafeSpec, IsOrderedChannel, Channel!Spec
================================================================================
