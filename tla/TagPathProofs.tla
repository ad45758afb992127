--------------------------- MODULE TagPathProofs ---------------------------
(***************************************************************************)
(* The codec reads what it builds, and the parse of a connection is that   *)
(* of a single pass, for every stream, every checksum and all sizes under  *)
(* which a piece always fits the buffer.  The inductive invariant adds to  *)
(* SinglePass that what a receiver keeps between two pieces is incomplete, *)
(* so that it is shorter than a packet can be and the cut is never made.   *)
(*                                                                         *)
(* On top of it, the fate of an EPC: every EPC of every frame is seen,     *)
(* none that was seen is forgotten, and the bot is given it at most once   *)
(* for each reading.                                                       *)
(***************************************************************************)
EXTENDS TagPath, SequenceTheorems, FunctionTheorems, FiniteSetTheorems, TLAPS

-----------------------------------------------------------------------------
(* Sequences.                                                              *)

\* A suffix of s, from the byte after offset i on.
LEMMA SuffixProperties ==
  ASSUME NEW S, NEW s \in Seq(S), NEW i \in 0..Len(s)
  PROVE  /\ SubSeq(s, i + 1, Len(s)) \in Seq(S)
         /\ Len(SubSeq(s, i + 1, Len(s))) = Len(s) - i
         /\ \A k \in 1..(Len(s) - i) : SubSeq(s, i + 1, Len(s))[k] = s[i + k]
  <1>1. Len(s) \in Nat /\ \A k \in (i + 1)..Len(s) : s[k] \in S
    BY LenProperties, ElementOfSeq
  <1>2. /\ SubSeq(s, i + 1, Len(s)) \in Seq(S)
        /\ Len(SubSeq(s, i + 1, Len(s))) = IF i + 1 <= Len(s) THEN Len(s) - (i + 1) + 1 ELSE 0
        /\ \A k \in 1..(Len(s) - (i + 1) + 1) : SubSeq(s, i + 1, Len(s))[k] = s[(i + 1) + k - 1]
    BY <1>1, SubSeqProperties
  <1> QED
    BY <1>1, <1>2

\* A prefix of s of n elements.
LEMMA PrefixProperties ==
  ASSUME NEW S, NEW s \in Seq(S), NEW n \in 0..Len(s)
  PROVE  /\ SubSeq(s, 1, n) \in Seq(S)
         /\ Len(SubSeq(s, 1, n)) = n
         /\ \A k \in 1..n : SubSeq(s, 1, n)[k] = s[k]
  <1>1. Len(s) \in Nat /\ \A k \in 1..n : s[k] \in S
    BY LenProperties, ElementOfSeq
  <1>2. /\ SubSeq(s, 1, n) \in Seq(S)
        /\ Len(SubSeq(s, 1, n)) = IF 1 <= n THEN n - 1 + 1 ELSE 0
        /\ \A k \in 1..(n - 1 + 1) : SubSeq(s, 1, n)[k] = s[1 + k - 1]
    BY <1>1, SubSeqProperties
  <1> QED
    BY <1>1, <1>2

\* What is appended to a sequence is appended to its suffixes.
LEMMA SuffixOfConcat ==
  ASSUME NEW S, NEW s \in Seq(S), NEW c \in Seq(S), NEW i \in 0..Len(s)
  PROVE  SubSeq(s \o c, i + 1, Len(s \o c)) = SubSeq(s, i + 1, Len(s)) \o c
  <1> DEFINE b == SubSeq(s, i + 1, Len(s))
             l == SubSeq(s \o c, i + 1, Len(s \o c))
  <1>1. /\ Len(s) \in Nat /\ Len(c) \in Nat /\ s \o c \in Seq(S) /\ Len(s \o c) = Len(s) + Len(c)
        /\ \A k \in 1..(Len(s) + Len(c)) : (s \o c)[k] = IF k <= Len(s) THEN s[k] ELSE c[k - Len(s)]
    BY LenProperties, ConcatProperties
  <1>2. /\ b \in Seq(S) /\ Len(b) = Len(s) - i
        /\ \A k \in 1..(Len(s) - i) : b[k] = s[i + k]
    BY SuffixProperties
  <1>3. i \in 0..Len(s \o c)
    BY <1>1
  <1>4. /\ l \in Seq(S) /\ Len(l) = Len(s) + Len(c) - i
        /\ \A k \in 1..(Len(s) + Len(c) - i) : l[k] = (s \o c)[i + k]
    <2> HIDE DEF l
    <2>1. /\ l \in Seq(S) /\ Len(l) = Len(s \o c) - i
          /\ \A k \in 1..(Len(s \o c) - i) : l[k] = (s \o c)[i + k]
      BY <1>1, <1>3, SuffixProperties DEF l
    <2> QED
      BY <1>1, <2>1
  <1> HIDE DEF b, l
  <1>5. /\ b \o c \in Seq(S) /\ Len(b \o c) = Len(b) + Len(c)
        /\ \A k \in 1..(Len(b) + Len(c)) : (b \o c)[k] = IF k <= Len(b) THEN b[k] ELSE c[k - Len(b)]
    BY <1>2, ConcatProperties
  <1>6. Len(l) = Len(b \o c)
    BY <1>1, <1>2, <1>4, <1>5
  <1>7. ASSUME NEW k \in 1..Len(l) PROVE l[k] = (b \o c)[k]
    <2>1. /\ k \in Int /\ k >= 1 /\ k <= Len(s) + Len(c) - i
          /\ i + k \in 1..(Len(s) + Len(c)) /\ k \in 1..(Len(b) + Len(c))
      BY <1>1, <1>2, <1>4
    <2>2. l[k] = IF i + k <= Len(s) THEN s[i + k] ELSE c[(i + k) - Len(s)]
      BY <1>1, <1>4, <2>1
    <2>3. (b \o c)[k] = IF k <= Len(b) THEN b[k] ELSE c[k - Len(b)]
      BY <1>5, <2>1
    <2>4. (i + k <= Len(s) <=> k <= Len(b)) /\ (i + k) - Len(s) = k - Len(b)
      BY <1>1, <1>2, <2>1
    <2>5. k <= Len(b) => b[k] = s[i + k]
      BY <1>1, <1>2, <2>1
    <2> QED
      BY <2>2, <2>3, <2>4, <2>5
  <1>8. l = b \o c
    BY <1>4, <1>5, <1>6, <1>7, SeqEqual
  <1> QED
    BY <1>8 DEF b, l

\* A suffix of a suffix is a suffix.
LEMMA SuffixOfSuffix ==
  ASSUME NEW S, NEW s \in Seq(S), NEW i \in 0..Len(s), NEW k \in 0..(Len(s) - i),
         NEW b, b = SubSeq(s, i + 1, Len(s))
  PROVE  SubSeq(b, k + 1, Len(b)) = SubSeq(s, (i + k) + 1, Len(s))
  <1>1. /\ Len(s) \in Nat /\ b \in Seq(S) /\ Len(b) = Len(s) - i
        /\ \A j \in 1..(Len(s) - i) : b[j] = s[i + j]
    BY LenProperties, SuffixProperties
  <1>2. k \in 0..Len(b) /\ i + k \in 0..Len(s)
    BY <1>1
  <1> DEFINE l == SubSeq(b, k + 1, Len(b))
             r == SubSeq(s, (i + k) + 1, Len(s))
  <1>3. /\ l \in Seq(S) /\ Len(l) = Len(b) - k
        /\ \A j \in 1..(Len(b) - k) : l[j] = b[k + j]
    BY <1>1, <1>2, SuffixProperties
  <1>4. /\ r \in Seq(S) /\ Len(r) = Len(s) - (i + k)
        /\ \A j \in 1..(Len(s) - (i + k)) : r[j] = s[(i + k) + j]
    BY <1>2, SuffixProperties
  <1> HIDE DEF l, r
  <1>5. Len(l) = Len(r)
    BY <1>1, <1>2, <1>3, <1>4
  <1>6. ASSUME NEW j \in 1..Len(l) PROVE l[j] = r[j]
    <2>1. k + j \in 1..(Len(s) - i) /\ i + (k + j) = (i + k) + j
      BY <1>1, <1>3
    <2>2. l[j] = b[k + j] /\ b[k + j] = s[i + (k + j)]
      BY <1>1, <1>3, <2>1
    <2> QED
      BY <1>1, <1>3, <1>4, <1>5, <2>1, <2>2
  <1>7. l = r
    BY <1>3, <1>4, <1>5, <1>6, SeqEqual
  <1> QED
    BY <1>7 DEF l, r
-----------------------------------------------------------------------------
(* The elements of a sequence, how often one occurs, and bags.              *)

\* A sequence of whatever its elements are: the type of the queues on the path, whose
\* EPCs come out of frames nobody has checked.
IsSeq(s) == s \in Seq(Elems(s))

\* A function on 1..n is a sequence.
LEMMA SeqOfFunction ==
  ASSUME NEW n \in Nat, NEW f, f = [i \in 1..n |-> f[i]]
  PROVE  IsSeq(f) /\ Len(f) = n
  <1>1. f \in [1..n -> {f[i] : i \in 1..n}]
    OBVIOUS
  <1>2. f \in Seq({f[i] : i \in 1..n}) /\ Len(f) = n
    BY <1>1
  <1> QED
    BY <1>2 DEF IsSeq, Elems

\* The empty sequence.
LEMMA EmptyElems == IsSeq(<<>>) /\ Elems(<<>>) = {} /\ \A e : Count(e, <<>>) = 0
  <1>1. <<>> \in Seq(Elems(<<>>)) /\ 1..Len(<<>>) = {}
    BY EmptySeq
  <1>2. Elems(<<>>) = {}
    BY <1>1 DEF Elems
  <1>3. ASSUME NEW e PROVE {i \in 1..Len(<<>>) : <<>>[i] = e} = {}
    BY <1>1
  <1> QED
    BY <1>1, <1>2, <1>3, FS_EmptySet DEF IsSeq, Count

\* The places at which e occurs are finitely many.
LEMMA CountType ==
  ASSUME NEW s, IsSeq(s), NEW e
  PROVE  IsFiniteSet({i \in 1..Len(s) : s[i] = e}) /\ Count(e, s) \in Nat
  <1>1. Len(s) \in Nat
    BY LenProperties DEF IsSeq
  <1>2. IsFiniteSet(1..Len(s))
    BY <1>1, FS_Interval
  <1>3. {i \in 1..Len(s) : s[i] = e} \in SUBSET (1..Len(s))
    OBVIOUS
  <1>4. IsFiniteSet({i \in 1..Len(s) : s[i] = e})
    BY <1>2, <1>3, FS_Subset
  <1> QED
    BY <1>4, FS_CardinalityType DEF Count

\* Putting x at the end of a queue.
LEMMA AppendElems ==
  ASSUME NEW s, IsSeq(s), NEW x
  PROVE  /\ IsSeq(Append(s, x))
         /\ Elems(Append(s, x)) = Elems(s) \cup {x}
         /\ \A e : Count(e, Append(s, x)) = Count(e, s) + (IF e = x THEN 1 ELSE 0)
  <1> DEFINE S == Elems(s) \cup {x}
             a == Append(s, x)
             n == Len(s)
  <1>1. s \in Seq(S) /\ x \in S
    BY SeqMonotonic DEF IsSeq
  <1>2. /\ a \in Seq(S) /\ n \in Nat /\ Len(a) = n + 1
        /\ \A i \in 1..n : a[i] = s[i]
        /\ a[n + 1] = x
    BY <1>1, LenProperties, AppendProperties
  <1> HIDE DEF a
  <1>3. 1..Len(a) = (1..n) \cup {n + 1} /\ n + 1 \notin 1..n
    BY <1>2
  <1>4. Elems(a) = Elems(s) \cup {x}
    BY <1>2, <1>3 DEF Elems
  <1>5. IsSeq(a)
    BY <1>2, <1>4 DEF IsSeq
  <1>6. ASSUME NEW e PROVE Count(e, a) = Count(e, s) + (IF e = x THEN 1 ELSE 0)
    <2> DEFINE P == {i \in 1..n : s[i] = e}
    <2>1. IsFiniteSet(P) /\ Cardinality(P) = Count(e, s) /\ Count(e, s) \in Nat /\ n + 1 \notin P
      BY <1>3, CountType DEF Count
    <2>2. CASE e = x
      <3>1. {i \in 1..Len(a) : a[i] = e} = P \cup {n + 1}
        BY <1>2, <1>3, <2>2
      <3> HIDE DEF P
      <3> QED
        BY <2>1, <2>2, <3>1, FS_AddElement DEF Count
    <2>3. CASE e # x
      <3>1. {i \in 1..Len(a) : a[i] = e} = P
        BY <1>2, <1>3, <2>3
      <3>2. Count(e, a) = Cardinality(P)
        BY <3>1, Zenon DEF Count
      <3> HIDE DEF P
      <3> QED
        BY <2>1, <2>3, <3>2
    <2> QED
      BY <2>2, <2>3
  <1> QED
    BY <1>4, <1>5, <1>6 DEF a

\* Taking the head of a queue.
LEMMA TailElems ==
  ASSUME NEW s, IsSeq(s), s # <<>>
  PROVE  /\ IsSeq(Tail(s))
         /\ Elems(s) = {Head(s)} \cup Elems(Tail(s))
         /\ \A e : Count(e, Tail(s)) = Count(e, s) - (IF e = Head(s) THEN 1 ELSE 0)
  <1> DEFINE t == Tail(s)
             n == Len(s)
             h == Head(s)
  <1>1. /\ t \in Seq(Elems(s)) /\ n \in Nat \ {0} /\ Len(t) = n - 1 /\ h = s[1]
        /\ \A i \in 1..(n - 1) : t[i] = s[i + 1]
    BY LenProperties, HeadTailProperties, EmptySeq DEF IsSeq
  <1> HIDE DEF t, h
  <1>2. ASSUME NEW i \in 1..n, i # 1 PROVE i - 1 \in 1..Len(t) /\ s[i] = t[i - 1]
    BY <1>1, <1>2
  <1>3. Elems(s) = {h} \cup Elems(t)
    <2>1. ASSUME NEW i \in 1..n PROVE s[i] \in {h} \cup Elems(t)
      <3>1. CASE i = 1
        BY <1>1, <3>1
      <3>2. CASE i # 1
        BY <1>2, <3>2 DEF Elems
      <3> QED
        BY <3>1, <3>2
    <2>2. ASSUME NEW i \in 1..Len(t) PROVE t[i] \in Elems(s)
      BY <1>1, ElementOfSeq
    <2>3. h \in Elems(s)
      BY <1>1 DEF Elems
    <2> QED
      BY <2>1, <2>2, <2>3 DEF Elems
  <1>4. IsSeq(t)
    <2>1. \A i \in 1..Len(t) : t[i] \in Elems(t)
      BY DEF Elems
    <2>2. t \in [1..Len(t) -> Elems(t)] /\ Len(t) \in Nat
      BY <1>1, <2>1, LenProperties
    <2> QED
      BY <2>2 DEF IsSeq
  <1>5. ASSUME NEW e PROVE Count(e, t) = Count(e, s) - (IF e = h THEN 1 ELSE 0)
    <2> DEFINE P == {i \in 1..n : s[i] = e}
               Q == {i \in 1..Len(t) : t[i] = e}
               R == P \ {1}
               f == [i \in Q |-> i + 1]
    <2>1. IsFiniteSet(P) /\ Cardinality(P) = Count(e, s) /\ Count(e, s) \in Nat
      BY CountType DEF Count
    <2>2. IsFiniteSet(Q) /\ Cardinality(Q) = Count(e, t)
      BY <1>4, CountType DEF Count
    <2>3. f \in Bijection(Q, R)
      <3>1. f \in [Q -> R]
        BY <1>1
      <3>2. \A i, j \in Q : f[i] = f[j] => i = j
        BY <1>1
      <3>3. ASSUME NEW j \in R PROVE \E i \in Q : f[i] = j
        <4>1. j - 1 \in 1..(n - 1) /\ (j - 1) + 1 = j
          BY <1>1
        <4>2. j - 1 \in Q
          BY <1>1, <4>1
        <4> QED
          BY <4>1, <4>2
      <3> HIDE DEF f, Q, R
      <3> QED
        BY <3>1, <3>2, <3>3, Fun_IsBij
    <2>4. Cardinality(R) = Cardinality(Q)
      <3> HIDE DEF f, Q, R
      <3> QED
        BY <2>2, <2>3, FS_Bijection DEF ExistsBijection
    <2>5. 1 \in P <=> e = h
      BY <1>1
    <2>6. Cardinality(R) = IF 1 \in P THEN Cardinality(P) - 1 ELSE Cardinality(P)
      <3> HIDE DEF P
      <3> QED
        BY <2>1, FS_RemoveElement
    <2> HIDE DEF P, Q, R
    <2> QED
      BY <2>1, <2>2, <2>4, <2>5, <2>6
  <1> QED
    BY <1>3, <1>4, <1>5 DEF t, h

\* How many copies of x a bag holds.
LEMMA CopiesOf ==
  ASSUME NEW b, IsABag(b), NEW x
  PROVE  Copies(x, b) \in Nat /\ (BagIn(x, b) <=> Copies(x, b) > 0)
  BY DEF IsABag, BagIn, BagToSet, Copies

\* Putting two bags together.
LEMMA BagSum ==
  ASSUME NEW a, IsABag(a), NEW b, IsABag(b)
  PROVE  /\ IsABag(a (+) b)
         /\ \A x : Copies(x, a (+) b) = Copies(x, a) + Copies(x, b)
  <1> DEFINE c == [e \in (DOMAIN a) \cup (DOMAIN b) |->
                     (IF e \in DOMAIN a THEN a[e] ELSE 0) + (IF e \in DOMAIN b THEN b[e] ELSE 0)]
  <1>1. a (+) b = c
    BY DEF (+)
  <1>2. IsABag(c)
    BY DEF IsABag
  <1>3. \A x : Copies(x, c) = Copies(x, a) + Copies(x, b)
    BY DEF IsABag, Copies, BagIn, BagToSet
  <1> HIDE DEF c
  <1> QED
    BY <1>1, <1>2, <1>3

\* A bag with a single element, and one with none.
LEMMA SmallBags ==
  /\ \A e : IsABag(One(e)) /\ \A x : Copies(x, One(e)) = IF x = e THEN 1 ELSE 0
  /\ IsABag(EmptyBag) /\ \A x : Copies(x, EmptyBag) = 0
  BY DEF IsABag, One, EmptyBag, SetToBag, Copies, BagIn, BagToSet

\* Taking one copy of e out of a bag.
LEMMA BagLess ==
  ASSUME NEW b, IsABag(b), NEW e, BagIn(e, b)
  PROVE  /\ IsABag(b (-) One(e))
         /\ \A x : Copies(x, b (-) One(e)) = Copies(x, b) - (IF x = e THEN 1 ELSE 0)
  <1> DEFINE c == [d \in {x \in DOMAIN b : (IF x \in {e} THEN b[x] - 1 ELSE b[x]) > 0} |->
                    IF d \in {e} THEN b[d] - 1 ELSE b[d]]
  <1>1. b (-) One(e) = c
    BY DEF (-), One, SetToBag
  <1>2. IsABag(c)
    BY DEF IsABag
  <1>3. \A x : Copies(x, c) = Copies(x, b) - (IF x = e THEN 1 ELSE 0)
    BY DEF IsABag, Copies, BagIn, BagToSet
  <1> HIDE DEF c
  <1> QED
    BY <1>1, <1>2, <1>3

-----------------------------------------------------------------------------
(* Packets.                                                                *)

\* A complete packet stays what it is when more bytes follow.
LEMMA AppendKeepsPacket ==
  ASSUME NEW b \in Seq(Byte), NEW c \in Seq(Byte), ~Incomplete(b)
  PROVE  ~Incomplete(b \o c) /\ (Good(b \o c) <=> Good(b))
  <1>1. /\ Len(b) \in Nat /\ Len(c) \in Nat /\ b \o c \in Seq(Byte) /\ Len(b \o c) = Len(b) + Len(c)
        /\ \A k \in 1..(Len(b) + Len(c)) : (b \o c)[k] = IF k <= Len(b) THEN b[k] ELSE c[k - Len(b)]
    BY LenProperties, ConcatProperties
  <1>2. Len(b) >= 6 /\ b[1] + 1 <= Len(b) /\ b[1] \in Nat
    <2>1. Len(b) >= 6 /\ ~(b[1] + 1 > Len(b))
      BY DEF Incomplete, Total, MinPacket
    <2>2. b[1] \in Byte
      BY <1>1, <2>1, ElementOfSeq
    <2> QED
      BY <1>1, <2>1, <2>2, MaxByteAssumption DEF Byte
  <1>3. (b \o c)[1] = b[1]
    BY <1>1, <1>2
  <1>4. ~Incomplete(b \o c)
    BY <1>1, <1>2, <1>3 DEF Incomplete, Total, MinPacket
  <1> DEFINE n == b[1] + 1
             l == SubSeq(b \o c, 1, n)
             r == SubSeq(b, 1, n)
  <1>5. n \in 0..Len(b) /\ n \in 0..Len(b \o c)
    BY <1>1, <1>2
  <1> HIDE DEF n
  <1>6. l \in Seq(Byte) /\ Len(l) = n /\ \A k \in 1..n : l[k] = (b \o c)[k]
    BY <1>1, <1>5, PrefixProperties
  <1>7. r \in Seq(Byte) /\ Len(r) = n /\ \A k \in 1..n : r[k] = b[k]
    BY <1>5, PrefixProperties
  <1> HIDE DEF l, r
  <1>8. \A k \in 1..Len(l) : l[k] = r[k]
    BY <1>1, <1>5, <1>6, <1>7
  <1>9. l = r
    BY <1>6, <1>7, <1>8, SeqEqual
  <1> QED
    BY <1>3, <1>4, <1>9 DEF Good, Total, n, l, r

\* What is left when there is no complete packet is shorter than the longest packet.
LEMMA IncompleteIsShort ==
  ASSUME NEW b \in Seq(Byte), Incomplete(b)
  PROVE  Len(b) <= MaxByte
  <1>1. Len(b) \in Nat
    BY LenProperties
  <1>2. CASE Len(b) < 6
    BY <1>1, <1>2, MaxByteAssumption
  <1>3. CASE Len(b) >= 6
    <2>1. b[1] \in Byte
      BY <1>1, <1>3, ElementOfSeq
    <2> QED
      BY <1>1, <1>3, <2>1, MaxByteAssumption DEF Incomplete, Total, MinPacket, Byte
  <1> QED
    BY <1>1, <1>2, <1>3

\* The packet that BuildCommand makes of a payload that fits the length byte is verified,
\* for every checksum.  A longer payload would wrap the length byte.
THEOREM BuiltPacketsVerify ==
  ASSUME NEW address \in Byte, NEW command \in Byte, NEW payload \in Seq(Byte),
         Len(payload) \in 1..(MaxByte - 4)
  PROVE  VerifyPacket(BuildCommand(address, command, payload))
  <1> DEFINE len == (Len(payload) + 4) % (MaxByte + 1)
             head == <<len, address, command>>
             body == head \o payload
             packet == body \o <<CrcLow(body), CrcHigh(body)>>
  <1>1. len = Len(payload) + 4 /\ len \in Byte /\ Len(payload) \in Nat
    BY MaxByteAssumption, LenProperties DEF Byte
  <1> HIDE DEF len
  <1> DEFINE Symbols == Byte \cup {CrcLow(body), CrcHigh(body)}
  <1>2. head \in Seq(Symbols) /\ Len(head) = 3 /\ head[1] = len /\ payload \in Seq(Symbols)
    <2>1. Byte \subseteq Symbols
      OBVIOUS
    <2>2. head \in Seq(Byte) /\ Len(head) = 3 /\ head[1] = len
      BY <1>1
    <2> QED
      BY <2>1, <2>2, SeqMonotonic
  <1> DEFINE tail == <<CrcLow(body), CrcHigh(body)>>
  <1>3. /\ tail \in Seq(Symbols) /\ Len(tail) = 2
        /\ tail[1] = CrcLow(body) /\ tail[2] = CrcHigh(body)
    OBVIOUS
  <1> HIDE DEF head, Symbols
  <1>4. /\ body \in Seq(Symbols) /\ Len(body) = 3 + Len(payload)
        /\ \A k \in 1..(3 + Len(payload)) : body[k] = IF k <= 3 THEN head[k] ELSE payload[k - 3]
    <2>1. /\ head \o payload \in Seq(Symbols) /\ Len(head \o payload) = Len(head) + Len(payload)
          /\ \A k \in 1..(Len(head) + Len(payload)) :
               (head \o payload)[k] = IF k <= Len(head) THEN head[k] ELSE payload[k - Len(head)]
      BY <1>2, ConcatProperties
    <2> QED
      BY <1>2, <2>1
  <1> HIDE DEF body, tail
  <1>5. /\ packet \in Seq(Symbols) /\ Len(packet) = Len(body) + 2
        /\ \A k \in 1..(Len(body) + 2) : packet[k] = IF k <= Len(body) THEN body[k] ELSE tail[k - Len(body)]
    <2>1. packet = body \o tail
      BY DEF tail
    <2> QED
      BY <1>3, <1>4, <2>1, ConcatProperties
  <1> HIDE DEF packet
  <1>6. Len(packet) = Len(payload) + 5 /\ packet[1] + 1 = Len(packet) /\ Len(packet) >= 6
    BY <1>1, <1>2, <1>4, <1>5
  <1>7. packet[Len(packet) - 1] = CrcLow(body) /\ packet[Len(packet)] = CrcHigh(body)
    <2>1. /\ Len(packet) - 1 = Len(body) + 1 /\ Len(packet) = Len(body) + 2
          /\ Len(body) + 1 \in 1..(Len(body) + 2) /\ Len(body) + 2 \in 1..(Len(body) + 2)
          /\ ~(Len(body) + 1 <= Len(body)) /\ ~(Len(body) + 2 <= Len(body))
          /\ (Len(body) + 1) - Len(body) = 1 /\ (Len(body) + 2) - Len(body) = 2
      BY <1>1, <1>4, <1>5
    <2>2. packet[Len(body) + 1] = tail[1] /\ packet[Len(body) + 2] = tail[2]
      BY <1>5, <2>1
    <2> QED
      BY <1>3, <2>1, <2>2
  <1>8. SubSeq(packet, 1, Len(packet) - 2) = body
    <2>1. Len(packet) - 2 = Len(body) /\ Len(body) \in 0..Len(packet)
      BY <1>1, <1>4, <1>5
    <2> DEFINE p == SubSeq(packet, 1, Len(body))
    <2>2. p \in Seq(Symbols) /\ Len(p) = Len(body) /\ \A k \in 1..Len(body) : p[k] = packet[k]
      BY <1>5, <2>1, PrefixProperties
    <2> HIDE DEF p
    <2>3. \A k \in 1..Len(p) : p[k] = body[k]
      BY <1>1, <1>4, <1>5, <2>2
    <2>4. p = body
      BY <1>4, <2>2, <2>3, SeqEqual
    <2> QED
      BY <2>1, <2>4 DEF p
  <1>9. BuildCommand(address, command, payload) = packet
    BY DEF BuildCommand, LengthByte, Crc, packet, body, head, len
  <1> QED
    BY <1>6, <1>7, <1>8, <1>9 DEF VerifyPacket, MinPacket, Crc

-----------------------------------------------------------------------------
(* The parse.                                                              *)

\* Outside ParseFrames the buffer holds no complete packet.
KeepsIncomplete == phase # "parse" => Incomplete(buffer)

StreamInv == StreamTypeOK /\ SinglePass /\ KeepsIncomplete

\* The initial states satisfy the inductive invariant.
LEMMA StreamInvInit == StreamInit => StreamInv
  <1> SUFFICES ASSUME StreamInit PROVE StreamInv
    OBVIOUS
  <1>1. <<>> \in Seq(Byte) /\ Len(<<>>) = 0
    BY EmptySeq
  <1>2. StreamTypeOK
    BY <1>1, StreamsAssumption, SizesAssumption DEF StreamInit, StreamTypeOK
  <1>3. SubSeq(<<>>, 0 + 1, Len(<<>>)) = <<>>
    BY <1>1, SubSeqEmpty
  <1>4. SinglePass
    BY <1>3 DEF StreamInit, SinglePass, From
  <1>5. KeepsIncomplete
    BY <1>1 DEF StreamInit, KeepsIncomplete, Incomplete, MinPacket
  <1> QED
    BY <1>2, <1>4, <1>5 DEF StreamInv

\* What the buffer is: the suffix of got that starts at pos.
LEMMA BufferLength ==
  ASSUME StreamTypeOK, buffer = From(pos)
  PROVE  /\ Len(got) \in Nat /\ pos \in Nat /\ Len(buffer) = Len(got) - pos
         /\ \A k \in 1..Len(buffer) : buffer[k] = got[pos + k]
  <1>1. got \in Seq(Byte) /\ pos \in 0..Len(got) /\ Len(got) \in Nat
    BY LenProperties DEF StreamTypeOK
  <1>2. /\ Len(SubSeq(got, pos + 1, Len(got))) = Len(got) - pos
        /\ \A k \in 1..(Len(got) - pos) : SubSeq(got, pos + 1, Len(got))[k] = got[pos + k]
    BY <1>1, SuffixProperties
  <1> QED
    BY <1>1, <1>2 DEF From

\* SinglePass depends on got, pos, taken and buffer only.
LEMMA SinglePassFrame ==
  ASSUME SinglePass, UNCHANGED <<buffer, got, pos, taken>>
  PROVE  SinglePass'
  BY DEF SinglePass, From, EndOf, Hopeless, Good, Incomplete, Total

\* What TakeFrame takes: as many bytes as the first one says, from pos on.
LEMMA TakenPacket ==
  ASSUME StreamInv, Good(buffer)
  PROVE  /\ SubSeq(buffer, 1, Total(buffer)) \in Seq(Byte)
         /\ Len(SubSeq(buffer, 1, Total(buffer))) >= 6
         /\ SubSeq(buffer, 1, Total(buffer)) = SubSeq(got, pos + 1, EndOf(pos))
  <1>1. /\ buffer \in Seq(Byte) /\ got \in Seq(Byte) /\ Len(buffer) \in Nat
        /\ Len(got) \in Nat /\ pos \in Nat /\ Len(buffer) = Len(got) - pos
        /\ \A k \in 1..Len(buffer) : buffer[k] = got[pos + k]
    BY BufferLength, LenProperties DEF StreamInv, StreamTypeOK, SinglePass
  <1> DEFINE n == Total(buffer)
             raw == SubSeq(buffer, 1, n)
             r == SubSeq(got, pos + 1, pos + n)
  <1>2. n \in 0..Len(buffer) /\ n \in Nat /\ EndOf(pos) = pos + n
    <2>1. Len(buffer) >= 6 /\ ~(n > Len(buffer)) /\ n = buffer[1] + 1
      BY DEF Good, Incomplete, MinPacket, Total
    <2>2. buffer[1] \in Byte /\ buffer[1] = got[pos + 1]
      BY <1>1, <2>1, ElementOfSeq
    <2>3. buffer[1] \in Nat
      BY <2>2, MaxByteAssumption DEF Byte
    <2>4. EndOf(pos) = pos + (buffer[1] + 1)
      BY <1>1, <2>2, <2>3 DEF EndOf
    <2> HIDE DEF n
    <2> QED
      BY <1>1, <2>1, <2>3, <2>4
  <1>3. Len(raw) >= 6
    BY DEF Good, VerifyPacket, MinPacket
  <1> HIDE DEF n
  <1>4. raw \in Seq(Byte) /\ Len(raw) = n /\ \A k \in 1..n : raw[k] = buffer[k]
    BY <1>1, <1>2, PrefixProperties
  <1>5. /\ r \in Seq(Byte) /\ Len(r) = n
        /\ \A k \in 1..n : r[k] = got[pos + k]
    <2>1. /\ pos + 1 \in Int /\ pos + n \in Int
          /\ \A k \in (pos + 1)..(pos + n) : got[k] \in Byte
      <3>1. \A k \in (pos + 1)..(pos + n) : k \in 1..Len(got)
        BY <1>1, <1>2
      <3> QED
        BY <1>1, <1>2, <3>1, ElementOfSeq
    <2>2. /\ r \in Seq(Byte)
          /\ Len(r) = IF pos + 1 <= pos + n THEN (pos + n) - (pos + 1) + 1 ELSE 0
          /\ \A k \in 1..((pos + n) - (pos + 1) + 1) : r[k] = got[(pos + 1) + k - 1]
      BY <2>1, SubSeqProperties
    <2> HIDE DEF r
    <2> QED
      BY <1>1, <1>2, <2>2
  <1> HIDE DEF raw, r
  <1>6. raw = r
    BY <1>1, <1>2, <1>4, <1>5, SeqEqual
  <1> QED
    BY <1>2, <1>3, <1>4, <1>6 DEF n, raw, r

\* A piece that arrives: the buffer is not cut, no packet that was decided changes.
LEMMA ReceiveInv ==
  ASSUME StreamInv, NEW n \in 1..ReadSize, Receive(n)
  PROVE  StreamInv'
  <1>1. /\ wire \in Seq(Byte) /\ buffer \in Seq(Byte) /\ got \in Seq(Byte)
        /\ buffer = From(pos) /\ Incomplete(buffer)
        /\ n \in 0..Len(wire) /\ Len(wire) \in Nat
    BY LenProperties, SizesAssumption
    DEF StreamInv, StreamTypeOK, SinglePass, KeepsIncomplete, Receive
  <1> DEFINE c == SubSeq(wire, 1, n)
             w == SubSeq(wire, n + 1, Len(wire))
  <1>2. c \in Seq(Byte) /\ Len(c) = n /\ w \in Seq(Byte)
    BY <1>1, PrefixProperties, SuffixProperties
  <1>3. wire' = w /\ got' = got \o c /\ buffer' = Cut(buffer \o c) /\ phase' = "parse"
        /\ UNCHANGED <<lost, frames, taken>> /\ pos' = Len(got') - Len(buffer')
    BY DEF Receive, Piece, Rest
  <1> HIDE DEF c, w
  <1>4. /\ Len(got) \in Nat /\ pos \in Nat /\ Len(buffer) = Len(got) - pos
        /\ \A k \in 1..Len(buffer) : buffer[k] = got[pos + k]
    BY <1>1, BufferLength DEF StreamInv
  <1>5. /\ buffer \o c \in Seq(Byte) /\ Len(buffer \o c) = Len(buffer) + n
        /\ got \o c \in Seq(Byte) /\ Len(got \o c) = Len(got) + n
        /\ \A k \in 1..(Len(got) + n) : (got \o c)[k] = IF k <= Len(got) THEN got[k] ELSE c[k - Len(got)]
    BY <1>1, <1>2, ConcatProperties
  <1>6. Len(buffer) <= MaxByte /\ Len(buffer) \in Nat
    BY <1>1, IncompleteIsShort, LenProperties
  <1>7. buffer' = buffer \o c
    <2>1. ~(Len(buffer \o c) > BufferLimit)
      BY <1>5, <1>6, SizesAssumption, MaxByteAssumption
    <2> QED
      BY <1>3, <2>1 DEF Cut
  <1>8. pos' = pos
    <2>1. Len(got') = Len(got) + n /\ Len(buffer') = Len(buffer) + n
      BY <1>3, <1>5, <1>7
    <2>2. pos' = (Len(got) + n) - (Len(buffer) + n)
      BY <1>3, <2>1
    <2>3. Len(got) \in Nat /\ Len(buffer) \in Nat /\ n \in Nat /\ pos \in Nat
          /\ Len(buffer) = Len(got) - pos
      BY <1>1, <1>4, <1>6
    <2> QED
      BY <2>2, <2>3
  <1>9. StreamTypeOK'
    <2>1. pos' \in 0..Len(got')
      BY <1>3, <1>4, <1>5, <1>6, <1>8
    <2> QED
      BY <1>2, <1>3, <1>5, <1>7, <2>1 DEF StreamInv, StreamTypeOK
  <1>10. ASSUME NEW i \in 0..Len(got) PROVE From(i)' = From(i) \o c /\ From(i) \in Seq(Byte)
    BY <1>1, <1>2, <1>3, SuffixOfConcat, SuffixProperties DEF From
  <1>11. ASSUME NEW i \in 0..Len(got), ~Incomplete(From(i))
         PROVE  ~Incomplete(From(i))' /\ (Good(From(i))' <=> Good(From(i)))
    <2>1. /\ ~Incomplete(From(i) \o c) /\ (Good(From(i) \o c) <=> Good(From(i)))
      BY <1>2, <1>10, <1>11, AppendKeepsPacket
    <2>2. (Incomplete(From(i))' <=> Incomplete(From(i) \o c)) /\ (Good(From(i))' <=> Good(From(i) \o c))
      BY <1>10 DEF Incomplete, Good, Total
    <2> QED
      BY <2>1, <2>2
  <1>12. ASSUME NEW i \in 0..(Len(got) - 1) PROVE EndOf(i)' = EndOf(i)
    <2>1. i + 1 \in 1..(Len(got) + n) /\ i + 1 <= Len(got)
      BY <1>4
    <2>2. got'[i + 1] = got[i + 1]
      BY <1>3, <1>5, <2>1
    <2> QED
      BY <2>2 DEF EndOf
  <1>13. pos \in 0..Len(got)
    BY DEF StreamInv, StreamTypeOK
  <1>14. SinglePass'
    <2>1. buffer' = From(pos)'
      <3>1. From(pos)' = From(pos) \o c
        BY <1>3, <1>8, <1>10, <1>13, SuffixOfConcat, <1>1, <1>2 DEF From
      <3> QED
        BY <1>1, <1>7, <3>1
    <2>2. ASSUME NEW t \in taken
          PROVE  t < pos /\ Good(From(t))' /\ EndOf(t)' <= pos /\ EndOf(t)' = EndOf(t)
      <3>1. t \in Nat /\ t < pos /\ Good(From(t)) /\ EndOf(t) <= pos
        BY <2>2 DEF StreamInv, StreamTypeOK, SinglePass
      <3>2. t \in 0..Len(got) /\ t \in 0..(Len(got) - 1)
        BY <1>4, <1>13, <3>1
      <3>3. ~Incomplete(From(t))
        BY <3>1 DEF Good
      <3> QED
        BY <1>11, <1>12, <3>1, <3>2, <3>3
    <2>3. \A t \in taken' : t < pos' /\ Good(From(t))' /\ EndOf(t)' <= pos'
      BY <1>3, <1>8, <2>2
    <2>4. \A t, u \in taken' : t < u => EndOf(t)' <= u
      BY <1>3, <2>2 DEF StreamInv, SinglePass
    <2>5. ASSUME NEW i \in 0..(pos - 1)
          PROVE  Hopeless(i)' \/ \E t \in taken' : t <= i /\ i < EndOf(t)'
      <3>1. i \in 0..Len(got)
        BY <1>4, <1>13
      <3>2. CASE Hopeless(i)
        BY <1>11, <3>1, <3>2 DEF Hopeless
      <3>3. CASE \E t \in taken : t <= i /\ i < EndOf(t)
        BY <1>3, <2>2, <3>3
      <3> QED
        BY <3>2, <3>3 DEF StreamInv, SinglePass
    <2> QED
      BY <1>8, <2>1, <2>3, <2>4, <2>5 DEF SinglePass
  <1>15. KeepsIncomplete'
    BY <1>3 DEF KeepsIncomplete
  <1> QED
    BY <1>9, <1>14, <1>15 DEF StreamInv

\* A byte at which no packet begins leaves the buffer.
LEMMA SkipByteInv ==
  ASSUME StreamInv, SkipByte
  PROVE  StreamInv'
  <1>1. /\ buffer \in Seq(Byte) /\ got \in Seq(Byte) /\ buffer = From(pos)
        /\ ~Incomplete(buffer) /\ ~Good(buffer) /\ phase = "parse"
        /\ buffer' = Tail(buffer) /\ pos' = pos + 1
        /\ UNCHANGED <<wire, lost, frames, phase, got, taken>>
    BY DEF StreamInv, StreamTypeOK, SinglePass, SkipByte
  <1>2. /\ Len(got) \in Nat /\ pos \in Nat /\ Len(buffer) = Len(got) - pos /\ pos \in 0..Len(got)
    BY <1>1, BufferLength DEF StreamInv, StreamTypeOK
  <1>3. Len(buffer) >= 6
    BY <1>1 DEF Incomplete, MinPacket
  <1>4. buffer # <<>> /\ pos + 1 \in 0..Len(got) /\ 1 \in 0..(Len(got) - pos)
    BY <1>2, <1>3, EmptySeq
  <1>5. buffer' \in Seq(Byte) /\ buffer' = SubSeq(buffer, 1 + 1, Len(buffer))
    <2>1. Tail(buffer) \in Seq(Byte) /\ Tail(buffer) = SubSeq(buffer, 2, Len(buffer))
      BY <1>1, <1>4, HeadTailProperties, TailIsSubSeq
    <2> QED
      BY <1>1, <2>1
  <1>6. SubSeq(buffer, 1 + 1, Len(buffer)) = From(pos + 1)
    BY <1>1, <1>2, <1>4, SuffixOfSuffix DEF From
  <1>7. StreamTypeOK'
    BY <1>1, <1>4, <1>5 DEF StreamInv, StreamTypeOK
  <1>8. Hopeless(pos)
    BY <1>1 DEF Hopeless
  <1>9. \A i : From(i)' = From(i) /\ EndOf(i)' = EndOf(i) /\ (Hopeless(i)' <=> Hopeless(i)) /\ (Good(From(i))' <=> Good(From(i)))
    BY <1>1 DEF From, EndOf, Hopeless, Good, Incomplete, Total
  <1>10. SinglePass'
    <2>1. buffer' = From(pos)'
      BY <1>1, <1>5, <1>6 DEF From
    <2>2. \A t \in taken' : t < pos' /\ Good(From(t))' /\ EndOf(t)' <= pos'
      <3> TAKE t \in taken'
      <3>1. t \in Nat /\ t < pos /\ Good(From(t)) /\ EndOf(t) <= pos
        BY <1>1 DEF StreamInv, StreamTypeOK, SinglePass
      <3>2. got[t + 1] \in Int
        <4>1. t + 1 \in 1..Len(got)
          BY <1>2, <3>1
        <4> QED
          BY <1>1, <4>1, ElementOfSeq, MaxByteAssumption DEF Byte
      <3>3. EndOf(t) \in Int
        BY <3>1, <3>2 DEF EndOf
      <3> QED
        BY <1>1, <1>2, <1>9, <3>1, <3>3
    <2>3. \A t, u \in taken' : t < u => EndOf(t)' <= u
      BY <1>1, <1>9 DEF StreamInv, SinglePass
    <2>4. ASSUME NEW i \in 0..(pos' - 1)
          PROVE  Hopeless(i)' \/ \E t \in taken' : t <= i /\ i < EndOf(t)'
      <3>1. CASE i = pos
        BY <1>8, <1>9, <3>1
      <3>2. CASE i # pos
        <4>1. i \in 0..(pos - 1)
          BY <1>1, <1>2, <3>2
        <4>2. Hopeless(i) \/ \E t \in taken : t <= i /\ i < EndOf(t)
          BY <4>1 DEF StreamInv, SinglePass
        <4> QED
          BY <1>1, <1>9, <4>2
      <3> QED
        BY <3>1, <3>2
    <2> QED
      BY <2>1, <2>2, <2>3, <2>4 DEF SinglePass
  <1>11. KeepsIncomplete'
    BY <1>1 DEF KeepsIncomplete
  <1> QED
    BY <1>7, <1>10, <1>11 DEF StreamInv

\* A frame is taken: it starts at the end of all frames before it.
LEMMA TakeFrameInv ==
  ASSUME StreamInv, TakeFrame
  PROVE  StreamInv'
  <1>1. /\ buffer \in Seq(Byte) /\ got \in Seq(Byte) /\ buffer = From(pos)
        /\ Good(buffer) /\ ~Incomplete(buffer) /\ phase = "parse"
        /\ buffer' = SubSeq(buffer, Total(buffer) + 1, Len(buffer)) /\ pos' = pos + Total(buffer)
        /\ taken' = taken \cup {pos}
        /\ UNCHANGED <<wire, lost, phase, got>>
    BY DEF StreamInv, StreamTypeOK, SinglePass, TakeFrame, Good
  <1>2. /\ Len(got) \in Nat /\ pos \in Nat /\ Len(buffer) = Len(got) - pos /\ pos \in 0..Len(got)
        /\ \A k \in 1..Len(buffer) : buffer[k] = got[pos + k]
    BY <1>1, BufferLength DEF StreamInv, StreamTypeOK
  <1>3. Len(buffer) >= 6 /\ Total(buffer) <= Len(buffer) /\ Total(buffer) \in Nat \ {0}
    <2>1. Len(buffer) >= 6 /\ ~(Total(buffer) > Len(buffer))
      BY <1>1 DEF Incomplete, MinPacket
    <2>2. buffer[1] \in Byte
      BY <1>1, <1>2, <2>1, ElementOfSeq
    <2> QED
      BY <1>2, <2>1, <2>2, MaxByteAssumption DEF Total, Byte
  <1>4. EndOf(pos) = pos + Total(buffer)
    <2>1. buffer[1] = got[pos + 1]
      BY <1>2, <1>3
    <2>2. buffer[1] \in Byte
      BY <1>1, <1>2, <1>3, ElementOfSeq
    <2> QED
      BY <1>2, <2>1, <2>2, MaxByteAssumption DEF EndOf, Total, Byte
  <1> DEFINE k == Total(buffer)
  <1>5. k \in 0..Len(buffer) /\ k \in 0..(Len(got) - pos) /\ pos + k \in 0..Len(got)
    BY <1>2, <1>3
  <1> HIDE DEF k
  <1>6. buffer' \in Seq(Byte)
    BY <1>1, <1>5, SuffixProperties DEF k
  <1>7. SubSeq(buffer, k + 1, Len(buffer)) = From(pos + k)
    BY <1>1, <1>2, <1>5, SuffixOfSuffix DEF From
  <1>8. StreamTypeOK'
    BY <1>1, <1>2, <1>5, <1>6 DEF StreamInv, StreamTypeOK, k
  <1>9. \A i : From(i)' = From(i) /\ EndOf(i)' = EndOf(i) /\ (Hopeless(i)' <=> Hopeless(i)) /\ (Good(From(i))' <=> Good(From(i)))
    BY <1>1 DEF From, EndOf, Hopeless, Good, Incomplete, Total
  <1>10. ASSUME NEW t \in taken
         PROVE  t \in Nat /\ t < pos /\ Good(From(t)) /\ EndOf(t) <= pos /\ EndOf(t) \in Int
    <2>1. t \in Nat /\ t < pos /\ Good(From(t)) /\ EndOf(t) <= pos
      BY DEF StreamInv, StreamTypeOK, SinglePass
    <2>2. t + 1 \in 1..Len(got)
      BY <1>2, <2>1
    <2>3. got[t + 1] \in Int
      BY <1>1, <2>2, ElementOfSeq, MaxByteAssumption DEF Byte
    <2> QED
      BY <2>1, <2>3 DEF EndOf
  <1>11. SinglePass'
    <2>1. buffer' = From(pos)'
      BY <1>1, <1>7 DEF From, k
    <2>2. \A t \in taken' : t < pos' /\ Good(From(t))' /\ EndOf(t)' <= pos'
      <3>1. pos < pos' /\ Good(From(pos)) /\ EndOf(pos) <= pos'
        BY <1>1, <1>2, <1>3, <1>4
      <3>2. ASSUME NEW t \in taken PROVE t < pos' /\ Good(From(t)) /\ EndOf(t) <= pos'
        <4>1. t \in Nat /\ t < pos /\ Good(From(t)) /\ EndOf(t) <= pos /\ EndOf(t) \in Int
          BY <1>10
        <4>2. pos' \in Nat /\ pos \in Nat /\ pos < pos'
          BY <1>1, <1>2, <1>3
        <4> QED
          BY <4>1, <4>2
      <3> QED
        BY <1>1, <1>9, <3>1, <3>2
    <2>3. \A t, u \in taken' : t < u => EndOf(t)' <= u
      <3>1. \A t, u \in taken : t < u => EndOf(t) <= u
        BY DEF StreamInv, SinglePass
      <3>2. \A t \in taken : EndOf(t) <= pos /\ ~(pos < t)
        BY <1>2, <1>10
      <3>3. ~(pos < pos)
        BY <1>2
      <3> QED
        BY <1>1, <1>9, <3>1, <3>2, <3>3
    <2>4. ASSUME NEW i \in 0..(pos' - 1)
          PROVE  Hopeless(i)' \/ \E t \in taken' : t <= i /\ i < EndOf(t)'
      <3>1. CASE pos <= i
        <4>1. i < EndOf(pos)
          BY <1>1, <1>2, <1>3, <1>4
        <4> QED
          BY <1>1, <1>9, <3>1, <4>1
      <3>2. CASE ~(pos <= i)
        <4>1. i \in 0..(pos - 1)
          BY <1>2, <3>2
        <4>2. Hopeless(i) \/ \E t \in taken : t <= i /\ i < EndOf(t)
          BY <4>1 DEF StreamInv, SinglePass
        <4> QED
          BY <1>1, <1>9, <4>2
      <3> QED
        BY <3>1, <3>2
    <2> QED
      BY <2>1, <2>2, <2>3, <2>4 DEF SinglePass
  <1>12. KeepsIncomplete'
    BY <1>1 DEF KeepsIncomplete
  <1> QED
    BY <1>8, <1>11, <1>12 DEF StreamInv

\* A step that leaves the bytes alone keeps the inductive invariant, when it leaves
\* ParseFrames only with an incomplete buffer.
LEMMA StreamFrame ==
  ASSUME StreamInv, UNCHANGED <<buffer, got, pos, taken>>,
         wire' \in Seq(Byte), lost' \in 0..MaxLost, phase' \in {"wait", "parse", "handle"},
         phase = "parse" /\ phase' # "parse" => Incomplete(buffer)
  PROVE  StreamInv'
  <1>1. StreamTypeOK'
    BY DEF StreamInv, StreamTypeOK
  <1>2. SinglePass'
    BY SinglePassFrame DEF StreamInv
  <1>3. KeepsIncomplete'
    BY DEF StreamInv, KeepsIncomplete, Incomplete, Total
  <1> QED
    BY <1>1, <1>2, <1>3 DEF StreamInv

\* Every step of the stream keeps the inductive invariant.
LEMMA StreamInvNext == StreamInv /\ [StreamNext]_streamVars => StreamInv'
  <1> SUFFICES ASSUME StreamInv, [StreamNext]_streamVars PROVE StreamInv'
    OBVIOUS
  <1>0. wire \in Seq(Byte) /\ lost \in 0..MaxLost /\ phase \in {"wait", "parse", "handle"}
    BY DEF StreamInv, StreamTypeOK
  <1>1. CASE UNCHANGED streamVars
    BY <1>0, <1>1, StreamFrame DEF streamVars
  <1>2. ASSUME NEW n \in 1..ReadSize, Receive(n) PROVE StreamInv'
    BY <1>2, ReceiveInv
  <1>3. ASSUME NEW n \in 1..ReadSize, Lose(n) PROVE StreamInv'
    <2>1. n \in 0..Len(wire)
      BY <1>0, <1>3, LenProperties, SizesAssumption DEF Lose
    <2>2. wire' \in Seq(Byte)
      BY <1>0, <1>3, <2>1, SuffixProperties DEF Lose, Rest
    <2>3. lost' \in 0..MaxLost
      BY <1>0, <1>3, SizesAssumption DEF Lose
    <2> QED
      BY <1>0, <1>3, <2>2, <2>3, StreamFrame DEF Lose
  <1>4. CASE ClearBuffer
    <2>1. <<>> \in Seq(Byte) /\ Len(<<>>) = 0
      BY EmptySeq
    <2>2. StreamTypeOK'
      BY <1>4, <2>1 DEF ClearBuffer, StreamInv, StreamTypeOK
    <2>3. SubSeq(<<>>, 0 + 1, Len(<<>>)) = <<>>
      BY <2>1, SubSeqEmpty
    <2>4. SinglePass'
      BY <1>4, <2>3 DEF ClearBuffer, SinglePass, From
    <2>5. KeepsIncomplete'
      BY <1>4, <2>1 DEF ClearBuffer, KeepsIncomplete, Incomplete, MinPacket
    <2> QED
      BY <2>2, <2>4, <2>5 DEF StreamInv
  <1>5. CASE ParseEnds
    BY <1>0, <1>5, StreamFrame DEF ParseEnds
  <1>6. CASE SkipByte
    BY <1>6, SkipByteInv
  <1>7. CASE TakeFrame
    BY <1>7, TakeFrameInv
  <1>8. CASE NextFrame
    BY <1>0, <1>8, StreamFrame DEF NextFrame
  <1>9. CASE HandleEnds
    BY <1>0, <1>9, StreamFrame DEF HandleEnds
  <1> QED
    BY <1>1, <1>2, <1>3, <1>4, <1>5, <1>6, <1>7, <1>8, <1>9 DEF StreamNext, ParseStep

\* The two properties of the parse follow from the inductive invariant.
LEMMA StreamInvImplies == StreamInv => SinglePass /\ FoundInTime
  <1> SUFFICES ASSUME StreamInv PROVE FoundInTime
    BY DEF StreamInv
  <1> SUFFICES ASSUME phase = "wait", NEW i \in 0..(Len(got) - MaxByte - 1), Good(From(i))
               PROVE  \E t \in taken : t <= i /\ i < EndOf(t)
    BY DEF FoundInTime
  <1>1. /\ Len(got) \in Nat /\ pos \in Nat /\ Len(buffer) = Len(got) - pos
    BY BufferLength DEF StreamInv, SinglePass
  <1>2. Len(buffer) <= MaxByte
    BY IncompleteIsShort DEF StreamInv, StreamTypeOK, KeepsIncomplete
  <1>3. i \in 0..(pos - 1)
    BY <1>1, <1>2, MaxByteAssumption
  <1> QED
    BY <1>3 DEF StreamInv, SinglePass, Hopeless

-----------------------------------------------------------------------------
(* The whole path.                                                         *)

\* TagPath adds to FrameStream: what was shown of the stream holds of the path.
LEMMA PathRefinesStream == PathSpec => StreamSpec
  <1>1. PathInit => StreamInit
    BY DEF PathInit
  <1>2. [PathNext]_vars => [StreamNext]_streamVars
    <2> SUFFICES ASSUME [PathNext]_vars PROVE [StreamNext]_streamVars
      OBVIOUS
    <2>1. CASE UNCHANGED vars
      BY <2>1 DEF vars
    <2>2. CASE Receiving \/ Parsing \/ Connected \/ StartReading
      BY <2>2 DEF Receiving, Parsing, Connected, StartReading, StreamNext
    <2>3. CASE OpenFrame \/ Return
      BY <2>3 DEF OpenFrame, Return, StreamNext
    <2>4. CASE SeenBefore \/ NewTag
      BY <2>4 DEF SeenBefore, NewTag
    <2>5. CASE WorkerStep
      BY <2>5 DEF WorkerStep, WorkerTakes, WorkerFails, WorkerSends, WorkerGivesUp
    <2>6. CASE \E e \in BagToSet(handlers) : BotHandles(e)
      BY <2>6 DEF BotHandles
    <2>7. CASE BotEnds
      BY <2>7 DEF BotEnds
    <2> QED
      BY <2>1, <2>2, <2>3, <2>4, <2>5, <2>6, <2>7 DEF PathNext
  <1> QED
    BY <1>1, <1>2, PTL DEF PathSpec, StreamSpec

\* The parse of a connection does not depend on the pieces it arrives in, and no byte of
\* it is thrown away by the cut of the buffer.
THEOREM ParseIsSinglePass == PathSpec => []SinglePass
  BY StreamInvInit, StreamInvNext, StreamInvImplies, PathRefinesStream, PTL DEF StreamSpec

\* A right packet is found when at most MaxByte bytes have followed its first one.
THEOREM FramesAreFoundInTime == PathSpec => []FoundInTime
  BY StreamInvInit, StreamInvNext, StreamInvImplies, PathRefinesStream, PTL DEF StreamSpec
-----------------------------------------------------------------------------
(* The types of the path.                                                  *)

\* What ParseFrames makes of packets.
FrameRecord == [address : Byte, command : Byte, status : Byte, data : Seq(Byte)]

PathTypes ==
  /\ frames \in Seq(FrameRecord)
  /\ IsSeq(todo) /\ IsSeq(queue)
  /\ IsABag(handlers) /\ IsABag(handled)
  /\ readings \in Nat

\* A packet of at least six bytes makes a frame.
LEMMA FrameOfType ==
  ASSUME NEW raw \in Seq(Byte), Len(raw) >= 6
  PROVE  FrameOf(raw) \in FrameRecord
  <1>1. Len(raw) \in Nat /\ \A i \in 1..Len(raw) : raw[i] \in Byte
    BY LenProperties, ElementOfSeq
  <1>2. \A i \in 5..(Len(raw) - 2) : raw[i] \in Byte
    BY <1>1
  <1>3. 5 \in Int /\ Len(raw) - 2 \in Int
    BY <1>1
  <1>4. SubSeq(raw, 5, Len(raw) - 2) \in Seq(Byte)
    BY <1>2, <1>3, SubSeqProperties
  <1> QED
    BY <1>1, <1>4 DEF FrameOf, FrameRecord

\* The texts of a sequence of EPCs are a sequence.
LEMMA TextsOf ==
  ASSUME NEW epcs, IsSeq(epcs)
  PROVE  IsSeq([i \in 1..Len(epcs) |-> EpcText(epcs[i])])
  <1> DEFINE f == [i \in 1..Len(epcs) |-> EpcText(epcs[i])]
  <1>1. Len(epcs) \in Nat
    BY LenProperties DEF IsSeq
  <1>2. f = [i \in 1..Len(epcs) |-> f[i]]
    OBVIOUS
  <1> HIDE DEF f
  <1>3. IsSeq(f)
    BY <1>1, <1>2, SeqOfFunction
  <1> QED
    BY <1>3 DEF f

\* Whatever is in a frame, the two parsers return a sequence of EPCs.
LEMMA ParsedIsSeq ==
  ASSUME NEW frame \in FrameRecord
  PROVE  IsSeq(ParseInventoryG2Tags(frame).epcs) /\ IsSeq(ParseSingleInventoryResult(frame).epcs)
  <1> DEFINE d == frame.data
             f == [k \in 1..d[2] |-> TagEPC(d, k)]
  <1>1. d \in Seq(Byte) /\ Len(d) \in Nat
    BY LenProperties DEF FrameRecord
  <1>2. ParseInventoryG2Tags(frame).epcs = <<>> \/ (Len(d) >= 2 /\ ParseInventoryG2Tags(frame).epcs = f)
    BY <1>1 DEF ParseInventoryG2Tags, BadPayload
  <1>3. ASSUME Len(d) >= 2 PROVE IsSeq(f)
    <2>1. d[2] \in Nat
      <3>1. d[2] \in Byte
        BY <1>1, <1>3, ElementOfSeq
      <3> QED
        BY <3>1, MaxByteAssumption DEF Byte
    <2>2. f = [k \in 1..d[2] |-> f[k]]
      OBVIOUS
    <2> HIDE DEF f
    <2> QED
      BY <2>1, <2>2, SeqOfFunction
  <1>4. ParseSingleInventoryResult(frame).epcs \in {<<>>, <<SubSeq(d, 4, 3 + d[3])>>}
    BY DEF ParseSingleInventoryResult, BadPayload
  <1>5. \A v : IsSeq(<<v>>)
    <2> SUFFICES ASSUME NEW v PROVE IsSeq(<<v>>)
      OBVIOUS
    <2>1. <<v>> \in Seq({v}) /\ Elems(<<v>>) = {v}
      BY DEF Elems
    <2> QED
      BY <2>1 DEF IsSeq
  <1> HIDE DEF f
  <1> QED
    BY <1>2, <1>3, <1>4, <1>5, EmptyElems

\* The EPCs handleProtocolFrame takes from a frame are a sequence.
LEMMA FrameEPCsIsSeq ==
  ASSUME NEW frame \in FrameRecord
  PROVE  IsSeq(FrameEPCs(frame))
  <1> DEFINE tags == ParseInventoryG2Tags(frame).epcs
             single == ParseSingleInventoryResult(frame).epcs
  <1>1. CmdInventory # CmdInventorySingle
    BY DEF CmdInventory, CmdInventorySingle
  <1>2. FrameEPCs(frame) \in {[i \in 1..Len(tags) |-> EpcText(tags[i])],
                              [i \in 1..Len(single) |-> EpcText(single[i])], <<>>}
    BY <1>1 DEF FrameEPCs
  <1>3. IsSeq(tags) /\ IsSeq(single)
    BY ParsedIsSeq
  <1> HIDE DEF tags, single
  <1> QED
    BY <1>2, <1>3, TextsOf, EmptyElems

\* An offer at most puts the EPC at the end of the queue, and an EPC it does not put there
\* is missed, unless it is the empty one.
LEMMA OfferEffect ==
  ASSUME NEW x, IsSeq(queue), Offer(x)
  PROVE  /\ IsSeq(queue')
         /\ Elems(queue) \subseteq Elems(queue') /\ missed \subseteq missed'
         /\ x # NoText => x \in Elems(queue') \cup missed'
         /\ \A e : Count(e, queue') \in Nat
                  /\ Count(e, queue') <= Count(e, queue) + (IF e = x THEN 1 ELSE 0)
  <1>1. \A e : Count(e, queue) \in Nat
    BY CountType
  <1>2. CASE x = NoText /\ UNCHANGED <<queue, missed>>
    BY <1>1, <1>2
  <1>3. CASE x # NoText /\ Len(queue) < QueueSize /\ queue' = Append(queue, x) /\ UNCHANGED missed
    <2>1. /\ IsSeq(queue') /\ Elems(queue') = Elems(queue) \cup {x}
          /\ \A e : Count(e, queue') = Count(e, queue) + (IF e = x THEN 1 ELSE 0)
      BY <1>3, AppendElems
    <2> QED
      BY <1>1, <1>3, <2>1
  <1>4. CASE x # NoText /\ Len(queue) = QueueSize /\ missed' = missed \cup {x} /\ UNCHANGED queue
    BY <1>1, <1>4
  <1> QED
    BY <1>2, <1>3, <1>4 DEF Offer

\* Every step keeps the types.
LEMMA PathTypesNext == StreamInv /\ PathTypes /\ [PathNext]_vars => PathTypes'
  <1> SUFFICES ASSUME StreamInv, PathTypes, [PathNext]_vars PROVE PathTypes'
    OBVIOUS
  <1> USE DEF PathTypes
  <1>1. CASE UNCHANGED vars
    BY <1>1 DEF vars, streamVars, pathVars
  <1>2. CASE Receiving
    BY <1>2 DEF Receiving, Receive, Lose, pathVars
  <1>3. CASE Parsing
    <2>1. CASE TakeFrame
      <3> DEFINE raw == SubSeq(buffer, 1, Total(buffer))
      <3>1. Len(raw) >= 6 /\ raw \in Seq(Byte)
        BY <2>1, TakenPacket DEF TakeFrame
      <3>2. FrameOf(raw) \in FrameRecord
        BY <3>1, FrameOfType
      <3>3. frames' \in Seq(FrameRecord)
        BY <2>1, <3>2, AppendProperties DEF TakeFrame
      <3> QED
        BY <1>3, <3>3 DEF Parsing, pathVars
    <2>2. CASE ParseEnds \/ SkipByte
      BY <1>3, <2>2 DEF ParseEnds, SkipByte, Parsing, pathVars
    <2> QED
      BY <1>3, <2>1, <2>2 DEF Parsing, ParseStep
  <1>4. CASE Connected \/ StartReading
    BY <1>4 DEF Connected, StartReading, ClearBuffer, pathVars
  <1>5. CASE OpenFrame
    <2>1. frames # <<>> /\ frames' = Tail(frames) /\ todo' = FrameEPCs(Head(frames))
      BY <1>5 DEF OpenFrame, NextFrame
    <2>2. Head(frames) \in FrameRecord /\ Tail(frames) \in Seq(FrameRecord)
      BY <2>1, HeadTailProperties
    <2>3. IsSeq(todo')
      BY <2>1, <2>2, FrameEPCsIsSeq
    <2> QED
      BY <1>5, <2>1, <2>2, <2>3 DEF OpenFrame
  <1>6. CASE Return
    BY <1>6 DEF Return, HandleEnds, pathVars
  <1>7. CASE SeenBefore
    <2>1. todo # <<>> /\ todo' = Tail(todo)
      BY <1>7 DEF SeenBefore, AfterSeen
    <2>2. IsSeq(todo')
      BY <2>1, TailElems
    <2> QED
      BY <1>7, <2>2 DEF SeenBefore, streamVars
  <1>8. CASE NewTag
    <2>1. todo # <<>> /\ todo' = Tail(todo) /\ Offer(Head(todo))
      BY <1>8 DEF NewTag
    <2>2. IsSeq(todo')
      BY <2>1, TailElems
    <2>3. IsSeq(queue')
      BY <2>1, OfferEffect
    <2> QED
      BY <1>8, <2>2, <2>3 DEF NewTag, streamVars
  <1>9. CASE WorkerTakes
    <2>1. IsSeq(queue')
      BY <1>9, TailElems DEF WorkerTakes
    <2> QED
      BY <1>9, <2>1 DEF WorkerTakes, streamVars
  <1>10. CASE WorkerFails \/ WorkerGivesUp
    BY <1>10 DEF WorkerFails, WorkerGivesUp, streamVars
  <1>11. CASE WorkerSends
    <2>1. IsABag(handlers')
      BY <1>11, BagSum, SmallBags DEF WorkerSends
    <2> QED
      BY <1>11, <2>1 DEF WorkerSends, streamVars
  <1>12. ASSUME NEW e \in BagToSet(handlers), BotHandles(e) PROVE PathTypes'
    <2>1. IsABag(handlers')
      BY <1>12, BagLess DEF BotHandles, BagIn
    <2>2. IsABag(handled')
      BY <1>12, BagSum, SmallBags DEF BotHandles
    <2> QED
      BY <1>12, <2>1, <2>2 DEF BotHandles, streamVars
  <1>13. CASE BotEnds
    BY <1>13, SmallBags DEF BotEnds, streamVars
  <1> QED
    BY <1>1, <1>2, <1>3, <1>4, <1>5, <1>6, <1>7, <1>8, <1>9, <1>10, <1>11, <1>12, <1>13
       DEF PathNext, WorkerStep

\* Initially everything on the path is empty.
LEMMA PathTypesInit == PathInit => PathTypes
  BY EmptyElems, SmallBags, EmptySeq DEF PathInit, StreamInit, PathTypes

-----------------------------------------------------------------------------
(* What becomes of an EPC that was seen.                                   *)

\* No step forgets an EPC: it moves from the queue to the worker, to the bot's
\* handlers, to what was handled, or is counted as missed.
LEMMA NoneForgottenNext == PathTypes /\ NoneForgotten /\ [PathNext]_vars => NoneForgotten'
  <1> SUFFICES ASSUME PathTypes, NoneForgotten, [PathNext]_vars,
                      NEW e \in seen' \ {NoText}
               PROVE  \/ e \in Elems(queue') \cup missed'
                      \/ worker' = "dial" /\ sending' = e
                      \/ BagIn(e, handlers' (+) handled')
    BY DEF NoneForgotten
  <1> DEFINE There == /\ Copies(e, handlers) \in Nat /\ Copies(e, handled) \in Nat
                      /\ BagIn(e, handlers (+) handled) <=> Copies(e, handlers) + Copies(e, handled) > 0
  <1>1. There
    BY BagSum, CopiesOf DEF PathTypes
  <1>2. ASSUME IsABag(handlers'), IsABag(handled') PROVE There'
    BY <1>2, BagSum, CopiesOf
  <1> HIDE DEF There
  <1>3. CASE UNCHANGED <<seen, queue, missed, worker, sending, handlers, handled>>
    BY <1>3 DEF NoneForgotten
  <1>4. CASE UNCHANGED vars \/ Receiving \/ Parsing \/ Connected \/ OpenFrame \/ Return \/ SeenBefore
    BY <1>3, <1>4 DEF vars, pathVars, Receiving, Parsing, Connected, OpenFrame, Return, SeenBefore
  <1>5. CASE StartReading
    BY <1>5 DEF StartReading
  <1>6. CASE NewTag
    <2>1. Offer(Head(todo)) /\ seen' = seen \cup {Head(todo)}
          /\ UNCHANGED <<worker, sending, handlers, handled>>
      BY <1>6 DEF NewTag
    <2>2. Elems(queue) \subseteq Elems(queue') /\ missed \subseteq missed'
      BY <2>1, OfferEffect DEF PathTypes
    <2>3. e = Head(todo) => e \in Elems(queue') \cup missed'
      BY <2>1, OfferEffect DEF PathTypes
    <2> QED
      BY <2>1, <2>2, <2>3 DEF NoneForgotten
  <1>7. CASE WorkerTakes
    <2>1. Elems(queue) = {sending'} \cup Elems(queue')
      BY <1>7, TailElems DEF WorkerTakes, PathTypes
    <2> QED
      BY <1>7, <2>1 DEF WorkerTakes, NoneForgotten
  <1>8. CASE WorkerFails \/ WorkerGivesUp
    BY <1>8 DEF WorkerFails, WorkerGivesUp, NoneForgotten
  <1>9. CASE WorkerSends
    <2>1. IsABag(handlers') /\ Copies(e, handlers') = Copies(e, handlers) + (IF e = sending THEN 1 ELSE 0)
      BY <1>9, BagSum, SmallBags DEF WorkerSends, PathTypes
    <2>2. There' /\ handled' = handled
      BY <1>2, <1>9, <2>1 DEF WorkerSends, PathTypes
    <2>3. e = sending \/ BagIn(e, handlers (+) handled) => BagIn(e, handlers' (+) handled')
      BY <1>1, <2>1, <2>2 DEF There
    <2> QED
      BY <1>9, <2>3 DEF WorkerSends, NoneForgotten
  <1>10. ASSUME NEW f \in BagToSet(handlers), BotHandles(f) PROVE BagIn(e, handlers (+) handled) => BagIn(e, handlers' (+) handled')
    <2>1. /\ IsABag(handlers') /\ IsABag(handled')
          /\ Copies(e, handlers') = Copies(e, handlers) - (IF e = f THEN 1 ELSE 0)
          /\ Copies(e, handled') = Copies(e, handled) + (IF e = f THEN 1 ELSE 0)
      BY <1>10, BagLess, BagSum, SmallBags DEF BotHandles, BagIn, PathTypes
    <2>2. There'
      BY <1>2, <2>1
    <2> QED
      BY <1>1, <2>1, <2>2 DEF There
  <1>11. ASSUME NEW f \in BagToSet(handlers), BotHandles(f)
         PROVE  UNCHANGED <<seen, queue, missed, worker, sending>>
    BY <1>11 DEF BotHandles
  <1>12. CASE BotEnds
    <2>1. /\ IsABag(handlers') /\ Copies(e, handlers') = 0 /\ handled' = handled
          /\ missed' = missed \cup BagToSet(handlers)
          /\ UNCHANGED <<seen, queue, worker, sending>>
      BY <1>12, SmallBags DEF BotEnds
    <2>2. There'
      BY <1>2, <2>1 DEF PathTypes
    <2>3. BagIn(e, handlers (+) handled) => BagIn(e, handlers' (+) handled') \/ Copies(e, handlers) > 0
      BY <1>1, <2>1, <2>2 DEF There
    <2>4. Copies(e, handlers) > 0 => e \in missed'
      BY <2>1, CopiesOf DEF PathTypes, BagIn
    <2> QED
      BY <2>1, <2>3, <2>4 DEF NoneForgotten
  <1> QED
    BY <1>4, <1>5, <1>6, <1>7, <1>8, <1>9, <1>10, <1>11, <1>12 DEF PathNext, WorkerStep, NoneForgotten

\* An EPC that was seen in a reading is on its way to the bot, was handled by it, or was
\* lost to a full queue or an absent bot (bot_sync.go: onNewEPC, ingestWorker, roundTrip).
THEOREM NoneForgottenCorrect == PathSpec => []NoneForgotten
  <1>1. PathInit => NoneForgotten
    BY DEF PathInit, NoneForgotten
  <1> QED
    BY <1>1, StreamInvInit, StreamInvNext, PathRefinesStream, PathTypesInit, PathTypesNext,
       NoneForgottenNext, PTL DEF PathSpec, StreamSpec
-----------------------------------------------------------------------------
(* How often the bot is given an EPC.                                      *)

\* How often e was given to the queue and not lost there or on the way.
Given(e) ==
  Copies(e, handlers) + Copies(e, handled) + Count(e, queue)
    + (IF worker = "dial" /\ sending = e THEN 1 ELSE 0)

\* Only the readings that have seen an EPC have given it to the bot: an EPC this reading
\* has not seen was given by the earlier ones at most.
GivenWithinReadings ==
  \A e : Given(e) <= readings /\ (e \notin seen => Given(e) <= readings - 1)

LEMMA GivenType == ASSUME PathTypes, NEW e PROVE Given(e) \in Nat
  <1>1. Copies(e, handlers) \in Nat /\ Copies(e, handled) \in Nat /\ Count(e, queue) \in Nat
    BY CopiesOf, CountType DEF PathTypes
  <1> QED
    BY <1>1 DEF Given

\* A step that gives nothing to the queue: what is given moves on, or is lost.
LEMMA GivenOnlyOffered ==
  ASSUME PathTypes, [PathNext]_vars, ~NewTag, NEW e
  PROVE  Given(e)' <= Given(e)
  <1> DEFINE h == Copies(e, handlers)
             d == Copies(e, handled)
             q == Count(e, queue)
             w == IF worker = "dial" /\ sending = e THEN 1 ELSE 0
  <1>1. h \in Nat /\ d \in Nat /\ q \in Nat /\ w \in {0, 1} /\ Given(e) = h + d + q + w
    BY CopiesOf, CountType DEF PathTypes, Given
  <1>2. Given(e)' = h' + d' + q' + w'
    BY DEF Given
  <1>3. CASE UNCHANGED <<queue, worker, sending, handlers, handled>>
    <2>1. h' = h /\ d' = d /\ q' = q /\ w' = w
      BY <1>3
    <2> HIDE DEF h, d, q, w
    <2> QED
      BY <1>1, <1>2, <2>1
  <1>4. CASE UNCHANGED vars \/ Receiving \/ Parsing \/ Connected \/ StartReading \/ OpenFrame
             \/ Return \/ SeenBefore
    BY <1>3, <1>4
    DEF vars, pathVars, Receiving, Parsing, Connected, StartReading, OpenFrame, Return, SeenBefore
  <1>5. CASE WorkerTakes
    <2>1. q' = q - (IF e = Head(queue) THEN 1 ELSE 0)
      BY <1>5, TailElems DEF WorkerTakes, PathTypes
    <2>2. w = 0 /\ w' = (IF e = Head(queue) THEN 1 ELSE 0) /\ h' = h /\ d' = d
      BY <1>5 DEF WorkerTakes
    <2> HIDE DEF h, d, q, w
    <2> QED
      BY <1>1, <1>2, <2>1, <2>2
  <1>6. CASE WorkerFails \/ WorkerGivesUp
    <2>1. w' = 0 /\ h' = h /\ d' = d /\ q' = q
      BY <1>6 DEF WorkerFails, WorkerGivesUp, AfterError
    <2> HIDE DEF h, d, q, w
    <2> QED
      BY <1>1, <1>2, <2>1
  <1>7. CASE WorkerSends
    <2>1. h' = h + (IF e = sending THEN 1 ELSE 0)
      BY <1>7, BagSum, SmallBags DEF WorkerSends, PathTypes
    <2>2. w = (IF e = sending THEN 1 ELSE 0) /\ w' = 0 /\ d' = d /\ q' = q
      BY <1>7 DEF WorkerSends
    <2> HIDE DEF h, d, q, w
    <2> QED
      BY <1>1, <1>2, <2>1, <2>2
  <1>8. ASSUME NEW f \in BagToSet(handlers), BotHandles(f) PROVE Given(e)' <= Given(e)
    <2>1. h' = h - (IF e = f THEN 1 ELSE 0)
      BY <1>8, BagLess DEF BotHandles, BagIn, PathTypes
    <2>2. d' = d + (IF e = f THEN 1 ELSE 0)
      BY <1>8, BagSum, SmallBags DEF BotHandles, PathTypes
    <2>3. q' = q /\ w' = w
      BY <1>8 DEF BotHandles
    <2> HIDE DEF h, d, q, w
    <2> QED
      BY <1>1, <1>2, <2>1, <2>2, <2>3
  <1>9. CASE BotEnds
    <2>1. h' = 0 /\ d' = d /\ q' = q /\ w' = w
      BY <1>9, SmallBags DEF BotEnds
    <2> HIDE DEF h, d, q, w
    <2> QED
      BY <1>1, <1>2, <2>1
  <1> QED
    BY <1>4, <1>5, <1>6, <1>7, <1>8, <1>9 DEF PathNext, WorkerStep

\* Every step keeps what each reading may give.
LEMMA GivenNext ==
  PathTypes /\ PathTypes' /\ GivenWithinReadings /\ [PathNext]_vars => GivenWithinReadings'
  <1> SUFFICES ASSUME PathTypes, PathTypes', GivenWithinReadings, [PathNext]_vars, NEW e
               PROVE  Given(e)' <= readings' /\ (e \notin seen' => Given(e)' <= readings' - 1)
    BY DEF GivenWithinReadings
  <1>1. /\ Given(e) \in Nat /\ Given(e)' \in Nat /\ readings \in Nat /\ readings' \in Nat
        /\ Given(e) <= readings /\ (e \notin seen => Given(e) <= readings - 1)
    <2>1. Given(e) \in Nat
      BY GivenType
    <2>2. Given(e)' \in Nat
      <3>1. Copies(e, handlers') \in Nat /\ Copies(e, handled') \in Nat /\ Count(e, queue') \in Nat
        BY CopiesOf, CountType DEF PathTypes
      <3> QED
        BY <3>1 DEF Given
    <2> QED
      BY <2>1, <2>2 DEF PathTypes, GivenWithinReadings
  <1>2. CASE NewTag
    <2>1. /\ Head(todo) \notin seen /\ seen' = seen \cup {Head(todo)} /\ Offer(Head(todo))
          /\ UNCHANGED <<worker, sending, handlers, handled, readings>>
      BY <1>2 DEF NewTag
    <2>2. /\ Count(e, queue') \in Nat /\ Count(e, queue) \in Nat
          /\ Count(e, queue') <= Count(e, queue) + (IF e = Head(todo) THEN 1 ELSE 0)
      BY <2>1, OfferEffect, CountType DEF PathTypes
    <2>3. Copies(e, handlers) \in Nat /\ Copies(e, handled) \in Nat
      BY CopiesOf DEF PathTypes
    <2>4. Given(e)' <= Given(e) + (IF e = Head(todo) THEN 1 ELSE 0)
      BY <2>1, <2>2, <2>3 DEF Given
    <2> QED
      BY <1>1, <2>1, <2>4
  <1>3. CASE ~NewTag
    <2>1. Given(e)' <= Given(e)
      BY <1>3, GivenOnlyOffered
    <2>2. CASE StartReading
      BY <1>1, <2>1, <2>2 DEF StartReading
    <2>3. CASE UNCHANGED <<seen, readings>>
      BY <1>1, <2>1, <2>3
    <2>4. UNCHANGED <<seen, readings>> \/ StartReading
      BY <1>3
      DEF PathNext, WorkerStep, vars, pathVars, Receiving, Parsing, Connected, OpenFrame, Return,
          SeenBefore, WorkerTakes, WorkerFails, WorkerSends, WorkerGivesUp, BotHandles, BotEnds
    <2> QED
      BY <2>2, <2>3, <2>4
  <1> QED
    BY <1>2, <1>3

\* The bot is given an EPC at most once for each reading, whatever becomes of its answers:
\* ingestWorker never sends an EPC again (bot_sync.go), and seenTagEPC lets each EPC
\* through once in a reading (update_frames.go).
THEOREM OncePerReadingCorrect == PathSpec => []OncePerReading
  <1>1. PathInit => GivenWithinReadings
    <2> SUFFICES ASSUME PathInit, NEW e
                 PROVE  Given(e) <= readings /\ Given(e) <= readings - 1
      BY DEF GivenWithinReadings
    <2>1. Copies(e, handlers) = 0 /\ Copies(e, handled) = 0 /\ Count(e, queue) = 0
      BY EmptyElems, SmallBags DEF PathInit
    <2> QED
      BY <2>1 DEF PathInit, Given
  <1>2. PathTypes /\ GivenWithinReadings => OncePerReading
    <2> SUFFICES ASSUME PathTypes, GivenWithinReadings, NEW e
                 PROVE  Copies(e, handlers (+) handled) + Count(e, queue)
                          + (IF worker = "dial" /\ sending = e THEN 1 ELSE 0) <= readings
      BY DEF OncePerReading
    <2>1. Copies(e, handlers (+) handled) = Copies(e, handlers) + Copies(e, handled)
      BY BagSum DEF PathTypes
    <2> QED
      BY <2>1 DEF GivenWithinReadings, Given
  <1> QED
    BY <1>1, <1>2, StreamInvInit, StreamInvNext, PathRefinesStream, PathTypesInit, PathTypesNext,
       GivenNext, PTL DEF PathSpec, StreamSpec

-----------------------------------------------------------------------------
(* Every EPC of every frame is seen.                                       *)

\* The EPCs of the frame at offset t, and those of the frames the receiver has yet to open.
TagsAt(t) == Elems(FrameEPCs(FrameOf(SubSeq(got, t + 1, EndOf(t)))))
TagsAhead == UNION {Elems(FrameEPCs(f)) : f \in Elems(frames)}

\* An EPC of a frame that was taken is seen, or in the frame in hand, or ahead.
Covered == \A t \in taken : TagsAt(t) \subseteq seen \cup Elems(todo) \cup TagsAhead

\* The receiver waits when it has handled all frames, and has EPCs in hand only when it
\* handles one.
FramesByPhase ==
  /\ phase = "wait" => frames = <<>>
  /\ phase # "handle" => todo = <<>>

\* A sequence over some set is a sequence over its elements.
LEMMA SeqIsSeq ==
  ASSUME NEW S, NEW s \in Seq(S)
  PROVE  IsSeq(s)
  <1>1. Len(s) \in Nat /\ s = [i \in 1..Len(s) |-> s[i]]
    BY LenProperties
  <1> QED
    BY <1>1, SeqOfFunction

\* Appending leaves the parts of a sequence alone.
LEMMA PartOfConcat ==
  ASSUME NEW S, NEW s \in Seq(S), NEW c \in Seq(S), NEW a \in Nat \ {0}, NEW b \in 0..Len(s)
  PROVE  SubSeq(s \o c, a, b) = SubSeq(s, a, b)
  <1> DEFINE l == SubSeq(s \o c, a, b)
             r == SubSeq(s, a, b)
  <1>1. /\ Len(s) \in Nat /\ Len(c) \in Nat /\ s \o c \in Seq(S) /\ Len(s \o c) = Len(s) + Len(c)
        /\ \A k \in 1..(Len(s) + Len(c)) : (s \o c)[k] = IF k <= Len(s) THEN s[k] ELSE c[k - Len(s)]
    BY LenProperties, ConcatProperties
  <1>2. \A k \in a..b : k \in 1..Len(s) /\ k \in 1..Len(s \o c) /\ (s \o c)[k] = s[k]
    BY <1>1
  <1>3. \A k \in a..b : s[k] \in S /\ (s \o c)[k] \in S
    BY <1>1, <1>2, ElementOfSeq
  <1>4. a \in Int /\ b \in Int
    BY <1>1
  <1>5. /\ l \in Seq(S) /\ Len(l) = (IF a <= b THEN b - a + 1 ELSE 0)
        /\ \A k \in 1..(b - a + 1) : l[k] = (s \o c)[a + k - 1]
    BY <1>3, <1>4, SubSeqProperties
  <1>6. /\ r \in Seq(S) /\ Len(r) = (IF a <= b THEN b - a + 1 ELSE 0)
        /\ \A k \in 1..(b - a + 1) : r[k] = s[a + k - 1]
    BY <1>3, <1>4, SubSeqProperties
  <1> HIDE DEF l, r
  <1>7. ASSUME NEW k \in 1..Len(l) PROVE l[k] = r[k]
    <2>1. k \in 1..(b - a + 1) /\ a + k - 1 \in a..b
      BY <1>4, <1>5
    <2> QED
      BY <1>2, <1>5, <1>6, <2>1
  <1>8. l = r
    BY <1>5, <1>6, <1>7, SeqEqual
  <1> QED
    BY <1>8 DEF l, r

\* What arrives does not change a frame that was taken.
LEMMA ReceiveKeepsTags ==
  ASSUME StreamInv, NEW n \in 1..ReadSize, Receive(n), NEW t \in taken
  PROVE  TagsAt(t)' = TagsAt(t)
  <1>1. /\ wire \in Seq(Byte) /\ got \in Seq(Byte) /\ Len(got) \in Nat /\ Len(wire) \in Nat
        /\ pos \in 0..Len(got) /\ n \in 0..Len(wire) /\ got' = got \o SubSeq(wire, 1, n)
    BY LenProperties, SizesAssumption DEF StreamInv, StreamTypeOK, Receive, Piece
  <1> DEFINE c == SubSeq(wire, 1, n)
  <1>2. c \in Seq(Byte)
    BY <1>1, PrefixProperties
  <1> HIDE DEF c
  <1>3. /\ t \in Nat /\ t < pos /\ EndOf(t) <= pos
    BY DEF StreamInv, StreamTypeOK, SinglePass
  <1>4. t + 1 \in 1..Len(got) /\ t + 1 \in Nat \ {0}
    BY <1>1, <1>3
  <1>5. got[t + 1] \in Nat
    <2>1. got[t + 1] \in Byte
      BY <1>1, <1>4, ElementOfSeq
    <2> QED
      BY <2>1, MaxByteAssumption DEF Byte
  <1>6. EndOf(t) \in 0..Len(got)
    <2>1. EndOf(t) \in Nat
      BY <1>3, <1>5 DEF EndOf
    <2> QED
      BY <1>1, <1>3, <2>1
  <1>7. got' = got \o c
    BY <1>1 DEF c
  <1>8. got'[t + 1] = got[t + 1]
    BY <1>1, <1>2, <1>4, <1>7, ConcatProperties
  <1> DEFINE b == EndOf(t)
  <1>9. SubSeq(got', t + 1, b) = SubSeq(got, t + 1, b)
    <2>1. b \in 0..Len(got)
      BY <1>6
    <2> HIDE DEF b
    <2>2. SubSeq(got \o c, t + 1, b) = SubSeq(got, t + 1, b)
      BY <1>1, <1>2, <1>4, <2>1, PartOfConcat
    <2> QED
      BY <1>7, <2>2
  <1>10. EndOf(t)' = EndOf(t)
    BY <1>8 DEF EndOf
  <1> QED
    BY <1>9, <1>10 DEF TagsAt

\* Every step keeps the EPCs of the frames that were taken in sight.
LEMMA CoveredNext ==
  StreamInv /\ PathTypes /\ FramesByPhase /\ Covered /\ [PathNext]_vars => FramesByPhase' /\ Covered'
  <1> SUFFICES ASSUME StreamInv, PathTypes, FramesByPhase, Covered, [PathNext]_vars
               PROVE  FramesByPhase' /\ Covered'
    OBVIOUS
  <1>0. IsSeq(frames) /\ IsSeq(todo) /\ frames \in Seq(FrameRecord)
    BY SeqIsSeq DEF PathTypes
  <1>1. ASSUME got' = got PROVE \A t : TagsAt(t)' = TagsAt(t)
    BY <1>1 DEF TagsAt, EndOf
  <1>2. CASE UNCHANGED <<frames, phase, got, taken, todo, seen>>
    BY <1>1, <1>2 DEF FramesByPhase, Covered, TagsAhead
  <1>3. CASE UNCHANGED vars \/ WorkerStep \/ BotEnds \/ \E e \in BagToSet(handlers) : BotHandles(e)
    BY <1>2, <1>3
    DEF vars, streamVars, pathVars, WorkerStep, WorkerTakes, WorkerFails, WorkerSends,
        WorkerGivesUp, BotEnds, BotHandles
  <1>4. CASE Receiving
    <2>1. PICK n \in 1..ReadSize : Receive(n) \/ Lose(n)
      BY <1>4 DEF Receiving
    <2>2. CASE Lose(n)
      BY <1>2, <1>4, <2>2 DEF Lose, Receiving, pathVars
    <2>3. CASE Receive(n)
      <3>1. phase' = "parse" /\ phase = "wait" /\ UNCHANGED <<frames, taken, todo, seen>>
        BY <1>4, <2>3 DEF Receive, Receiving, pathVars
      <3>2. \A t \in taken : TagsAt(t)' = TagsAt(t)
        BY <2>3, ReceiveKeepsTags
      <3>3. Covered'
        BY <3>1, <3>2 DEF Covered, TagsAhead
      <3> QED
        BY <3>1, <3>3 DEF FramesByPhase
    <2> QED
      BY <2>1, <2>2, <2>3
  <1>5. CASE Parsing
    <2>1. UNCHANGED <<got, todo, seen>> /\ phase = "parse" /\ todo = <<>>
      BY <1>5
      DEF Parsing, ParseStep, ParseEnds, SkipByte, TakeFrame, pathVars, FramesByPhase
    <2>2. CASE ParseEnds \/ SkipByte
      BY <1>1, <2>1, <2>2
      DEF ParseEnds, SkipByte, FramesByPhase, Covered, TagsAhead
    <2>3. CASE TakeFrame
      <3> DEFINE f == FrameOf(SubSeq(got, pos + 1, EndOf(pos)))
      <3>1. frames' = Append(frames, f) /\ taken' = taken \cup {pos} /\ phase' = "parse"
        BY <2>3, TakenPacket DEF TakeFrame
      <3>2. TagsAt(pos) = Elems(FrameEPCs(f))
        BY DEF TagsAt
      <3> HIDE DEF f
      <3>3. Elems(frames') = Elems(frames) \cup {f}
        BY <1>0, <3>1, AppendElems
      <3>4. TagsAhead' = TagsAhead \cup TagsAt(pos)
        BY <3>2, <3>3 DEF TagsAhead
      <3>5. Covered'
        BY <1>1, <2>1, <3>1, <3>4 DEF Covered
      <3> QED
        BY <2>1, <3>1, <3>5 DEF FramesByPhase
    <2> QED
      BY <1>5, <2>2, <2>3 DEF Parsing, ParseStep
  <1>6. CASE Connected \/ StartReading
    BY <1>6 DEF Connected, StartReading, ClearBuffer, pathVars, FramesByPhase, Covered
  <1>7. CASE OpenFrame
    <2>1. /\ phase = "handle" /\ todo = <<>> /\ frames # <<>> /\ frames' = Tail(frames)
          /\ todo' = FrameEPCs(Head(frames)) /\ UNCHANGED <<phase, got, taken, seen>>
      BY <1>7 DEF OpenFrame, NextFrame
    <2>2. Elems(frames) = {Head(frames)} \cup Elems(frames')
      BY <1>0, <2>1, TailElems
    <2>3. TagsAhead = Elems(todo') \cup TagsAhead'
      BY <2>1, <2>2 DEF TagsAhead
    <2>4. Elems(todo) = {}
      BY <2>1, EmptyElems
    <2>5. Covered'
      BY <1>1, <2>1, <2>3, <2>4 DEF Covered
    <2> QED
      BY <2>1, <2>5 DEF FramesByPhase
  <1>8. CASE Return
    BY <1>1, <1>8 DEF Return, HandleEnds, pathVars, FramesByPhase, Covered, TagsAhead
  <1>9. CASE SeenBefore \/ NewTag
    <2>1. /\ phase = "handle" /\ todo # <<>> /\ todo' = Tail(todo)
          /\ Head(todo) \in seen' /\ seen \subseteq seen'
          /\ UNCHANGED <<frames, phase, got, taken>>
      BY <1>9 DEF SeenBefore, NewTag, AfterSeen, streamVars
    <2>2. Elems(todo) = {Head(todo)} \cup Elems(todo')
      BY <1>0, <2>1, TailElems
    <2>3. TagsAhead' = TagsAhead
      BY <2>1 DEF TagsAhead
    <2>4. Covered'
      BY <1>1, <2>1, <2>2, <2>3 DEF Covered
    <2> QED
      BY <2>1, <2>4 DEF FramesByPhase
  <1> QED
    BY <1>3, <1>4, <1>5, <1>6, <1>7, <1>8, <1>9 DEF PathNext

\* Between two packets every EPC of every frame that was taken since the buffer was
\* cleared is in seenTagEPC (handleProtocolFrame of update_frames.go), however the frames
\* were cut into pieces and whatever the earlier ones held.
THEOREM EveryTagIsSeenCorrect == PathSpec => []EveryTagIsSeen
  <1>1. PathInit => FramesByPhase /\ Covered
    BY DEF PathInit, StreamInit, FramesByPhase, Covered
  <1>2. FramesByPhase /\ Covered => EveryTagIsSeen
    <2> SUFFICES ASSUME FramesByPhase, Covered, phase = "wait", NEW t \in taken
                 PROVE  TagsAt(t) \subseteq seen
      BY DEF EveryTagIsSeen, TagsAt
    <2>1. Elems(todo) = {} /\ Elems(frames) = {}
      BY EmptyElems DEF FramesByPhase
    <2>2. TagsAhead = {}
      BY <2>1 DEF TagsAhead
    <2> QED
      BY <2>1, <2>2 DEF Covered
  <1> QED
    BY <1>1, <1>2, StreamInvInit, StreamInvNext, PathRefinesStream, PathTypesInit, PathTypesNext,
       CoveredNext, PTL DEF PathSpec, StreamSpec
=============================================================================
