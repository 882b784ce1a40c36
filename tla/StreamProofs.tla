---------------------------- MODULE StreamProofs ----------------------------
(***************************************************************************)
(* Theorems about Stream for any number of messages, any length of fields, *)
(* any size of the buffer, and any cuts TCP makes.                         *)
(*                                                                         *)
(* A read that parses ends where a field ends.  So the fields acted on so  *)
(* far lie in the bytes read so far (HandledOK), and the next read, which  *)
(* is behind them, acts on later ones.                                     *)
(***************************************************************************)
EXTENDS Stream, SequenceTheorems, WellFoundedInduction, TLAPS

-----------------------------------------------------------------------------
(* Arithmetic.                                                             *)

\* A message is two fields (Protocol.proto's Meta: type and stuff).
LEMMA LenType == FieldLen \in Nat \ {0} /\ MsgLen \in Nat \ {0} /\ MsgLen = FieldLen + FieldLen
BY SizesAssumption DEF MsgLen

\* Multiples keep the order of their factors.
LEMMA MulMono ==
  ASSUME NEW m \in Nat \ {0}, NEW a \in Int, NEW b \in Int
  PROVE  /\ a <= b => a * m <= b * m
         /\ a < b => a * m + m <= b * m
         /\ a * m < b * m => a < b
<1>1. a <= b => a * m <= b * m
  OBVIOUS
<1>2. a < b => (a + 1) * m <= b * m
  OBVIOUS
<1>3. (a + 1) * m = a * m + m
  OBVIOUS
<1>4. b <= a => b * m <= a * m
  OBVIOUS
<1>5. a * m \in Int /\ b * m \in Int
  OBVIOUS
<1>6. QED
  BY <1>1, <1>2, <1>3, <1>4, <1>5

\* Division with remainder.
LEMMA Split ==
  ASSUME NEW x \in Nat, NEW m \in Nat \ {0}
  PROVE  /\ x \div m \in Nat /\ x % m \in 0 .. m - 1
         /\ x = (x \div m) * m + (x % m)
<1>1. x \div m \in Nat
  OBVIOUS
<1>2. x % m \in 0 .. m - 1
  OBVIOUS
<1>3. x = (x \div m) * m + (x % m)
  OBVIOUS
<1>4. QED
  BY <1>1, <1>2, <1>3

\* A stretch of whole fields that goes beyond the first m goes to the end of the
\* next one.
LEMMA WholeFields ==
  ASSUME NEW g \in Nat, g % FieldLen = 0, NEW m \in Nat, m * FieldLen < g
  PROVE  m * FieldLen + FieldLen <= g
<1> DEFINE q == g \div FieldLen
<1>1. q \in Nat /\ g = q * FieldLen
  <2>1. q * FieldLen \in Int
    BY LenType
  <2>2. QED
    BY <2>1, Split, LenType
<1> HIDE DEF q
<1>2. m < q
  BY <1>1, MulMono, LenType
<1>3. QED
  BY <1>1, <1>2, MulMono, LenType

\* Where a byte of the stream is: in message k, in its first field if it is of the
\* type.
LEMMA Place ==
  ASSUME NEW b \in Nat \ {0}
  PROVE  LET k == Message(b) IN
         /\ k \in Nat \ {0} /\ (k - 1) * MsgLen \in Nat /\ k * MsgLen \in Nat
         /\ (k - 1) * MsgLen < b /\ b <= (k - 1) * MsgLen + MsgLen
         /\ k * MsgLen = (k - 1) * MsgLen + MsgLen
         /\ IsType(b) => b <= (k - 1) * MsgLen + FieldLen
         /\ ~IsType(b) => (k - 1) * MsgLen + FieldLen < b
<1> DEFINE q == (b - 1) \div MsgLen
           r == (b - 1) % MsgLen
<1>1. q \in Nat /\ r \in 0 .. MsgLen - 1 /\ b - 1 = q * MsgLen + r
  <2>1. b - 1 \in Nat
    OBVIOUS
  <2>2. QED
    BY <2>1, Split, LenType
<1>2. Message(b) = q + 1 /\ (IsType(b) <=> r < FieldLen)
  BY DEF Message, IsType
<1> HIDE DEF q, r
<1>3. q * MsgLen \in Nat /\ (q + 1) * MsgLen = q * MsgLen + MsgLen
  BY <1>1, LenType
<1>4. QED
  BY <1>1, <1>2, <1>3, LenType

\* A byte between the ends of message k belongs to message k.
LEMMA PlaceUnique ==
  ASSUME NEW b \in Nat \ {0}, NEW k \in Nat \ {0},
         (k - 1) * MsgLen < b, b <= (k - 1) * MsgLen + MsgLen
  PROVE  Message(b) = k
<1> DEFINE m == Message(b)
<1>1. /\ m \in Nat \ {0} /\ (m - 1) * MsgLen < b
      /\ b <= (m - 1) * MsgLen + MsgLen
  BY Place
<1> HIDE DEF m
<1>2. (m - 1) * MsgLen \in Int /\ (k - 1) * MsgLen \in Int
  BY <1>1, LenType
<1>3. m - 1 < k - 1 => (m - 1) * MsgLen + MsgLen <= (k - 1) * MsgLen
  BY <1>1, MulMono, LenType
<1>4. k - 1 < m - 1 => (k - 1) * MsgLen + MsgLen <= (m - 1) * MsgLen
  BY <1>1, MulMono, LenType
<1>5. m = k
  BY <1>1, <1>2, <1>3, <1>4, LenType
<1>6. QED
  BY <1>5 DEF m

\* A set of places of a read that is not empty has a last one.
LEMMA MaxExists ==
  ASSUME NEW n \in Nat, NEW S \in SUBSET (1 .. n), S # {}
  PROVE  Max(S) \in S /\ \A x \in S : x <= Max(S)
<1> DEFINE T == {n - x : x \in S}
<1>1. T \subseteq Nat /\ T # {}
  <2>1. \A x \in S : n - x \in Nat
    OBVIOUS
  <2>2. QED
    BY <2>1
<1> HIDE DEF T
<1>2. PICK t \in T : \A y \in T : ~(<<y, t>> \in OpToRel(<, Nat))
  BY <1>1, NatLessThanWellFounded, WFMin, Zenon
<1>3. \A y \in T : ~(y < t)
  BY <1>1, <1>2 DEF OpToRel
<1>4. PICK x \in S : t = n - x
  BY DEF T
<1>5. \A y \in S : x >= y
  BY <1>3, <1>4 DEF T
<1>6. QED
  BY <1>5 DEF Max

\* Min, on a pair of integers.
LEMMA MinOfTwo ==
  ASSUME NEW a \in Int, NEW b \in Int
  PROVE  Min({a, b}) \in {a, b} /\ Min({a, b}) <= a /\ Min({a, b}) <= b
<1>1. \E x \in {a, b} : \A y \in {a, b} : x =< y
  OBVIOUS
<1>2. QED
  BY <1>1 DEF Min

-----------------------------------------------------------------------------
(* Parsing what one read returned, the bytes g + 1 .. g + n of the stream. *)

\* The type and the stuff of a read are those of the last byte of their kind in it.
LEMMA Parsed ==
  ASSUME NEW g \in Nat, NEW n \in Nat \ {0}, NEW bs,
         DOMAIN bs = 1 .. n, \A i \in 1 .. n : bs[i] = g + i
  PROVE  /\ \/ /\ TypeOf(bs) = 0
               /\ \A x \in g + 1 .. g + n : ~IsType(x)
            \/ \E b \in g + 1 .. g + n :
                 /\ IsType(b) /\ TypeOf(bs) = Message(b)
                 /\ \A x \in g + 1 .. g + n : IsType(x) => x <= b
         /\ \/ /\ StuffOf(bs) = 0
               /\ \A x \in g + 1 .. g + n : IsType(x)
            \/ \E b \in g + 1 .. g + n :
                 /\ ~IsType(b) /\ StuffOf(bs) = Message(b)
                 /\ \A x \in g + 1 .. g + n : ~IsType(x) => x <= b
<1>1. \A x \in g + 1 .. g + n : x - g \in 1 .. n /\ bs[x - g] = x
  OBVIOUS
<1>2. ASSUME NEW S \in SUBSET (1 .. n), S # {}
      PROVE  \E i \in S : LastOf(bs, S) = Message(bs[i]) /\ \A j \in S : j <= i
  BY <1>2, MaxExists DEF LastOf
<1>3. \/ /\ TypeOf(bs) = 0
         /\ \A x \in g + 1 .. g + n : ~IsType(x)
      \/ \E b \in g + 1 .. g + n :
           /\ IsType(b) /\ TypeOf(bs) = Message(b)
           /\ \A x \in g + 1 .. g + n : IsType(x) => x <= b
  <2> DEFINE S == {i \in 1 .. n : IsType(bs[i])}
  <2>1. TypeOf(bs) = LastOf(bs, S)
    BY DEF TypeOf
  <2>2. \A x \in g + 1 .. g + n : IsType(x) => x - g \in S
    BY <1>1
  <2>3. CASE S = {}
    BY <2>1, <2>2, <2>3 DEF LastOf
  <2>4. CASE S # {}
    <3>1. PICK i \in S : LastOf(bs, S) = Message(bs[i]) /\ \A j \in S : j <= i
      <4>1. S \in SUBSET (1 .. n)
        OBVIOUS
      <4> HIDE DEF S
      <4>2. QED
        BY <1>2, <2>4, <4>1
    <3>2. i \in 1 .. n /\ IsType(g + i) /\ bs[i] = g + i /\ g + i \in g + 1 .. g + n
      OBVIOUS
    <3>3. \A x \in g + 1 .. g + n : IsType(x) => x <= g + i
      <4> HIDE DEF S
      <4>1. QED
        BY <2>2, <3>1, <3>2
    <3>4. QED
      BY <2>1, <3>1, <3>2, <3>3
  <2>5. QED
    BY <2>3, <2>4
<1>4. \/ /\ StuffOf(bs) = 0
         /\ \A x \in g + 1 .. g + n : IsType(x)
      \/ \E b \in g + 1 .. g + n :
           /\ ~IsType(b) /\ StuffOf(bs) = Message(b)
           /\ \A x \in g + 1 .. g + n : ~IsType(x) => x <= b
  <2> DEFINE S == {i \in 1 .. n : ~IsType(bs[i])}
  <2>1. StuffOf(bs) = LastOf(bs, S)
    BY DEF StuffOf
  <2>2. \A x \in g + 1 .. g + n : ~IsType(x) => x - g \in S
    BY <1>1
  <2>3. CASE S = {}
    BY <2>1, <2>2, <2>3 DEF LastOf
  <2>4. CASE S # {}
    <3>1. PICK i \in S : LastOf(bs, S) = Message(bs[i]) /\ \A j \in S : j <= i
      <4>1. S \in SUBSET (1 .. n)
        OBVIOUS
      <4> HIDE DEF S
      <4>2. QED
        BY <1>2, <2>4, <4>1
    <3>2. i \in 1 .. n /\ ~IsType(g + i) /\ bs[i] = g + i /\ g + i \in g + 1 .. g + n
      OBVIOUS
    <3>3. \A x \in g + 1 .. g + n : ~IsType(x) => x <= g + i
      <4> HIDE DEF S
      <4>1. QED
        BY <2>2, <3>1, <3>2
    <3>4. QED
      BY <2>1, <3>1, <3>2, <3>3
  <2>5. QED
    BY <2>3, <2>4
<1>5. QED
  BY <1>3, <1>4

\* A type that was read is of a message whose type field is in the bytes read, and
\* starts behind the earlier reads; the same for stuff.
LEMMA ParsedPlace ==
  ASSUME NEW g \in Nat, NEW n \in Nat \ {0}, (g + n) % FieldLen = 0,
         NEW b \in g + 1 .. g + n
  PROVE  LET k == Message(b) IN
         /\ IsType(b) => /\ g < (k - 1) * MsgLen + FieldLen
                         /\ (k - 1) * MsgLen + FieldLen <= g + n
         /\ ~IsType(b) => g < k * MsgLen /\ k * MsgLen <= g + n
<1> DEFINE k == Message(b)
<1>1. /\ b \in Nat \ {0} /\ k \in Nat \ {0} /\ (k - 1) * MsgLen \in Nat
      /\ (k - 1) * MsgLen < b /\ b <= (k - 1) * MsgLen + MsgLen
      /\ k * MsgLen = (k - 1) * MsgLen + MsgLen
      /\ IsType(b) => b <= (k - 1) * MsgLen + FieldLen
      /\ ~IsType(b) => (k - 1) * MsgLen + FieldLen < b
  BY Place
<1> HIDE DEF k
<1>2. /\ (k - 1) * MsgLen = (2 * (k - 1)) * FieldLen
      /\ (k - 1) * MsgLen + FieldLen = (2 * (k - 1) + 1) * FieldLen
  BY <1>1, SizesAssumption DEF MsgLen
<1>3. (k - 1) * MsgLen + FieldLen <= g + n
  <2>1. 2 * (k - 1) \in Nat /\ (2 * (k - 1)) * FieldLen < g + n
    BY <1>1, <1>2
  <2>2. g + n \in Nat
    OBVIOUS
  <2>3. (2 * (k - 1)) * FieldLen + FieldLen <= g + n
    BY <2>1, <2>2, WholeFields
  <2>4. QED
    BY <1>2, <2>3
<1>4. ~IsType(b) => (k - 1) * MsgLen + FieldLen + FieldLen <= g + n
  <2> SUFFICES ASSUME ~IsType(b)
               PROVE  (k - 1) * MsgLen + FieldLen + FieldLen <= g + n
    OBVIOUS
  <2>1. 2 * (k - 1) + 1 \in Nat /\ (2 * (k - 1) + 1) * FieldLen < g + n
    BY <1>1, <1>2, LenType
  <2>2. g + n \in Nat
    OBVIOUS
  <2>3. (2 * (k - 1) + 1) * FieldLen + FieldLen <= g + n
    BY <2>1, <2>2, WholeFields
  <2>4. QED
    BY <1>2, <2>3
<1>5. /\ IsType(b) => g < (k - 1) * MsgLen + FieldLen
      /\ ~IsType(b) => g < k * MsgLen /\ k * MsgLen <= g + n
  BY <1>1, <1>4, LenType
<1>6. QED
  BY <1>3, <1>5 DEF k

\* The stuff of a read is that of the message of its type or of the one before.
LEMMA ParsedNear ==
  ASSUME NEW g \in Nat, NEW n \in Nat \ {0},
         NEW b \in g + 1 .. g + n, NEW d \in g + 1 .. g + n,
         IsType(b), \A x \in g + 1 .. g + n : IsType(x) => x <= b,
         ~IsType(d), \A x \in g + 1 .. g + n : ~IsType(x) => x <= d
  PROVE  Message(d) \in {Message(b) - 1, Message(b)}
<1> DEFINE k == Message(b)
           j == Message(d)
<1>1. /\ b \in Nat \ {0} /\ k \in Nat \ {0} /\ (k - 1) * MsgLen \in Nat
      /\ (k - 1) * MsgLen < b /\ b <= (k - 1) * MsgLen + FieldLen
  BY Place
<1>2. /\ d \in Nat \ {0} /\ j \in Nat \ {0} /\ (j - 1) * MsgLen \in Nat
      /\ (j - 1) * MsgLen + FieldLen < d /\ d <= (j - 1) * MsgLen + MsgLen
  BY Place
<1> HIDE DEF k, j
<1>3. ASSUME k < j PROVE FALSE
  <2> DEFINE y == (j - 1) * MsgLen + 1
  <2>1. (k - 1) * MsgLen + MsgLen <= (j - 1) * MsgLen
    BY <1>1, <1>2, <1>3, MulMono, LenType
  <2>2. y \in g + 1 .. g + n /\ b < y
    BY <1>1, <1>2, <2>1, LenType
  <2>3. IsType(y)
    <3>1. y \in Nat \ {0} /\ (j - 1) * MsgLen < y /\ y <= (j - 1) * MsgLen + FieldLen
      BY <1>2, LenType
    <3> HIDE DEF y
    <3>2. Message(y) = j
      BY <1>2, <3>1, PlaceUnique, LenType
    <3>3. ~IsType(y) => (j - 1) * MsgLen + FieldLen < y
      BY <3>1, <3>2, Place
    <3>4. QED
      BY <1>2, <3>1, <3>3, LenType
  <2> HIDE DEF y
  <2>4. QED
    BY <1>1, <2>2, <2>3
<1>4. ASSUME j < k - 1 PROVE FALSE
  <2> DEFINE y == (k - 1) * MsgLen
  <2>1. (j - 1) * MsgLen + MsgLen <= (k - 1 - 1) * MsgLen
        /\ (k - 1 - 1) * MsgLen + MsgLen = (k - 1) * MsgLen
        /\ (k - 1 - 1) * MsgLen \in Int
    BY <1>1, <1>2, <1>4, MulMono, LenType
  <2>2. y \in g + 1 .. g + n /\ d < y
    BY <1>1, <1>2, <2>1, LenType
  <2>3. ~IsType(y)
    <3>1. /\ y \in Nat \ {0} /\ (k - 1 - 1) * MsgLen + FieldLen < y
          /\ y <= (k - 1 - 1) * MsgLen + MsgLen /\ k - 1 \in Nat \ {0}
      BY <1>1, <1>2, <1>4, <2>1, <2>2, LenType
    <3> HIDE DEF y
    <3>2. Message(y) = k - 1
      BY <2>1, <3>1, PlaceUnique, LenType
    <3>3. IsType(y) => y <= (k - 1 - 1) * MsgLen + FieldLen
      BY <3>1, <3>2, Place
    <3>4. QED
      BY <2>1, <3>1, <3>3, LenType
  <2> HIDE DEF y
  <2>4. QED
    BY <1>2, <2>2, <2>3
<1>5. QED
  BY <1>1, <1>2, <1>3, <1>4 DEF k, j

\* A read of exactly message k + 1 gives its type and its stuff.
LEMMA ParsedWhole ==
  ASSUME NEW k \in Nat, NEW b \in k * MsgLen + 1 .. k * MsgLen + MsgLen
  PROVE  Message(b) = k + 1
<1>1. k * MsgLen \in Nat /\ (k + 1) - 1 = k
  BY LenType
<1>2. QED
  BY <1>1, PlaceUnique, LenType

-----------------------------------------------------------------------------
(* The session.                                                            *)

\* The client writes whole messages.
SentOK == \E q \in 0 .. N : sent = q * MsgLen

\* The fields acted on lie in the bytes read so far.
HandledOK ==
  \A i \in 1 .. Len(handled) :
    /\ (handled[i][1] - 1) * MsgLen + FieldLen <= got
    /\ handled[i][2] # 0 => handled[i][2] * MsgLen <= got

IndInv == TypeOK /\ SentOK /\ HandledOK /\ InStep /\ OnceInOrder /\ NearStuff /\ WholeServed

\* A read takes at least one byte, fits into _buffer and stays behind what was sent.
LEMMA ReadSize ==
  ASSUME TypeOK, NEW n \in Reads
  PROVE  n \in Nat \ {0} /\ n <= BufferSize /\ got + n \in 1 .. sent /\ got \in Nat
         /\ sent \in Nat /\ sent <= N * MsgLen
<1>1. N * MsgLen \in Nat
  BY SizesAssumption, LenType
<1>2. sent \in Nat /\ sent <= N * MsgLen /\ got \in Nat /\ BufferSize \in Nat
  BY <1>1, SizesAssumption DEF TypeOK
<1>3. Min({BufferSize, sent - got}) \in Int /\ Min({BufferSize, sent - got}) <= BufferSize
      /\ Min({BufferSize, sent - got}) <= sent - got
  <2>1. BufferSize \in Int /\ sent - got \in Int
    BY <1>2
  <2>2. QED
    BY <2>1, MinOfTwo
<1>4. QED
  BY <1>2, <1>3 DEF Reads

\* The handler is given the bytes of this read and nothing else.
LEMMA InputIs ==
  ASSUME TypeOK, NEW n \in Reads, Receive(n)
  PROVE  /\ buffer' \in [1 .. BufferSize -> Bytes \cup {Blank}]
         /\ DOMAIN Input(n) = 1 .. n /\ Len(Input(n)) = n
         /\ \A i \in 1 .. n : Input(n)[i] = got + i
<1>0. /\ n \in Nat \ {0} /\ n <= BufferSize /\ got + n \in 1 .. sent /\ got \in Nat
      /\ sent \in Nat /\ sent <= N * MsgLen /\ N * MsgLen \in Int /\ BufferSize \in Nat
  BY ReadSize, SizesAssumption, LenType
<1>1. buffer' = [i \in 1 .. BufferSize |-> IF i <= n THEN got + i ELSE buffer[i]]
  BY DEF Receive
<1>2. \A i \in 1 .. n : got + i \in Bytes
  BY <1>0 DEF Bytes
<1>3. buffer' \in [1 .. BufferSize -> Bytes \cup {Blank}]
  <2>1. ASSUME NEW i \in 1 .. BufferSize
        PROVE  (IF i <= n THEN got + i ELSE buffer[i]) \in Bytes \cup {Blank}
    <3>1. CASE i <= n
      BY <1>0, <1>2, <3>1
    <3>2. CASE ~(i <= n)
      BY <3>2 DEF TypeOK
    <3>3. QED
      BY <3>1, <3>2
  <2>2. QED
    BY <1>1, <2>1
<1>4. buffer' \in Seq(Bytes \cup {Blank}) /\ Len(buffer') = BufferSize
  BY <1>0, <1>3
<1>5. /\ SubSeq(buffer', 1, n) \in Seq(Bytes \cup {Blank})
      /\ Len(SubSeq(buffer', 1, n)) = n
      /\ \A i \in 1 .. n : SubSeq(buffer', 1, n)[i] = buffer'[i]
  BY <1>0, <1>4, SubSeqProperties
<1>6. \A i \in 1 .. n : buffer'[i] = got + i
  BY <1>0, <1>1
<1>7. DOMAIN SubSeq(buffer', 1, n) = 1 .. n
  BY <1>0, <1>5
<1>8. QED
  BY <1>3, <1>5, <1>6, <1>7 DEF Input

\* What a read may add to the calls of the game logic: a type behind those of earlier
\* reads, with none or one of the two nearest stuffs, both behind earlier ones and in
\* the bytes read by now.
Entry(k, j, n) ==
  /\ k \in 1 .. N /\ j \in 0 .. N
  /\ got < (k - 1) * MsgLen + FieldLen /\ (k - 1) * MsgLen + FieldLen <= got + n
  /\ j # 0 => got < j * MsgLen /\ j * MsgLen <= got + n
  /\ j \in {0, k - 1, k}
  /\ \A q \in Nat : got = q * MsgLen /\ n = MsgLen => k = q + 1 /\ j = q + 1

\* A message a byte of the stream belongs to is one of those sent.
LEMMA MessageSent ==
  ASSUME NEW b \in Nat \ {0}, b <= N * MsgLen
  PROVE  Message(b) \in 1 .. N
<1> DEFINE k == Message(b)
<1>1. k \in Nat \ {0} /\ (k - 1) * MsgLen \in Nat /\ (k - 1) * MsgLen < b
  BY Place
<1> HIDE DEF k
<1>2. N \in Int /\ N * MsgLen \in Int
  BY SizesAssumption, LenType
<1>3. k - 1 < N
  BY <1>1, <1>2, MulMono, LenType
<1>4. QED
  BY <1>1, <1>2, <1>3 DEF k

\* A read that parses and has a type is an entry.
LEMMA ReceivedEntry ==
  ASSUME IndInv, NEW n \in Reads, Receive(n),
         Parses(Input(n)), HasPrototype(TypeOf(Input(n)))
  PROVE  /\ (got + n) % FieldLen = 0
         /\ Entry(TypeOf(Input(n)), Content(Input(n)), n)
<1> DEFINE bs == Input(n)
           k == TypeOf(bs)
           j == StuffOf(bs)
<1>0. /\ n \in Nat \ {0} /\ got + n \in 1 .. sent /\ got \in Nat
      /\ sent \in Nat /\ sent <= N * MsgLen /\ N * MsgLen \in Int
  BY ReadSize, SizesAssumption, LenType DEF IndInv
<1>1. DOMAIN bs = 1 .. n /\ Len(bs) = n /\ \A i \in 1 .. n : bs[i] = got + i
  BY InputIs DEF IndInv
<1>2. (got + n) % FieldLen = 0
  BY <1>0, <1>1 DEF Parses, IsLast
<1>3. /\ k # 0
      /\ \/ k = 0
         \/ \E b \in got + 1 .. got + n :
              /\ IsType(b) /\ k = Message(b)
              /\ \A x \in got + 1 .. got + n : IsType(x) => x <= b
      /\ \/ /\ j = 0
            /\ \A x \in got + 1 .. got + n : IsType(x)
         \/ \E d \in got + 1 .. got + n :
              /\ ~IsType(d) /\ j = Message(d)
              /\ \A x \in got + 1 .. got + n : ~IsType(x) => x <= d
  <2> HIDE DEF bs
  <2>1. k # 0
    BY DEF HasPrototype, KindOf, bs
  <2>2. QED
    BY <1>0, <1>1, <2>1, Parsed
<1> HIDE DEF bs, k, j
<1>4. PICK b \in got + 1 .. got + n :
        /\ IsType(b) /\ k = Message(b)
        /\ \A x \in got + 1 .. got + n : IsType(x) => x <= b
  BY <1>3
<1>5. \A x \in got + 1 .. got + n : Message(x) \in 1 .. N
  <2>1. \A x \in got + 1 .. got + n : x \in Nat \ {0} /\ x <= N * MsgLen
    BY <1>0
  <2>2. QED
    BY <2>1, MessageSent
<1>6. got < (k - 1) * MsgLen + FieldLen /\ (k - 1) * MsgLen + FieldLen <= got + n
  BY <1>0, <1>2, <1>4, ParsedPlace
<1>7. \A q \in Nat : got = q * MsgLen /\ n = MsgLen =>
        \A x \in got + 1 .. got + n : Message(x) = q + 1
  BY ParsedWhole
<1>8. CASE j = 0 /\ \A x \in got + 1 .. got + n : IsType(x)
  <2>1. ~(n = MsgLen /\ \E q \in Nat : got = q * MsgLen)
    <3> SUFFICES ASSUME n = MsgLen, NEW q \in Nat, got = q * MsgLen PROVE FALSE
      OBVIOUS
    <3>1. got + n \in Nat \ {0} /\ got + n \in got + 1 .. got + n /\ IsType(got + n)
      BY <1>0, <1>8
    <3>2. Message(got + n) = q + 1
      BY <1>7, <3>1
    <3>3. got + n <= (Message(got + n) - 1) * MsgLen + FieldLen
      BY <3>1, Place
    <3>4. Message(got + n) - 1 = q
      BY <3>2
    <3>5. got + n <= q * MsgLen + FieldLen
      BY <3>3, <3>4
    <3>6. QED
      BY <1>0, <3>5, LenType
  <2>2. QED
    BY <1>2, <1>4, <1>5, <1>6, <1>8, <2>1, SizesAssumption DEF Entry, Content, k, j, bs
<1>9. ASSUME NEW d \in got + 1 .. got + n, ~IsType(d), j = Message(d),
             \A x \in got + 1 .. got + n : ~IsType(x) => x <= d
      PROVE  Entry(k, j, n)
  <2>1. got < j * MsgLen /\ j * MsgLen <= got + n
    BY <1>0, <1>2, <1>9, ParsedPlace
  <2>2. j \in {k - 1, k}
    BY <1>0, <1>4, <1>9, ParsedNear
  <2>3. j \in 0 .. N /\ k \in 1 .. N
    BY <1>4, <1>5, <1>9, SizesAssumption
  <2>4. \A q \in Nat : got = q * MsgLen /\ n = MsgLen => k = q + 1 /\ j = q + 1
    BY <1>4, <1>7, <1>9
  <2>5. QED
    BY <1>6, <2>1, <2>2, <2>3, <2>4 DEF Entry
<1>10. QED
  BY <1>2, <1>3, <1>8, <1>9 DEF Content, k, j, bs

\* What an entry does to the calls made so far.
LEMMA EntryKeeps ==
  ASSUME IndInv, NEW n \in Nat \ {0}, NEW k, NEW j, Entry(k, j, n),
         handled' = Append(handled, <<k, j>>), got' = got + n,
         alone' = (alone /\ n = MsgLen), st = "read"
  PROVE  /\ handled' \in Seq((1 .. N) \X (0 .. N))
         /\ HandledOK' /\ OnceInOrder' /\ NearStuff' /\ WholeServed'
<1> DEFINE L == Len(handled)
           T == (1 .. N) \X (0 .. N)
<1>0. /\ TypeOK /\ HandledOK /\ OnceInOrder /\ NearStuff /\ WholeServed
      /\ handled \in Seq(T) /\ N \in Nat /\ got \in Nat
  BY SizesAssumption, ReadSize DEF IndInv, TypeOK
<1>1. <<k, j>> \in T /\ k \in Nat \ {0} /\ j \in Nat
  BY <1>0 DEF Entry
<1>2. /\ handled' \in Seq(T) /\ Len(handled') = L + 1 /\ L \in Nat
      /\ \A i \in 1 .. L : handled'[i] = handled[i]
      /\ handled'[L + 1] = <<k, j>>
  BY <1>0, <1>1, AppendProperties
<1>3. /\ \A i \in 1 .. L : handled[i] \in T
      /\ \A i \in 1 .. L + 1 : i \in 1 .. L \/ i = L + 1
  BY <1>0, <1>2
<1>4. \A i \in 1 .. L : /\ handled[i][1] \in 1 .. N /\ handled[i][2] \in 0 .. N
                        /\ (handled[i][1] - 1) * MsgLen \in Int
                        /\ (handled[i][1] - 1) \in Int /\ handled[i][2] \in Int
                        /\ handled[i][2] * MsgLen \in Int
  <2>1. \A i \in 1 .. L : handled[i][1] \in 1 .. N /\ handled[i][2] \in 0 .. N
    BY <1>3
  <2>2. \A i \in 1 .. L : (handled[i][1] - 1) \in Int /\ handled[i][2] \in Int
    <3> HIDE DEF L
    <3>1. QED
      BY <1>0, <2>1
  <2>3. \A x \in Int : x * MsgLen \in Int
    BY LenType
  <2>4. QED
    BY <2>1, <2>2, <2>3
<1> HIDE DEF L, T
<1>5. HandledOK'
  <2> SUFFICES ASSUME NEW i \in 1 .. L + 1
               PROVE  /\ (handled'[i][1] - 1) * MsgLen + FieldLen <= got + n
                      /\ handled'[i][2] # 0 => handled'[i][2] * MsgLen <= got + n
    BY <1>2 DEF HandledOK
  <2>1. CASE i \in 1 .. L
    BY <1>0, <1>2, <1>4, <2>1, LenType DEF HandledOK, L
  <2>2. CASE i = L + 1
    BY <1>2, <2>2 DEF Entry
  <2>3. QED
    BY <1>3, <2>1, <2>2
<1>6. ASSUME NEW i \in 1 .. L
      PROVE  handled[i][1] < k /\ (j # 0 => handled[i][2] < j)
  <2>1. /\ (handled[i][1] - 1) * MsgLen + FieldLen <= got
        /\ handled[i][2] # 0 => handled[i][2] * MsgLen <= got
    BY <1>0 DEF HandledOK, L
  <2>2. handled[i][1] < k
    <3>1. (handled[i][1] - 1) * MsgLen < (k - 1) * MsgLen
      <4>1. (k - 1) * MsgLen \in Int
        BY <1>1, LenType
      <4>2. QED
        BY <1>0, <1>4, <2>1, <4>1, LenType DEF Entry
    <3>2. handled[i][1] - 1 < k - 1
      <4>1. handled[i][1] - 1 \in Int /\ k - 1 \in Int
        BY <1>1, <1>4
      <4>2. QED
        BY <3>1, <4>1, MulMono, LenType
    <3>3. QED
      BY <1>1, <1>4, <3>2
  <2>3. j # 0 => handled[i][2] < j
    <3> SUFFICES ASSUME j # 0, handled[i][2] # 0 PROVE handled[i][2] < j
      BY <1>1, <1>4
    <3>1. handled[i][2] * MsgLen < j * MsgLen
      <4>1. j * MsgLen \in Int
        BY <1>1, LenType
      <4>2. got < j * MsgLen
        BY DEF Entry
      <4>3. handled[i][2] * MsgLen \in Int /\ handled[i][2] * MsgLen <= got
        BY <1>4, <2>1
      <4>4. QED
        BY <1>0, <4>1, <4>2, <4>3
    <3>2. handled[i][2] \in Int /\ j \in Int
      BY <1>1, <1>4
    <3>3. QED
      BY <3>1, <3>2, MulMono, LenType
  <2>4. QED
    BY <2>2, <2>3
<1>7. OnceInOrder'
  <2> SUFFICES ASSUME NEW i \in 1 .. L + 1, NEW m \in 1 .. L + 1, i < m
               PROVE  /\ handled'[i][1] < handled'[m][1]
                      /\ handled'[m][2] # 0 => handled'[i][2] < handled'[m][2]
    BY <1>2 DEF OnceInOrder
  <2>1. i \in 1 .. L
    BY <1>2
  <2>2. CASE m \in 1 .. L
    BY <1>0, <1>2, <2>1, <2>2 DEF OnceInOrder, L
  <2>3. CASE m = L + 1
    BY <1>2, <1>6, <2>1, <2>3
  <2>4. QED
    BY <1>3, <2>2, <2>3
<1>8. NearStuff'
  <2> SUFFICES ASSUME NEW i \in 1 .. L + 1
               PROVE  handled'[i][2] \in {0, handled'[i][1] - 1, handled'[i][1]}
    BY <1>2 DEF NearStuff
  <2>1. CASE i \in 1 .. L
    BY <1>0, <1>2, <2>1 DEF NearStuff, L
  <2>2. CASE i = L + 1
    BY <1>2, <2>2 DEF Entry
  <2>3. QED
    BY <1>3, <2>1, <2>2
<1>9. WholeServed'
  <2> SUFFICES ASSUME alone, n = MsgLen
               PROVE  /\ MsgLen * (L + 1) = got + n
                      /\ \A i \in 1 .. L + 1 : handled'[i] = <<i, i>>
    BY <1>2 DEF WholeServed
  <2>1. MsgLen * L = got /\ \A i \in 1 .. L : handled[i] = <<i, i>>
    BY <1>0 DEF WholeServed, L
  <2>2. got = L * MsgLen /\ MsgLen * (L + 1) = got + MsgLen
    BY <1>2, <2>1, LenType
  <2>3. k = L + 1 /\ j = L + 1
    BY <1>2, <2>2 DEF Entry
  <2>4. QED
    BY <1>2, <1>3, <2>1, <2>2, <2>3
<1>10. QED
  BY <1>2, <1>5, <1>7, <1>8, <1>9 DEF T

-----------------------------------------------------------------------------
\* The inductive invariant holds when a session starts.
LEMMA IndInvInit == Init => IndInv
<1> SUFFICES ASSUME Init PROVE IndInv
  OBVIOUS
<1> USE SizesAssumption DEF Init
<1>1. N * MsgLen \in Nat /\ 0 * MsgLen = 0 /\ MsgLen * 0 = 0 /\ 0 % FieldLen = 0
  BY LenType
<1>2. TypeOK
  <2>1. buffer \in [1 .. BufferSize -> Bytes \cup {Blank}]
    OBVIOUS
  <2>2. handled \in Seq((1 .. N) \X (0 .. N)) /\ Len(handled) = 0
    OBVIOUS
  <2>3. QED
    BY <1>1, <2>1, <2>2 DEF TypeOK
<1>3. SentOK
  BY <1>1 DEF SentOK
<1>4. Len(handled) = 0 /\ got = 0
  OBVIOUS
<1>5. InStep /\ HandledOK /\ OnceInOrder /\ NearStuff
  BY <1>1, <1>4 DEF InStep, HandledOK, OnceInOrder, NearStuff
<1>6. WholeServed
  BY <1>1, <1>4 DEF WholeServed
<1>7. QED
  BY <1>2, <1>3, <1>5, <1>6 DEF IndInv

\* A step that neither reads nor calls the game logic, and wakes no session up.
LEMMA NothingRead ==
  ASSUME IndInv, UNCHANGED <<got, handled, alone>>, st' = "read" => st = "read"
  PROVE  HandledOK' /\ InStep' /\ OnceInOrder' /\ NearStuff' /\ WholeServed'
BY DEF IndInv, HandledOK, InStep, OnceInOrder, NearStuff, WholeServed

\* The client writes one whole message.
LEMMA WriteStep ==
  ASSUME IndInv, Write
  PROVE  IndInv'
<1> USE DEF Write
<1>1. PICK q \in 0 .. N : sent = q * MsgLen
  BY DEF IndInv, SentOK
<1>2. N \in Nat /\ q \in Int /\ q * MsgLen \in Int /\ N * MsgLen \in Int
  BY SizesAssumption, LenType
<1>3. q < N
  BY <1>1, <1>2, MulMono, LenType
<1>4. q * MsgLen + MsgLen <= N * MsgLen /\ (q + 1) * MsgLen = q * MsgLen + MsgLen
  BY <1>2, <1>3, MulMono, LenType
<1>5. SentOK'
  <2>1. q + 1 \in 0 .. N /\ sent' = (q + 1) * MsgLen
    BY <1>1, <1>2, <1>3, <1>4
  <2>2. QED
    BY <2>1 DEF SentOK
<1>6. sent' \in 0 .. N * MsgLen /\ got' \in 0 .. sent'
  BY <1>1, <1>2, <1>4, LenType DEF IndInv, TypeOK
<1>7. TypeOK'
  BY <1>6 DEF IndInv, TypeOK
<1>8. QED
  BY <1>5, <1>7, NothingRead DEF IndInv

\* However many bytes a read returns, the invariant is kept.
LEMMA ReceiveStep ==
  ASSUME IndInv, NEW n \in Reads, Receive(n)
  PROVE  IndInv'
<1>0. /\ n \in Nat \ {0} /\ got + n \in 1 .. sent /\ got \in Nat /\ sent \in Nat
      /\ TypeOK /\ SentOK
  BY ReadSize DEF IndInv
<1>1. /\ st = "read" /\ got' = got + n /\ alone' = (alone /\ n = MsgLen)
      /\ script' = script /\ sent' = sent
      /\ buffer' \in [1 .. BufferSize -> Bytes \cup {Blank}]
  BY <1>0, InputIs DEF Receive
<1>2. SentOK' /\ got' \in 0 .. sent' /\ alone' \in BOOLEAN
  BY <1>0, <1>1 DEF SentOK
<1>3. CASE st' # "read" /\ handled' = handled /\ gplayer' = gplayer
           /\ st' \in {"deaf", "closed"}
  <2>1. TypeOK'
    BY <1>0, <1>1, <1>2, <1>3 DEF TypeOK
  <2>2. HandledOK'
    <3> SUFFICES ASSUME NEW i \in 1 .. Len(handled)
                 PROVE  /\ (handled[i][1] - 1) * MsgLen + FieldLen <= got + n
                        /\ handled[i][2] # 0 => handled[i][2] * MsgLen <= got + n
      BY <1>1, <1>3 DEF HandledOK
    <3>1. /\ (handled[i][1] - 1) * MsgLen + FieldLen <= got
          /\ handled[i][2] # 0 => handled[i][2] * MsgLen <= got
      BY DEF IndInv, HandledOK
    <3>2. handled[i] \in (1 .. N) \X (0 .. N)
      BY <1>0, ElementOfSeq DEF TypeOK
    <3>3. /\ (handled[i][1] - 1) * MsgLen + FieldLen \in Int
          /\ handled[i][2] * MsgLen \in Int
      <4>1. handled[i][1] - 1 \in Int /\ handled[i][2] \in Int
        BY <3>2, SizesAssumption
      <4>2. \A x \in Int : x * MsgLen \in Int /\ x * MsgLen + FieldLen \in Int
        BY LenType
      <4>3. QED
        BY <4>1, <4>2
    <3>4. QED
      BY <1>0, <3>1, <3>3
  <2>3. InStep' /\ OnceInOrder' /\ NearStuff' /\ WholeServed'
    BY <1>3 DEF IndInv, InStep, OnceInOrder, NearStuff, WholeServed
  <2>4. QED
    BY <1>2, <2>1, <2>2, <2>3 DEF IndInv
<1>4. ASSUME Parses(Input(n)), HasPrototype(TypeOf(Input(n))),
             Handled(TypeOf(Input(n)), Content(Input(n)))
      PROVE  IndInv'
  <2> DEFINE k == TypeOf(Input(n))
             j == Content(Input(n))
  <2>1. (got + n) % FieldLen = 0 /\ Entry(k, j, n)
    BY <1>4, ReceivedEntry
  <2>2. handled' = Append(handled, <<k, j>>) /\ gplayer' = TRUE /\ st' = "read"
    BY <1>4 DEF Handled
  <2> HIDE DEF k, j
  <2>3. /\ handled' \in Seq((1 .. N) \X (0 .. N))
        /\ HandledOK' /\ OnceInOrder' /\ NearStuff' /\ WholeServed'
    BY <1>0, <1>1, <2>1, <2>2, EntryKeeps
  <2>4. TypeOK'
    BY <1>0, <1>1, <1>2, <2>2, <2>3 DEF TypeOK
  <2>5. InStep'
    BY <1>1, <2>1 DEF InStep
  <2>6. QED
    BY <1>2, <2>3, <2>4, <2>5 DEF IndInv
<1>5. QED
  BY <1>3, <1>4 DEF Receive, Act, StuffFails, Return, Close

\* The inductive invariant is kept by every step.
LEMMA IndInvStep == IndInv /\ [Next]_vars => IndInv'
<1> SUFFICES ASSUME IndInv, [Next]_vars PROVE IndInv'
  OBVIOUS
<1>1. CASE OthersEnter
  BY <1>1, NothingRead DEF OthersEnter, IndInv, TypeOK, SentOK
<1>2. CASE Lost
  BY <1>2, NothingRead DEF Lost, IndInv, TypeOK, SentOK
<1>3. CASE UNCHANGED vars
  BY <1>3, NothingRead DEF vars, IndInv, TypeOK, SentOK
<1>4. QED
  BY <1>1, <1>2, <1>3, WriteStep, ReceiveStep DEF Next, ReceiveSome

\* In every reachable state the stream satisfies its inductive invariant
\* (WorldSession.cpp:48-134).
THEOREM Invariance == Spec => []IndInv
BY IndInvInit, IndInvStep, PTL DEF Spec

\* Type correctness: the game logic is only called for a type the client sent
\* (WorldSession.cpp:73-79).
THEOREM TypeCorrect == Spec => []TypeOK
<1>1. IndInv => TypeOK
  BY DEF IndInv
<1>2. QED
  BY <1>1, Invariance, PTL

\* A session that reads on is in step with the stream, however TCP cuts it
\* (WorldSession.cpp:53-60).
THEOREM InStepCorrect == Spec => []InStep
<1>1. IndInv => InStep
  BY DEF IndInv
<1>2. QED
  BY <1>1, Invariance, PTL

\* No type and no stuff is acted on twice, nor out of order
\* (WorldSession.cpp:73-87).
THEOREM OnceInOrderCorrect == Spec => []OnceInOrder
<1>1. IndInv => OnceInOrder
  BY DEF IndInv
<1>2. QED
  BY <1>1, Invariance, PTL

\* A type is acted on with its own stuff, that of the message just before, or none
\* (WorldSession.cpp:54).
THEOREM NearStuffCorrect == Spec => []NearStuff
<1>1. IndInv => NearStuff
  BY DEF IndInv
<1>2. QED
  BY <1>1, Invariance, PTL

\* If every read returned exactly one message and the session still reads, each
\* message was handled with its own stuff (WorldSession.cpp:89-133).
THEOREM WholeServedCorrect == Spec => []WholeServed
<1>1. IndInv => WholeServed
  BY DEF IndInv
<1>2. QED
  BY <1>1, Invariance, PTL
=============================================================================
