--------------------------- MODULE TransferProofs ---------------------------
(***************************************************************************)
(* Proofs about the bytes of commands, for any number of targets and       *)
(* commands, any scatter lists and any sizes of headers and buffers.       *)
(***************************************************************************)
EXTENDS Transfer, WellFoundedInduction, TLAPS
-----------------------------------------------------------------------------
(* Where segments end.  Ends is a recursive function: that it exists and    *)
(* what it counts is shown by the least index at which it would not.        *)

LEMMA Least ==
  ASSUME NEW T \in SUBSET Nat, T # {}
  PROVE  \E x \in T : \A y \in T : x <= y
<1>1. PICK x \in T : \A y \in T : ~(<<y, x>> \in OpToRel(<, Nat))
  BY NatLessThanWellFounded, WFMin
<1>2. \A y \in T : ~(y < x)
  BY <1>1 DEF OpToRel
<1> QED  BY <1>2

(* f counts the bytes in the first m segments. *)
Counts(f, lens, m) == /\ f \in [0..m -> Nat]
                      /\ f[0] = 0
                      /\ \A j \in 1..m : f[j] = f[j - 1] + lens[j]

LEMMA CountExists ==
  ASSUME NEW lens \in Seq(Nat)
  PROVE  \A m \in 0..Len(lens) : \E f : Counts(f, lens, m)
<1> DEFINE T == {m \in 0..Len(lens) : ~\E f : Counts(f, lens, m)}
<1> SUFFICES ASSUME T # {} PROVE FALSE
  OBVIOUS
<1>1. PICK m \in T : \A y \in T : m <= y
  <2>1. T \in SUBSET Nat
    OBVIOUS
  <2> HIDE DEF T
  <2> QED  BY <2>1, Least
<1>2. CASE m = 0
  <2>1. Counts([x \in 0..0 |-> 0], lens, 0)
    BY DEF Counts
  <2> QED  BY <1>1, <1>2, <2>1
<1>3. CASE m # 0
  <2>1. m \in 1..Len(lens) /\ m - 1 \in 0..Len(lens) /\ m - 1 \notin T
    BY <1>1, <1>3
  <2>2. PICK f : Counts(f, lens, m - 1)
    BY <2>1
  <2> DEFINE g == [x \in 0..m |-> IF x = m THEN f[m - 1] + lens[m] ELSE f[x]]
  <2>3. lens[m] \in Nat /\ f \in [0..(m - 1) -> Nat] /\ f[0] = 0
    BY <2>1, <2>2 DEF Counts
  <2>4. g \in [0..m -> Nat] /\ g[0] = 0
    BY <2>1, <2>3
  <2>5. ASSUME NEW j \in 1..m PROVE g[j] = g[j - 1] + lens[j]
    <3>1. m \in Nat /\ j \in 0..m /\ j - 1 \in 0..m /\ j - 1 # m
      BY <2>1, <2>5
    <3>2. g[j - 1] = f[j - 1]
      BY <3>1
    <3>3. CASE j = m
      BY <3>1, <3>2, <3>3
    <3>4. CASE j # m
      <4>1. g[j] = f[j] /\ j \in 1..(m - 1)
        BY <3>1, <3>4
      <4>2. f[j] = f[j - 1] + lens[j]
        BY <2>2, <4>1 DEF Counts
      <4> QED  BY <3>2, <4>1, <4>2
    <3> QED  BY <3>3, <3>4
  <2> HIDE DEF g
  <2>6. Counts(g, lens, m)
    BY <2>4, <2>5 DEF Counts
  <2> QED  BY <1>1, <2>6
<1> QED  BY <1>2, <1>3

LEMMA EndsFixpoint ==
  ASSUME NEW lens \in Seq(Nat)
  PROVE  Ends(lens) = [j \in 0..Len(lens) |-> IF j = 0 THEN 0 ELSE Ends(lens)[j - 1] + lens[j]]
<1>1. PICK f : Counts(f, lens, Len(lens))
  BY CountExists
<1>2. f = [j \in 0..Len(lens) |-> IF j = 0 THEN 0 ELSE f[j - 1] + lens[j]]
  BY <1>1 DEF Counts
<1> QED  BY <1>2 DEF Ends

LEMMA EndsCounts == ASSUME NEW lens \in Seq(Nat) PROVE Counts(Ends(lens), lens, Len(lens))
<1>1. PICK E : E = Ends(lens)
  OBVIOUS
<1>2. E = [j \in 0..Len(lens) |-> IF j = 0 THEN 0 ELSE E[j - 1] + lens[j]]
  BY <1>1, EndsFixpoint
<1>3. Len(lens) \in Nat
  OBVIOUS
<1>4. DOMAIN E = 0..Len(lens) /\ \A j \in 0..Len(lens) : E[j] = IF j = 0 THEN 0 ELSE E[j - 1] + lens[j]
  BY <1>2
<1>5. \A m \in 0..Len(lens) : E[m] \in Nat
  <2> DEFINE T == {m \in 0..Len(lens) : E[m] \notin Nat}
  <2> SUFFICES ASSUME T # {} PROVE FALSE
    OBVIOUS
  <2>1. PICK m \in T : \A y \in T : m <= y
    <3>1. T \in SUBSET Nat
      OBVIOUS
    <3> HIDE DEF T
    <3> QED  BY <3>1, Least
  <2>2. m \in 1..Len(lens) /\ m - 1 \in 0..Len(lens)
    BY <1>4, <2>1
  <2>3. E[m - 1] \in Nat /\ lens[m] \in Nat /\ E[m] = E[m - 1] + lens[m]
    BY <1>4, <2>1, <2>2
  <2> QED  BY <2>1, <2>3
<1>6. E \in [0..Len(lens) -> Nat]
  BY <1>2, <1>5
<1>7. E[0] = 0 /\ \A j \in 1..Len(lens) : E[j] = E[j - 1] + lens[j]
  BY <1>3, <1>4
<1>8. Counts(E, lens, Len(lens))
  BY <1>6, <1>7 DEF Counts
<1> QED  BY <1>1, <1>8

LEMMA CountsMonotone ==
  ASSUME NEW n \in Nat, NEW lens \in [1..n -> Nat], NEW E, Counts(E, lens, n)
  PROVE  \A i, j \in 0..n : i <= j => E[i] <= E[j]
<1> SUFFICES ASSUME NEW i \in 0..n PROVE \A j \in 0..n : i <= j => E[i] <= E[j]
  OBVIOUS
<1>0. E \in [0..n -> Nat] /\ \A j \in 1..n : E[j] = E[j - 1] + lens[j]
  BY DEF Counts
<1> DEFINE T == {j \in 0..n : i <= j /\ ~(E[i] <= E[j])}
<1> SUFFICES ASSUME T # {} PROVE FALSE
  OBVIOUS
<1>1. PICK j \in T : \A y \in T : j <= y
  <2>1. T \in SUBSET Nat
    OBVIOUS
  <2> HIDE DEF T
  <2> QED  BY <2>1, Least
<1>2. j \in 0..n /\ i <= j /\ ~(E[i] <= E[j]) /\ E[i] \in Nat /\ E[j] \in Nat
  BY <1>0, <1>1
<1>3. j # i /\ j \in 1..n /\ j - 1 \in 0..n /\ i <= j - 1
  BY <1>2
<1>4. E[i] <= E[j - 1]
  BY <1>1, <1>3
<1>5. E[j] = E[j - 1] + lens[j] /\ lens[j] \in Nat /\ E[j - 1] \in Nat
  BY <1>0, <1>3
<1> QED  BY <1>2, <1>4, <1>5

(* Every byte of the transfer is in one segment. *)
LEMMA CountsLocate ==
  ASSUME NEW n \in Nat, NEW lens \in [1..n -> Nat], NEW E, Counts(E, lens, n),
         NEW q \in Nat, q < E[n]
  PROVE  \E k \in 1..n : E[k - 1] <= q /\ q < E[k]
<1>0. E \in [0..n -> Nat] /\ E[0] = 0
  BY DEF Counts
<1> DEFINE T == {j \in 0..n : q < E[j]}
<1>1. PICK k \in T : \A y \in T : k <= y
  <2>1. T \in SUBSET Nat /\ n \in T
    OBVIOUS
  <2> HIDE DEF T
  <2> QED  BY <2>1, Least
<1>2. k \in 1..n
  BY <1>0, <1>1
<1>3. k - 1 \in 0..n /\ k - 1 \notin T
  BY <1>1, <1>2
<1>4. E[k - 1] <= q
  BY <1>0, <1>3
<1> QED  BY <1>1, <1>2, <1>4

LEMMA SeqIsFunction ==
  ASSUME NEW lens \in Seq(Nat)
  PROVE  /\ Len(lens) \in Nat /\ lens \in [1..Len(lens) -> Nat]
         /\ DOMAIN lens = 1..Len(lens)
OBVIOUS

(* What the copies need to know of Ends. *)
LEMMA EndsFacts ==
  ASSUME NEW lens \in Seq(Nat)
  PROVE  /\ Bytes(lens) \in Nat /\ Ends(lens) \in [0..Len(lens) -> Nat]
         /\ \A j \in 1..Len(lens) : /\ Ends(lens)[j - 1] \in Nat /\ Ends(lens)[j] \in Nat
                                    /\ Ends(lens)[j] = Ends(lens)[j - 1] + lens[j]
                                    /\ Ends(lens)[j] <= Bytes(lens)
         /\ \A i, j \in 1..Len(lens) : i < j => Ends(lens)[i] <= Ends(lens)[j - 1]
         /\ \A q \in Nat : q < Bytes(lens) =>
              \E k \in 1..Len(lens) : Ends(lens)[k - 1] <= q /\ q < Ends(lens)[k]
<1>1. PICK E : E = Ends(lens)
  OBVIOUS
<1>2. PICK n : n = Len(lens)
  OBVIOUS
<1>3. n \in Nat /\ lens \in [1..n -> Nat] /\ Counts(E, lens, n) /\ Bytes(lens) = E[n]
  BY <1>1, <1>2, EndsCounts, SeqIsFunction DEF Bytes
<1>4. E \in [0..n -> Nat] /\ \A j \in 1..n : E[j] = E[j - 1] + lens[j]
  BY <1>3 DEF Counts
<1>5. \A i, j \in 0..n : i <= j => E[i] <= E[j]
  BY <1>3, CountsMonotone
<1>6. \A q \in Nat : q < E[n] => \E k \in 1..n : E[k - 1] <= q /\ q < E[k]
  BY <1>3, CountsLocate
<1>7. /\ \A j \in 1..n : E[j - 1] \in Nat /\ E[j] \in Nat /\ E[j] <= E[n]
      /\ \A i, j \in 1..n : i < j => E[i] <= E[j - 1]
      /\ E[n] \in Nat
  BY <1>3, <1>4, <1>5
<1> QED  BY <1>1, <1>2, <1>3, <1>4, <1>6, <1>7
-----------------------------------------------------------------------------
(* The copies *)

Flat == [0..(Room - 1) -> Byte]

(* A scatter list of the host. *)
Segmented(m) == /\ Lens(m) \in Scatter \cup {<<>>}
                /\ \A j \in DOMAIN m : m[j] \in Seq(Byte)

LEMMA ByteFacts ==
  ASSUME NEW k \in {"zero", "host", "reply", "sense", "head", "fixed"}, NEW c \in 0..Cmds,
         NEW i \in 0..Room
  PROVE  <<k, c, i>> \in Byte
BY DEF Byte

LEMMA SegmentedFacts ==
  ASSUME NEW m, Segmented(m)
  PROVE  /\ Lens(m) \in Seq(Nat) /\ DOMAIN m = 1..Len(Lens(m))
         /\ \A j \in DOMAIN m : /\ Lens(m)[j] = Len(m[j]) /\ Len(m[j]) \in Nat
                                /\ DOMAIN m[j] = 1..Len(m[j])
                                /\ \A i \in DOMAIN m[j] : m[j][i] \in Byte
<1>1. Lens(m) \in Seq(Nat)
  <2>1. Scatter \subseteq Seq(Nat) /\ <<>> \in Seq(Nat)
    BY TransferAssumption DEF TransferAssumption
  <2> QED  BY <2>1 DEF Segmented
<1>2. DOMAIN Lens(m) = DOMAIN m /\ \A j \in DOMAIN m : Lens(m)[j] = Len(m[j])
  BY DEF Lens
<1>3. DOMAIN m = 1..Len(Lens(m))
  BY <1>1, <1>2, SeqIsFunction
<1>4. ASSUME NEW j \in DOMAIN m
      PROVE  /\ Len(m[j]) \in Nat /\ DOMAIN m[j] = 1..Len(m[j])
             /\ \A i \in DOMAIN m[j] : m[j][i] \in Byte
  <2>1. m[j] \in Seq(Byte)
    BY <1>4 DEF Segmented
  <2> QED  BY <2>1
<1> QED  BY <1>1, <1>2, <1>3, <1>4

(* Of a scatter list that was issued, byte k is in the buffer and fits in   *)
(* an answer and behind a header.                                           *)
LEMMA InTransfer ==
  ASSUME NEW m, Segmented(m), NEW j \in DOMAIN m, NEW i \in DOMAIN m[j]
  PROVE  /\ Ends(Lens(m))[j - 1] \in Nat
         /\ Ends(Lens(m))[j - 1] + i \in 1..Bytes(Lens(m))
<1>1. j \in 1..Len(Lens(m)) /\ i \in 1..Lens(m)[j] /\ Lens(m) \in Seq(Nat)
  BY SegmentedFacts
<1>2. PICK E : E = Ends(Lens(m))
  OBVIOUS
<1>3. /\ E[j - 1] \in Nat /\ E[j] \in Nat /\ E[j] = E[j - 1] + Lens(m)[j]
      /\ E[j] <= Bytes(Lens(m)) /\ Bytes(Lens(m)) \in Nat
  BY <1>1, <1>2, EndsFacts
<1>4. PICK len \in Nat : len = Lens(m)[j]
  BY <1>1, SeqIsFunction
<1>5. PICK a \in Nat : a = E[j - 1]
  BY <1>3
<1>6. a + len <= Bytes(Lens(m)) /\ i \in 1..len /\ Bytes(Lens(m)) \in Nat
  BY <1>1, <1>3, <1>4, <1>5
<1>7. a + i \in 1..Bytes(Lens(m))
  BY <1>6
<1> QED  BY <1>2, <1>5, <1>7

LEMMA Fits ==
  ASSUME NEW lens \in Scatter
  PROVE  /\ Bytes(lens) \in 0..Room /\ UHeader + Bytes(lens) <= Room
         /\ AnswerHeader + Bytes(lens) <= Room
<1>1. Bytes(lens) \in Nat
  BY EndsFacts, TransferAssumption DEF TransferAssumption
<1> QED  BY <1>1, TransferAssumption DEF TransferAssumption

LEMMA IssuedFacts ==
  ASSUME NEW lens \in Scatter, NEW c \in Cmd
  PROVE  /\ Lens(Issued(c, lens)) = lens /\ Segmented(Issued(c, lens))
         /\ DOMAIN Issued(c, lens) = 1..Len(lens)
         /\ \A j \in 1..Len(lens) :
              /\ DOMAIN Issued(c, lens)[j] = 1..lens[j]
              /\ \A i \in 1..lens[j] : Issued(c, lens)[j][i] = <<"host", c, Ends(lens)[j - 1] + i>>
<1>1. lens \in Seq(Nat)
  BY TransferAssumption DEF TransferAssumption
<1>2. PICK n : n = Len(lens)
  OBVIOUS
<1>3. n \in Nat /\ lens \in [1..n -> Nat] /\ DOMAIN lens = 1..n
  BY <1>1, <1>2, SeqIsFunction
<1>4. /\ DOMAIN Issued(c, lens) = 1..n
      /\ \A j \in 1..n : Issued(c, lens)[j] = [i \in 1..lens[j] |-> <<"host", c, Ends(lens)[j - 1] + i>>]
  BY <1>3 DEF Issued
<1>5. ASSUME NEW j \in 1..n
      PROVE  /\ Issued(c, lens)[j] \in Seq(Byte) /\ Len(Issued(c, lens)[j]) = lens[j]
             /\ DOMAIN Issued(c, lens)[j] = 1..lens[j]
             /\ \A i \in 1..lens[j] : Issued(c, lens)[j][i] = <<"host", c, Ends(lens)[j - 1] + i>>
  <2>1. lens[j] \in Nat
    BY <1>3
  <2>2. /\ Ends(lens)[j - 1] \in Nat /\ Bytes(lens) \in Nat
        /\ Ends(lens)[j - 1] + lens[j] <= Bytes(lens)
    BY <1>1, <1>2, EndsFacts
  <2>3. \A i \in 1..lens[j] : Ends(lens)[j - 1] + i \in 0..Room
    <3>1. Bytes(lens) <= Room /\ Room \in Nat
      BY Fits, TransferAssumption DEF TransferAssumption
    <3>2. PICK a : a = Ends(lens)[j - 1]
      OBVIOUS
    <3>3. \A i \in 1..lens[j] : a + i \in 0..Room
      BY <2>1, <2>2, <3>1, <3>2
    <3> QED  BY <3>2, <3>3
  <2>4. c \in 0..Cmds
    BY DEF Cmd
  <2>5. \A i \in 1..lens[j] : <<"host", c, Ends(lens)[j - 1] + i>> \in Byte
    BY <2>3, <2>4, ByteFacts
  <2>6. Issued(c, lens)[j] \in [1..lens[j] -> Byte]
    BY <1>4, <2>5
  <2>7. Issued(c, lens)[j] \in Seq(Byte) /\ Len(Issued(c, lens)[j]) = lens[j]
    BY <2>1, <2>6
  <2> QED  BY <1>4, <2>7
<1>6. Lens(Issued(c, lens)) = lens
  <2>1. Lens(Issued(c, lens)) = [j \in 1..n |-> Len(Issued(c, lens)[j])]
    BY <1>4 DEF Lens
  <2>2. \A j \in 1..n : Len(Issued(c, lens)[j]) = lens[j]
    BY <1>5
  <2> QED  BY <1>3, <2>1, <2>2
<1>7. Segmented(Issued(c, lens))
  BY <1>4, <1>5, <1>6 DEF Segmented
<1> QED  BY <1>2, <1>4, <1>5, <1>6, <1>7

(* copy_from_user_sg keeps the shape of the list and fills its first n bytes. *)
LEMMA CopyFromFacts ==
  ASSUME NEW m, Segmented(m), NEW buf \in Flat, NEW n \in 0..Bytes(Lens(m)),
         AnswerHeader + n <= Room
  PROVE  /\ Lens(copy_from_user_sg(m, buf, AnswerHeader, n)) = Lens(m)
         /\ Segmented(copy_from_user_sg(m, buf, AnswerHeader, n))
         /\ DOMAIN copy_from_user_sg(m, buf, AnswerHeader, n) = DOMAIN m
         /\ \A j \in DOMAIN m :
              /\ DOMAIN copy_from_user_sg(m, buf, AnswerHeader, n)[j] = DOMAIN m[j]
              /\ \A i \in DOMAIN m[j] : LET k == Ends(Lens(m))[j - 1] + i
                   IN  copy_from_user_sg(m, buf, AnswerHeader, n)[j][i] =
                         IF k <= n THEN buf[AnswerHeader + k - 1] ELSE m[j][i]
<1>1. PICK r : r = copy_from_user_sg(m, buf, AnswerHeader, n)
  OBVIOUS
<1>2. PICK E : E = Ends(Lens(m))
  OBVIOUS
<1>3. /\ DOMAIN r = DOMAIN m
      /\ \A j \in DOMAIN m : r[j] = [i \in DOMAIN m[j] |->
           IF E[j - 1] + i <= n THEN buf[AnswerHeader + (E[j - 1] + i) - 1] ELSE m[j][i]]
  BY <1>1, <1>2 DEF copy_from_user_sg
<1>4. ASSUME NEW j \in DOMAIN m
      PROVE  r[j] \in Seq(Byte) /\ Len(r[j]) = Len(m[j])
  <2>1. DOMAIN m[j] = 1..Len(m[j]) /\ Len(m[j]) \in Nat /\ \A i \in DOMAIN m[j] : m[j][i] \in Byte
    BY <1>4, SegmentedFacts
  <2>2. ASSUME NEW i \in DOMAIN m[j], E[j - 1] + i <= n
        PROVE  buf[AnswerHeader + (E[j - 1] + i) - 1] \in Byte
    <3>1. E[j - 1] + i \in 1..Bytes(Lens(m)) /\ E[j - 1] \in Nat
      BY <1>2, <1>4, <2>2, InTransfer
    <3>2. i \in Nat /\ Bytes(Lens(m)) \in Nat
      BY <2>1, <2>2, EndsFacts, SegmentedFacts
    <3>3. PICK k : k = E[j - 1] + i
      OBVIOUS
    <3>4. k \in Nat /\ 1 <= k /\ k <= n /\ n \in Nat
      BY <2>2, <3>1, <3>2, <3>3
    <3>5. AnswerHeader + k - 1 \in 0..(Room - 1)
      BY <3>4, TransferAssumption DEF TransferAssumption
    <3> QED  BY <3>3, <3>5 DEF Flat
  <2>3. r[j] \in [1..Len(m[j]) -> Byte]
    BY <1>3, <1>4, <2>1, <2>2
  <2> QED  BY <2>1, <2>3
<1>5. Lens(r) = Lens(m)
  BY <1>3, <1>4 DEF Lens
<1>6. Segmented(r)
  BY <1>3, <1>4, <1>5 DEF Segmented
<1> QED  BY <1>1, <1>2, <1>3, <1>5, <1>6

(* copy_to_user_sg puts the bytes of an issued list in order behind the     *)
(* header, and leaves the rest.                                             *)
LEMMA CopyToFacts ==
  ASSUME NEW lens \in Scatter, NEW c \in Cmd, NEW buf \in Flat
  PROVE  LET r == copy_to_user_sg(buf, UHeader, Issued(c, lens))
         IN  /\ r \in Flat
             /\ \A i \in 1..Bytes(lens) : r[UHeader + i - 1] = <<"host", c, i>>
             /\ \A p \in 0..(Room - 1) : r[p] = buf[p] \/ \E i \in 0..Room : r[p] = <<"host", c, i>>
<1>0. /\ lens \in Seq(Nat) /\ UHeader \in Nat /\ Room \in Nat /\ Bytes(lens) \in Nat
      /\ UHeader + Bytes(lens) <= Room /\ c \in 0..Cmds
  BY Fits, TransferAssumption DEF TransferAssumption, Cmd
<1>1. PICK m : m = Issued(c, lens)
  OBVIOUS
<1>2. Lens(m) = lens /\ DOMAIN m = 1..Len(lens)
  BY <1>1, IssuedFacts
<1>3. PICK E : E = Ends(lens)
  OBVIOUS
<1>4. PICK r : r = copy_to_user_sg(buf, UHeader, m)
  OBVIOUS
<1>5. DOMAIN r = 0..(Room - 1)
  BY <1>4 DEF copy_to_user_sg, Flat
<1>6. ASSUME NEW p \in 0..(Room - 1), p \notin UHeader..(UHeader + Bytes(lens) - 1)
      PROVE  r[p] = buf[p]
  BY <1>2, <1>4, <1>6 DEF copy_to_user_sg, Flat
<1>7. ASSUME NEW i \in 1..Bytes(lens)
      PROVE  /\ r[UHeader + i - 1] = <<"host", c, i>> /\ UHeader + i - 1 \in 0..(Room - 1)
             /\ i \in 0..Room
  <2>1. PICK p : p = UHeader + i - 1
    OBVIOUS
  <2>2. /\ p \in UHeader..(UHeader + Bytes(lens) - 1) /\ p \in 0..(Room - 1)
        /\ p - UHeader \in Nat /\ p - UHeader < Bytes(lens) /\ p - UHeader + 1 = i
        /\ i \in 0..Room
    BY <1>0, <1>7, <2>1
  <2>3. PICK q : q = p - UHeader
    OBVIOUS
  <2>4. \E k \in 1..Len(lens) : E[k - 1] <= q /\ q < E[k]
    BY <1>0, <1>3, <2>2, <2>3, EndsFacts
  <2> DEFINE j == CHOOSE k \in DOMAIN m : q >= E[k - 1] /\ q < E[k]
  <2>5. \E k \in DOMAIN m : q >= E[k - 1] /\ q < E[k]
    <3>1. \A k \in 1..Len(lens) : E[k - 1] \in Nat
      BY <1>0, <1>3, EndsFacts
    <3> QED  BY <1>2, <2>2, <2>3, <2>4, <3>1
  <2>6. j \in DOMAIN m /\ q >= E[j - 1] /\ q < E[j]
    BY <2>5
  <2>7. r[p] = m[j][q - E[j - 1] + 1]
    BY <1>2, <1>3, <1>4, <2>2, <2>3 DEF copy_to_user_sg, Flat
  <2> HIDE DEF j
  <2>8. E[j - 1] \in Nat /\ E[j] = E[j - 1] + lens[j] /\ lens[j] \in Nat
    BY <1>0, <1>2, <1>3, <2>6, EndsFacts, SeqIsFunction
  <2>9. q - E[j - 1] + 1 \in 1..lens[j] /\ E[j - 1] + (q - E[j - 1] + 1) = i
    BY <2>2, <2>3, <2>6, <2>8
  <2>10. \A x \in 1..lens[j] : m[j][x] = <<"host", c, E[j - 1] + x>>
    BY <1>1, <1>2, <1>3, <2>6, IssuedFacts
  <2> QED  BY <2>1, <2>2, <2>7, <2>9, <2>10
<1>8. ASSUME NEW p \in 0..(Room - 1)
      PROVE  r[p] = buf[p] \/ \E i \in 0..Room : r[p] = <<"host", c, i>>
  <2>1. CASE p \in UHeader..(UHeader + Bytes(lens) - 1)
    <3>1. PICK i : i = p - UHeader + 1
      OBVIOUS
    <3>2. i \in 1..Bytes(lens) /\ p = UHeader + i - 1
      BY <1>0, <1>8, <2>1, <3>1
    <3> QED  BY <1>7, <3>2
  <2> QED  BY <1>6, <2>1
<1>9. r \in Flat
  <2>1. \A p \in 0..(Room - 1) : r[p] \in Byte
    BY <1>0, <1>8, ByteFacts DEF Flat
  <2>2. r = [p \in 0..(Room - 1) |-> r[p]]
    BY <1>4 DEF copy_to_user_sg, Flat
  <2> QED  BY <2>1, <2>2 DEF Flat
<1> QED  BY <1>1, <1>4, <1>7, <1>8, <1>9

LEMMA FillFacts ==
  ASSUME NEW buf \in Flat, NEW kind \in {"reply", "sense"}, NEW c \in Cmd, NEW n \in Nat,
         AnswerHeader + n <= Room
  PROVE  LET r == Fill(buf, AnswerHeader, kind, c, n)
         IN  /\ r \in Flat
             /\ \A k \in 1..n : r[AnswerHeader + k - 1] = <<kind, c, k>>
             /\ \A p \in 0..(Room - 1) :
                  p \notin AnswerHeader..(AnswerHeader + n - 1) => r[p] = buf[p]
             /\ \A p \in 0..(Room - 1) : r[p] = buf[p] \/ \E k \in 0..Room : r[p] = <<kind, c, k>>
<1>1. PICK r : r = Fill(buf, AnswerHeader, kind, c, n)
  OBVIOUS
<1>2. r = [p \in 0..(Room - 1) |-> IF p \in AnswerHeader..(AnswerHeader + n - 1)
                                   THEN <<kind, c, p - AnswerHeader + 1>> ELSE buf[p]]
  BY <1>1 DEF Fill, Flat
<1>3. AnswerHeader \in Nat /\ Room \in Nat /\ c \in 0..Cmds
  BY TransferAssumption DEF TransferAssumption, Cmd
<1>4. \A p \in AnswerHeader..(AnswerHeader + n - 1) : p - AnswerHeader + 1 \in 0..Room
  BY <1>3
<1>5. \A p \in AnswerHeader..(AnswerHeader + n - 1) : <<kind, c, p - AnswerHeader + 1>> \in Byte
  BY <1>3, <1>4, ByteFacts
<1>6. r \in Flat
  BY <1>2, <1>5 DEF Flat
<1>7. ASSUME NEW k \in 1..n PROVE r[AnswerHeader + k - 1] = <<kind, c, k>>
  <2>1. PICK p : p = AnswerHeader + k - 1
    OBVIOUS
  <2>2. /\ p \in AnswerHeader..(AnswerHeader + n - 1) /\ p \in 0..(Room - 1)
        /\ p - AnswerHeader + 1 = k
    BY <1>3, <1>7, <2>1
  <2> QED  BY <1>2, <2>1, <2>2
<1>8. /\ \A p \in 0..(Room - 1) : p \notin AnswerHeader..(AnswerHeader + n - 1) => r[p] = buf[p]
      /\ \A p \in 0..(Room - 1) : r[p] = buf[p] \/ \E k \in 0..Room : r[p] = <<kind, c, k>>
  BY <1>2, <1>4
<1> QED  BY <1>1, <1>6, <1>7, <1>8
-----------------------------------------------------------------------------
(* The inductive invariant: what holds of a command ... *)

Runs == [status : Status, len : 0..Room]

HostTypes == /\ life \in [Cmd -> {"new", "SUBMITTED", "RECEIVED"} \cup Ended]
             /\ dir \in [Cmd -> {"I", "O"}]
             /\ DOMAIN segs = Cmd /\ \A c \in Cmd : Segmented(segs[c])
             /\ sense \in [Cmd -> [1..SenseLen -> Byte]]
             /\ torn \in SUBSET Cmd
             /\ took \in [Cmd -> Runs]

(* Once issued it has one of the scatter lists. *)
Placed(c) == life[c] # "new" => Lens(segs[c]) \in Scatter

(* Only a good answer to a read, or one that failed half-way, changes the   *)
(* host's buffer.                                                           *)
Untouched(c) == segs[c] # Issued(c, Lens(segs[c])) =>
                  dir[c] = "I" /\ (c \in torn \/ (life[c] = "done" /\ took[c].status = 0))

HostInv == HostTypes /\ \A c \in Cmd : Placed(c) /\ Untouched(c)

(* ... and of a target. *)

Busy == {"claim", "data", "serve", "reply"}

TargetTypes == /\ pc \in [Target -> {"down", "get"} \cup Busy]
               /\ held \in [Target -> 0..Cmds]
               /\ bufflen \in [Target -> 0..Room]
               /\ rbuf \in [Target -> Flat]
               /\ ran \in [Target -> Runs]
               /\ DOMAIN seen = Cmd

(* The command it holds was issued, and its size is known until the data of *)
(* a write is used up.                                                      *)
Fetched(t) == pc[t] \in Busy =>
                /\ held[t] \in Cmd /\ life[held[t]] # "new"
                /\ bufflen[t] = IF pc[t] = "reply" /\ dir[held[t]] = "O" THEN 0
                                                                        ELSE Size(held[t])
                /\ pc[t] = "data" => dir[held[t]] = "O"

(* The data of a write that is served is the host's. *)
DataIn(t) == pc[t] = "serve" /\ dir[held[t]] = "O" =>
  \A i \in 1..Size(held[t]) : rbuf[t][UHeader + i - 1] = <<"host", held[t], i>>

(* Sense data that an answer announces is there. *)
SenseIn(t) == pc[t] = "reply" /\ ran[t].status = 130 =>
  \A i \in 1..SenseLen : rbuf[t][AnswerHeader + i - 1] = <<"sense", held[t], i>>

(* So is the reply, and nothing that could be taken for it. *)
ReplyIn(t) == pc[t] = "reply" /\ ran[t].status = 0 /\ dir[held[t]] = "I" =>
  \A k \in 1..(Room - AnswerHeader) :
    rbuf[t][AnswerHeader + k - 1] = <<"reply", held[t], k>> <=> k <= ran[t].len

(* Bytes of earlier replies in the buffer are of commands that have ended,  *)
(* and not of the one that is going to be served.                           *)
NoStale(t) == \A p \in 0..(Room - 1) : \A c \in Cmd, k \in 0..Room :
  rbuf[t][p] = <<"reply", c, k>> =>
    \/ pc[t] = "reply" /\ c = held[t]
    \/ life[c] \in Ended /\ (pc[t] \in {"claim", "data", "serve"} => c # held[t])

Good(t) == Fetched(t) /\ DataIn(t) /\ SenseIn(t) /\ ReplyIn(t) /\ NoStale(t)

TargetInv == TargetTypes /\ \A t \in Target : Good(t)

LEMMA HostInvInit == Init => HostInv
<1> SUFFICES ASSUME Init PROVE HostInv
  OBVIOUS
<1>0. <<>> \in Seq(Nat) /\ DOMAIN <<>> = {}
  OBVIOUS
<1>1. Lens(<<>>) = <<>> /\ \A c \in Cmd : Issued(c, <<>>) = <<>>
  BY DEF Lens, Issued
<1>2. Segmented(<<>>)
  BY <1>1 DEF Segmented
<1>3. Zero \in Byte /\ NoRun \in Runs
  BY TransferAssumption DEF TransferAssumption, Zero, Byte, NoRun, Runs, Status
<1>4. HostTypes
  BY <1>2, <1>3 DEF Init, HostTypes, set_sensedata, Ended
<1> QED  BY <1>1, <1>4 DEF Init, HostInv, Placed, Untouched

LEMMA TargetInvInit == Init => TargetInv
<1> SUFFICES ASSUME Init PROVE TargetInv
  OBVIOUS
<1>1. Zero \in Byte /\ NoRun \in Runs /\ 0 \in 0..Cmds /\ 0 \in 0..Room
  BY TransferAssumption DEF TransferAssumption, Zero, Byte, NoRun, Runs, Status
<1>2. TargetTypes
  BY <1>1 DEF Init, TargetTypes, Flat
<1>3. ASSUME NEW t \in Target
      PROVE  Fetched(t) /\ DataIn(t) /\ SenseIn(t) /\ ReplyIn(t) /\ NoStale(t)
  BY <1>3 DEF Init, Fetched, DataIn, SenseIn, ReplyIn, NoStale, Busy, Zero
<1> QED  BY <1>2, <1>3 DEF TargetInv, Good

(* What no step undoes: a command that was issued keeps its direction and   *)
(* the shape of its buffer, and one that has ended is not touched.          *)
Steady(c) == /\ life[c] # "new" => /\ life'[c] # "new" /\ dir'[c] = dir[c]
                                   /\ Lens(segs'[c]) = Lens(segs[c])
             /\ life[c] \in Ended => /\ life'[c] = life[c] /\ segs'[c] = segs[c]
                                     /\ sense'[c] = sense[c] /\ took'[c] = took[c]

HostStep == HostInv' /\ \A c \in Cmd : Steady(c)

LEMMA HostStays == ASSUME HostInv, UNCHANGED hostVars PROVE HostStep
BY DEF hostVars, HostInv, HostTypes, Placed, Untouched, HostStep, Steady

SenseBuf == [1..SenseLen -> Byte]

LEMMA FixedSense ==
  /\ set_sensedata \in SenseBuf /\ set_sensedata_illegal \in SenseBuf
  /\ \A old \in SenseBuf : set_sensedata_commfailure(old) \in SenseBuf
<1>1. Zero \in Byte /\ <<"fixed", 0, 0>> \in Byte /\ <<"fixed", 0, 1>> \in Byte
  BY TransferAssumption DEF TransferAssumption, Zero, Byte
<1> QED  BY <1>1 DEF SenseBuf, set_sensedata, set_sensedata_illegal, set_sensedata_commfailure

LEMMA IssueKeeps ==
  ASSUME HostInv, NEW c \in Cmd, NEW d \in {"I", "O"}, NEW lens \in Scatter,
         QueueAppend(c, d, lens) \/ QueueRefuse(c, d, lens)
  PROVE  HostStep
<1>1. PICK l \in {"SUBMITTED", "refused"} : Issue(c, d, lens, l)
  BY DEF QueueAppend, QueueRefuse
<1>2. /\ life[c] = "new" /\ life' = [life EXCEPT ![c] = l] /\ dir' = [dir EXCEPT ![c] = d]
      /\ segs' = [segs EXCEPT ![c] = Issued(c, lens)]
  BY <1>1 DEF Issue
<1>3. torn' = torn /\ took' = took
  BY DEF QueueAppend, QueueRefuse
<1>4. sense' \in [Cmd -> [1..SenseLen -> Byte]] /\ \A b \in Cmd \ {c} : sense'[b] = sense[b]
  <2>1. set_sensedata_commfailure(sense[c]) \in [1..SenseLen -> Byte]
    BY FixedSense DEF SenseBuf, HostInv, HostTypes
  <2> QED  BY <2>1 DEF QueueAppend, QueueRefuse, HostInv, HostTypes
<1>5. Lens(Issued(c, lens)) = lens /\ Segmented(Issued(c, lens))
  BY IssuedFacts
<1>6. /\ segs'[c] = Issued(c, lens) /\ DOMAIN segs' = Cmd
      /\ \A b \in Cmd \ {c} : segs'[b] = segs[b] /\ life'[b] = life[b] /\ dir'[b] = dir[b]
      /\ life'[c] = l /\ dir'[c] = d
  BY <1>2 DEF HostInv, HostTypes
<1>7. HostTypes'
  BY <1>2, <1>3, <1>4, <1>5, <1>6 DEF HostInv, HostTypes, Ended
<1>8. ASSUME NEW b \in Cmd PROVE Placed(b)' /\ Untouched(b)'
  <2>1. CASE b = c
    BY <1>5, <1>6, <2>1 DEF Placed, Untouched
  <2>2. CASE b # c
    BY <1>3, <1>6, <2>2 DEF HostInv, Placed, Untouched
  <2> QED  BY <2>1, <2>2
<1>9. ASSUME NEW b \in Cmd PROVE Steady(b)
  BY <1>2, <1>3, <1>4, <1>6 DEF Steady, Ended
<1> QED  BY <1>7, <1>8, <1>9 DEF HostStep, HostInv

LEMMA CopySense ==
  ASSUME NEW old \in SenseBuf, NEW buf \in Flat, NEW n \in 0..SenseLen
  PROVE  /\ copy_sense(old, buf, AnswerHeader, n) \in SenseBuf
         /\ copy_sense(old, buf, AnswerHeader, SenseLen) =
              [i \in 1..SenseLen |-> buf[AnswerHeader + i - 1]]
<1>1. \A i \in 1..SenseLen : AnswerHeader + i - 1 \in 0..(Room - 1)
  BY TransferAssumption DEF TransferAssumption
<1>2. \A i \in 1..SenseLen : buf[AnswerHeader + i - 1] \in Byte /\ old[i] \in Byte
  BY <1>1 DEF Flat, SenseBuf
<1>3. copy_sense(old, buf, AnswerHeader, n) \in SenseBuf
  BY <1>2 DEF copy_sense, SenseBuf
<1>4. copy_sense(old, buf, AnswerHeader, SenseLen) = [i \in 1..SenseLen |-> buf[AnswerHeader + i - 1]]
  BY DEF copy_sense
<1> QED  BY <1>3, <1>4

(* The sense buffer that an answer leaves. *)
LEMMA SenseFromFacts ==
  ASSUME TargetInv, NEW t \in Target, NEW old \in SenseBuf
  PROVE  /\ SenseFrom(t, old) \in SenseBuf
         /\ ran[t].status = 0 => SenseFrom(t, old) = set_sensedata
         /\ ran[t].status = 2 => SenseFrom(t, old) = set_sensedata_illegal
         /\ ran[t].status = 130 =>
              SenseFrom(t, old) = [i \in 1..SenseLen |-> rbuf[t][AnswerHeader + i - 1]]
<1>1. ran[t].status \in {0, 2, 130} /\ rbuf[t] \in Flat
  BY DEF TargetInv, TargetTypes, Runs, Status
<1>2. SenseLen \in 0..SenseLen
  BY TransferAssumption DEF TransferAssumption
<1>3. PICK s : s = copy_sense(old, rbuf[t], AnswerHeader, SenseLen)
  OBVIOUS
<1>4. s \in SenseBuf /\ s = [i \in 1..SenseLen |-> rbuf[t][AnswerHeader + i - 1]]
  BY <1>1, <1>2, <1>3, CopySense
<1>5. CASE ran[t].status = 0
  BY <1>5, FixedSense DEF SenseFrom
<1>6. CASE ran[t].status = 2
  BY <1>6, FixedSense DEF SenseFrom
<1>7. CASE ran[t].status = 130
  <2>1. SenseFrom(t, old) = s
    BY <1>3, <1>7 DEF SenseFrom
  <2> QED  BY <1>4, <1>7, <2>1
<1> QED  BY <1>1, <1>5, <1>6, <1>7

(* Destroy and Abort end commands that are queued. *)
LEMMA EndKeeps ==
  ASSUME HostInv, Destroy \/ \E c \in Cmd : Abort(c)
  PROVE  HostStep
<1>1. UNCHANGED <<dir, segs, torn, took>>
  BY DEF Destroy, Abort
<1>2. /\ life' \in [Cmd -> {"new", "SUBMITTED", "RECEIVED"} \cup Ended]
      /\ \A c \in Cmd : \/ life'[c] = life[c] /\ sense'[c] = sense[c]
                        \/ Queued(c) /\ life'[c] \in {"refused", "aborted"}
  <2>1. CASE Destroy
    BY <2>1 DEF Destroy, HostInv, HostTypes, Ended
  <2>2. ASSUME NEW c \in Cmd, Abort(c)
        PROVE  /\ life' \in [Cmd -> {"new", "SUBMITTED", "RECEIVED"} \cup Ended]
               /\ sense' = sense
               /\ \A b \in Cmd : \/ life'[b] = life[b]
                                 \/ Queued(b) /\ life'[b] = "aborted"
    BY <2>2 DEF Abort, HostInv, HostTypes, Ended
  <2> QED  BY <2>1, <2>2 DEF HostInv, HostTypes, SenseBuf
<1>3. sense' \in [Cmd -> SenseBuf]
  <2>1. \A c \in Cmd : sense[c] \in SenseBuf
    BY DEF HostInv, HostTypes, SenseBuf
  <2>2. \A c \in Cmd : set_sensedata_commfailure(sense[c]) \in SenseBuf
    BY <2>1, FixedSense
  <2>3. sense \in [Cmd -> SenseBuf]
    BY DEF HostInv, HostTypes, SenseBuf
  <2> QED  BY <2>2, <2>3 DEF Destroy, Abort
<1>4. HostTypes'
  BY <1>1, <1>2, <1>3 DEF HostInv, HostTypes, SenseBuf
<1>5. ASSUME NEW c \in Cmd PROVE Placed(c)' /\ Untouched(c)' /\ Steady(c)
  <2>1. CASE life'[c] = life[c] /\ sense'[c] = sense[c]
    BY <1>1, <2>1 DEF HostInv, Placed, Untouched, Steady
  <2>2. CASE Queued(c) /\ life'[c] \in {"refused", "aborted"}
    BY <1>1, <2>2 DEF Queued, Ended, HostInv, Placed, Untouched, Steady
  <2> QED  BY <1>2, <2>1, <2>2
<1> QED  BY <1>4, <1>5 DEF HostStep, HostInv

LEMMA ReceiveTaskHost ==
  ASSUME HostInv, TargetInv, NEW t \in Target, ReceiveTask(t)
  PROVE  HostStep
<1>1. UNCHANGED <<dir, segs, sense, torn, took>> /\ pc[t] = "claim"
  BY DEF ReceiveTask, Goes
<1>2. held[t] \in Cmd
  BY <1>1 DEF TargetInv, Good, Fetched, Busy
<1>3. /\ life' \in [Cmd -> {"new", "SUBMITTED", "RECEIVED"} \cup Ended]
      /\ \A c \in Cmd : life'[c] = life[c] \/ (Queued(c) /\ life'[c] = "RECEIVED")
  BY <1>2 DEF ReceiveTask, task_of_cmd, HostInv, HostTypes
<1>4. HostTypes'
  BY <1>1, <1>3 DEF HostInv, HostTypes
<1>5. ASSUME NEW c \in Cmd PROVE Placed(c)' /\ Untouched(c)' /\ Steady(c)
  BY <1>1, <1>3 DEF Queued, Ended, HostInv, Placed, Untouched, Steady
<1> QED  BY <1>4, <1>5 DEF HostStep, HostInv

(* What an answer, whole or in part, does to a command that is queued. *)
LEMMA AnswerKeeps ==
  ASSUME HostInv, NEW c \in Cmd, Queued(c), dir' = dir,
         NEW m, DOMAIN segs' = Cmd, segs'[c] = m, \A b \in Cmd \ {c} : segs'[b] = segs[b],
         Segmented(m), Lens(m) = Lens(segs[c]),
         NEW s \in SenseBuf, sense' = [sense EXCEPT ![c] = s],
         NEW r \in Runs, took' = [took EXCEPT ![c] = r],
         NEW l \in {"SUBMITTED", "RECEIVED", "done"}, life' = [life EXCEPT ![c] = l],
         torn' \in SUBSET Cmd, torn \subseteq torn',
         m # segs[c] => dir[c] = "I" /\ (c \in torn' \/ (l = "done" /\ r.status = 0))
  PROVE  HostStep
<1>1. /\ life[c] \in {"SUBMITTED", "RECEIVED"} /\ life'[c] = l /\ segs'[c] = m
      /\ took'[c] = r /\ sense'[c] = s /\ dir'[c] = dir[c]
  BY DEF Queued, HostInv, HostTypes
<1>2. \A b \in Cmd \ {c} : /\ life'[b] = life[b] /\ segs'[b] = segs[b] /\ sense'[b] = sense[b]
                           /\ took'[b] = took[b] /\ dir'[b] = dir[b]
  BY DEF HostInv, HostTypes
<1>3. HostTypes'
  <2>1. /\ life' \in [Cmd -> {"new", "SUBMITTED", "RECEIVED"} \cup Ended]
        /\ sense' \in [Cmd -> [1..SenseLen -> Byte]] /\ took' \in [Cmd -> Runs]
        /\ dir' \in [Cmd -> {"I", "O"}] /\ DOMAIN segs' = Cmd
    BY DEF HostInv, HostTypes, SenseBuf, Ended
  <2>2. \A b \in Cmd : Segmented(segs'[b])
    BY <1>1, <1>2 DEF HostInv, HostTypes
  <2> QED  BY <2>1, <2>2 DEF HostTypes
<1>4. ASSUME NEW b \in Cmd, b # c PROVE Placed(b)' /\ Untouched(b)' /\ Steady(b)
  BY <1>2, <1>4 DEF HostInv, Placed, Untouched, Steady
<1>5. Placed(c)' /\ Untouched(c)' /\ Steady(c)
  BY <1>1 DEF HostInv, Placed, Untouched, Steady, Ended
<1> QED  BY <1>3, <1>4, <1>5 DEF HostStep, HostInv

(* A good answer to a command whose data is copied: it reads, and all of    *)
(* its bytes are in the target's buffer.                                    *)
LEMMA AnswerFits ==
  ASSUME HostInv, TargetInv, NEW t \in Target, pc[t] = "reply"
  PROVE  /\ held[t] \in Cmd /\ life[held[t]] # "new" /\ rbuf[t] \in Flat /\ ran[t] \in Runs
         /\ Segmented(segs[held[t]]) /\ Lens(segs[held[t]]) \in Scatter
         /\ Size(held[t]) \in Nat /\ AnswerHeader + Size(held[t]) <= Room
         /\ bufflen[t] > 0 => dir[held[t]] = "I"
<1>1. held[t] \in Cmd /\ life[held[t]] # "new" /\ (bufflen[t] > 0 => dir[held[t]] = "I")
  BY DEF TargetInv, Good, Fetched, Busy, HostInv, HostTypes
<1>2. rbuf[t] \in Flat /\ ran[t] \in Runs
  BY DEF TargetInv, TargetTypes
<1>3. Segmented(segs[held[t]]) /\ Lens(segs[held[t]]) \in Scatter
  BY <1>1 DEF HostInv, HostTypes, Placed
<1>4. Size(held[t]) \in Nat /\ AnswerHeader + Size(held[t]) <= Room
  BY <1>3, Fits DEF Size
<1> QED  BY <1>1, <1>2, <1>3, <1>4

LEMMA AnswerHost ==
  ASSUME HostInv, TargetInv, NEW t \in Target, Answer(t)
  PROVE  HostStep
<1>1. PICK c : c = held[t]
  OBVIOUS
<1>2. pc[t] = "reply" /\ Queued(c)
  BY <1>1 DEF Answer, Goes, task_of_cmd
<1>3. /\ c \in Cmd /\ rbuf[t] \in Flat /\ ran[t] \in Runs /\ Segmented(segs[c])
      /\ Size(c) \in Nat /\ AnswerHeader + Size(c) <= Room /\ (bufflen[t] > 0 => dir[c] = "I")
  BY <1>1, <1>2, AnswerFits
<1> DEFINE m == IF ran[t].status = 0 /\ bufflen[t] > 0
                THEN copy_from_user_sg(segs[c], rbuf[t], AnswerHeader, Size(c)) ELSE segs[c]
           s == SenseFrom(t, sense[c])
<1>4. /\ segs'[c] = m /\ DOMAIN segs' = Cmd /\ \A b \in Cmd \ {c} : segs'[b] = segs[b]
      /\ sense' = [sense EXCEPT ![c] = s] /\ took' = [took EXCEPT ![c] = ran[t]]
      /\ life' = [life EXCEPT ![c] = "done"]
      /\ dir' = dir /\ torn' = torn
  BY <1>1, <1>3 DEF Answer, HostInv, HostTypes
<1>5. s \in SenseBuf
  <2>1. sense[c] \in SenseBuf
    BY <1>3 DEF HostInv, HostTypes, SenseBuf
  <2> QED  BY <2>1, SenseFromFacts
<1>6. Segmented(m) /\ Lens(m) = Lens(segs[c])
  <2>1. Size(c) = Bytes(Lens(segs[c])) /\ Size(c) \in 0..Bytes(Lens(segs[c]))
    BY <1>3 DEF Size
  <2> QED  BY <1>3, <2>1, CopyFromFacts
<1>7. m # segs[c] => dir[c] = "I" /\ ran[t].status = 0
  BY <1>3
<1>8. torn' \in SUBSET Cmd /\ torn \subseteq torn'
  BY <1>4 DEF HostInv, HostTypes
<1> HIDE DEF m, s
<1> QED  BY <1>2, <1>3, <1>4, <1>5, <1>6, <1>7, <1>8, AnswerKeeps

LEMMA AnswerFaultHost ==
  ASSUME HostInv, TargetInv, NEW t \in Target, AnswerFault(t)
  PROVE  HostStep
<1>1. PICK c : c = held[t]
  OBVIOUS
<1>2. pc[t] = "reply" /\ Queued(c)
  BY <1>1 DEF AnswerFault, task_of_cmd
<1>3. /\ c \in Cmd /\ rbuf[t] \in Flat /\ Segmented(segs[c])
      /\ Size(c) \in Nat /\ AnswerHeader + Size(c) <= Room /\ (bufflen[t] > 0 => dir[c] = "I")
  BY <1>1, <1>2, AnswerFits
<1>4. /\ sense[c] \in SenseBuf /\ took[c] \in Runs /\ life[c] \in {"SUBMITTED", "RECEIVED"}
      /\ torn' \in SUBSET Cmd /\ torn \subseteq torn' /\ c \in torn'
      /\ life' = [life EXCEPT ![c] = life[c]] /\ took' = [took EXCEPT ![c] = took[c]]
      /\ dir' = dir
  BY <1>1, <1>2, <1>3 DEF HostInv, HostTypes, SenseBuf, AnswerFault, Queued
<1>5. ASSUME bufflen[t] > 0, NEW n \in 0..(Size(c) - 1),
             segs' = [segs EXCEPT ![c] = copy_from_user_sg(@, rbuf[t], AnswerHeader, n)],
             sense' = sense
      PROVE  HostStep
  <2>1. PICK m : m = copy_from_user_sg(segs[c], rbuf[t], AnswerHeader, n)
    OBVIOUS
  <2>2. n \in 0..Bytes(Lens(segs[c])) /\ AnswerHeader + n <= Room
    <3>1. n \in Nat /\ n <= Size(c)
      BY <1>3, <1>5
    <3> QED  BY <1>3, <3>1, TransferAssumption DEF TransferAssumption, Size
  <2>3. Segmented(m) /\ Lens(m) = Lens(segs[c])
    BY <1>3, <2>1, <2>2, CopyFromFacts
  <2>4. /\ segs'[c] = m /\ DOMAIN segs' = Cmd /\ \A b \in Cmd \ {c} : segs'[b] = segs[b]
        /\ sense' = [sense EXCEPT ![c] = sense[c]]
    BY <1>3, <1>5, <2>1 DEF HostInv, HostTypes
  <2> QED  BY <1>2, <1>3, <1>4, <1>5, <2>3, <2>4, AnswerKeeps
<1>6. ASSUME NEW n \in 0..(SenseLen - 1),
             sense' = [sense EXCEPT ![c] = copy_sense(@, rbuf[t], AnswerHeader, n)],
             segs' = segs
      PROVE  HostStep
  <2>1. PICK s : s = copy_sense(sense[c], rbuf[t], AnswerHeader, n)
    OBVIOUS
  <2>2. n \in 0..SenseLen
    BY TransferAssumption DEF TransferAssumption
  <2>3. s \in SenseBuf
    BY <1>3, <1>4, <2>1, <2>2, CopySense
  <2>4. sense' = [sense EXCEPT ![c] = s] /\ DOMAIN segs' = Cmd /\ Segmented(segs[c])
    BY <1>3, <1>6, <2>1 DEF HostInv, HostTypes
  <2> QED  BY <1>2, <1>3, <1>4, <1>6, <2>3, <2>4, AnswerKeeps
<1> QED  BY <1>1, <1>5, <1>6 DEF AnswerFault

LEMMA HostNext == ASSUME HostInv, TargetInv, [Next]_vars PROVE HostStep
<1>1. CASE Host
  BY <1>1, IssueKeeps, EndKeeps DEF Host
<1>2. ASSUME NEW t \in Target, Loop(t) PROVE HostStep
  <2>1. CASE Answer(t)
    BY <2>1, AnswerHost
  <2>2. CASE AnswerFault(t)
    BY <2>2, AnswerFaultHost
  <2>3. CASE ReceiveTask(t)
    BY <2>3, ReceiveTaskHost
  <2>4. CASE \/ Start(t) \/ Exit(t) \/ GetTask(t) \/ ReceiveData(t) \/ RunIn(t) \/ RunOut(t)
             \/ AnswerDropped(t)
    <3>1. UNCHANGED hostVars
      BY <2>4 DEF Start, Exit, GetTask, ReceiveData, RunIn, RunOut, AnswerDropped
    <3> QED  BY <3>1, HostStays
  <2> QED  BY <1>2, <2>1, <2>2, <2>3, <2>4 DEF Loop
<1>3. CASE UNCHANGED vars
  BY <1>3, HostStays DEF vars
<1> QED  BY <1>1, <1>2, <1>3 DEF Next
-----------------------------------------------------------------------------
(* What a target knows stays true while others, and the host, take steps. *)

LEMMA OthersKeep ==
  ASSUME TargetInv, HostStep, NEW u \in Target, pc'[u] = pc[u], held'[u] = held[u],
         bufflen'[u] = bufflen[u], rbuf'[u] = rbuf[u], ran'[u] = ran[u]
  PROVE  Good(u)'
<1>1. Good(u) /\ \A c \in Cmd : Steady(c)
  BY DEF TargetInv, HostStep
<1>2. \A c \in Cmd : life[c] \in Ended => life'[c] \in Ended
  BY <1>1 DEF Steady
<1>3. NoStale(u)'
  BY <1>1, <1>2 DEF Good, NoStale
<1>4. ASSUME pc[u] \in Busy
      PROVE  /\ held[u] \in Cmd /\ life'[held[u]] # "new" /\ dir'[held[u]] = dir[held[u]]
             /\ Size(held[u])' = Size(held[u])
  <2>1. held[u] \in Cmd /\ life[held[u]] # "new"
    BY <1>1, <1>4 DEF Good, Fetched
  <2> QED  BY <1>1, <2>1 DEF Steady, Size
<1>5. Fetched(u)'
  BY <1>1, <1>4 DEF Good, Fetched, Size
<1>6. DataIn(u)'
  BY <1>1, <1>4 DEF Good, DataIn, Busy, Size
<1>7. SenseIn(u)' /\ ReplyIn(u)'
  BY <1>1, <1>4 DEF Good, SenseIn, ReplyIn, Busy
<1> QED  BY <1>3, <1>5, <1>6, <1>7 DEF Good

LEMMA StartKeeps ==
  ASSUME TargetInv, NEW t \in Target, Start(t)
  PROVE  TargetTypes' /\ Good(t)'
<1>1. /\ pc[t] = "down" /\ pc' = [pc EXCEPT ![t] = "get"]
      /\ UNCHANGED <<life, held, bufflen, rbuf, ran, seen>>
  BY DEF Start, Goes, hostVars
<1>2. pc'[t] = "get" /\ TargetTypes'
  BY <1>1 DEF TargetInv, TargetTypes
<1>3. Fetched(t)' /\ DataIn(t)' /\ SenseIn(t)' /\ ReplyIn(t)'
  BY <1>2 DEF Fetched, DataIn, SenseIn, ReplyIn, Busy
<1>4. NoStale(t)'
  BY <1>1, <1>2 DEF TargetInv, Good, NoStale
<1> QED  BY <1>2, <1>3, <1>4 DEF Good

LEMMA GoneKeeps ==
  ASSUME TargetInv, NEW t \in Target, Gone(t), seen' = seen
  PROVE  TargetTypes' /\ Good(t)'
<1>1. Zero \in Byte /\ NoRun \in Runs /\ 0 \in 0..Cmds /\ 0 \in 0..Room
  BY TransferAssumption DEF TransferAssumption, Zero, Byte, NoRun, Runs, Status
<1>2. TargetTypes'
  BY <1>1 DEF Gone, TargetInv, TargetTypes, Flat
<1>3. pc'[t] = "down" /\ rbuf'[t] = [p \in 0..(Room - 1) |-> Zero]
  BY DEF Gone, TargetInv, TargetTypes
<1>4. Fetched(t)' /\ DataIn(t)' /\ SenseIn(t)' /\ ReplyIn(t)'
  BY <1>3 DEF Fetched, DataIn, SenseIn, ReplyIn, Busy
<1>5. NoStale(t)'
  BY <1>3 DEF NoStale, Zero
<1> QED  BY <1>2, <1>4, <1>5 DEF Good

LEMMA GetTaskKeeps ==
  ASSUME HostInv, TargetInv, NEW t \in Target, GetTask(t)
  PROVE  TargetTypes' /\ Good(t)'
<1>1. /\ pc[t] = "get" /\ pc' = [pc EXCEPT ![t] = "claim"]
      /\ UNCHANGED <<life, dir, segs, rbuf, ran, seen>>
  BY DEF GetTask, Goes, hostVars
<1>2. PICK c \in Cmd : /\ life[c] = "SUBMITTED" /\ held' = [held EXCEPT ![t] = c]
                       /\ bufflen' = [bufflen EXCEPT ![t] = Size(c)]
  BY DEF GetTask
<1>3. Size(c) \in 0..Room /\ c \in 0..Cmds
  BY <1>2, Fits DEF HostInv, Placed, Size, Cmd
<1>4. TargetTypes'
  BY <1>1, <1>2, <1>3 DEF TargetInv, TargetTypes, Busy
<1>5. pc'[t] = "claim" /\ held'[t] = c /\ bufflen'[t] = Size(c)
  BY <1>1, <1>2 DEF TargetInv, TargetTypes
<1>6. Fetched(t)' /\ DataIn(t)' /\ SenseIn(t)' /\ ReplyIn(t)'
  BY <1>1, <1>2, <1>5 DEF Fetched, DataIn, SenseIn, ReplyIn, Size
<1>7. NoStale(t)'
  BY <1>1, <1>2, <1>5 DEF TargetInv, Good, NoStale, Ended
<1> QED  BY <1>4, <1>6, <1>7 DEF Good

LEMMA ReceiveTaskKeeps ==
  ASSUME HostInv, TargetInv, NEW t \in Target, ReceiveTask(t), HostStep
  PROVE  TargetTypes' /\ Good(t)'
<1>1. PICK to \in {"data", "serve"} :
        /\ pc[t] = "claim" /\ pc' = [pc EXCEPT ![t] = to] /\ (to = "data" <=> dir[held[t]] = "O")
        /\ UNCHANGED <<dir, segs, held, bufflen, rbuf, ran, seen>>
  BY DEF ReceiveTask, Goes
<1>2. TargetTypes' /\ pc'[t] = to
  BY <1>1 DEF TargetInv, TargetTypes, Busy
<1>3. \A c \in Cmd : /\ life[c] # "new" => life'[c] # "new"
                     /\ life[c] \in Ended => life'[c] \in Ended
  BY DEF HostStep, Steady
<1>4. held[t] \in Cmd /\ life[held[t]] # "new" /\ bufflen[t] = Size(held[t])
  BY <1>1 DEF TargetInv, Good, Fetched, Busy
<1>5. Fetched(t)'
  BY <1>1, <1>2, <1>3, <1>4 DEF Fetched, Size
<1>6. DataIn(t)' /\ SenseIn(t)' /\ ReplyIn(t)'
  BY <1>1, <1>2 DEF DataIn, SenseIn, ReplyIn
<1>7. NoStale(t)'
  BY <1>1, <1>2, <1>3 DEF TargetInv, Good, NoStale
<1> QED  BY <1>2, <1>5, <1>6, <1>7 DEF Good

LEMMA HeaderFacts ==
  ASSUME NEW buf \in Flat, NEW c \in Cmd
  PROVE  LET r == scsitap_task_to_user(buf, c)
         IN  r \in Flat /\ \A p \in 0..(Room - 1) : r[p] = buf[p] \/ r[p] = <<"head", c, p>>
<1>1. PICK r : r = scsitap_task_to_user(buf, c)
  OBVIOUS
<1>2. r = [p \in 0..(Room - 1) |-> IF p < UHeader THEN <<"head", c, p>> ELSE buf[p]]
  BY <1>1 DEF scsitap_task_to_user, Flat
<1>3. c \in 0..Cmds /\ \A p \in 0..(Room - 1) : p \in 0..Room
  BY TransferAssumption DEF TransferAssumption, Cmd
<1>4. \A p \in 0..(Room - 1) : <<"head", c, p>> \in Byte
  BY <1>3, ByteFacts
<1>5. r \in Flat
  BY <1>2, <1>4 DEF Flat
<1> QED  BY <1>1, <1>2, <1>5

LEMMA ReceiveDataKeeps ==
  ASSUME HostInv, TargetInv, NEW t \in Target, ReceiveData(t)
  PROVE  TargetTypes' /\ Good(t)'
<1>1. PICK c : c = held[t]
  OBVIOUS
<1>2. /\ pc[t] = "data" /\ pc' = [pc EXCEPT ![t] = "serve"] /\ life[c] = "RECEIVED"
      /\ UNCHANGED <<life, dir, segs, held, bufflen, ran, seen>>
  BY <1>1 DEF ReceiveData, Goes, hostVars
<1>3. c \in Cmd /\ dir[c] = "O" /\ rbuf[t] \in Flat /\ bufflen[t] = Size(c)
  BY <1>1, <1>2 DEF TargetInv, TargetTypes, Good, Fetched, Busy
<1>4. PICK lens : lens = Lens(segs[c])
  OBVIOUS
<1>5. lens \in Scatter /\ segs[c] = Issued(c, lens) /\ Size(c) = Bytes(lens)
  BY <1>2, <1>3, <1>4 DEF HostInv, Placed, Untouched, Size
<1>6. PICK b : b = scsitap_task_to_user(rbuf[t], c)
  OBVIOUS
<1>7. b \in Flat /\ \A p \in 0..(Room - 1) : b[p] = rbuf[t][p] \/ b[p] = <<"head", c, p>>
  BY <1>3, <1>6, HeaderFacts
<1>8. PICK r : r = copy_to_user_sg(b, UHeader, Issued(c, lens))
  OBVIOUS
<1>9. /\ r \in Flat
      /\ \A i \in 1..Bytes(lens) : r[UHeader + i - 1] = <<"host", c, i>>
      /\ \A p \in 0..(Room - 1) : r[p] = b[p] \/ \E i \in 0..Room : r[p] = <<"host", c, i>>
  BY <1>3, <1>5, <1>7, <1>8, CopyToFacts
<1>10. rbuf' = [rbuf EXCEPT ![t] = r]
  BY <1>1, <1>5, <1>6, <1>8 DEF ReceiveData
<1>11. TargetTypes' /\ pc'[t] = "serve" /\ rbuf'[t] = r /\ held'[t] = c
  BY <1>1, <1>2, <1>9, <1>10 DEF TargetInv, TargetTypes, Busy
<1>12. Fetched(t)'
  BY <1>2, <1>3, <1>11 DEF Fetched, Size
<1>13. DataIn(t)'
  <2>1. \A i \in 1..Size(c)' : r[UHeader + i - 1] = <<"host", c, i>>
    BY <1>2, <1>5, <1>9 DEF Size
  <2> QED  BY <1>11, <2>1 DEF DataIn, Size
<1>14. SenseIn(t)' /\ ReplyIn(t)'
  BY <1>11 DEF SenseIn, ReplyIn
<1>15. NoStale(t)'
  <2>1. \A p \in 0..(Room - 1) : \A d \in Cmd, k \in 0..Room :
           r[p] = <<"reply", d, k>> => rbuf[t][p] = <<"reply", d, k>>
    BY <1>7, <1>9
  <2>2. \A p \in 0..(Room - 1) : \A d \in Cmd, k \in 0..Room :
           rbuf[t][p] = <<"reply", d, k>> => life[d] \in Ended /\ d # c
    BY <1>1, <1>2 DEF TargetInv, Good, NoStale
  <2> QED  BY <1>2, <1>11, <2>1, <2>2 DEF NoStale
<1> QED  BY <1>11, <1>12, <1>13, <1>14, <1>15 DEF Good

LEMMA RunInKeeps ==
  ASSUME HostInv, TargetInv, NEW t \in Target, RunIn(t)
  PROVE  TargetTypes' /\ Good(t)'
<1>1. PICK c : c = held[t]
  OBVIOUS
<1>2. /\ pc[t] = "serve" /\ pc' = [pc EXCEPT ![t] = "reply"] /\ dir[c] = "I"
      /\ UNCHANGED <<life, dir, segs, held, bufflen, seen>>
  BY <1>1 DEF RunIn, Goes, hostVars
<1>3. c \in Cmd /\ life[c] # "new" /\ rbuf[t] \in Flat /\ bufflen[t] = Size(c)
  BY <1>1, <1>2 DEF TargetInv, TargetTypes, Good, Fetched, Busy
<1>4. PICK s \in Status, n \in 0..(Room - UHeader) :
        /\ ran' = [ran EXCEPT ![t] = [status |-> s, len |-> n]]
        /\ rbuf' = [rbuf EXCEPT ![t] = IF s < 128 THEN Fill(@, AnswerHeader, "reply", c, n)
                                       ELSE Fill(@, AnswerHeader, "sense", c, SenseLen)]
  BY <1>1 DEF RunIn
<1>5. /\ n \in Nat /\ n \in 0..Room /\ AnswerHeader + n <= Room /\ SenseLen \in Nat
      /\ AnswerHeader + SenseLen <= Room /\ Room \in Nat /\ AnswerHeader \in Nat \ {0}
  BY TransferAssumption DEF TransferAssumption
<1>6. PICK r : r = IF s < 128 THEN Fill(rbuf[t], AnswerHeader, "reply", c, n)
                              ELSE Fill(rbuf[t], AnswerHeader, "sense", c, SenseLen)
  OBVIOUS
<1>7. r \in Flat
  BY <1>3, <1>5, <1>6, FillFacts
<1>8. /\ TargetTypes' /\ pc'[t] = "reply" /\ rbuf'[t] = r /\ held'[t] = c
      /\ ran'[t].status = s /\ ran'[t].len = n
  BY <1>1, <1>2, <1>4, <1>5, <1>6, <1>7 DEF TargetInv, TargetTypes, Busy, Runs
<1>9. Fetched(t)'
  BY <1>2, <1>3, <1>8 DEF Fetched, Size
<1>10. DataIn(t)'
  BY <1>8 DEF DataIn
<1>11. SenseIn(t)'
  <2>1. s = 130 => \A i \in 1..SenseLen : r[AnswerHeader + i - 1] = <<"sense", c, i>>
    BY <1>3, <1>5, <1>6, FillFacts
  <2> QED  BY <1>8, <2>1 DEF SenseIn
<1>12. \A p \in 0..(Room - 1) : \A d \in Cmd, k \in 0..Room :
         rbuf[t][p] = <<"reply", d, k>> => life[d] \in Ended /\ d # c
  BY <1>1, <1>2 DEF TargetInv, Good, NoStale
<1>13. ReplyIn(t)'
  <2> SUFFICES ASSUME s = 0, NEW k \in 1..(Room - AnswerHeader)
               PROVE  r[AnswerHeader + k - 1] = <<"reply", c, k>> <=> k <= n
    BY <1>8 DEF ReplyIn
  <2>1. r = Fill(rbuf[t], AnswerHeader, "reply", c, n)
    BY <1>6
  <2>2. CASE k <= n
    BY <1>3, <1>5, <2>1, <2>2, FillFacts
  <2>3. CASE ~(k <= n)
    <3>1. PICK p : p = AnswerHeader + k - 1
      OBVIOUS
    <3>2. /\ p \in 0..(Room - 1) /\ p \notin AnswerHeader..(AnswerHeader + n - 1)
          /\ k \in 0..Room
      BY <1>5, <2>3, <3>1
    <3>3. r[p] = rbuf[t][p]
      BY <1>3, <1>5, <2>1, <3>2, FillFacts
    <3> QED  BY <1>3, <1>12, <2>3, <3>1, <3>2, <3>3
  <2> QED  BY <2>2, <2>3
<1>14. NoStale(t)'
  <2>1. \A p \in 0..(Room - 1) :
          \/ r[p] = rbuf[t][p]
          \/ \E k \in 0..Room : r[p] = <<"reply", c, k>> \/ r[p] = <<"sense", c, k>>
    <3>1. PICK kind \in {"reply", "sense"}, i \in Nat :
            AnswerHeader + i <= Room /\ r = Fill(rbuf[t], AnswerHeader, kind, c, i)
      BY <1>5, <1>6
    <3>2. \A p \in 0..(Room - 1) : r[p] = rbuf[t][p] \/ \E k \in 0..Room : r[p] = <<kind, c, k>>
      BY <1>3, <3>1, FillFacts
    <3> QED  BY <3>2
  <2>2. \A p \in 0..(Room - 1) : \A d \in Cmd, k \in 0..Room :
          r[p] = <<"reply", d, k>> => d = c \/ life[d] \in Ended
    BY <1>12, <2>1
  <2> QED  BY <1>2, <1>8, <2>2 DEF NoStale
<1> QED  BY <1>8, <1>9, <1>10, <1>11, <1>13, <1>14 DEF Good

LEMMA RunOutKeeps ==
  ASSUME HostInv, TargetInv, NEW t \in Target, RunOut(t)
  PROVE  TargetTypes' /\ Good(t)'
<1>1. PICK c : c = held[t]
  OBVIOUS
<1>2. /\ pc[t] = "serve" /\ pc' = [pc EXCEPT ![t] = "reply"] /\ dir[c] = "O"
      /\ bufflen' = [bufflen EXCEPT ![t] = 0] /\ UNCHANGED <<life, dir, segs, held>>
  BY <1>1 DEF RunOut, Goes, hostVars
<1>3. c \in Cmd /\ life[c] # "new" /\ rbuf[t] \in Flat
  BY <1>1, <1>2 DEF TargetInv, TargetTypes, Good, Fetched, Busy
<1>4. PICK s \in Status :
        /\ ran' = [ran EXCEPT ![t] = [status |-> s, len |-> 0]]
        /\ rbuf' = [rbuf EXCEPT ![t] = IF s < 128 THEN @
                                       ELSE Fill(@, AnswerHeader, "sense", c, SenseLen)]
  BY <1>1 DEF RunOut
<1>5. /\ SenseLen \in Nat /\ AnswerHeader + SenseLen <= Room /\ 0 \in 0..Room
  BY TransferAssumption DEF TransferAssumption
<1>6. PICK r : r = IF s < 128 THEN rbuf[t] ELSE Fill(rbuf[t], AnswerHeader, "sense", c, SenseLen)
  OBVIOUS
<1>7. r \in Flat
  BY <1>3, <1>5, <1>6, FillFacts
<1>8. /\ TargetTypes' /\ pc'[t] = "reply" /\ rbuf'[t] = r /\ held'[t] = c
      /\ ran'[t].status = s /\ bufflen'[t] = 0
  <2>1. DOMAIN seen' = Cmd
    <3>1. \E w : seen' = [seen EXCEPT ![held[t]] = @ \cup {w}]
      BY DEF RunOut
    <3> QED  BY <3>1 DEF TargetInv, TargetTypes
  <2> QED  BY <1>1, <1>2, <1>4, <1>5, <1>6, <1>7, <2>1 DEF TargetInv, TargetTypes, Busy, Runs
<1>9. Fetched(t)' /\ DataIn(t)' /\ ReplyIn(t)'
  BY <1>2, <1>3, <1>8 DEF Fetched, DataIn, ReplyIn
<1>10. SenseIn(t)'
  <2>1. s = 130 => \A i \in 1..SenseLen : r[AnswerHeader + i - 1] = <<"sense", c, i>>
    BY <1>3, <1>5, <1>6, FillFacts
  <2> QED  BY <1>8, <2>1 DEF SenseIn
<1>11. NoStale(t)'
  <2>1. \A p \in 0..(Room - 1) : r[p] = rbuf[t][p] \/ \E k \in 0..Room : r[p] = <<"sense", c, k>>
    BY <1>3, <1>5, <1>6, FillFacts
  <2>2. \A p \in 0..(Room - 1) : \A d \in Cmd, k \in 0..Room :
          r[p] = <<"reply", d, k>> => life[d] \in Ended
    BY <1>2, <2>1 DEF TargetInv, Good, NoStale
  <2> QED  BY <1>2, <1>8, <2>2 DEF NoStale
<1> QED  BY <1>8, <1>9, <1>10, <1>11 DEF Good

(* An answer, accepted or dropped, ends the serving of a command, which     *)
(* then has ended.                                                          *)
LEMMA AnswerKeepsTarget ==
  ASSUME HostInv, TargetInv, NEW t \in Target, Answer(t) \/ AnswerDropped(t), HostStep
  PROVE  TargetTypes' /\ Good(t)'
<1>1. /\ pc[t] = "reply" /\ pc' = [pc EXCEPT ![t] = "get"]
      /\ UNCHANGED <<held, bufflen, rbuf, ran, seen>>
  BY DEF Answer, AnswerDropped, Goes
<1>2. TargetTypes' /\ pc'[t] = "get"
  BY <1>1 DEF TargetInv, TargetTypes
<1>3. held[t] \in Cmd /\ life[held[t]] # "new"
  BY <1>1, AnswerFits
<1>4. life'[held[t]] \in Ended
  <2>1. CASE Answer(t)
    BY <1>3, <2>1 DEF Answer, HostInv, HostTypes, Ended
  <2>2. CASE AnswerDropped(t)
    BY <1>3, <2>2 DEF AnswerDropped, hostVars, task_of_cmd, Queued, HostInv, HostTypes
  <2> QED  BY <2>1, <2>2
<1>5. \A c \in Cmd : life[c] \in Ended => life'[c] \in Ended
  BY DEF HostStep, Steady
<1>6. Fetched(t)' /\ DataIn(t)' /\ SenseIn(t)' /\ ReplyIn(t)'
  BY <1>2 DEF Fetched, DataIn, SenseIn, ReplyIn, Busy
<1>7. NoStale(t)'
  BY <1>1, <1>2, <1>4, <1>5 DEF TargetInv, Good, NoStale
<1> QED  BY <1>2, <1>6, <1>7 DEF Good

LEMMA TargetNext == ASSUME HostInv, TargetInv, HostStep, [Next]_vars PROVE TargetInv'
<1>1. ASSUME UNCHANGED <<targetVars, seen>> PROVE TargetInv'
  <2>1. TargetTypes'
    BY <1>1 DEF TargetInv, TargetTypes, targetVars
  <2>2. \A u \in Target : Good(u)'
    BY <1>1, OthersKeep DEF targetVars
  <2> QED  BY <2>1, <2>2 DEF TargetInv
<1>2. CASE Host \/ UNCHANGED vars
  <2>1. UNCHANGED <<targetVars, seen>>
    BY <1>2 DEF Host, QueueAppend, QueueRefuse, Abort, Destroy, vars
  <2> QED  BY <1>1, <2>1
<1>3. ASSUME NEW t \in Target, Loop(t) PROVE TargetInv'
  <2>1. TargetTypes' /\ Good(t)'
    <3>1. CASE Exit(t) \/ AnswerFault(t)
      BY <3>1, GoneKeeps DEF Exit, AnswerFault
    <3> QED  BY <1>3, <3>1, StartKeeps, GetTaskKeeps, ReceiveTaskKeeps, ReceiveDataKeeps,
                RunInKeeps, RunOutKeeps, AnswerKeepsTarget DEF Loop
  <2>2. ASSUME NEW u \in Target, u # t
        PROVE  /\ pc'[u] = pc[u] /\ held'[u] = held[u] /\ bufflen'[u] = bufflen[u]
               /\ rbuf'[u] = rbuf[u] /\ ran'[u] = ran[u]
    <3> USE <2>2 DEF TargetInv, TargetTypes
    <3>1. CASE Exit(t) \/ AnswerFault(t)
      BY <3>1 DEF Exit, AnswerFault, Gone
    <3>2. CASE Start(t) \/ GetTask(t) \/ ReceiveTask(t) \/ AnswerDropped(t) \/ Answer(t)
      BY <3>2 DEF Start, GetTask, ReceiveTask, AnswerDropped, Answer, Goes
    <3>3. CASE ReceiveData(t)
      BY <3>3 DEF ReceiveData, Goes
    <3>4. CASE RunIn(t)
      BY <3>4 DEF RunIn, Goes
    <3>5. CASE RunOut(t)
      BY <3>5 DEF RunOut, Goes
    <3> QED  BY <1>3, <3>1, <3>2, <3>3, <3>4, <3>5 DEF Loop
  <2>3. \A u \in Target : Good(u)'
    BY <2>1, <2>2, OthersKeep
  <2> QED  BY <2>1, <2>3 DEF TargetInv
<1> QED  BY <1>2, <1>3 DEF Next
-----------------------------------------------------------------------------
(* What has come of it: the data that engines were given, and what a        *)
(* command that is done holds.                                              *)

Wrote(c) == /\ \A w \in seen[c] : \A i \in DOMAIN w : i <= Size(c) => w[i] = <<"host", c, i>>
            /\ life[c] = "new" => seen[c] = {}

Read(c) == life[c] = "done" /\ dir[c] = "I" /\ took[c].status = 0 =>
  \A j \in DOMAIN segs[c] : \A i \in DOMAIN segs[c][j] :
    segs[c][j][i] = <<"reply", c, Ends(Lens(segs[c]))[j - 1] + i>> <=>
      Ends(Lens(segs[c]))[j - 1] + i <= took[c].len

Sensed(c) == life[c] = "done" =>
  /\ took[c].status = 0 => sense[c] = set_sensedata
  /\ took[c].status = 2 => sense[c] = set_sensedata_illegal
  /\ took[c].status = 130 => sense[c] = [i \in 1..SenseLen |-> <<"sense", c, i>>]

(* The sense buffer is as the mid layer cleared it until an answer comes    *)
(* for the command, all of it or a part, and so is what lies between the    *)
(* bytes that set_sensedata_commfailure sets.                               *)
Clean(c) == /\ life[c] = "new" => c \notin torn
            /\ c \notin torn /\ life[c] \notin Ended => sense[c] = set_sensedata
            /\ c \notin torn /\ life[c] = "refused" =>
                 sense[c] = set_sensedata_commfailure(set_sensedata)

TransferInv == HostInv /\ TargetInv /\ \A c \in Cmd : Wrote(c) /\ Read(c) /\ Sensed(c) /\ Clean(c)

LEMMA SizeNat ==
  ASSUME TransferInv, NEW c \in Cmd, life[c] # "new"
  PROVE  Size(c) \in Nat
<1>1. Lens(segs[c]) \in Scatter
  BY DEF TransferInv, HostInv, Placed
<1> QED  BY <1>1, Fits DEF Size

(* RunOut gives the engine what ReceiveData fetched, and what lies behind.  *)
LEMMA WroteNext ==
  ASSUME TransferInv, HostStep, [Next]_vars, NEW c \in Cmd
  PROVE  Wrote(c)'
<1>0. Wrote(c) /\ Steady(c) /\ DOMAIN seen = Cmd
  BY DEF TransferInv, HostStep, TargetInv, TargetTypes
<1>1. CASE seen'[c] = seen[c]
  <2>1. CASE life[c] = "new"
    BY <1>0, <1>1, <2>1 DEF Wrote
  <2>2. CASE life[c] # "new"
    <3>1. Size(c)' = Size(c) /\ life'[c] # "new"
      BY <1>0, <2>2 DEF Steady, Size
    <3> QED  BY <1>0, <1>1, <3>1 DEF Wrote
  <2> QED  BY <2>1, <2>2
<1>2. ASSUME NEW t \in Target, RunOut(t), c = held[t] PROVE Wrote(c)'
  <2>1. pc[t] = "serve" /\ dir[c] = "O" /\ UNCHANGED <<life, segs>>
    BY <1>2 DEF RunOut, Goes, hostVars
  <2>2. /\ life[c] # "new" /\ bufflen[t] = Size(c)
        /\ \A i \in 1..Size(c) : rbuf[t][UHeader + i - 1] = <<"host", c, i>>
    BY <1>2, <2>1 DEF TransferInv, TargetInv, Good, Fetched, DataIn, Busy
  <2>3. PICK n \in 0..(Room - UHeader) :
          seen' = [seen EXCEPT ![c] = @ \cup {Given(rbuf[t], UHeader, n)}]
    BY <1>2 DEF RunOut
  <2>4. ASSUME NEW i \in DOMAIN Given(rbuf[t], UHeader, n), i <= Size(c)
        PROVE  Given(rbuf[t], UHeader, n)[i] = <<"host", c, i>>
    <3>1. i \in 1..n /\ Given(rbuf[t], UHeader, n)[i] = rbuf[t][UHeader + i - 1]
      BY <2>4 DEF Given
    <3>2. Size(c) \in Nat
      BY <2>2, SizeNat
    <3>3. i \in 1..Size(c)
      BY <2>4, <3>1, <3>2
    <3> QED  BY <2>2, <3>1, <3>3
  <2>5. seen'[c] = seen[c] \cup {Given(rbuf[t], UHeader, n)}
    BY <1>0, <2>3
  <2>6. Size(c)' = Size(c)
    BY <2>1 DEF Size
  <2>7. \A w \in seen'[c] : \A i \in DOMAIN w : i <= Size(c) => w[i] = <<"host", c, i>>
    BY <1>0, <2>4, <2>5 DEF Wrote
  <2> QED  BY <2>1, <2>2, <2>6, <2>7 DEF Wrote
<1>3. ASSUME NEW t \in Target, RunOut(t), c # held[t] PROVE Wrote(c)'
  <2>1. seen'[c] = seen[c]
    BY <1>0, <1>3 DEF RunOut
  <2> QED  BY <1>1, <2>1
<1>4. ASSUME NEW t \in Target, Loop(t), ~RunOut(t) PROVE Wrote(c)'
  <2>1. seen' = seen
    BY <1>4 DEF Loop, Start, Exit, GetTask, ReceiveTask, ReceiveData, RunIn, AnswerDropped,
                Answer, AnswerFault
  <2> QED  BY <1>1, <2>1
<1>5. CASE Host \/ UNCHANGED vars
  <2>1. seen' = seen
    BY <1>5 DEF Host, QueueAppend, QueueRefuse, Abort, Destroy, vars
  <2> QED  BY <1>1, <2>1
<1> QED  BY <1>2, <1>3, <1>4, <1>5 DEF Next

(* Issue takes a command whose buffer is clean, Destroy one that is queued, *)
(* and an answer that is accepted ends it.                                  *)
LEMMA CleanNext ==
  ASSUME TransferInv, [Next]_vars, NEW c \in Cmd
  PROVE  Clean(c)'
<1>0. Clean(c) /\ HostTypes /\ TargetInv
  BY DEF TransferInv, HostInv
<1>1. ASSUME life'[c] = life[c], sense'[c] = sense[c], torn' = torn PROVE Clean(c)'
  BY <1>0, <1>1 DEF Clean, set_sensedata, set_sensedata_commfailure
<1>2. ASSUME NEW b \in Cmd, NEW d, NEW lens, QueueAppend(b, d, lens) PROVE Clean(c)'
  <2>1. /\ life[b] = "new" /\ life' = [life EXCEPT ![b] = "SUBMITTED"]
        /\ sense' = sense /\ torn' = torn
    BY <1>2 DEF QueueAppend, Issue
  <2>2. CASE b # c
    BY <1>0, <1>1, <2>1, <2>2 DEF HostTypes
  <2>3. CASE b = c
    BY <1>0, <2>1, <2>3 DEF HostTypes, Clean, Ended, set_sensedata
  <2> QED  BY <2>2, <2>3
<1>3. ASSUME NEW b \in Cmd, NEW d, NEW lens, QueueRefuse(b, d, lens) PROVE Clean(c)'
  <2>1. /\ life[b] = "new" /\ life' = [life EXCEPT ![b] = "refused"] /\ torn' = torn
        /\ sense' = [sense EXCEPT ![b] = set_sensedata_commfailure(sense[b])]
    BY <1>3 DEF QueueRefuse, Issue
  <2>2. CASE b # c
    BY <1>0, <1>1, <2>1, <2>2 DEF HostTypes
  <2>3. CASE b = c
    <3>1. /\ life'[c] = "refused" /\ sense'[c] = set_sensedata_commfailure(sense[c])
          /\ c \notin torn /\ sense[c] = set_sensedata
      BY <1>0, <2>1, <2>3 DEF HostTypes, Clean, Ended
    <3> QED  BY <3>1 DEF Clean, Ended, set_sensedata, set_sensedata_commfailure
  <2> QED  BY <2>2, <2>3
<1>4. CASE Destroy
  <2>1. /\ torn' = torn
        /\ Queued(c) => life'[c] = "refused" /\ sense'[c] = set_sensedata_commfailure(sense[c])
        /\ ~Queued(c) => life'[c] = life[c] /\ sense'[c] = sense[c]
    BY <1>4 DEF Destroy
  <2>2. CASE ~Queued(c)
    BY <1>1, <2>1, <2>2
  <2>3. CASE Queued(c)
    <3>1. c \notin torn => sense[c] = set_sensedata
      BY <1>0, <2>3 DEF Clean, Queued, Ended
    <3> QED  BY <2>1, <2>3, <3>1 DEF Clean, Ended, set_sensedata, set_sensedata_commfailure
  <2> QED  BY <2>2, <2>3
<1>5. ASSUME NEW b \in Cmd, Abort(b) PROVE Clean(c)'
  <2>1. /\ life' = [life EXCEPT ![b] = "aborted"] /\ sense' = sense /\ torn' = torn
    BY <1>5 DEF Abort
  <2>2. CASE b # c
    BY <1>0, <1>1, <2>1, <2>2 DEF HostTypes
  <2>3. CASE b = c
    BY <1>0, <2>1, <2>3 DEF HostTypes, Clean, Ended
  <2> QED  BY <2>2, <2>3
<1>6. ASSUME NEW t \in Target, Answer(t) PROVE Clean(c)'
  <2>1. /\ life' = [life EXCEPT ![held[t]] = "done"] /\ torn' = torn
        /\ \E s : sense' = [sense EXCEPT ![held[t]] = s]
    BY <1>6 DEF Answer
  <2>2. CASE held[t] # c
    BY <1>0, <1>1, <2>1, <2>2 DEF HostTypes
  <2>3. CASE held[t] = c
    BY <1>0, <2>1, <2>3 DEF HostTypes, Clean, Ended
  <2> QED  BY <2>2, <2>3
<1>7. ASSUME NEW t \in Target, AnswerFault(t) PROVE Clean(c)'
  <2>1. /\ life' = life /\ torn' = torn \cup {held[t]} /\ Queued(held[t])
        /\ sense' = sense \/ \E s : sense' = [sense EXCEPT ![held[t]] = s]
    BY <1>7 DEF AnswerFault, task_of_cmd
  <2>2. CASE held[t] # c
    <3>1. life'[c] = life[c] /\ sense'[c] = sense[c] /\ (c \in torn' <=> c \in torn)
      BY <1>0, <2>1, <2>2 DEF HostTypes
    <3> QED  BY <1>0, <3>1 DEF Clean, set_sensedata, set_sensedata_commfailure
  <2>3. CASE held[t] = c
    BY <2>1, <2>3 DEF Clean, Queued
  <2> QED  BY <2>2, <2>3
<1>8. ASSUME NEW t \in Target, ReceiveTask(t) PROVE Clean(c)'
  <2>1. sense' = sense /\ torn' = torn
    BY <1>8 DEF ReceiveTask
  <2>2. life'[c] = life[c] \/ (Queued(c) /\ life'[c] = "RECEIVED")
    BY <1>0, <1>8 DEF ReceiveTask, task_of_cmd, HostTypes
  <2>3. CASE life'[c] = life[c]
    BY <1>1, <2>1, <2>3
  <2>4. CASE Queued(c) /\ life'[c] = "RECEIVED"
    BY <1>0, <2>1, <2>4 DEF Clean, Queued, Ended, set_sensedata
  <2> QED  BY <2>2, <2>3, <2>4
<1>9. ASSUME NEW t \in Target, Loop(t), ~Answer(t), ~AnswerFault(t), ~ReceiveTask(t)
      PROVE  Clean(c)'
  <2>1. life' = life /\ sense' = sense /\ torn' = torn
    BY <1>9 DEF Loop, Start, Exit, GetTask, ReceiveData, RunIn, RunOut, AnswerDropped, hostVars
  <2> QED  BY <1>1, <2>1
<1>10. CASE Host
  BY <1>2, <1>3, <1>4, <1>5, <1>10 DEF Host
<1>11. CASE UNCHANGED vars
  BY <1>1, <1>11 DEF vars, hostVars
<1> QED  BY <1>6, <1>7, <1>8, <1>9, <1>10, <1>11 DEF Next

(* Answer alone makes a command done. *)
LEMMA DoneByAnswer ==
  ASSUME HostInv, TargetInv, [Next]_vars, NEW c \in Cmd, life[c] # "done", life'[c] = "done"
  PROVE  \E t \in Target : Answer(t) /\ held[t] = c
<1>1. ASSUME NEW t \in Target, Answer(t) PROVE held[t] = c
  BY <1>1 DEF Answer, HostInv, HostTypes
<1>2. ASSUME NEW t \in Target, ReceiveTask(t) PROVE FALSE
  BY <1>2 DEF ReceiveTask, HostInv, HostTypes
<1>3. ASSUME NEW t \in Target, Loop(t), ~Answer(t), ~ReceiveTask(t) PROVE FALSE
  <2>1. life' = life
    BY <1>3 DEF Loop, Start, Exit, GetTask, ReceiveData, RunIn, RunOut, AnswerDropped,
                AnswerFault, hostVars
  <2> QED  BY <2>1
<1>4. ASSUME Host PROVE FALSE
  <2>1. ASSUME NEW b \in Cmd, NEW d, NEW lens, QueueAppend(b, d, lens) \/ QueueRefuse(b, d, lens)
        PROVE  FALSE
    BY <2>1 DEF QueueAppend, QueueRefuse, Issue, HostInv, HostTypes
  <2>2. ASSUME NEW b \in Cmd, Abort(b) PROVE FALSE
    BY <2>2 DEF Abort, HostInv, HostTypes
  <2>3. CASE Destroy
    BY <2>3 DEF Destroy, HostInv, HostTypes
  <2> QED  BY <1>4, <2>1, <2>2, <2>3 DEF Host
<1>5. ~UNCHANGED vars
  BY DEF vars, hostVars
<1> QED  BY <1>1, <1>2, <1>3, <1>4, <1>5 DEF Next

LEMMA AnswerGivesSense ==
  ASSUME HostInv, TargetInv, NEW t \in Target, Answer(t)
  PROVE  Sensed(held[t])'
<1>1. PICK c : c = held[t]
  OBVIOUS
<1>2. pc[t] = "reply"
  BY DEF Answer, Goes
<1>3. c \in Cmd /\ ran[t] \in Runs
  BY <1>1, <1>2, AnswerFits
<1>4. sense[c] \in SenseBuf
  BY <1>3 DEF HostInv, HostTypes, SenseBuf
<1>5. sense'[c] = SenseFrom(t, sense[c]) /\ took'[c] = ran[t]
  BY <1>1, <1>3 DEF Answer, HostInv, HostTypes
<1>6. ran[t].status = 130 => \A i \in 1..SenseLen : rbuf[t][AnswerHeader + i - 1] = <<"sense", c, i>>
  BY <1>1, <1>2 DEF TargetInv, Good, SenseIn
<1>7. ran[t].status = 130 => SenseFrom(t, sense[c]) = [i \in 1..SenseLen |-> <<"sense", c, i>>]
  <2> SUFFICES ASSUME ran[t].status = 130
               PROVE  SenseFrom(t, sense[c]) = [i \in 1..SenseLen |-> <<"sense", c, i>>]
    OBVIOUS
  <2>1. SenseFrom(t, sense[c]) = [i \in 1..SenseLen |-> rbuf[t][AnswerHeader + i - 1]]
    <3>1. PICK old \in SenseBuf : old = sense[c]
      BY <1>4
    <3>2. SenseFrom(t, old) = [i \in 1..SenseLen |-> rbuf[t][AnswerHeader + i - 1]]
      BY SenseFromFacts
    <3> QED  BY <3>1, <3>2
  <2>2. [i \in 1..SenseLen |-> rbuf[t][AnswerHeader + i - 1]] = [i \in 1..SenseLen |-> <<"sense", c, i>>]
    BY <1>6
  <2> QED  BY <2>1, <2>2
<1>8. /\ ran[t].status = 0 => SenseFrom(t, sense[c]) = set_sensedata
      /\ ran[t].status = 2 => SenseFrom(t, sense[c]) = set_sensedata_illegal
  BY <1>4, SenseFromFacts
<1>9. held'[t] = held[t]
  BY DEF Answer
<1> QED  BY <1>1, <1>5, <1>7, <1>8, <1>9 DEF Sensed, set_sensedata, set_sensedata_illegal

LEMMA AnswerGivesReply ==
  ASSUME HostInv, TargetInv, NEW t \in Target, Answer(t), NEW c \in Cmd, c = held[t]
  PROVE  Read(c)'
<1>1. pc[t] = "reply" /\ dir' = dir
  BY DEF Answer, Goes
<1>2. /\ rbuf[t] \in Flat /\ Segmented(segs[c]) /\ Size(c) \in Nat
      /\ AnswerHeader + Size(c) <= Room
  BY <1>1, AnswerFits
<1>3. took'[c] = ran[t]
  BY DEF Answer, HostInv, HostTypes
<1> SUFFICES ASSUME dir[c] = "I", ran[t].status = 0,
                    NEW j \in DOMAIN segs'[c], NEW i \in DOMAIN segs'[c][j]
             PROVE  segs'[c][j][i] = <<"reply", c, Ends(Lens(segs'[c]))[j - 1] + i>> <=>
                      Ends(Lens(segs'[c]))[j - 1] + i <= ran[t].len
  BY <1>1, <1>3 DEF Read
<1>4. bufflen[t] = Size(c)
  BY <1>1 DEF TargetInv, Good, Fetched, Busy
<1>5. segs'[c] = IF bufflen[t] > 0
                 THEN copy_from_user_sg(segs[c], rbuf[t], AnswerHeader, Size(c)) ELSE segs[c]
  BY DEF Answer, HostInv, HostTypes
<1>6. PICK m : m = copy_from_user_sg(segs[c], rbuf[t], AnswerHeader, Size(c))
  OBVIOUS
<1>7. Size(c) = Bytes(Lens(segs[c])) /\ Size(c) \in 0..Bytes(Lens(segs[c]))
  BY <1>2 DEF Size
<1>8. /\ Lens(m) = Lens(segs[c]) /\ DOMAIN m = DOMAIN segs[c]
      /\ \A x \in DOMAIN segs[c] :
           /\ DOMAIN m[x] = DOMAIN segs[c][x]
           /\ \A y \in DOMAIN segs[c][x] : Ends(Lens(segs[c]))[x - 1] + y <= Size(c) =>
                m[x][y] = rbuf[t][AnswerHeader + (Ends(Lens(segs[c]))[x - 1] + y) - 1]
  BY <1>2, <1>6, <1>7, CopyFromFacts
<1>9. /\ Lens(segs'[c]) = Lens(segs[c]) /\ j \in DOMAIN segs[c] /\ i \in DOMAIN segs[c][j]
  BY <1>5, <1>6, <1>8
<1>10. PICK k : k = Ends(Lens(segs[c]))[j - 1] + i
  OBVIOUS
<1>11. k \in 1..Size(c)
  BY <1>2, <1>7, <1>9, <1>10, InTransfer
<1>12. segs'[c][j][i] = rbuf[t][AnswerHeader + k - 1]
  <2>1. bufflen[t] > 0 /\ k <= Size(c)
    BY <1>2, <1>4, <1>11
  <2> QED  BY <1>5, <1>6, <1>8, <1>9, <1>10, <2>1
<1>13. k \in 1..(Room - AnswerHeader)
  BY <1>2, <1>11, TransferAssumption DEF TransferAssumption
<1>14. rbuf[t][AnswerHeader + k - 1] = <<"reply", c, k>> <=> k <= ran[t].len
  BY <1>1, <1>13 DEF TargetInv, Good, ReplyIn
<1> QED  BY <1>9, <1>10, <1>12, <1>14

LEMMA ResultNext ==
  ASSUME TransferInv, HostStep, [Next]_vars, NEW c \in Cmd
  PROVE  Read(c)' /\ Sensed(c)'
<1>0. HostInv /\ TargetInv /\ Read(c) /\ Sensed(c) /\ Steady(c)
  BY DEF TransferInv, HostStep
<1>1. CASE life'[c] # "done"
  BY <1>1 DEF Read, Sensed
<1>2. CASE life[c] = "done"
  <2>1. /\ life'[c] = life[c] /\ segs'[c] = segs[c] /\ sense'[c] = sense[c]
        /\ took'[c] = took[c] /\ dir'[c] = dir[c]
    BY <1>0, <1>2 DEF Steady, Ended
  <2> QED  BY <1>0, <2>1 DEF Read, Sensed, set_sensedata, set_sensedata_illegal
<1>3. CASE life[c] # "done" /\ life'[c] = "done"
  <2>1. PICK t \in Target : Answer(t) /\ held[t] = c
    BY <1>0, <1>3, DoneByAnswer
  <2>2. Sensed(held[t])' /\ held'[t] = held[t]
    BY <1>0, <2>1, AnswerGivesSense DEF Answer
  <2>3. Read(c)'
    BY <1>0, <2>1, AnswerGivesReply
  <2> QED  BY <2>1, <2>2, <2>3 DEF Sensed
<1> QED  BY <1>1, <1>2, <1>3

(* The inductive invariant of the transfers: no copy changes a command that *)
(* has ended or the shape of a buffer, a target's request_buffer holds the  *)
(* data of the write it serves and no reply byte of the command it is about *)
(* to serve, a command that is done holds what its answer brought, and the  *)
(* sense buffer of one that no answer has reached is clean.                 *)
THEOREM TransferInvariant == Spec => []TransferInv
<1>1. Init => TransferInv
  <2> SUFFICES ASSUME Init PROVE TransferInv
    OBVIOUS
  <2>1. \A c \in Cmd : Wrote(c) /\ Read(c) /\ Sensed(c)
    BY DEF Init, Wrote, Read, Sensed
  <2>2. \A c \in Cmd : Clean(c)
    BY DEF Init, Clean
  <2> QED  BY <2>1, <2>2, HostInvInit, TargetInvInit DEF TransferInv
<1>2. TransferInv /\ [Next]_vars => TransferInv'
  <2> SUFFICES ASSUME TransferInv, [Next]_vars PROVE TransferInv'
    OBVIOUS
  <2>1. HostStep
    BY HostNext DEF TransferInv
  <2>2. TargetInv'
    BY <2>1, TargetNext DEF TransferInv
  <2> QED  BY <2>1, <2>2, WroteNext, ResultNext, CleanNext DEF TransferInv, HostStep
<1> QED  BY <1>1, <1>2, PTL DEF Spec

(* For any scatter lists, targets and commands, and whatever length a CDB   *)
(* names, the engine writes the host's bytes of that command in order, as   *)
(* far as the transfer goes (device.c:144, main.c:188).                     *)
THEOREM AlwaysWritesHostData == Spec => []WritesHostData
<1>1. TransferInv => WritesHostData
  BY DEF TransferInv, Wrote, WritesHostData
<1> QED  BY <1>1, TransferInvariant, PTL

(* A good read holds the reply of its own command, in order and as far as   *)
(* it goes, and nothing else changes a host's buffer but an answer that     *)
(* failed half-way (vscsiapi.c:57, device.c:215-250).                       *)
THEOREM AlwaysReadsReply == Spec => []ReadsReply
<1>1. TransferInv => ReadsReply
  <2> SUFFICES ASSUME TransferInv PROVE ReadsReply
    OBVIOUS
  <2>1. TypeOK
    BY DEF TransferInv, HostInv, HostTypes, TargetInv, TargetTypes, TypeOK, Segmented, Flat,
           Runs, Busy
  <2>2. \A c \in Cmd : Untouched(c) /\ Read(c)
    BY DEF TransferInv, HostInv
  <2> QED  BY <2>1, <2>2 DEF ReadsReply, Untouched, Read
<1> QED  BY <1>1, TransferInvariant, PTL

(* The sense data of a command that is done is of the answer that completed *)
(* it, also after one that failed half-way (device.c:236-249), and that of  *)
(* one that is sent back as unreachable is the driver's own unless an       *)
(* answer had failed so (hba.c:158-165).                                    *)
THEOREM SenseAlwaysOfAnswer == Spec => []SenseOfAnswer
<1>1. TransferInv => SenseOfAnswer
  <2> SUFFICES ASSUME TransferInv PROVE SenseOfAnswer
    OBVIOUS
  <2>1. ASSUME NEW c \in Cmd, life[c] = "done"
        PROVE  sense[c] = CASE took[c].status = 0   -> set_sensedata
                            [] took[c].status = 2   -> set_sensedata_illegal
                            [] took[c].status = 130 -> [i \in 1..SenseLen |-> <<"sense", c, i>>]
    <3>1. Sensed(c) /\ took[c].status \in {0, 2, 130}
      BY DEF TransferInv, HostInv, HostTypes, Runs, Status
    <3> QED  BY <2>1, <3>1 DEF Sensed
  <2>2. ASSUME NEW c \in Cmd, life[c] = "refused", c \notin torn
        PROVE  sense[c] = set_sensedata_commfailure(set_sensedata)
    BY <2>2 DEF TransferInv, Clean
  <2> QED  BY <2>1, <2>2 DEF SenseOfAnswer
<1> QED  BY <1>1, TransferInvariant, PTL

(* No step copies into the memory of a command that the mid layer has back, *)
(* however late the answer comes (device.c:207).                            *)
THEOREM NeverAfterReturn == Spec => NotAfterReturn
<1>1. TransferInv /\ [Next]_vars =>
        [\A c \in Cmd : life[c] \in Ended => segs'[c] = segs[c] /\ sense'[c] = sense[c]]_vars
  <2> SUFFICES ASSUME TransferInv, [Next]_vars, NEW c \in Cmd, life[c] \in Ended
               PROVE  segs'[c] = segs[c] /\ sense'[c] = sense[c]
    OBVIOUS
  <2>1. HostStep
    BY HostNext DEF TransferInv
  <2> QED  BY <2>1 DEF HostStep, Steady
<1> QED  BY <1>1, TransferInvariant, PTL DEF Spec, NotAfterReturn
=============================================================================
