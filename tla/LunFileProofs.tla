--------------------------- MODULE LunFileProofs ---------------------------
(***************************************************************************)
(* Proofs about a LUN file and the streams of its targets, for any number  *)
(* of blocks and any size of a stream's buffer.  That a stream holds no    *)
(* more than the last write is shown for any number of targets; that the   *)
(* LUN behaves as a disk with a volatile cache for one target, and is      *)
(* false for two (the run on a pair of targets shows how).                 *)
(***************************************************************************)
EXTENDS LunFile, TLAPS

OneTarget == \A t, u \in Target : t = u
-----------------------------------------------------------------------------
(* Partial contents *)

LEMMA DataFacts ==
  ASSUME NEW d
  PROVE  d \in Data <=> \E S \in SUBSET Block : d \in [S -> Val]
BY DEF Data

LEMMA NothingFacts == Nothing \in Data /\ DOMAIN Nothing = {}
<1>1. Nothing \in [{} -> Val] /\ DOMAIN Nothing = {}
  BY DEF Nothing
<1> QED  BY <1>1, DataFacts

LEMMA OverlayFacts ==
  ASSUME NEW S \in SUBSET Block, NEW old \in [S -> Val], NEW d \in Data
  PROVE  /\ Overlay(d, old) \in [S -> Val] /\ Overlay(d, old) \in Data
         /\ \A b \in S : Overlay(d, old)[b] = IF b \in DOMAIN d THEN d[b] ELSE old[b]
<1>1. PICK R \in SUBSET Block : d \in [R -> Val]
  BY DataFacts
<1>2. Overlay(d, old) \in [S -> Val]
  BY <1>1 DEF Overlay
<1>3. \A b \in S : Overlay(d, old)[b] = IF b \in DOMAIN d THEN d[b] ELSE old[b]
  BY DEF Overlay
<1> QED  BY <1>2, <1>3, DataFacts

LEMMA WholeOverlay ==
  ASSUME NEW old \in [Block -> Val], NEW d \in Data
  PROVE  /\ Overlay(d, old) \in [Block -> Val]
         /\ \A b \in Block : Overlay(d, old)[b] = IF b \in DOMAIN d THEN d[b] ELSE old[b]
BY OverlayFacts

LEMMA OnlyFacts ==
  ASSUME NEW d \in Data, NEW S
  PROVE  /\ Only(d, S) \in Data
         /\ DOMAIN Only(d, S) = S \cap DOMAIN d
         /\ \A b \in S \cap DOMAIN d : Only(d, S)[b] = d[b]
<1>1. PICK R \in SUBSET Block : d \in [R -> Val]
  BY DataFacts
<1>2. S \cap R \in SUBSET Block /\ Only(d, S) \in [S \cap R -> Val]
  BY <1>1 DEF Only
<1>3. \A b \in S \cap DOMAIN d : Only(d, S)[b] = d[b]
  BY DEF Only
<1> QED  BY <1>1, <1>2, <1>3, DataFacts

LEMMA WholeIsData == [Block -> Val] \subseteq Data
BY DataFacts

(* The operators of a stream return contents. *)
LEMMA StreamFacts ==
  ASSUME TypeOK, NEW t \in Target, NEW b \in Block
  PROVE  /\ tail[t] \in Data /\ ahead[t] \in Data /\ undo[t] \in Data
         /\ Flushed(t) \in [Block -> Val]
         /\ Ahead(t, b) \in Data
         /\ Seen(t, b) \in [Block -> Val]
<1>1. /\ tail[t] \in Data /\ ahead[t] \in Data /\ undo[t] \in Data
      /\ file \in [Block -> Val]
  BY DEF TypeOK
<1>2. Flushed(t) \in [Block -> Val]
  BY <1>1, OverlayFacts DEF Flushed
<1>3. Ahead(t, b) \in Data
  <2>1. PICK S \in SUBSET Block : ahead[t] \in [S -> Val]
    BY <1>1, DataFacts
  <2> QED  BY <1>1, <2>1, OverlayFacts, NothingFacts DEF Ahead
<1>4. Seen(t, b) \in [Block -> Val]
  BY <1>2, <1>3, OverlayFacts DEF Seen
<1> QED  BY <1>1, <1>2, <1>3, <1>4
-----------------------------------------------------------------------------
(* First layer: types, and what is at risk *)

TailOfLast == \A t \in Target : DOMAIN tail[t] \subseteq DOMAIN undo[t]

RiskInv == TypeOK /\ TailOfLast

LEMMA RiskInvInit == Init => RiskInv
<1> SUFFICES ASSUME Init PROVE RiskInv
  OBVIOUS
<1>1. TypeOK
  BY NothingFacts DEF Init, TypeOK
<1> QED  BY <1>1, NothingFacts DEF Init, RiskInv, TailOfLast

(* A stream that holds no tail has nothing at risk. *)
LEMMA NothingAtRisk ==
  ASSUME RiskInv, NEW t \in Target, tail' = [tail EXCEPT ![t] = Nothing],
         undo' = [undo EXCEPT ![t] = Nothing]
  PROVE  TailOfLast'
<1>1. tail'[t] = Nothing /\ \A u \in Target \ {t} : tail'[u] = tail[u] /\ undo'[u] = undo[u]
  BY DEF RiskInv, TypeOK
<1> QED  BY <1>1, NothingFacts DEF RiskInv, TailOfLast

LEMMA ReadKeepsRisk ==
  ASSUME RiskInv, NEW t \in Target, NEW b \in Block, NEW e \in Block, Read(t, b, e)
  PROVE  RiskInv'
<1>1. PICK kept \in {Nothing, Ahead(t, b), Only(Seen(t, b), PageOf(e))} :
         ahead' = [ahead EXCEPT ![t] = kept]
  BY DEF Read
<1>2. kept \in Data
  <2>1. Ahead(t, b) \in Data /\ Seen(t, b) \in Data
    BY StreamFacts, WholeIsData DEF RiskInv
  <2>2. Only(Seen(t, b), PageOf(e)) \in Data
    BY <2>1, OnlyFacts
  <2> QED  BY <1>1, <2>1, <2>2, NothingFacts
<1>3. TypeOK'
  BY <1>1, <1>2, NothingFacts, StreamFacts DEF Read, RiskInv, TypeOK
<1> QED  BY <1>3, NothingAtRisk DEF Read, RiskInv

LEMMA WriteKeepsRisk ==
  ASSUME RiskInv, NEW t \in Target, NEW b \in Block, NEW e \in Block, NEW d \in [b..e -> Val],
         Write(t, b, e, d)
  PROVE  RiskInv'
<1>0. b..e \in SUBSET Block /\ d \in Data /\ b \in Nat /\ e \in Nat
  <2>1. b..e \in SUBSET Block /\ b \in Nat /\ e \in Nat
    BY LunFileAssumption DEF LunFileAssumption, Block
  <2> QED  BY <2>1, DataFacts
<1>1. PICK k \in b..(e + 1) :
         /\ file' = Overlay(Only(d, b..(k - 1)), Flushed(t))
         /\ tail' = [tail EXCEPT ![t] = Only(d, k..e)]
         /\ \E kept \in {Nothing, Overlay(d, Ahead(t, b)), Only(d, k..e)} :
               ahead' = [ahead EXCEPT ![t] = kept]
  BY DEF Write
<1>2. PICK kept \in {Nothing, Overlay(d, Ahead(t, b)), Only(d, k..e)} :
         ahead' = [ahead EXCEPT ![t] = kept]
  BY <1>1
<1>3. kept \in Data /\ Only(d, k..e) \in Data
  <2>1. PICK S \in SUBSET Block : Ahead(t, b) \in [S -> Val]
    BY StreamFacts, DataFacts DEF RiskInv
  <2>2. Overlay(d, Ahead(t, b)) \in Data
    BY <1>0, <2>1, OverlayFacts
  <2>3. Only(d, k..e) \in Data
    BY <1>0, OnlyFacts
  <2> QED  BY <1>2, <2>2, <2>3, NothingFacts
<1>4. file' \in [Block -> Val] /\ acked' \in [Block -> Val] /\ undo'[t] = Only(acked, b..e)
      /\ Only(acked, b..e) \in Data
  <2>1. Only(d, b..(k - 1)) \in Data /\ Flushed(t) \in [Block -> Val]
    BY <1>0, OnlyFacts, StreamFacts DEF RiskInv
  <2>2. acked \in [Block -> Val] /\ acked \in Data
    BY WholeIsData DEF RiskInv, TypeOK
  <2>3. Overlay(Only(d, b..(k - 1)), Flushed(t)) \in [Block -> Val]
    BY <2>1, OverlayFacts
  <2>4. Overlay(d, acked) \in [Block -> Val]
    BY <1>0, <2>2, OverlayFacts
  <2>5. Only(acked, b..e) \in Data
    BY <2>2, OnlyFacts
  <2> QED  BY <1>1, <2>3, <2>4, <2>5 DEF Write, RiskInv, TypeOK
<1>5. TypeOK'
  BY <1>1, <1>2, <1>3, <1>4 DEF Write, RiskInv, TypeOK
<1>6. DOMAIN tail'[t] = k..e /\ DOMAIN undo'[t] = b..e
  <2>1. tail'[t] = Only(d, k..e) /\ (k..e) \cap DOMAIN d = k..e
    BY <1>0, <1>1 DEF RiskInv, TypeOK
  <2>2. (b..e) \cap DOMAIN acked = b..e /\ acked \in Data
    BY <1>0, WholeIsData DEF RiskInv, TypeOK
  <2> QED  BY <1>0, <1>4, <2>1, <2>2, OnlyFacts
<1>7. \A u \in Target \ {t} : tail'[u] = tail[u] /\ undo'[u] = undo[u]
  BY <1>1 DEF Write, RiskInv, TypeOK
<1>8. k..e \subseteq b..e
  BY <1>0, <1>1
<1> QED  BY <1>5, <1>6, <1>7, <1>8 DEF RiskInv, TailOfLast

LEMMA RiskInvNext == RiskInv /\ [Next]_vars => RiskInv'
<1> SUFFICES ASSUME RiskInv, [Next]_vars PROVE RiskInv'
  OBVIOUS
<1>1. ASSUME NEW t \in Target, Start(t) PROVE RiskInv'
  BY <1>1 DEF Start, RiskInv, TypeOK, TailOfLast
<1>2. ASSUME NEW t \in Target, ReadCapacity(t) PROVE RiskInv'
  <2>1. TypeOK'
    <3>1. 0 \in Block
      BY LunFileAssumption DEF LunFileAssumption, Block
    <3> QED  BY <1>2, <3>1, StreamFacts, NothingFacts DEF ReadCapacity, RiskInv, TypeOK
  <2> QED  BY <1>2, <2>1, NothingAtRisk DEF ReadCapacity, RiskInv
<1>3. ASSUME NEW t \in Target, Exit(t) \/ Kill(t) PROVE RiskInv'
  <2>1. 0 \in Block
    BY LunFileAssumption DEF LunFileAssumption, Block
  <2>2. file' \in [Block -> Val]
    BY <1>3, <2>1, StreamFacts DEF Exit, Kill, RiskInv, TypeOK
  <2>3. acked' \in [Block -> Val]
    <3>1. Lost(t) \in Data
      BY <2>1, StreamFacts, OnlyFacts DEF Lost, RiskInv
    <3>2. acked \in [Block -> Val]
      BY DEF RiskInv, TypeOK
    <3>3. Overlay(Lost(t), acked) \in [Block -> Val]
      BY <3>1, <3>2, OverlayFacts
    <3> QED  BY <1>3, <3>2, <3>3 DEF Exit, Kill
  <2>4. Gone(t)
    BY <1>3 DEF Exit, Kill
  <2>5. TypeOK'
    BY <2>2, <2>3, <2>4, NothingFacts DEF Gone, RiskInv, TypeOK
  <2> QED  BY <2>4, <2>5, NothingAtRisk DEF Gone, RiskInv
<1>4. ASSUME NEW t \in Target, NEW b \in Block, NEW e \in Block, Read(t, b, e) PROVE RiskInv'
  BY <1>4, ReadKeepsRisk
<1>5. ASSUME NEW t \in Target, NEW b \in Block, NEW e \in Block, NEW d \in [b..e -> Val],
             Write(t, b, e, d)
      PROVE  RiskInv'
  BY <1>5, WriteKeepsRisk
<1>6. ASSUME NEW t \in Target, LeaveStream(t) PROVE RiskInv'
  BY <1>6 DEF LeaveStream, RiskInv, TypeOK, TailOfLast
<1>7. CASE UNCHANGED vars
  BY <1>7 DEF vars, RiskInv, TypeOK, TailOfLast
<1> QED  BY <1>1, <1>2, <1>3, <1>4, <1>5, <1>6, <1>7 DEF Next

(* The types of the file and of the streams, and with any number of targets *)
(* a stream keeps nothing back but blocks of its target's last write        *)
(* (scsi.c:176, 1321, 1407).                                                *)
THEOREM RiskInvariant == Spec => []RiskInv
BY RiskInvInit, RiskInvNext, PTL DEF Spec
-----------------------------------------------------------------------------
(* Second layer: the one target of the LUN *)

(* Under the tail the file still holds what a kill brings back, and what    *)
(* was read ahead is current but for the tail.                              *)
Current(t) == /\ Flushed(t) = acked
              /\ \A b \in DOMAIN tail[t] : undo[t][b] = file[b]
              /\ \A b \in DOMAIN ahead[t] \ DOMAIN tail[t] : ahead[t][b] = acked[b]

CacheInv == \A t \in Target : Current(t)

LEMMA CacheInvInit == Init => CacheInv
<1> SUFFICES ASSUME Init, NEW t \in Target PROVE Current(t)
  BY DEF CacheInv
<1>1. file \in [Block -> Val] /\ tail[t] = Nothing /\ ahead[t] = Nothing /\ acked = file
  BY DEF Init
<1>2. Flushed(t) \in [Block -> Val] /\ \A b \in Block : Flushed(t)[b] = file[b]
  BY <1>1, NothingFacts, OverlayFacts DEF Flushed
<1>3. Flushed(t) = acked
  BY <1>1, <1>2
<1> QED  BY <1>1, <1>3, NothingFacts DEF Current

(* Whatever a read takes from the buffer or from the file is current. *)
LEMMA SeenCurrent ==
  ASSUME RiskInv, CacheInv, NEW t \in Target, NEW b \in Block
  PROVE  /\ Flushed(t) = acked /\ Seen(t, b) = acked
         /\ \A c \in Block : c \in DOMAIN tail[t] => tail[t][c] = acked[c]
         /\ \A c \in Block : c \notin DOMAIN tail[t] => file[c] = acked[c]
         /\ \A c \in DOMAIN Ahead(t, b) : Ahead(t, b)[c] = acked[c]
<1>1. /\ tail[t] \in Data /\ ahead[t] \in Data /\ file \in [Block -> Val]
      /\ acked \in [Block -> Val] /\ Flushed(t) = acked /\ Ahead(t, b) \in Data
      /\ Seen(t, b) \in [Block -> Val]
  BY StreamFacts DEF RiskInv, TypeOK, CacheInv, Current
<1>2. \A c \in Block : Flushed(t)[c] = IF c \in DOMAIN tail[t] THEN tail[t][c] ELSE file[c]
  BY <1>1, OverlayFacts DEF Flushed
<1>3. \A c \in DOMAIN Ahead(t, b) : Ahead(t, b)[c] = acked[c]
  <2>1. PICK S \in SUBSET Block : ahead[t] \in [S -> Val]
    BY <1>1, DataFacts
  <2>2. CASE b \in DOMAIN ahead[t]
    <3>1. /\ Ahead(t, b) \in [S -> Val]
          /\ \A c \in S : Ahead(t, b)[c] =
                IF c \in DOMAIN tail[t] THEN tail[t][c] ELSE ahead[t][c]
      <4>1. Ahead(t, b) = Overlay(tail[t], ahead[t])
        BY <2>2 DEF Ahead
      <4>2. tail[t] \in Data
        BY <1>1
      <4>3. /\ Overlay(tail[t], ahead[t]) \in [S -> Val]
            /\ \A c \in S : Overlay(tail[t], ahead[t])[c] =
                  IF c \in DOMAIN tail[t] THEN tail[t][c] ELSE ahead[t][c]
        BY <2>1, <4>2, OverlayFacts
      <4> QED  BY <4>1, <4>3
    <3> QED  BY <1>1, <1>2, <2>1, <3>1 DEF CacheInv, Current
  <2>3. CASE b \notin DOMAIN ahead[t]
    BY <2>3, NothingFacts DEF Ahead
  <2> QED  BY <2>2, <2>3
<1>4. \A c \in Block : Seen(t, b)[c] = IF c \in DOMAIN Ahead(t, b) THEN Ahead(t, b)[c]
                                                                   ELSE Flushed(t)[c]
  BY <1>1, OverlayFacts DEF Seen
<1>5. Seen(t, b) = acked
  BY <1>1, <1>3, <1>4
<1> QED  BY <1>1, <1>2, <1>3, <1>5

(* A stream with no tail, over a file that holds what was acknowledged. *)
LEMMA SettledIsCurrent ==
  ASSUME RiskInv', NEW t \in Target, tail'[t] = Nothing, file' = acked',
         \A b \in DOMAIN ahead'[t] : ahead'[t][b] = acked'[b]
  PROVE  Current(t)'
<1>1. file' \in [Block -> Val] /\ acked' \in [Block -> Val]
  BY DEF RiskInv, TypeOK
<1>2. Flushed(t)' = Overlay(Nothing, file')
  BY DEF Flushed
<1>3. /\ Overlay(Nothing, file') \in [Block -> Val]
      /\ \A b \in Block : Overlay(Nothing, file')[b] = file'[b]
  <2>1. PICK now : now = file'
    OBVIOUS
  <2>2. now \in [Block -> Val]
    BY <1>1, <2>1
  <2>3. /\ Overlay(Nothing, now) \in [Block -> Val]
        /\ \A b \in Block : Overlay(Nothing, now)[b] = now[b]
    BY <2>2, NothingFacts, WholeOverlay
  <2> QED  BY <2>1, <2>3
<1>4. Flushed(t)' = acked'
  BY <1>1, <1>2, <1>3
<1> QED  BY <1>4, NothingFacts DEF Current

LEMMA ReadStaysCurrent ==
  ASSUME RiskInv, RiskInv', CacheInv, NEW t \in Target, NEW b \in Block, NEW e \in Block,
         Read(t, b, e)
  PROVE  Current(t)'
<1>1. PICK kept \in {Nothing, Ahead(t, b), Only(Seen(t, b), PageOf(e))} :
         ahead' = [ahead EXCEPT ![t] = kept]
  BY DEF Read
<1>2. \A c \in DOMAIN kept : kept[c] = acked[c]
  <2>1. Seen(t, b) = acked /\ \A c \in DOMAIN Ahead(t, b) : Ahead(t, b)[c] = acked[c]
    BY SeenCurrent
  <2>2. acked \in Data
    BY WholeIsData DEF RiskInv, TypeOK
  <2>3. \A c \in DOMAIN Only(acked, PageOf(e)) : Only(acked, PageOf(e))[c] = acked[c]
    BY <2>2, OnlyFacts
  <2> QED  BY <1>1, <2>1, <2>3, NothingFacts
<1>3. /\ tail'[t] = Nothing /\ ahead'[t] = kept
      /\ file' = Flushed(t) /\ acked' = acked
  BY <1>1 DEF Read, RiskInv, TypeOK
<1> QED  BY <1>2, <1>3, SeenCurrent, SettledIsCurrent

LEMMA WriteStaysCurrent ==
  ASSUME RiskInv, RiskInv', CacheInv, NEW t \in Target, NEW b \in Block, NEW e \in Block,
         NEW d \in [b..e -> Val], Write(t, b, e, d)
  PROVE  Current(t)'
<1>0. b..e \in SUBSET Block /\ d \in Data /\ DOMAIN d = b..e /\ b \in Nat /\ e \in Nat
  <2>1. b..e \in SUBSET Block /\ b \in Nat /\ e \in Nat
    BY LunFileAssumption DEF LunFileAssumption, Block
  <2> QED  BY <2>1, DataFacts
<1>1. PICK k \in b..(e + 1) :
         /\ file' = Overlay(Only(d, b..(k - 1)), Flushed(t))
         /\ tail' = [tail EXCEPT ![t] = Only(d, k..e)]
         /\ \E kept \in {Nothing, Overlay(d, Ahead(t, b)), Only(d, k..e)} :
               ahead' = [ahead EXCEPT ![t] = kept]
  BY DEF Write
<1>2. PICK kept \in {Nothing, Overlay(d, Ahead(t, b)), Only(d, k..e)} :
         ahead' = [ahead EXCEPT ![t] = kept]
  BY <1>1
<1>3. /\ tail'[t] = Only(d, k..e) /\ ahead'[t] = kept /\ acked' = Overlay(d, acked)
      /\ undo'[t] = Only(acked, b..e) /\ Flushed(t) = acked
      /\ acked \in [Block -> Val] /\ acked \in Data /\ file' \in [Block -> Val]
      /\ acked' \in [Block -> Val]
  BY <1>1, <1>2, SeenCurrent, WholeIsData DEF Write, RiskInv, TypeOK
<1>4. k \in Int /\ (k..e) \cap (b..e) = k..e /\ (b..(k - 1)) \cap (b..e) = b..(k - 1)
      /\ \A c \in b..e : c \in k..e <=> c \notin b..(k - 1)
  BY <1>0, <1>1
<1>5. /\ DOMAIN Only(d, k..e) = k..e /\ \A c \in k..e : Only(d, k..e)[c] = d[c]
      /\ Only(d, k..e) \in Data
  BY <1>0, <1>4, OnlyFacts
<1>6. /\ DOMAIN Only(d, b..(k - 1)) = b..(k - 1)
      /\ \A c \in b..(k - 1) : Only(d, b..(k - 1))[c] = d[c]
      /\ Only(d, b..(k - 1)) \in Data
  BY <1>0, <1>4, OnlyFacts
<1>7. \A c \in Block : file'[c] = IF c \in b..(k - 1) THEN d[c] ELSE acked[c]
  <2> DEFINE w == Only(d, b..(k - 1))
  <2> HIDE DEF w
  <2>1. \A c \in Block : Overlay(w, acked)[c] = IF c \in DOMAIN w THEN w[c] ELSE acked[c]
    <3>1. w \in Data
      BY <1>6 DEF w
    <3>2. acked \in [Block -> Val]
      BY <1>3
    <3> QED  BY <3>1, <3>2, WholeOverlay
  <2>2. file' = Overlay(w, acked) /\ DOMAIN w = b..(k - 1) /\ \A c \in b..(k - 1) : w[c] = d[c]
    BY <1>1, <1>3, <1>6 DEF w
  <2> QED  BY <2>1, <2>2
<1>8. \A c \in Block : acked'[c] = IF c \in b..e THEN d[c] ELSE acked[c]
  BY <1>0, <1>3, WholeOverlay
<1>9. Flushed(t)' = acked'
  <2>1. Flushed(t)' = Overlay(Only(d, k..e), file')
    BY <1>3 DEF Flushed
  <2>2. /\ Overlay(Only(d, k..e), file') \in [Block -> Val]
        /\ \A c \in Block : Overlay(Only(d, k..e), file')[c] =
              IF c \in k..e THEN d[c] ELSE file'[c]
    <3> DEFINE w == Only(d, k..e)
    <3> HIDE DEF w
    <3>1. w \in Data /\ DOMAIN w = k..e /\ \A c \in k..e : w[c] = d[c]
      BY <1>5 DEF w
    <3>2. /\ Overlay(w, file') \in [Block -> Val]
          /\ \A c \in Block : Overlay(w, file')[c] = IF c \in DOMAIN w THEN w[c] ELSE file'[c]
      <4>1. PICK now : now = file'
        OBVIOUS
      <4>2. now \in [Block -> Val]
        BY <1>3, <4>1
      <4>3. /\ Overlay(w, now) \in [Block -> Val]
            /\ \A c \in Block : Overlay(w, now)[c] = IF c \in DOMAIN w THEN w[c] ELSE now[c]
        BY <3>1, <4>2, WholeOverlay
      <4> QED  BY <4>1, <4>3
    <3>3. /\ Overlay(w, file') \in [Block -> Val]
          /\ \A c \in Block : Overlay(w, file')[c] = IF c \in k..e THEN d[c] ELSE file'[c]
      BY <3>1, <3>2
    <3> QED  BY <3>3 DEF w
  <2>3. \A c \in Block : Overlay(Only(d, k..e), file')[c] = acked'[c]
    BY <1>4, <1>7, <1>8, <2>2
  <2> QED  BY <1>3, <2>1, <2>2, <2>3
<1>10. \A c \in DOMAIN tail'[t] : undo'[t][c] = file'[c]
  <2>1. \A c \in b..e : Only(acked, b..e)[c] = acked[c]
    <3>1. acked \in Data /\ (b..e) \cap DOMAIN acked = b..e
      BY <1>0, <1>3
    <3> QED  BY <3>1, OnlyFacts
  <2> QED  BY <1>0, <1>3, <1>4, <1>5, <1>7, <2>1
<1>11. \A c \in DOMAIN ahead'[t] \ DOMAIN tail'[t] : ahead'[t][c] = acked'[c]
  <2>1. CASE kept = Overlay(d, Ahead(t, b))
    <3>1. PICK S \in SUBSET Block : Ahead(t, b) \in [S -> Val]
      BY StreamFacts, DataFacts DEF RiskInv
    <3>2. /\ kept \in [S -> Val]
          /\ \A c \in S : kept[c] = IF c \in b..e THEN d[c] ELSE Ahead(t, b)[c]
      <4>1. /\ Overlay(d, Ahead(t, b)) \in [S -> Val]
            /\ \A c \in S : Overlay(d, Ahead(t, b))[c] =
                  IF c \in DOMAIN d THEN d[c] ELSE Ahead(t, b)[c]
        BY <1>0, <3>1, OverlayFacts
      <4> QED  BY <1>0, <2>1, <4>1
    <3>3. \A c \in S : Ahead(t, b)[c] = acked[c]
      BY <3>1, SeenCurrent
    <3> QED  BY <1>3, <1>8, <3>1, <3>2, <3>3
  <2>2. CASE kept # Overlay(d, Ahead(t, b))
    BY <1>2, <1>3, <2>2, NothingFacts
  <2> QED  BY <2>1, <2>2
<1> QED  BY <1>9, <1>10, <1>11 DEF Current

LEMMA EndStaysCurrent ==
  ASSUME RiskInv, RiskInv', CacheInv, NEW t \in Target, Exit(t) \/ Kill(t)
  PROVE  Current(t)'
<1>1. 0 \in Block
  BY LunFileAssumption DEF LunFileAssumption, Block
<1>2. tail'[t] = Nothing /\ ahead'[t] = Nothing
  BY DEF Exit, Kill, Gone, RiskInv, TypeOK
<1>3. file' = acked'
  <2>1. CASE Exit(t)
    BY <1>1, <2>1, SeenCurrent DEF Exit
  <2>2. CASE Kill(t)
    <3>1. /\ acked \in [Block -> Val] /\ file \in [Block -> Val] /\ undo[t] \in Data
          /\ DOMAIN tail[t] \subseteq DOMAIN undo[t]
      BY DEF RiskInv, TypeOK, TailOfLast
    <3>2. /\ DOMAIN Lost(t) = DOMAIN tail[t] /\ Lost(t) \in Data
          /\ \A c \in DOMAIN tail[t] : Lost(t)[c] = undo[t][c]
      <4>1. DOMAIN tail[t] \cap DOMAIN undo[t] = DOMAIN tail[t]
        BY <3>1
      <4> QED  BY <3>1, <4>1, OnlyFacts DEF Lost
    <3>3. /\ Overlay(Lost(t), acked) \in [Block -> Val]
          /\ \A c \in Block : Overlay(Lost(t), acked)[c] =
                IF c \in DOMAIN tail[t] THEN undo[t][c] ELSE acked[c]
      BY <3>1, <3>2, OverlayFacts
    <3>4. \A c \in Block : Overlay(Lost(t), acked)[c] = file[c]
      BY <1>1, <3>3, SeenCurrent DEF CacheInv, Current
    <3> QED  BY <2>2, <3>1, <3>3, <3>4 DEF Kill
  <2> QED  BY <2>1, <2>2
<1> QED  BY <1>2, <1>3, NothingFacts, SettledIsCurrent

LEMMA CacheInvNext == ASSUME OneTarget PROVE RiskInv /\ CacheInv /\ [Next]_vars => CacheInv'
<1> SUFFICES ASSUME RiskInv, CacheInv, [Next]_vars, NEW u \in Target PROVE Current(u)'
  BY DEF CacheInv
<1>0. RiskInv'
  BY RiskInvNext
<1>1. ASSUME NEW t \in Target, Start(t) PROVE Current(u)'
  BY <1>1 DEF Start, CacheInv, Current, Flushed
<1>2. ASSUME NEW t \in Target, ReadCapacity(t) PROVE Current(u)'
  <2>1. 0 \in Block /\ u = t
    BY LunFileAssumption DEF LunFileAssumption, Block, OneTarget
  <2>2. tail'[t] = Nothing /\ ahead'[t] = Nothing /\ file' = Flushed(t) /\ acked' = acked
    BY <1>2 DEF ReadCapacity, RiskInv, TypeOK
  <2> QED  BY <1>0, <2>1, <2>2, SeenCurrent, NothingFacts, SettledIsCurrent
<1>3. ASSUME NEW t \in Target, Exit(t) \/ Kill(t) PROVE Current(u)'
  <2>1. u = t
    BY DEF OneTarget
  <2> QED  BY <1>0, <1>3, <2>1, EndStaysCurrent
<1>4. ASSUME NEW t \in Target, NEW b \in Block, NEW e \in Block, Read(t, b, e)
      PROVE  Current(u)'
  <2>1. u = t
    BY DEF OneTarget
  <2> QED  BY <1>0, <1>4, <2>1, ReadStaysCurrent
<1>5. ASSUME NEW t \in Target, NEW b \in Block, NEW e \in Block, NEW d \in [b..e -> Val],
             Write(t, b, e, d)
      PROVE  Current(u)'
  <2>1. u = t
    BY DEF OneTarget
  <2> QED  BY <1>0, <1>5, <2>1, WriteStaysCurrent
<1>6. ASSUME NEW t \in Target, LeaveStream(t) PROVE Current(u)'
  BY <1>6 DEF LeaveStream, CacheInv, Current, Flushed
<1>7. CASE UNCHANGED vars
  BY <1>7 DEF vars, CacheInv, Current, Flushed
<1> QED  BY <1>1, <1>2, <1>3, <1>4, <1>5, <1>6, <1>7 DEF Next

(* The inductive invariant of a LUN with one target. *)
THEOREM CacheInvariant == ASSUME OneTarget PROVE Spec => []CacheInv
<1>1. RiskInv /\ CacheInv /\ [Next]_vars => CacheInv'
  BY CacheInvNext
<1> QED  BY <1>1, CacheInvInit, RiskInvariant, PTL DEF Spec

(* With one target the file and the tail of its stream make up what the     *)
(* host was told, also after a kill (scsi.c:1321, 1407). *)
THEOREM AlwaysBehindByTail == ASSUME OneTarget PROVE Spec => []BehindByTail
<1>1. RiskInv /\ CacheInv => BehindByTail
  BY DEF RiskInv, CacheInv, Current, BehindByTail
<1> QED  BY <1>1, RiskInvariant, CacheInvariant, PTL

(* With one target, what a kill can take back is of the last write, and     *)
(* falls back to what the host was told before that write, whatever         *)
(* commands that do not seek came in between (scsi.c:176, 1321, 1407).      *)
THEOREM OnlyLastEverAtRisk == ASSUME OneTarget PROVE Spec => []OnlyLastAtRisk
<1>1. RiskInv /\ CacheInv => OnlyLastAtRisk
  BY DEF RiskInv, TailOfLast, CacheInv, Current, OnlyLastAtRisk
<1> QED  BY <1>1, RiskInvariant, CacheInvariant, PTL
-----------------------------------------------------------------------------
(* The LUN implements the disk with a volatile cache *)

DiskStep == [Host!CachedNext]_<<[t \in Target |-> acked], [t \in Target |-> answer], undo>>

LEMMA DiskInit == Init => Host!CachedInit
<1> SUFFICES ASSUME Init PROVE Host!CachedInit
  OBVIOUS
<1>1. acked \in [Block -> Val] /\ answer = Host!NoAnswer
  BY DEF Init, Host!NoAnswer
<1>2. undo = [t \in Target |-> Host!Nothing]
  BY DEF Init, Nothing, Host!Nothing
<1> QED  BY <1>1, <1>2 DEF Host!CachedInit, Host!Init

LEMMA ReadImplements ==
  ASSUME RiskInv, CacheInv, NEW t \in Target, OneTarget, NEW b \in Block, NEW e \in Block,
         Read(t, b, e)
  PROVE  DiskStep
<1>1. b..e \in SUBSET Block
  BY LunFileAssumption DEF LunFileAssumption, Block
<1>2. /\ acked' = acked /\ undo' = [undo EXCEPT ![t] = Nothing]
      /\ answer' = [kind |-> "read", data |-> Only(acked, b..e)]
  BY SeenCurrent DEF Read
<1>3. Only(acked, b..e) = [c \in b..e |-> acked[c]]
  BY <1>1 DEF Only, RiskInv, TypeOK
<1>4. [u \in Target |-> answer'] =
        [[u \in Target |-> answer] EXCEPT ![t] = Host!Returned([c \in b..e |-> acked[c]])]
  BY <1>2, <1>3 DEF OneTarget, Host!Returned
<1>5. Host!Settle(t)
  BY <1>2 DEF Nothing, Host!Settle, Host!Undoable
<1>6. Host!Read(t, b..e)
  BY <1>2, <1>4 DEF Host!Read, Host!Answer
<1> QED  BY <1>1, <1>5, <1>6 DEF DiskStep, Host!CachedNext

LEMMA WriteImplements ==
  ASSUME RiskInv, NEW t \in Target, OneTarget, NEW b \in Block, NEW e \in Block,
         NEW d \in [b..e -> Val], Write(t, b, e, d)
  PROVE  DiskStep
<1>1. b..e \in SUBSET Block
  BY LunFileAssumption DEF LunFileAssumption, Block
<1>2. /\ acked' = Overlay(d, acked) /\ undo' = [undo EXCEPT ![t] = Only(acked, b..e)]
      /\ answer' = Host!Written
  BY DEF Write, Host!Written
<1>3. Only(acked, b..e) = [c \in b..e |-> acked[c]] /\ DOMAIN d = b..e
  BY <1>1 DEF Only, RiskInv, TypeOK
<1>4. Host!Undoable(t, DOMAIN d)
  BY <1>2, <1>3 DEF Host!Undoable
<1>5. Host!Write(t, d)
  <2>1. [u \in Target |-> acked'] =
          [[u \in Target |-> acked] EXCEPT ![t] = Host!Overlay(d, @)]
    BY <1>2 DEF OneTarget, Overlay, Host!Overlay
  <2>2. [u \in Target |-> answer'] = [[u \in Target |-> answer] EXCEPT ![t] = Host!Written]
    BY <1>2 DEF OneTarget
  <2> QED  BY <2>1, <2>2 DEF Host!Write, Host!Answer
<1>6. d \in Host!Data
  BY <1>1 DEF Host!Data
<1> QED  BY <1>4, <1>5, <1>6 DEF DiskStep, Host!CachedNext, Host!CachedWrite

LEMMA KillImplements ==
  ASSUME RiskInv, NEW t \in Target, OneTarget, Kill(t)
  PROVE  DiskStep
<1>1. /\ acked' = Overlay(Lost(t), acked) /\ answer' = answer
      /\ undo' = [undo EXCEPT ![t] = Nothing]
  BY DEF Kill, Gone
<1>2. Host!Settle(t)
  BY <1>1 DEF Nothing, Host!Settle, Host!Undoable
<1> DEFINE S == DOMAIN tail[t] \cap DOMAIN undo[t]
<1>3. Lost(t) = [c \in S |-> undo[t][c]] /\ S \in SUBSET DOMAIN undo[t]
  BY DEF Lost, Only
<1>4. [u \in Target |-> acked'] =
        [[u \in Target |-> acked] EXCEPT ![t] = Host!Overlay([c \in S |-> undo[t][c]], @)]
  <2>1. [u \in Target |-> acked'] =
          [[u \in Target |-> acked] EXCEPT ![t] = Host!Overlay(Lost(t), @)]
    BY <1>1 DEF OneTarget, Overlay, Host!Overlay
  <2> QED  BY <1>3, <2>1
<1>5. Host!Crash(t)
  BY <1>1, <1>2, <1>3, <1>4 DEF Host!Crash
<1> QED  BY <1>5 DEF DiskStep, Host!CachedNext

LEMMA DiskNext == ASSUME OneTarget PROVE RiskInv /\ CacheInv /\ [Next]_vars => DiskStep
<1> SUFFICES ASSUME RiskInv, CacheInv, [Next]_vars PROVE DiskStep
  OBVIOUS
<1>1. ASSUME NEW t \in Target, Start(t) PROVE DiskStep
  BY <1>1 DEF Start, DiskStep
<1>2. ASSUME NEW t \in Target, ReadCapacity(t) \/ Exit(t) PROVE DiskStep
  <2>1. acked' = acked /\ answer' = answer /\ undo' = [undo EXCEPT ![t] = Nothing]
    BY <1>2 DEF ReadCapacity, Exit, Gone
  <2>2. Host!Settle(t)
    BY <2>1 DEF Nothing, Host!Settle, Host!Undoable
  <2> QED  BY <2>1, <2>2 DEF DiskStep, Host!CachedNext
<1>3. ASSUME NEW t \in Target, Kill(t) PROVE DiskStep
  BY <1>3, KillImplements
<1>4. ASSUME NEW t \in Target, NEW b \in Block, NEW e \in Block, Read(t, b, e) PROVE DiskStep
  BY <1>4, ReadImplements
<1>5. ASSUME NEW t \in Target, NEW b \in Block, NEW e \in Block, NEW d \in [b..e -> Val],
             Write(t, b, e, d)
      PROVE  DiskStep
  BY <1>5, WriteImplements
<1>6. ASSUME NEW t \in Target, LeaveStream(t) PROVE DiskStep
  <2>1. acked' = acked /\ undo' = undo /\ (answer' = Host!Attended \/ answer' = Host!Rejected)
    BY <1>6 DEF LeaveStream, Host!Attended, Host!Rejected
  <2>2. [v \in Target |-> answer'] = [[v \in Target |-> answer] EXCEPT ![t] = answer']
    BY DEF OneTarget
  <2>3. Host!Leave(t)
    BY <2>1, <2>2 DEF Host!Leave, Host!Answer
  <2> QED  BY <2>1, <2>3 DEF DiskStep, Host!CachedNext
<1>7. CASE UNCHANGED vars
  BY <1>7 DEF vars, DiskStep
<1> QED  BY <1>1, <1>2, <1>3, <1>4, <1>5, <1>6, <1>7 DEF Next

(* A LUN with one target is a disk with a volatile cache: reads return what *)
(* was last acknowledged, and a kill undoes blocks of the last write only   *)
(* (scsi.c:1321, 1407). *)
THEOREM ImplementsCachedDisk == ASSUME OneTarget PROVE Spec => DiskSpec
<1>1. Init => Host!CachedInit
  BY DiskInit
<1>2. RiskInv /\ CacheInv /\ [Next]_vars =>
        [Host!CachedNext]_<<[t \in Target |-> acked], [t \in Target |-> answer], undo>>
  BY DiskNext DEF DiskStep
<1> QED  BY <1>1, <1>2, RiskInvariant, CacheInvariant, PTL DEF Spec, DiskSpec, Host!CachedSpec
=============================================================================
