--------------------------- MODULE ReadBulkProofs ----------------------------
(***************************************************************************)
(* readBulkCtx cuts every body into its lines, whatever the size of the    *)
(* buffer and the limits.  The inductive invariant says which part of the  *)
(* body is done and that line holds exactly the rest of what was read.     *)
(***************************************************************************)
EXTENDS ReadBulk, FiniteSetTheorems, SequenceTheorems, WellFoundedInduction, TLAPS

Endings == {"EOF", "errBulkRead", "DeadlineExceeded"}
Documents == {canonical(t) : t \in Seq(Bytes)}

(* Where the line being read begins, less one.                             *)
Start == EndOf(Len(documents))

Progress ==
    /\ total = pos
    /\ LFs(pos) = Len(documents) /\ LFs(Start) = Len(documents)
    /\ Start \in 0..pos
    /\ Start # 0 => body[Start] = "LF"
    /\ Len(documents) # 0 => Start # 0
    /\ line = SubSeq(body, Start + 1, pos)
    /\ \E q \in Nat : Len(line) = q * BufSize

Settled ==
    \A k \in 1..Len(documents) : Good(k) /\ documents[k] = canonical(Text(k))

Input ==
    /\ body \in Seq(Bytes) /\ ending \in Endings
    /\ documents \in Seq(Documents) /\ pos \in 0..Len(body)

IInv ==
    /\ body \in Seq(Bytes) /\ ending \in Endings /\ documents \in Seq(Documents)
    /\ line \in Seq(Bytes)
    /\ TypeOK
    /\ result = Reading => Progress /\ Settled
    /\ ReturnsTheLines
    /\ BlamesTheLine

-----------------------------------------------------------------------------
(* A set of naturals that is not empty has a least member.                 *)
LEMMA NatLeast ==
  ASSUME NEW S \in SUBSET Nat, S # {}
  PROVE  \E n \in S : \A m \in S : n <= m
<1> DEFINE R == OpToRel(<, Nat)
<1>1. \A m, n \in Nat : <<m, n>> \in R <=> m < n
  BY Zenon DEF OpToRel
<1>2. IsWellFoundedOn(R, Nat)
  BY Zenon, NatLessThanWellFounded
<1> HIDE DEF R
<1>3. PICK n \in S : \A m \in S : <<m, n>> \notin R
  BY Zenon, <1>2, WFMin
<1>4. n \in Nat /\ \A m \in S : m \in Nat /\ ~(m < n)
  BY Zenon, <1>1, <1>3
<1>5. \A m \in S : n <= m
  BY SMTT(30), <1>4
<1> QED
  BY Zenon, <1>5

(* Min is that member.                                                     *)
LEMMA MinIsLeast ==
  ASSUME NEW S \in SUBSET Nat, S # {}
  PROVE  Min(S) \in S /\ \A m \in S : Min(S) <= m
<1>1. \E n \in S : \A m \in S : n <= m
  BY Zenon, NatLeast
<1> QED
  BY Zenon, <1>1 DEF Min

-----------------------------------------------------------------------------
(* Counting line ends.                                                     *)

(* The line ends up to i are a finite set.                                 *)
LEMMA LFsFinite ==
  ASSUME NEW i \in Nat
  PROVE  IsFiniteSet({j \in 1..i : body[j] = "LF"}) /\ LFs(i) \in Nat
<1> DEFINE E == {j \in 1..i : body[j] = "LF"}
<1>1. IsFiniteSet(1..i)
  BY SMTT(30), FS_Interval
<1>2. IsFiniteSet(E)
  BY Zenon, <1>1, FS_Subset
<1> QED
  BY Zenon, <1>2, FS_CardinalityType DEF LFs

LEMMA LFsNat == \A i \in Nat : LFs(i) \in Nat
  BY Zenon, LFsFinite

LEMMA LFsZero == LFs(0) = 0
<1>1. {j \in 1..0 : body[j] = "LF"} = {}
  BY SMTT(30)
<1> QED
  BY Zenon, <1>1, FS_EmptySet DEF LFs

(* Between two places without a line end the count is the same.            *)
LEMMA LFsSame ==
  ASSUME NEW i \in Nat, NEW j \in Nat, i <= j,
         \A k \in (i + 1)..j : body[k] # "LF"
  PROVE  LFs(j) = LFs(i)
<1>1. {k \in 1..j : body[k] = "LF"} = {k \in 1..i : body[k] = "LF"}
  BY SMTT(30)
<1> QED
  BY Zenon, <1>1 DEF LFs

(* A line end adds one.                                                    *)
LEMMA LFsNext ==
  ASSUME NEW i \in Nat, NEW j \in Nat, i < j, body[j] = "LF",
         \A k \in (i + 1)..(j - 1) : body[k] # "LF"
  PROVE  LFs(j) = LFs(i) + 1
<1> DEFINE E == {k \in 1..i : body[k] = "LF"}
<1>1. {k \in 1..j : body[k] = "LF"} = E \cup {j}
  BY SMTT(30)
<1>2. j \notin E
  BY SMTT(30)
<1>3. IsFiniteSet(E)
  BY Zenon, LFsFinite
<1> HIDE DEF E
<1>4. Cardinality(E \cup {j}) = Cardinality(E) + 1
  BY Zenon, <1>2, <1>3, FS_AddElement
<1> QED
  BY Zenon, <1>1, <1>4 DEF LFs, E

(* The count never falls, and rises strictly up to a line end.             *)
LEMMA LFsMonotonic ==
  ASSUME NEW i \in Nat, NEW j \in Nat, i <= j
  PROVE  LFs(i) <= LFs(j)
<1> DEFINE E(n) == {k \in 1..n : body[k] = "LF"}
<1>1. E(i) \subseteq E(j)
  BY SMTT(30)
<1>2. IsFiniteSet(E(j))
  BY Zenon, LFsFinite
<1>3. Cardinality(E(i)) <= Cardinality(E(j))
  <2> HIDE DEF E
  <2> QED
    BY Zenon, <1>1, <1>2, FS_Subset
<1> QED
  BY Zenon, <1>3 DEF LFs

LEMMA LFsRises ==
  ASSUME NEW i \in Nat, NEW j \in Nat, i < j, body[j] = "LF"
  PROVE  LFs(i) < LFs(j)
<1>0. i <= j
  BY SMTT(30)
<1> DEFINE E(n) == {k \in 1..n : body[k] = "LF"}
<1>1. E(i) \subseteq E(j) /\ E(i) # E(j)
  BY SMTT(30)
<1>2. IsFiniteSet(E(j))
  BY Zenon, LFsFinite
<1>3. Cardinality(E(i)) # Cardinality(E(j))
  <2> HIDE DEF E
  <2> QED
    BY Zenon, <1>1, <1>2, FS_Subset
<1>4. LFs(i) # LFs(j)
  BY Zenon, <1>3 DEF LFs
<1>5. LFs(i) <= LFs(j) /\ LFs(i) \in Nat /\ LFs(j) \in Nat
  BY Zenon, LFsMonotonic, LFsNat, <1>0
<1> QED
  BY SMTT(30), <1>4, <1>5

-----------------------------------------------------------------------------
(* Line ends.                                                              *)

(* The line end at i ends the line of its number.                          *)
LEMMA EndOfLF ==
  ASSUME body \in Seq(Bytes), NEW i \in 1..Len(body), body[i] = "LF"
  PROVE  LFs(i) \in 1..Ended /\ EndOf(LFs(i)) = i
<1>1. Len(body) \in Nat /\ i \in Nat
  BY LenProperties
<1>2. LFs(i) \in 1..Ended
  <2>1. LFs(0) < LFs(i)
    BY SMTT(30), <1>1, LFsRises
  <2>2. LFs(i) <= LFs(Len(body))
    BY SMTT(30), <1>1, LFsMonotonic
  <2>3. LFs(i) \in Nat /\ LFs(Len(body)) \in Nat
    BY Zenon, <1>1, LFsFinite
  <2> QED
    BY SMTT(30), <2>1, <2>2, <2>3, LFsZero DEF Ended
<1>3. ASSUME NEW j \in 1..Len(body), body[j] = "LF", LFs(j) = LFs(i)
      PROVE  j = i
  <2>1. j \in Nat
    BY SMTT(30)
  <2>2. ~(j < i)
    <3>1. SUFFICES ASSUME j < i PROVE FALSE
      BY Zenon
    <3>2. LFs(j) < LFs(i)
      BY Zenon, <1>1, <2>1, <3>1, LFsRises
    <3> QED
      BY SMTT(30), <1>1, <1>3, <3>2, LFsNat
  <2>3. ~(i < j)
    <3>1. SUFFICES ASSUME i < j PROVE FALSE
      BY Zenon
    <3>2. LFs(i) < LFs(j)
      BY Zenon, <1>1, <1>3, <2>1, <3>1, LFsRises
    <3> QED
      BY SMTT(30), <1>1, <1>3, <3>2, LFsNat
  <2> QED
    BY SMTT(30), <1>1, <2>1, <2>2, <2>3
<1>4. i = CHOOSE j \in 1..Len(body) : body[j] = "LF" /\ LFs(j) = LFs(i)
  BY Zenon, <1>3
<1>5. LFs(i) # 0 /\ ~(LFs(i) > Ended)
  <2>1. Ended \in Nat
    BY Zenon, <1>1, LFsNat DEF Ended
  <2> QED
    BY SMTT(30), <1>2, <2>1
<1> QED
  BY Zenon, <1>2, <1>4, <1>5 DEF EndOf

(* After p, where a line is unfinished, comes the end of that line if it   *)
(* has one.                                                                *)
LEMMA NextEnd ==
  ASSUME body \in Seq(Bytes), NEW p \in 0..Len(body), LFs(p) < Ended
  PROVE  \E e \in (p + 1)..Len(body) :
            /\ body[e] = "LF" /\ EndOf(LFs(p) + 1) = e
            /\ \A k \in (p + 1)..(e - 1) : body[k] # "LF"
<1> DEFINE E == {e \in (p + 1)..Len(body) : body[e] = "LF"}
<1>1. Len(body) \in Nat /\ p \in Nat /\ p <= Len(body)
  BY SMTT(30), LenProperties
<1>2. E # {}
  <2>1. SUFFICES ASSUME E = {} PROVE FALSE
    BY Zenon
  <2>2. \A k \in (p + 1)..Len(body) : body[k] # "LF"
    BY Zenon, <2>1
  <2>3. LFs(Len(body)) = LFs(p)
    BY Zenon, <1>1, <2>2, LFsSame
  <2> QED
    BY SMTT(30), <1>1, <2>3, LFsNat DEF Ended
<1>3. E \in SUBSET Nat
  BY SMTT(30), <1>1
<1>4. PICK e \in E : \A m \in E : e <= m
  <2> HIDE DEF E
  <2> QED
    BY Zenon, <1>2, <1>3, NatLeast
<1>5. e \in (p + 1)..Len(body) /\ body[e] = "LF"
  BY Zenon
<1>6. \A k \in (p + 1)..(e - 1) : body[k] # "LF"
  BY SMTT(30), <1>1, <1>4, <1>5
<1>7. e \in 1..Len(body) /\ e \in Nat /\ p < e
  BY SMTT(30), <1>1, <1>5
<1>8. LFs(e) = LFs(p) + 1
  BY Zenon, <1>1, <1>5, <1>6, <1>7, LFsNext
<1>9. EndOf(LFs(p) + 1) = e
  BY Zenon, <1>5, <1>7, <1>8, EndOfLF
<1> QED
  BY Zenon, <1>5, <1>6, <1>9

-----------------------------------------------------------------------------
(* Pieces of the body.                                                     *)

(* What lies between two places of the body.                               *)
LEMMA Piece ==
  ASSUME body \in Seq(Bytes), NEW a \in 0..Len(body), NEW p \in a..Len(body)
  PROVE  /\ SubSeq(body, a + 1, p) \in Seq(Bytes)
         /\ Len(SubSeq(body, a + 1, p)) = p - a
         /\ \A i \in 1..(p - a) : SubSeq(body, a + 1, p)[i] = body[a + i]
<1>1. Len(body) \in Nat /\ a \in Int /\ p \in Int /\ a + 1 \in Int /\ a <= p
  BY SMTT(30), LenProperties
<1>2. \A i \in (a + 1)..p : body[i] \in Bytes
  BY SMTT(30), <1>1, ElementOfSeq
<1>3. /\ SubSeq(body, a + 1, p) \in Seq(Bytes)
      /\ Len(SubSeq(body, a + 1, p)) = IF a + 1 <= p THEN p - (a + 1) + 1 ELSE 0
      /\ \A i \in 1..(p - (a + 1) + 1) : SubSeq(body, a + 1, p)[i] = body[a + 1 + i - 1]
  BY SMTT(30), <1>1, <1>2, SubSeqProperties
<1> QED
  BY SMTT(30), <1>1, <1>3

(* A piece without its last byte.                                          *)
LEMMA FrontOfPiece ==
  ASSUME body \in Seq(Bytes), NEW a \in 0..Len(body), NEW p \in (a + 1)..Len(body)
  PROVE  LET text == SubSeq(body, a + 1, p)
         IN  text # <<>> /\ Last(text) = body[p] /\ Front(text) = SubSeq(body, a + 1, p - 1)
<1> DEFINE text == SubSeq(body, a + 1, p)
           front == SubSeq(body, a + 1, p - 1)
<1>1. Len(body) \in Nat /\ a \in Nat /\ p \in Nat /\ a < p /\ p <= Len(body)
  BY SMTT(30), LenProperties
<1>2. /\ text \in Seq(Bytes) /\ Len(text) = p - a
      /\ \A i \in 1..(p - a) : text[i] = body[a + i]
  <2>1. p \in a..Len(body)
    BY SMTT(30), <1>1
  <2> QED
    BY Zenon, <2>1, Piece
<1>3. /\ front \in Seq(Bytes) /\ Len(front) = p - 1 - a
      /\ \A i \in 1..(p - 1 - a) : front[i] = body[a + i]
  <2>1. p - 1 \in a..Len(body)
    BY SMTT(30), <1>1
  <2> QED
    BY Zenon, <1>1, <2>1, Piece
<1> HIDE DEF text, front
<1>4. text # <<>>
  BY SMTT(30), <1>1, <1>2, EmptySeq
<1>5. Last(text) = body[p]
  BY SMTT(30), <1>1, <1>2 DEF Last
<1>6. /\ Front(text) \in Seq(Bytes) /\ Len(Front(text)) = p - 1 - a
      /\ \A i \in 1..(p - 1 - a) : Front(text)[i] = text[i]
  <2> DEFINE m == Len(text) - 1
  <2>1. \A i \in 1..m : text[i] \in Bytes
    BY SMTT(30), <1>1, <1>2, ElementOfSeq
  <2>2. m \in Int /\ 1 \in Int /\ 1 <= m + 1 /\ m - 1 + 1 = m /\ m = p - 1 - a
    BY SMTT(30), <1>1, <1>2
  <2>3. Front(text) = SubSeq(text, 1, m)
    BY Zenon DEF Front
  <2> HIDE DEF m
  <2>4. /\ SubSeq(text, 1, m) \in Seq(Bytes) /\ Len(SubSeq(text, 1, m)) = m
        /\ \A i \in 1..m : SubSeq(text, 1, m)[i] = text[i]
    BY SMTT(30), <2>1, <2>2, SubSeqProperties
  <2> QED
    BY Zenon, <2>2, <2>3, <2>4
<1>7. Front(text) = front
  <2>1. \A i \in 1..Len(front) : Front(text)[i] = front[i]
    BY SMTT(30), <1>1, <1>2, <1>3, <1>6
  <2> QED
    BY Zenon, <1>3, <1>6, <2>1, SeqEqual
<1> QED
  BY Zenon, <1>4, <1>5, <1>7 DEF text, front

(* A piece that ends with a line end, without it: the text of a line.      *)
LEMMA TrimmedPiece ==
  ASSUME body \in Seq(Bytes), NEW a \in 0..Len(body), NEW p \in (a + 1)..Len(body),
         body[p] = "LF"
  PROVE  LET text == SubSeq(body, a + 1, p)
             cut == IF p > a + 1 /\ body[p - 1] = "CR" THEN 2 ELSE 1
         IN  /\ trimLineEnd(text, TRUE) = SubSeq(body, a + 1, p - cut)
             /\ lineLen(text, TRUE) = p - cut - a
<1> DEFINE text == SubSeq(body, a + 1, p)
           front == SubSeq(body, a + 1, p - 1)
           cut == IF p > a + 1 /\ body[p - 1] = "CR" THEN 2 ELSE 1
<1>1. Len(body) \in Nat /\ a \in Nat /\ p \in Nat /\ a < p /\ p <= Len(body)
  BY SMTT(30), LenProperties
<1>2. /\ text \in Seq(Bytes) /\ Len(text) = p - a
      /\ \A i \in 1..(p - a) : text[i] = body[a + i]
  BY SMTT(30), <1>1, Piece
<1>3. text # <<>> /\ Last(text) = "LF" /\ Front(text) = front
  BY Zenon, FrontOfPiece
<1>4. CASE p > a + 1
  <2>1. p - 1 \in (a + 1)..Len(body) /\ p - 1 - 1 = p - 2
    BY SMTT(30), <1>1, <1>4
  <2>2. front # <<>> /\ Last(front) = body[p - 1] /\ Front(front) = SubSeq(body, a + 1, p - 2)
    BY Zenon, <2>1, FrontOfPiece
  <2>3. trimLineEnd(text, TRUE) = SubSeq(body, a + 1, p - cut)
    <3> HIDE DEF text, front
    <3> QED
      BY Zenon, <1>3, <1>4, <2>2 DEF trimLineEnd, front
  <2>4. text[Len(text)] = "LF" /\ text[Len(text) - 1] = body[p - 1]
    BY SMTT(30), <1>1, <1>2, <1>4
  <2>5. lineLen(text, TRUE) = p - cut - a
    <3> HIDE DEF text, front
    <3> QED
      BY SMTT(30), <1>1, <1>2, <1>4, <2>4 DEF lineLen
  <2> QED
    BY Zenon, <2>3, <2>5
<1>5. CASE ~(p > a + 1)
  <2>1. front = <<>>
    BY SMTT(30), <1>1, <1>5, SubSeqEmpty
  <2>2. trimLineEnd(text, TRUE) = SubSeq(body, a + 1, p - cut)
    <3> HIDE DEF text, front
    <3> QED
      BY Zenon, <1>3, <1>5, <2>1 DEF trimLineEnd, front
  <2>3. text[Len(text)] = "LF" /\ Len(text) = 1
    BY SMTT(30), <1>1, <1>2, <1>5
  <2>4. lineLen(text, TRUE) = p - cut - a
    <3> HIDE DEF text, front
    <3> QED
      BY SMTT(30), <1>1, <1>2, <1>5, <2>3 DEF lineLen
  <2> QED
    BY Zenon, <2>2, <2>4
<1> QED
  BY Zenon, <1>4, <1>5

(* A piece of a piece.                                                     *)
LEMMA PieceOfPiece ==
  ASSUME body \in Seq(Bytes), NEW a \in 0..Len(body), NEW n \in 0..(Len(body) - a)
  PROVE  SubSeq(SubSeq(body, a + 1, Len(body)), 1, n) = SubSeq(body, a + 1, a + n)
<1> DEFINE rest == SubSeq(body, a + 1, Len(body))
           s == SubSeq(rest, 1, n)
           t == SubSeq(body, a + 1, a + n)
<1>1. Len(body) \in Nat /\ a \in Nat /\ n \in Nat /\ a + n <= Len(body)
  BY SMTT(30), LenProperties
<1>2. /\ rest \in Seq(Bytes) /\ Len(rest) = Len(body) - a
      /\ \A i \in 1..(Len(body) - a) : rest[i] = body[a + i]
  <2>1. Len(body) \in a..Len(body)
    BY SMTT(30), <1>1
  <2> QED
    BY Zenon, <2>1, Piece
<1>3. t \in Seq(Bytes) /\ Len(t) = n /\ \A i \in 1..n : t[i] = body[a + i]
  <2>1. a + n \in a..Len(body) /\ a + n - a = n
    BY SMTT(30), <1>1
  <2>2. /\ t \in Seq(Bytes) /\ Len(t) = a + n - a
        /\ \A i \in 1..(a + n - a) : t[i] = body[a + i]
    BY SMTT(30), <1>1, <2>1, Piece
  <2> QED
    BY Zenon, <2>1, <2>2
<1>4. s \in Seq(Bytes) /\ Len(s) = n /\ \A i \in 1..n : s[i] = rest[i]
  <2> HIDE DEF rest
  <2>1. \A i \in 1..n : rest[i] \in Bytes
    BY SMTT(30), <1>1, <1>2, ElementOfSeq
  <2> QED
    BY SMTT(30), <1>1, <1>2, <2>1, SubSeqProperties
<1>5. \A i \in 1..Len(s) : s[i] = t[i]
  <2> SUFFICES ASSUME NEW i \in 1..Len(s) PROVE s[i] = t[i]
    BY Zenon
  <2> HIDE DEF rest, s, t
  <2>1. i \in 1..n /\ i \in 1..(Len(body) - a)
    BY SMTT(30), <1>1, <1>4
  <2> QED
    BY Zenon, <1>2, <1>3, <1>4, <2>1
<1> HIDE DEF s, t
<1>6. s = t
  BY Zenon, <1>3, <1>4, <1>5, SeqEqual
<1> QED
  BY Zenon, <1>6 DEF s, t

-----------------------------------------------------------------------------
(* What ReadSlice returns: the bytes up to a line end, a full buffer       *)
(* without one, or the rest of the body without one.                       *)
LEMMA SliceFacts ==
  ASSUME Input, NEW r \in ReadSlice
  PROVE  \E n \in 0..(Len(body) - pos) :
            /\ r.fragment = SubSeq(body, pos + 1, pos + n)
            /\ \/ /\ r.err = "nil" /\ n > 0 /\ body[pos + n] = "LF"
                  /\ \A k \in (pos + 1)..(pos + n - 1) : body[k] # "LF"
               \/ /\ r.err = "ErrBufferFull" /\ n = BufSize
                  /\ \A k \in (pos + 1)..(pos + n) : body[k] # "LF"
               \/ /\ r.err = ending /\ pos + n = Len(body)
                  /\ \A k \in (pos + 1)..(pos + n) : body[k] # "LF"
<1> DEFINE rest == SubSeq(body, pos + 1, Len(body))
           I == {i \in 1..Len(rest) : rest[i] = "LF"}
           lf == IF I # {} THEN Min(I) ELSE 0
           Slice(n, err) == [fragment |-> SubSeq(rest, 1, n), err |-> err]
<1>1. body \in Seq(Bytes) /\ Len(body) \in Nat /\ pos \in Nat /\ pos <= Len(body)
  BY SMTT(30), LenProperties DEF Input
<1>2. /\ rest \in Seq(Bytes) /\ Len(rest) = Len(body) - pos
      /\ \A i \in 1..(Len(body) - pos) : rest[i] = body[pos + i]
  <2>1. Len(body) \in pos..Len(body) /\ pos \in 0..Len(body)
    BY SMTT(30), <1>1
  <2> QED
    BY Zenon, <1>1, <2>1, Piece
<1>3. \/ lf \in 1..BufSize /\ r = Slice(lf, "nil")
      \/ /\ lf \notin 1..BufSize
         /\ \/ Len(rest) >= BufSize /\ r = Slice(BufSize, "ErrBufferFull")
            \/ Len(rest) <= BufSize /\ r = Slice(Len(rest), ending)
  <2>1. r \in IF lf \in 1..BufSize THEN {Slice(lf, "nil")}
              ELSE (IF Len(rest) >= BufSize THEN {Slice(BufSize, "ErrBufferFull")} ELSE {})
                   \cup (IF Len(rest) <= BufSize THEN {Slice(Len(rest), ending)} ELSE {})
    BY Zenon DEF ReadSlice, SelectInSeq
  <2> HIDE DEF Slice, lf, rest
  <2> QED
    BY Zenon, <2>1
<1>4. lf \in Nat /\ lf <= Len(rest)
      /\ (lf # 0 => rest[lf] = "LF")
      /\ \A i \in 1..Len(rest) : rest[i] = "LF" => lf # 0 /\ lf <= i
  <2> HIDE DEF rest
  <2>1. I \in SUBSET Nat
    BY SMTT(30)
  <2>2. CASE I # {}
    <3>1. lf \in I /\ \A m \in I : lf <= m
      BY Zenon, <2>1, <2>2, MinIsLeast
    <3> HIDE DEF lf
    <3> QED
      BY SMTT(30), <1>1, <1>2, <3>1
  <2>3. CASE I = {}
    <3>1. lf = 0
      BY Zenon, <2>3
    <3>2. \A i \in 1..Len(rest) : rest[i] # "LF"
      BY Zenon, <2>3
    <3>3. 0 \in Nat /\ 0 <= Len(rest)
      BY SMTT(30), <1>1, <1>2
    <3> QED
      BY Zenon, <3>1, <3>2, <3>3
  <2> QED
    BY Zenon, <2>2, <2>3
<1> HIDE DEF lf, I
<1>5. \A n \in 0..(Len(body) - pos) : SubSeq(rest, 1, n) = SubSeq(body, pos + 1, pos + n)
  BY SMTT(30), <1>1, PieceOfPiece
<1> HIDE DEF rest
<1>6. CASE lf \in 1..BufSize /\ r = Slice(lf, "nil")
  <2>1. lf \in 0..(Len(body) - pos) /\ lf > 0 /\ body[pos + lf] = "LF"
    BY SMTT(30), <1>1, <1>2, <1>4, <1>6, ReadBulkAssumption
  <2>2. \A k \in (pos + 1)..(pos + lf - 1) : body[k] # "LF"
    <3> SUFFICES ASSUME NEW k \in (pos + 1)..(pos + lf - 1) PROVE body[k] # "LF"
      BY Zenon
    <3>1. k - pos \in 1..Len(rest) /\ ~(lf <= k - pos) /\ body[k] = rest[k - pos]
      BY SMTT(30), <1>1, <1>2, <2>1
    <3> QED
      BY Zenon, <1>4, <3>1
  <2>3. r.fragment = SubSeq(body, pos + 1, pos + lf) /\ r.err = "nil"
    BY Zenon, <1>5, <1>6, <2>1
  <2> QED
    BY Zenon, <2>1, <2>2, <2>3
<1>7. CASE lf \notin 1..BufSize /\ Len(rest) >= BufSize /\ r = Slice(BufSize, "ErrBufferFull")
  <2>1. BufSize \in 0..(Len(body) - pos)
    BY SMTT(30), <1>1, <1>2, <1>7, ReadBulkAssumption
  <2>2. \A k \in (pos + 1)..(pos + BufSize) : body[k] # "LF"
    <3> SUFFICES ASSUME NEW k \in (pos + 1)..(pos + BufSize) PROVE body[k] # "LF"
      BY Zenon
    <3>1. k - pos \in 1..Len(rest) /\ k - pos <= BufSize /\ body[k] = rest[k - pos]
      BY SMTT(30), <1>1, <1>2, <2>1
    <3>2. body[k] = "LF" => lf # 0 /\ lf <= k - pos
      BY Zenon, <1>4, <3>1
    <3>3. lf # 0 /\ lf <= k - pos => lf \in 1..BufSize
      BY SMTT(30), <1>1, <1>2, <1>4, <3>1, ReadBulkAssumption
    <3> QED
      BY Zenon, <1>7, <3>2, <3>3
  <2>3. r.fragment = SubSeq(body, pos + 1, pos + BufSize) /\ r.err = "ErrBufferFull"
    BY Zenon, <1>5, <1>7, <2>1
  <2> QED
    BY Zenon, <2>1, <2>2, <2>3
<1>8. CASE lf \notin 1..BufSize /\ Len(rest) <= BufSize /\ r = Slice(Len(rest), ending)
  <2>1. Len(rest) \in 0..(Len(body) - pos) /\ pos + Len(rest) = Len(body)
    BY SMTT(30), <1>1, <1>2
  <2>2. \A k \in (pos + 1)..(pos + Len(rest)) : body[k] # "LF"
    <3> SUFFICES ASSUME NEW k \in (pos + 1)..(pos + Len(rest)) PROVE body[k] # "LF"
      BY Zenon
    <3>1. k - pos \in 1..Len(rest) /\ body[k] = rest[k - pos]
      BY SMTT(30), <1>1, <1>2, <2>1
    <3>2. body[k] = "LF" => lf # 0 /\ lf <= k - pos
      BY Zenon, <1>4, <3>1
    <3>3. lf # 0 /\ lf <= k - pos => lf \in 1..BufSize
      BY SMTT(30), <1>1, <1>2, <1>4, <1>8, <3>1, ReadBulkAssumption
    <3> QED
      BY Zenon, <1>8, <3>2, <3>3
  <2>3. r.fragment = SubSeq(body, pos + 1, pos + Len(rest)) /\ r.err = ending
    BY Zenon, <1>5, <1>8, <2>1
  <2> QED
    BY Zenon, <2>1, <2>2, <2>3
<1> QED
  BY Zenon, <1>3, <1>6, <1>7, <1>8

-----------------------------------------------------------------------------
(* The line being read, whose number is d + 1 after d documents.           *)

(* What Input and Progress say in numbers.                                 *)
LEMMA Numbers ==
  ASSUME Input, Progress
  PROVE  /\ body \in Seq(Bytes) /\ Len(body) \in Nat
         /\ pos \in Nat /\ pos <= Len(body) /\ pos \in 0..Len(body)
         /\ Len(documents) \in Nat /\ Ended \in Nat
         /\ Start \in Nat /\ Start <= pos /\ Start \in 0..Len(body)
         /\ EndOf((Len(documents) + 1) - 1) = Start
<1>1. body \in Seq(Bytes) /\ documents \in Seq(Documents) /\ pos \in 0..Len(body)
  BY Zenon DEF Input
<1>2. Len(body) \in Nat /\ Len(documents) \in Nat
  BY Zenon, <1>1, LenProperties
<1>3. Start \in 0..pos
  BY Zenon DEF Progress
<1>4. Ended \in Nat
  BY Zenon, <1>2, LFsNat DEF Ended
<1>5. (Len(documents) + 1) - 1 = Len(documents)
  BY SMTT(30), <1>2
<1>6. EndOf((Len(documents) + 1) - 1) = Start
  BY Zenon, <1>5 DEF Start
<1> QED
  BY SMTT(30), <1>1, <1>2, <1>3, <1>4, <1>6

(* Its end is found: the text is what trimLineEnd leaves, and lineLen is   *)
(* its length.                                                             *)
LEMMA CompleteLine ==
  ASSUME Input, Progress, NEW p \in (pos + 1)..Len(body), body[p] = "LF",
         \A k \in (pos + 1)..(p - 1) : body[k] # "LF"
  PROVE  LET k == Len(documents) + 1
             text == SubSeq(body, Start + 1, p)
         IN  /\ LFs(p) = k /\ EndOf(k) = p /\ k <= Ended /\ k <= Lines
             /\ Text(k) = trimLineEnd(text, TRUE)
             /\ Text(k) \in Seq(Bytes) /\ Len(Text(k)) = lineLen(text, TRUE)
<1> DEFINE d == Len(documents)
           text == SubSeq(body, Start + 1, p)
           cut == IF p > Start + 1 /\ body[p - 1] = "CR" THEN 2 ELSE 1
<1>1. /\ body \in Seq(Bytes) /\ Len(body) \in Nat /\ pos \in Nat /\ pos <= Len(body)
      /\ d \in Nat /\ Ended \in Nat /\ Start \in Nat /\ Start <= pos
      /\ Start \in 0..Len(body) /\ EndOf((d + 1) - 1) = Start
  BY Zenon, Numbers
<1>2. p \in Nat /\ p \in 1..Len(body) /\ pos < p /\ p \in (Start + 1)..Len(body) /\ Start < p
  BY SMTT(30), <1>1
<1>3. LFs(p) = d + 1
  <2>1. LFs(p) = LFs(pos) + 1
    BY Zenon, <1>1, <1>2, LFsNext
  <2> QED
    BY Zenon, <2>1 DEF Progress
<1>4. EndOf(d + 1) = p /\ d + 1 \in 1..Ended
  BY Zenon, <1>1, <1>2, <1>3, EndOfLF
<1>5. d + 1 <= Ended /\ d + 1 <= Lines
  <2>1. d + 1 <= Ended
    BY SMTT(30), <1>1, <1>4
  <2> HIDE DEF d
  <2> QED
    BY SMTT(30), <1>1, <2>1 DEF Lines
<1>6. Text(d + 1) = SubSeq(body, Start + 1, p - cut)
  <2>1. Crlf(d + 1) <=> p > Start + 1 /\ body[p - 1] = "CR"
    <3> HIDE DEF d
    <3> QED
      BY Zenon, <1>1, <1>4, <1>5 DEF Crlf
  <2> HIDE DEF d
  <2> QED
    BY Zenon, <1>1, <1>4, <1>5, <2>1 DEF Text
<1>7. trimLineEnd(text, TRUE) = SubSeq(body, Start + 1, p - cut) /\ lineLen(text, TRUE) = p - cut - Start
  BY Zenon, <1>1, <1>2, TrimmedPiece
<1>8. /\ SubSeq(body, Start + 1, p - cut) \in Seq(Bytes)
      /\ Len(SubSeq(body, Start + 1, p - cut)) = p - cut - Start
  <2>1. p - cut \in Start..Len(body)
    BY SMTT(30), <1>1, <1>2
  <2> HIDE DEF cut
  <2> QED
    BY Zenon, <1>1, <2>1, Piece
<1> QED
  BY Zenon, <1>3, <1>4, <1>5, <1>6, <1>7, <1>8

(* The body ends without another line end: what is left, if anything, is   *)
(* the last line.                                                          *)
LEMMA LastLine ==
  ASSUME Input, Progress, \A k \in (pos + 1)..Len(body) : body[k] # "LF"
  PROVE  LET k == Len(documents) + 1
         IN  /\ Ended = Len(documents) /\ EndOf(k) = Len(body)
             /\ Text(k) = SubSeq(body, Start + 1, Len(body))
             /\ Lines = IF Start < Len(body) THEN k ELSE Len(documents)
<1> DEFINE d == Len(documents)
<1>1. /\ body \in Seq(Bytes) /\ Len(body) \in Nat /\ pos \in Nat /\ pos <= Len(body)
      /\ d \in Nat /\ Ended \in Nat /\ Start \in Nat /\ Start <= pos
      /\ Start \in 0..Len(body) /\ EndOf((d + 1) - 1) = Start
  BY Zenon, Numbers
<1>2. Ended = d
  <2>1. LFs(Len(body)) = LFs(pos)
    BY Zenon, <1>1, LFsSame
  <2> QED
    BY Zenon, <2>1 DEF Progress, Ended
<1>3. d + 1 # 0 /\ d + 1 > Ended /\ ~(d + 1 <= Ended) /\ Len(body) - 0 = Len(body)
  BY SMTT(30), <1>1, <1>2
<1>4. EndOf(d + 1) = Len(body)
  BY Zenon, <1>3 DEF EndOf
<1>5. Text(d + 1) = SubSeq(body, Start + 1, Len(body))
  <2>1. ~Crlf(d + 1)
    BY Zenon, <1>3 DEF Crlf
  <2> HIDE DEF d
  <2> QED
    BY Zenon, <1>1, <1>3, <1>4, <2>1 DEF Text
<1>6. CASE Start < Len(body)
  <2>1. body # <<>>
    BY SMTT(30), <1>1, <1>6
  <2>2. Last(body) # "LF"
    <3>1. SUFFICES ASSUME Last(body) = "LF" PROVE FALSE
      BY Zenon
    <3>2. body[Len(body)] = "LF"
      BY Zenon, <3>1 DEF Last
    <3>3. LFs(Start) < LFs(Len(body))
      BY Zenon, <1>1, <1>6, <3>2, LFsRises
    <3>4. LFs(Start) = d
      BY Zenon DEF Progress
    <3> QED
      BY SMTT(30), <1>1, <1>2, <3>3, <3>4 DEF Ended
  <2>3. Lines = Ended + 1
    BY Zenon, <2>1, <2>2 DEF Lines
  <2> QED
    BY Zenon, <1>2, <1>4, <1>5, <1>6, <2>3
<1>7. CASE ~(Start < Len(body))
  <2>1. Start = Len(body)
    BY SMTT(30), <1>1, <1>7
  <2>2. body = <<>> \/ Last(body) = "LF"
    <3>1. body # <<>> => Len(body) # 0
      BY SMTT(30), <1>1
    <3>2. Start # 0 => body[Start] = "LF"
      BY Zenon DEF Progress
    <3> QED
      BY Zenon, <2>1, <3>1, <3>2 DEF Last
  <2>3. Lines = Ended + 0
    BY Zenon, <2>2 DEF Lines
  <2>4. Ended + 0 = Ended
    BY SMTT(30), <1>1
  <2> QED
    BY Zenon, <1>2, <1>4, <1>5, <1>7, <2>3, <2>4
<1> QED
  BY Zenon, <1>6, <1>7

(* A multiple leaves no remainder.                                         *)
LEMMA Multiple == \A x, b, q \in Nat : b # 0 /\ x = q * b => x % b = 0
  BY SMTT(30)

(* It is too long and its end is not read yet: it is not good, unless only *)
(* its CR is too much, and that fills a buffer.                            *)
LEMMA LongLine ==
  ASSUME Input, Progress, NEW p \in pos..Len(body),
         \A k \in (pos + 1)..p : body[k] # "LF",
         p - Start > maxLine,
         p = Len(body) \/ \E q \in Nat : p - Start = q * BufSize
  PROVE  LET k == Len(documents) + 1
         IN  k <= Lines /\ (~Good(k) \/ SplitCrlf(k))
<1> DEFINE d == Len(documents)
<1>1. /\ body \in Seq(Bytes) /\ Len(body) \in Nat /\ pos \in Nat /\ pos <= Len(body)
      /\ d \in Nat /\ Ended \in Nat /\ Start \in Nat /\ Start <= pos
      /\ Start \in 0..Len(body) /\ EndOf((d + 1) - 1) = Start
  BY Zenon, Numbers
<1>2. p \in Nat /\ p \in 0..Len(body) /\ pos <= p /\ p <= Len(body) /\ maxLine \in Nat
  BY SMTT(30), <1>1, ReadBulkAssumption
<1>3. LFs(p) = d
  <2>1. LFs(p) = LFs(pos)
    BY Zenon, <1>1, <1>2, LFsSame
  <2> QED
    BY Zenon, <2>1 DEF Progress
<1>4. CASE d < Ended
  <2>1. PICK e \in (p + 1)..Len(body) : body[e] = "LF" /\ EndOf(d + 1) = e
    BY Zenon, <1>1, <1>2, <1>3, <1>4, NextEnd
  <2>2. e \in Nat /\ p < e /\ e <= Len(body) /\ d + 1 <= Ended
    BY SMTT(30), <1>1, <1>2, <1>4, <2>1
  <2>3. d + 1 <= Lines
    <3> HIDE DEF d
    <3> QED
      BY SMTT(30), <1>1, <2>2 DEF Lines
  <2> DEFINE cut == IF Crlf(d + 1) THEN 2 ELSE 1
  <2>4. Text(d + 1) = SubSeq(body, Start + 1, e - cut)
    <3> HIDE DEF d
    <3>1. (IF Crlf(d + 1) THEN 2 ELSE IF d + 1 <= Ended THEN 1 ELSE 0) = cut
      BY Zenon, <2>2
    <3> HIDE DEF cut
    <3>2. Text(d + 1) = SubSeq(body, EndOf((d + 1) - 1) + 1, EndOf(d + 1) - cut)
      BY Zenon, <3>1 DEF Text
    <3>3. EndOf((d + 1) - 1) = Start /\ EndOf(d + 1) = e
      BY Zenon, <1>1, <2>1
    <3> QED
      BY Zenon, <3>2, <3>3
  <2>5. e - cut \in Start..Len(body)
    BY SMTT(30), <1>1, <1>2, <2>2
  <2>6. Len(Text(d + 1)) = e - cut - Start
    <3> HIDE DEF cut, d
    <3> QED
      BY Zenon, <1>1, <2>4, <2>5, Piece
  <2>7. CASE Len(Text(d + 1)) > maxLine
    <3>1. ~(Len(Text(d + 1)) <= maxLine)
      <4> HIDE DEF d
      <4> QED
        BY SMTT(30), <1>1, <1>2, <2>2, <2>6, <2>7
    <3> QED
      BY Zenon, <2>3, <3>1 DEF Good
  <2>8. CASE ~(Len(Text(d + 1)) > maxLine)
    <3>1. Crlf(d + 1) /\ Len(Text(d + 1)) = maxLine /\ p - Start = maxLine + 1 /\ p # Len(body)
      <4> HIDE DEF d
      <4> QED
        BY SMTT(30), <1>1, <1>2, <2>2, <2>6, <2>8
    <3>2. PICK q \in Nat : maxLine + 1 = q * BufSize
      BY Zenon, <3>1
    <3>3. (maxLine + 1) % BufSize = 0
      <4>1. maxLine + 1 \in Nat /\ BufSize \in Nat /\ BufSize # 0
        BY SMTT(30), ReadBulkAssumption
      <4> QED
        BY Zenon, <3>2, <4>1, Multiple
    <3> QED
      BY Zenon, <2>3, <3>1, <3>3 DEF SplitCrlf
  <2> QED
    BY Zenon, <2>7, <2>8
<1>5. CASE ~(d < Ended)
  <2>1. \A k \in (pos + 1)..Len(body) : body[k] # "LF"
    <3>1. SUFFICES ASSUME NEW k \in (pos + 1)..Len(body), body[k] = "LF" PROVE FALSE
      BY Zenon
    <3>2. k \in Nat /\ pos < k /\ k <= Len(body)
      BY SMTT(30), <1>1
    <3>3. LFs(pos) < LFs(k)
      BY Zenon, <1>1, <3>1, <3>2, LFsRises
    <3>4. LFs(k) <= Ended
      BY Zenon, <1>1, <3>2, LFsMonotonic DEF Ended
    <3>5. LFs(pos) = d /\ LFs(k) \in Nat
      BY Zenon, <3>2, LFsNat DEF Progress
    <3> QED
      BY SMTT(30), <1>1, <1>5, <3>3, <3>4, <3>5
  <2>2. Start < Len(body) /\ Len(body) - Start > maxLine /\ Len(body) \in Start..Len(body)
    BY SMTT(30), <1>1, <1>2
  <2>3. Lines = d + 1 /\ Text(d + 1) = SubSeq(body, Start + 1, Len(body))
    BY Zenon, <2>1, <2>2, LastLine
  <2>4. Len(Text(d + 1)) = Len(body) - Start
    <3> HIDE DEF d
    <3> QED
      BY Zenon, <1>1, <2>2, <2>3, Piece
  <2>5. ~(Len(Text(d + 1)) <= maxLine) /\ d + 1 <= Lines
    <3> HIDE DEF d
    <3> QED
      BY SMTT(30), <1>1, <1>2, <2>2, <2>3, <2>4
  <2> QED
    BY Zenon, <2>5 DEF Good
<1> QED
  BY Zenon, <1>4, <1>5

-----------------------------------------------------------------------------
(* A turn of the loop.                                                     *)

(* The reference is about body and ending, which never change.             *)
LEMMA SameBody ==
  ASSUME UNCHANGED <<body, ending>>
  PROVE  /\ \A k : EndOf(k)' = EndOf(k) /\ LFs(k)' = LFs(k) /\ Text(k)' = Text(k)
         /\ \A k : (Good(k)' <=> Good(k)) /\ (SplitCrlf(k)' <=> SplitCrlf(k))
         /\ Lines' = Lines /\ (Accepted' <=> Accepted)
<1>1. body' = body /\ ending' = ending
  BY Zenon
<1>2. \A k : LFs(k)' = LFs(k)
  BY Zenon, <1>1 DEF LFs
<1>3. Ended' = Ended /\ Lines' = Lines
  BY Zenon, <1>1, <1>2 DEF Ended, Lines, LFs
<1>4. \A k : EndOf(k)' = EndOf(k)
  BY SMTT(30), <1>1, <1>2, <1>3 DEF EndOf, LFs
<1>5. \A k : Crlf(k)' <=> Crlf(k)
  BY Zenon, <1>1, <1>3, <1>4 DEF Crlf
<1>6. \A k : Text(k)' = Text(k)
  <2> SUFFICES ASSUME NEW k PROVE Text(k)' = Text(k)
    BY Zenon
  <2>1. EndOf(k)' = EndOf(k) /\ EndOf(k - 1)' = EndOf(k - 1) /\ (Crlf(k)' <=> Crlf(k))
    BY Zenon, <1>4, <1>5
  <2> QED
    BY Zenon, <1>1, <1>3, <2>1 DEF Text
<1>7. \A k : (Good(k)' <=> Good(k)) /\ (SplitCrlf(k)' <=> SplitCrlf(k))
  BY Zenon, <1>5, <1>6 DEF Good, SplitCrlf
<1>8. Accepted' <=> Accepted
  BY Zenon, <1>1, <1>3, <1>7 DEF Accepted
<1> QED
  BY Zenon, <1>2, <1>3, <1>4, <1>6, <1>7, <1>8

(* What a turn begins with.                                                *)
LEMMA Turn ==
  ASSUME IInv, result = Reading
  PROVE  /\ Input /\ Progress /\ Settled
         /\ lineNumber = Len(documents) + 1 /\ Len(documents) \in Nat
         /\ Len(documents) <= maxDocs /\ total = pos
  BY Zenon, LenProperties DEF IInv, Input, Progress, TypeOK

(* readBulkCtx returns an error: for the body, or for the current line.    *)
LEMMA Refuse ==
  ASSUME IInv, result = Reading, UNCHANGED <<body, ending, line, documents, lineNumber>>,
         pos' \in 0..Len(body),
         NEW e \in {"errBulkLimit", "errInvalidDoc", "errBodyTooLarge", "errBulkEmpty",
                    "errBulkRead", "DeadlineExceeded"},
         NEW n, result' = [err |-> e, line |-> n],
         \/ n = 0 /\ ~Accepted
         \/ n = lineNumber /\ n <= Lines /\ (~Good(n) \/ SplitCrlf(n))
  PROVE  IInv'
<1>1. /\ Input /\ Progress /\ Settled
      /\ lineNumber = Len(documents) + 1 /\ Len(documents) \in Nat
      /\ Len(documents) <= maxDocs /\ total = pos
  BY Zenon, Turn
<1>2. n \in 0..(maxDocs + 1)
  BY SMTT(30), <1>1, ReadBulkAssumption
<1>3. result' # Reading /\ result'.err = e /\ result'.line = n /\ e # "nil"
  BY Zenon DEF Reading
<1>4. TypeOK'
  <2>1. result' \in [err: {"reading", "nil", "errBulkLimit", "errInvalidDoc", "errBodyTooLarge",
                "errBulkEmpty", "errBulkRead", "DeadlineExceeded"}, line: 0..(maxDocs + 1)]
    BY Zenon, <1>2
  <2>2. Len(line)' <= maxLine /\ Len(documents)' <= maxDocs /\ lineNumber' = Len(documents)' + 1
    BY Zenon, <1>1 DEF IInv, TypeOK
  <2>3. pos' \in 0..Len(body')
    BY Zenon
  <2> QED
    BY Zenon, <1>3, <2>1, <2>2, <2>3 DEF TypeOK
<1>5. Failed'
  BY Zenon, <1>3 DEF Failed
<1>6. BlamesTheLine'
  <2>1. CASE n = 0 /\ ~Accepted
    BY Zenon, <1>3, <2>1, SameBody DEF BlamesTheLine
  <2>2. CASE n = lineNumber /\ n <= Lines /\ (~Good(n) \/ SplitCrlf(n))
    <3>1. n # 0 /\ n - 1 = Len(documents)
      BY SMTT(30), <1>1, <2>2
    <3>2. \A j \in 1..(n - 1) : Good(j)
      BY Zenon, <1>1, <3>1 DEF Settled
    <3>3. \A j \in 1..(n - 1) : Good(j)'
      BY Zenon, <3>2, SameBody
    <3>4. n <= Lines' /\ (~Good(n)' \/ SplitCrlf(n)')
      BY Zenon, <2>2, SameBody
    <3> QED
      BY Zenon, <1>3, <3>1, <3>3, <3>4 DEF BlamesTheLine
  <2> QED
    BY Zenon, <2>1, <2>2
<1>7. ReturnsTheLines'
  BY Zenon, <1>5 DEF ReturnsTheLines
<1>8. body' \in Seq(Bytes) /\ ending' \in Endings /\ documents' \in Seq(Documents) /\ line' \in Seq(Bytes)
  BY Zenon DEF IInv
<1> QED
  BY Zenon, <1>3, <1>4, <1>6, <1>7, <1>8 DEF IInv

(* A document is added: the lines done so far are still settled.           *)
LEMMA Extended ==
  ASSUME Input, Settled, Good(Len(documents) + 1), Text(Len(documents) + 1) \in Seq(Bytes)
  PROVE  LET n == Len(documents) + 1
             docs == Append(documents, canonical(Text(n)))
         IN  /\ docs \in Seq(Documents) /\ Len(docs) = n
             /\ \A k \in 1..n : Good(k) /\ docs[k] = canonical(Text(k))
<1> DEFINE n == Len(documents) + 1
           doc == canonical(Text(n))
           docs == Append(documents, doc)
<1>1. documents \in Seq(Documents) /\ Len(documents) \in Nat
  BY Zenon, LenProperties DEF Input
<1>2. doc \in Documents
  BY Zenon DEF Documents
<1> HIDE DEF doc
<1>3. /\ docs \in Seq(Documents) /\ Len(docs) = n /\ docs[n] = doc
      /\ \A i \in 1..Len(documents) : docs[i] = documents[i]
  BY SMTT(30), <1>1, <1>2, AppendProperties
<1>4. ASSUME NEW k \in 1..n PROVE Good(k) /\ docs[k] = canonical(Text(k))
  <2>1. CASE k = n
    BY Zenon, <1>3, <2>1 DEF doc
  <2>2. CASE k # n
    <3>1. k \in 1..Len(documents)
      BY SMTT(30), <1>1, <2>2
    <3>2. Good(k) /\ documents[k] = canonical(Text(k))
      BY Zenon, <3>1 DEF Settled
    <3> QED
      BY Zenon, <1>3, <3>1, <3>2
  <2> QED
    BY Zenon, <2>1, <2>2
<1> USE DEF doc
<1> QED
  BY Zenon, <1>3, <1>4

(* readBulkCtx returns the documents.                                      *)
LEMMA Ends ==
  ASSUME IInv, result = Reading, UNCHANGED <<body, ending>>,
         ending = "EOF", Len(body) <= maxBytes, Lines > 0,
         pos' \in 0..Len(body), result' = [err |-> "nil", line |-> 0],
         documents' \in Seq(Documents), Len(documents') = Lines, Len(documents') <= maxDocs,
         \A k \in 1..Lines : Good(k) /\ documents'[k] = canonical(Text(k)),
         lineNumber' = Len(documents') + 1, line' \in Seq(Bytes), Len(line') <= maxLine
  PROVE  IInv'
<1>1. result' # Reading /\ result'.err = "nil"
  BY Zenon DEF Reading
<1>2. TypeOK'
  <2>1. result' \in [err: {"reading", "nil", "errBulkLimit", "errInvalidDoc", "errBodyTooLarge",
                "errBulkEmpty", "errBulkRead", "DeadlineExceeded"}, line: 0..(maxDocs + 1)]
    BY SMTT(30), ReadBulkAssumption
  <2>2. pos' \in 0..Len(body')
    BY Zenon
  <2> QED
    BY Zenon, <1>1, <2>1, <2>2 DEF TypeOK
<1>3. ~Failed'
  BY Zenon, <1>1 DEF Failed
<1>4. Accepted'
  BY Zenon, SameBody DEF Accepted
<1>5. documents' = [k \in 1..Lines |-> canonical(Text(k))]
  <2>1. documents' = [k \in 1..Len(documents') |-> documents'[k]]
    BY Zenon, LenProperties
  <2> QED
    BY Zenon, <2>1
<1>6. [k \in 1..Lines |-> canonical(Text(k))]' = [k \in 1..Lines |-> canonical(Text(k))]
  <2>1. Lines' = Lines /\ \A k : Text(k)' = Text(k)
    BY Zenon, SameBody
  <2>2. \A k : canonical(Text(k))' = canonical(Text(k))
    BY Zenon, <2>1
  <2> QED
    BY Zenon, <2>1, <2>2
<1>7. ReturnsTheLines' /\ BlamesTheLine'
  BY Zenon, <1>3, <1>4, <1>5, <1>6 DEF ReturnsTheLines, BlamesTheLine
<1>8. body' \in Seq(Bytes) /\ ending' \in Endings
  BY Zenon DEF IInv
<1> QED
  BY Zenon, <1>1, <1>2, <1>7, <1>8 DEF IInv

(* While readBulkCtx is reading, it has returned nothing.                  *)
LEMMA StillReading ==
  ASSUME result = Reading PROVE ReturnsTheLines /\ BlamesTheLine
  BY Zenon DEF ReturnsTheLines, BlamesTheLine, Failed

(* A buffer without a line end: the line goes on.                          *)
LEMMA Buffered ==
  ASSUME IInv, result = Reading,
         UNCHANGED <<body, ending, documents, lineNumber, result>>,
         NEW p \in pos..Len(body), p = pos + BufSize,
         \A k \in (pos + 1)..p : body[k] # "LF",
         pos' = p, total' = p, total' <= maxBytes,
         line' = SubSeq(body, Start + 1, p), Len(line') <= maxLine
  PROVE  IInv'
<1>1. Input /\ Progress /\ Settled
  BY Zenon, Turn
<1>2. /\ body \in Seq(Bytes) /\ Len(body) \in Nat /\ pos \in Nat /\ pos <= Len(body)
      /\ Start \in Nat /\ Start <= pos /\ Start \in 0..Len(body)
  BY Zenon, <1>1, Numbers
<1>3. /\ p \in Nat /\ pos <= p /\ Start \in 0..p /\ p \in Start..Len(body) /\ p \in 0..Len(body)
      /\ pos \in Start..Len(body)
  BY SMTT(30), <1>2
<1>4. Start' = Start /\ Len(documents)' = Len(documents)
  <2>1. \A k : EndOf(k)' = EndOf(k)
    BY Zenon, SameBody
  <2> QED
    BY Zenon, <2>1 DEF Start
<1>5. line' \in Seq(Bytes) /\ Len(line') = p - Start
  BY Zenon, <1>2, <1>3, Piece
<1>6. \E q \in Nat : Len(line') = q * BufSize
  <2>1. PICK q \in Nat : Len(line) = q * BufSize
    BY Zenon, <1>1 DEF Progress
  <2>2. Len(line) = pos - Start
    BY Zenon, <1>1, <1>2, <1>3, Piece DEF Progress
  <2>3. q + 1 \in Nat /\ (q + 1) * BufSize = q * BufSize + BufSize
    BY SMTT(30), ReadBulkAssumption
  <2>4. Len(line') = q * BufSize + BufSize
    BY SMTT(30), <1>2, <1>3, <1>5, <2>1, <2>2, ReadBulkAssumption
  <2> QED
    BY Zenon, <2>3, <2>4
<1>7. LFs(p) = Len(documents) /\ LFs(Start) = Len(documents)
  BY Zenon, <1>1, <1>2, <1>3, LFsSame DEF Progress
<1>8. (\A k : LFs(k)' = LFs(k)) /\ (\A k : Good(k)' <=> Good(k)) /\ (\A k : Text(k)' = Text(k))
  BY Zenon, SameBody
<1>9. Progress'
  <2>1. LFs(pos)' = Len(documents') /\ LFs(Start)' = Len(documents')
    <3>1. LFs(pos)' = LFs(p) /\ LFs(Start)' = LFs(Start)
      BY Zenon, <1>4, <1>8 DEF LFs
    <3> QED
      BY Zenon, <1>4, <1>7, <3>1
  <2>2. Start' \in 0..pos' /\ (Start' # 0 => body'[Start'] = "LF") /\ (Len(documents') # 0 => Start' # 0)
    BY Zenon, <1>1, <1>3, <1>4 DEF Progress
  <2>3. line' = SubSeq(body', Start' + 1, pos') /\ total' = pos'
    BY Zenon, <1>4
  <2> QED
    BY Zenon, <1>6, <2>1, <2>2, <2>3 DEF Progress
<1>10. Settled'
  <2>1. \A k : canonical(Text(k))' = canonical(Text(k))
    BY Zenon, <1>8
  <2> QED
    BY Zenon, <1>1, <1>4, <1>8, <2>1 DEF Settled
<1>11. TypeOK'
  <2>1. result' = result /\ documents' = documents /\ lineNumber' = lineNumber /\ pos' \in 0..Len(body')
    BY Zenon, <1>3
  <2> QED
    BY Zenon, <2>1 DEF IInv, TypeOK
<1>12. ReturnsTheLines' /\ BlamesTheLine'
  BY Zenon, StillReading DEF ReturnsTheLines, BlamesTheLine, Failed, Reading
<1>13. body' \in Seq(Bytes) /\ ending' \in Endings /\ documents' \in Seq(Documents)
  BY Zenon DEF IInv
<1> QED
  BY Zenon, <1>5, <1>9, <1>10, <1>11, <1>12, <1>13 DEF IInv

(* A good line that ends with LF: it is settled and the next one begins.   *)
LEMMA NextLine ==
  ASSUME IInv, result = Reading, UNCHANGED <<body, ending, result>>,
         NEW p \in (pos + 1)..Len(body), body[p] = "LF",
         \A k \in (pos + 1)..(p - 1) : body[k] # "LF",
         pos' = p, total' = p, total' <= maxBytes, Good(Len(documents) + 1),
         documents' = Append(documents, canonical(Text(Len(documents) + 1))),
         line' = <<>>, lineNumber' = lineNumber + 1
  PROVE  IInv'
<1> DEFINE d == Len(documents)
<1>1. Input /\ Progress /\ Settled /\ lineNumber = d + 1
  BY Zenon, Turn
<1>2. /\ body \in Seq(Bytes) /\ Len(body) \in Nat /\ pos \in Nat /\ pos <= Len(body)
      /\ d \in Nat
  BY Zenon, <1>1, Numbers
<1>3. p \in Nat /\ p # 0 /\ p \in 0..p /\ p \in 0..Len(body) /\ p \in p..Len(body) /\ p - p = 0
  BY SMTT(30), <1>2
<1>4. LFs(p) = d + 1 /\ EndOf(d + 1) = p /\ Text(d + 1) \in Seq(Bytes)
  BY Zenon, <1>1, CompleteLine
<1>5. /\ documents' \in Seq(Documents) /\ Len(documents') = d + 1
      /\ \A k \in 1..(d + 1) : Good(k) /\ documents'[k] = canonical(Text(k))
  BY Zenon, <1>1, <1>4, Extended
<1>6. Start' = p
  <2>1. body' = body
    BY Zenon
  <2>2. Start' = EndOf(Len(documents'))
    <3> DEFINE end(b, k) ==
                 IF k = 0 THEN 0
                 ELSE IF k > Cardinality({j \in 1..Len(b) : b[j] = "LF"}) THEN Len(b)
                 ELSE CHOOSE i \in 1..Len(b) :
                        b[i] = "LF" /\ Cardinality({j \in 1..i : b[j] = "LF"}) = k
    <3>1. Start' = end(body', Len(documents'))
      BY Zenon DEF Start, EndOf, Ended, LFs
    <3>2. EndOf(Len(documents')) = end(body, Len(documents'))
      BY Zenon DEF EndOf, Ended, LFs
    <3> HIDE DEF end
    <3> QED
      BY Zenon, <2>1, <3>1, <3>2
  <2> QED
    BY Zenon, <1>4, <1>5, <2>2
<1>7. line' = SubSeq(body', Start' + 1, pos') /\ \E q \in Nat : Len(line') = q * BufSize
  <2>1. SubSeq(body, p + 1, p) \in Seq(Bytes) /\ Len(SubSeq(body, p + 1, p)) = 0
    BY Zenon, <1>2, <1>3, Piece
  <2>2. SubSeq(body, p + 1, p) = <<>>
    BY Zenon, <2>1, EmptySeq
  <2>3. 0 \in Nat /\ Len(<<>>) = 0 * BufSize
    BY SMTT(30), ReadBulkAssumption
  <2> QED
    BY Zenon, <1>6, <2>2, <2>3
<1>8. LFs(pos)' = d + 1 /\ LFs(Start)' = d + 1
  <2>1. \A k : LFs(k)' = LFs(k)
    BY Zenon, SameBody
  <2>2. LFs(pos)' = LFs(p) /\ LFs(Start)' = LFs(p)
    BY Zenon, <1>6, <2>1 DEF LFs
  <2> QED
    BY Zenon, <1>4, <2>2
<1>9. Progress'
  BY Zenon, <1>3, <1>5, <1>6, <1>7, <1>8 DEF Progress
<1>10. Settled'
  <2>1. (\A k : Good(k)' <=> Good(k)) /\ (\A k : Text(k)' = Text(k))
    BY Zenon, SameBody
  <2>2. \A k : canonical(Text(k))' = canonical(Text(k))
    BY Zenon, <2>1
  <2> QED
    BY Zenon, <1>5, <2>1, <2>2 DEF Settled
<1>11. TypeOK'
  <2>1. d + 1 <= maxDocs
    BY Zenon DEF Good
  <2>2. Len(line') <= maxLine
    BY SMTT(30), ReadBulkAssumption
  <2>3. pos' \in 0..Len(body') /\ lineNumber' = Len(documents') + 1 /\ Len(documents') <= maxDocs
    BY Zenon, <1>1, <1>3, <1>5, <2>1
  <2> QED
    BY Zenon, <2>2, <2>3 DEF IInv, TypeOK
<1>12. ReturnsTheLines' /\ BlamesTheLine'
  BY Zenon DEF ReturnsTheLines, BlamesTheLine, Failed, Reading
<1>13. body' \in Seq(Bytes) /\ ending' \in Endings /\ line' \in Seq(Bytes)
  BY Zenon, EmptySeq DEF IInv
<1> QED
  BY Zenon, <1>5, <1>9, <1>10, <1>11, <1>12, <1>13 DEF IInv

(* The errors validateDoc returns are errors of readBulkCtx.               *)
LEMMA ValidateErrors ==
  ASSUME NEW text PROVE validateDoc(text) \in {"nil", "errInvalidDoc", "errBodyTooLarge"}
  BY Zenon DEF validateDoc

(* AddDoc, on the text of the line being read.                             *)
LEMMA AddDocStep ==
  ASSUME IInv, result = Reading, UNCHANGED <<body, ending>>,
         Len(documents) + 1 <= Lines,
         Text(Len(documents) + 1) \in Seq(Bytes), Len(Text(Len(documents) + 1)) <= maxLine,
         pos' \in 0..Len(body), NEW err,
         AddDoc(Text(Len(documents) + 1), err)
  PROVE  \/ IInv'
         \/ /\ Good(Len(documents) + 1)
            /\ documents' = Append(documents, canonical(Text(Len(documents) + 1)))
            /\ line' = <<>> /\ lineNumber' = lineNumber + 1
            /\ result' = IF err = "EOF" THEN [err |-> "nil", line |-> 0] ELSE result
<1> DEFINE n == Len(documents) + 1
           text == Text(n)
<1>1. Len(documents) \in Nat /\ lineNumber = n
  BY Zenon, Turn
<1>2. ASSUME ~Good(n),
             NEW e \in {"errBulkLimit", "errInvalidDoc", "errBodyTooLarge", "errBulkEmpty",
                        "errBulkRead", "DeadlineExceeded"},
             Return(e, lineNumber)
      PROVE  IInv'
  BY Zenon, <1>1, <1>2, Refuse DEF Return
<1>3. CASE text = <<>>
  <2>1. ~Good(n) /\ Return("errInvalidDoc", lineNumber)
    BY Zenon, <1>3 DEF Good, AddDoc
  <2> QED
    BY Zenon, <1>2, <2>1
<1>4. CASE text # <<>> /\ Len(documents) >= maxDocs
  <2>1. ~(n <= maxDocs)
    BY SMTT(30), <1>1, <1>4, ReadBulkAssumption
  <2>2. ~Good(n) /\ Return("errBulkLimit", lineNumber)
    BY Zenon, <1>4, <2>1 DEF Good, AddDoc
  <2> QED
    BY Zenon, <1>2, <2>2
<1>5. CASE text # <<>> /\ ~(Len(documents) >= maxDocs) /\ validateDoc(text) # "nil"
  <2>1. ~Good(n) /\ Return(validateDoc(text), lineNumber)
    BY Zenon, <1>5 DEF Good, AddDoc
  <2>2. validateDoc(text) \in {"errInvalidDoc", "errBodyTooLarge"}
    BY Zenon, <1>5, ValidateErrors
  <2> QED
    BY Zenon, <1>2, <2>1, <2>2
<1>6. CASE text # <<>> /\ ~(Len(documents) >= maxDocs) /\ validateDoc(text) = "nil"
  <2>1. n <= maxDocs
    BY SMTT(30), <1>1, <1>6, ReadBulkAssumption
  <2>2. Good(n)
    BY Zenon, <1>6, <2>1 DEF Good
  <2> QED
    BY Zenon, <1>6, <2>2 DEF AddDoc
<1> QED
  BY Zenon, <1>3, <1>4, <1>5, <1>6

(* What ReadSlice returns continues the line.                              *)
LEMMA TextRead ==
  ASSUME Input, Progress, NEW n \in 0..(Len(body) - pos), NEW fragment,
         fragment = SubSeq(body, pos + 1, pos + n)
  PROVE  /\ Len(fragment) = n
         /\ line \o fragment = SubSeq(body, Start + 1, pos + n)
         /\ Len(SubSeq(body, Start + 1, pos + n)) = (pos + n) - Start
         /\ SubSeq(body, Start + 1, pos + n) \in Seq(Bytes)
         /\ pos + n \in 0..Len(body) /\ pos + n \in pos..Len(body) /\ pos + n \in Nat
<1>1. /\ body \in Seq(Bytes) /\ Len(body) \in Nat /\ pos \in Nat /\ pos <= Len(body)
      /\ pos \in 0..Len(body) /\ Start \in Nat /\ Start <= pos /\ Start \in 0..Len(body)
  BY Zenon, Numbers
<1> DEFINE p == pos + n
<1>2. /\ p \in pos..Len(body) /\ p \in Start..Len(body) /\ p - pos = n /\ p \in 0..Len(body)
      /\ Start + 1 \in 1..(Len(body) + 1) /\ pos \in (Start + 1 - 1)..Len(body) /\ p \in Nat
  BY SMTT(30), <1>1
<1> HIDE DEF p
<1>3. fragment = SubSeq(body, pos + 1, p)
  BY Zenon DEF p
<1>4. Len(fragment) = n
  BY Zenon, <1>1, <1>2, <1>3, Piece
<1>5. SubSeq(body, Start + 1, pos) \o SubSeq(body, pos + 1, p) = SubSeq(body, Start + 1, p)
  BY SMTT(30), <1>1, <1>2, ConcatAdjacentSubSeq
<1>6. line = SubSeq(body, Start + 1, pos)
  BY Zenon DEF Progress
<1>7. Len(SubSeq(body, Start + 1, p)) = p - Start /\ SubSeq(body, Start + 1, p) \in Seq(Bytes)
  BY Zenon, <1>1, <1>2, Piece
<1> QED
  BY Zenon, <1>2, <1>3, <1>4, <1>5, <1>6, <1>7 DEF p

(* The end of the body after the last LF: what was read is returned.       *)
LEMMA FinishStep ==
  ASSUME IInv, result = Reading, UNCHANGED <<body, ending>>,
         ending = "EOF", Start = Len(body), Len(body) <= maxBytes,
         \A k \in (pos + 1)..Len(body) : body[k] # "LF",
         pos' \in 0..Len(body), Finish
  PROVE  IInv'
<1>1. Input /\ Progress /\ Settled /\ Len(documents) \in Nat /\ Len(body) \in Nat
  BY Zenon, Turn, Numbers
<1>2. Lines = Len(documents)
  <2>1. ~(Start < Len(body))
    BY SMTT(30), <1>1
  <2> QED
    BY Zenon, <1>1, <2>1, LastLine
<1>3. CASE documents = <<>>
  <2>1. Return("errBulkEmpty", 0)
    BY Zenon, <1>3 DEF Finish
  <2>2. ~(Lines > 0)
    BY SMTT(30), <1>2, <1>3
  <2>3. ~Accepted
    BY Zenon, <2>2 DEF Accepted
  <2> QED
    BY Zenon, <2>1, <2>3, Refuse DEF Return
<1>4. CASE documents # <<>>
  <2>1. Return("nil", 0)
    BY Zenon, <1>4 DEF Finish
  <2>2. Lines > 0
    <3>1. Len(documents) # 0
      BY Zenon, <1>4, EmptySeq DEF IInv
    <3> QED
      BY SMTT(30), <1>1, <1>2, <3>1
  <2>3. /\ result' = [err |-> "nil", line |-> 0]
        /\ line' = line /\ documents' = documents /\ lineNumber' = lineNumber
    BY Zenon, <2>1 DEF Return
  <2>4. \A k \in 1..Lines : Good(k) /\ documents'[k] = canonical(Text(k))
    BY Zenon, <1>1, <1>2, <2>3 DEF Settled
  <2>5. /\ documents' \in Seq(Documents) /\ Len(documents') = Lines /\ Len(documents') <= maxDocs
        /\ lineNumber' = Len(documents') + 1 /\ line' \in Seq(Bytes) /\ Len(line') <= maxLine
    BY Zenon, <1>2, <2>3 DEF IInv, TypeOK
  <2> QED
    BY Zenon, <2>2, <2>3, <2>4, <2>5, Ends
<1> QED
  BY Zenon, <1>3, <1>4

(* One turn of the loop keeps the invariant: a step for each thing that    *)
(* ReadSlice returns.                                                      *)
LEMMA TurnIInv ==
  ASSUME IInv, readBulkCtx
  PROVE  IInv'
<1>1. result = Reading /\ UNCHANGED <<body, ending>>
  BY Zenon DEF readBulkCtx
<1>2. /\ Input /\ Progress /\ Settled
      /\ lineNumber = Len(documents) + 1 /\ Len(documents) \in Nat
      /\ Len(documents) <= maxDocs /\ total = pos
  BY Zenon, <1>1, Turn
<1>3. /\ body \in Seq(Bytes) /\ Len(body) \in Nat /\ pos \in Nat /\ pos <= Len(body)
      /\ Start \in Nat /\ Start <= pos /\ Start \in 0..Len(body)
  BY Zenon, <1>2, Numbers
<1>4. PICK r \in ReadSlice :
         LET text == line \o r.fragment
             complete == r.err = "nil"
         IN  /\ pos' = pos + Len(r.fragment)
             /\ total' = total + Len(r.fragment)
             /\ IF total' > maxBytes THEN Return("errBulkLimit", 0)
                ELSE IF lineLen(text, complete) > maxLine
                THEN Return("errBulkLimit", lineNumber)
                ELSE IF r.err = "ErrBufferFull"
                THEN line' = text /\ UNCHANGED <<documents, lineNumber, result>>
                ELSE IF r.err \notin {"nil", "EOF"} THEN Return(r.err, 0)
                ELSE IF r.err = "EOF" /\ text = <<>> THEN Finish
                ELSE AddDoc(trimLineEnd(text, complete), r.err)
  BY Zenon DEF readBulkCtx
<1>5. PICK n \in 0..(Len(body) - pos) :
         /\ r.fragment = SubSeq(body, pos + 1, pos + n)
         /\ \/ /\ r.err = "nil" /\ n > 0 /\ body[pos + n] = "LF"
               /\ \A k \in (pos + 1)..(pos + n - 1) : body[k] # "LF"
            \/ /\ r.err = "ErrBufferFull" /\ n = BufSize
               /\ \A k \in (pos + 1)..(pos + n) : body[k] # "LF"
            \/ /\ r.err = ending /\ pos + n = Len(body)
               /\ \A k \in (pos + 1)..(pos + n) : body[k] # "LF"
  BY Zenon, <1>2, SliceFacts
<1> DEFINE p == pos + n
           text == SubSeq(body, Start + 1, p)
           k == Len(documents) + 1
<1>6. /\ Len(r.fragment) = n /\ line \o r.fragment = text
      /\ Len(text) = p - Start /\ text \in Seq(Bytes)
      /\ p \in 0..Len(body) /\ p \in pos..Len(body) /\ p \in Nat
  BY Zenon, <1>2, <1>5, TextRead
<1>7. pos' = p /\ total' = p
  BY Zenon, <1>2, <1>4, <1>6
<1>8. IF p > maxBytes THEN Return("errBulkLimit", 0)
      ELSE IF lineLen(text, r.err = "nil") > maxLine THEN Return("errBulkLimit", lineNumber)
      ELSE IF r.err = "ErrBufferFull"
      THEN line' = text /\ UNCHANGED <<documents, lineNumber, result>>
      ELSE IF r.err \notin {"nil", "EOF"} THEN Return(r.err, 0)
      ELSE IF r.err = "EOF" /\ text = <<>> THEN Finish
      ELSE AddDoc(trimLineEnd(text, r.err = "nil"), r.err)
  BY Zenon, <1>4, <1>6, <1>7
<1>9. p \in Nat /\ pos <= p /\ p <= Len(body) /\ maxBytes \in Nat /\ maxLine \in Nat
  BY SMTT(30), <1>3, <1>6, ReadBulkAssumption
<1> HIDE DEF p, text, k
<1>10. pos' \in 0..Len(body)
  BY Zenon, <1>6, <1>7
<1>11. CASE p > maxBytes
  <2>1. ~(Len(body) <= maxBytes)
    BY SMTT(30), <1>3, <1>9, <1>11
  <2>2. ~Accepted
    BY Zenon, <2>1 DEF Accepted
  <2>3. Return("errBulkLimit", 0)
    BY Zenon, <1>8, <1>11
  <2> QED
    BY Zenon, <1>1, <1>10, <2>2, <2>3, Refuse DEF Return
<1>12. ASSUME k <= Lines, ~Good(k) \/ SplitCrlf(k), Return("errBulkLimit", lineNumber)
       PROVE  IInv'
  BY Zenon, <1>1, <1>2, <1>10, <1>12, Refuse DEF Return, k
<1>13. CASE ~(p > maxBytes) /\ r.err = "nil"
  <2>1. /\ n > 0 /\ body[p] = "LF" /\ \A j \in (pos + 1)..(p - 1) : body[j] # "LF"
    <3>1. ending # "nil" /\ "ErrBufferFull" # "nil"
      BY Zenon DEF IInv, Endings
    <3>2. n > 0 /\ body[pos + n] = "LF" /\ \A j \in (pos + 1)..(pos + n - 1) : body[j] # "LF"
      BY Zenon, <1>5, <1>13, <3>1
    <3> QED
      BY SMTT(30), <1>3, <3>2 DEF p
  <2>2. p \in (pos + 1)..Len(body)
    BY SMTT(30), <1>3, <1>9, <2>1 DEF p
  <2>3. /\ k <= Lines /\ Text(k) = trimLineEnd(text, TRUE)
        /\ Text(k) \in Seq(Bytes) /\ Len(Text(k)) = lineLen(text, TRUE)
    BY Zenon, <1>2, <2>1, <2>2, CompleteLine DEF k, text
  <2>4. (r.err = "nil") = TRUE
    BY Zenon, <1>13
  <2>5. CASE lineLen(text, TRUE) > maxLine
    <3>1. ~(Len(Text(k)) <= maxLine)
      <4>1. Len(Text(k)) \in Nat
        BY Zenon, <2>3, LenProperties
      <4>2. Len(Text(k)) > maxLine
        BY Zenon, <2>3, <2>5
      <4> QED
        BY SMTT(30), <1>9, <4>1, <4>2
    <3>2. ~Good(k)
      BY Zenon, <3>1 DEF Good
    <3>3. Return("errBulkLimit", lineNumber)
      BY Zenon, <1>8, <1>13, <2>4, <2>5
    <3> QED
      BY Zenon, <1>12, <2>3, <3>2, <3>3
  <2>6. CASE ~(lineLen(text, TRUE) > maxLine)
    <3>1. AddDoc(Text(k), "nil")
      <4>1. "nil" \in {"nil", "EOF"} /\ "nil" # "EOF" /\ "nil" # "ErrBufferFull"
        BY Zenon
      <4> QED
        BY Zenon, <1>8, <1>13, <2>3, <2>4, <2>6, <4>1
    <3>2. Len(Text(k)) <= maxLine
      <4>1. Len(Text(k)) \in Nat
        BY Zenon, <2>3, LenProperties
      <4>2. ~(Len(Text(k)) > maxLine)
        BY Zenon, <2>3, <2>6
      <4> QED
        BY SMTT(30), <1>9, <4>1, <4>2
    <3>3. \/ IInv'
          \/ /\ Good(k) /\ documents' = Append(documents, canonical(Text(k)))
             /\ line' = <<>> /\ lineNumber' = lineNumber + 1
             /\ result' = IF "nil" = "EOF" THEN [err |-> "nil", line |-> 0] ELSE result
      BY Zenon, <1>1, <1>10, <2>3, <3>1, <3>2, AddDocStep DEF k
    <3>4. "nil" # "EOF" /\ total' <= maxBytes
      BY SMTT(30), <1>7, <1>9, <1>13
    <3> QED
      BY Zenon, <1>1, <1>7, <2>1, <2>2, <3>3, <3>4, NextLine DEF k
  <2> QED
    BY Zenon, <2>5, <2>6
<1>14. ASSUME ~(p > maxBytes), r.err # "nil"
       PROVE  /\ \A j \in (pos + 1)..p : body[j] # "LF"
              /\ lineLen(text, r.err = "nil") = p - Start
              /\ \/ r.err = "ErrBufferFull" /\ n = BufSize
                 \/ r.err = ending /\ p = Len(body)
  <2>1. lineLen(text, r.err = "nil") = Len(text)
    BY Zenon, <1>14 DEF lineLen
  <2> QED
    BY Zenon, <1>5, <1>6, <1>14, <2>1 DEF p
<1>15. CASE ~(p > maxBytes) /\ r.err # "nil" /\ p - Start > maxLine
  <2>1. /\ \A j \in (pos + 1)..p : body[j] # "LF"
        /\ Return("errBulkLimit", lineNumber)
    BY Zenon, <1>8, <1>14, <1>15
  <2>2. p = Len(body) \/ \E q \in Nat : p - Start = q * BufSize
    <3>1. CASE p = Len(body)
      BY Zenon, <3>1
    <3>2. CASE n = BufSize
      <4>1. PICK q \in Nat : Len(line) = q * BufSize
        BY Zenon, <1>2 DEF Progress
      <4>2. Len(line) = pos - Start
        <5>1. pos \in Start..Len(body)
          BY SMTT(30), <1>3
        <5> QED
          BY Zenon, <1>2, <1>3, <5>1, Piece DEF Progress
      <4>3. q + 1 \in Nat /\ (q + 1) * BufSize = q * BufSize + BufSize
        BY SMTT(30), ReadBulkAssumption
      <4>4. p - Start = q * BufSize + BufSize
        BY SMTT(30), <1>3, <3>2, <4>1, <4>2, ReadBulkAssumption DEF p
      <4> QED
        BY Zenon, <4>3, <4>4
    <3> QED
      BY Zenon, <1>14, <1>15, <3>1, <3>2
  <2>3. k <= Lines /\ (~Good(k) \/ SplitCrlf(k))
    BY Zenon, <1>2, <1>6, <1>15, <2>1, <2>2, LongLine DEF k
  <2> QED
    BY Zenon, <1>12, <2>1, <2>3
<1>16. CASE ~(p > maxBytes) /\ r.err # "nil" /\ ~(p - Start > maxLine) /\ r.err = "ErrBufferFull"
  <2>1. ending # "ErrBufferFull"
    BY Zenon DEF IInv, Endings
  <2>2. (\A j \in (pos + 1)..p : body[j] # "LF") /\ p = pos + BufSize
    BY Zenon, <1>14, <1>16, <2>1 DEF p
  <2>3. line' = text /\ UNCHANGED <<documents, lineNumber, result>>
    BY Zenon, <1>8, <1>14, <1>16
  <2>4. total' <= maxBytes /\ Len(line') <= maxLine
    BY SMTT(30), <1>3, <1>6, <1>7, <1>9, <1>16, <2>3
  <2> QED
    BY Zenon, <1>1, <1>6, <1>7, <2>2, <2>3, <2>4, Buffered DEF text
<1>17. ASSUME ~(p > maxBytes), r.err # "nil", ~(p - Start > maxLine), r.err # "ErrBufferFull"
       PROVE  /\ r.err = ending /\ p = Len(body) /\ \A j \in (pos + 1)..Len(body) : body[j] # "LF"
              /\ IF ending # "EOF" THEN Return(ending, 0)
                 ELSE IF text = <<>> THEN Finish ELSE AddDoc(text, "EOF")
  <2>1. r.err = ending /\ p = Len(body) /\ \A j \in (pos + 1)..Len(body) : body[j] # "LF"
    BY Zenon, <1>14, <1>17
  <2>2. trimLineEnd(text, r.err = "nil") = text
    BY Zenon, <1>17 DEF trimLineEnd
  <2>3. ending = "EOF" => ending \in {"nil", "EOF"}
    BY Zenon
  <2>4. ending # "EOF" => ending \notin {"nil", "EOF"}
    BY Zenon, <1>17, <2>1
  <2> QED
    BY Zenon, <1>8, <1>14, <1>17, <2>1, <2>2, <2>3, <2>4
<1>18. CASE /\ ~(p > maxBytes) /\ r.err # "nil" /\ ~(p - Start > maxLine) /\ r.err # "ErrBufferFull"
            /\ ending # "EOF"
  <2>1. Return(ending, 0) /\ ~Accepted
    BY Zenon, <1>17, <1>18 DEF Accepted
  <2>2. ending \in {"errBulkRead", "DeadlineExceeded"}
    BY Zenon, <1>18 DEF IInv, Endings
  <2> QED
    BY Zenon, <1>1, <1>10, <2>1, <2>2, Refuse DEF Return
<1>19. CASE /\ ~(p > maxBytes) /\ r.err # "nil" /\ ~(p - Start > maxLine) /\ r.err # "ErrBufferFull"
            /\ ending = "EOF"
  <2>1. /\ p = Len(body) /\ \A j \in (pos + 1)..Len(body) : body[j] # "LF"
        /\ IF text = <<>> THEN Finish ELSE AddDoc(text, "EOF")
    BY Zenon, <1>17, <1>19
  <2>2. Len(body) <= maxBytes
    BY SMTT(30), <1>3, <1>9, <1>19, <2>1
  <2>3. CASE text = <<>>
    <3>1. Len(text) = 0
      BY Zenon, <2>3
    <3>2. Start = Len(body)
      BY SMTT(30), <1>3, <1>6, <2>1, <3>1
    <3> QED
      BY Zenon, <1>1, <1>10, <1>19, <2>1, <2>2, <2>3, <3>2, FinishStep
  <2>4. CASE text # <<>>
    <3>1. Len(text) # 0 /\ Len(text) <= maxLine
      <4>1. Len(text) # 0
        BY Zenon, <1>6, <2>4, EmptySeq
      <4> QED
        BY SMTT(30), <1>3, <1>6, <1>9, <1>19, <4>1
    <3>2. Start < Len(body)
      BY SMTT(30), <1>3, <1>6, <2>1, <3>1
    <3>3. Lines = k /\ Text(k) = text
      BY Zenon, <1>2, <2>1, <3>2, LastLine DEF k, text
    <3>4. k <= Lines /\ Lines > 0
      BY SMTT(30), <1>2, <3>3 DEF k
    <3>5. \/ IInv'
          \/ /\ Good(k) /\ documents' = Append(documents, canonical(Text(k)))
             /\ line' = <<>> /\ lineNumber' = lineNumber + 1
             /\ result' = IF "EOF" = "EOF" THEN [err |-> "nil", line |-> 0] ELSE result
      BY Zenon, <1>1, <1>6, <1>10, <2>1, <2>4, <3>1, <3>3, <3>4, AddDocStep DEF k
    <3>6. CASE /\ Good(k) /\ documents' = Append(documents, canonical(Text(k)))
               /\ line' = <<>> /\ lineNumber' = lineNumber + 1
               /\ result' = [err |-> "nil", line |-> 0]
      <4>1. /\ documents' \in Seq(Documents) /\ Len(documents') = k
            /\ \A j \in 1..k : Good(j) /\ documents'[j] = canonical(Text(j))
        BY Zenon, <1>2, <1>6, <3>3, <3>6, Extended DEF k
      <4>2. Len(documents') <= maxDocs /\ lineNumber' = Len(documents') + 1
        BY Zenon, <1>2, <3>6, <4>1 DEF Good, k
      <4>3. line' \in Seq(Bytes) /\ Len(line') <= maxLine
        BY SMTT(30), <1>9, <3>6
      <4> QED
        BY Zenon, <1>1, <1>10, <1>19, <2>2, <3>3, <3>4, <3>6, <4>1, <4>2, <4>3, Ends
    <3> QED
      BY Zenon, <3>5, <3>6
  <2> QED
    BY Zenon, <2>3, <2>4
<1> QED
  BY Zenon, <1>11, <1>13, <1>15, <1>16, <1>18, <1>19

-----------------------------------------------------------------------------
(* The theorems.                                                           *)

LEMMA InitIInv == Init => IInv
<1> SUFFICES ASSUME Init PROVE IInv
  BY Zenon
<1>1. /\ pos = 0 /\ line = <<>> /\ total = 0 /\ documents = <<>> /\ lineNumber = 1
      /\ result = Reading /\ ending \in Endings
  BY Zenon DEF Init, Endings
<1>2. body \in Seq(Bytes)
  <2>1. PICK m \in 0..MaxBody : body \in [1..m -> Bytes]
    BY Zenon DEF Init, BoundedSeq, SeqOf
  <2>2. m \in Nat
    BY SMTT(30), ReadBulkAssumption
  <2> QED
    BY SMTT(30), <2>1, <2>2
<1>3. Len(body) \in Nat /\ Len(<<>>) = 0
  BY Zenon, <1>2, LenProperties
<1>4. documents \in Seq(Documents) /\ line \in Seq(Bytes)
  BY Zenon, <1>1, EmptySeq
<1>5. TypeOK
  <2>1. result \in [err: {"reading", "nil", "errBulkLimit", "errInvalidDoc", "errBodyTooLarge",
                "errBulkEmpty", "errBulkRead", "DeadlineExceeded"}, line: 0..(maxDocs + 1)]
    BY SMTT(30), <1>1, ReadBulkAssumption DEF Reading
  <2>2. /\ pos \in 0..Len(body) /\ Len(line) <= maxLine /\ total <= maxBytes
        /\ Len(documents) <= maxDocs /\ lineNumber = Len(documents) + 1
    BY SMTT(30), <1>1, <1>3, ReadBulkAssumption
  <2> QED
    BY Zenon, <2>1, <2>2 DEF TypeOK
<1>6. Progress
  <2>1. Start = 0 /\ Len(documents) = 0
    BY Zenon, <1>1, <1>3 DEF Start, EndOf
  <2>2. LFs(pos) = 0 /\ LFs(Start) = 0
    BY Zenon, <1>1, <2>1, LFsZero
  <2>3. 0 \in 0..0 /\ 0 \in Nat /\ 0 = 0 * BufSize /\ 0 \in 0..Len(body) /\ 0 - 0 = 0
    BY SMTT(30), <1>3, ReadBulkAssumption
  <2>4. SubSeq(body, 0 + 1, 0) \in Seq(Bytes) /\ Len(SubSeq(body, 0 + 1, 0)) = 0
    BY Zenon, <1>2, <2>3, Piece
  <2>5. line = SubSeq(body, Start + 1, pos)
    BY Zenon, <1>1, <2>1, <2>4, EmptySeq
  <2>6. \E q \in Nat : Len(line) = q * BufSize
    BY Zenon, <1>1, <1>3, <2>3
  <2> QED
    BY Zenon, <1>1, <2>1, <2>2, <2>3, <2>5, <2>6 DEF Progress
<1>7. Settled
  BY SMTT(30), <1>1 DEF Settled
<1>8. ReturnsTheLines /\ BlamesTheLine
  BY Zenon, <1>1, StillReading
<1> QED
  BY Zenon, <1>1, <1>2, <1>4, <1>5, <1>6, <1>7, <1>8 DEF IInv

LEMMA NextIInv == IInv /\ [Next]_vars => IInv'
<1> SUFFICES ASSUME IInv, [Next]_vars PROVE IInv'
  BY Zenon
<1>1. CASE readBulkCtx
  BY Zenon, <1>1, TurnIInv
<1>2. CASE UNCHANGED vars
  <2>1. /\ UNCHANGED <<body, ending>> /\ pos' = pos /\ line' = line /\ total' = total
        /\ documents' = documents /\ lineNumber' = lineNumber /\ result' = result
    BY Zenon, <1>2 DEF vars
  <2>2. /\ \A k : LFs(k)' = LFs(k) /\ Text(k)' = Text(k)
        /\ \A k : (Good(k)' <=> Good(k)) /\ (SplitCrlf(k)' <=> SplitCrlf(k))
        /\ Lines' = Lines /\ (Accepted' <=> Accepted)
    BY Zenon, <2>1, SameBody
  <2>3. \A k : canonical(Text(k))' = canonical(Text(k))
    BY Zenon, <2>2
  <2>4. TypeOK'
    BY Zenon, <2>1 DEF IInv, TypeOK, Reading
  <2>5. Failed' <=> Failed
    BY Zenon, <2>1 DEF Failed, Reading
  <2>6. ReturnsTheLines'
    <3>1. [k \in 1..Lines |-> canonical(Text(k))]' = [k \in 1..Lines |-> canonical(Text(k))]
      BY Zenon, <2>2, <2>3
    <3> QED
      BY Zenon, <2>1, <2>2, <2>5, <3>1 DEF IInv, ReturnsTheLines, Reading
  <2>7. BlamesTheLine'
    BY Zenon, <2>1, <2>2, <2>5 DEF IInv, BlamesTheLine
  <2>8. result' = Reading => Progress' /\ Settled'
    <3> SUFFICES ASSUME result = Reading PROVE Progress' /\ Settled'
      BY Zenon, <2>1
    <3>1. Progress /\ Settled
      BY Zenon DEF IInv
    <3>2. Start' = Start /\ LFs(pos)' = LFs(pos) /\ LFs(Start)' = LFs(Start)
      BY SMTT(30), <2>1 DEF Start, EndOf, Ended, LFs
    <3>3. Progress'
      BY Zenon, <2>1, <3>1, <3>2 DEF Progress
    <3>4. Settled'
      BY Zenon, <2>1, <2>2, <2>3, <3>1 DEF Settled
    <3> QED
      BY Zenon, <3>3, <3>4
  <2> QED
    BY Zenon, <2>1, <2>4, <2>6, <2>7, <2>8 DEF IInv, Reading
<1> QED
  BY Zenon, <1>1, <1>2 DEF Next, Returned

LEMMA SpecIInv == Spec => []IInv
  BY InitIInv, NextIInv, PTL DEF Spec

(* readBulkCtx holds at most one line within its limit, and reads on only  *)
(* within the limit on the body, for every buffer size and every limits.   *)
THEOREM HoldsOneLine == Spec => []TypeOK
<1>1. IInv => TypeOK
  BY Zenon DEF IInv
<1> QED
  BY <1>1, SpecIInv, PTL

(* Documents that readBulkCtx returns are those of the lines of the body,  *)
(* in order, and no line of it is bad: nothing is lost, joined or split    *)
(* where the buffer ends, for every body, buffer size and limits.          *)
THEOREM ImportsTheLines == Spec => []ReturnsTheLines
<1>1. IInv => ReturnsTheLines
  BY Zenon DEF IInv
<1> QED
  BY <1>1, SpecIInv, PTL

(* The line number in an error of readBulkCtx is that of the first line    *)
(* that is not good; the one good line refused is one of the greatest      *)
(* length whose CR fills a buffer.                                         *)
THEOREM BlamesFirstBadLine == Spec => []BlamesTheLine
<1>1. IInv => BlamesTheLine
  BY Zenon DEF IInv
<1> QED
  BY <1>1, SpecIInv, PTL

=============================================================================
