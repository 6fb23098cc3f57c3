----------------------------- MODULE LayersProofs -----------------------------
(***************************************************************************)
(* Layers for texts of any length, over any words, and for lists of any    *)
(* roles.  The code takes a text apart in steps: it trims it, splits it at *)
(* a colon, trims what it gets again.  Here it is shown what comes of it,  *)
(* a piece of the text itself, found by positions; the properties of the   *)
(* layers follow from that.                                                *)
(***************************************************************************)
EXTENDS Layers, SequenceTheorems, NaturalsInduction, WellFoundedInduction, TLAPS

-----------------------------------------------------------------------------
(* The first and the last of a set of positions *)

\* Every set of numbers that is not empty has a least one.
LEMMA LeastExists ==
  ASSUME NEW S \in SUBSET Nat, S # {}
  PROVE  \E i \in S : \A j \in S : i <= j
  <1>1. PICK i \in S : \A j \in S : ~(<<j, i>> \in OpToRel(<, Nat))
    BY NatLessThanWellFounded, WFMin
  <1>2. \A j \in S : ~(j < i)
    BY <1>1 DEF OpToRel
  <1> QED BY <1>2

\* The last position of a text with a property is the least counted from its end.
LEMMA MostExists ==
  ASSUME NEW n \in Nat, NEW S \in SUBSET (1 .. n), S # {}
  PROVE  \E i \in S : \A j \in S : j <= i
  <1> DEFINE T == {n - i : i \in S}
  <1>1. T \in SUBSET Nat /\ T # {}
    <2>1. PICK i \in S : TRUE
      OBVIOUS
    <2>2. n - i \in T
      BY <2>1
    <2>3. \A k \in S : n - k \in Nat
      OBVIOUS
    <2> QED BY <2>2, <2>3
  <1>2. PICK m \in T : \A j \in T : m <= j
    BY <1>1, LeastExists
  <1>3. PICK i \in S : m = n - i
    OBVIOUS
  <1>4. \A j \in S : n - i <= n - j
    BY <1>2, <1>3
  <1> QED BY <1>4

LEMMA LeastIs ==
  ASSUME NEW S \in SUBSET Int, NEW i \in S, \A j \in S : i <= j
  PROVE  Least(S) = i
  <1>1. \E x \in S : \A j \in S : x <= j
    OBVIOUS
  <1>2. Least(S) \in S /\ \A j \in S : Least(S) <= j
    BY <1>1 DEF Least
  <1>3. Least(S) \in Int /\ i \in Int
    BY <1>2
  <1>4. Least(S) <= i /\ i <= Least(S)
    BY <1>2
  <1> QED BY <1>3, <1>4

LEMMA MostIs ==
  ASSUME NEW S \in SUBSET Int, NEW i \in S, \A j \in S : j <= i
  PROVE  Most(S) = i
  <1>1. \E x \in S : \A j \in S : j <= x
    OBVIOUS
  <1>2. Most(S) \in S /\ \A j \in S : j <= Most(S)
    BY <1>1 DEF Most
  <1>3. Most(S) \in Int /\ i \in Int
    BY <1>2
  <1>4. i <= Most(S) /\ Most(S) <= i
    BY <1>2
  <1> QED BY <1>3, <1>4

\* Among positions of a text both are there.
LEMMA Ends ==
  ASSUME NEW n \in Nat, NEW S \in SUBSET (1 .. n), S # {}
  PROVE  /\ Least(S) \in S /\ Most(S) \in S
         /\ \A j \in S : Least(S) <= j /\ j <= Most(S)
  <1>1. \E i \in S : \A j \in S : i <= j
    BY LeastExists
  <1>2. \E i \in S : \A j \in S : j <= i
    BY MostExists
  <1> QED BY <1>1, <1>2 DEF Least, Most

\* Positions that are moved have their ends moved.
LEMMA EndsMove ==
  ASSUME NEW n \in Nat, NEW S \in SUBSET (1 .. n), S # {}, NEW d \in Int,
         NEW T, T = {i + d : i \in S}
  PROVE  Least(T) = Least(S) + d /\ Most(T) = Most(S) + d
  <1>1. T \in SUBSET Int
    OBVIOUS
  <1>2. Least(S) + d \in T /\ Most(S) + d \in T
    BY Ends
  <1>3. ASSUME NEW j \in T PROVE Least(S) + d <= j /\ j <= Most(S) + d
    <2>1. PICK i \in S : j = i + d
      OBVIOUS
    <2>2. Least(S) \in S /\ Most(S) \in S /\ Least(S) <= i /\ i <= Most(S)
      BY Ends
    <2>3. \A k \in S : k \in Int
      OBVIOUS
    <2>4. Least(S) \in Int /\ Most(S) \in Int /\ i \in Int
      BY <2>2, <2>3
    <2> QED BY <2>1, <2>2, <2>4
  <1> QED BY <1>1, <1>2, <1>3, LeastIs, MostIs

-----------------------------------------------------------------------------
(* Pieces of a text *)

\* The words between two positions, that is, from a to b.
LEMMA Piece ==
  ASSUME NEW t \in Seq(Word), NEW a \in Int, NEW b \in Int, 1 <= a, b <= Len(t)
  PROVE  /\ SubSeq(t, a, b) \in Seq(Word)
         /\ Len(SubSeq(t, a, b)) = IF a <= b THEN b - a + 1 ELSE 0
         /\ \A i \in 1 .. (b - a + 1) : SubSeq(t, a, b)[i] = t[a + i - 1]
  <1>1. \A i \in a .. b : t[i] \in Word
    OBVIOUS
  <1> QED BY <1>1, SubSeqProperties

\* A piece of a piece is a piece of the text.
LEMMA PieceOfPiece ==
  ASSUME NEW t \in Seq(Word), NEW a \in Int, NEW b \in Int, 1 <= a, b <= Len(t),
         NEW m \in Int, NEW n \in Int, 1 <= m, n <= b - a + 1
  PROVE  SubSeq(SubSeq(t, a, b), m, n) = SubSeq(t, a + m - 1, a + n - 1)
  <1>1. CASE m <= n
    <2>1. a \in 1 .. Len(t) /\ b \in 1 .. Len(t) /\ m \in 1 .. (b - a + 1) /\ n \in 1 .. (b - a + 1)
      BY <1>1
    <2> QED BY <2>1, SubSeqOfSubSeq
  <1>2. CASE n < m
    <2>1. a + n - 1 < a + m - 1
      BY <1>2
    <2> QED BY <1>2, <2>1, SubSeqEmpty
  <1> QED BY <1>1, <1>2

\* The positions of a piece that hold a word out of W are those of the text, moved.
LEMMA PositionsMove ==
  ASSUME NEW t \in Seq(Word), NEW a \in Int, NEW b \in Int, 1 <= a, b <= Len(t), NEW W
  PROVE  {i \in DOMAIN SubSeq(t, a, b) : SubSeq(t, a, b)[i] \in W}
           = {k + (1 - a) : k \in {k \in DOMAIN t : t[k] \in W /\ a <= k /\ k <= b}}
  <1> DEFINE w == SubSeq(t, a, b)
             P == {i \in DOMAIN w : w[i] \in W}
             K == {k \in DOMAIN t : t[k] \in W /\ a <= k /\ k <= b}
  <1>1. DOMAIN w = 1 .. (b - a + 1)
    <2>1. w \in Seq(Word) /\ Len(w) = IF a <= b THEN b - a + 1 ELSE 0
      BY Piece
    <2> QED BY <2>1
  <1>2. \A i \in DOMAIN w : w[i] = t[a + i - 1]
    BY <1>1, Piece
  <1>3. ASSUME NEW i \in P PROVE i \in {k + (1 - a) : k \in K}
    <2>1. i \in 1 .. (b - a + 1) /\ w[i] = t[a + i - 1] /\ w[i] \in W
      BY <1>1, <1>2
    <2>2. a + i - 1 \in K
      BY <2>1
    <2>3. i = (a + i - 1) + (1 - a)
      BY <2>1
    <2> QED BY <2>2, <2>3
  <1>4. ASSUME NEW k \in K PROVE k + (1 - a) \in P
    <2>1. k + (1 - a) \in 1 .. (b - a + 1) /\ a + (k + (1 - a)) - 1 = k
      OBVIOUS
    <2> QED BY <2>1, <1>1, <1>2
  <1> QED BY <1>3, <1>4

\* The positions between a and b.
Within(S, a, b) == {k \in S : a <= k /\ k <= b}

\* Trimming a piece leaves a smaller piece of the same text.
LEMMA TrimPiece ==
  ASSUME NEW t \in Seq(Word), NEW a \in Int, NEW b \in Int, 1 <= a, b <= Len(t),
         NEW N, N = Within(NotBlank(t), a, b)
  PROVE  trim(SubSeq(t, a, b)) = IF N = {} THEN <<>> ELSE SubSeq(t, Least(N), Most(N))
  <1> DEFINE w == SubSeq(t, a, b)
  <1>0. N \in SUBSET (1 .. Len(t)) /\ Len(t) \in Nat /\ 1 - a \in Int
    BY DEF NotBlank, Within
  <1>1. NotBlank(w) = {k + (1 - a) : k \in N}
    <2> DEFINE W == {x \in Word : x # Blank}
    <2>1. NotBlank(w) = {i \in DOMAIN w : w[i] \in W}
      BY Piece DEF NotBlank
    <2>2. N = {k \in DOMAIN t : t[k] \in W /\ a <= k /\ k <= b}
      BY DEF NotBlank, Within
    <2> HIDE DEF W
    <2> QED BY <2>1, <2>2, PositionsMove
  <1>2. CASE N = {}
    BY <1>1, <1>2 DEF trim
  <1>3. CASE N # {}
    <2>1. Least(NotBlank(w)) = Least(N) + (1 - a) /\ Most(NotBlank(w)) = Most(N) + (1 - a)
      BY <1>0, <1>1, <1>3, EndsMove
    <2>2. NotBlank(w) # {}
      BY <1>1, <1>3
    <2>3. trim(w) = SubSeq(w, Least(N) + (1 - a), Most(N) + (1 - a))
      BY <2>1, <2>2 DEF trim
    <2>4. Least(N) \in a .. b /\ Most(N) \in a .. b /\ Least(N) <= Most(N)
      <3>1. Least(N) \in N /\ Most(N) \in N /\ Least(N) <= Most(N)
        BY <1>0, <1>3, Ends
      <3>2. \A k \in N : k \in a .. b
        BY <1>0 DEF Within
      <3> QED BY <3>1, <3>2
    <2>5. SubSeq(w, Least(N) + (1 - a), Most(N) + (1 - a)) = SubSeq(t, Least(N), Most(N))
      <3> DEFINE m == Least(N) + (1 - a)
                 n == Most(N) + (1 - a)
      <3>1. m \in Int /\ n \in Int /\ 1 <= m /\ n <= b - a + 1
        BY <2>4
      <3>2. a + m - 1 = Least(N) /\ a + n - 1 = Most(N)
        BY <2>4
      <3> HIDE DEF m, n
      <3>3. SubSeq(w, m, n) = SubSeq(t, a + m - 1, a + n - 1)
        BY <3>1, PieceOfPiece
      <3>4. SubSeq(w, m, n) = SubSeq(t, Least(N), Most(N))
        BY <3>2, <3>3
      <3> QED BY <3>4 DEF m, n
    <2> QED BY <2>3, <2>5, <1>3
  <1> QED BY <1>2, <1>3

\* Splitting a piece at its first colon leaves two pieces of the same text.
LEMMA SplitPiece ==
  ASSUME NEW t \in Seq(Word), NEW a \in Int, NEW b \in Int, 1 <= a, b <= Len(t),
         NEW C, C = Within(Colons(t), a, b)
  PROVE  /\ C = {}  => /\ Before(SubSeq(t, a, b)) = SubSeq(t, a, b)
                       /\ After(SubSeq(t, a, b)) = <<>>
         /\ C # {} => /\ Before(SubSeq(t, a, b)) = SubSeq(t, a, Least(C) - 1)
                       /\ After(SubSeq(t, a, b)) = SubSeq(t, Least(C) + 1, b)
  <1> DEFINE w == SubSeq(t, a, b)
  <1>0. C \in SUBSET (1 .. Len(t)) /\ Len(t) \in Nat /\ 1 - a \in Int
    BY DEF Colons, Within
  <1>1. Colons(w) = {k + (1 - a) : k \in C}
    <2>1. Colons(w) = {i \in DOMAIN w : w[i] \in {Colon}}
      BY DEF Colons
    <2>2. C = {k \in DOMAIN t : t[k] \in {Colon} /\ a <= k /\ k <= b}
      BY DEF Colons, Within
    <2> QED BY <2>1, <2>2, PositionsMove
  <1>2. CASE C = {}
    BY <1>1, <1>2 DEF Before, After
  <1>3. CASE C # {}
    <2> DEFINE c == Least(C)
    <2>1. Least(Colons(w)) = c + (1 - a)
      BY <1>0, <1>1, <1>3, EndsMove
    <2>2. c \in a .. b /\ c \in Int
      <3>1. c \in C
        BY <1>0, <1>3, Ends
      <3> QED BY <1>0, <3>1 DEF Within
    <2> HIDE DEF c
    <2>3. Len(w) = b - a + 1
      BY <2>2, Piece
    <2>4. /\ Before(w) = SubSeq(w, 1, c + (1 - a) - 1)
          /\ After(w) = SubSeq(w, c + (1 - a) + 1, b - a + 1)
      <3>1. Colons(w) # {}
        BY <1>1, <1>3
      <3>2. /\ Before(w) = SubSeq(w, 1, Least(Colons(w)) - 1)
            /\ After(w) = SubSeq(w, Least(Colons(w)) + 1, Len(w))
        BY <3>1 DEF Before, After
      <3>3. Before(w) = SubSeq(w, 1, c + (1 - a) - 1)
        BY <2>1, <2>2, <3>2
      <3>4. After(w) = SubSeq(w, c + (1 - a) + 1, b - a + 1)
        BY <2>1, <2>2, <2>3, <3>2
      <3> QED BY <3>3, <3>4
    <2>5. SubSeq(w, 1, c + (1 - a) - 1) = SubSeq(t, a + 1 - 1, a + (c + (1 - a) - 1) - 1)
      BY <2>2, PieceOfPiece
    <2>6. SubSeq(w, c + (1 - a) + 1, b - a + 1)
            = SubSeq(t, a + (c + (1 - a) + 1) - 1, a + (b - a + 1) - 1)
      BY <2>2, PieceOfPiece
    <2>7. /\ a + 1 - 1 = a /\ a + (c + (1 - a) - 1) - 1 = c - 1
          /\ a + (c + (1 - a) + 1) - 1 = c + 1 /\ a + (b - a + 1) - 1 = b
      BY <2>2
    <2>8. Before(w) = SubSeq(t, a, c - 1) /\ After(w) = SubSeq(t, c + 1, b)
      BY <2>4, <2>5, <2>6, <2>7
    <2> QED BY <2>8, <1>3 DEF c
  <1> QED BY <1>2, <1>3

LEMMA TrimIsPiece ==
  ASSUME NEW t \in Seq(Word)
  PROVE  \E a, b \in Int : /\ 1 <= a /\ b <= Len(t)
                           /\ trim(t) = SubSeq(t, a, b)
                           /\ \A k \in NotBlank(t) : a <= k /\ k <= b
  <1>1. CASE NotBlank(t) = {}
    <2>1. SubSeq(t, 1, 0) = <<>>
      BY SubSeqEmpty
    <2>2. trim(t) = SubSeq(t, 1, 0) /\ 0 <= Len(t)
      BY <1>1, <2>1 DEF trim
    <2> QED BY <1>1, <2>2
  <1>2. CASE NotBlank(t) # {}
    <2> DEFINE a == Least(NotBlank(t))
               b == Most(NotBlank(t))
    <2>1. NotBlank(t) \in SUBSET (1 .. Len(t)) /\ Len(t) \in Nat
      BY DEF NotBlank
    <2>2. /\ a \in 1 .. Len(t) /\ b \in 1 .. Len(t)
          /\ \A k \in NotBlank(t) : a <= k /\ k <= b
      BY <1>2, <2>1, Ends
    <2>3. trim(t) = SubSeq(t, a, b)
      BY <1>2 DEF trim
    <2> HIDE DEF a, b
    <2>4. a \in Int /\ b \in Int /\ 1 <= a /\ b <= Len(t)
      BY <2>1, <2>2
    <2> QED BY <2>2, <2>3, <2>4
  <1> QED BY <1>1, <1>2

-----------------------------------------------------------------------------
(* What the text of a role says *)

\* Where the name and the permissions stand, blanks on their edges left out.
NameSpan(t)  == {k \in NotBlank(t) : \A c \in Colons(t) : k < c}
PermsSpan(t) == {k \in NotBlank(t) : \E c \in Colons(t) : c < k}

NameText(t)  == trim(Before(trim(t)))
PermsText(t) == trim(After(trim(t)))

Spanned(t, S) == IF S = {} THEN <<>> ELSE SubSeq(t, Least(S), Most(S))

\* What the code takes for the name and for the permissions.
LEMMA TextsAreSpans ==
  ASSUME NEW t \in Seq(Word)
  PROVE  /\ NameText(t) = Spanned(t, NameSpan(t))
         /\ PermsText(t) = Spanned(t, PermsSpan(t))
  <1>1. PICK a \in Int, b \in Int : /\ 1 <= a /\ b <= Len(t)
                                   /\ trim(t) = SubSeq(t, a, b)
                                   /\ \A k \in NotBlank(t) : a <= k /\ k <= b
    BY TrimIsPiece
  <1>2. Within(Colons(t), a, b) = Colons(t)
    BY <1>1 DEF Within, Colons, NotBlank, Blank, Colon
  <1>3. Colons(t) \in SUBSET (1 .. Len(t)) /\ NotBlank(t) \in SUBSET (1 .. Len(t)) /\ Len(t) \in Nat
    BY DEF Colons, NotBlank
  <1>4. CASE Colons(t) = {}
    <2>1. Before(trim(t)) = SubSeq(t, a, b) /\ After(trim(t)) = <<>>
      <3>1. Within(Colons(t), a, b) = {}
        BY <1>2, <1>4
      <3>2. /\ Before(SubSeq(t, a, b)) = SubSeq(t, a, b)
            /\ After(SubSeq(t, a, b)) = <<>>
        BY <1>1, <3>1, SplitPiece
      <3> QED BY <1>1, <3>2
    <2>2. Within(NotBlank(t), a, b) = NameSpan(t)
      BY <1>1, <1>4 DEF Within, NameSpan
    <2>3. NameText(t) = Spanned(t, NameSpan(t))
      <3>1. trim(SubSeq(t, a, b)) = Spanned(t, NameSpan(t))
        BY <1>1, <2>2, TrimPiece DEF Spanned
      <3> QED BY <2>1, <3>1 DEF NameText
    <2>4. PermsSpan(t) = {} /\ trim(<<>>) = <<>>
      BY <1>4 DEF PermsSpan, trim, NotBlank
    <2> QED BY <2>1, <2>3, <2>4 DEF PermsText, Spanned
  <1>5. CASE Colons(t) # {}
    <2> DEFINE c == Least(Colons(t))
    <2>1. c \in Colons(t) /\ c \in a .. b /\ c \in 1 .. Len(t) /\ \A d \in Colons(t) : c <= d
      <3>1. c \in Colons(t) /\ \A d \in Colons(t) : c <= d
        BY <1>3, <1>5, Ends
      <3> QED BY <1>2, <1>3, <3>1 DEF Within
    <2>2. Before(trim(t)) = SubSeq(t, a, c - 1) /\ After(trim(t)) = SubSeq(t, c + 1, b)
      BY <1>1, <1>2, <1>5, SplitPiece
    <2> HIDE DEF c
    <2>3. Within(NotBlank(t), a, c - 1) = NameSpan(t)
      BY <1>1, <1>3, <2>1 DEF Within, NameSpan
    <2>4. Within(NotBlank(t), c + 1, b) = PermsSpan(t)
      BY <1>1, <1>3, <2>1 DEF Within, PermsSpan
    <2>5. trim(SubSeq(t, a, c - 1)) = Spanned(t, NameSpan(t))
      BY <1>1, <2>1, <2>3, TrimPiece DEF Spanned
    <2>6. trim(SubSeq(t, c + 1, b)) = Spanned(t, PermsSpan(t))
      BY <1>1, <2>1, <2>4, TrimPiece DEF Spanned
    <2> QED BY <2>2, <2>5, <2>6 DEF NameText, PermsText
  <1> QED BY <1>4, <1>5

LEMMA Lowered ==
  ASSUME NEW t \in Seq(Word)
  PROVE  /\ to_lowercase(t) \in Seq(Word)
         /\ Len(to_lowercase(t)) = Len(t)
         /\ DOMAIN to_lowercase(t) = DOMAIN t
         /\ \A i \in DOMAIN t : to_lowercase(t)[i] = Lower[t[i]]
         /\ to_lowercase(t) = <<>> <=> t = <<>>
  <1>1. Lower \in [Word -> Word]
    BY LayersAssumption
  <1>2. \A i \in 1 .. Len(t) : Lower[t[i]] \in Word
    BY <1>1
  <1>3. to_lowercase(t) = [i \in 1 .. Len(t) |-> Lower[t[i]]] /\ Len(t) \in Nat
    BY DEF to_lowercase
  <1>4. to_lowercase(t) \in Seq(Word) /\ Len(to_lowercase(t)) = Len(t)
    BY <1>2, <1>3, IsASeq
  <1>5. to_lowercase(t) = <<>> <=> t = <<>>
    BY <1>4, EmptySeq
  <1> QED BY <1>3, <1>4, <1>5

LEMMA SpannedType ==
  ASSUME NEW t \in Seq(Word), NEW S \in SUBSET (1 .. Len(t))
  PROVE  /\ Spanned(t, S) \in Seq(Word)
         /\ Spanned(t, S) = <<>> <=> S = {}
  <1>1. CASE S = {}
    BY <1>1 DEF Spanned
  <1>2. CASE S # {}
    <2>0. Len(t) \in Nat
      OBVIOUS
    <2>1. Least(S) \in 1 .. Len(t) /\ Most(S) \in 1 .. Len(t) /\ Least(S) <= Most(S)
      <3>1. Least(S) \in S /\ Most(S) \in S /\ Least(S) <= Most(S)
        BY <1>2, <2>0, Ends
      <3> QED BY <3>1
    <2>2. /\ SubSeq(t, Least(S), Most(S)) \in Seq(Word)
          /\ Len(SubSeq(t, Least(S), Most(S))) = Most(S) - Least(S) + 1
      BY <2>1, Piece
    <2>3. SubSeq(t, Least(S), Most(S)) # <<>>
      <3>1. Len(SubSeq(t, Least(S), Most(S))) # 0
        BY <2>0, <2>1, <2>2
      <3> QED BY <2>2, <3>1, EmptySeq
    <2> QED BY <1>2, <2>2, <2>3 DEF Spanned
  <1> QED BY <1>1, <1>2

LEMMA NameTextType ==
  ASSUME NEW t \in Seq(Word)
  PROVE  NameText(t) \in Seq(Word) /\ PermsText(t) \in Seq(Word)
  <1>1. NameSpan(t) \in SUBSET (1 .. Len(t)) /\ PermsSpan(t) \in SUBSET (1 .. Len(t))
    BY DEF NameSpan, PermsSpan, NotBlank
  <1> QED BY <1>1, TextsAreSpans, SpannedType

\* The longest of the pieces between two words of the name is the one the code finds.
LEMMA RoleNameIs ==
  ASSUME NEW t \in Seq(Word)
  PROVE  RoleName(t) = IF NameText(t) = <<>> THEN {} ELSE {to_lowercase(NameText(t))}
  <1> DEFINE S == NameSpan(t)
  <1>1. S \in SUBSET (1 .. Len(t)) /\ Len(t) \in Nat /\ \A k \in S : k \in Int
    BY DEF NameSpan, NotBlank
  <1>2. NameText(t) = Spanned(t, S) /\ (NameText(t) = <<>> <=> S = {})
    BY <1>1, TextsAreSpans, SpannedType
  <1>3. NameOf(t) = {to_lowercase(SubSeq(t, i, j)) : i, j \in S}
    BY DEF NameOf, NameSpan
  <1> HIDE DEF S
  <1>4. CASE S = {}
    BY <1>2, <1>3, <1>4 DEF RoleName
  <1>5. CASE S # {}
    <2> DEFINE p == Least(S)
               q == Most(S)
               n == to_lowercase(SubSeq(t, p, q))
    <2>1. p \in S /\ q \in S /\ \A k \in S : p <= k /\ k <= q
      BY <1>1, <1>5, Ends
    <2> HIDE DEF p, q
    <2>2. ASSUME NEW i \in S, NEW j \in S
          PROVE  Len(to_lowercase(SubSeq(t, i, j))) = IF i <= j THEN j - i + 1 ELSE 0
      <3>1. i \in 1 .. Len(t) /\ j \in 1 .. Len(t)
        BY <1>1
      <3>2. i \in Int /\ j \in Int /\ 1 <= i /\ j <= Len(t)
        BY <1>1, <3>1
      <3>3. /\ SubSeq(t, i, j) \in Seq(Word)
            /\ Len(SubSeq(t, i, j)) = IF i <= j THEN j - i + 1 ELSE 0
        BY <3>2, Piece
      <3> QED BY <3>3, Lowered
    <2>3. n \in NameOf(t) /\ Len(n) = q - p + 1 /\ q - p + 1 > 0
      BY <1>1, <1>3, <2>1, <2>2
    <2>4. ASSUME NEW m \in NameOf(t)
          PROVE  Len(m) <= Len(n) /\ (Len(m) = Len(n) => m = n)
      <3>1. PICK i \in S, j \in S : m = to_lowercase(SubSeq(t, i, j))
        BY <1>3
      <3>2. Len(m) = IF i <= j THEN j - i + 1 ELSE 0
        BY <2>2, <3>1
      <3>3. i \in Int /\ j \in Int /\ p \in Int /\ q \in Int /\ p <= i /\ j <= q
        BY <1>1, <2>1
      <3>4. Len(m) = Len(n) => i = p /\ j = q
        BY <2>3, <3>2, <3>3
      <3> QED BY <2>3, <3>1, <3>2, <3>3, <3>4
    <2>5. n # <<>>
      BY <2>3
    <2>6. RoleName(t) = {n}
      <3>1. \A m \in NameOf(t) : Len(m) \in Int
        BY <1>1, <1>3, <2>2
      <3>2. n \in RoleName(t)
        BY <2>3, <2>4, <2>5 DEF RoleName
      <3>3. ASSUME NEW m \in RoleName(t) PROVE m = n
        <4>1. m \in NameOf(t) /\ Len(n) <= Len(m)
          BY <2>3 DEF RoleName
        <4> QED BY <2>3, <2>4, <3>1, <4>1
      <3> QED BY <3>2, <3>3
    <2>7. NameText(t) = SubSeq(t, p, q)
      BY <1>2, <1>5 DEF Spanned, p, q
    <2> QED BY <1>2, <1>5, <2>6, <2>7
  <1> QED BY <1>4, <1>5

LEMMA EmptyText == trim(<<>>) = <<>> /\ Before(<<>>) = <<>> /\ to_lowercase(<<>>) = <<>>
  BY DEF trim, NotBlank, Before, Colons, to_lowercase

\* What an endpoint and a user say, with the name the text has.
LEMMA EndpointNames ==
  ASSUME NEW t \in Seq(Word)
  PROVE  parse_endpoint_role(t) \ {<<>>} = RoleName(t)
  <1>1. CASE trim(t) = <<>>
    BY <1>1, RoleNameIs, EmptyText DEF parse_endpoint_role, NameText
  <1>2. CASE trim(t) # <<>>
    <2>1. parse_endpoint_role(t) = {to_lowercase(NameText(t))}
      BY <1>2 DEF parse_endpoint_role, NameText
    <2>2. to_lowercase(NameText(t)) = <<>> <=> NameText(t) = <<>>
      BY NameTextType, Lowered
    <2> QED BY <2>1, <2>2, RoleNameIs
  <1> QED BY <1>1, <1>2

LEMMA GrantNames ==
  ASSUME NEW t
  PROVE  parse_user_role_grant(t) =
           IF NameText(t) = <<>> THEN {}
           ELSE {[name |-> NameText(t), perms |-> to_lowercase(PermsText(t))]}
  BY DEF parse_user_role_grant, NameText, PermsText

Shared(e, g) == RoleName(e) \cap RoleName(g) # {}

\* A grant is for what an endpoint asks iff the two texts share a name.
LEMMA GrantMatches ==
  ASSUME NEW e \in Seq(Word), NEW g \in Seq(Word)
  PROVE  Shared(e, g) <=> \E grant \in parse_user_role_grant(g) :
                             to_lowercase(grant.name) \in parse_endpoint_role(e)
  <1> DEFINE n == NameText(g)
  <1>1. n = <<>> <=> to_lowercase(n) = <<>>
    BY NameTextType, Lowered
  <1>2. CASE n = <<>>
    BY <1>2, RoleNameIs, GrantNames DEF Shared
  <1>3. CASE n # <<>>
    <2> DEFINE grant == [name |-> n, perms |-> to_lowercase(PermsText(g))]
    <2>1. parse_user_role_grant(g) = {grant} /\ grant.name = n
      BY <1>3, GrantNames
    <2>2. RoleName(g) = {to_lowercase(n)}
      BY <1>3, RoleNameIs
    <2>3. to_lowercase(n) \in parse_endpoint_role(e) <=> to_lowercase(n) \in RoleName(e)
      BY <1>1, <1>3, EndpointNames
    <2> HIDE DEF n, grant
    <2>4. Shared(e, g) <=> to_lowercase(n) \in RoleName(e)
      BY <2>2 DEF Shared
    <2> QED BY <2>1, <2>3, <2>4
  <1> QED BY <1>2, <1>3

\* Somebody has a role iff one of his texts shares its name with one of the endpoint's.
LEMMA HasRole ==
  ASSUME NEW R \in SUBSET Seq(Word), NEW G \in SUBSET Seq(Word)
  PROVE  get_role(R, G).has_role <=> \E e \in R, g \in G : Shared(e, g)
  <1> DEFINE allowed == UNION {parse_endpoint_role(t) : t \in R}
             grants  == UNION {parse_user_role_grant(t) : t \in G}
  <1>1. get_role(R, G).has_role <=> \E grant \in grants : to_lowercase(grant.name) \in allowed
    BY DEF get_role
  <1>2. (\E grant \in grants : to_lowercase(grant.name) \in allowed)
          <=> \E e \in R, g \in G : \E grant \in parse_user_role_grant(g) :
                to_lowercase(grant.name) \in parse_endpoint_role(e)
    OBVIOUS
  <1> HIDE DEF allowed, grants
  <1>3. ASSUME NEW e \in R, NEW g \in G
        PROVE  Shared(e, g) <=> \E grant \in parse_user_role_grant(g) :
                 to_lowercase(grant.name) \in parse_endpoint_role(e)
    BY GrantMatches
  <1> QED BY <1>1, <1>2, <1>3

\* The permissions of a text are the letters behind its colon.
LEMMA PermsSay ==
  ASSUME NEW t \in Seq(Word), NEW letter
  PROVE  role_grant_allows(letter, to_lowercase(PermsText(t))) <=> Says(letter, t)
  <1> DEFINE S == PermsSpan(t)
             u == PermsText(t)
  <1>1. S \in SUBSET (1 .. Len(t)) /\ Len(t) \in Nat /\ u = Spanned(t, S) /\ u \in Seq(Word)
    BY TextsAreSpans, NameTextType DEF PermsSpan, NotBlank
  <1>2. role_grant_allows(letter, to_lowercase(u)) <=> \E i \in DOMAIN u : letter \in Letters[Lower[u[i]]]
    <2>1. DOMAIN to_lowercase(u) = DOMAIN u /\ \A i \in DOMAIN u : to_lowercase(u)[i] = Lower[u[i]]
      BY <1>1, Lowered
    <2> HIDE DEF u
    <2> QED BY <2>1 DEF role_grant_allows
  <1>3. ASSUME NEW k \in DOMAIN t, letter \in Letters[Lower[t[k]]] PROVE k \in NotBlank(t)
    BY <1>3, LayersAssumption DEF NotBlank
  <1>4. Says(letter, t) <=> \E k \in S : letter \in Letters[Lower[t[k]]]
    BY <1>3 DEF Says, PermsSpan, NotBlank
  <1> HIDE DEF u
  <1>5. CASE S = {}
    <2>1. u = <<>>
      BY <1>1, <1>5 DEF Spanned
    <2>2. ~\E i \in DOMAIN u : letter \in Letters[Lower[u[i]]]
      BY <2>1
    <2>3. ~Says(letter, t)
      BY <1>4, <1>5
    <2> QED BY <1>2, <2>2, <2>3 DEF u
  <1>6. CASE S # {}
    <2> DEFINE p == Least(S)
               q == Most(S)
    <2>1. p \in S /\ q \in S /\ \A k \in S : p <= k /\ k <= q
      BY <1>1, <1>6, Ends
    <2>2. u = SubSeq(t, p, q)
      BY <1>1, <1>6 DEF Spanned
    <2> HIDE DEF p, q
    <2>3. p \in 1 .. Len(t) /\ q \in 1 .. Len(t) /\ p <= q /\ p \in Int /\ q \in Int
      BY <1>1, <2>1
    <2>4. Len(u) = q - p + 1 /\ \A i \in 1 .. (q - p + 1) : u[i] = t[p + i - 1]
      BY <2>2, <2>3, Piece
    <2>5. ASSUME NEW i \in DOMAIN u, letter \in Letters[Lower[u[i]]] PROVE Says(letter, t)
      <3>1. i \in 1 .. (q - p + 1) /\ u[i] = t[p + i - 1]
        BY <1>1, <2>4
      <3>2. PICK c \in Colons(t) : c < p
        BY <2>1 DEF PermsSpan
      <3>3. c \in 1 .. Len(t)
        BY <3>2 DEF Colons
      <3>4. p + i - 1 \in DOMAIN t /\ c < p + i - 1
        BY <2>3, <3>1, <3>2, <3>3
      <3>5. letter \in Letters[Lower[t[p + i - 1]]]
        BY <2>5, <3>1
      <3> QED BY <3>2, <3>4, <3>5 DEF Says
    <2>6. ASSUME NEW k \in S, letter \in Letters[Lower[t[k]]]
          PROVE  \E i \in DOMAIN u : letter \in Letters[Lower[u[i]]]
      <3>1. k \in Int /\ p <= k /\ k <= q
        BY <1>1, <2>1
      <3>2. k - p + 1 \in DOMAIN u /\ u[k - p + 1] = t[k]
        <4>1. k - p + 1 \in 1 .. (q - p + 1) /\ p + (k - p + 1) - 1 = k
          BY <2>3, <3>1
        <4>2. DOMAIN u = 1 .. (q - p + 1)
          BY <1>1, <2>4
        <4> QED BY <2>4, <4>1, <4>2
      <3> QED BY <2>6, <3>2
    <2> QED BY <1>2, <1>4, <2>5, <2>6 DEF u
  <1> QED BY <1>5, <1>6

\* One text among the user's allows what it says, if it is for what is asked.
LEMMA RoleOfOneText ==
  ASSUME NEW R \in SUBSET Seq(Word), NEW g \in Seq(Word)
  PROVE  LET same == \E e \in R : Shared(e, g)
             role == get_role(R, {g})
         IN  /\ role.has_role  = same
             /\ role.can_read  = (same /\ Says("r", g))
             /\ role.can_write = (same /\ Says("w", g))
  <1> DEFINE same == \E e \in R : Shared(e, g)
             matched == {grant \in UNION {parse_user_role_grant(t) : t \in {g}} :
                           to_lowercase(grant.name) \in UNION {parse_endpoint_role(t) : t \in R}}
  <1>1. matched # {} <=> same
    BY GrantMatches
  <1>2. \A grant \in matched : grant.perms = to_lowercase(PermsText(g))
    BY GrantNames
  <1>3. /\ get_role(R, {g}).has_role  = (matched # {})
        /\ get_role(R, {g}).can_read  = (\E grant \in matched : role_grant_allows("r", grant.perms))
        /\ get_role(R, {g}).can_write = (\E grant \in matched : role_grant_allows("w", grant.perms))
    BY DEF get_role
  <1> HIDE DEF matched, same
  <1>4. ASSUME NEW letter
        PROVE  (\E grant \in matched : role_grant_allows(letter, grant.perms))
                 <=> same /\ Says(letter, g)
    BY <1>1, <1>2, PermsSay
  <1>5. /\ get_role(R, {g}).has_role <=> same
        /\ get_role(R, {g}).can_read <=> same /\ Says("r", g)
        /\ get_role(R, {g}).can_write <=> same /\ Says("w", g)
    BY <1>1, <1>3, <1>4
  <1>6. /\ get_role(R, {g}).has_role  \in BOOLEAN
        /\ get_role(R, {g}).can_read  \in BOOLEAN
        /\ get_role(R, {g}).can_write \in BOOLEAN
    BY <1>3
  <1> QED BY <1>5, <1>6 DEF same

-----------------------------------------------------------------------------
(* The layers *)

\* Each option has a value of its kind.
LEMMA OptionsTyped ==
  ASSUME NEW opts \in OptionLists
  PROVE  /\ \E n \in Nat : DOMAIN opts = 1 .. n
         /\ \A i \in DOMAIN opts :
              /\ opts[i].field = "roles" => opts[i].value \in SUBSET RoleText
              /\ opts[i].field = "excluded_paths" => opts[i].value \in SUBSET PathText
  <1>1. CASE opts = <<>>
    BY <1>1
  <1>2. CASE opts # <<>>
    <2>1. /\ DOMAIN opts = 1 .. 2
          /\ opts[1] \in {with_roles({e}) : e \in RoleText}
          /\ opts[2] \in {with_excluded_paths({p}) : p \in PathText} \cup {with_roles(l) : l \in RoleList}
      <3> DEFINE First  == {with_roles({e}) : e \in RoleText}
                 Second == {with_excluded_paths({p}) : p \in PathText} \cup {with_roles(l) : l \in RoleList}
      <3>1. opts \in First \X Second
        BY <1>2 DEF OptionLists
      <3> HIDE DEF First, Second
      <3>2. DOMAIN opts = 1 .. 2 /\ opts[1] \in First /\ opts[2] \in Second
        BY <3>1
      <3> QED BY <3>2 DEF First, Second
    <2>2. opts[1].field = "roles" /\ opts[1].value \in SUBSET RoleText
      BY <2>1 DEF with_roles
    <2>3. \/ opts[2].field = "excluded_paths" /\ opts[2].value \in SUBSET PathText
          \/ opts[2].field = "roles" /\ opts[2].value \in SUBSET RoleText
      BY <2>1, LayersAssumption DEF with_roles, with_excluded_paths
    <2>4. \A i \in DOMAIN opts : i = 1 \/ i = 2
      BY <2>1
    <2> QED BY <2>1, <2>2, <2>3, <2>4
  <1> QED BY <1>1, <1>2

\* The options of a layer are of the kind its builders make.
LEMMA LayersTyped ==
  ASSUME layer \in LayerConfig
  PROVE  layer.roles \in SUBSET RoleText /\ layer.excluded_paths \in SUBSET PathText
  <1>1. PICK opts \in OptionLists : layer = new_auth_config_options(opts)
    BY DEF LayerConfig
  <1>2. \A i \in DOMAIN opts :
          /\ opts[i].field = "roles" => opts[i].value \in SUBSET RoleText
          /\ opts[i].field = "excluded_paths" => opts[i].value \in SUBSET PathText
    BY OptionsTyped
  <1>3. \E n \in Nat : DOMAIN opts = 1 .. n
    BY OptionsTyped
  <1>4. ASSUME NEW field
        PROVE  \/ LastOption(opts, field) = {}
               \/ \E i \in DOMAIN opts : opts[i].field = field /\ LastOption(opts, field) = opts[i].value
    <2> DEFINE at == {i \in DOMAIN opts : opts[i].field = field}
    <2>1. CASE at = {}
      BY <2>1 DEF LastOption
    <2>2. CASE at # {}
      <3>1. Most(at) \in at
        BY <1>3, <2>2, Ends
      <3>2. LastOption(opts, field) = opts[Most(at)].value
        BY <2>2 DEF LastOption
      <3> QED BY <3>1, <3>2
    <2> QED BY <2>1, <2>2
  <1>5. layer.roles = LastOption(opts, "roles") /\ layer.excluded_paths = LastOption(opts, "excluded_paths")
    BY <1>1 DEF new_auth_config_options
  <1>6. LastOption(opts, "roles") \in SUBSET RoleText
    BY <1>2, <1>4
  <1>7. LastOption(opts, "excluded_paths") \in SUBSET PathText
    BY <1>2, <1>4
  <1> QED BY <1>5, <1>6, <1>7

LEMMA LayerStays == LayersSpec => [](layer \in LayerConfig \cup {NoLayer})
  <1>1. LayersInit => layer \in LayerConfig \cup {NoLayer}
    BY DEF LayersInit
  <1>2. layer \in LayerConfig \cup {NoLayer} /\ [UNCHANGED layer]_layer
          => (layer \in LayerConfig \cup {NoLayer})'
    OBVIOUS
  <1> QED BY <1>1, <1>2, PTL DEF LayersSpec

LEMMA RoleTextType == RoleText \in SUBSET Seq(Word) /\ AnyText \in SUBSET Seq(Word)
  BY LayersAssumption

\* get_role, with all its trimming, splitting and lower-casing, reads from the texts of
\* roles the name and the permissions that stand there, for texts of any length.
THEOREM RolesAreRead == LayersSpec => []RolesAsWritten
  <1>1. layer \in LayerConfig \cup {NoLayer} => RolesAsWritten
    <2> SUFFICES ASSUME layer \in LayerConfig, NEW g \in AnyText
                 PROVE  LET same == \E e \in layer.roles : RoleName(e) \cap RoleName(g) # {}
                            role == get_role(layer.roles, {g})
                        IN  /\ role.has_role  = same
                            /\ role.can_read  = (same /\ Says("r", g))
                            /\ role.can_write = (same /\ Says("w", g))
      BY DEF RolesAsWritten
    <2>1. layer.roles \in SUBSET Seq(Word) /\ g \in Seq(Word)
      BY LayersTyped, RoleTextType
    <2> QED BY <2>1, RoleOfOneText DEF Shared
  <1> QED BY <1>1, LayerStays, PTL

LEMMA TrimType ==
  ASSUME NEW t \in Seq(Word)
  PROVE  trim(t) \in Seq(Word)
  <1>1. PICK a \in Int, b \in Int : 1 <= a /\ b <= Len(t) /\ trim(t) = SubSeq(t, a, b)
    BY TrimIsPiece
  <1>2. SubSeq(t, a, b) \in Seq(Word)
    BY <1>1, Piece
  <1> QED BY <1>1, <1>2

\* What is no text is not one of the texts.
LEMMA OtherIsNoText == Other \notin Seq(Word)
  <1>1. "other" \notin Word
    BY LayersAssumption
  <1> SUFFICES ASSUME Other \in Seq(Word) PROVE FALSE
    OBVIOUS
  <1>2. Len(Other) = 1 /\ Other[1] = "other"
    BY DEF Other
  <1>3. Other[1] \in Word
    BY <1>2
  <1> QED BY <1>1, <1>2, <1>3

LEMMA ValueItems ==
  ASSUME NEW v \in Value
  PROVE  /\ v.items \in SUBSET (RoleText \cup {Other})
         /\ v.kind = "text" => \E t \in RoleText : v.items = {t}
  <1>1. CASE v \in [kind : {"null", "broken", "other"}, items : {{}}]
    BY <1>1
  <1>2. CASE v \in [kind : {"array", "encoded"}, items : RoleList \cup {l \cup {Other} : l \in RoleList}]
    <2>1. /\ v.kind # "text"
          /\ v.items \in RoleList \/ \E l \in RoleList : v.items = l \cup {Other}
      BY <1>2
    <2>2. \A l \in RoleList : l \subseteq RoleText
      BY LayersAssumption
    <2>3. v.items \in SUBSET (RoleText \cup {Other})
      <3>1. CASE v.items \in RoleList
        BY <2>2, <3>1
      <3>2. CASE \E l \in RoleList : v.items = l \cup {Other}
        BY <2>2, <3>2
      <3> QED BY <2>1, <3>1, <3>2
    <2>4. v.kind # "text"
      BY <1>2
    <2> QED BY <2>3, <2>4
  <1>3. CASE v \in [kind : {"text"}, items : {{t} : t \in RoleText}]
    BY <1>3
  <1> QED BY <1>1, <1>2, <1>3 DEF Value

\* Whatever else is in a list, what is read from it are texts, and never the mark of
\* roles that cannot be read.
LEMMA FormatRoles ==
  ASSUME NEW items \in SUBSET (RoleText \cup {Other})
  PROVE  format_roles(items) \in SUBSET Seq(Word) /\ format_roles(items) # InvalidRoles
  <1>1. \A t \in items \ {Other} : trim(t) \in Seq(Word)
    BY RoleTextType, TrimType
  <1>2. format_roles(items) \in SUBSET Seq(Word)
    BY <1>1 DEF format_roles
  <1>3. InvalidRoles \notin SUBSET Seq(Word)
    BY OtherIsNoText DEF InvalidRoles
  <1> QED BY <1>2, <1>3

LEMMA RolesFromAny ==
  ASSUME NEW v \in Value, roles_from_any(v) # InvalidRoles
  PROVE  roles_from_any(v) \in SUBSET Seq(Word)
  <1>1. CASE v.kind \in {"array", "encoded"}
    BY <1>1, ValueItems, FormatRoles DEF roles_from_any
  <1>2. CASE v.kind \notin {"array", "encoded"}
    <2>1. v.kind = "text" /\ roles_from_any(v) = {trim(t) : t \in v.items}
      BY <1>2 DEF roles_from_any
    <2>2. \A t \in v.items : trim(t) \in Seq(Word)
      BY <2>1, ValueItems, RoleTextType, TrimType
    <2> QED BY <2>1, <2>2
  <1> QED BY <1>1, <1>2

\* The API layer, with a token signed for the roles in the database, and the layer for
\* pages, with the session that has them, let the same users through: for every list
\* in the column, and every options.
THEOREM LayersGiveOneAnswer == LayersSpec => []LayersAgree
  <1>1. layer \in LayerConfig \cup {NoLayer} => LayersAgree
    <2> SUFFICES ASSUME NEW path \in PathText, NEW v \in {u \in Value : Scannable(u)}, NEW user \in User,
                        NEW signed, signed = [valid |-> TRUE, user |-> user,
                                              roles |-> [kind |-> "array", items |-> scan(v)]],
                        NEW found, found = [answer |-> "found", items |-> scan(v)],
                        NEW r, r = [path |-> path, scheme |-> "bearer",
                                    header |-> signed, query |-> NoToken],
                        NEW w, w = [path |-> path, session |-> found]
                 PROVE  api_outcome(layer, r).status = web_outcome(layer, w).status
      BY DEF LayersAgree
    <2> DEFINE held == format_roles(scan(v))
    <2>1. held # InvalidRoles
      <3>1. scan(v) \in SUBSET (RoleText \cup {Other})
        BY ValueItems DEF scan
      <3> QED BY <3>1, FormatRoles
    <2>2. extract_bearer_token(r) = signed /\ parse_jwt(signed)
      BY DEF extract_bearer_token, parse_jwt
    <2>3. roles_from_any(signed.roles) = held
      BY DEF roles_from_any
    <2>4. r.path = path /\ w.path = path /\ w.session.answer = "found" /\ w.session.items = scan(v)
      OBVIOUS
    <2> HIDE DEF held
    <2> DEFINE passes == \/ is_excluded_path(layer.excluded_paths, path)
                         \/ layer.roles = {}
                         \/ get_role(layer.roles, held).has_role
    <2>5. api_outcome(layer, r).status = IF passes THEN 200 ELSE 403
      BY <2>1, <2>2, <2>3, <2>4 DEF api_outcome, Pass, Refuse
    <2>6. web_outcome(layer, w).status = IF passes THEN 200 ELSE 403
      BY <2>4 DEF web_outcome, Pass, Refuse, held
    <2> QED BY <2>5, <2>6
  <1> QED BY <1>1, LayerStays, PTL

LEMMA TokenOfRequest ==
  ASSUME NEW path, NEW token, NEW r \in Requests(path, token)
  PROVE  extract_bearer_token(r) = token /\ r.path = path
  BY DEF Requests, extract_bearer_token

\* Behind the API layer a handler is only reached over an excluded prefix, and is then
\* told of nobody, or with a validated token that has a role the route asks for.
THEOREM OnlyHoldersReachHandlers == LayersSpec => []OnlyHoldersPass
  <1>1. layer \in LayerConfig \cup {NoLayer} => OnlyHoldersPass
    <2> SUFFICES ASSUME layer \in LayerConfig,
                        NEW path \in PathText, NEW token \in Token, NEW r \in Requests(path, token),
                        NEW api, api = api_outcome(layer, r), api.status = 200
                 PROVE  \/ /\ \E p \in layer.excluded_paths :
                                 p # <<>> /\ Len(p) <= Len(path) /\ SubSeq(path, 1, Len(p)) = p
                           /\ get_auth_data_api(api.token) = {}
                        \/ /\ token.valid
                           /\ \E d \in get_auth_data_api(api.token) :
                                /\ d.user = token.user
                                /\ layer.roles # {} => \E e \in layer.roles, t \in d.roles :
                                                         RoleName(e) \cap RoleName(t) # {}
      BY DEF OnlyHoldersPass
    <2>1. layer.roles \in SUBSET Seq(Word) /\ layer.excluded_paths \in SUBSET PathText
      BY LayersTyped, RoleTextType
    <2>2. extract_bearer_token(r) = token /\ r.path = path
      BY TokenOfRequest
    <2>3. CASE is_excluded_path(layer.excluded_paths, path)
      <3>1. PICK p \in layer.excluded_paths : p # <<>> /\ IsPrefix(p, path)
        BY <2>3 DEF is_excluded_path
      <3>2. p \in Seq(Range(p))
        BY <2>1, LayersAssumption
      <3>3. SubSeq(p, 1, Len(p)) = p
        BY <3>2, SubSeqFull
      <3>4. Len(p) <= Len(path) /\ SubSeq(path, 1, Len(p)) = p
        BY <3>1, <3>3 DEF IsPrefix
      <3>5. get_auth_data_api(api.token) = {}
        BY <2>2, <2>3 DEF api_outcome, Pass, get_auth_data_api
      <3> QED BY <3>1, <3>4, <3>5
    <2>4. CASE ~is_excluded_path(layer.excluded_paths, path)
      <3> DEFINE roles == roles_from_any(token.roles)
      <3>1. /\ token.valid /\ api.token = token
            /\ layer.roles # {} => roles # InvalidRoles /\ get_role(layer.roles, roles).has_role
        BY <2>2, <2>4 DEF api_outcome, Pass, Refuse, parse_jwt
      <3>2. token # NoToken
        <4>1. ~NoToken.valid
          BY DEF NoToken
        <4> QED BY <3>1, <4>1
      <3>3. token.roles \in Value
        BY <3>2 DEF Token
      <3> DEFINE d == [user |-> token.user, roles |-> IF roles = InvalidRoles THEN {} ELSE roles]
      <3>4. d \in get_auth_data_api(api.token) /\ d.user = token.user
        BY <3>1, <3>2 DEF get_auth_data_api
      <3>5. ASSUME layer.roles # {}
            PROVE  \E e \in layer.roles, t \in d.roles : RoleName(e) \cap RoleName(t) # {}
        <4>0. roles \in SUBSET Seq(Word)
          BY <3>1, <3>3, <3>5, RolesFromAny
        <4>1. d.roles = roles
          BY <3>1, <3>5
        <4> HIDE DEF roles, d
        <4>2. get_role(layer.roles, roles).has_role
                <=> \E e \in layer.roles, t \in roles : Shared(e, t)
          <5> DEFINE R == layer.roles
          <5>1. R \in SUBSET Seq(Word)
            BY <2>1
          <5> HIDE DEF R
          <5>2. get_role(R, roles).has_role <=> \E e \in R, t \in roles : Shared(e, t)
            BY <4>0, <5>1, HasRole
          <5> QED BY <5>2 DEF R
        <4>3. get_role(layer.roles, roles).has_role
          BY <3>1, <3>5
        <4>4. \E e \in layer.roles, t \in roles : Shared(e, t)
          BY <4>2, <4>3
        <4> QED BY <4>1, <4>4 DEF Shared
      <3> HIDE DEF d
      <3> QED BY <3>1, <3>4, <3>5
    <2> QED BY <2>3, <2>4
  <1> QED BY <1>1, LayerStays, PTL

LEMMA NobodyHasARole ==
  ASSUME NEW R \in SUBSET Seq(Word)
  PROVE  ~get_role(R, {}).has_role
  <1>1. {} \in SUBSET Seq(Word)
    OBVIOUS
  <1> QED BY <1>1, HasRole

\* Without excluded paths jwt_guard is the API layer, but for the status of a refusal.
LEMMA GuardIsLayer ==
  ASSUME layer \in LayerConfig, layer.excluded_paths = {}, NEW r
  PROVE  /\ jwt_guard(layer.roles, r).token = api_outcome(layer, r).token
         /\ (jwt_guard(layer.roles, r).status = 200) = (api_outcome(layer, r).status = 200)
  <1> DEFINE token == extract_bearer_token(r)
             roles == roles_from_any(token.roles)
             R     == layer.roles
  <1>1. ~is_excluded_path(layer.excluded_paths, r.path)
    BY DEF is_excluded_path
  <1>2. R \in SUBSET Seq(Word)
    BY LayersTyped, RoleTextType
  <1>3. api_outcome(layer, r) = IF ~parse_jwt(token) THEN Refuse(401)
                                ELSE IF R = {} THEN Pass(token)
                                ELSE IF roles = InvalidRoles THEN Refuse(500)
                                ELSE IF ~get_role(R, roles).has_role THEN Refuse(403)
                                ELSE Pass(token)
    BY <1>1 DEF api_outcome
  <1>4. jwt_guard(layer.roles, r) =
          IF ~parse_jwt(token) THEN Refuse(401)
          ELSE IF R # {} /\ ~get_role(R, IF roles = InvalidRoles THEN {} ELSE roles).has_role
               THEN Refuse(403)
          ELSE Pass(token)
    BY DEF jwt_guard
  <1> HIDE DEF token, roles, R
  <1>5. ~get_role(R, {}).has_role
    BY <1>2, NobodyHasARole
  <1>6. CASE roles = InvalidRoles
    BY <1>3, <1>4, <1>5, <1>6 DEF Pass, Refuse
  <1>7. CASE roles # InvalidRoles
    BY <1>3, <1>4, <1>7 DEF Pass, Refuse
  <1> QED BY <1>6, <1>7

\* The guards of the actix example let through whom the layers let through, with the
\* same token, although they read the roles and answer the errors otherwise.
THEOREM GuardsGiveTheSameAnswer == LayersSpec => []GuardsAreLayers
  <1>1. layer \in LayerConfig \cup {NoLayer} => GuardsAreLayers
    <2> DEFINE Guards(r) == {jwt_guard(layer.roles, r)}
                       \cup (IF layer.roles = {} THEN {api_auth(r)} ELSE {})
                       \cup (IF layer.roles = {<<"admin">>} THEN {admin_auth(r)} ELSE {})
    <2> SUFFICES ASSUME layer \in LayerConfig, layer.excluded_paths = {}
                 PROVE  /\ \A path \in PathText, token \in Token : \A r \in Requests(path, token) :
                             \A guard \in Guards(r) :
                               /\ guard.token = api_outcome(layer, r).token
                               /\ (guard.status = 200) = (api_outcome(layer, r).status = 200)
                        /\ layer.roles = {} =>
                             \A s \in Session, path \in PathText :
                               LET r == [path |-> path, session |-> s] IN
                               (web_auth(r).status = 200) = (web_outcome(layer, r).status = 200)
      BY DEF GuardsAreLayers
    <2>1. ASSUME NEW r, NEW guard \in Guards(r)
          PROVE  guard = jwt_guard(layer.roles, r)
      BY DEF api_auth, admin_auth
    <2>2. ASSUME NEW r, NEW guard \in Guards(r)
          PROVE  /\ guard.token = api_outcome(layer, r).token
                 /\ (guard.status = 200) = (api_outcome(layer, r).status = 200)
      BY <2>1, GuardIsLayer
    <2>3. ASSUME layer.roles = {}, NEW s \in Session, NEW path \in PathText,
                 NEW r, r = [path |-> path, session |-> s]
          PROVE  (web_auth(r).status = 200) = (web_outcome(layer, r).status = 200)
      <3>1. ~is_excluded_path(layer.excluded_paths, r.path)
        BY DEF is_excluded_path
      <3>2. r.session.answer \in {"no_cookie", "missing", "error", "found"}
        BY <2>3 DEF Session
      <3> QED BY <2>3, <3>1, <3>2 DEF web_auth, web_outcome, Pass, Refuse
    <2> QED BY <2>2, <2>3
  <1> QED BY <1>1, LayerStays, PTL
=============================================================================
