--------------------------- MODULE DeliveryProofs ---------------------------
(* Theorems about Metadata and Delivery, for texts of any length, any number *)
(* of documents, and any limits.                                             *)
EXTENDS Delivery, SequenceTheorems, WellFoundedInduction, TLAPS

-----------------------------------------------------------------------------
(* Least and greatest numbers. *)

LEMMA LeastExists ==
  ASSUME NEW I, I \subseteq Nat, I # {}
  PROVE  First(I) \in I /\ \A j \in I : First(I) <= j
  <1> DEFINE Less == OpToRel(<, Nat)
  <1>1. \A i, j \in Nat : j < i => <<j, i>> \in Less
    BY Zenon DEF Less, OpToRel
  <1>2. IsWellFoundedOn(Less, Nat)
    BY Zenon, NatLessThanWellFounded DEF Less
  <1> HIDE DEF Less
  <1>3. PICK i \in I : \A j \in I : ~ (<<j, i>> \in Less)
    BY <1>2, WFMin
  <1>4. \A j \in I : i \in Nat /\ j \in Nat /\ ~ (j < i)
    BY Zenon, <1>1, <1>3
  <1>5. \A j \in I : i <= j
    BY <1>4
  <1>6. QED
    BY <1>5 DEF First

LEMMA GreatestExists ==
  ASSUME NEW n \in Nat, NEW I, I \subseteq 1 .. n, I # {}
  PROVE  Last(I) \in I /\ \A j \in I : j <= Last(I)
  <1> DEFINE Mirror == {m \in 0 .. n : n - m \in I}
  <1>1. PICK k \in I : k \in 1 .. n
    OBVIOUS
  <1>2. n - k \in 0 .. n /\ n - (n - k) = k
    BY <1>1
  <1>3. n - k \in Mirror
    BY <1>2
  <1>4. Mirror \subseteq Nat /\ Mirror # {}
    <2>1. Mirror \subseteq 0 .. n
      OBVIOUS
    <2>2. Mirror # {}
      BY <1>3
    <2> HIDE DEF Mirror
    <2>3. QED
      BY <2>1, <2>2
  <1> DEFINE i == n - First(Mirror)
  <1>5. i \in I /\ \A m \in Mirror : First(Mirror) <= m
    <2>1. First(Mirror) \in Mirror /\ \A m \in Mirror : First(Mirror) <= m
      BY <1>4, LeastExists
    <2>2. QED
      BY <2>1
  <1>6. ASSUME NEW j \in I PROVE j <= i
    <2>1. j \in 1 .. n /\ n - j \in 0 .. n /\ n - (n - j) = j
      OBVIOUS
    <2>2. n - j \in Mirror
      BY <2>1
    <2>3. First(Mirror) <= n - j /\ First(Mirror) \in Nat
      BY <1>4, <1>5, <2>2, LeastExists
    <2>4. QED
      BY <2>1, <2>3
  <1> HIDE DEF i
  <1>7. QED
    BY <1>5, <1>6 DEF Last

(* Induction over the natural numbers, for the numbers of a set. *)
LEMMA Induction ==
  ASSUME NEW P, 0 \in P, \A n \in Nat : n \in P => n + 1 \in P
  PROVE  Nat \subseteq P
  <1> SUFFICES ASSUME Nat \ P # {} PROVE FALSE
    OBVIOUS
  <1> DEFINE n == First(Nat \ P)
  <1>1. n \in Nat /\ n \notin P /\ \A j \in Nat \ P : n <= j
    <2>1. Nat \ P \subseteq Nat
      OBVIOUS
    <2>2. QED
      BY <2>1, LeastExists
  <1> HIDE DEF n
  <1>2. n # 0 /\ n - 1 \in Nat
    BY <1>1
  <1>3. n - 1 \in P
    BY <1>1, <1>2
  <1>4. (n - 1) + 1 \in P
    BY <1>2, <1>3
  <1>5. QED
    BY <1>1, <1>4

-----------------------------------------------------------------------------
(* Texts. *)

LEMMA TextLength ==
  ASSUME NEW S, NEW s \in Seq(S)
  PROVE  \E n \in Nat : Len(s) = n /\ DOMAIN s = 1 .. n /\ \A i \in 1 .. n : s[i] \in S
  BY LenProperties

LEMMA TrimmedText ==
  ASSUME NEW s \in Text
  PROVE  /\ Trimmed(s) \in Text
         /\ Len(Trimmed(s)) <= Len(s)
         /\ NoBlankEnds(Trimmed(s))
         /\ NoBlankEnds(s) => Trimmed(s) = s
         /\ \A i \in DOMAIN Trimmed(s) : \E j \in DOMAIN s : Trimmed(s)[i] = s[j]
  <1>1. PICK n \in Nat : Len(s) = n /\ DOMAIN s = 1 .. n /\ \A i \in 1 .. n : s[i] \in Chars
    BY TextLength DEF Text
  <1>2. \A i \in 1 .. n : i \in Ink(s) <=> s[i] # "blank"
    BY <1>1 DEF Ink
  <1>3. Ink(s) \subseteq 1 .. n
    BY <1>1 DEF Ink
  <1>4. CASE Ink(s) = {}
    <2>1. Trimmed(s) = <<>>
      BY <1>4 DEF Trimmed
    <2>2. ASSUME NoBlankEnds(s), s # <<>> PROVE FALSE
      <3>1. 1 \in 1 .. n
        BY <1>1, <2>2, EmptySeq DEF Text
      <3>2. QED
        BY <1>2, <1>4, <2>2, <3>1 DEF NoBlankEnds
    <2>3. QED
      BY <1>1, <2>1, <2>2 DEF NoBlankEnds, Text
  <1>5. CASE Ink(s) # {}
    <2>1. PICK a \in 1 .. n : a = First(Ink(s)) /\ a \in Ink(s) /\ \A i \in Ink(s) : a <= i
      <3>1. Ink(s) \subseteq Nat
        BY <1>3
      <3>2. QED
        BY <1>3, <1>5, <3>1, LeastExists
    <2>2. PICK z \in 1 .. n : z = Last(Ink(s)) /\ z \in Ink(s) /\ \A i \in Ink(s) : i <= z
      BY <1>3, <1>5, GreatestExists
    <2>3. Trimmed(s) = SubSeq(s, a, z)
      BY <1>5, <2>1, <2>2 DEF Trimmed
    <2>4. a <= z
      BY <2>1, <2>2
    <2>5. PICK m \in 1 .. n : m = z - a + 1
      BY <2>4
    <2>6. /\ SubSeq(s, a, z) \in Seq(Chars)
          /\ Len(SubSeq(s, a, z)) = m
          /\ \A i \in 1 .. m : SubSeq(s, a, z)[i] = s[a + i - 1] /\ a + i - 1 \in 1 .. n
      <3>1. a \in Int /\ z \in Int /\ \A i \in a .. z : s[i] \in Chars
        BY <1>1
      <3>2. /\ SubSeq(s, a, z) \in Seq(Chars)
            /\ Len(SubSeq(s, a, z)) = m
            /\ \A i \in 1 .. m : SubSeq(s, a, z)[i] = s[a + i - 1]
        BY <2>4, <2>5, <3>1, SubSeqProperties
      <3>3. \A i \in 1 .. m : a + i - 1 \in 1 .. n
        BY <2>5
      <3>4. QED
        BY <3>2, <3>3
    <2>7. NoBlankEnds(SubSeq(s, a, z))
      <3>1. a + 1 - 1 = a /\ a + m - 1 = z /\ 1 \in 1 .. m /\ m \in 1 .. m
        BY <2>5
      <3>2. SubSeq(s, a, z)[1] = s[a] /\ SubSeq(s, a, z)[m] = s[z]
        BY <2>6, <3>1
      <3>3. s[a] # "blank" /\ s[z] # "blank"
        BY <1>2, <2>1, <2>2
      <3>4. QED
        BY <2>6, <3>2, <3>3 DEF NoBlankEnds
    <2>8. ASSUME NoBlankEnds(s) PROVE SubSeq(s, a, z) = s
      <3>1. 1 \in 1 .. n /\ n \in 1 .. n
        OBVIOUS
      <3>2. s # <<>>
        BY <1>1, <3>1
      <3>3. 1 \in Ink(s) /\ n \in Ink(s)
        BY <1>1, <1>2, <2>8, <3>1, <3>2 DEF NoBlankEnds
      <3>4. a <= 1 /\ n <= z
        BY <2>1, <2>2, <3>3
      <3>5. a = 1 /\ z = n
        BY <3>4
      <3>6. QED
        BY <1>1, <3>5, SubSeqFull DEF Text
    <2>9. DOMAIN SubSeq(s, a, z) = 1 .. m
      BY <2>6
    <2>10. \A i \in 1 .. m : \E j \in 1 .. n : SubSeq(s, a, z)[i] = s[j]
      BY <2>6
    <2>11. Len(SubSeq(s, a, z)) <= Len(s)
      BY <1>1, <2>6
    <2>12. SubSeq(s, a, z) \in Text
      BY <2>6 DEF Text
    <2>13. QED
      BY Zenon, <1>1, <2>3, <2>7, <2>8, <2>9, <2>10, <2>11, <2>12
  <1>6. QED
    BY <1>4, <1>5

LEMMA LeftText ==
  ASSUME NEW S, NEW s \in Seq(S), NEW n \in Nat
  PROVE  /\ Left(s, n) \in Seq(S)
         /\ Len(Left(s, n)) <= n
         /\ Len(s) <= n => Left(s, n) = s
         /\ \A i \in DOMAIN Left(s, n) : Left(s, n)[i] = s[i] /\ i \in DOMAIN s
  <1>1. PICK l \in Nat : Len(s) = l /\ DOMAIN s = 1 .. l /\ \A i \in 1 .. l : s[i] \in S
    BY TextLength
  <1>2. CASE l <= n
    <2>1. Left(s, n) = s
      BY <1>1, <1>2, SubSeqFull DEF Left
    <2>2. QED
      BY <1>1, <1>2, <2>1
  <1>3. CASE ~ (l <= n)
    <2>1. Left(s, n) = SubSeq(s, 1, n)
      BY <1>1, <1>3 DEF Left
    <2>2. \A i \in 1 .. n : i \in 1 .. l /\ s[i] \in S /\ 1 + i - 1 = i
      BY <1>1, <1>3
    <2>3. /\ SubSeq(s, 1, n) \in Seq(S)
          /\ Len(SubSeq(s, 1, n)) = n
          /\ \A i \in 1 .. n : SubSeq(s, 1, n)[i] = s[1 + i - 1]
      BY <1>3, <2>2, SubSeqProperties
    <2>4. DOMAIN SubSeq(s, 1, n) = 1 .. n
      BY <2>3
    <2>5. \A i \in 1 .. n : SubSeq(s, 1, n)[i] = s[i]
      BY <2>2, <2>3
    <2>6. QED
      BY <1>1, <1>3, <2>1, <2>2, <2>3, <2>4, <2>5
  <1>4. QED
    BY <1>2, <1>3

LEMMA LoweredText ==
  ASSUME NEW s \in Text, NoBlankEnds(s)
  PROVE  /\ Lowered(s) \in Text
         /\ Len(Lowered(s)) = Len(s)
         /\ NoBlankEnds(Lowered(s))
         /\ \A i \in DOMAIN Lowered(s) : Lower[Lowered(s)[i]] = Lowered(s)[i]
         /\ (\A i \in DOMAIN s : Lower[s[i]] = s[i]) => Lowered(s) = s
  <1>1. PICK n \in Nat : Len(s) = n /\ DOMAIN s = 1 .. n /\ \A i \in 1 .. n : s[i] \in Chars
    BY TextLength DEF Text
  <1>2. Lowered(s) = [i \in 1 .. n |-> Lower[s[i]]]
    BY <1>1 DEF Lowered
  <1>3. \A i \in 1 .. n : Lower[s[i]] \in Chars
    BY <1>1, MetadataAssumption
  <1>4. Lowered(s) \in Text /\ Len(Lowered(s)) = n /\ DOMAIN Lowered(s) = 1 .. n
    BY <1>2, <1>3 DEF Text
  <1>5. \A i \in 1 .. n : /\ Lower[Lowered(s)[i]] = Lowered(s)[i]
                          /\ Lowered(s)[i] = "blank" => s[i] = "blank"
    BY <1>1, <1>2, MetadataAssumption
  <1>6. NoBlankEnds(Lowered(s))
    <2>1. ASSUME Lowered(s) # <<>> PROVE 1 \in 1 .. n /\ n \in 1 .. n
      BY <1>4, <2>1, EmptySeq DEF Text
    <2>2. ASSUME n \in 1 .. n PROVE s # <<>>
      BY <1>1, <2>2
    <2>3. QED
      BY <1>1, <1>4, <1>5, <2>1, <2>2 DEF NoBlankEnds
  <1>7. ASSUME \A i \in DOMAIN s : Lower[s[i]] = s[i] PROVE Lowered(s) = s
    <2>1. s = [i \in 1 .. n |-> s[i]]
      BY <1>1, LenProperties DEF Text
    <2>2. QED
      BY <1>1, <1>2, <1>7, <2>1
  <1>8. QED
    BY <1>1, <1>4, <1>5, <1>6, <1>7

LEMMA BareText ==
  ASSUME NEW s \in Text, NoBlankEnds(s)
  PROVE  /\ Bare(s) \in Text
         /\ Len(Bare(s)) <= Len(s)
         /\ NoBlankEnds(Bare(s))
         /\ \A i \in DOMAIN Bare(s) : /\ Bare(s)[i] # "semicolon"
                                      /\ \E j \in DOMAIN s : Bare(s)[i] = s[j]
         /\ (\A i \in DOMAIN s : s[i] # "semicolon") => Bare(s) = s
  <1>1. PICK n \in Nat : Len(s) = n /\ DOMAIN s = 1 .. n /\ \A i \in 1 .. n : s[i] \in Chars
    BY TextLength DEF Text
  <1>2. CASE At(s, "semicolon") = {}
    BY <1>1, <1>2 DEF Bare, At
  <1>3. CASE At(s, "semicolon") # {}
    <2>1. PICK c \in 1 .. n : /\ c = First(At(s, "semicolon"))
                              /\ s[c] = "semicolon"
                              /\ \A i \in 1 .. n : s[i] = "semicolon" => c <= i
      <3>1. At(s, "semicolon") = {i \in 1 .. n : s[i] = "semicolon"}
        BY <1>1 DEF At
      <3>2. At(s, "semicolon") \subseteq Nat
        BY <3>1
      <3>3. QED
        BY <1>3, <3>1, <3>2, LeastExists
    <2> DEFINE t == SubSeq(s, 1, c - 1)
    <2>2. /\ t \in Text
          /\ Len(t) <= n /\ DOMAIN t = 1 .. c - 1
          /\ \A i \in 1 .. c - 1 : t[i] = s[i] /\ i \in 1 .. n /\ s[i] # "semicolon"
      <3>1. \A i \in 1 .. c - 1 : i \in 1 .. n /\ s[i] \in Chars /\ s[i] # "semicolon"
        BY <1>1, <2>1
      <3>2. PICK m \in Nat : m = c - 1 /\ m <= n
        OBVIOUS
      <3>3. /\ SubSeq(s, 1, m) \in Seq(Chars)
            /\ Len(SubSeq(s, 1, m)) = m
            /\ \A i \in 1 .. m : SubSeq(s, 1, m)[i] = s[i]
        BY <3>1, <3>2
      <3>4. DOMAIN SubSeq(s, 1, m) = 1 .. m
        BY <3>3
      <3>5. QED
        BY <3>1, <3>2, <3>3, <3>4 DEF Text
    <2> HIDE DEF t
    <2>3. Bare(s) = Trimmed(t)
      BY <1>3, <2>1 DEF Bare, t
    <2>4. /\ Trimmed(t) \in Text
          /\ Len(Trimmed(t)) <= Len(t)
          /\ NoBlankEnds(Trimmed(t))
          /\ \A i \in DOMAIN Trimmed(t) : \E j \in DOMAIN t : Trimmed(t)[i] = t[j]
      BY <2>2, TrimmedText
    <2>5. \A i \in DOMAIN Trimmed(t) : /\ Trimmed(t)[i] # "semicolon"
                                       /\ \E j \in DOMAIN s : Trimmed(t)[i] = s[j]
      BY <1>1, <2>2, <2>4
    <2>6. Len(Trimmed(t)) <= Len(s)
      BY <1>1, <2>2, <2>4, LenProperties DEF Text
    <2>7. ~ \A i \in DOMAIN s : s[i] # "semicolon"
      BY <1>1, <2>1
    <2>8. QED
      BY <2>3, <2>4, <2>5, <2>6, <2>7
  <1>4. QED
    BY <1>2, <1>3

-----------------------------------------------------------------------------
(* Content types. *)

(* What coerceContentType has nothing to change of, it does not change. *)
LEMMA CoercedIsKept ==
  ASSUME NEW s \in Text, IsCoerced(s)
  PROVE  CoerceContentType(s) = s
  <1>1. Trimmed(s) = s
    BY TrimmedText DEF IsCoerced
  <1>2. Lowered(s) = s
    BY LoweredText DEF IsCoerced
  <1>3. Bare(s) = s
    BY BareText DEF IsCoerced
  <1>4. Left(s, MaxType) = s
    BY LeftText, MetadataAssumption DEF IsCoerced, Text
  <1>5. QED
    BY <1>1, <1>2, <1>3, <1>4 DEF CoerceContentType, IsCoerced

(***************************************************************************)
(* It makes such a type of all that is not too long, and a text that is    *)
(* not too long of the rest.                                               *)
(***************************************************************************)
LEMMA CoercedShape ==
  ASSUME NEW s \in Text
  PROVE  /\ CoerceContentType(s) \in Text
         /\ Len(CoerceContentType(s)) <= MaxType
         /\ Len(Trimmed(s)) <= MaxType => IsCoerced(CoerceContentType(s))
  <1> DEFINE t == Trimmed(s)
             low == Lowered(t)
             bare == Bare(low)
             cut == Left(bare, MaxType)
  <1>1. t \in Text /\ NoBlankEnds(t)
    BY TrimmedText
  <1>2. /\ low \in Text /\ NoBlankEnds(low) /\ Len(low) = Len(t)
        /\ \A i \in DOMAIN low : Lower[low[i]] = low[i]
    BY <1>1, LoweredText
  <1>3. /\ bare \in Text /\ NoBlankEnds(bare) /\ Len(bare) <= Len(low)
        /\ \A i \in DOMAIN bare : bare[i] # "semicolon" /\ Lower[bare[i]] = bare[i]
    <2> HIDE DEF low
    <2>1. QED
      BY <1>2, BareText
  <1>4. /\ cut \in Text /\ Len(cut) <= MaxType
        /\ Len(bare) <= MaxType => cut = bare
    <2> HIDE DEF bare
    <2>1. QED
      BY <1>3, LeftText, MetadataAssumption DEF Text
  <1>5. CoerceContentType(s) = IF cut \in DOMAIN Alias THEN Alias[cut]
                               ELSE IF IsType(cut) THEN cut ELSE OctetStream
    BY DEF CoerceContentType
  <1>6. ASSUME Len(t) <= MaxType PROVE cut = bare
    <2> HIDE DEF t, low, bare, cut
    <2>1. PICK i \in Nat, j \in Nat : Len(bare) = i /\ Len(t) = j
      BY <1>1, <1>3, TextLength DEF Text
    <2>2. i <= j
      BY <1>2, <1>3, <2>1
    <2>3. i <= MaxType
      BY <1>6, <2>1, <2>2, MetadataAssumption
    <2>4. QED
      BY <1>4, <2>1, <2>3
  <1> HIDE DEF t, low, bare, cut
  <1>7. CASE cut \in DOMAIN Alias
    BY <1>5, <1>7, AliasAssumption DEF IsCoerced
  <1>8. CASE cut \notin DOMAIN Alias /\ ~ IsType(cut)
    BY <1>5, <1>8, AliasAssumption DEF IsCoerced
  <1>9. CASE cut \notin DOMAIN Alias /\ IsType(cut)
    <2>1. CoerceContentType(s) = cut
      BY <1>5, <1>9
    <2>2. ASSUME Len(t) <= MaxType PROVE IsCoerced(cut)
      BY <1>3, <1>4, <1>6, <1>9, <2>2 DEF IsCoerced
    <2>3. QED
      BY <1>4, <2>1, <2>2 DEF t
  <1>10. QED
    BY <1>7, <1>8, <1>9

(* Whatever the type was, the second time is the last that changes it. *)
LEMMA CoercedTwice ==
  ASSUME NEW s \in Text
  PROVE  IsCoerced(CoerceContentType(CoerceContentType(s)))
  <1> DEFINE c == CoerceContentType(s)
  <1>1. c \in Text /\ Len(c) <= MaxType
    BY CoercedShape
  <1> HIDE DEF c
  <1>2. PICK i \in Nat, j \in Nat : Len(c) = i /\ Len(Trimmed(c)) = j /\ j <= i
    BY <1>1, TrimmedText, TextLength DEF Text
  <1>3. Len(Trimmed(c)) <= MaxType
    BY <1>1, <1>2, MetadataAssumption
  <1>4. QED
    BY <1>1, <1>3, CoercedShape DEF c

-----------------------------------------------------------------------------
(* Descriptions, titles and tags. *)

(* A second cleaning drops the blank that the cut may have left, a third nothing. *)
LEMMA CleanedShape ==
  ASSUME NEW s \in Text, NEW n \in Nat
  PROVE  /\ Cleaned(s, n) \in Text
         /\ Len(Cleaned(s, n)) <= n
         /\ Len(Trimmed(s)) <= n => Cleaned(s, n) = Trimmed(s)
  BY TrimmedText, LeftText DEF Cleaned, Text

LEMMA CleanedIsKept ==
  ASSUME NEW s \in Text, NEW n \in Nat, Len(Trimmed(s)) <= n
  PROVE  Cleaned(Cleaned(s, n), n) = Cleaned(s, n)
  <1>1. Trimmed(s) \in Text /\ Trimmed(Trimmed(s)) = Trimmed(s)
    BY TrimmedText
  <1>2. QED
    BY <1>1, CleanedShape

LEMMA UnderscoredText ==
  ASSUME NEW s \in Text
  PROVE  /\ Underscored(s) \in Text
         /\ Len(Underscored(s)) = Len(s)
         /\ NoBlankEnds(s) => NoBlankEnds(Underscored(s))
         /\ \A i \in DOMAIN Underscored(s) : Underscored(s)[i] # "slash"
         /\ (\A i \in DOMAIN s : s[i] # "slash") => Underscored(s) = s
  <1>1. PICK n \in Nat : Len(s) = n /\ DOMAIN s = 1 .. n /\ \A i \in 1 .. n : s[i] \in Chars
    BY TextLength DEF Text
  <1>2. Underscored(s) = [i \in 1 .. n |-> IF s[i] = "slash" THEN "underscore" ELSE s[i]]
    BY <1>1 DEF Underscored
  <1>3. Underscored(s) \in Text /\ Len(Underscored(s)) = n /\ DOMAIN Underscored(s) = 1 .. n
    BY <1>1, <1>2, MetadataAssumption DEF Text
  <1>4. \A i \in 1 .. n : /\ Underscored(s)[i] # "slash"
                          /\ Underscored(s)[i] = "blank" => s[i] = "blank"
    BY <1>2
  <1>5. ASSUME NoBlankEnds(s) PROVE NoBlankEnds(Underscored(s))
    <2>1. ASSUME Underscored(s) # <<>> PROVE 1 \in 1 .. n /\ n \in 1 .. n
      BY <1>3, <2>1, EmptySeq DEF Text
    <2>2. ASSUME n \in 1 .. n PROVE s # <<>>
      BY <1>1, <2>2
    <2>3. QED
      BY <1>1, <1>3, <1>4, <1>5, <2>1, <2>2 DEF NoBlankEnds
  <1>6. ASSUME \A i \in DOMAIN s : s[i] # "slash" PROVE Underscored(s) = s
    <2>1. s = [i \in 1 .. n |-> s[i]]
      BY <1>1, LenProperties DEF Text
    <2>2. QED
      BY <1>1, <1>2, <1>6, <2>1
  <1>7. QED
    BY <1>1, <1>3, <1>4, <1>5, <1>6

LEMMA CleanTitleShape ==
  ASSUME NEW s \in Text
  PROVE  /\ CleanTitle(s) \in Text
         /\ Len(CleanTitle(s)) <= MaxTitle
         /\ \A i \in DOMAIN CleanTitle(s) : CleanTitle(s)[i] # "slash"
         /\ Len(Trimmed(s)) <= MaxTitle => NoBlankEnds(CleanTitle(s))
  <1> DEFINE t == Trimmed(s)
             u == Underscored(t)
  <1>1. t \in Text /\ NoBlankEnds(t)
    BY TrimmedText
  <1>2. /\ u \in Text /\ Len(u) = Len(t) /\ NoBlankEnds(u)
        /\ \A i \in DOMAIN u : u[i] # "slash"
    <2> HIDE DEF t
    <2>1. QED
      BY <1>1, UnderscoredText
  <1>3. CleanTitle(s) = Left(u, MaxTitle)
    BY DEF CleanTitle
  <1> HIDE DEF u
  <1>4. QED
    BY <1>2, <1>3, LeftText, MetadataAssumption DEF Text

(* A title without slashes and blank ends, and not too long, is kept. *)
LEMMA CleanTitleTrims ==
  ASSUME NEW s \in Text, Len(s) <= MaxTitle, \A i \in DOMAIN s : s[i] # "slash"
  PROVE  CleanTitle(s) = Trimmed(s)
  <1> DEFINE t == Trimmed(s)
  <1>1. /\ t \in Text /\ Len(t) <= Len(s)
        /\ \A i \in DOMAIN t : t[i] # "slash"
    BY TrimmedText
  <1>2. CleanTitle(s) = Left(Underscored(t), MaxTitle)
    BY DEF CleanTitle
  <1> HIDE DEF t
  <1>3. Underscored(t) = t
    BY <1>1, UnderscoredText
  <1>4. PICK i \in Nat, j \in Nat : Len(s) = i /\ Len(t) = j
    BY <1>1, TextLength DEF Text
  <1>5. Len(t) <= MaxTitle
    BY <1>1, <1>4, MetadataAssumption
  <1>6. Left(t, MaxTitle) = t
    BY <1>1, <1>5, LeftText, MetadataAssumption DEF Text
  <1>7. QED
    BY <1>2, <1>3, <1>6 DEF t

LEMMA CleanTitleIsKept ==
  ASSUME NEW s \in Text, Len(Trimmed(s)) <= MaxTitle
  PROVE  CleanTitle(CleanTitle(s)) = CleanTitle(s)
  BY CleanTitleShape, CleanTitleTrims, TrimmedText

LEMMA CleanTitleTwice ==
  ASSUME NEW s \in Text
  PROVE  CleanTitle(CleanTitle(CleanTitle(s))) = CleanTitle(CleanTitle(s))
  <1> DEFINE c == CleanTitle(s)
  <1>1. c \in Text /\ Len(c) <= MaxTitle /\ \A i \in DOMAIN c : c[i] # "slash"
    BY CleanTitleShape
  <1> HIDE DEF c
  <1>2. PICK i \in Nat, j \in Nat : Len(c) = i /\ Len(Trimmed(c)) = j /\ j <= i
    BY <1>1, TrimmedText, TextLength DEF Text
  <1>3. Len(Trimmed(c)) <= MaxTitle
    BY <1>1, <1>2, MetadataAssumption
  <1>4. QED
    BY <1>1, <1>3, CleanTitleIsKept DEF c

(***************************************************************************)
(* The loop of cleanTags exists as a function: one that runs to tag n can  *)
(* be taken one further.                                                   *)
(***************************************************************************)
LEMMA LoopExists ==
  ASSUME NEW tags, NEW n \in Nat
  PROVE  \E out : out = [i \in 0 .. n |-> IF i = 0 THEN <<>> ELSE WithTag(out[i - 1], tags[i])]
  <1> DEFINE Runs(k, f) == f = [i \in 0 .. k |-> IF i = 0 THEN <<>>
                                                 ELSE WithTag(f[i - 1], tags[i])]
             P == {k \in Nat : \E f : Runs(k, f)}
  <1>1. 0 \in P
    <2>1. Runs(0, [i \in 0 .. 0 |-> <<>>])
      OBVIOUS
    <2>2. QED
      BY <2>1
  <1>2. ASSUME NEW k \in Nat, k \in P PROVE k + 1 \in P
    <2>1. PICK f : Runs(k, f)
      BY <1>2
    <2> DEFINE g == [i \in 0 .. k + 1 |-> IF i = k + 1 THEN WithTag(f[k], tags[k + 1])
                                                       ELSE f[i]]
    <2>2. ASSUME NEW i \in 0 .. k + 1
          PROVE  g[i] = IF i = 0 THEN <<>> ELSE WithTag(g[i - 1], tags[i])
      <3>1. CASE i = k + 1
        <4>1. i # 0 /\ i - 1 = k /\ k \in 0 .. k + 1 /\ k # k + 1
          BY <3>1
        <4>2. g[k] = f[k] /\ g[i] = WithTag(f[k], tags[k + 1])
          BY <3>1, <4>1
        <4>3. QED
          BY <3>1, <4>1, <4>2
      <3>2. CASE i # k + 1
        <4>1. i \in 0 .. k
          BY <3>2
        <4>2. g[i] = f[i]
          BY <3>2
        <4>3. f[i] = IF i = 0 THEN <<>> ELSE WithTag(f[i - 1], tags[i])
          BY <2>1, <4>1
        <4>4. CASE i = 0
          BY <4>2, <4>3, <4>4
        <4>5. CASE i # 0
          <5>1. i - 1 \in 0 .. k + 1 /\ i - 1 # k + 1
            BY <4>1, <4>5
          <5>2. g[i - 1] = f[i - 1]
            BY <5>1
          <5>3. QED
            BY <4>2, <4>3, <4>5, <5>2
        <4>6. QED
          BY <4>4, <4>5
      <3>3. QED
        BY <3>1, <3>2
    <2>3. g = [i \in 0 .. k + 1 |-> g[i]]
      OBVIOUS
    <2> HIDE DEF g
    <2>4. Runs(k + 1, g)
      BY <2>2, <2>3
    <2>5. QED
      BY <2>4
  <1>3. n \in P
    <2> HIDE DEF P
    <2>1. QED
      BY <1>1, <1>2, Induction
  <1>4. QED
    BY <1>3

LEMMA CleanTagsLoop ==
  ASSUME NEW tags, NEW n \in Nat, Len(tags) = n
  PROVE  \E out : /\ CleanTags(tags) = out[n]
                  /\ out[0] = <<>>
                  /\ \A i \in 1 .. n : out[i] = WithTag(out[i - 1], tags[i])
  <1> DEFINE out[i \in 0 .. Len(tags)] ==
               IF i = 0 THEN <<>> ELSE WithTag(out[i - 1], tags[i])
  <1>1. CleanTags(tags) = out[Len(tags)]
    BY DEF CleanTags
  <1>2. out = [i \in 0 .. n |-> IF i = 0 THEN <<>> ELSE WithTag(out[i - 1], tags[i])]
    BY LoopExists
  <1> HIDE DEF out
  <1>3. \A i \in 1 .. n : i \in 0 .. n /\ i # 0
    OBVIOUS
  <1>4. QED
    BY <1>1, <1>2, <1>3

(* A list of which cleanTags has nothing to change. *)
CleanList(tags) ==
  /\ tags \in Seq(Text)
  /\ Len(tags) <= MaxTags
  /\ \A i \in DOMAIN tags : tags[i] # <<>> /\ Cleaned(tags[i], MaxTag) = tags[i]

LEMMA NoTags == CleanTags(<<>>) = <<>>
  BY CleanTagsLoop

LEMMA WithTagCleans ==
  ASSUME NEW out, CleanList(out), NEW t \in Text, Len(Trimmed(t)) <= MaxTag
  PROVE  CleanList(WithTag(out, t))
  <1> DEFINE c == Cleaned(t, MaxTag)
  <1>1. c \in Text /\ Cleaned(c, MaxTag) = c
    BY CleanedShape, CleanedIsKept, MetadataAssumption
  <1> HIDE DEF c
  <1>2. PICK n \in Nat : Len(out) = n /\ DOMAIN out = 1 .. n
    BY TextLength DEF CleanList
  <1>3. CASE n < MaxTags /\ c # <<>>
    <2>1. WithTag(out, t) = Append(out, c)
      BY <1>2, <1>3, MetadataAssumption DEF WithTag, c
    <2>2. /\ Append(out, c) \in Seq(Text)
          /\ Len(Append(out, c)) = n + 1
          /\ \A i \in 1 .. n : Append(out, c)[i] = out[i]
          /\ Append(out, c)[n + 1] = c
      BY <1>1, <1>2, AppendProperties DEF CleanList
    <2>3. DOMAIN Append(out, c) = 1 .. n + 1
      BY <2>2
    <2>4. ASSUME NEW i \in 1 .. n + 1
          PROVE  Append(out, c)[i] # <<>> /\ Cleaned(Append(out, c)[i], MaxTag) = Append(out, c)[i]
      <3>1. CASE i = n + 1
        BY <1>1, <1>3, <2>2, <3>1
      <3>2. CASE i # n + 1
        <4>1. i \in 1 .. n
          BY <3>2
        <4>2. QED
          BY <1>2, <2>2, <4>1 DEF CleanList
      <3>3. QED
        BY <3>1, <3>2
    <2>5. n + 1 <= MaxTags
      BY <1>3, MetadataAssumption
    <2>6. QED
      BY <2>1, <2>2, <2>3, <2>4, <2>5 DEF CleanList
  <1>4. CASE ~ (n < MaxTags /\ c # <<>>)
    <2>1. WithTag(out, t) = out
      BY <1>2, <1>4, MetadataAssumption DEF WithTag, c
    <2>2. QED
      BY <2>1
  <1>5. QED
    BY <1>3, <1>4

LEMMA CleanTagsCleans ==
  ASSUME NEW tags \in Seq(Text), \A i \in DOMAIN tags : Len(Trimmed(tags[i])) <= MaxTag
  PROVE  CleanList(CleanTags(tags))
  <1>1. PICK n \in Nat : Len(tags) = n /\ DOMAIN tags = 1 .. n /\ \A i \in 1 .. n : tags[i] \in Text
    BY TextLength
  <1>2. PICK out : /\ CleanTags(tags) = out[n]
                   /\ out[0] = <<>>
                   /\ \A i \in 1 .. n : out[i] = WithTag(out[i - 1], tags[i])
    BY <1>1, CleanTagsLoop
  <1> DEFINE P == {k \in Nat : k <= n => CleanList(out[k])}
  <1>3. 0 \in P
    <2>1. CleanList(<<>>)
      BY MetadataAssumption DEF CleanList
    <2>2. QED
      BY <1>2, <2>1
  <1>4. ASSUME NEW k \in Nat, k \in P PROVE k + 1 \in P
    <2>1. ASSUME k + 1 <= n PROVE CleanList(out[k + 1])
      <3>1. k + 1 \in 1 .. n /\ (k + 1) - 1 = k /\ k <= n
        BY <2>1
      <3>2. CleanList(out[k]) /\ out[k + 1] = WithTag(out[k], tags[k + 1])
        BY <1>2, <1>4, <3>1
      <3>3. QED
        BY <1>1, <3>1, <3>2, WithTagCleans
    <2>2. QED
      BY <2>1
  <1>5. n \in P
    <2> HIDE DEF P
    <2>1. QED
      BY <1>3, <1>4, Induction
  <1>6. QED
    BY <1>2, <1>5

LEMMA CleanTagsIsKept ==
  ASSUME NEW tags, CleanList(tags)
  PROVE  CleanTags(tags) = tags
  <1>1. PICK n \in Nat : Len(tags) = n /\ DOMAIN tags = 1 .. n /\ \A i \in 1 .. n : tags[i] \in Text
    BY TextLength DEF CleanList
  <1>2. PICK out : /\ CleanTags(tags) = out[n]
                   /\ out[0] = <<>>
                   /\ \A i \in 1 .. n : out[i] = WithTag(out[i - 1], tags[i])
    BY <1>1, CleanTagsLoop
  <1> DEFINE P == {k \in Nat : k <= n => out[k] = SubSeq(tags, 1, k)}
  <1>3. 0 \in P
    <2>1. SubSeq(tags, 1, 0) = <<>>
      BY SubSeqEmpty
    <2>2. QED
      BY <1>2, <2>1
  <1>4. ASSUME NEW k \in Nat, k \in P PROVE k + 1 \in P
    <2>1. ASSUME k + 1 <= n PROVE out[k + 1] = SubSeq(tags, 1, k + 1)
      <3>1. k + 1 \in 1 .. n /\ (k + 1) - 1 = k /\ k <= n
        BY <2>1
      <3>2. out[k] = SubSeq(tags, 1, k) /\ out[k + 1] = WithTag(out[k], tags[k + 1])
        BY <1>2, <1>4, <3>1
      <3>3. /\ SubSeq(tags, 1, k) \in Seq(Text)
            /\ Len(SubSeq(tags, 1, k)) = k
        <4>1. \A i \in 1 .. k : tags[i] \in Text
          BY <1>1, <3>1
        <4>2. QED
          BY <4>1, SubSeqProperties
      <3>4. tags[k + 1] # <<>> /\ Cleaned(tags[k + 1], MaxTag) = tags[k + 1]
        BY <1>1, <3>1 DEF CleanList
      <3>5. k < MaxTags
        BY <1>1, <2>1, MetadataAssumption DEF CleanList
      <3>6. out[k + 1] = Append(SubSeq(tags, 1, k), tags[k + 1])
        BY <3>2, <3>3, <3>4, <3>5, MetadataAssumption DEF WithTag
      <3>7. SubSeq(tags, 1, k + 1) = SubSeq(tags, 1, k) \o <<tags[k + 1]>>
        <4>1. tags \in Seq(Text) /\ 1 \in 1 .. Len(tags) /\ k + 1 \in 1 .. Len(tags)
          BY <1>1, <2>1 DEF CleanList
        <4>2. SubSeq(tags, 1, k + 1) = SubSeq(tags, 1, (k + 1) - 1) \o <<tags[k + 1]>>
          BY <4>1, SubSeqRecursiveSecond
        <4>3. QED
          BY <3>1, <4>2
      <3>8. SubSeq(tags, 1, k) \o <<tags[k + 1]>> = Append(SubSeq(tags, 1, k), tags[k + 1])
        BY <1>1, <3>1, <3>3, AppendIsConcat
      <3>9. QED
        BY <3>6, <3>7, <3>8
    <2>2. QED
      BY <2>1
  <1>5. n \in P
    <2> HIDE DEF P
    <2>1. QED
      BY <1>3, <1>4, Induction
  <1>6. QED
    BY <1>1, <1>2, <1>5, SubSeqFull DEF CleanList

-----------------------------------------------------------------------------
(* Canonical metadata. *)

Description ==
  [content_type : Text, size_bytes : Nat, title : Text, description : Text, tags : Seq(Text)]

LEMMA NothingCleaned ==
  ASSUME NEW n \in Nat
  PROVE  Cleaned(<<>>, n) = <<>>
  <1>1. <<>> \in Text /\ NoBlankEnds(<<>>) /\ Len(<<>>) <= n
    BY DEF Text, NoBlankEnds
  <1>2. Trimmed(<<>>) = <<>>
    BY <1>1, TrimmedText
  <1>3. QED
    BY <1>1, <1>2, LeftText DEF Cleaned, Text

(* The fields of an envelope hash to what its publisher's did, if none was cut. *)
LEMMA CanonicalIsKept ==
  ASSUME NEW d \in Description, Uncut(d)
  PROVE  Canonical(Canonical(d)) = Canonical(d)
  <1>1. /\ d.content_type \in Text /\ d.title \in Text /\ d.description \in Text
        /\ d.tags \in Seq(Text)
    BY DEF Description
  <1>2. CoerceContentType(CoerceContentType(d.content_type)) = CoerceContentType(d.content_type)
    BY <1>1, CoercedShape, CoercedIsKept DEF Uncut
  <1>3. CleanTitle(CleanTitle(d.title)) = CleanTitle(d.title)
    BY <1>1, CleanTitleIsKept DEF Uncut
  <1>4. Cleaned(Cleaned(d.description, MaxDesc), MaxDesc) = Cleaned(d.description, MaxDesc)
    BY <1>1, CleanedIsKept, MetadataAssumption DEF Uncut
  <1>5. CleanTags(CleanTags(d.tags)) = CleanTags(d.tags)
    BY <1>1, CleanTagsCleans, CleanTagsIsKept DEF Uncut
  <1>6. QED
    BY <1>2, <1>3, <1>4, <1>5 DEF Canonical

(* So do those of one that publishFileJson makes, whatever was cut before. *)
LEMMA StoredIsKept ==
  ASSUME NEW d \in Description
  PROVE  Canonical(Canonical(Stored(d))) = Canonical(Stored(d))
  <1> DEFINE c == CoerceContentType(d.content_type)
             t == CleanTitle(d.title)
  <1>1. d.content_type \in Text /\ d.title \in Text
    BY DEF Description
  <1>2. c \in Text /\ IsCoerced(CoerceContentType(c))
    BY <1>1, CoercedShape, CoercedTwice
  <1>3. CleanTitle(CleanTitle(t)) = CleanTitle(t)
    BY <1>1, CleanTitleTwice
  <1>4. Stored(d) = [content_type |-> c, size_bytes |-> d.size_bytes, title |-> t,
                     description |-> <<>>, tags |-> <<>>]
    BY DEF Stored
  <1> HIDE DEF c, t
  <1>5. CoerceContentType(CoerceContentType(c)) = CoerceContentType(c)
    BY <1>2, CoercedIsKept DEF IsCoerced
  <1>6. QED
    BY <1>3, <1>4, <1>5, NothingCleaned, NoTags, MetadataAssumption DEF Canonical

(* The two ways to the hash of a document agree. *)
LEMMA StoredIsSame ==
  ASSUME NEW d \in Description, Uncut(d), d.description = <<>>, d.tags = <<>>
  PROVE  Canonical(Stored(d)) = Canonical(d)
  <1>1. d.content_type \in Text /\ d.title \in Text
    BY DEF Description
  <1>2. CoerceContentType(CoerceContentType(d.content_type)) = CoerceContentType(d.content_type)
    BY <1>1, CoercedShape, CoercedIsKept DEF Uncut
  <1>3. CleanTitle(CleanTitle(d.title)) = CleanTitle(d.title)
    BY <1>1, CleanTitleIsKept DEF Uncut
  <1>4. QED
    BY <1>2, <1>3 DEF Canonical, Stored

-----------------------------------------------------------------------------
(* The type invariant, with the call that a stage of deliveryReady waits for. *)

(* The metadata hashes that anything made of a document can have. *)
Forms == {"array", "text"}
Hashes(d) == {MetadataHash(Stored(d))} \cup {MetadataHash(Given(d, form)) : form \in Forms}
Post(d) == [hash : Hashes(d), status : {"queued", "sent", "error"}]

ServiceType ==
  /\ storageReady \in BOOLEAN /\ stage \in 0 .. 3
  /\ storage \in 0 .. 2 /\ delivery \in 0 .. 2
  /\ calling \in {"idle", "init", "start", "requestObject", "createNode", "startNode"}
  /\ faults \in Nat

(* deliveryReady is at the stage whose call it waits for. *)
CallInv ==
  /\ calling = "requestObject" => stage = 0
  /\ calling = "createNode" => stage = 1
  /\ calling = "startNode" => stage = 2

PostsType == posts \in Seq(Post(doc)) /\ Len(posts) <= MaxPosts

(* What sendBroadcast waits to send is still to be sent. *)
PostingInv ==
  /\ posting \in 0 .. Len(posts)
  /\ posting > 0 => ~ Idle /\ posts[posting].status = "queued"

JobInv ==
  /\ doc \in Documents
  /\ job # None => job = Stored(doc) /\ CleanTitle(doc.title) # <<>>

(* Every envelope is one of the document, with the hash of what it is made of. *)
MadeInv ==
  \A m \in made :
    /\ FitsInCap(m.env)
    /\ \/ /\ m.by = "upload"
          /\ m.env = BuildEnvelope(Stored(doc), 1, MetadataHash(Stored(doc)))
       \/ /\ m.by = "client"
          /\ \E form \in Forms, t \in Stamps :
               m.env = BuildEnvelope(Given(doc, form), t, MetadataHash(Given(doc, form)))

DeliveryInv == ServiceType /\ CallInv /\ PostsType /\ PostingInv /\ JobInv /\ MadeInv

LEMMA DeliveryInit == Init => DeliveryInv
  <1> SUFFICES ASSUME Init PROVE DeliveryInv
    OBVIOUS
  <1>1. ServiceType /\ CallInv
    <2>1. storageReady \in BOOLEAN
      BY DEF Init
    <2>2. stage = 0 /\ storage = 0 /\ delivery = 0 /\ faults = 0 /\ calling = "idle"
      BY DEF Init
    <2>3. QED
      BY <2>1, <2>2 DEF ServiceType, CallInv
  <1>2. JobInv /\ MadeInv
    BY DEF Init, JobInv, MadeInv
  <1>3. PostsType /\ PostingInv
    BY DeliveryAssumption DEF Init, PostsType, PostingInv
  <1>4. QED
    BY <1>1, <1>2, <1>3 DEF DeliveryInv

LEMMA MadeHash ==
  ASSUME MadeInv, NEW m \in made
  PROVE  m.env.metadata_hash \in Hashes(doc)
  <1>1. CASE m.env = BuildEnvelope(Stored(doc), 1, MetadataHash(Stored(doc)))
    BY <1>1 DEF BuildEnvelope, Hashes
  <1>2. ASSUME NEW form \in Forms, NEW t,
               m.env = BuildEnvelope(Given(doc, form), t, MetadataHash(Given(doc, form)))
        PROVE  m.env.metadata_hash \in Hashes(doc)
    BY <1>2 DEF BuildEnvelope, Hashes
  <1>3. QED
    BY <1>1, <1>2 DEF MadeInv

LEMMA DeliveryCalls ==
  /\ DeliveryCall(0) = "requestObject" /\ DeliveryCall(1) = "createNode"
  /\ DeliveryCall(2) = "startNode" /\ DeliveryCall(3) = "idle"
  BY DEF DeliveryCall

-----------------------------------------------------------------------------
(* The posts: what a step may do to them. *)

PostAdded ==
  \E h \in Hashes(doc) :
    /\ Len(posts) < MaxPosts
    /\ \A p \in DOMAIN posts : posts[p].hash = h => posts[p].status = "error"
    /\ posts' = Append(posts, [hash |-> h, status |-> "queued"])

PostDecided ==
  \E i \in DOMAIN posts, verdict \in {"sent", "error"} :
    /\ posts[i].status = "queued"
    /\ posts' = [posts EXCEPT ![i].status = verdict]

PostsMove == UNCHANGED posts \/ posts' = <<>> \/ PostAdded \/ PostDecided

LEMMA QueuedAdds ==
  ASSUME NEW e, e.metadata_hash \in Hashes(doc), Len(posts) < MaxPosts, Queued(e)
  PROVE  UNCHANGED posts \/ PostAdded
  BY DEF Queued, PostAdded

LEMMA DecidedMoves ==
  ASSUME PostsType, PostingInv, NEW verdict \in {"sent", "error"}, Decided(posting, verdict)
  PROVE  UNCHANGED posts \/ PostDecided
  <1>1. CASE posting = 0
    BY <1>1 DEF Decided
  <1>2. CASE posting # 0
    <2>1. PICK n \in Nat : Len(posts) = n /\ DOMAIN posts = 1 .. n
      BY TextLength DEF PostsType
    <2>2. posting \in DOMAIN posts /\ posts[posting].status = "queued"
      BY <1>2, <2>1 DEF PostingInv
    <2>3. posts' = [posts EXCEPT ![posting].status = verdict]
      BY <1>2 DEF Decided
    <2>4. QED
      BY <2>2, <2>3 DEF PostDecided
  <1>3. QED
    BY <1>1, <1>2

LEMMA GoesOnMoves ==
  ASSUME PostsType, PostingInv, NEW s, GoesOn(s)
  PROVE  UNCHANGED posts \/ PostDecided
  BY DecidedMoves DEF GoesOn

LEMMA GivesUpMoves ==
  ASSUME PostsType, PostingInv, GivesUp
  PROVE  UNCHANGED posts \/ PostDecided
  BY DecidedMoves DEF GivesUp

LEMMA StepMovesPosts ==
  ASSUME DeliveryInv, [Next]_vars
  PROVE  PostsMove
  <1> USE DEF DeliveryInv
  <1>1. CASE PublishFile
    BY <1>1 DEF PublishFile, PostsMove
  <1>2. CASE UploadDone
    <2> DEFINE e == BuildEnvelope(job, 1, MetadataHash(job))
    <2>1. e.metadata_hash \in Hashes(doc)
      BY <1>2 DEF UploadDone, JobInv, BuildEnvelope, Hashes
    <2>2. Len(posts) < MaxPosts /\ (UNCHANGED posts \/ Queued(e))
      BY <1>2 DEF UploadDone
    <2> HIDE DEF e
    <2>3. QED
      BY <2>1, <2>2, QueuedAdds DEF PostsMove
  <1>3. ASSUME NEW t \in Stamps, NEW form \in Forms, BuildMetadataEnvelope(t, form)
        PROVE  PostsMove
    BY <1>3 DEF BuildMetadataEnvelope, PostsMove
  <1>4. ASSUME NEW m \in made, BroadcastEnvelope(m) PROVE PostsMove
    BY <1>4, MadeHash, QueuedAdds DEF BroadcastEnvelope, PostsMove
  <1>5. CASE StartBroadcaster
    BY <1>5 DEF StartBroadcaster, PostsMove
  <1>6. ASSUME NEW i \in DOMAIN posts, SendBroadcast(i) PROVE PostsMove
    <2>1. CASE UNCHANGED posts
      BY <2>1 DEF PostsMove
    <2>2. CASE Decided(i, "sent")
      <3>1. i # 0 /\ posts[i].status = "queued"
        BY <1>6 DEF SendBroadcast, PostsType
      <3>2. QED
        BY <2>2, <3>1 DEF Decided, PostsMove, PostDecided
    <2>3. QED
      BY <1>6, <2>1, <2>2 DEF SendBroadcast
  <1>7. CASE CallReturns
    BY <1>7, GoesOnMoves, GivesUpMoves
       DEF CallReturns, StorageInit, StorageStart, RequestObject, CreateNode, StartNode,
           CallRefused, PostsMove
  <1>8. CASE CallLost
    BY <1>8, GivesUpMoves DEF CallLost, PostsMove
  <1>9. CASE ModuleRestarts
    BY <1>9 DEF ModuleRestarts, PostsMove
  <1>10. CASE ChronicleRestarts
    BY <1>10 DEF ChronicleRestarts, PostsMove
  <1>11. CASE UNCHANGED vars
    BY <1>11 DEF vars, PostsMove
  <1>12. QED
    BY <1>1, <1>2, <1>3, <1>4, <1>5, <1>6, <1>7, <1>8, <1>9, <1>10, <1>11 DEF Next, Forms

LEMMA PostAddedType ==
  ASSUME PostsType, PostAdded, UNCHANGED doc
  PROVE  PostsType' /\ Len(posts) <= Len(posts')
  <1>1. PICK h \in Hashes(doc) : /\ Len(posts) < MaxPosts
                                 /\ posts' = Append(posts, [hash |-> h, status |-> "queued"])
    BY DEF PostAdded
  <1>2. PICK n \in Nat : Len(posts) = n
    BY TextLength DEF PostsType
  <1>3. [hash |-> h, status |-> "queued"] \in Post(doc)
    BY DEF Post
  <1>4. posts' \in Seq(Post(doc)) /\ Len(posts') = n + 1
    BY <1>1, <1>2, <1>3, AppendProperties DEF PostsType
  <1>5. QED
    BY <1>1, <1>2, <1>4, DeliveryAssumption DEF PostsType

LEMMA PostDecidedType ==
  ASSUME PostsType, PostDecided, UNCHANGED doc
  PROVE  PostsType' /\ Len(posts) = Len(posts')
  <1>1. PICK i \in DOMAIN posts, verdict \in {"sent", "error"} :
          posts' = [posts EXCEPT ![i] = [posts[i] EXCEPT !.status = verdict]]
    BY DEF PostDecided
  <1>2. posts[i] \in Post(doc)
    BY DEF PostsType
  <1>3. [posts[i] EXCEPT !.status = verdict] \in Post(doc)
    BY <1>2 DEF Post
  <1>4. posts' \in Seq(Post(doc)) /\ Len(posts') = Len(posts)
    BY <1>1, <1>3, ExceptSeq, LenProperties DEF PostsType
  <1>5. QED
    BY <1>4 DEF PostsType

LEMMA PostsMoveType ==
  ASSUME PostsType, PostsMove, UNCHANGED doc
  PROVE  PostsType'
  <1>1. CASE UNCHANGED posts
    BY <1>1 DEF PostsType
  <1>2. CASE posts' = <<>>
    BY <1>2, DeliveryAssumption DEF PostsType
  <1>3. QED
    BY <1>1, <1>2, PostAddedType, PostDecidedType DEF PostsMove

(* Whatever a handler decided or gave up, no broadcast is waited for any more. *)
LEMMA PostingOver ==
  ASSUME PostsType', posting' = 0
  PROVE  PostingInv'
  <1>1. PICK n \in Nat : Len(posts') = n
    BY TextLength DEF PostsType
  <1>2. QED
    BY <1>1 DEF PostingInv

LEMMA PostingKept ==
  ASSUME PostingInv, UNCHANGED <<posts, posting>>, ~ Idle'
  PROVE  PostingInv'
  BY DEF PostingInv

LEMMA IdlePosting ==
  ASSUME PostingInv, Idle
  PROVE  posting = 0
  BY DEF PostingInv, Idle

(* deliveryReady waits for the call of its stage, or is through. *)
LEMMA GoesOnCalls ==
  ASSUME PostsType', PostingInv, NEW s \in 0 .. 3, GoesOn(s), stage' = s
  PROVE  /\ PostingInv' /\ CallInv'
         /\ calling' \in {"requestObject", "createNode", "startNode", "idle"}
  <1>1. /\ calling' \in {"requestObject", "createNode", "startNode", "idle"}
        /\ calling' = "requestObject" => s = 0
        /\ calling' = "createNode" => s = 1
        /\ calling' = "startNode" => s = 2
        /\ calling' = "idle" => s = 3
    BY DeliveryCalls DEF GoesOn
  <1>2. PostingInv'
    <2>1. CASE s = 3
      BY <2>1, PostingOver DEF GoesOn
    <2>2. CASE s # 3
      BY <1>1, <2>2, PostingKept DEF GoesOn, Idle
    <2>3. QED
      BY <2>1, <2>2
  <1>3. QED
    BY <1>1, <1>2 DEF CallInv

(* The steps of the document: nothing waits, and nothing is waited for. *)
LEMMA DocumentStep ==
  ASSUME DeliveryInv, PostsType',
         \/ PublishFile \/ UploadDone
         \/ \E t \in Stamps, form \in Forms : BuildMetadataEnvelope(t, form)
         \/ \E m \in made : BroadcastEnvelope(m)
  PROVE  DeliveryInv'
  <1> USE DEF DeliveryInv
  <1>1. Idle /\ UNCHANGED <<doc, storageReady, stage, storage, delivery, calling, posting, faults>>
    BY DEF PublishFile, UploadDone, BuildMetadataEnvelope, BroadcastEnvelope, chronicleVars,
       remoteVars, documentVars
  <1>2. ServiceType' /\ CallInv'
    BY <1>1 DEF ServiceType, CallInv
  <1>3. PostingInv'
    BY <1>1, IdlePosting, PostingOver
  <1>4. JobInv'
    BY DEF JobInv, PublishFile, UploadDone, BuildMetadataEnvelope, BroadcastEnvelope, documentVars
  <1>5. MadeInv'
    <2>1. CASE UNCHANGED made
      BY <1>1, <2>1 DEF MadeInv
    <2>2. CASE UploadDone
      <3> DEFINE e == BuildEnvelope(job, 1, MetadataHash(job))
      <3>1. job = Stored(doc)
        BY <2>2 DEF UploadDone, JobInv
      <3>2. UNCHANGED made \/ (FitsInCap(e) /\ made' = made \cup {[by |-> "upload", env |-> e]})
        BY <2>2 DEF UploadDone
      <3>3. e = BuildEnvelope(Stored(doc), 1, MetadataHash(Stored(doc)))
        BY <3>1
      <3> HIDE DEF e
      <3>4. QED
        BY <1>1, <2>1, <3>2, <3>3 DEF MadeInv
    <2>3. ASSUME NEW t \in Stamps, NEW form \in Forms, BuildMetadataEnvelope(t, form)
          PROVE  MadeInv'
      <3> DEFINE e == BuildEnvelope(Given(doc, form), t, MetadataHash(Given(doc, form)))
      <3>1. FitsInCap(e) /\ made' = made \cup {[by |-> "client", env |-> e]}
        BY <2>3 DEF BuildMetadataEnvelope
      <3>2. e = BuildEnvelope(Given(doc, form), t, MetadataHash(Given(doc, form)))
        OBVIOUS
      <3> HIDE DEF e
      <3>3. QED
        BY <1>1, <3>1, <3>2 DEF MadeInv
    <2>4. QED
      BY <2>1, <2>2, <2>3 DEF PublishFile, BroadcastEnvelope, documentVars
  <1>6. QED
    BY <1>2, <1>3, <1>4, <1>5

(* What is said of the document holds on while it is let alone. *)
LEMMA DocumentKept ==
  ASSUME JobInv, MadeInv, UNCHANGED <<doc, made>>, UNCHANGED job \/ job' = None
  PROVE  JobInv' /\ MadeInv'
  <1>1. JobInv'
    BY DEF JobInv
  <1>2. MadeInv'
    BY DEF MadeInv
  <1>3. QED
    BY <1>1, <1>2

LEMMA StartBroadcasterStep ==
  ASSUME DeliveryInv, PostsType', StartBroadcaster
  PROVE  DeliveryInv'
  <1> USE DEF DeliveryInv
  <1>1. calling' = "init" \/ calling' = DeliveryCall(stage)
    BY DEF StartBroadcaster
  <1>2. ServiceType' /\ CallInv'
    BY <1>1, DeliveryCalls DEF StartBroadcaster, remoteVars, ServiceType, CallInv
  <1>3. PostingInv'
    BY IdlePosting, PostingOver DEF StartBroadcaster
  <1>4. QED
    BY <1>2, <1>3, DocumentKept DEF StartBroadcaster, documentVars

LEMMA SendBroadcastStep ==
  ASSUME DeliveryInv, PostsType', NEW i \in DOMAIN posts, SendBroadcast(i)
  PROVE  DeliveryInv'
  <1> USE DEF DeliveryInv
  <1>1. ServiceType' /\ CallInv'
    BY DeliveryCalls DEF SendBroadcast, remoteVars, ServiceType, CallInv
  <1>2. CASE stage = 3
    <2>1. PostingInv'
      BY <1>2, IdlePosting, PostingOver DEF SendBroadcast
    <2>2. QED
      BY <1>1, <2>1, DocumentKept DEF SendBroadcast, documentVars
  <1>3. CASE stage # 3
    <2>1. PICK n \in Nat : Len(posts) = n /\ DOMAIN posts = 1 .. n
      BY TextLength DEF PostsType
    <2>2. posting' = i /\ UNCHANGED posts /\ posts[i].status = "queued"
      BY <1>3 DEF SendBroadcast
    <2>3. ~ Idle'
      BY <1>3, DeliveryCalls DEF SendBroadcast, ServiceType, Idle
    <2>4. PostingInv'
      BY <2>1, <2>2, <2>3 DEF PostingInv
    <2>5. QED
      BY <1>1, <2>4, DocumentKept DEF SendBroadcast, documentVars
  <1>4. QED
    BY <1>2, <1>3

LEMMA CallReturnsStep ==
  ASSUME DeliveryInv, PostsType', CallReturns
  PROVE  DeliveryInv'
  <1> USE DEF DeliveryInv
  <1>1. JobInv' /\ MadeInv'
    BY DocumentKept DEF CallReturns, StorageInit, StorageStart, RequestObject, CreateNode,
       StartNode, CallRefused, documentVars
  <1>2. CASE StorageInit
    <2>1. ServiceType' /\ CallInv'
      BY <1>2 DEF StorageInit, ServiceType, CallInv
    <2>2. PostingInv'
      BY <1>2, PostingKept DEF StorageInit, Idle
    <2>3. QED
      BY <1>1, <2>1, <2>2
  <1>3. ASSUME NEW s \in 0 .. 3, GoesOn(s), stage' = s,
               storageReady' \in BOOLEAN, storage' \in 0 .. 2, delivery' \in 0 .. 2,
               UNCHANGED faults
        PROVE  ServiceType' /\ CallInv' /\ PostingInv'
    BY <1>3, GoesOnCalls DEF ServiceType, CallInv
  <1>4. CASE StorageStart
    BY <1>1, <1>3, <1>4 DEF StorageStart, ServiceType
  <1>5. CASE RequestObject
    BY <1>1, <1>3, <1>5 DEF RequestObject, remoteVars, ServiceType
  <1>6. CASE CreateNode
    <2>1. delivery' \in 0 .. 2
      BY <1>6 DEF CreateNode, NodeMade, ServiceType
    <2>2. QED
      BY <1>1, <1>3, <1>6, <2>1 DEF CreateNode, ServiceType
  <1>7. CASE StartNode
    BY <1>1, <1>3, <1>7 DEF StartNode, ServiceType
  <1>8. CASE CallRefused
    <2>1. ServiceType' /\ CallInv'
      BY <1>8 DEF CallRefused, GivesUp, remoteVars, ServiceType, CallInv
    <2>2. PostingInv'
      BY <1>8, PostingOver DEF CallRefused, GivesUp
    <2>3. QED
      BY <1>1, <2>1, <2>2
  <1>9. QED
    BY <1>2, <1>4, <1>5, <1>6, <1>7, <1>8 DEF CallReturns

LEMMA FaultStep ==
  ASSUME DeliveryInv, PostsType', CallLost \/ ModuleRestarts \/ ChronicleRestarts
  PROVE  DeliveryInv'
  <1> USE DEF DeliveryInv
  <1>1. JobInv' /\ MadeInv'
    BY DocumentKept DEF CallLost, ModuleRestarts, ChronicleRestarts, documentVars
  <1>2. faults' \in Nat
    BY DEF CallLost, ModuleRestarts, ChronicleRestarts, Fault, ServiceType
  <1>3. CASE CallLost
    <2>1. storage' \in 0 .. 2 /\ delivery' \in 0 .. 2
      BY <1>3 DEF CallLost, ServiceType
    <2>2. ServiceType' /\ CallInv'
      BY <1>2, <1>3, <2>1 DEF CallLost, GivesUp, ServiceType, CallInv
    <2>3. PostingInv'
      BY <1>3, PostingOver DEF CallLost, GivesUp
    <2>4. QED
      BY <1>1, <2>2, <2>3
  <1>4. CASE ModuleRestarts
    <2>1. ServiceType' /\ CallInv'
      BY <1>2, <1>4 DEF ModuleRestarts, chronicleVars, ServiceType, CallInv
    <2>2. PostingInv'
      BY <1>4 DEF ModuleRestarts, chronicleVars, PostingInv, Idle
    <2>3. QED
      BY <1>1, <2>1, <2>2
  <1>5. CASE ChronicleRestarts
    <2>1. storageReady' \in BOOLEAN
      BY <1>5 DEF ChronicleRestarts
    <2>2. ServiceType' /\ CallInv'
      BY <1>2, <1>5, <2>1 DEF ChronicleRestarts, remoteVars, ServiceType, CallInv
    <2>3. PostingInv'
      BY <1>5, PostingOver DEF ChronicleRestarts
    <2>4. QED
      BY <1>1, <2>2, <2>3
  <1>6. QED
    BY <1>3, <1>4, <1>5

LEMMA DocumentStays ==
  ASSUME [Next]_vars
  PROVE  UNCHANGED doc
  BY DEF Next, vars, documentVars, PublishFile, UploadDone, BuildMetadataEnvelope,
     BroadcastEnvelope, StartBroadcaster, SendBroadcast, CallReturns, StorageInit,
     StorageStart, RequestObject, CreateNode, StartNode, CallRefused, CallLost,
     ModuleRestarts, ChronicleRestarts

LEMMA DeliveryStep ==
  ASSUME DeliveryInv, [Next]_vars
  PROVE  DeliveryInv'
  <1>1. UNCHANGED doc
    BY DocumentStays
  <1>2. PostsType'
    BY <1>1, StepMovesPosts, PostsMoveType DEF DeliveryInv
  <1>3. CASE UNCHANGED vars
    <2>1. ServiceType' /\ CallInv'
      BY <1>3 DEF vars, chronicleVars, remoteVars, DeliveryInv, ServiceType, CallInv
    <2>2. PostingInv'
      BY <1>3 DEF vars, chronicleVars, DeliveryInv, PostingInv, Idle
    <2>3. JobInv' /\ MadeInv'
      BY <1>3, DocumentKept DEF vars, documentVars, DeliveryInv
    <2>4. QED
      BY <1>2, <2>1, <2>2, <2>3 DEF DeliveryInv
  <1>4. QED
    BY <1>2, <1>3, DocumentStep, StartBroadcasterStep, SendBroadcastStep, CallReturnsStep,
       FaultStep DEF Next, Forms

LEMMA DeliveryInvariant == Spec => []DeliveryInv
  BY DeliveryInit, DeliveryStep, PTL DEF Spec

(* Everything has its type, and what sendBroadcast waits to send is queued,  *)
(* whatever call is refused or lost and whichever module restarts.           *)
THEOREM DeliveryTypeCorrect == Spec => []DeliveryTypeOK
  <1>1. ASSUME DeliveryInv PROVE DeliveryTypeOK
    <2>1. job # None => job.title # <<>>
      BY <1>1 DEF DeliveryInv, JobInv, Stored
    <2>2. \A m \in made : m.by \in {"upload", "client"} /\ FitsInCap(m.env)
      BY <1>1 DEF DeliveryInv, MadeInv
    <2>3. ASSUME NEW i \in DOMAIN posts PROVE posts[i].status \in {"queued", "sent", "error"}
      <3>1. posts[i] \in Post(doc)
        BY <1>1 DEF DeliveryInv, PostsType
      <3>2. QED
        BY <3>1 DEF Post
    <2>4. QED
      BY <1>1, <2>1, <2>2, <2>3
         DEF DeliveryInv, ServiceType, PostsType, PostingInv, JobInv, DeliveryTypeOK
  <1>2. QED
    BY <1>1, DeliveryInvariant, PTL

-----------------------------------------------------------------------------
(* Envelopes. *)

LEMMA GivenDescription ==
  ASSUME NEW d \in Description, NEW form \in Forms
  PROVE  /\ Given(d, form) \in Description
         /\ Uncut(d) => Uncut(Given(d, form))
  <1>1. CASE form = "text"
    BY <1>1 DEF Given
  <1>2. CASE form = "array"
    <2>1. PICK none \in Seq(Text) : none = <<>>
      BY EmptySeq
    <2> DEFINE g == [d EXCEPT !.tags = none]
    <2>2. /\ g \in Description /\ g.tags = none
          /\ g.title = d.title /\ g.description = d.description
          /\ g.content_type = d.content_type
      BY DEF Description
    <2> HIDE DEF g
    <2>3. Uncut(d) => Uncut(g)
      BY <2>1, <2>2 DEF Uncut
    <2>4. QED
      BY <1>2, <2>1, <2>2, <2>3 DEF Given, g
  <1>3. QED
    BY <1>1, <1>2 DEF Forms

LEMMA EnvelopeVerifies ==
  ASSUME NEW d, NEW t, Canonical(Canonical(d)) = Canonical(d)
  PROVE  Verifies(BuildEnvelope(d, t, MetadataHash(d)))
  BY DEF Verifies, BuildEnvelope, MetadataHash

LEMMA EnvelopeIsTaken ==
  ASSUME NEW d, NEW t, t # 0
  PROVE  FromPayload(BuildEnvelope(d, t, MetadataHash(d)))
  BY DEF FromPayload, BuildEnvelope, MetadataHash

(***************************************************************************)
(* hashMetadataJson of the fields of an envelope gives its metadata_hash:  *)
(* for every publish, and for what a client had built if nothing was cut.  *)
(* It rests on what the helpers of chronicle_helpers.cpp do to their own   *)
(* results: a first cleaning may leave a blank, the second leaves none.    *)
(***************************************************************************)
THEOREM EnvelopesVerify == Spec => []Verifiable
  <1>1. ASSUME DeliveryInv PROVE Verifiable
    <2> SUFFICES ASSUME NEW m \in made
                 PROVE  /\ Verifies(m.env) \/ (m.by = "client" /\ ~ Uncut(doc))
                        /\ FromPayload(m.env) \/ (m.by = "client" /\ m.env.timestamp = 0)
      BY DEF Verifiable
    <2>1. doc \in Description
      BY <1>1, DeliveryAssumption DEF DeliveryInv, JobInv, Description
    <2>2. CASE m.env = BuildEnvelope(Stored(doc), 1, MetadataHash(Stored(doc)))
      BY <2>1, <2>2, StoredIsKept, EnvelopeVerifies, EnvelopeIsTaken
    <2>3. ASSUME NEW form \in Forms, NEW t \in Stamps, m.by = "client",
                 m.env = BuildEnvelope(Given(doc, form), t, MetadataHash(Given(doc, form)))
          PROVE  /\ Verifies(m.env) \/ (m.by = "client" /\ ~ Uncut(doc))
                 /\ FromPayload(m.env) \/ (m.by = "client" /\ m.env.timestamp = 0)
      <3>1. Uncut(doc) => Verifies(m.env)
        BY <2>1, <2>3, GivenDescription, CanonicalIsKept, EnvelopeVerifies
      <3>2. t # 0 => FromPayload(m.env)
        BY <2>3, EnvelopeIsTaken
      <3>3. m.env.timestamp = t
        BY <2>3 DEF BuildEnvelope
      <3>4. QED
        BY <2>3, <3>1, <3>2, <3>3
    <2>4. QED
      BY <1>1, <2>2, <2>3 DEF DeliveryInv, MadeInv
  <1>2. QED
    BY <1>1, DeliveryInvariant, PTL

-----------------------------------------------------------------------------
(* One announcement for one document. *)

Apt(d) == Uncut(d) /\ d.description = <<>> /\ d.tags = <<>>

LEMMA AptHasOneHash ==
  ASSUME NEW d \in Description, Apt(d)
  PROVE  Hashes(d) = {MetadataHash(d)}
  <1>1. MetadataHash(Stored(d)) = MetadataHash(d)
    BY StoredIsSame DEF Apt, MetadataHash
  <1>2. ASSUME NEW form \in Forms PROVE Given(d, form) = d
    <2>1. [d EXCEPT !.tags = <<>>] = d
      BY DEF Description, Apt
    <2>2. QED
      BY <2>1 DEF Given
  <1>3. QED
    BY <1>1, <1>2 DEF Hashes, Forms

(* At most one post is not an error. *)
OnePost ==
  \A i, j \in DOMAIN posts : posts[i].status # "error" /\ posts[j].status # "error" => i = j

LEMMA OnePostStep ==
  ASSUME PostsType, PostsMove, OnePost, NEW h, Hashes(doc) = {h}
  PROVE  OnePost'
  <1>1. PICK n \in Nat : Len(posts) = n /\ DOMAIN posts = 1 .. n
    BY TextLength DEF PostsType
  <1>2. \A i \in DOMAIN posts : posts[i] \in Post(doc)
    BY DEF PostsType
  <1>3. CASE UNCHANGED posts
    BY <1>3 DEF OnePost
  <1>4. CASE posts' = <<>>
    BY <1>4 DEF OnePost
  <1>5. CASE PostAdded
    <2>1. /\ posts' = Append(posts, [hash |-> h, status |-> "queued"])
          /\ \A p \in DOMAIN posts : posts[p].hash = h => posts[p].status = "error"
      BY <1>5 DEF PostAdded
    <2>2. \A p \in 1 .. n : posts[p].status = "error"
      BY <1>1, <1>2, <2>1 DEF Post
    <2>3. /\ DOMAIN posts' = 1 .. n + 1
          /\ \A p \in 1 .. n : posts'[p] = posts[p]
      <3>1. [hash |-> h, status |-> "queued"] \in Post(doc)
        BY DEF Post
      <3>2. Len(posts') = n + 1 /\ posts' \in Seq(Post(doc))
        BY <1>1, <2>1, <3>1, AppendProperties DEF PostsType
      <3>3. \A p \in 1 .. n : posts'[p] = posts[p]
        BY <1>1, <2>1, <3>1, AppendProperties DEF PostsType
      <3>4. QED
        BY <3>2, <3>3, LenProperties
    <2>4. \A p \in DOMAIN posts' : posts'[p].status # "error" => p = n + 1
      BY <2>2, <2>3
    <2>5. QED
      BY <2>4 DEF OnePost
  <1>6. CASE PostDecided
    <2>1. PICK i \in DOMAIN posts, verdict \in {"sent", "error"} :
            /\ posts[i].status = "queued"
            /\ posts' = [posts EXCEPT ![i] = [posts[i] EXCEPT !.status = verdict]]
      BY <1>6 DEF PostDecided
    <2>2. DOMAIN posts' = DOMAIN posts
      BY <2>1
    <2>3. \A p \in DOMAIN posts : posts'[p].status # "error" => posts[p].status # "error"
      BY <2>1
    <2>4. QED
      BY <2>2, <2>3 DEF OnePost
  <1>7. QED
    BY <1>3, <1>4, <1>5, <1>6 DEF PostsMove

(***************************************************************************)
(* publishFileJson and a client that announces the same document agree on  *)
(* its hash, so broadcastEnvelopeJson sends it once, if publishFileJson    *)
(* drops nothing of it and nothing was cut.                                *)
(***************************************************************************)
THEOREM AnnouncedOnce == Spec => []SameDocumentOnce
  <1>1. SameDocumentOnce <=> (Apt(doc) => OnePost)
    BY DEF SameDocumentOnce, Apt, OnePost
  <1>2. ASSUME Init PROVE SameDocumentOnce
    BY <1>2 DEF Init, SameDocumentOnce
  <1>3. ASSUME DeliveryInv, SameDocumentOnce, [Next]_vars PROVE SameDocumentOnce'
    <2>1. UNCHANGED doc
      BY <1>3, DocumentStays
    <2>2. ASSUME Apt(doc) PROVE OnePost'
      <3>1. doc \in Description
        BY <1>3, DeliveryAssumption DEF DeliveryInv, JobInv, Description
      <3>2. Hashes(doc) = {MetadataHash(doc)}
        BY <2>2, <3>1, AptHasOneHash
      <3>3. QED
        BY <1>1, <1>3, <2>2, <3>2, StepMovesPosts, OnePostStep DEF DeliveryInv
    <2>3. QED
      BY <2>1, <2>2 DEF SameDocumentOnce, Apt, OnePost
  <1>4. QED
    BY <1>2, <1>3, DeliveryInit, DeliveryInvariant, PTL DEF Spec

-----------------------------------------------------------------------------
(* chronicle and the two modules. *)

LEMMA CallsKeepTogether ==
  ASSUME DeliveryInv, CallReturns
  PROVE  /\ ~ StorageApart => ~ StorageApart'
         /\ ~ DeliveryApart => ~ DeliveryApart'
  <1> USE DEF DeliveryInv, ServiceType, CallInv, StorageApart, DeliveryApart
  <1>1. CASE StorageInit
    BY <1>1 DEF StorageInit
  <1>2. CASE StorageStart
    BY <1>2 DEF StorageStart
  <1>3. CASE RequestObject
    BY <1>3 DEF RequestObject, remoteVars
  <1>4. CASE CreateNode
    BY <1>4 DEF CreateNode, NodeMade
  <1>5. CASE StartNode
    BY <1>5 DEF StartNode
  <1>6. CASE CallRefused
    BY <1>6 DEF CallRefused, remoteVars
  <1>7. QED
    BY <1>1, <1>2, <1>3, <1>4, <1>5, <1>6 DEF CallReturns

LEMMA OnlyFaultsPart ==
  ASSUME DeliveryInv, [Next]_vars, UNCHANGED faults
  PROVE  ~ Parts
  <1>1. CASE UNCHANGED <<storageReady, stage, storage, delivery>>
    BY <1>1 DEF Parts, StorageApart, DeliveryApart
  <1>2. CASE CallReturns
    BY <1>2, CallsKeepTogether DEF Parts
  <1>3. CASE Fault
    BY <1>3 DEF Fault, DeliveryInv, ServiceType
  <1>4. QED
    BY <1>1, <1>2, <1>3
       DEF Next, vars, chronicleVars, remoteVars, PublishFile, UploadDone, BuildMetadataEnvelope,
           BroadcastEnvelope, StartBroadcaster, SendBroadcast, CallLost, ModuleRestarts,
           ChronicleRestarts

(***************************************************************************)
(* The flags of storageReady and deliveryReady, which make sure that no    *)
(* step is done twice, say of the other modules what is true of them,      *)
(* until a restart or a lost answer.                                       *)
(***************************************************************************)
THEOREM OnlyFaultsPartThem == Spec => PartedByFault
  <1>1. DeliveryInv /\ [Next]_vars => [Parts => faults' # faults]_vars
    BY OnlyFaultsPart
  <1>2. QED
    BY <1>1, DeliveryInvariant, PTL DEF Spec, PartedByFault
=============================================================================
