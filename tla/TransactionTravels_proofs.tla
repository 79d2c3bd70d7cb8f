----------------------- MODULE TransactionTravels_proofs -----------------------
(***************************************************************************)
(* Proofs about TransactionTravels, for every payload, every type of       *)
(* argument whose bytes are written as ArgBytesAssumption says, all        *)
(* signers and any number of trips.                                        *)
(* The invariant IInv says that the transaction in hand is held over the   *)
(* hash of the one that was made, with approvals over that hash by         *)
(* different signers, and that its payload reads as the one that was made: *)
(* its fields agree on what the readers of the code make of them.  Nearly  *)
(* all of the module is about those readers: for every part, a lemma says  *)
(* that it is read back from what is written of it, or that the part is    *)
(* one of those that TransactionTravels names as unread.                   *)
(* First come lists and the layouts of the bytes, then the parts from the  *)
(* smallest to the largest, then the payload, then the steps.              *)
(***************************************************************************)
EXTENDS TransactionTravels, SequenceTheorems, FiniteSetTheorems, FunctionTheorems, WellFoundedInduction, TLAPS

-----------------------------------------------------------------------------
(* Lists. *)

(* Induction over the naturals, for a set.                                   *)
LEMMA NaturalInduction ==
  ASSUME NEW S, 0 \in S, \A n \in Nat : n \in S => n + 1 \in S
  PROVE  Nat \subseteq S
<1>. DEFINE T == {n \in Nat : n \notin S}
            R == OpToRel(<, Nat)
<1>1. SUFFICES ASSUME T # {} PROVE FALSE
  OBVIOUS
<1>2. PICK x \in T : \A y \in T : ~ (<<y, x>> \in R)
  <2>1. IsWellFoundedOn(R, Nat)
    BY NatLessThanWellFounded
  <2> HIDE DEF R
  <2> QED BY <1>1, <2>1, WFMin
<1>3. x - 1 \in T
  OBVIOUS
<1>4. <<x - 1, x>> \in R
  <2>0. x \in Nat /\ x - 1 \in Nat /\ x - 1 < x BY <1>3
  <2>1. \A i, j \in Nat : i < j => <<i, j>> \in R
    BY Zenon DEF OpToRel
  <2> HIDE DEF R
  <2> QED BY <2>1, <2>0
<1>. QED BY <1>2, <1>3, <1>4

(* Induction over the sequences of T, for a set.                             *)
LEMMA SequenceInduction ==
  ASSUME NEW T, NEW P, \A e \in Seq(T) : e = <<>> => e \in P,
         \A s \in Seq(T), x \in T : s \in P => Append(s, x) \in P
  PROVE  Seq(T) \subseteq P
<1>. DEFINE S == {n \in Nat : \A s \in Seq(T) : Len(s) = n => s \in P}
<1>1. 0 \in S
  OBVIOUS
<1>2. ASSUME NEW n \in Nat, n \in S PROVE n + 1 \in S
  <2>1. SUFFICES ASSUME NEW s \in Seq(T), Len(s) = n + 1 PROVE s \in P
    OBVIOUS
  <2>. DEFINE front == SubSeq(s, 1, n)
              last == s[n + 1]
  <2>2. front \in Seq(T) /\ Len(front) = n /\ last \in T BY <2>1
  <2>3. s = Append(front, last) BY <2>1, <2>2
  <2>4. front \in P BY <1>2, <2>2
  <2>. QED BY <2>2, <2>3, <2>4
<1>3. Nat \subseteq S
  <2>. HIDE DEF S
  <2>. QED BY <1>1, <1>2, NaturalInduction
<1>. QED BY <1>3

(* flatten[i] of SequencesExt, up to n *)
Flattens(f, ss, n) == f = [i \in 1..n |-> IF i = 1 THEN ss[i] ELSE f[i - 1] \o ss[i]]

(* The function that FlattenSeq chooses exists.                              *)
LEMMA FlattenExists ==
  ASSUME NEW ss
  PROVE  \A n \in Nat : \E f : Flattens(f, ss, n)
<1>. DEFINE S == {n \in Nat : \E f : Flattens(f, ss, n)}
<1>1. 0 \in S
  <2>1. Flattens([i \in 1..0 |-> ss], ss, 0) BY DEF Flattens
  <2>. QED BY <2>1
<1>2. ASSUME NEW n \in Nat, n \in S PROVE n + 1 \in S
  <2>1. PICK f : Flattens(f, ss, n) BY <1>2
  <2>. DEFINE g == [i \in 1..n+1 |-> IF i <= n THEN f[i] ELSE IF i = 1 THEN ss[i] ELSE f[n] \o ss[i]]
  <2>2. \A i \in 1..n : f[i] = IF i = 1 THEN ss[i] ELSE f[i - 1] \o ss[i]
    BY <2>1 DEF Flattens
  <2>3. \A i \in 1..n+1 : g[i] = IF i = 1 THEN ss[i] ELSE g[i - 1] \o ss[i]
    <3>1. TAKE i \in 1..n+1
    <3>2. CASE i <= n
      BY <2>2, <3>2
    <3>3. CASE i = n + 1 /\ i # 1
      <4>1. i - 1 = n /\ n \in 1..n + 1 BY <3>3
      <4>2. g[n] = f[n] /\ g[i] = f[n] \o ss[i]
        <5>1. n \in 1..n+1 /\ n <= n /\ ~ (i <= n) BY <3>3
        <5>. QED BY <5>1, <3>1, <3>3, Zenon
      <4>3. g[i - 1] = g[n] BY <4>1, Zenon
      <4>. HIDE DEF g
      <4>. QED BY <3>3, <4>2, <4>3
    <3>4. CASE i = n + 1 /\ i = 1
      BY <3>4
    <3>. QED BY <3>2, <3>3, <3>4
  <2>4. Flattens(g, ss, n + 1) BY <2>3 DEF Flattens
  <2>. QED BY <2>4
<1>. HIDE DEF S
<1>3. Nat \subseteq S BY <1>1, <1>2, NaturalInduction
<1>. QED BY <1>3 DEF S

(* FlattenSeq is the last value of that function.                            *)
LEMMA FlattenIs ==
  ASSUME NEW ss, Len(ss) \in Nat, Len(ss) # 0
  PROVE  \E f : Flattens(f, ss, Len(ss)) /\ FlattenSeq(ss) = f[Len(ss)]
<1>. DEFINE flatten == CHOOSE f : Flattens(f, ss, Len(ss))
<1>1. FlattenSeq(ss) = flatten[Len(ss)]
  BY DEF FlattenSeq, Flattens
<1>2. Flattens(flatten, ss, Len(ss))
  BY FlattenExists
<1>. QED BY <1>1, <1>2

(* The empty list.                                                           *)
LEMMA EmptyList == \A T : \A e : e = <<>> => e \in Seq(T) /\ DOMAIN e = {}
  OBVIOUS

(* A list with one element more.                                             *)
LEMMA Appended ==
  ASSUME NEW T, NEW s \in Seq(T), NEW x \in T
  PROVE  LET t == Append(s, x)
         IN /\ t \in Seq(T) /\ DOMAIN t = DOMAIN s \cup {Len(s) + 1}
            /\ Len(s) + 1 \notin DOMAIN s /\ t[Len(s) + 1] = x
            /\ \A i \in DOMAIN s : t[i] = s[i]
  OBVIOUS

(* The part of a list made of one of its elements.                           *)
LEMMA PartType == \A T, S : \A x \in T : (IF x \in S THEN <<x>> ELSE <<>>) \in Seq(T)
  OBVIOUS

(* No lists flatten to no list.                                              *)
LEMMA FlattenEmpty == \A e : e = <<>> => FlattenSeq(e) = e
  BY DEF FlattenSeq

(* One list more is added at the end of what was flattened.                  *)
LEMMA FlattenAppend ==
  ASSUME NEW T, NEW ss \in Seq(Seq(T)), NEW s \in Seq(T)
  PROVE  FlattenSeq(Append(ss, s)) = FlattenSeq(ss) \o s
<1>. DEFINE tt == Append(ss, s)
            n == Len(ss)
<1>0. n \in Nat /\ Len(tt) = n + 1 /\ tt[n + 1] = s /\ \A i \in 1..n : tt[i] = ss[i]
  OBVIOUS
<1>1. PICK f : Flattens(f, tt, n + 1) /\ FlattenSeq(tt) = f[n + 1]
  <2>. HIDE DEF tt
  <2>. QED BY <1>0, FlattenIs
<1>. HIDE DEF tt
<1>2. f[n + 1] = IF n + 1 = 1 THEN s ELSE f[n] \o s
  <2>1. \A i \in 1..n + 1 : f[i] = IF i = 1 THEN tt[i] ELSE f[i - 1] \o tt[i]
    BY <1>1 DEF Flattens
  <2>2. n + 1 \in 1..n + 1 /\ (n + 1) - 1 = n BY <1>0
  <2>. QED BY <1>0, <2>1, <2>2, Zenon
<1>3. CASE n = 0
  <2>1. ss = <<>> BY <1>3
  <2>2. FlattenSeq(ss) \o s = s BY <2>1, FlattenEmpty
  <2>3. FlattenSeq(tt) = s
    <3>. HIDE DEF n
    <3>. QED BY <1>1, <1>2, <1>3
  <2>. QED BY <2>2, <2>3 DEF tt
<1>4. CASE n # 0
  <2>1. PICK g : Flattens(g, ss, n) /\ FlattenSeq(ss) = g[n]
    BY <1>0, <1>4, FlattenIs
  <2>. DEFINE S == {k \in Nat : k \in 1..n => f[k] = g[k]}
  <2>2. 0 \in S OBVIOUS
  <2>3. ASSUME NEW k \in Nat, k \in S PROVE k + 1 \in S
    <3>1. \A i \in 1..n : g[i] = IF i = 1 THEN ss[i] ELSE g[i - 1] \o ss[i] BY <2>1 DEF Flattens
    <3>2. \A i \in 1..n + 1 : f[i] = IF i = 1 THEN tt[i] ELSE f[i - 1] \o tt[i] BY <1>1 DEF Flattens
    <3>3. SUFFICES ASSUME k + 1 \in 1..n PROVE f[k + 1] = g[k + 1] OBVIOUS
    <3>4. k + 1 \in 1..n + 1 /\ (k + 1) - 1 = k /\ tt[k + 1] = ss[k + 1] BY <1>0, <3>3
    <3>5. CASE k = 0 BY <3>1, <3>2, <3>3, <3>4, <3>5
    <3>6. CASE k # 0
      <4>1. f[k] = g[k] BY <2>3, <3>3, <3>6
      <4>2. k + 1 # 1 BY <3>6
      <4>3. f[k + 1] = f[k] \o tt[k + 1] BY <3>2, <3>4, <4>2, Zenon
      <4>4. g[k + 1] = g[k] \o ss[k + 1] BY <3>1, <3>3, <3>4, <4>2, Zenon
      <4>. QED BY <3>4, <4>1, <4>3, <4>4
    <3>. QED BY <3>5, <3>6
  <2>4. Nat \subseteq S
    <3>. HIDE DEF S
    <3>. QED BY <2>2, <2>3, NaturalInduction
  <2>5. f[n] = g[n] BY <1>0, <1>4, <2>4
  <2>. QED BY <1>0, <1>1, <1>2, <1>4, <2>1, <2>5 DEF tt
<1>. QED BY <1>3, <1>4

(* Lists of elements of T flatten to a list of elements of T.                *)
LEMMA FlattenType ==
  ASSUME NEW T
  PROVE  \A ss \in Seq(Seq(T)) : FlattenSeq(ss) \in Seq(T)
<1>. DEFINE P == {ss \in Seq(Seq(T)) : FlattenSeq(ss) \in Seq(T)}
<1>1. \A e \in Seq(Seq(T)) : e = <<>> => e \in P BY FlattenEmpty, EmptyList
<1>2. ASSUME NEW ss \in Seq(Seq(T)), NEW s \in Seq(T), ss \in P PROVE Append(ss, s) \in P
  <2>1. FlattenSeq(Append(ss, s)) = FlattenSeq(ss) \o s BY FlattenAppend
  <2>2. FlattenSeq(ss) \o s \in Seq(T) BY <1>2
  <2>3. Append(ss, s) \in Seq(Seq(T)) OBVIOUS
  <2>. QED BY <2>1, <2>2, <2>3
<1>. HIDE DEF P
<1>3. Seq(Seq(T)) \subseteq P BY <1>1, <1>2, SequenceInduction
<1>. QED BY <1>3 DEF P

(* Flattening two lists of lists, one after the other.                       *)
LEMMA FlattenConcat ==
  ASSUME NEW T, NEW ss \in Seq(Seq(T))
  PROVE  \A tt \in Seq(Seq(T)) : FlattenSeq(ss \o tt) = FlattenSeq(ss) \o FlattenSeq(tt)
<1>. DEFINE P == {tt \in Seq(Seq(T)) : FlattenSeq(ss \o tt) = FlattenSeq(ss) \o FlattenSeq(tt)}
<1>0. FlattenSeq(ss) \in Seq(T) BY FlattenType
<1>1. ASSUME NEW e \in Seq(Seq(T)), e = <<>> PROVE e \in P
  <2>1. ss \o e = ss /\ FlattenSeq(ss) \o e = FlattenSeq(ss) BY <1>0, <1>1
  <2>2. FlattenSeq(e) = e BY <1>1, FlattenEmpty
  <2>. QED BY <2>1, <2>2
<1>2. ASSUME NEW tt \in Seq(Seq(T)), NEW s \in Seq(T), tt \in P PROVE Append(tt, s) \in P
  <2>1. ss \o Append(tt, s) = Append(ss \o tt, s) /\ ss \o tt \in Seq(Seq(T)) OBVIOUS
  <2>2. FlattenSeq(Append(ss \o tt, s)) = FlattenSeq(ss \o tt) \o s BY <2>1, FlattenAppend
  <2>3. FlattenSeq(Append(tt, s)) = FlattenSeq(tt) \o s BY FlattenAppend
  <2>4. FlattenSeq(tt) \in Seq(T) BY FlattenType
  <2>5. (FlattenSeq(ss) \o FlattenSeq(tt)) \o s = FlattenSeq(ss) \o (FlattenSeq(tt) \o s)
    BY <1>0, <2>4
  <2>6. Append(tt, s) \in Seq(Seq(T)) OBVIOUS
  <2>7. FlattenSeq(ss \o tt) = FlattenSeq(ss) \o FlattenSeq(tt) BY <1>2
  <2>8. FlattenSeq(ss \o Append(tt, s)) = FlattenSeq(ss) \o FlattenSeq(Append(tt, s))
    BY <2>1, <2>2, <2>3, <2>5, <2>7
  <2>. QED BY <2>6, <2>8
<1>. HIDE DEF P
<1>3. Seq(Seq(T)) \subseteq P BY <1>1, <1>2, SequenceInduction
<1>. QED BY <1>3 DEF P

(* The flattening of one list, and of two.                                   *)
LEMMA FlattenOfOne ==
  ASSUME NEW T, NEW s \in Seq(T)
  PROVE  FlattenSeq(<<s>>) = s
<1>1. <<s>> = Append(<<>>, s) /\ <<>> \in Seq(Seq(T)) OBVIOUS
<1>2. FlattenSeq(<<s>>) = FlattenSeq(<<>>) \o s BY <1>1, FlattenAppend
<1>3. FlattenSeq(<<>>) = <<>> BY FlattenEmpty
<1>4. <<>> \o s = s OBVIOUS
<1>. QED BY <1>2, <1>3, <1>4

(* Two lists put together, as FlattenSeq does it.                            *)
LEMMA FlattenOfTwo ==
  ASSUME NEW T, NEW s \in Seq(T), NEW t \in Seq(T)
  PROVE  FlattenSeq(<<s, t>>) = s \o t
<1>1. <<s, t>> = Append(<<s>>, t) /\ <<s>> \in Seq(Seq(T)) OBVIOUS
<1>2. FlattenSeq(<<s, t>>) = FlattenSeq(<<s>>) \o t BY <1>1, FlattenAppend
<1>. QED BY <1>2, FlattenOfOne

(* Two lists, one after the other: their type, their length, their order.    *)
LEMMA ConcatType ==
  ASSUME NEW T, NEW s \in Seq(T), NEW t \in Seq(T)
  PROVE  s \o t \in Seq(T) /\ Len(s \o t) = Len(s) + Len(t) /\ Len(s) \in Nat /\ Len(t) \in Nat
  OBVIOUS

(* A list falls apart in one way only, once the length of its head is        *)
(* known.                                                                    *)
LEMMA ConcatInjective ==
  ASSUME NEW T, NEW a \in Seq(T), NEW b \in Seq(T), NEW c \in Seq(T), NEW d \in Seq(T),
         a \o b = c \o d, Len(a) = Len(c)
  PROVE  a = c /\ b = d
<1>1. \A i \in 1..Len(a) : (a \o b)[i] = a[i] /\ (c \o d)[i] = c[i] OBVIOUS
<1>2. Len(b) = Len(d)
  <2>1. Len(a \o b) = Len(a) + Len(b) /\ Len(c \o d) = Len(c) + Len(d) OBVIOUS
  <2>. QED BY <2>1
<1>3. \A i \in 1..Len(b) : (a \o b)[Len(a) + i] = b[i] /\ (c \o d)[Len(a) + i] = d[i] BY <1>2
<1>4. \A i \in 1..Len(a) : a[i] = c[i] BY <1>1
<1>5. \A i \in 1..Len(b) : b[i] = d[i] BY <1>3
<1>. QED BY <1>2, <1>4, <1>5

-----------------------------------------------------------------------------
(* Slices *)

(* What stands at the beginning, in the middle and at the end.               *)
LEMMA SliceFirst ==
  ASSUME NEW T, NEW b \in Seq(T), NEW c \in Seq(T)
  PROVE  Slice(b \o c, 0, Len(b)) = b
<1>1. Len(b \o c) = Len(b) + Len(c) /\ Len(b) \in Nat /\ Len(c) \in Nat OBVIOUS
<1>2. Slice(b \o c, 0, Len(b)) = SubSeq(b \o c, 1, Len(b)) BY <1>1 DEF Slice
<1>. QED BY <1>2

(* What follows the head of a list is the rest of it.                        *)
LEMMA FromAfter ==
  ASSUME NEW T, NEW a \in Seq(T), NEW b \in Seq(T)
  PROVE  From(a \o b, Len(a)) = b
<1>1. Len(a \o b) = Len(a) + Len(b) /\ Len(a) \in Nat /\ Len(b) \in Nat OBVIOUS
<1>2. From(a \o b, Len(a)) = SubSeq(a \o b, Len(a) + 1, Len(a) + Len(b)) BY <1>1 DEF Slice, From
<1>3. \A i \in 1..Len(b) : (a \o b)[Len(a) + i] = b[i] OBVIOUS
<1>. QED BY <1>1, <1>2, <1>3

(* A part of a list is what was written between its neighbours.              *)
LEMMA SliceMiddle ==
  ASSUME NEW T, NEW a \in Seq(T), NEW b \in Seq(T), NEW c \in Seq(T)
  PROVE  Slice(a \o (b \o c), Len(a), Len(a) + Len(b)) = b
<1>. DEFINE s == a \o (b \o c)
<1>1. Len(s) = Len(a) + Len(b) + Len(c) /\ Len(a) \in Nat /\ Len(b) \in Nat /\ Len(c) \in Nat OBVIOUS
<1>2. Slice(s, Len(a), Len(a) + Len(b)) = SubSeq(s, Len(a) + 1, Len(a) + Len(b))
  <2>. HIDE DEF s
  <2>. QED BY <1>1 DEF Slice
<1>3. \A i \in 1..Len(b) : s[Len(a) + i] = b[i]
  <2>1. b \o c \in Seq(T) /\ Len(b \o c) = Len(b) + Len(c) OBVIOUS
  <2>2. \A i \in 1..Len(b) : (b \o c)[i] = b[i] OBVIOUS
  <2>3. \A i \in 1..Len(b) + Len(c) : s[Len(a) + i] = (b \o c)[i] BY <2>1
  <2>. HIDE DEF s
  <2>. QED BY <1>1, <2>2, <2>3
<1>4. s \in Seq(T) OBVIOUS
<1>. HIDE DEF s
<1>5. SubSeq(s, Len(a) + 1, Len(a) + Len(b)) \in Seq(T) /\ Len(SubSeq(s, Len(a) + 1, Len(a) + Len(b))) = Len(b)
      /\ \A i \in 1..Len(b) : SubSeq(s, Len(a) + 1, Len(a) + Len(b))[i] = s[Len(a) + i]
  BY <1>1, <1>4
<1>6. SubSeq(s, Len(a) + 1, Len(a) + Len(b)) = b BY <1>3, <1>5
<1>. QED BY <1>2, <1>6 DEF s

Before(ss, i) == FlattenSeq(SubSeq(ss, 1, i - 1))
After(ss, i) == FlattenSeq(SubSeq(ss, i + 1, Len(ss)))

(* A flattened list is cut at each of the lists it is made of.               *)
LEMMA FlattenSplit ==
  ASSUME NEW T, NEW ss \in Seq(Seq(T)), NEW i \in 1..Len(ss)
  PROVE  /\ Before(ss, i) \in Seq(T) /\ After(ss, i) \in Seq(T) /\ ss[i] \in Seq(T)
         /\ FlattenSeq(ss) = Before(ss, i) \o (ss[i] \o After(ss, i))
<1>. DEFINE front == SubSeq(ss, 1, i - 1)
            back == SubSeq(ss, i + 1, Len(ss))
            s == ss[i]
<1>1. front \in Seq(Seq(T)) /\ back \in Seq(Seq(T)) /\ s \in Seq(T)
  <2>1. front \in Seq(Seq(T)) OBVIOUS
  <2>2. back \in Seq(Seq(T)) OBVIOUS
  <2>. QED BY <2>1, <2>2
<1>2. ss = Append(front, s) \o back
  <2>1. ss = SubSeq(ss, 1, Len(ss)) BY SubSeqFull
  <2>2. SubSeq(ss, 1, Len(ss)) = SubSeq(ss, 1, i) \o back
    <3>1. 1 \in 1..Len(ss)+1 /\ i \in (1 - 1)..Len(ss) /\ Len(ss) \in i..Len(ss) OBVIOUS
    <3>. QED BY <3>1, ConcatAdjacentSubSeq
  <2>3. SubSeq(ss, 1, i) = SubSeq(ss, 1, i - 1) \o <<ss[i]>>
    <3>1. 1 \in 1..Len(ss) /\ i \in 1..Len(ss) OBVIOUS
    <3>. QED BY <3>1, SubSeqRecursiveSecond
  <2>4. Append(front, s) = front \o <<s>> BY <1>1
  <2>. QED BY <2>1, <2>2, <2>3, <2>4
<1>. HIDE DEF front, back, s
<1>3. FlattenSeq(ss) = FlattenSeq(Append(front, s)) \o FlattenSeq(back)
  <2>1. Append(front, s) \in Seq(Seq(T)) BY <1>1
  <2>. QED BY <1>1, <1>2, <2>1, FlattenConcat
<1>4. FlattenSeq(Append(front, s)) = FlattenSeq(front) \o s BY <1>1, FlattenAppend
<1>5. FlattenSeq(front) \in Seq(T) /\ FlattenSeq(back) \in Seq(T) BY <1>1, FlattenType
<1>6. (FlattenSeq(front) \o s) \o FlattenSeq(back) = FlattenSeq(front) \o (s \o FlattenSeq(back))
  BY <1>1, <1>5
<1>. QED BY <1>1, <1>3, <1>4, <1>5, <1>6 DEF Before, After, front, back, s

(* The length of a list of lists that are six long.                          *)
LEMMA FlattenSixes ==
  ASSUME NEW T
  PROVE  \A ss \in Seq(Seq(T)) : (\A i \in 1..Len(ss) : Len(ss[i]) = 6) => Len(FlattenSeq(ss)) = 6 * Len(ss)
<1>. DEFINE P == {ss \in Seq(Seq(T)) :
                    (\A i \in 1..Len(ss) : Len(ss[i]) = 6) => Len(FlattenSeq(ss)) = 6 * Len(ss)}
<1>1. \A e \in Seq(Seq(T)) : e = <<>> => e \in P BY FlattenEmpty
<1>2. ASSUME NEW ss \in Seq(Seq(T)), NEW s \in Seq(T), ss \in P PROVE Append(ss, s) \in P
  <2>1. FlattenSeq(Append(ss, s)) = FlattenSeq(ss) \o s BY FlattenAppend
  <2>2. Append(ss, s) \in Seq(Seq(T)) /\ Len(Append(ss, s)) = Len(ss) + 1 /\ Append(ss, s)[Len(ss) + 1] = s
        /\ \A i \in 1..Len(ss) : Append(ss, s)[i] = ss[i]
    OBVIOUS
  <2>3. SUFFICES ASSUME \A i \in 1..Len(Append(ss, s)) : Len(Append(ss, s)[i]) = 6
                 PROVE  Len(FlattenSeq(Append(ss, s))) = 6 * Len(Append(ss, s))
    BY <2>2
  <2>4. \A i \in 1..Len(ss) : Len(ss[i]) = 6 BY <2>2, <2>3
  <2>5. Len(s) = 6 BY <2>2, <2>3
  <2>6. Len(FlattenSeq(ss)) = 6 * Len(ss) BY <1>2, <2>4
  <2>7. FlattenSeq(ss) \in Seq(T) BY FlattenType
  <2>8. Len(FlattenSeq(ss) \o s) = Len(FlattenSeq(ss)) + Len(s) BY <2>7, ConcatType
  <2>. QED BY <2>1, <2>2, <2>5, <2>6, <2>8
<1>. HIDE DEF P
<1>3. Seq(Seq(T)) \subseteq P BY <1>1, <1>2, SequenceInduction
<1>. QED BY <1>3 DEF P

-----------------------------------------------------------------------------
(* Bytes *)
Octets == Seq(Nat)

(* Sizes and indices are written as four and as two bytes.                   *)
LEMMA WidthsType ==
  \A n \in Nat : /\ U16(n) \in Octets /\ Len(U16(n)) = 2
                 /\ U32(n) \in Octets /\ Len(U32(n)) = 4
                 /\ U32(n) = <<n % 256, n \div 256, 0, 0>>
<1>1. SUFFICES ASSUME NEW n \in Nat
               PROVE  /\ U16(n) \in Octets /\ Len(U16(n)) = 2
                      /\ U32(n) \in Octets /\ Len(U32(n)) = 4
                      /\ U32(n) = <<n % 256, n \div 256, 0, 0>>
  OBVIOUS
<1>. DEFINE a == n % 256
            b == n \div 256
<1>2. a \in Nat /\ b \in Nat OBVIOUS
<1>3. U16(n) = <<a, b>> /\ U32(n) = <<a, b, 0, 0>> BY DEF U16, U32
<1>. HIDE DEF a, b
<1>4. <<a, b>> \in Octets /\ <<a, b, 0, 0>> \in Octets BY <1>2 DEF Octets
<1>. QED BY <1>3, <1>4 DEF a, b

(* A number whose upper bytes are zero is the number of the lower two.       *)
LEMMA SmallOfTwo ==
  ASSUME NEW d \in Octets, Len(d) >= 2, \A i \in 3..Len(d) : d[i] = 0
  PROVE  Small(d) = d[1] + 256 * d[2]
<1>. DEFINE used == {i \in DOMAIN d : d[i] # 0}
            top == IF used = {} THEN 0 ELSE CHOOSE i \in used : \A j \in used : j <= i
<1>1. used \subseteq {1, 2} BY DEF Octets
<1>2. top \in {0, 1, 2}
  <2>1. CASE used = {} BY <2>1
  <2>2. CASE used # {}
    <3>1. \E i \in used : \A j \in used : j <= i
      <4>1. CASE 2 \in used BY <1>1, <4>1
      <4>2. CASE 2 \notin used BY <1>1, <2>2, <4>2
      <4>. QED BY <4>1, <4>2
    <3>2. top \in used BY <2>2, <3>1
    <3>. QED BY <1>1, <3>2
  <2>. QED BY <2>1, <2>2
<1>3. WithoutTopZeros(d) = SubSeq(d, 1, top) BY DEF WithoutTopZeros
<1>. HIDE DEF top
<1>4. Len(SubSeq(d, 1, top)) = top BY <1>2 DEF Octets
<1>. QED BY <1>2, <1>3, <1>4 DEF Small

(* What is written is what is read.                                          *)
LEMMA SmallWritten ==
  \A n \in Nat : Small(U16(n)) = n /\ Small(U32(n)) = n
<1>1. SUFFICES ASSUME NEW n \in Nat PROVE Small(U16(n)) = n /\ Small(U32(n)) = n OBVIOUS
<1>. DEFINE a == n % 256
            b == n \div 256
<1>2. a \in Nat /\ b \in Nat /\ n = a + 256 * b OBVIOUS
<1>. HIDE DEF a, b
<1>3. Small(<<a, b>>) = a + 256 * b
  <2>. DEFINE d == <<a, b>>
  <2>1. d \in Octets /\ Len(d) = 2 /\ d[1] = a /\ d[2] = b BY <1>2 DEF Octets
  <2>. HIDE DEF d
  <2>2. Small(d) = d[1] + 256 * d[2] BY <2>1, SmallOfTwo
  <2>. QED BY <2>1, <2>2 DEF d
<1>4. Small(<<a, b, 0, 0>>) = a + 256 * b
  <2>. DEFINE d == <<a, b, 0, 0>>
  <2>1. d \in Octets /\ Len(d) = 4 /\ d[1] = a /\ d[2] = b /\ d[3] = 0 /\ d[4] = 0 BY <1>2 DEF Octets
  <2>. HIDE DEF d
  <2>2. Len(d) >= 2 /\ \A i \in 3..Len(d) : d[i] = 0 BY <2>1
  <2>3. Small(d) = d[1] + 256 * d[2] BY <2>1, <2>2, SmallOfTwo
  <2>. QED BY <2>1, <2>3 DEF d
<1>. QED BY <1>2, <1>3, <1>4, WidthsType DEF a, b, U16

(* A size is read back from its four bytes, and what follows them is left.   *)
LEMMA ParsedU32 ==
  ASSUME NEW n \in Nat, NEW rest \in Octets
  PROVE  ParseU32(U32(n) \o rest) = Taken(n, rest)
<1>1. U32(n) \in Seq(Nat) /\ Len(U32(n)) = 4 /\ rest \in Seq(Nat) BY WidthsType DEF Octets
<1>2. Len(U32(n) \o rest) >= 4
  <2>1. Len(U32(n) \o rest) = Len(U32(n)) + Len(rest) /\ Len(rest) \in Nat BY <1>1, ConcatType
  <2>. QED BY <1>1, <2>1
<1>3. Slice(U32(n) \o rest, 0, 4) = U32(n) BY <1>1, SliceFirst
<1>4. From(U32(n) \o rest, 4) = rest BY <1>1, FromAfter
<1>. QED BY <1>2, <1>3, <1>4, SmallWritten DEF ParseU32

(* Octets one after the other, under a name that keeps the provers from      *)
(* looking into them.                                                        *)
Joined(s, t) == s \o t

(* Bytes written after bytes are bytes, as many as both.                     *)
LEMMA OctetsJoined ==
  /\ \A s, t \in Octets : Joined(s, t) \in Octets /\ Len(Joined(s, t)) = Len(s) + Len(t)
  /\ \A s \in Octets : Len(s) \in Nat
  BY DEF Octets, Joined

(* The order in which three pieces are put together does not matter.         *)
LEMMA OctetsAssociative ==
  \A s, t, u \in Octets : Joined(Joined(s, t), u) = Joined(s, Joined(t, u))
  BY DEF Octets, Joined

(* Four pieces may be put together from either end.                          *)
LEMMA OctetsFour ==
  \A a, b, c, d \in Octets : Joined(Joined(Joined(a, b), c), d) = Joined(a, Joined(b, Joined(c, d)))
  BY OctetsJoined, OctetsAssociative

(* The table of fields, numbered from 0, that is read.                       *)
TableOf(fields) == [i \in 1..Len(fields) |-> [index |-> i - 1, value |-> fields[i]]]

Entries(fields) == [i \in DOMAIN fields |-> U16(i - 1) \o U32(Len(Before(fields, i)))]

(* Each field of a calltable has an entry of six bytes: its index and its    *)
(* offset.                                                                   *)
LEMMA EntriesType ==
  ASSUME NEW fields \in Seq(Octets)
  PROVE  /\ Entries(fields) \in Seq(Octets) /\ Len(Entries(fields)) = Len(fields)
         /\ \A i \in 1..Len(fields) :
              /\ Len(Before(fields, i)) \in Nat
              /\ Entries(fields)[i] = U16(i - 1) \o U32(Len(Before(fields, i)))
              /\ Len(Entries(fields)[i]) = 6
<1>1. ASSUME NEW i \in 1..Len(fields)
      PROVE  /\ Len(Before(fields, i)) \in Nat
             /\ U16(i - 1) \o U32(Len(Before(fields, i))) \in Octets
             /\ Len(U16(i - 1) \o U32(Len(Before(fields, i)))) = 6
  <2>1. Before(fields, i) \in Seq(Nat) BY FlattenSplit DEF Octets
  <2>2. Len(Before(fields, i)) \in Nat /\ i - 1 \in Nat BY <2>1
  <2>. DEFINE n == Len(Before(fields, i))
              a == U16(i - 1)
              b == U32(n)
  <2>3. a \in Seq(Nat) /\ b \in Seq(Nat) /\ Len(a) = 2 /\ Len(b) = 4 BY <2>2, WidthsType DEF Octets
  <2>. HIDE DEF n, a, b
  <2>4. a \o b \in Seq(Nat) /\ Len(a \o b) = Len(a) + Len(b) BY <2>3, ConcatType
  <2>5. a \o b \in Octets /\ Len(a \o b) = 6 BY <2>3, <2>4 DEF Octets
  <2>6. n \in Nat BY <2>2 DEF n
  <2>. QED BY <2>5, <2>6, Zenon DEF n, a, b
<1>2. DOMAIN fields = 1..Len(fields) /\ Len(fields) \in Nat OBVIOUS
<1>3. Entries(fields) \in [1..Len(fields) -> Octets] BY <1>1, <1>2 DEF Entries
<1>4. Entries(fields) \in Seq(Octets) /\ Len(Entries(fields)) = Len(fields) BY <1>2, <1>3
<1>5. \A i \in 1..Len(fields) : Entries(fields)[i] = U16(i - 1) \o U32(Len(Before(fields, i))) BY <1>2 DEF Entries
<1>. QED BY <1>1, <1>4, <1>5

(* A calltable is a count, the entries, the size of the fields and the       *)
(* fields.                                                                   *)
LEMMA CalltableIs ==
  ASSUME NEW fields \in Seq(Octets)
  PROVE  LET e == FlattenSeq(Entries(fields))
             p == FlattenSeq(fields)
         IN  /\ e \in Octets /\ p \in Octets /\ Len(e) = 6 * Len(fields)
             /\ CalltableBytes(fields) = U32(Len(fields)) \o (e \o (U32(Len(p)) \o p))
             /\ CalltableBytes(fields) \in Octets
<1>. DEFINE e == FlattenSeq(Entries(fields))
            p == FlattenSeq(fields)
            c == U32(Len(fields))
            l == U32(Len(p))
<1>1. e \in Seq(Nat) /\ p \in Seq(Nat) BY EntriesType, FlattenType DEF Octets
<1>2. Len(e) = 6 * Len(fields)
  <2>. DEFINE ent == Entries(fields)
  <2>1. ent \in Seq(Seq(Nat)) /\ Len(ent) = Len(fields) /\ \A i \in 1..Len(ent) : Len(ent[i]) = 6
    BY EntriesType DEF Octets
  <2>. HIDE DEF ent
  <2>2. Len(FlattenSeq(ent)) = 6 * Len(ent) BY <2>1, FlattenSixes
  <2>. QED BY <2>1, <2>2 DEF ent
<1>3. Len(fields) \in Nat /\ Len(p) \in Nat BY <1>1
<1>4. c \in Seq(Nat) /\ l \in Seq(Nat) BY <1>3, WidthsType DEF Octets
<1>5. CalltableBytes(fields) = ((c \o e) \o l) \o p BY DEF CalltableBytes, Entries, Before
<1>. HIDE DEF e, p, c, l
<1>6. ((c \o e) \o l) \o p = c \o (e \o (l \o p)) 
  <2>1. c \in Octets /\ e \in Octets /\ l \in Octets /\ p \in Octets BY <1>1, <1>4 DEF Octets
  <2>2. Joined(Joined(Joined(c, e), l), p) = Joined(c, Joined(e, Joined(l, p))) BY <2>1, OctetsFour
  <2>. QED BY <2>2 DEF Joined
<1>7. c \o (e \o (l \o p)) \in Seq(Nat) BY <1>1, <1>4
<1>. QED BY <1>1, <1>2, <1>5, <1>6, <1>7 DEF Octets, e, p, c, l

(* Where a field begins and ends.                                            *)
LEMMA FieldBounds ==
  ASSUME NEW fields \in Seq(Octets), NEW i \in 1..Len(fields)
  PROVE  LET p == FlattenSeq(fields)
             from == Len(Before(fields, i))
             to == from + Len(fields[i])
         IN  /\ from \in Nat /\ Len(fields[i]) \in Nat
             /\ Slice(p, from, to) = fields[i]
             /\ to = IF i = Len(fields) THEN Len(p) ELSE Len(Before(fields, i + 1))
<1>. DEFINE p == FlattenSeq(fields)
            b == Before(fields, i)
            f == fields[i]
            a == After(fields, i)
<1>0. i \in Nat /\ Len(fields) \in Nat OBVIOUS
<1>1. b \in Seq(Nat) /\ f \in Seq(Nat) /\ a \in Seq(Nat) /\ p = b \o (f \o a) BY FlattenSplit DEF Octets
<1>2. Slice(p, Len(b), Len(b) + Len(f)) = f
  <2>. HIDE DEF p, b, f, a
  <2>. QED BY <1>1, SliceMiddle
<1>3. Len(b) \in Nat /\ Len(f) \in Nat
  <2>. HIDE DEF p, b, f, a
  <2>. QED BY <1>1
<1>4. CASE i = Len(fields)
  <2>1. SubSeq(fields, i + 1, Len(fields)) = <<>> BY <1>4
  <2>2. a = <<>> BY <2>1, FlattenEmpty DEF After
  <2>. HIDE DEF p, b, f, a
  <2>3. f \o a = f BY <1>1, <2>2
  <2>4. Len(p) = Len(b) + Len(f) BY <1>1, <2>3, ConcatType
  <2>. QED BY <1>2, <1>3, <1>4, <2>4 DEF p, b, f
<1>5. CASE i # Len(fields)
  <2>1. SubSeq(fields, 1, i) = SubSeq(fields, 1, i - 1) \o <<f>>
    <3>1. 1 \in 1..Len(fields) OBVIOUS
    <3>. QED BY <3>1, SubSeqRecursiveSecond
  <2>2. SubSeq(fields, 1, i - 1) \in Seq(Seq(Nat)) BY DEF Octets
  <2>3. FlattenSeq(SubSeq(fields, 1, i)) = b \o f
    <3>. DEFINE front == SubSeq(fields, 1, i - 1)
    <3>1. front \o <<f>> = Append(front, f) BY <2>2
    <3>2. FlattenSeq(Append(front, f)) = FlattenSeq(front) \o f
      <4>. HIDE DEF front, f
      <4>. QED BY <1>1, <2>2, FlattenAppend DEF front
    <3>. QED BY <2>1, <3>1, <3>2 DEF Before
  <2>4. Before(fields, i + 1) = b \o f
    <3>1. (i + 1) - 1 = i BY <1>0
    <3>. QED BY <2>3, <3>1 DEF Before
  <2>. HIDE DEF p, b, f, a
  <2>5. Len(b \o f) = Len(b) + Len(f) BY <1>1, ConcatType
  <2>. QED BY <1>2, <1>3, <1>5, <2>4, <2>5 DEF p, b, f
<1>. QED BY <1>4, <1>5

(* fromBytes gives back the fields that were added.                          *)
LEMMA TableRead ==
  ASSUME NEW fields \in Seq(Octets)
  PROVE  CalltableFromBytes(CalltableBytes(fields)) = Taken(TableOf(fields), <<>>)
<1>. DEFINE n == Len(fields)
            e == FlattenSeq(Entries(fields))
            p == FlattenSeq(fields)
            rest == e \o (U32(Len(p)) \o p)
            number(from, width) == Small(Slice(rest, from, from + width))
            start(i) == IF i <= n THEN number((6 * (i - 1)) + 2, 4) ELSE number(6 * n, 4)
            payload == From(rest, (6 * n) + 4)
            offset(i) == Len(Before(fields, i))
<1>0. n \in Nat OBVIOUS
<1>1. /\ e \in Seq(Nat) /\ p \in Seq(Nat) /\ Len(e) = 6 * n
      /\ CalltableBytes(fields) = U32(n) \o rest
  BY CalltableIs DEF Octets
<1>2. Len(p) \in Nat /\ U32(Len(p)) \in Seq(Nat) /\ Len(U32(Len(p))) = 4
  <2>1. Len(p) \in Nat BY <1>1
  <2>. QED BY <2>1, WidthsType DEF Octets
<1>3. rest \in Seq(Nat) /\ Len(rest) = (6 * n) + 4 + Len(p)
  <2>. HIDE DEF e, p, n
  <2>1. U32(Len(p)) \o p \in Seq(Nat) /\ Len(U32(Len(p)) \o p) = 4 + Len(p) BY <1>1, <1>2, ConcatType
  <2>2. rest \in Seq(Nat) /\ Len(rest) = Len(e) + (4 + Len(p))
    <3>. DEFINE q == U32(Len(p)) \o p
    <3>. HIDE DEF q
    <3>1. q \in Seq(Nat) /\ Len(q) = 4 + Len(p) BY <2>1 DEF q
    <3>2. e \o q \in Seq(Nat) /\ Len(e \o q) = Len(e) + Len(q) BY <1>1, <3>1, ConcatType
    <3>. QED BY <3>1, <3>2 DEF q
  <2>. QED BY <1>0, <1>1, <1>2, <2>2
<1>4. ParseU32(CalltableBytes(fields)) = Taken(n, rest)
  <2>. HIDE DEF rest, n
  <2>. QED BY <1>0, <1>1, <1>3, ParsedU32 DEF Octets
<1>5. CalltableFromBytes(CalltableBytes(fields)) =
        IF Len(rest) < (6 * n) + 4 THEN Thrown
        ELSE Taken([i \in 1..n |-> [index |-> number(6 * (i - 1), 2),
                                    value |-> IF start(i) >= start(i + 1) THEN <<>>
                                              ELSE Slice(payload, start(i), start(i + 1))]], <<>>)
  <2>. DEFINE bytes == CalltableBytes(fields)
  <2>. HIDE DEF rest, n, bytes
  <2>. QED BY <1>4 DEF CalltableFromBytes, Then, Taken, bytes
<1>6. payload = p
  <2>. DEFINE l == U32(Len(p))
  <2>1. l \in Seq(Nat) /\ Len(l) = 4 BY <1>2
  <2>2. rest = e \o (l \o p) OBVIOUS
  <2>. HIDE DEF e, p, n, l, rest
  <2>3. e \o (l \o p) = (e \o l) \o p BY <1>1, <2>1
  <2>4. e \o l \in Seq(Nat) /\ Len(e \o l) = (6 * n) + 4 BY <1>1, <2>1, ConcatType
  <2>5. From((e \o l) \o p, Len(e \o l)) = p BY <1>1, <2>4, FromAfter
  <2>. QED BY <2>2, <2>3, <2>4, <2>5
<1>7. start(n + 1) = Len(p)
  <2>. DEFINE l == U32(Len(p))
  <2>1. l \in Seq(Nat) /\ Len(l) = 4 BY <1>2
  <2>2. rest = e \o (l \o p) OBVIOUS
  <2>3. Small(l) = Len(p)
    <3>. HIDE DEF p
    <3>. QED BY <1>2, SmallWritten
  <2>. HIDE DEF e, p, n, l, rest
  <2>4. Slice(e \o (l \o p), Len(e), Len(e) + Len(l)) = l BY <1>1, <2>1, SliceMiddle
  <2>5. Slice(rest, 6 * n, (6 * n) + 4) = l BY <1>1, <2>1, <2>2, <2>4
  <2>6. ~(n + 1 <= n) BY <1>0
  <2>. QED BY <2>3, <2>5, <2>6
<1>8. ASSUME NEW i \in 1..n
      PROVE  number(6 * (i - 1), 2) = i - 1 /\ start(i) = offset(i)
  <2>. DEFINE ent == Entries(fields)
              b == Before(ent, i)
              a == After(ent, i)
              x == U16(i - 1)
              y == U32(offset(i))
              l == U32(Len(p))
              tail == a \o (l \o p)
              at == 6 * (i - 1)
  <2>0. ent \in Seq(Seq(Nat)) /\ Len(ent) = n /\ ent[i] = x \o y /\ offset(i) \in Nat /\ i - 1 \in Nat
    BY <1>8, EntriesType DEF Octets
  <2>1. x \in Seq(Nat) /\ y \in Seq(Nat) /\ Len(x) = 2 /\ Len(y) = 4 BY <2>0, WidthsType DEF Octets
  <2>2. b \in Seq(Nat) /\ a \in Seq(Nat) /\ e = b \o ((x \o y) \o a)
    <3>. HIDE DEF x, y
    <3>1. b \in Seq(Nat) /\ a \in Seq(Nat) /\ e = b \o (ent[i] \o a)
      <4>. HIDE DEF ent
      <4>1. e = FlattenSeq(ent) BY DEF ent
      <4>. QED BY <2>0, <4>1, FlattenSplit
    <3>. QED BY <2>0, <3>1
  <2>3. Len(b) = at
    <3>. DEFINE front == SubSeq(ent, 1, i - 1)
    <3>1. front \in Seq(Seq(Nat)) /\ Len(front) = i - 1 /\ \A j \in 1..(i - 1) : front[j] = ent[j]
      <4>. HIDE DEF ent
      <4>. QED BY <2>0
    <3>2. \A j \in 1..(i - 1) : Len(ent[j]) = 6
      <4>1. \A j \in 1..n : Len(ent[j]) = 6 BY EntriesType
      <4>. QED BY <1>0, <4>1
    <3>3. Len(FlattenSeq(front)) = 6 * Len(front)
      <4>. HIDE DEF front, ent
      <4>. QED BY <3>1, <3>2, FlattenSixes
    <3>. HIDE DEF front, ent
    <3>. QED BY <3>1, <3>3 DEF Before, front
  <2>4. l \in Seq(Nat) BY <1>2
  <2>5. rest = e \o (l \o p) OBVIOUS
  <2>6. Small(x) = i - 1 /\ Small(y) = offset(i) BY <2>0, SmallWritten
  <2>. HIDE DEF e, p, n, rest, ent, b, a, x, y, l, offset
  <2>7. tail \in Seq(Nat) BY <1>1, <2>2, <2>4
  <2>8. rest = b \o (x \o (y \o tail))
    <3>1. (b \o ((x \o y) \o a)) \o (l \o p) = b \o (x \o (y \o (a \o (l \o p))))
      <4>0. x \in Octets /\ y \in Octets /\ a \in Octets /\ b \in Octets /\ l \in Octets /\ p \in Octets
        BY <1>1, <2>1, <2>2, <2>4 DEF Octets
      <4>1. Joined(l, p) \in Octets /\ Joined(Joined(x, y), a) \in Octets BY <4>0, OctetsJoined
      <4>2. Joined(Joined(Joined(x, y), a), Joined(l, p)) = Joined(x, Joined(y, Joined(a, Joined(l, p))))
        BY <4>0, <4>1, OctetsFour
      <4>3. Joined(Joined(b, Joined(Joined(x, y), a)), Joined(l, p))
              = Joined(b, Joined(Joined(Joined(x, y), a), Joined(l, p)))
        BY <4>0, <4>1, OctetsAssociative
      <4>. QED BY <4>2, <4>3 DEF Joined
    <3>. QED BY <2>2, <2>5, <3>1
  <2>. HIDE DEF tail
  <2>9. Slice(rest, at, at + 2) = x
    <3>1. y \o tail \in Seq(Nat) BY <2>1, <2>7
    <3>2. Slice(b \o (x \o (y \o tail)), Len(b), Len(b) + Len(x)) = x BY <2>1, <2>2, <3>1, SliceMiddle
    <3>. QED BY <2>1, <2>3, <2>8, <3>2
  <2>10. Slice(rest, at + 2, (at + 2) + 4) = y
    <3>1. b \o (x \o (y \o tail)) = (b \o x) \o (y \o tail)
      <4>1. b \in Octets /\ x \in Octets /\ y \in Octets /\ tail \in Octets BY <2>1, <2>2, <2>7 DEF Octets
      <4>2. Joined(Joined(b, x), Joined(y, tail)) = Joined(b, Joined(x, Joined(y, tail)))
        BY <4>1, OctetsJoined, OctetsAssociative
      <4>. QED BY <4>2 DEF Joined
    <3>2. b \o x \in Seq(Nat) /\ Len(b \o x) = Len(b) + Len(x) BY <2>1, <2>2, ConcatType
    <3>3. Slice((b \o x) \o (y \o tail), Len(b \o x), Len(b \o x) + Len(y)) = y
      BY <2>1, <2>7, <3>2, SliceMiddle
    <3>. QED BY <2>1, <2>3, <2>8, <3>1, <3>2, <3>3
  <2>11. i <= n /\ i \in Int BY <1>0
  <2>. QED BY <2>6, <2>9, <2>10, <2>11
<1>9. ASSUME NEW i \in 1..n
      PROVE  (IF start(i) >= start(i + 1) THEN <<>> ELSE Slice(payload, start(i), start(i + 1))) = fields[i]
  <2>1. /\ offset(i) \in Nat /\ Len(fields[i]) \in Nat /\ fields[i] \in Seq(Nat)
        /\ Slice(p, offset(i), offset(i) + Len(fields[i])) = fields[i]
        /\ offset(i) + Len(fields[i]) = IF i = n THEN Len(p) ELSE offset(i + 1)
    <3>1. fields[i] \in Seq(Nat) BY DEF Octets
    <3>. QED BY <3>1, FieldBounds
  <2>2. start(i) = offset(i) BY <1>8
  <2>3. start(i + 1) = offset(i) + Len(fields[i])
    <3>1. CASE i = n BY <1>7, <2>1, <3>1
    <3>2. CASE i # n
      <4>1. i + 1 \in 1..n BY <1>0, <3>2
      <4>2. start(i + 1) = offset(i + 1) BY <4>1, <1>8
      <4>. QED BY <2>1, <3>2, <4>2
    <3>. QED BY <3>1, <3>2
  <2>. DEFINE f == fields[i]
              o == offset(i)
              from == start(i)
              to == start(i + 1)
  <2>4. f \in Seq(Nat) /\ o \in Nat /\ Slice(p, o, o + Len(f)) = f /\ from = o /\ to = o + Len(f)
    BY <2>1, <2>2, <2>3
  <2>. HIDE DEF f, o, p, from, to
  <2>5. (IF from >= to THEN <<>> ELSE Slice(p, from, to)) = f
    <3>1. Len(f) \in Nat BY <2>4
    <3>2. CASE Len(f) = 0
      <4>1. f = <<>> BY <2>4, <3>2
      <4>2. from >= to BY <2>4, <3>2
      <4>. QED BY <4>1, <4>2
    <3>3. CASE Len(f) # 0 BY <2>4, <3>1, <3>3
    <3>. QED BY <3>2, <3>3
  <2>. QED BY <1>6, <2>5 DEF f, from, to
<1>10. ~(Len(rest) < (6 * n) + 4)
  <2>. HIDE DEF rest, n, p
  <2>. QED BY <1>0, <1>2, <1>3
<1>. HIDE DEF number, start, payload, rest
<1>11. [i \in 1..n |-> [index |-> number(6 * (i - 1), 2),
                        value |-> IF start(i) >= start(i + 1) THEN <<>>
                                  ELSE Slice(payload, start(i), start(i + 1))]] = TableOf(fields)
  BY <1>8, <1>9 DEF TableOf
<1>. QED BY <1>5, <1>10, <1>11

(* The beginning of a list, flattened one list further.                      *)
LEMMA FlattenPrefix ==
  ASSUME NEW T, NEW ss \in Seq(Seq(T)), NEW i \in 1..Len(ss)
  PROVE  FlattenSeq(SubSeq(ss, 1, i)) = FlattenSeq(SubSeq(ss, 1, i - 1)) \o ss[i]
<1>. DEFINE front == SubSeq(ss, 1, i - 1)
            s == ss[i]
<1>1. SubSeq(ss, 1, i) = front \o <<s>>
  <2>1. 1 \in 1..Len(ss) OBVIOUS
  <2>. QED BY <2>1, SubSeqRecursiveSecond
<1>2. front \in Seq(Seq(T)) /\ s \in Seq(T) OBVIOUS
<1>3. front \o <<s>> = Append(front, s) BY <1>2
<1>. HIDE DEF front, s
<1>4. FlattenSeq(Append(front, s)) = FlattenSeq(front) \o s BY <1>2, FlattenAppend
<1>. QED BY <1>1, <1>3, <1>4 DEF front, s

-----------------------------------------------------------------------------
(* Buffers *)

(* doubled of ExpandBuffer, from low on                                      *)
Doubles(f, required, low) ==
  /\ f = [n \in Nat |-> f[n]]
  /\ \A n \in Nat : n >= low => f[n] = IF n >= required THEN n ELSE f[2 * n]

(* The capacities that expandBuffer reaches by doubling are a function.      *)
LEMMA DoublesExists ==
  ASSUME NEW required \in Nat
  PROVE  \E f : f = [n \in Nat |-> IF n >= required THEN n ELSE f[2 * n]]
<1>. DEFINE S == {m \in Nat : \E f : Doubles(f, required, required - m)}
<1>1. 0 \in S
  <2>. DEFINE f == [n \in Nat |-> n]
  <2>1. Doubles(f, required, required - 0) BY DEF Doubles
  <2>. QED BY <2>1
<1>2. ASSUME NEW m \in Nat, m \in S PROVE m + 1 \in S
  <2>1. PICK f : Doubles(f, required, required - m) BY <1>2
  <2>. DEFINE g == [n \in Nat |-> IF n >= required - m THEN f[n] ELSE f[2 * n]]
  <2>2. \A n \in Nat : n >= required - m => f[n] = IF n >= required THEN n ELSE f[2 * n] BY <2>1 DEF Doubles
  <2>3. ASSUME NEW n \in Nat, n >= required - (m + 1)
        PROVE  g[n] = IF n >= required THEN n ELSE g[2 * n]
    <3>1. CASE n >= required - m
      <4>1. 2 * n \in Nat /\ 2 * n >= required - m BY <3>1
      <4>2. g[n] = f[n] /\ g[2 * n] = f[2 * n] BY <3>1, <4>1
      <4>. QED BY <2>2, <3>1, <4>2
    <3>2. CASE ~ (n >= required - m)
      <4>1. g[n] = f[2 * n] /\ ~ (n >= required) BY <3>2
      <4>2. CASE n = 0 BY <3>2, <4>1, <4>2
      <4>3. CASE n # 0
        <5>1. 2 * n \in Nat /\ 2 * n >= required - m BY <2>3, <4>3
        <5>2. g[2 * n] = f[2 * n] BY <5>1
        <5>. QED BY <4>1, <5>2
      <4>. QED BY <4>2, <4>3
    <3>. QED BY <3>1, <3>2
  <2>4. g = [n \in Nat |-> g[n]] OBVIOUS
  <2>5. Doubles(g, required, required - (m + 1))
    <3>. HIDE DEF g
    <3>. QED BY <2>3, <2>4 DEF Doubles
  <2>. QED BY <2>5
<1>3. Nat \subseteq S
  <2>. HIDE DEF S
  <2>. QED BY <1>1, <1>2, NaturalInduction
<1>4. PICK f : Doubles(f, required, required - required) BY <1>3
<1>5. f = [n \in Nat |-> f[n]] /\ \A n \in Nat : f[n] = IF n >= required THEN n ELSE f[2 * n]
  BY <1>4 DEF Doubles
<1>6. f = [n \in Nat |-> IF n >= required THEN n ELSE f[2 * n]] BY <1>5
<1>. QED BY <1>6

(* The doubled capacity is enough.                                           *)
LEMMA Expanded ==
  ASSUME NEW cap \in Nat, cap >= 1, NEW required \in Nat
  PROVE  ExpandBuffer(cap, required) \in Nat /\ ExpandBuffer(cap, required) >= required
         /\ ExpandBuffer(cap, required) >= 1
<1>. DEFINE doubled == CHOOSE f : f = [n \in Nat |-> IF n >= required THEN n ELSE f[2 * n]]
<1>1. ExpandBuffer(cap, required) = doubled[cap] BY DEF ExpandBuffer
<1>2. doubled = [n \in Nat |-> IF n >= required THEN n ELSE doubled[2 * n]] BY DoublesExists
<1>. HIDE DEF doubled
<1>3. \A n \in Nat : doubled[n] = IF n >= required THEN n ELSE doubled[2 * n] BY <1>2
<1>. DEFINE Enough(n) == doubled[n] \in Nat /\ doubled[n] >= required /\ doubled[n] >= 1
            S == {d \in Nat : \A n \in Nat : n >= 1 /\ n >= required - d => Enough(n)}
<1>4. 0 \in S BY <1>3
<1>5. ASSUME NEW d \in Nat, d \in S PROVE d + 1 \in S
  <2>1. SUFFICES ASSUME NEW n \in Nat, n >= 1, n >= required - (d + 1) PROVE Enough(n) OBVIOUS
  <2>2. CASE n >= required BY <1>3, <2>1, <2>2
  <2>3. CASE ~ (n >= required)
    <3>1. 2 * n \in Nat /\ 2 * n >= 1 /\ 2 * n >= required - d BY <2>1
    <3>2. Enough(2 * n) BY <1>5, <3>1
    <3>3. doubled[n] = doubled[2 * n] BY <1>3, <2>3
    <3>. QED BY <3>2, <3>3
  <2>. QED BY <2>2, <2>3
<1>6. Nat \subseteq S
  <2>. HIDE DEF S
  <2>. QED BY <1>4, <1>5, NaturalInduction
<1>7. required \in S BY <1>6
<1>8. Enough(cap) BY <1>7
<1>. QED BY <1>1, <1>8

(* A buffer nothing was lost of.                                             *)
Whole(b) ==
  /\ b = [cap |-> b.cap, data |-> b.data, over |-> FALSE]
  /\ b.cap \in Nat /\ b.cap >= 1
  /\ b.data \in Octets

(* A buffer with another capacity or other contents, as a record.            *)
LEMMA WholeChanges ==
  ASSUME NEW b, NEW e, b = [cap |-> b.cap, data |-> b.data, over |-> FALSE]
  PROVE  /\ [b EXCEPT !.cap = e] = [cap |-> e, data |-> b.data, over |-> FALSE]
         /\ [b EXCEPT !.data = e] = [cap |-> b.cap, data |-> e, over |-> FALSE]
<1>. DEFINE no == FALSE
            x == b.cap
            y == b.data
<1>1. b = [cap |-> x, data |-> y, over |-> no] OBVIOUS
<1>. HIDE DEF no, x, y
<1>2. \A r : r = [cap |-> x, data |-> y, over |-> no]
        => /\ [r EXCEPT !.cap = e] = [cap |-> e, data |-> y, over |-> no]
           /\ [r EXCEPT !.data = e] = [cap |-> x, data |-> e, over |-> no]
  OBVIOUS
<1>. QED BY <1>1, <1>2, Zenon DEF no, x, y

(* What is written to a buffer that was given room for it is appended to     *)
(* it.                                                                       *)
LEMMA WriteRoom ==
  ASSUME NEW b, Whole(b), NEW bytes \in Octets
  PROVE  /\ Whole(Write(MakeRoom(b, Len(bytes)), bytes))
         /\ Write(MakeRoom(b, Len(bytes)), bytes).data = Joined(b.data, bytes)
<1>. DEFINE size == Len(bytes)
            used == Len(b.data)
            c == MakeRoom(b, size)
<1>1. size \in Nat /\ used \in Nat BY OctetsJoined DEF Whole
<1>2. Joined(b.data, bytes) \in Octets BY OctetsJoined DEF Whole
<1>3. c = [cap |-> c.cap, data |-> b.data, over |-> FALSE] /\ c.cap \in Nat /\ c.cap >= 1 /\ used + size <= c.cap
  <2>1. CASE used + size > b.cap
    <3>. DEFINE e == ExpandBuffer(b.cap, used + size)
    <3>1. e \in Nat /\ e >= used + size /\ e >= 1 BY <1>1, Expanded DEF Whole
    <3>2. c = [b EXCEPT !.cap = e] BY <2>1 DEF MakeRoom
    <3>. HIDE DEF e
    <3>3. b = [cap |-> b.cap, data |-> b.data, over |-> FALSE] BY DEF Whole
    <3>4. [b EXCEPT !.cap = e] = [cap |-> e, data |-> b.data, over |-> FALSE]
      BY <3>3, WholeChanges
    <3>5. c = [cap |-> e, data |-> b.data, over |-> FALSE] BY <3>2, <3>4
    <3>. HIDE DEF c
    <3>. QED BY <1>1, <3>1, <3>5
  <2>2. CASE ~ (used + size > b.cap)
    <3>1. c = b BY <2>2 DEF MakeRoom
    <3>. HIDE DEF c
    <3>. QED BY <1>1, <2>2, <3>1 DEF Whole
  <2>. QED BY <2>1, <2>2
<1>. HIDE DEF c
<1>4. Write(c, bytes) = [c EXCEPT !.data = Joined(c.data, bytes)]
  <2>1. c.data = b.data BY <1>3
  <2>2. ~ (Len(c.data) + Len(bytes) > c.cap) BY <1>1, <1>3, <2>1
  <2>. QED BY <2>2 DEF Write, Joined
<1>5. Write(c, bytes) = [cap |-> c.cap, data |-> Joined(b.data, bytes), over |-> FALSE]
  <2>1. c = [cap |-> c.cap, data |-> b.data, over |-> FALSE] /\ c.data = b.data BY <1>3
  <2>2. [c EXCEPT !.data = Joined(b.data, bytes)] = [cap |-> c.cap, data |-> Joined(b.data, bytes), over |-> FALSE]
    BY <2>1, WholeChanges
  <2>. QED BY <1>4, <2>1, <2>2, Zenon
<1>6. Whole(Write(c, bytes)) /\ Write(c, bytes).data = Joined(b.data, bytes)
  <2>. DEFINE w == Write(c, bytes)
              d == Joined(b.data, bytes)
  <2>. HIDE DEF w, d
  <2>1. w = [cap |-> c.cap, data |-> d, over |-> FALSE] /\ d \in Octets BY <1>2, <1>5 DEF w, d
  <2>2. w.cap = c.cap /\ w.data = d BY <2>1
  <2>. QED BY <1>3, <2>1, <2>2 DEF Whole, w, d
<1>. QED BY <1>6 DEF c

(* filled of WriteAll, up to n                                               *)
Fills(f, buffer, pieces, n) ==
  f = [i \in 0..n |-> IF i = 0 THEN buffer ELSE Write(MakeRoom(f[i - 1], Len(pieces[i])), pieces[i])]

(* The buffers after each of the writes are a function of the number of      *)
(* writes.                                                                   *)
LEMMA FillsExists ==
  ASSUME NEW buffer, NEW pieces
  PROVE  \A n \in Nat : \E f : Fills(f, buffer, pieces, n)
<1>. DEFINE Next1(b, i) == Write(MakeRoom(b, Len(pieces[i])), pieces[i])
            S == {n \in Nat : \E f : Fills(f, buffer, pieces, n)}
<1>1. 0 \in S
  <2>. DEFINE f == [i \in 0..0 |-> buffer]
  <2>1. Fills(f, buffer, pieces, 0) BY DEF Fills
  <2>. QED BY <2>1
<1>2. ASSUME NEW n \in Nat, n \in S PROVE n + 1 \in S
  <2>1. PICK f : Fills(f, buffer, pieces, n) BY <1>2
  <2>. DEFINE g == [i \in 0..n+1 |-> IF i <= n THEN f[i] ELSE Next1(f[n], i)]
  <2>2. \A i \in 0..n : f[i] = IF i = 0 THEN buffer ELSE Next1(f[i - 1], i) BY <2>1 DEF Fills
  <2>. HIDE DEF Next1
  <2>3. ASSUME NEW i \in 0..n+1 PROVE g[i] = IF i = 0 THEN buffer ELSE Next1(g[i - 1], i)
    <3>1. CASE i = 0
      <4>1. g[0] = f[0] BY <2>3
      <4>. QED BY <2>2, <3>1, <4>1
    <3>2. CASE i # 0 /\ i <= n
      <4>1. i - 1 \in 0..n+1 /\ i - 1 <= n /\ i \in 0..n BY <3>2
      <4>2. g[i] = f[i] /\ g[i - 1] = f[i - 1] BY <3>2, <4>1
      <4>. QED BY <2>2, <3>2, <4>1, <4>2
    <3>3. CASE i = n + 1
      <4>1. i - 1 = n /\ n \in 0..n+1 /\ n <= n /\ ~ (i <= n) /\ i # 0 BY <3>3
      <4>2. g[i] = Next1(f[n], i) BY <4>1
      <4>3. g[n] = f[n] BY <4>1
      <4>4. g[i - 1] = f[n] BY <4>1, <4>3
      <4>. QED BY <4>1, <4>2, <4>4
    <3>. QED BY <3>1, <3>2, <3>3
  <2>4. g = [i \in 0..n+1 |-> g[i]] OBVIOUS
  <2>5. g = [i \in 0..n+1 |-> IF i = 0 THEN buffer ELSE Next1(g[i - 1], i)]
    <3>. HIDE DEF g
    <3>. QED BY <2>3, <2>4
  <2>6. Fills(g, buffer, pieces, n + 1)
    <3>. HIDE DEF g
    <3>. QED BY <2>5 DEF Fills, Next1
  <2>. QED BY <2>6
<1>. HIDE DEF S
<1>3. Nat \subseteq S BY <1>1, <1>2, NaturalInduction
<1>. QED BY <1>3 DEF S

(* The pieces follow one another, whatever the room at the beginning.        *)
LEMMA AllWritten ==
  ASSUME NEW buffer, Whole(buffer), NEW pieces \in Seq(Octets)
  PROVE  /\ Whole(WriteAll(buffer, pieces))
         /\ WriteAll(buffer, pieces).data = Joined(buffer.data, FlattenSeq(pieces))
<1>. DEFINE n == Len(pieces)
            f == CHOOSE g : Fills(g, buffer, pieces, n)
            front(i) == FlattenSeq(SubSeq(pieces, 1, i))
            S == {i \in Nat : i <= n => Whole(f[i]) /\ f[i].data = Joined(buffer.data, front(i))}
<1>0. n \in Nat OBVIOUS
<1>1. WriteAll(buffer, pieces) = f[n] BY DEF WriteAll, Fills
<1>2. Fills(f, buffer, pieces, n) BY <1>0, FillsExists
<1>. HIDE DEF f
<1>3. \A i \in 0..n : f[i] = IF i = 0 THEN buffer ELSE Write(MakeRoom(f[i - 1], Len(pieces[i])), pieces[i])
  BY <1>2 DEF Fills
<1>4. 0 \in S
  <2>1. SubSeq(pieces, 1, 0) = <<>> OBVIOUS
  <2>2. front(0) = <<>> BY <2>1, FlattenEmpty
  <2>3. Joined(buffer.data, <<>>) = buffer.data BY DEF Joined, Whole, Octets
  <2>4. f[0] = buffer BY <1>0, <1>3
  <2>. QED BY <2>2, <2>3, <2>4
<1>5. ASSUME NEW i \in Nat, i \in S PROVE i + 1 \in S
  <2>1. SUFFICES ASSUME i + 1 <= n
                 PROVE  Whole(f[i + 1]) /\ f[i + 1].data = Joined(buffer.data, front(i + 1))
    OBVIOUS
  <2>2. i + 1 \in 1..n /\ (i + 1) - 1 = i /\ i <= n BY <1>0, <2>1
  <2>. DEFINE piece == pieces[i + 1]
  <2>3. piece \in Octets BY <2>2
  <2>4. Whole(f[i]) /\ f[i].data = Joined(buffer.data, front(i)) BY <1>5, <2>2
  <2>5. f[i + 1] = Write(MakeRoom(f[i], Len(piece)), piece) BY <1>3, <2>2
  <2>. DEFINE b == f[i]
  <2>6. Whole(f[i + 1]) /\ f[i + 1].data = Joined(f[i].data, piece)
    <3>. HIDE DEF piece, b
    <3>1. Whole(Write(MakeRoom(b, Len(piece)), piece))
          /\ Write(MakeRoom(b, Len(piece)), piece).data = Joined(b.data, piece)
      BY <2>3, <2>4, WriteRoom DEF b
    <3>. QED BY <2>5, <3>1 DEF b
  <2>7. front(i + 1) = Joined(front(i), piece)
    <3>1. pieces \in Seq(Seq(Nat)) BY DEF Octets
    <3>2. FlattenSeq(SubSeq(pieces, 1, i + 1)) = FlattenSeq(SubSeq(pieces, 1, (i + 1) - 1)) \o pieces[i + 1]
      BY <2>2, <3>1, FlattenPrefix
    <3>. QED BY <2>2, <3>2 DEF Joined
  <2>8. front(i) \in Octets
    <3>1. SubSeq(pieces, 1, i) \in Seq(Seq(Nat)) BY <2>2 DEF Octets
    <3>. QED BY <3>1, FlattenType DEF Octets
  <2>9. buffer.data \in Octets BY DEF Whole
  <2>. HIDE DEF front, piece
  <2>10. Joined(Joined(buffer.data, front(i)), piece) = Joined(buffer.data, Joined(front(i), piece))
    BY <2>3, <2>8, <2>9, OctetsAssociative
  <2>. QED BY <2>4, <2>6, <2>7, <2>10
<1>6. Nat \subseteq S
  <2>. HIDE DEF S
  <2>. QED BY <1>4, <1>5, NaturalInduction
<1>7. Whole(f[n]) /\ f[n].data = Joined(buffer.data, front(n)) BY <1>0, <1>6
<1>8. SubSeq(pieces, 1, n) = pieces BY SubSeqFull
<1>. QED BY <1>1, <1>7, <1>8

(* Pairs of a number and a value, flattened twice.                           *)
LEMMA FlattenPairs ==
  ASSUME NEW xs \in Seq(Octets), NEW ys \in Seq(Octets), Len(xs) = Len(ys)
  PROVE  LET pairs == [i \in DOMAIN xs |-> <<xs[i], ys[i]>>]
             joins == [i \in DOMAIN xs |-> xs[i] \o ys[i]]
         IN  /\ pairs \in Seq(Seq(Octets)) /\ joins \in Seq(Octets)
             /\ FlattenSeq(FlattenSeq(pairs)) = FlattenSeq(joins)
<1>. DEFINE pairs == [i \in DOMAIN xs |-> <<xs[i], ys[i]>>]
            joins == [i \in DOMAIN xs |-> xs[i] \o ys[i]]
            n == Len(xs)
            Left(k) == FlattenSeq(FlattenSeq(SubSeq(pairs, 1, k)))
            Right(k) == FlattenSeq(SubSeq(joins, 1, k))
            S == {k \in Nat : k <= n => Left(k) = Right(k)}
<1>1. n \in Nat /\ DOMAIN xs = 1..n OBVIOUS
<1>2. \A i \in 1..n : xs[i] \in Octets /\ ys[i] \in Octets OBVIOUS
<1>3. \A i \in 1..n : xs[i] \o ys[i] \in Octets
  <2>1. \A i \in 1..n : Joined(xs[i], ys[i]) \in Octets BY <1>2, OctetsJoined
  <2>. QED BY <2>1 DEF Joined
<1>4. pairs \in Seq(Seq(Octets)) /\ Len(pairs) = n /\ \A i \in 1..n : pairs[i] = <<xs[i], ys[i]>> BY <1>1, <1>2
<1>5. joins \in Seq(Octets) /\ Len(joins) = n /\ \A i \in 1..n : joins[i] = xs[i] \o ys[i]
  <2>1. joins \in [1..n -> Octets] BY <1>1, <1>3
  <2>2. joins \in Seq(Octets) /\ Len(joins) = n BY <1>1, <2>1
  <2>. QED BY <1>1, <2>2
<1>. HIDE DEF pairs, joins, n
<1>6. 0 \in S
  <2>1. SubSeq(pairs, 1, 0) = <<>> /\ SubSeq(joins, 1, 0) = <<>> BY <1>4, <1>5
  <2>2. FlattenSeq(SubSeq(pairs, 1, 0)) = <<>> /\ FlattenSeq(SubSeq(joins, 1, 0)) = <<>> BY <2>1, FlattenEmpty
  <2>3. Left(0) = <<>> BY <2>2, FlattenEmpty
  <2>. QED BY <2>2, <2>3
<1>7. ASSUME NEW k \in Nat, k \in S PROVE k + 1 \in S
  <2>1. SUFFICES ASSUME k + 1 <= n PROVE Left(k + 1) = Right(k + 1) OBVIOUS
  <2>. DEFINE i == k + 1
              x == xs[i]
              y == ys[i]
              front == FlattenSeq(SubSeq(pairs, 1, k))
  <2>2. i \in 1..n /\ i - 1 = k /\ k <= n BY <1>1, <2>1
  <2>3. FlattenSeq(SubSeq(pairs, 1, i)) = FlattenSeq(SubSeq(pairs, 1, i - 1)) \o pairs[i]
    <3>1. i \in 1..Len(pairs) BY <1>4, <2>2
    <3>. HIDE DEF i
    <3>. QED BY <1>4, <3>1, FlattenPrefix
  <2>4. FlattenSeq(SubSeq(joins, 1, i)) = FlattenSeq(SubSeq(joins, 1, i - 1)) \o joins[i]
    <3>1. i \in 1..Len(joins) /\ joins \in Seq(Seq(Nat)) BY <1>5, <2>2 DEF Octets
    <3>. HIDE DEF i
    <3>. QED BY <3>1, FlattenPrefix
  <2>5. x \in Seq(Nat) /\ y \in Seq(Nat) BY <1>2, <2>2 DEF Octets
  <2>6. front \in Seq(Seq(Nat))
    <3>1. SubSeq(pairs, 1, k) \in Seq(Seq(Octets)) BY <1>4, <2>2
    <3>. QED BY <3>1, FlattenType DEF Octets
  <2>7. FlattenSeq(SubSeq(pairs, 1, i)) = front \o <<x, y>> BY <1>4, <2>2, <2>3
  <2>8. FlattenSeq(front \o <<x, y>>) = FlattenSeq(front) \o (x \o y)
    <3>. HIDE DEF front, x, y
    <3>1. <<x, y>> \in Seq(Seq(Nat)) BY <2>5
    <3>. DEFINE xy == <<x, y>>
    <3>. HIDE DEF xy
    <3>2. FlattenSeq(front \o xy) = FlattenSeq(front) \o FlattenSeq(xy) BY <2>6, <3>1, FlattenConcat DEF xy
    <3>3. FlattenSeq(xy) = x \o y BY <2>5, FlattenOfTwo DEF xy
    <3>. QED BY <3>2, <3>3 DEF xy
  <2>9. FlattenSeq(front) = Right(k) BY <1>7, <2>2
  <2>10. Right(i) = Right(k) \o (x \o y) BY <1>5, <2>2, <2>4
  <2>11. Left(i) = Right(i)
    <3>. HIDE DEF x, y, front, i
    <3>. QED BY <2>7, <2>8, <2>9, <2>10
  <2>. QED BY <2>11
<1>8. Nat \subseteq S
  <2>. HIDE DEF S
  <2>. QED BY <1>6, <1>7, NaturalInduction
<1>9. Left(n) = Right(n)
  <2>. HIDE DEF Left, Right
  <2>. QED BY <1>1, <1>8 DEF S
<1>10. SubSeq(pairs, 1, n) = pairs /\ SubSeq(joins, 1, n) = joins BY <1>4, <1>5, SubSeqFull
<1>11. FlattenSeq(FlattenSeq(pairs)) = FlattenSeq(joins) BY <1>9, <1>10
<1>. QED BY <1>4, <1>5, <1>11 DEF pairs, joins

(* What is written first fits in a new buffer.                               *)
LEMMA NewWritten ==
  ASSUME NEW bytes \in Octets, Len(bytes) <= 4
  PROVE  Whole(Write(NewBuffer, bytes)) /\ Write(NewBuffer, bytes).data = bytes
<1>. DEFINE b == NewBuffer
<1>1. b = [cap |-> PageSize, data |-> <<>>, over |-> FALSE] BY DEF NewBuffer
<1>2. b.cap = PageSize /\ b.data = <<>> BY <1>1
<1>3. b = [cap |-> b.cap, data |-> b.data, over |-> FALSE] BY <1>1, <1>2
<1>. HIDE DEF b
<1>4. Len(bytes) \in Nat /\ Joined(b.data, bytes) = bytes BY <1>2 DEF Octets, Joined
<1>5. Write(b, bytes) = [b EXCEPT !.data = Joined(b.data, bytes)]
  <2>1. Len(b.data) = 0 BY <1>2
  <2>2. ~ (Len(b.data) + Len(bytes) > b.cap) BY <1>2, <1>4, <2>1, PageSizeAssumption
  <2>. QED BY <2>2 DEF Write, Joined
<1>6. [b EXCEPT !.data = bytes] = [cap |-> b.cap, data |-> bytes, over |-> FALSE] BY <1>3, WholeChanges
<1>. DEFINE w == Write(b, bytes)
<1>7. w = [cap |-> PageSize, data |-> bytes, over |-> FALSE] BY <1>2, <1>4, <1>5, <1>6, Zenon
<1>. HIDE DEF w
<1>8. Whole(w) /\ w.data = bytes BY <1>7, PageSizeAssumption DEF Whole
<1>. QED BY <1>8 DEF w, b

(* Each field after its number.                                              *)
Numbered(fields) == [i \in DOMAIN fields |-> U16(i - 1) \o fields[i]]

(* The fields of the payload, each after its number.                         *)
LEMMA NumberedType ==
  ASSUME NEW fields \in Seq(Octets)
  PROVE  /\ Numbered(fields) \in Seq(Octets) /\ Len(Numbered(fields)) = Len(fields) /\ Len(fields) \in Nat
         /\ \A i \in 1..Len(fields) : Numbered(fields)[i] = U16(i - 1) \o fields[i]
<1>1. Len(fields) \in Nat /\ DOMAIN fields = 1..Len(fields) OBVIOUS
<1>2. ASSUME NEW i \in 1..Len(fields) PROVE U16(i - 1) \o fields[i] \in Octets
  <2>1. U16(i - 1) \in Octets /\ fields[i] \in Octets BY WidthsType
  <2>2. Joined(U16(i - 1), fields[i]) \in Octets BY <2>1, OctetsJoined
  <2>. QED BY <2>2 DEF Joined
<1>3. Numbered(fields) \in [1..Len(fields) -> Octets] BY <1>1, <1>2 DEF Numbered
<1>4. Numbered(fields) \in Seq(Octets) /\ Len(Numbered(fields)) = Len(fields) BY <1>1, <1>3
<1>. QED BY <1>1, <1>4 DEF Numbered

(* The fields of any payload are written whole: no write runs past the       *)
(* buffer (Fields.ts).                                                       *)
LEMMA FieldsWritten ==
  ASSUME NEW fields \in Seq(Octets)
  PROVE  FieldsBytes(fields) = Taken(Joined(U32(Len(fields)), FlattenSeq(Numbered(fields))), <<>>)
<1>. DEFINE n == Len(fields)
            xs == [i \in DOMAIN fields |-> U16(i - 1)]
            pairs == [i \in DOMAIN fields |-> <<U16(i - 1), fields[i]>>]
            b == WriteAll(Write(NewBuffer, U32(n)), FlattenSeq(pairs))
<1>1. n \in Nat /\ DOMAIN fields = 1..n OBVIOUS
<1>2. U32(n) \in Octets /\ Len(U32(n)) = 4 BY <1>1, WidthsType
<1>3. xs \in Seq(Octets) /\ Len(xs) = n /\ DOMAIN xs = DOMAIN fields
  <2>1. \A i \in 1..n : U16(i - 1) \in Octets BY WidthsType
  <2>2. xs \in [1..n -> Octets] BY <1>1, <2>1
  <2>. QED BY <1>1, <2>2
<1>4. \A i \in DOMAIN fields : xs[i] = U16(i - 1) OBVIOUS
<1>5. pairs = [i \in DOMAIN xs |-> <<xs[i], fields[i]>>] /\ Numbered(fields) = [i \in DOMAIN xs |-> xs[i] \o fields[i]]
  BY <1>3, <1>4 DEF Numbered
<1>. HIDE DEF xs
<1>6. pairs \in Seq(Seq(Octets)) /\ FlattenSeq(FlattenSeq(pairs)) = FlattenSeq(Numbered(fields))
  BY <1>3, <1>5, FlattenPairs
<1>. HIDE DEF pairs
<1>7. FlattenSeq(pairs) \in Seq(Octets) BY <1>6, FlattenType
<1>8. Whole(b) /\ b.data = Joined(U32(n), FlattenSeq(Numbered(fields)))
  <2>1. Whole(Write(NewBuffer, U32(n))) /\ Write(NewBuffer, U32(n)).data = U32(n)
    <3>. DEFINE u == U32(n)
    <3>1. u \in Octets /\ Len(u) <= 4 BY <1>2
    <3>. HIDE DEF u
    <3>2. Whole(Write(NewBuffer, u)) /\ Write(NewBuffer, u).data = u BY <3>1, NewWritten
    <3>. QED BY <3>2 DEF u
  <2>. QED BY <1>6, <1>7, <2>1, AllWritten
<1>9. FieldsBytes(fields) = IF b.over THEN Thrown ELSE Taken(b.data, <<>>) BY DEF FieldsBytes, pairs
<1>. HIDE DEF b
<1>10. ~b.over BY <1>8 DEF Whole
<1>. QED BY <1>8, <1>9, <1>10

(* Slices by position and by what stands before.                             *)
LEMMA SliceAfter ==
  ASSUME NEW a \in Octets, NEW b \in Octets, NEW c \in Octets
  PROVE  Slice(Joined(a, Joined(b, c)), Len(a), Len(a) + Len(b)) = b
<1>1. a \in Seq(Nat) /\ b \in Seq(Nat) /\ c \in Seq(Nat) BY DEF Octets
<1>2. Slice(a \o (b \o c), Len(a), Len(a) + Len(b)) = b BY <1>1, SliceMiddle
<1>. QED BY <1>2 DEF Joined

InBlock(bytes, at, c, b, x, y, v, a) ==
  /\ c \in Octets /\ b \in Octets /\ x \in Octets /\ y \in Octets /\ v \in Octets /\ a \in Octets
  /\ at = Len(c) + Len(b)
  /\ bytes = Joined(c, Joined(b, Joined(Joined(x, Joined(y, v)), a)))

(* The three pieces of a field are found where they were written.            *)
LEMMA BlockSlices ==
  ASSUME NEW bytes, NEW at, NEW c, NEW b, NEW x, NEW y, NEW v, NEW a, InBlock(bytes, at, c, b, x, y, v, a)
  PROVE  /\ Slice(bytes, at, at + Len(x)) = x
         /\ Slice(bytes, at + Len(x), (at + Len(x)) + Len(y)) = y
         /\ Slice(bytes, (at + Len(x)) + Len(y), ((at + Len(x)) + Len(y)) + Len(v)) = v
<1>0. /\ c \in Octets /\ b \in Octets /\ x \in Octets /\ y \in Octets /\ v \in Octets /\ a \in Octets
      /\ at = Len(c) + Len(b)
      /\ bytes = Joined(c, Joined(b, Joined(Joined(x, Joined(y, v)), a)))
  BY DEF InBlock
<1>. DEFINE cb == Joined(c, b)
            cbx == Joined(cb, x)
            cbxy == Joined(cbx, y)
            va == Joined(v, a)
            yva == Joined(y, va)
<1>1. cb \in Octets /\ cbx \in Octets /\ cbxy \in Octets /\ va \in Octets /\ yva \in Octets BY <1>0, OctetsJoined
<1>2. Len(cb) = at /\ Len(cbx) = at + Len(x) /\ Len(cbxy) = (at + Len(x)) + Len(y)
  <2>1. Len(cb) = Len(c) + Len(b) /\ Len(cbx) = Len(cb) + Len(x) /\ Len(cbxy) = Len(cbx) + Len(y)
    <3>. HIDE DEF cbxy, va, yva
    <3>1. Len(cb) = Len(c) + Len(b) BY <1>0, OctetsJoined
    <3>. HIDE DEF cb
    <3>2. Len(cbx) = Len(cb) + Len(x) BY <1>0, <1>1, OctetsJoined
    <3>. HIDE DEF cbx
    <3>3. Len(cbxy) = Len(cbx) + Len(y) BY <1>0, <1>1, OctetsJoined DEF cbxy
    <3>. QED BY <3>1, <3>2, <3>3
  <2>. HIDE DEF cb, cbx, cbxy, va, yva
  <2>. QED BY <1>0, <2>1
<1>3. bytes = Joined(cb, Joined(x, yva))
  <2>1. Joined(Joined(x, Joined(y, v)), a) = Joined(x, Joined(Joined(y, v), a)) BY <1>0, OctetsJoined, OctetsAssociative
  <2>2. Joined(Joined(y, v), a) = yva BY <1>0, OctetsAssociative
  <2>3. Joined(x, yva) \in Octets BY <1>0, <1>1, OctetsJoined
  <2>. HIDE DEF yva
  <2>4. Joined(c, Joined(b, Joined(x, yva))) = Joined(cb, Joined(x, yva)) BY <1>0, <2>3, OctetsAssociative
  <2>. QED BY <1>0, <2>1, <2>2, <2>4
<1>4. bytes = Joined(cbx, Joined(y, va)) BY <1>0, <1>1, <1>3, OctetsAssociative
<1>5. bytes = Joined(cbxy, Joined(v, a)) BY <1>0, <1>1, <1>4, OctetsAssociative
<1>. HIDE DEF cb, cbx, cbxy, va, yva
<1>6. Slice(bytes, Len(cb), Len(cb) + Len(x)) = x BY <1>0, <1>1, <1>3, SliceAfter
<1>7. Slice(bytes, Len(cbx), Len(cbx) + Len(y)) = y BY <1>0, <1>1, <1>4, SliceAfter
<1>8. Slice(bytes, Len(cbxy), Len(cbxy) + Len(v)) = v BY <1>0, <1>1, <1>5, SliceAfter
<1>. QED BY <1>2, <1>6, <1>7, <1>8

(* Values with their sizes.                                                  *)
Sized(values) == [i \in DOMAIN values |-> ToBytesArrayU8(values[i])]

(* The fields of the payload, each after its size.                           *)
LEMMA SizedType ==
  ASSUME NEW values \in Seq(Octets)
  PROVE  /\ Sized(values) \in Seq(Octets) /\ Len(Sized(values)) = Len(values) /\ Len(values) \in Nat
         /\ \A i \in 1..Len(values) : /\ Sized(values)[i] = Joined(U32(Len(values[i])), values[i])
                                      /\ Len(values[i]) \in Nat /\ Len(Sized(values)[i]) = 4 + Len(values[i])
<1>1. Len(values) \in Nat /\ DOMAIN values = 1..Len(values) OBVIOUS
<1>2. ASSUME NEW i \in 1..Len(values)
      PROVE  /\ ToBytesArrayU8(values[i]) \in Octets /\ Len(values[i]) \in Nat
             /\ Len(ToBytesArrayU8(values[i])) = 4 + Len(values[i])
             /\ ToBytesArrayU8(values[i]) = Joined(U32(Len(values[i])), values[i])
  <2>. DEFINE v == values[i]
  <2>1. v \in Octets /\ Len(v) \in Nat BY OctetsJoined
  <2>2. U32(Len(v)) \in Octets /\ Len(U32(Len(v))) = 4 BY <2>1, WidthsType
  <2>3. ToBytesArrayU8(v) = Joined(U32(Len(v)), v) BY DEF ToBytesArrayU8, Joined
  <2>. HIDE DEF v
  <2>4. ToBytesArrayU8(v) \in Octets /\ Len(ToBytesArrayU8(v)) = 4 + Len(v) BY <2>1, <2>2, <2>3, OctetsJoined
  <2>. QED BY <2>1, <2>3, <2>4 DEF v
<1>3. Sized(values) \in [1..Len(values) -> Octets] BY <1>1, <1>2 DEF Sized
<1>4. Sized(values) \in Seq(Octets) /\ Len(Sized(values)) = Len(values) BY <1>1, <1>3
<1>5. \A i \in 1..Len(values) : Sized(values)[i] = ToBytesArrayU8(values[i]) BY <1>1 DEF Sized
<1>. QED BY <1>1, <1>2, <1>4, <1>5

(* What the fields of a payload are written to.                              *)
FieldsText(values) == Joined(U32(Len(values)), FlattenSeq(Numbered(Sized(values))))

(* Where the field with this number is.                                      *)
StartOf(values, i) ==
  LET blocks == Numbered(Sized(values))
  IN  IF i <= Len(values) THEN 4 + Len(Before(blocks, i)) ELSE Len(FieldsText(values))

(* At its place among the fields stand the number, the size and the bytes    *)
(* of a field.                                                               *)
LEMMA FieldAt ==
  ASSUME NEW values \in Seq(Octets), NEW i \in 1..Len(values)
  PROVE  LET bytes == FieldsText(values)
             at == StartOf(values, i)
         IN  /\ at \in Nat /\ Len(values[i]) \in Nat
             /\ Small(Slice(bytes, at, at + 2)) = i - 1
             /\ Small(Slice(bytes, at + 2, (at + 2) + 4)) = Len(values[i])
             /\ StartOf(values, i + 1) = (at + 6) + Len(values[i])
             /\ Slice(bytes, at + 6, (at + 6) + Len(values[i])) = values[i]
<1>. DEFINE n == Len(values)
            fields == Sized(values)
            blocks == Numbered(fields)
            p == FlattenSeq(blocks)
            b == Before(blocks, i)
            a == After(blocks, i)
            c == U32(n)
            v == values[i]
            x == U16(i - 1)
            y == U32(Len(v))
            bytes == FieldsText(values)
            at == StartOf(values, i)
<1>1. n \in Nat /\ i \in 1..n /\ i <= n /\ i - 1 \in Nat BY SizedType
<1>2. fields \in Seq(Octets) /\ Len(fields) = n /\ fields[i] = Joined(y, v) /\ Len(v) \in Nat BY SizedType
<1>3. blocks \in Seq(Octets) /\ Len(blocks) = n /\ blocks[i] = Joined(x, Joined(y, v))
  <2>. HIDE DEF fields
  <2>1. blocks \in Seq(Octets) /\ Len(blocks) = n /\ blocks[i] = x \o fields[i] BY <1>1, <1>2, NumberedType
  <2>. QED BY <1>2, <2>1 DEF Joined
<1>4. v \in Octets /\ x \in Octets /\ y \in Octets /\ c \in Octets /\ Len(x) = 2 /\ Len(y) = 4 /\ Len(c) = 4
  BY <1>1, <1>2, WidthsType
<1>5. b \in Octets /\ a \in Octets /\ p = Joined(b, Joined(Joined(x, Joined(y, v)), a)) /\ p \in Octets
  <2>. HIDE DEF blocks
  <2>1. blocks \in Seq(Seq(Nat)) /\ i \in 1..Len(blocks) BY <1>1, <1>3 DEF Octets
  <2>2. b \in Seq(Nat) /\ a \in Seq(Nat) /\ p = b \o (blocks[i] \o a) BY <2>1, FlattenSplit
  <2>3. p \in Seq(Nat) BY <2>1, FlattenType
  <2>. HIDE DEF b, a, p, x, y, v
  <2>. QED BY <1>3, <2>2, <2>3 DEF Joined, Octets
<1>6. bytes = Joined(c, p) BY DEF FieldsText
<1>7. at = Len(c) + Len(b) /\ at \in Nat
  <2>1. at = 4 + Len(b) BY <1>1 DEF StartOf
  <2>2. Len(b) \in Nat BY <1>5, OctetsJoined
  <2>. HIDE DEF at, b, c
  <2>. QED BY <1>4, <2>1, <2>2
<1>8. StartOf(values, i + 1) = (at + 6) + Len(v)
  <2>1. /\ Len(blocks[i]) \in Nat
        /\ Len(b) + Len(blocks[i]) = IF i = Len(blocks) THEN Len(p) ELSE Len(Before(blocks, i + 1))
    <3>1. i \in 1..Len(blocks) BY <1>1, <1>3
    <3>. HIDE DEF blocks
    <3>. QED BY <1>3, <3>1, FieldBounds
  <2>2. Len(blocks[i]) = 6 + Len(v)
    <3>1. Joined(y, v) \in Octets /\ Len(Joined(y, v)) = 4 + Len(v) BY <1>4, OctetsJoined
    <3>2. Len(Joined(x, Joined(y, v))) = 2 + (4 + Len(v)) BY <1>4, <3>1, OctetsJoined
    <3>. QED BY <1>2, <1>3, <3>2
  <2>3. Len(bytes) = 4 + Len(p)
    <3>. HIDE DEF c, p, bytes
    <3>1. Len(Joined(c, p)) = Len(c) + Len(p) BY <1>4, <1>5, OctetsJoined
    <3>. QED BY <1>4, <1>6, <3>1
  <2>4. Len(b) \in Nat /\ Len(p) \in Nat BY <1>5, OctetsJoined
  <2>. DEFINE next == Len(Before(blocks, i + 1))
              start == StartOf(values, i + 1)
  <2>5. start = IF i + 1 <= n THEN 4 + next ELSE Len(bytes) BY DEF StartOf
  <2>6. at = 4 + Len(b) BY <1>1 DEF StartOf
  <2>7. Len(b) + (6 + Len(v)) = IF i = n THEN Len(p) ELSE next BY <1>3, <2>1, <2>2
  <2>. HIDE DEF at, b, p, bytes, blocks, c, v, next, start, n
  <2>8. start = (at + 6) + Len(v) BY <1>1, <1>2, <2>3, <2>4, <2>5, <2>6, <2>7
  <2>. QED BY <2>8 DEF start
<1>9. /\ Slice(bytes, at, at + Len(x)) = x
      /\ Slice(bytes, at + Len(x), (at + Len(x)) + Len(y)) = y
      /\ Slice(bytes, (at + Len(x)) + Len(y), ((at + Len(x)) + Len(y)) + Len(v)) = v
  <2>1. bytes = Joined(c, Joined(b, Joined(Joined(x, Joined(y, v)), a))) BY <1>5, <1>6
  <2>. HIDE DEF at, b, p, bytes, c, v, a, x, y
  <2>2. at = Len(c) + Len(b) BY <1>7
  <2>. HIDE DEF c, b, x, y, v, a
  <2>3. InBlock(bytes, at, c, b, x, y, v, a) BY <1>4, <1>5, <2>1, <2>2 DEF InBlock
  <2>. QED BY <2>3, BlockSlices
<1>10. Small(x) = i - 1 /\ Small(y) = Len(v) BY <1>1, <1>2, SmallWritten
<1>. HIDE DEF at, b, p, bytes, c, v, a, x, y
<1>11. (at + 2) + 4 = at + 6 BY <1>7
<1>. QED BY <1>2, <1>4, <1>7, <1>8, <1>9, <1>10, <1>11 DEF at, bytes, v

(* start of FieldsRead                                                       *)
Starts(f, bytes, count) ==
  f = [i \in 1..(count + 1) |->
         IF i = 1 THEN 4 ELSE (f[i - 1] + 6) + Small(Slice(bytes, f[i - 1] + 2, (f[i - 1] + 2) + 4))]

(* The places of the fields are those that the reader reaches one after      *)
(* the other.                                                                *)
LEMMA StartsExists ==
  ASSUME NEW values \in Seq(Octets)
  PROVE  /\ StartOf(values, 1) = 4
         /\ \E f : Starts(f, FieldsText(values), Len(values))
         /\ \A f : Starts(f, FieldsText(values), Len(values)) => \A i \in 1..(Len(values) + 1) : f[i] = StartOf(values, i)
<1>. DEFINE n == Len(values)
            bytes == FieldsText(values)
            s(i) == StartOf(values, i)
            Step(x) == (x + 6) + Small(Slice(bytes, x + 2, (x + 2) + 4))
<1>1. n \in Nat BY SizedType
<1>2. s(1) = 4
  <2>. DEFINE blocks == Numbered(Sized(values))
              p == FlattenSeq(blocks)
  <2>1. Sized(values) \in Seq(Octets) /\ Len(Sized(values)) = n BY SizedType
  <2>2. blocks \in Seq(Octets) /\ Len(blocks) = n
    <3>. HIDE DEF n
    <3>. QED BY <2>1, NumberedType
  <2>3. CASE n = 0
    <3>1. blocks = <<>>
      <4>. HIDE DEF blocks, n
      <4>. QED BY <2>2, <2>3
    <3>2. p = <<>> BY <3>1, FlattenEmpty
    <3>3. bytes = Joined(U32(n), p) BY DEF FieldsText
    <3>4. U32(n) \in Octets /\ Len(U32(n)) = 4 BY <1>1, WidthsType
    <3>5. p \in Octets /\ Len(p) = 0
      <4>. HIDE DEF p
      <4>. QED BY <3>2 DEF Octets
    <3>6. Len(bytes) = 4
      <4>. DEFINE u == U32(n)
      <4>. HIDE DEF p, u, bytes
      <4>1. Len(Joined(u, p)) = Len(u) + Len(p) BY <3>4, <3>5, OctetsJoined DEF u
      <4>. QED BY <3>3, <3>4, <3>5, <4>1 DEF u
    <3>7. ~ (1 <= n) BY <2>3
    <3>. QED BY <3>6, <3>7 DEF StartOf
  <2>4. CASE n # 0
    <3>1. 1 <= n BY <1>1, <2>4
    <3>2. s(1) = 4 + Len(Before(blocks, 1)) BY <3>1 DEF StartOf
    <3>. HIDE DEF blocks, s
    <3>3. SubSeq(blocks, 1, 1 - 1) = <<>> BY <2>2
    <3>4. Before(blocks, 1) = <<>> BY <3>3, FlattenEmpty DEF Before
    <3>. QED BY <3>2, <3>4
  <2>. QED BY <2>3, <2>4
<1>3. ASSUME NEW i \in 1..n PROVE s(i) \in Nat /\ s(i + 1) = Step(s(i))
  <2>1. /\ s(i) \in Nat
        /\ Small(Slice(bytes, s(i) + 2, (s(i) + 2) + 4)) = Len(values[i])
        /\ s(i + 1) = (s(i) + 6) + Len(values[i])
    BY FieldAt
  <2>. HIDE DEF s, bytes
  <2>. QED BY <2>1
<1>. HIDE DEF s, Step, n
<1>4. \E f : Starts(f, bytes, n)
  <2>. DEFINE g == [i \in 1..(n + 1) |-> s(i)]
  <2>1. ASSUME NEW i \in 1..(n + 1) PROVE g[i] = IF i = 1 THEN 4 ELSE Step(g[i - 1])
    <3>1. CASE i = 1 BY <1>2, <3>1
    <3>2. CASE i # 1
      <4>1. i - 1 \in 1..n /\ i - 1 \in 1..(n + 1) /\ (i - 1) + 1 = i BY <1>1, <3>2
      <4>2. g[i] = s(i) /\ g[i - 1] = s(i - 1) BY <4>1
      <4>3. s((i - 1) + 1) = Step(s(i - 1)) BY <1>3, <4>1
      <4>. QED BY <3>2, <4>1, <4>2, <4>3
    <3>. QED BY <3>1, <3>2
  <2>2. g = [i \in 1..(n + 1) |-> IF i = 1 THEN 4 ELSE Step(g[i - 1])]
    <3>1. g = [i \in 1..(n + 1) |-> g[i]] OBVIOUS
    <3>. HIDE DEF g
    <3>. QED BY <2>1, <3>1
  <2>3. Starts(g, bytes, n)
    <3>. HIDE DEF g
    <3>. QED BY <2>2 DEF Starts, Step
  <2>. QED BY <2>3
<1>5. ASSUME NEW f, Starts(f, bytes, n) PROVE \A i \in 1..(n + 1) : f[i] = s(i)
  <2>1. \A i \in 1..(n + 1) : f[i] = IF i = 1 THEN 4 ELSE Step(f[i - 1]) BY <1>5 DEF Starts, Step
  <2>. DEFINE S == {k \in Nat : k <= n => f[k + 1] = s(k + 1)}
  <2>2. 0 \in S BY <1>1, <1>2, <2>1
  <2>3. ASSUME NEW k \in Nat, k \in S PROVE k + 1 \in S
    <3>1. SUFFICES ASSUME k + 1 <= n PROVE f[(k + 1) + 1] = s((k + 1) + 1) OBVIOUS
    <3>2. k + 1 \in 1..n /\ (k + 1) + 1 \in 1..(n + 1) /\ (k + 1) + 1 # 1 /\ ((k + 1) + 1) - 1 = k + 1 /\ k <= n
      BY <1>1, <3>1
    <3>3. f[k + 1] = s(k + 1) BY <2>3, <3>2
    <3>4. s((k + 1) + 1) = Step(s(k + 1)) BY <1>3, <3>2
    <3>5. f[(k + 1) + 1] = Step(f[k + 1]) BY <2>1, <3>2
    <3>. QED BY <3>3, <3>4, <3>5
  <2>4. Nat \subseteq S
    <3>. HIDE DEF S
    <3>. QED BY <2>2, <2>3, NaturalInduction
  <2>5. ASSUME NEW i \in 1..(n + 1) PROVE f[i] = s(i)
    <3>1. i - 1 \in Nat /\ i - 1 <= n /\ (i - 1) + 1 = i BY <1>1
    <3>2. i - 1 \in S BY <2>4, <3>1
    <3>. QED BY <3>1, <3>2
  <2>. QED BY <2>5
<1>. QED BY <1>2, <1>4, <1>5 DEF s, n

(* What a node reads of the fields is what was written, however many there   *)
(* are and however large.                                                    *)
LEMMA FieldsFound ==
  ASSUME NEW values \in Seq(Octets)
  PROVE  FieldsRead(FieldsText(values)) = Taken([i \in 1..Len(values) |-> <<i - 1, values[i]>>], <<>>)
<1>. DEFINE n == Len(values)
            bytes == FieldsText(values)
            count == Small(Slice(bytes, 0, 0 + 4))
            f == CHOOSE g : Starts(g, bytes, count)
<1>0. FieldsRead(bytes) =
        IF f[count + 1] # Len(bytes) THEN Thrown
        ELSE Taken([i \in 1..count |-> <<Small(Slice(bytes, f[i], f[i] + 2)), Slice(bytes, f[i] + 6, f[i + 1])>>], <<>>)
  BY DEF FieldsRead, Starts
<1>1. n \in Nat BY SizedType
<1>2. count = n
  <2>. DEFINE u == U32(n)
              p == FlattenSeq(Numbered(Sized(values)))
  <2>1. u \in Octets /\ Len(u) = 4 /\ Small(u) = n BY <1>1, WidthsType, SmallWritten
  <2>2. p \in Octets
    <3>1. Sized(values) \in Seq(Octets) BY SizedType
    <3>2. Numbered(Sized(values)) \in Seq(Octets) BY <3>1, NumberedType
    <3>. QED BY <3>2, FlattenType DEF Octets
  <2>3. bytes = u \o p BY DEF FieldsText, Joined
  <2>. HIDE DEF u, p, n, bytes
  <2>4. u \in Seq(Nat) /\ p \in Seq(Nat) BY <2>1, <2>2 DEF Octets
  <2>5. Slice(u \o p, 0, Len(u)) = u BY <2>4, SliceFirst
  <2>6. Slice(bytes, 0, 4) = u BY <2>1, <2>3, <2>5
  <2>7. 0 + 4 = 4 OBVIOUS
  <2>. QED BY <2>1, <2>6, <2>7
<1>. HIDE DEF count
<1>3. Starts(f, bytes, n) /\ \A i \in 1..(n + 1) : f[i] = StartOf(values, i)
  <2>1. \E g : Starts(g, bytes, count) BY <1>2, StartsExists
  <2>2. Starts(f, bytes, count) BY <2>1
  <2>. HIDE DEF f
  <2>3. Starts(f, bytes, n) BY <1>2, <2>2
  <2>. QED BY <2>3, StartsExists
<1>. HIDE DEF f
<1>4. FieldsRead(bytes) =
        IF f[n + 1] # Len(bytes) THEN Thrown
        ELSE Taken([i \in 1..n |-> <<Small(Slice(bytes, f[i], f[i] + 2)), Slice(bytes, f[i] + 6, f[i + 1])>>], <<>>)
  <2>. HIDE DEF n, bytes
  <2>. QED BY <1>0, <1>2
<1>5. f[n + 1] = Len(bytes)
  <2>1. StartOf(values, n + 1) = Len(bytes)
    <3>1. ~ (n + 1 <= n) BY <1>1
    <3>. QED BY <3>1 DEF StartOf
  <2>2. n + 1 \in 1..(n + 1) BY <1>1
  <2>. QED BY <1>3, <2>1, <2>2
<1>6. ASSUME NEW i \in 1..n
      PROVE  <<Small(Slice(bytes, f[i], f[i] + 2)), Slice(bytes, f[i] + 6, f[i + 1])>> = <<i - 1, values[i]>>
  <2>1. i \in 1..(n + 1) /\ i + 1 \in 1..(n + 1) BY <1>1
  <2>2. f[i] = StartOf(values, i) /\ f[i + 1] = StartOf(values, i + 1) BY <1>3, <2>1
  <2>3. /\ Small(Slice(bytes, f[i], f[i] + 2)) = i - 1
        /\ f[i + 1] = (f[i] + 6) + Len(values[i])
        /\ Slice(bytes, f[i] + 6, (f[i] + 6) + Len(values[i])) = values[i]
    BY <2>2, FieldAt
  <2>. HIDE DEF bytes, n
  <2>. QED BY <2>3
<1>7. [i \in 1..n |-> <<Small(Slice(bytes, f[i], f[i] + 2)), Slice(bytes, f[i] + 6, f[i + 1])>>]
        = [i \in 1..n |-> <<i - 1, values[i]>>]
  <2>. HIDE DEF bytes, n
  <2>. QED BY <1>6
<1>. QED BY <1>4, <1>5, <1>7

-----------------------------------------------------------------------------
(* Numbers and texts *)

(* A list over a set is one over every larger set.                           *)
LEMMA Widened == \A S, T : S \subseteq T => Seq(S) \subseteq Seq(T)
<1> SUFFICES ASSUME NEW S, NEW T, S \subseteq T, NEW s \in Seq(S) PROVE s \in Seq(T) OBVIOUS
<1>1. s = [i \in 1..Len(s) |-> s[i]] /\ Len(s) \in Nat /\ \A i \in 1..Len(s) : s[i] \in T OBVIOUS
<1>2. s \in [1..Len(s) -> T] BY <1>1
<1>. QED BY <1>1, <1>2

(* The bytes of a payload are numbers.                                       *)
LEMMA BytesType == Seq(Byte) \subseteq Octets
<1>1. Byte \subseteq Nat BY DEF Byte
<1>. QED BY <1>1, Widened DEF Octets

(* A number of zeros is a list of them.                                      *)
LEMMA ZerosType == \A n \in Int : Zeros(n) \in Seq(Nat) /\ Zeros(n) = [i \in 1..n |-> 0]
  BY DEF Zeros

(* Zeros on top do not count.                                                *)
LEMMA TopZeros ==
  ASSUME NEW d \in Seq(Nat), NEW n \in Int
  PROVE  WithoutTopZeros(d \o Zeros(n)) = WithoutTopZeros(d)
<1>. DEFINE s == d \o Zeros(n)
            top(u) == IF u = {} THEN 0 ELSE CHOOSE i \in u : \A j \in u : j <= i
            used(x) == {i \in DOMAIN x : x[i] # 0}
<1>1. s \in Seq(Nat) /\ Len(s) >= Len(d) /\ \A i \in 1..Len(s) : s[i] = IF i <= Len(d) THEN d[i] ELSE 0
  <2>. DEFINE z == Zeros(n)
  <2>0. z \in Seq(Nat) BY ZerosType
  <2>a. z = [i \in 1..n |-> 0] BY ZerosType
  <2>. HIDE DEF z
  <2>1. z \in Seq(Nat) /\ \A i \in 1..Len(z) : z[i] = 0
    <3>0. DOMAIN z = 1..Len(z) BY <2>0
    <3>1. DOMAIN z = 1..Len(z) /\ DOMAIN z = 1..n BY <2>a, <3>0
    <3>. QED BY <2>0, <2>a, <3>1
  <2>2. d \o z \in Seq(Nat) /\ Len(d \o z) = Len(d) + Len(z) /\ Len(z) \in Nat BY <2>1
  <2>3. \A i \in 1..Len(d \o z) : (d \o z)[i] = IF i <= Len(d) THEN d[i] ELSE 0 BY <2>1, <2>2
  <2>. QED BY <2>2, <2>3 DEF z
<1>. HIDE DEF s
<1>2. used(s) = used(d)
  <2>1. DOMAIN s = 1..Len(s) /\ DOMAIN d = 1..Len(d) /\ Len(d) \in Nat /\ Len(s) \in Nat BY <1>1
  <2>2. \A i : i \in used(s) <=> i \in used(d) BY <1>1, <2>1
  <2>. QED BY <2>2
<1>3. WithoutTopZeros(s) = SubSeq(s, 1, top(used(s))) /\ WithoutTopZeros(d) = SubSeq(d, 1, top(used(d)))
  BY DEF WithoutTopZeros
<1>4. top(used(d)) \in Nat /\ top(used(d)) <= Len(d)
  <2>1. CASE used(d) = {} BY <2>1
  <2>2. CASE used(d) # {}
    <3>. DEFINE S == used(d)
    <3>1. S # {} /\ Len(d) \in Nat /\ \A x \in S : x \in Nat /\ x <= Len(d) BY <2>2
    <3>2. \E i \in S : \A j \in S : j <= i
      <4>. DEFINE R == {m \in Nat : (\A j \in S : j <= m) => \E i \in S : \A j \in S : j <= i}
      <4>. HIDE DEF S
      <4>1. 0 \in R BY <3>1
      <4>2. ASSUME NEW m \in Nat, m \in R PROVE m + 1 \in R
        <5>1. CASE m + 1 \in S BY <5>1
        <5>2. CASE m + 1 \notin S
          <6>1. (\A j \in S : j <= m + 1) => \A j \in S : j <= m BY <3>1, <5>2
          <6>. QED BY <4>2, <6>1
        <5>. QED BY <5>1, <5>2
      <4>3. Nat \subseteq R
        <5>. HIDE DEF R
        <5>. QED BY <4>1, <4>2, NaturalInduction
      <4>. QED BY <3>1, <4>3
    <3>. DEFINE t == CHOOSE i \in S : \A j \in S : j <= i
    <3>3. t \in S BY <3>2
    <3>. QED BY <2>2, <3>1, <3>3
  <2>. QED BY <2>1, <2>2
<1>5. top(used(s)) = top(used(d))
  <2>. HIDE DEF top, used
  <2>. QED BY <1>2
<1>. DEFINE t == top(used(d))
<1>6. WithoutTopZeros(s) = SubSeq(s, 1, t) /\ WithoutTopZeros(d) = SubSeq(d, 1, t) BY <1>3, <1>5
<1>7. t \in Nat /\ t <= Len(d) BY <1>4
<1>. HIDE DEF t
<1>8. SubSeq(s, 1, t) = SubSeq(d, 1, t)
  <2>1. SubSeq(s, 1, t) = [i \in 1..t |-> s[i]] /\ SubSeq(d, 1, t) = [i \in 1..t |-> d[i]] BY <1>1, <1>7
  <2>2. ASSUME NEW i \in 1..t PROVE s[i] = d[i]
    <3>1. Len(s) \in Nat /\ Len(d) \in Nat /\ Len(s) >= Len(d) BY <1>1
    <3>2. i \in 1..Len(s) /\ i <= Len(d) BY <1>7, <3>1
    <3>. QED BY <1>1, <3>2
  <2>. QED BY <2>1, <2>2
<1>. QED BY <1>6, <1>8 DEF s

(* A number filled with zeros to eight bytes is the same number.             *)
LEMMA PaddedIs ==
  ASSUME NEW d \in Seq(Nat)
  PROVE  /\ Padded(d, 8) \in Octets
         /\ WithoutTopZeros(Padded(d, 8)) = WithoutTopZeros(d)
         /\ Len(d) <= 8 => Len(Padded(d, 8)) = 8
<1>1. 8 - Len(d) \in Int OBVIOUS
<1>2. Zeros(8 - Len(d)) \in Seq(Nat) BY <1>1, ZerosType
<1>3. Padded(d, 8) = d \o Zeros(8 - Len(d)) BY DEF Padded
<1>4. Len(d) <= 8 => Len(Zeros(8 - Len(d))) = 8 - Len(d) BY <1>1 DEF Zeros
<1>. DEFINE z == Zeros(8 - Len(d))
<1>5. WithoutTopZeros(d \o z) = WithoutTopZeros(d) BY <1>1, TopZeros
<1>. HIDE DEF z
<1>6. d \o z \in Seq(Nat) /\ Len(d \o z) = Len(d) + Len(z) /\ Len(d) \in Nat BY <1>2 DEF z
<1>7. Padded(d, 8) = d \o z /\ (Len(d) <= 8 => Len(z) = 8 - Len(d)) BY <1>3, <1>4 DEF z
<1>. DEFINE p == Padded(d, 8)
<1>8. p = d \o z BY <1>7
<1>. HIDE DEF p
<1>9. p \in Octets /\ WithoutTopZeros(p) = WithoutTopZeros(d) BY <1>5, <1>6, <1>8 DEF Octets
<1>10. Len(p) = Len(d) + Len(z) BY <1>6, <1>8
<1>11. Len(d) <= 8 => Len(p) = 8 BY <1>6, <1>7, <1>10
<1>. QED BY <1>9, <1>11 DEF p

(* A number of 64 bits takes eight bytes and is read back from them.         *)
LEMMA NumberPadded ==
  ASSUME NEW d \in Numbers64
  PROVE  Padded(d, 8) \in Octets /\ Len(Padded(d, 8)) = 8 /\ WithoutTopZeros(Padded(d, 8)) = d /\ d \in Octets
<1>1. d \in Seq(Byte) /\ Len(d) <= 8 /\ WithoutTopZeros(d) = d BY DEF Numbers64
<1>2. d \in Seq(Nat) BY <1>1, BytesType DEF Octets
<1>. QED BY <1>1, <1>2, PaddedIs DEF Octets

(* digits of Digits, up to k                                                 *)
DigitsBody(f, m) == IF m = 0 THEN <<>> ELSE <<m % 256>> \o f[m \div 256]
DigitsTo(f, k) == \A m \in 0..k : f[m] = DigitsBody(f, m)

(* Division by 256 makes a number smaller, and leaves a byte.                *)
LEMMA SmallerQuotient == \A m \in Nat \ {0} : m \div 256 \in Nat /\ m \div 256 < m /\ m % 256 \in 0..255
  OBVIOUS

(* The digits of the numbers up to a bound are determined by the             *)
(* recursion.                                                                *)
LEMMA DigitsUnique ==
  ASSUME NEW f, NEW g, NEW k \in Nat, NEW l \in Nat, DigitsTo(f, k), DigitsTo(g, l)
  PROVE  \A m \in Nat : m <= k /\ m <= l => f[m] = g[m]
<1>. DEFINE S == {b \in Nat : \A m \in 0..b : m <= k /\ m <= l => f[m] = g[m]}
<1>1. 0 \in S
  <2>0. 0 \in 0..k /\ 0 \in 0..l OBVIOUS
  <2>1. f[0] = g[0] BY <2>0 DEF DigitsTo, DigitsBody
  <2>. QED BY <2>1
<1>2. ASSUME NEW b \in Nat, b \in S PROVE b + 1 \in S
  <2>1. SUFFICES ASSUME b + 1 <= k, b + 1 <= l PROVE f[b + 1] = g[b + 1] BY <1>2
  <2>2. (b + 1) \div 256 \in Nat /\ (b + 1) \div 256 < b + 1 BY SmallerQuotient
  <2>. DEFINE q == (b + 1) \div 256
              r == (b + 1) % 256
  <2>3. f[b + 1] = <<r>> \o f[q] /\ g[b + 1] = <<r>> \o g[q]
    <3>1. b + 1 \in 0..k /\ b + 1 \in 0..l /\ b + 1 # 0 BY <2>1
    <3>2. f[b + 1] = DigitsBody(f, b + 1) /\ g[b + 1] = DigitsBody(g, b + 1) BY <3>1 DEF DigitsTo
    <3>. QED BY <3>1, <3>2 DEF DigitsBody
  <2>4. q \in 0..b /\ q <= k /\ q <= l
    <3>. HIDE DEF q
    <3>. QED BY <2>1, <2>2 DEF q
  <2>. HIDE DEF q, r
  <2>5. f[q] = g[q] BY <1>2, <2>4
  <2>. QED BY <2>3, <2>5
<1>3. Nat \subseteq S
  <2>. HIDE DEF S
  <2>. QED BY <1>1, <1>2, NaturalInduction
<1>4. ASSUME NEW m \in Nat, m <= k, m <= l PROVE f[m] = g[m]
  <2>1. m \in S /\ m \in 0..m BY <1>3
  <2>. QED BY <1>4, <2>1
<1>. QED BY <1>4

(* They exist up to every bound.                                             *)
LEMMA DigitsUpTo ==
  \A k \in Nat : \E f : DigitsTo(f, k)
<1>. DEFINE S == {k \in Nat : \E f : DigitsTo(f, k)}
<1>1. 0 \in S
  <2>. DEFINE f == [m \in Nat |-> <<>>]
  <2>1. DigitsTo(f, 0) BY DEF DigitsTo, DigitsBody
  <2>. QED BY <2>1
<1>2. ASSUME NEW k \in Nat, k \in S PROVE k + 1 \in S
  <2>1. PICK f : DigitsTo(f, k) BY <1>2
  <2>. DEFINE g == [m \in 0..(k + 1) |-> IF m = k + 1 THEN DigitsBody(f, m) ELSE f[m]]
  <2>2. ASSUME NEW m \in 0..(k + 1) PROVE g[m] = DigitsBody(g, m)
    <3>. DEFINE q == m \div 256
    <3>1. m # 0 => q \in 0..k
      <4>. HIDE DEF q
      <4>. QED BY SmallerQuotient DEF q
    <3>2. m # 0 => g[q] = f[q]
      <4>. HIDE DEF q
      <4>. QED BY <3>1
    <3>3. DigitsBody(g, m) = DigitsBody(f, m)
      <4>1. m # 0 => g[m \div 256] = f[m \div 256] BY <3>2
      <4>. HIDE DEF g
      <4>. QED BY <4>1 DEF DigitsBody
    <3>4. g[m] = DigitsBody(f, m)
      <4>1. CASE m = k + 1 BY <4>1
      <4>2. CASE m # k + 1
        <5>1. m \in 0..k BY <4>2
        <5>. QED BY <2>1, <4>2, <5>1 DEF DigitsTo
      <4>. QED BY <4>1, <4>2
    <3>. QED BY <3>3, <3>4
  <2>3. DigitsTo(g, k + 1)
    <3>. HIDE DEF g
    <3>. QED BY <2>2 DEF DigitsTo
  <2>. QED BY <2>3
<1>3. Nat \subseteq S
  <2>. HIDE DEF S
  <2>. QED BY <1>1, <1>2, NaturalInduction
<1>. QED BY <1>3

(* So the recursion that defines the digits of a number has the value it     *)
(* states.                                                                   *)
LEMMA DigitsIs ==
  \A n \in Nat : Digits(n) = IF n = 0 THEN <<>> ELSE <<n % 256>> \o Digits(n \div 256)
<1>. DEFINE F == [m \in Nat |-> (CHOOSE f : DigitsTo(f, m))[m]]
            d == CHOOSE g : g = [m \in Nat |-> IF m = 0 THEN <<>> ELSE <<m % 256>> \o g[m \div 256]]
<1>1. ASSUME NEW m \in Nat PROVE F[m] = IF m = 0 THEN <<>> ELSE <<m % 256>> \o F[m \div 256]
  <2>. DEFINE f == CHOOSE h : DigitsTo(h, m)
  <2>1. DigitsTo(f, m) BY DigitsUpTo
  <2>2. F[m] = f[m] OBVIOUS
  <2>. HIDE DEF f
  <2>3. f[m] = DigitsBody(f, m) BY <2>1 DEF DigitsTo
  <2>4. CASE m = 0 BY <2>2, <2>3, <2>4 DEF DigitsBody
  <2>5. CASE m # 0
    <3>. DEFINE q == m \div 256
    <3>1. q \in Nat /\ q <= m
      <4>. HIDE DEF q
      <4>. QED BY <2>5, SmallerQuotient DEF q
    <3>2. f[m] = <<m % 256>> \o f[q] BY <2>3, <2>5 DEF DigitsBody
    <3>. HIDE DEF q
    <3>. DEFINE h == CHOOSE x : DigitsTo(x, q)
    <3>3. DigitsTo(h, q) BY <3>1, DigitsUpTo
    <3>4. F[q] = h[q] BY <3>1
    <3>. HIDE DEF h, F
    <3>5. f[q] = h[q] BY <2>1, <3>1, <3>3, DigitsUnique
    <3>. QED BY <2>2, <2>5, <3>2, <3>4, <3>5 DEF q
  <2>. QED BY <2>4, <2>5
<1>2. F = [m \in Nat |-> IF m = 0 THEN <<>> ELSE <<m % 256>> \o F[m \div 256]]
  <2>1. F = [m \in Nat |-> F[m]] OBVIOUS
  <2>. HIDE DEF F
  <2>. QED BY <1>1, <2>1
<1>3. d = [m \in Nat |-> IF m = 0 THEN <<>> ELSE <<m % 256>> \o d[m \div 256]] BY <1>2
<1>4. \A n : Digits(n) = d[n] BY DEF Digits
<1>. HIDE DEF d
<1>5. ASSUME NEW n \in Nat PROVE Digits(n) = IF n = 0 THEN <<>> ELSE <<n % 256>> \o Digits(n \div 256)
  <2>1. d[n] = IF n = 0 THEN <<>> ELSE <<n % 256>> \o d[n \div 256] BY <1>3
  <2>. QED BY <1>4, <2>1
<1>. QED BY <1>5

(* The digits of a number are numbers.                                       *)
LEMMA DigitsType == \A n \in Nat : Digits(n) \in Seq(Nat)
<1>. DEFINE S == {b \in Nat : \A m \in 0..b : Digits(m) \in Seq(Nat)}
<1>1. 0 \in S
  <2>1. Digits(0) = <<>> BY DigitsIs
  <2>2. Digits(0) \in Seq(Nat) BY <2>1, EmptyList
  <2>3. \A m \in 0..0 : m = 0 OBVIOUS
  <2>. QED BY <2>2, <2>3
<1>2. ASSUME NEW b \in Nat, b \in S PROVE b + 1 \in S
  <2>1. SUFFICES Digits(b + 1) \in Seq(Nat) BY <1>2
  <2>. DEFINE m == b + 1
              q == m \div 256
              r == m % 256
  <2>2. q \in 0..b /\ r \in Nat
    <3>1. m \in Nat \ {0} OBVIOUS
    <3>. HIDE DEF m
    <3>2. q \in Nat /\ q < m /\ r \in 0..255 BY <3>1, SmallerQuotient
    <3>. HIDE DEF q, r
    <3>. QED BY <3>2 DEF m
  <2>3. Digits(m) = <<r>> \o Digits(q)
    <3>1. m \in Nat /\ m # 0 OBVIOUS
    <3>. HIDE DEF m
    <3>. QED BY <3>1, DigitsIs
  <2>. HIDE DEF m, q, r
  <2>4. Digits(q) \in Seq(Nat) BY <1>2, <2>2
  <2>5. <<r>> \in Seq(Nat) BY <2>2
  <2>. QED BY <2>3, <2>4, <2>5, ConcatType DEF m
<1>3. Nat \subseteq S
  <2>. HIDE DEF S
  <2>. QED BY <1>1, <1>2, NaturalInduction
<1>4. ASSUME NEW n \in Nat PROVE Digits(n) \in Seq(Nat)
  <2>1. n \in S /\ n \in 0..n BY <1>3
  <2>. QED BY <2>1
<1>. QED BY <1>4

-----------------------------------------------------------------------------
(* Durations *)

(* total of Total, up to n                                                   *)
TotalTo(f, s, n) == f = [i \in 0..n |-> IF i = 0 THEN 0 ELSE f[i - 1] + s[i]]

(* The sums of the first members of a list are a function.                   *)
LEMMA TotalExists == ASSUME NEW s PROVE \A n \in Nat : \E f : TotalTo(f, s, n)
<1>. DEFINE S == {n \in Nat : \E f : TotalTo(f, s, n)}
<1>1. 0 \in S
  <2>. DEFINE f == [i \in 0..0 |-> 0]
  <2>1. TotalTo(f, s, 0) BY DEF TotalTo
  <2>. QED BY <2>1
<1>2. ASSUME NEW n \in Nat, n \in S PROVE n + 1 \in S
  <2>1. PICK f : TotalTo(f, s, n) BY <1>2
  <2>2. \A i \in 0..n : f[i] = IF i = 0 THEN 0 ELSE f[i - 1] + s[i] BY <2>1 DEF TotalTo
  <2>. DEFINE g == [i \in 0..(n + 1) |-> IF i <= n THEN f[i] ELSE f[n] + s[i]]
  <2>3. ASSUME NEW i \in 0..(n + 1) PROVE g[i] = IF i = 0 THEN 0 ELSE g[i - 1] + s[i]
    <3>1. CASE i = 0 BY <2>2, <3>1
    <3>2. CASE i # 0 /\ i <= n
      <4>1. i - 1 \in 0..(n + 1) /\ i - 1 <= n /\ i \in 0..n BY <3>2
      <4>. QED BY <2>2, <3>2, <4>1
    <3>3. CASE i = n + 1
      <4>1. i - 1 = n /\ n \in 0..(n + 1) /\ ~ (i <= n) /\ i # 0 BY <3>3
      <4>. QED BY <4>1
    <3>. QED BY <3>1, <3>2, <3>3
  <2>4. g = [i \in 0..(n + 1) |-> IF i = 0 THEN 0 ELSE g[i - 1] + s[i]]
    <3>1. g = [i \in 0..(n + 1) |-> g[i]] OBVIOUS
    <3>. HIDE DEF g
    <3>. QED BY <2>3, <3>1
  <2>5. TotalTo(g, s, n + 1)
    <3>. HIDE DEF g
    <3>. QED BY <2>4 DEF TotalTo
  <2>. QED BY <2>5
<1>3. Nat \subseteq S
  <2>. HIDE DEF S
  <2>. QED BY <1>1, <1>2, NaturalInduction
<1>. QED BY <1>3

(* The total of a list is the last of these sums.                            *)
LEMMA TotalIs ==
  ASSUME NEW s, Len(s) \in Nat
  PROVE  \E f : TotalTo(f, s, Len(s)) /\ Total(s) = f[Len(s)]
<1>. DEFINE f == CHOOSE g : TotalTo(g, s, Len(s))
<1>1. Total(s) = f[Len(s)] BY DEF Total, TotalTo
<1>2. TotalTo(f, s, Len(s)) BY TotalExists
<1>. QED BY <1>1, <1>2

(* The sum of a list and one number more.                                    *)
LEMMA TotalAppend ==
  ASSUME NEW s \in Seq(Int), NEW x \in Int
  PROVE  Total(Append(s, x)) = Total(s) + x
<1>. DEFINE t == Append(s, x)
            n == Len(s)
<1>1. n \in Nat /\ Len(t) = n + 1 /\ t[n + 1] = x /\ \A i \in 1..n : t[i] = s[i] OBVIOUS
<1>. HIDE DEF t, n
<1>2. PICK f : TotalTo(f, s, n) /\ Total(s) = f[n] BY <1>1, TotalIs DEF n
<1>3. PICK g : TotalTo(g, t, n + 1) /\ Total(t) = g[n + 1] BY <1>1, TotalIs
<1>4. \A i \in 0..n : f[i] = IF i = 0 THEN 0 ELSE f[i - 1] + s[i] BY <1>2 DEF TotalTo
<1>5. \A i \in 0..(n + 1) : g[i] = IF i = 0 THEN 0 ELSE g[i - 1] + t[i] BY <1>3 DEF TotalTo
<1>. DEFINE S == {i \in Nat : i <= n => g[i] = f[i]}
<1>6. 0 \in S BY <1>1, <1>4, <1>5
<1>7. ASSUME NEW i \in Nat, i \in S PROVE i + 1 \in S
  <2>1. SUFFICES ASSUME i + 1 <= n PROVE g[i + 1] = f[i + 1] OBVIOUS
  <2>2. i + 1 \in 0..n /\ i + 1 \in 0..(n + 1) /\ i + 1 \in 1..n /\ (i + 1) - 1 = i /\ i + 1 # 0 /\ i <= n BY <1>1, <2>1
  <2>3. g[i] = f[i] BY <1>7, <2>2
  <2>4. f[i + 1] = f[i] + s[i + 1] BY <1>4, <2>2
  <2>5. g[i + 1] = g[i] + t[i + 1] BY <1>5, <2>2
  <2>. QED BY <1>1, <2>2, <2>3, <2>4, <2>5
<1>8. Nat \subseteq S
  <2>. HIDE DEF S
  <2>. QED BY <1>6, <1>7, NaturalInduction
<1>9. g[n] = f[n] BY <1>1, <1>8
<1>10. g[n + 1] = g[n] + t[n + 1]
  <2>1. n + 1 \in 0..(n + 1) /\ n + 1 # 0 /\ (n + 1) - 1 = n BY <1>1
  <2>. QED BY <1>5, <2>1
<1>. QED BY <1>1, <1>2, <1>3, <1>9, <1>10 DEF t

(* The total of nothing is zero.                                             *)
LEMMA TotalEmpty == \A e : e = <<>> => Total(e) = 0
<1>. SUFFICES ASSUME NEW e, e = <<>> PROVE Total(e) = 0 OBVIOUS
<1>1. Len(e) = 0 OBVIOUS
<1>2. PICK f : TotalTo(f, e, 0) /\ Total(e) = f[0] BY <1>1, TotalIs
<1>. QED BY <1>2 DEF TotalTo

(* The total of whole numbers is a whole number.                             *)
LEMMA TotalType == \A s \in Seq(Int) : Total(s) \in Int
<1>. DEFINE P == {s \in Seq(Int) : Total(s) \in Int}
<1>1. \A e \in Seq(Int) : e = <<>> => e \in P BY TotalEmpty
<1>2. \A s \in Seq(Int), x \in Int : s \in P => Append(s, x) \in P
  <2>1. SUFFICES ASSUME NEW s \in Seq(Int), NEW x \in Int, s \in P PROVE Append(s, x) \in P OBVIOUS
  <2>2. Total(Append(s, x)) = Total(s) + x BY TotalAppend
  <2>3. Append(s, x) \in Seq(Int) OBVIOUS
  <2>. QED BY <2>1, <2>2, <2>3
<1>3. Seq(Int) \subseteq P
  <2>. HIDE DEF P
  <2>. QED BY <1>1, <1>2, SequenceInduction
<1>. QED BY <1>3

(* What the pieces of a text come to, each read by v.                        *)
Sum(v, text) == Total([i \in DOMAIN text |-> v[text[i]]])

(* A text of no pieces is worth nothing.                                     *)
LEMMA SumEmpty == \A v, e : e = <<>> => Sum(v, e) = 0
<1>. SUFFICES ASSUME NEW v, NEW e, e = <<>> PROVE Sum(v, e) = 0 OBVIOUS
<1>1. [i \in DOMAIN e |-> v[e[i]]] = <<>> OBVIOUS
<1>. QED BY <1>1, TotalEmpty DEF Sum

(* A piece more adds its value to that of the text.                          *)
LEMMA SumAppend ==
  ASSUME NEW T, NEW v \in [T -> Int], NEW text \in Seq(T), NEW p \in T
  PROVE  Sum(v, Append(text, p)) = Sum(v, text) + v[p] /\ Sum(v, text) \in Int
<1>. DEFINE s == [i \in DOMAIN text |-> v[text[i]]]
            t == Append(text, p)
            u == [i \in DOMAIN t |-> v[t[i]]]
            n == Len(text)
<1>1. n \in Nat /\ DOMAIN text = 1..n /\ \A i \in 1..n : text[i] \in T OBVIOUS
<1>2. s \in Seq(Int) /\ Len(s) = n /\ \A i \in 1..n : s[i] = v[text[i]] BY <1>1
<1>3. DOMAIN t = 1..(n + 1) /\ t[n + 1] = p /\ \A i \in 1..n : t[i] = text[i] OBVIOUS
<1>4. v[p] \in Int OBVIOUS
<1>5. u = Append(s, v[p])
  <2>. DEFINE w == Append(s, v[p])
  <2>1. w \in Seq(Int) /\ Len(w) = n + 1 /\ w[n + 1] = v[p] /\ \A i \in 1..n : w[i] = s[i]
    <3>. HIDE DEF s, n
    <3>. QED BY <1>2, <1>4
  <2>. HIDE DEF s, t, n, w
  <2>2. w = [i \in 1..(n + 1) |-> w[i]] BY <1>1, <2>1
  <2>3. \A i \in 1..(n + 1) : i \in 1..n \/ i = n + 1 BY <1>1
  <2>4. \A i \in 1..(n + 1) : u[i] = w[i] BY <1>2, <1>3, <2>1, <2>3
  <2>5. u = [i \in 1..(n + 1) |-> u[i]] BY <1>3
  <2>. HIDE DEF u
  <2>6. u = w BY <2>2, <2>4, <2>5
  <2>. QED BY <2>6 DEF w
<1>6. Sum(v, t) = Total(u) /\ Sum(v, text) = Total(s) BY DEF Sum
<1>. HIDE DEF s, t, u, n
<1>7. Total(Append(s, v[p])) = Total(s) + v[p] BY <1>2, <1>4, TotalAppend
<1>8. Total(s) \in Int BY <1>2, TotalType
<1>. QED BY <1>5, <1>6, <1>7, <1>8 DEF t

(* A piece is shown if it counts something.                                  *)
Shown(text, p) == text \o (IF p[1] > 0 THEN <<p>> ELSE <<>>)

Words7 == {"undefined", "day", "days", "h", "m", "s", "ms"}
Piece == Nat \X Words7

Worth(v, p) == IF p[1] > 0 THEN v[p] ELSE 0

Has(text, p) == \E i \in DOMAIN text : text[i] = p

(* A piece is shown if it is not zero; shown or not, it adds what it is      *)
(* worth.                                                                    *)
LEMMA ShownAdds ==
  ASSUME NEW v \in [Piece -> Int], NEW text \in Seq(Piece), NEW p \in Piece
  PROVE  /\ Shown(text, p) \in Seq(Piece)
         /\ Sum(v, Shown(text, p)) = Sum(v, text) + Worth(v, p)
         /\ Sum(v, text) \in Int
         /\ \A q : Has(Shown(text, p), q) <=> Has(text, q) \/ (p[1] > 0 /\ q = p)
<1>0. p[1] \in Nat BY DEF Piece
<1>1. CASE p[1] > 0
  <2>1. Shown(text, p) = Append(text, p)
    <3>1. text \o <<p>> = Append(text, p) OBVIOUS
    <3>. QED BY <1>1, <3>1 DEF Shown
  <2>2. Sum(v, Append(text, p)) = Sum(v, text) + v[p] /\ Sum(v, text) \in Int BY SumAppend
  <2>3. LET t == Append(text, p)
        IN  /\ t \in Seq(Piece) /\ DOMAIN t = DOMAIN text \cup {Len(text) + 1}
            /\ Len(text) + 1 \notin DOMAIN text /\ t[Len(text) + 1] = p
            /\ \A i \in DOMAIN text : t[i] = text[i]
    BY Appended
  <2>. DEFINE t == Append(text, p)
  <2>. HIDE DEF t
  <2>4. \A q : Has(t, q) <=> Has(text, q) \/ q = p BY <2>3 DEF t, Has
  <2>5. Shown(text, p) = t BY <2>1 DEF t
  <2>6. t \in Seq(Piece) /\ Sum(v, t) = Sum(v, text) + v[p] BY <2>2, <2>3 DEF t
  <2>. QED BY <1>1, <2>2, <2>4, <2>5, <2>6 DEF Worth
<1>2. CASE ~ (p[1] > 0)
  <2>1. Shown(text, p) = text
    <3>1. text \o <<>> = text OBVIOUS
    <3>. QED BY <1>2, <3>1 DEF Shown
  <2>2. Sum(v, text) \in Int BY SumAppend
  <2>. QED BY <1>2, <2>1, <2>2 DEF Worth
<1>. QED BY <1>1, <1>2

Part(p) == IF p[1] > 0 THEN <<p>> ELSE <<>>

(* A list that agrees with another and has one member more is that list      *)
(* with the member appended.                                                 *)
LEMMA AppendIs ==
  ASSUME NEW T, NEW s \in Seq(T), NEW x \in T, NEW t \in Seq(T), Len(t) = Len(s) + 1, t[Len(s) + 1] = x,
         \A i \in 1..Len(s) : t[i] = s[i]
  PROVE  Append(s, x) = t
<1>. DEFINE u == Append(s, x)
            n == Len(s)
<1>1. u \in Seq(T) /\ Len(u) = n + 1 /\ u[n + 1] = x /\ \A i \in 1..n : u[i] = s[i] OBVIOUS
<1>2. n \in Nat /\ \A i \in 1..(n + 1) : i \in 1..n \/ i = n + 1 OBVIOUS
<1>. HIDE DEF u
<1>3. \A i \in 1..(n + 1) : u[i] = t[i] BY <1>1, <1>2
<1>4. u = [i \in 1..(n + 1) |-> u[i]] /\ t = [i \in 1..(n + 1) |-> t[i]] BY <1>1
<1>5. u = t BY <1>3, <1>4
<1>. QED BY <1>5 DEF u

(* Five members appended one after the other.                                *)
LEMMA AppendFive ==
  ASSUME NEW a, NEW b, NEW c, NEW d, NEW e
  PROVE  Append(Append(Append(Append(Append(<<>>, a), b), c), d), e) = <<a, b, c, d, e>>
<1>. DEFINE T == {a, b, c, d, e}
<1>0. a \in T /\ b \in T /\ c \in T /\ d \in T /\ e \in T OBVIOUS
<1>1. Append(<<>>, a) = <<a>> OBVIOUS
<1>2. Append(<<a>>, b) = <<a, b>>
  <2>. DEFINE s == <<a>>
              t == <<a, b>>
  <2>1. s \in Seq(T) /\ Len(s) = 1 OBVIOUS
  <2>2. t \in Seq(T) /\ Len(t) = 2 /\ t[2] = b OBVIOUS
  <2>3. \A i \in 1..1 : t[i] = s[i]
    <3>1. t[1] = s[1] OBVIOUS
    <3>2. \A i \in 1..1 : i = 1 OBVIOUS
    <3>. HIDE DEF s, t
    <3>. QED BY <3>1, <3>2
  <2>. HIDE DEF s, t, T
  <2>4. Len(t) = Len(s) + 1 /\ t[Len(s) + 1] = b /\ \A i \in 1..Len(s) : t[i] = s[i] BY <2>1, <2>2, <2>3
  <2>5. Append(s, b) = t BY <1>0, <2>1, <2>2, <2>4, AppendIs
  <2>. QED BY <2>5 DEF s, t
<1>3. Append(<<a, b>>, c) = <<a, b, c>>
  <2>. DEFINE s == <<a, b>>
              t == <<a, b, c>>
  <2>1. s \in Seq(T) /\ Len(s) = 2 OBVIOUS
  <2>2. t \in Seq(T) /\ Len(t) = 3 /\ t[3] = c OBVIOUS
  <2>3. \A i \in 1..2 : t[i] = s[i]
    <3>1. t[1] = s[1] /\ t[2] = s[2] OBVIOUS
    <3>2. \A i \in 1..2 : i = 1 \/ i = 2 OBVIOUS
    <3>. HIDE DEF s, t
    <3>. QED BY <3>1, <3>2
  <2>. HIDE DEF s, t, T
  <2>4. Len(t) = Len(s) + 1 /\ t[Len(s) + 1] = c /\ \A i \in 1..Len(s) : t[i] = s[i] BY <2>1, <2>2, <2>3
  <2>5. Append(s, c) = t BY <1>0, <2>1, <2>2, <2>4, AppendIs
  <2>. QED BY <2>5 DEF s, t
<1>4. Append(<<a, b, c>>, d) = <<a, b, c, d>>
  <2>. DEFINE s == <<a, b, c>>
              t == <<a, b, c, d>>
  <2>1. s \in Seq(T) /\ Len(s) = 3 OBVIOUS
  <2>2. t \in Seq(T) /\ Len(t) = 4 /\ t[4] = d OBVIOUS
  <2>3. \A i \in 1..3 : t[i] = s[i]
    <3>1. t[1] = s[1] /\ t[2] = s[2] /\ t[3] = s[3] OBVIOUS
    <3>2. \A i \in 1..3 : i = 1 \/ i = 2 \/ i = 3 OBVIOUS
    <3>. HIDE DEF s, t
    <3>. QED BY <3>1, <3>2
  <2>. HIDE DEF s, t, T
  <2>4. Len(t) = Len(s) + 1 /\ t[Len(s) + 1] = d /\ \A i \in 1..Len(s) : t[i] = s[i] BY <2>1, <2>2, <2>3
  <2>5. Append(s, d) = t BY <1>0, <2>1, <2>2, <2>4, AppendIs
  <2>. QED BY <2>5 DEF s, t
<1>5. Append(<<a, b, c, d>>, e) = <<a, b, c, d, e>>
  <2>. DEFINE s == <<a, b, c, d>>
              t == <<a, b, c, d, e>>
  <2>1. s \in Seq(T) /\ Len(s) = 4 OBVIOUS
  <2>2. t \in Seq(T) /\ Len(t) = 5 /\ t[5] = e OBVIOUS
  <2>3. \A i \in 1..4 : t[i] = s[i]
    <3>1. t[1] = s[1] /\ t[2] = s[2] /\ t[3] = s[3] /\ t[4] = s[4] OBVIOUS
    <3>2. \A i \in 1..4 : i = 1 \/ i = 2 \/ i = 3 \/ i = 4 OBVIOUS
    <3>. HIDE DEF s, t
    <3>. QED BY <3>1, <3>2
  <2>. HIDE DEF s, t, T
  <2>4. Len(t) = Len(s) + 1 /\ t[Len(s) + 1] = e /\ \A i \in 1..Len(s) : t[i] = s[i] BY <2>1, <2>2, <2>3
  <2>5. Append(s, e) = t BY <1>0, <2>1, <2>2, <2>4, AppendIs
  <2>. QED BY <2>5 DEF s, t
<1>. QED BY <1>1, <1>2, <1>3, <1>4, <1>5

(* Flattening adds the pieces that are shown.                                *)
LEMMA ShownNext ==
  ASSUME NEW ss \in Seq(Seq(Piece)), NEW p \in Piece
  PROVE  /\ Append(ss, Part(p)) \in Seq(Seq(Piece))
         /\ FlattenSeq(Append(ss, Part(p))) = Shown(FlattenSeq(ss), p)
<1>. DEFINE a == Part(p)
<1>1. a \in Seq(Piece) BY DEF Part
<1>2. Shown(FlattenSeq(ss), p) = FlattenSeq(ss) \o a BY DEF Shown, Part
<1>. HIDE DEF a
<1>3. FlattenSeq(Append(ss, a)) = FlattenSeq(ss) \o a BY <1>1, FlattenAppend
<1>4. Append(ss, a) \in Seq(Seq(Piece)) BY <1>1
<1>. QED BY <1>2, <1>3, <1>4 DEF a

FiveShown(p, q, r, s, t) == Shown(Shown(Shown(Shown(Shown(<<>>, p), q), r), s), t)

(* What five pieces come to, and which of them are shown.                    *)
LEMMA FiveAre ==
  ASSUME NEW v \in [Piece -> Int],
         NEW p \in Piece, NEW q \in Piece, NEW r \in Piece, NEW s \in Piece, NEW t \in Piece
  PROVE  LET text == FiveShown(p, q, r, s, t)
         IN  /\ text \in Seq(Piece)
             /\ Sum(v, text) = Worth(v, p) + Worth(v, q) + Worth(v, r) + Worth(v, s) + Worth(v, t)
             /\ \A x : Has(text, x) <=> x[1] > 0 /\ x \in {p, q, r, s, t}
<1>. DEFINE none == <<>>
            a == Shown(none, p)
            b == Shown(a, q)
            c == Shown(b, r)
            d == Shown(c, s)
            e == Shown(d, t)
<1>0. none \in Seq(Piece) /\ Sum(v, none) = 0 /\ \A x : ~ Has(none, x) BY SumEmpty DEF Has
<1>. HIDE DEF none
<1>1. /\ a \in Seq(Piece) /\ Sum(v, a) = Sum(v, none) + Worth(v, p)
      /\ \A x : Has(a, x) <=> Has(none, x) \/ (p[1] > 0 /\ x = p)
  BY <1>0, ShownAdds
<1>. HIDE DEF a
<1>2. /\ b \in Seq(Piece) /\ Sum(v, b) = Sum(v, a) + Worth(v, q)
      /\ \A x : Has(b, x) <=> Has(a, x) \/ (q[1] > 0 /\ x = q)
  BY <1>1, ShownAdds
<1>. HIDE DEF b
<1>3. /\ c \in Seq(Piece) /\ Sum(v, c) = Sum(v, b) + Worth(v, r)
      /\ \A x : Has(c, x) <=> Has(b, x) \/ (r[1] > 0 /\ x = r)
  BY <1>2, ShownAdds
<1>. HIDE DEF c
<1>4. /\ d \in Seq(Piece) /\ Sum(v, d) = Sum(v, c) + Worth(v, s)
      /\ \A x : Has(d, x) <=> Has(c, x) \/ (s[1] > 0 /\ x = s)
  BY <1>3, ShownAdds
<1>. HIDE DEF d
<1>5. /\ e \in Seq(Piece) /\ Sum(v, e) = Sum(v, d) + Worth(v, t)
      /\ \A x : Has(e, x) <=> Has(d, x) \/ (t[1] > 0 /\ x = t)
  BY <1>4, ShownAdds
<1>6. FiveShown(p, q, r, s, t) = e BY DEF FiveShown, a, b, c, d, none
<1>. HIDE DEF e
<1>7. Worth(v, p) \in Int /\ Worth(v, q) \in Int /\ Worth(v, r) \in Int /\ Worth(v, s) \in Int /\ Worth(v, t) \in Int
  BY DEF Worth
<1>8. Sum(v, e) = Worth(v, p) + Worth(v, q) + Worth(v, r) + Worth(v, s) + Worth(v, t)
  BY <1>0, <1>1, <1>2, <1>3, <1>4, <1>5, <1>7
<1>9. \A x : Has(e, x) <=> x[1] > 0 /\ x \in {p, q, r, s, t} BY <1>0, <1>1, <1>2, <1>3, <1>4, <1>5
<1>. QED BY <1>5, <1>6, <1>8, <1>9

CountOf(n, u) == (IF u[1] = 0 THEN n ELSE n % u[1]) \div u[2]
PieceOf(n, u) == <<CountOf(n, u), u[3]>>

(* A duration of five units shows those of them that are not zero, or 0      *)
(* seconds if all are.                                                       *)
LEMMA PiecesFive ==
  ASSUME NEW n, NEW u1, NEW u2, NEW u3, NEW u4, NEW u5,
         PieceOf(n, u1) \in Piece, PieceOf(n, u2) \in Piece, PieceOf(n, u3) \in Piece,
         PieceOf(n, u4) \in Piece, PieceOf(n, u5) \in Piece
  PROVE  LET shown == FiveShown(PieceOf(n, u1), PieceOf(n, u2), PieceOf(n, u3), PieceOf(n, u4), PieceOf(n, u5))
         IN  Pieces(n, <<u1, u2, u3, u4, u5>>) = IF shown = <<>> THEN <<<<0, "s">>>> ELSE shown
<1>. DEFINE units == <<u1, u2, u3, u4, u5>>
            One(u) == IF CountOf(n, u) > 0 THEN <<<<CountOf(n, u), u[3]>>>> ELSE <<>>
            shown == FlattenSeq([i \in DOMAIN units |-> One(units[i])])
<1>1. Pieces(n, units) = IF shown = <<>> THEN <<<<0, "s">>>> ELSE shown BY DEF Pieces, CountOf
<1>2. [i \in DOMAIN units |-> One(units[i])] = <<One(u1), One(u2), One(u3), One(u4), One(u5)>>
  <2>. HIDE DEF One
  <2>. QED OBVIOUS
<1>3. ASSUME NEW u PROVE One(u) = Part(PieceOf(n, u)) BY DEF PieceOf, Part
<1>. HIDE DEF One
<1>. DEFINE p1 == PieceOf(n, u1)
            p2 == PieceOf(n, u2)
            p3 == PieceOf(n, u3)
            p4 == PieceOf(n, u4)
            p5 == PieceOf(n, u5)
            none == <<>>
            s1 == Append(none, Part(p1))
            s2 == Append(s1, Part(p2))
            s3 == Append(s2, Part(p3))
            s4 == Append(s3, Part(p4))
            s5 == Append(s4, Part(p5))
<1>4. shown = FlattenSeq(s5)
  <2>1. <<One(u1), One(u2), One(u3), One(u4), One(u5)>> = <<Part(p1), Part(p2), Part(p3), Part(p4), Part(p5)>>
    BY <1>3
  <2>. HIDE DEF p1, p2, p3, p4, p5
  <2>2. s5 = <<Part(p1), Part(p2), Part(p3), Part(p4), Part(p5)>> BY AppendFive
  <2>. HIDE DEF s5
  <2>. QED BY <1>2, <2>1, <2>2, Zenon
<1>5. none \in Seq(Seq(Piece)) /\ FlattenSeq(none) = none BY FlattenEmpty
<1>6. p1 \in Piece /\ p2 \in Piece /\ p3 \in Piece /\ p4 \in Piece /\ p5 \in Piece OBVIOUS
<1>. HIDE DEF none, p1, p2, p3, p4, p5
<1>7. s1 \in Seq(Seq(Piece)) /\ FlattenSeq(s1) = Shown(none, p1) BY <1>5, <1>6, ShownNext
<1>. HIDE DEF s1
<1>8. s2 \in Seq(Seq(Piece)) /\ FlattenSeq(s2) = Shown(Shown(none, p1), p2) BY <1>6, <1>7, ShownNext
<1>. HIDE DEF s2
<1>9. s3 \in Seq(Seq(Piece)) /\ FlattenSeq(s3) = Shown(Shown(Shown(none, p1), p2), p3) BY <1>6, <1>8, ShownNext
<1>. HIDE DEF s3
<1>10. s4 \in Seq(Seq(Piece)) /\ FlattenSeq(s4) = Shown(Shown(Shown(Shown(none, p1), p2), p3), p4)
  BY <1>6, <1>9, ShownNext
<1>. HIDE DEF s4
<1>11. FlattenSeq(s5) = FiveShown(p1, p2, p3, p4, p5) BY <1>6, <1>10, ShownNext DEF FiveShown, none
<1>. HIDE DEF shown, s5
<1>. QED BY <1>1, <1>4, <1>11 DEF p1, p2, p3, p4, p5

(* What the units of a duration amount to, one after the other.              *)
LEMMA Division ==
  ASSUME NEW n \in Nat
  PROVE  /\ n \div Week \in Nat /\ n % Week \in Nat /\ (n < Week => n \div Week = 0 /\ n % Week = n)
         /\ (n >= Week => n \div Week > 0)
         /\ (n % Week) \div Day \in Nat /\ n \div Day \in Nat
         /\ (n % Day) \div Hour \in Nat /\ n % Day \in Nat /\ n = (n \div Day) * Day + (n % Day)
         /\ (n % Hour) \div Minute \in Nat /\ n % Hour \in Nat /\ n % Day = ((n % Day) \div Hour) * Hour + (n % Hour)
         /\ n % Minute \in Nat /\ n % Minute < Minute /\ n % Hour = ((n % Hour) \div Minute) * Minute + (n % Minute)
         /\ (n % Minute) \div 1 = n % Minute
         /\ (n % Minute) \div 1000 \in Nat /\ n % 1000 \in Nat /\ (n % 1000) \div 1 = n % 1000
         /\ n % Minute = ((n % Minute) \div 1000) * 1000 + (n % 1000)
<1>1. n \div Week \in Nat /\ n % Week \in Nat /\ (n < Week => n \div Week = 0 /\ n % Week = n) /\ (n >= Week => n \div Week > 0)
  BY SMT DEF Week
<1>2. (n % Week) \div Day \in Nat /\ n \div Day \in Nat BY SMT DEF Week, Day
<1>3. (n % Day) \div Hour \in Nat /\ n % Day \in Nat /\ n = (n \div Day) * Day + (n % Day) BY SMT DEF Day, Hour
<1>4. (n % Hour) \div Minute \in Nat /\ n % Hour \in Nat BY SMT DEF Minute, Hour
<1>5. n % Day = ((n % Day) \div Hour) * Hour + (n % Hour) BY SMT DEF Day, Hour
<1>6. n % Minute \in Nat /\ n % Minute < Minute /\ (n % Minute) \div 1 = n % Minute BY SMT DEF Minute
<1>7. n % Hour = ((n % Hour) \div Minute) * Minute + (n % Minute) BY SMT DEF Minute, Hour
<1>8. (n % Minute) \div 1000 \in Nat /\ n % 1000 \in Nat /\ (n % 1000) \div 1 = n % 1000 BY SMT DEF Minute
<1>9. n % Minute = ((n % Minute) \div 1000) * 1000 + (n % 1000) BY SMT DEF Minute
<1>. QED BY <1>1, <1>2, <1>3, <1>4, <1>5, <1>6, <1>7, <1>8, <1>9

(* The text of five counts, "0s" when none is shown.                         *)
FiveText(p, q, r, s, t) == IF FiveShown(p, q, r, s, t) = <<>> THEN <<<<0, "s">>>> ELSE FiveShown(p, q, r, s, t)

(* The text of a duration is worth what its pieces are worth, and shows no   *)
(* piece of zero but "0s".                                                   *)
LEMMA TextOf ==
  ASSUME NEW v \in [Piece -> Int], v[<<0, "s">>] = 0,
         NEW p \in Piece, NEW q \in Piece, NEW r \in Piece, NEW s \in Piece, NEW t \in Piece
  PROVE  LET text == FiveText(p, q, r, s, t)
         IN  /\ text \in Seq(Piece) /\ text # <<>>
             /\ Sum(v, text) = Worth(v, p) + Worth(v, q) + Worth(v, r) + Worth(v, s) + Worth(v, t)
             /\ \A x : Has(text, x) => x = <<0, "s">> \/ (x[1] > 0 /\ x \in {p, q, r, s, t})
             /\ \A x \in {p, q, r, s, t} : x[1] > 0 => Has(text, x)
<1>. DEFINE shown == FiveShown(p, q, r, s, t)
            zero == <<0, "s">>
            w == Worth(v, p) + Worth(v, q) + Worth(v, r) + Worth(v, s) + Worth(v, t)
<1>1. /\ shown \in Seq(Piece) /\ Sum(v, shown) = w
      /\ \A x : Has(shown, x) <=> x[1] > 0 /\ x \in {p, q, r, s, t}
  BY FiveAre
<1>4. FiveText(p, q, r, s, t) = IF shown = <<>> THEN <<zero>> ELSE shown BY DEF FiveText
<1>. HIDE DEF shown, w
<1>2. CASE shown # <<>>
  <2>1. FiveText(p, q, r, s, t) = shown BY <1>2, <1>4
  <2>. DEFINE text == FiveText(p, q, r, s, t)
  <2>2. text \in Seq(Piece) /\ text # <<>> /\ Sum(v, text) = w BY <1>1, <1>2, <2>1
  <2>3. \A x : Has(text, x) <=> x[1] > 0 /\ x \in {p, q, r, s, t} BY <1>1, <2>1
  <2>. HIDE DEF text
  <2>4. \A x : Has(text, x) => x = <<0, "s">> \/ (x[1] > 0 /\ x \in {p, q, r, s, t}) BY <2>3
  <2>5. \A x \in {p, q, r, s, t} : x[1] > 0 => Has(text, x) BY <2>3
  <2>. QED BY <2>2, <2>4, <2>5 DEF w, text
<1>3. CASE shown = <<>>
  <2>. DEFINE text == <<zero>>
  <2>1. zero \in Piece BY DEF Piece, Words7
  <2>2. text \in Seq(Piece) /\ text # <<>> /\ \A x : Has(text, x) => x = zero
    <3>. HIDE DEF zero
    <3>. QED BY <2>1 DEF Has
  <2>3. Sum(v, text) = 0
    <3>. DEFINE none == <<>>
    <3>1. none \in Seq(Piece) /\ Sum(v, none) = 0 /\ Append(none, zero) = text BY SumEmpty
    <3>. HIDE DEF none, text
    <3>2. Sum(v, Append(none, zero)) = Sum(v, none) + v[zero] BY <2>1, <3>1, SumAppend
    <3>3. v[zero] = 0 OBVIOUS
    <3>. HIDE DEF zero
    <3>. QED BY <3>1, <3>2, <3>3
  <2>4. w = 0 BY <1>1, <1>3, SumEmpty
  <2>5. \A x \in {p, q, r, s, t} : ~ (x[1] > 0)
    <3>1. \A x : ~ Has(shown, x) BY <1>3 DEF Has
    <3>. QED BY <1>1, <3>1
  <2>6. FiveText(p, q, r, s, t) = text BY <1>3, <1>4
  <2>. HIDE DEF text
  <2>. QED BY <2>6, <2>2, <2>3, <2>4, <2>5 DEF w
<1>. QED BY <1>2, <1>3

(* What a text reads as.                                                     *)
Unit(p) == IF p[2] = "undefined" THEN 0 ELSE DehumanizeUnit(p)

(* Every piece has a value, and that of "0s" is nothing.                     *)
LEMMA UnitType == [p \in Piece |-> Unit(p)] \in [Piece -> Int] /\ [p \in Piece |-> Unit(p)][<<0, "s">>] = 0
<1>1. ASSUME NEW p \in Piece PROVE Unit(p) \in Int
  <2>1. p[1] \in Nat /\ p[2] \in Words7 BY DEF Piece
  <2>2. Minute \in Nat /\ Hour \in Nat /\ Day \in Nat BY SMT DEF Minute, Hour, Day
  <2>. QED BY <2>1, <2>2 DEF Unit, DehumanizeUnit, Words7, NotWhole
<1>2. <<0, "s">> \in Piece /\ Unit(<<0, "s">>) = 0 BY SMT DEF Piece, Words7, Unit, DehumanizeUnit, RoundsOff
<1>. QED BY <1>1, <1>2

(* What dehumanizerTTL makes of a text of pieces.                            *)
LEMMA Dehumanized ==
  ASSUME NEW text \in Seq(Piece)
  PROVE  DehumanizerTTL(text)
           = IF \E x : Has(text, x) /\ x[2] = "undefined" THEN Thrown
             ELSE Taken(IF \E x : Has(text, x) /\ Unit(x) = NotWhole THEN NotWhole
                        ELSE Sum([p \in Piece |-> Unit(p)], text), <<>>)
<1>. DEFINE values == [i \in DOMAIN text |-> DehumanizeUnit(text[i])]
            v == [p \in Piece |-> Unit(p)]
            Bad == \E i \in DOMAIN text : text[i][2] = "undefined"
<1>1. DehumanizerTTL(text) = IF Bad THEN Thrown
          ELSE Taken(IF \E i \in DOMAIN text : values[i] = NotWhole THEN NotWhole ELSE Total(values), <<>>)
  BY DEF DehumanizerTTL
<1>2. Bad <=> \E x : Has(text, x) /\ x[2] = "undefined" BY DEF Has
<1>3. ASSUME ~Bad
      PROVE  /\ Total(values) = Sum(v, text)
             /\ (\E i \in DOMAIN text : values[i] = NotWhole) <=> \E x : Has(text, x) /\ Unit(x) = NotWhole
  <2>1. \A i \in DOMAIN text : DehumanizeUnit(text[i]) = Unit(text[i]) /\ text[i] \in Piece BY <1>3 DEF Unit
  <2>2. values = [i \in DOMAIN text |-> v[text[i]]] BY <2>1
  <2>. QED BY <2>1, <2>2 DEF Sum, Has
<1>. HIDE DEF values, v, Bad
<1>. QED BY <1>1, <1>2, <1>3 DEF v

(* The units of a duration are whole numbers, each larger than the one       *)
(* before it.                                                                *)
LEMMA UnitSizes ==
  /\ Week \in Nat /\ Day \in Nat /\ Hour \in Nat /\ Minute \in Nat
  /\ Week # 0 /\ Day # 0 /\ Hour # 0 /\ Minute # 0 /\ Day < Week /\ Week >= 2 * Day
  BY SMT DEF Week, Day, Hour, Minute

(* What humanizerTTL writes of a duration is worth the duration, unit by     *)
(* unit.                                                                     *)
LEMMA HumanText ==
  ASSUME NEW n \in Nat, NEW v \in [Piece -> Int], v[<<0, "s">>] = 0
  PROVE  LET text == HumanizerTTL(n)
             a == <<n \div Week, "undefined">>
             b == <<(n % Week) \div Day, "day">>
             c == <<(n % Day) \div Hour, "h">>
             d == <<(n % Hour) \div Minute, "m">>
             e == <<n % Minute, "s">>
         IN  /\ text \in Seq(Piece) /\ text # <<>>
             /\ Sum(v, text) = Worth(v, a) + Worth(v, b) + Worth(v, c) + Worth(v, d) + Worth(v, e)
             /\ \A x : Has(text, x) => x = <<0, "s">> \/ (x[1] > 0 /\ x \in {a, b, c, d, e})
             /\ \A x \in {a, b, c, d, e} : x[1] > 0 => Has(text, x)
             /\ a \in Piece /\ b \in Piece /\ c \in Piece /\ d \in Piece /\ e \in Piece
<1>. DEFINE u1 == <<0, Week, "undefined">>
            u2 == <<Week, Day, "day">>
            u3 == <<Day, Hour, "h">>
            u4 == <<Hour, Minute, "m">>
            u5 == <<Minute, 1, "s">>
            a == <<n \div Week, "undefined">>
            b == <<(n % Week) \div Day, "day">>
            c == <<(n % Day) \div Hour, "h">>
            d == <<(n % Hour) \div Minute, "m">>
            e == <<n % Minute, "s">>
<1>1. HumanizerTTL(n) = Pieces(n, <<u1, u2, u3, u4, u5>>) BY DEF HumanizerTTL
<1>2. PieceOf(n, u1) = a /\ PieceOf(n, u2) = b BY UnitSizes DEF PieceOf, CountOf
<1>3. PieceOf(n, u3) = c /\ PieceOf(n, u4) = d BY UnitSizes DEF PieceOf, CountOf
<1>4. PieceOf(n, u5) = e
  <2>1. CountOf(n, u5) = (n % Minute) \div 1 BY UnitSizes DEF CountOf
  <2>2. CountOf(n, u5) = n % Minute BY <2>1, Division
  <2>. QED BY <2>2 DEF PieceOf
<1>5. a \in Piece /\ b \in Piece /\ c \in Piece /\ d \in Piece /\ e \in Piece BY Division DEF Piece, Words7
<1>. HIDE DEF a, b, c, d, e, u1, u2, u3, u4, u5
<1>. DEFINE text == FiveText(a, b, c, d, e)
<1>6. Pieces(n, <<u1, u2, u3, u4, u5>>) = text BY <1>2, <1>3, <1>4, <1>5, PiecesFive DEF FiveText
<1>7. /\ text \in Seq(Piece) /\ text # <<>>
      /\ Sum(v, text) = Worth(v, a) + Worth(v, b) + Worth(v, c) + Worth(v, d) + Worth(v, e)
      /\ \A x : Has(text, x) => x = <<0, "s">> \/ (x[1] > 0 /\ x \in {a, b, c, d, e})
      /\ \A x \in {a, b, c, d, e} : x[1] > 0 => Has(text, x)
  BY <1>5, TextOf
<1>. HIDE DEF text
<1>8. HumanizerTTL(n) = text BY <1>1, <1>6
<1>. QED BY <1>5, <1>7, <1>8 DEF a, b, c, d, e

(* A duration is read from the text it is shown as, unless it has weeks or   *)
(* a fraction that is rounded off.                                           *)
LEMMA HumanRead ==
  ASSUME NEW n \in Nat
  PROVE  DehumanizerTTL(HumanizerTTL(n))
           = IF n >= Week THEN Thrown
             ELSE IF RoundsOff(n % Minute) THEN Taken(NotWhole, <<>>) ELSE Taken(n, <<>>)
<1>. DEFINE text == HumanizerTTL(n)
            v == [p \in Piece |-> Unit(p)]
            a == <<n \div Week, "undefined">>
            b == <<(n % Week) \div Day, "day">>
            c == <<(n % Day) \div Hour, "h">>
            d == <<(n % Hour) \div Minute, "m">>
            e == <<n % Minute, "s">>
            zero == <<0, "s">>
<1>1. /\ text \in Seq(Piece) /\ text # <<>>
      /\ Sum(v, text) = Worth(v, a) + Worth(v, b) + Worth(v, c) + Worth(v, d) + Worth(v, e)
      /\ \A x : Has(text, x) => x = zero \/ (x[1] > 0 /\ x \in {a, b, c, d, e})
      /\ \A x \in {a, b, c, d, e} : x[1] > 0 => Has(text, x)
      /\ a \in Piece /\ b \in Piece /\ c \in Piece /\ d \in Piece /\ e \in Piece
  <2>1. v \in [Piece -> Int] /\ v[<<0, "s">>] = 0 BY UnitType
  <2>. HIDE DEF v
  <2>. QED BY <2>1, HumanText
<1>2. DehumanizerTTL(text)
        = IF \E x : Has(text, x) /\ x[2] = "undefined" THEN Thrown
          ELSE Taken(IF \E x : Has(text, x) /\ Unit(x) = NotWhole THEN NotWhole ELSE Sum(v, text), <<>>)
  BY <1>1, Dehumanized
<1>. HIDE DEF text
<1>3. (\E x : Has(text, x) /\ x[2] = "undefined") <=> n >= Week
  <2>1. n \div Week \in Nat /\ (n < Week => n \div Week = 0) /\ (n >= Week => n \div Week > 0) BY Division
  <2>2. b[2] # "undefined" /\ c[2] # "undefined" /\ d[2] # "undefined" /\ e[2] # "undefined" /\ zero[2] # "undefined"
        /\ a[2] = "undefined" /\ a[1] = n \div Week OBVIOUS
  <2>3. n < Week \/ n >= Week BY UnitSizes
  <2>4. n < Week => ~ (n >= Week) BY UnitSizes
  <2>. HIDE DEF a, b, c, d, e, zero
  <2>5. CASE n >= Week
    <3>1. Has(text, a) BY <1>1, <2>1, <2>2, <2>5
    <3>. QED BY <2>2, <2>5, <3>1
  <2>6. CASE n < Week
    <3>1. ~ (a[1] > 0) BY <2>1, <2>2, <2>6
    <3>2. \A x : Has(text, x) => x[2] # "undefined" BY <1>1, <2>2, <3>1
    <3>. QED BY <2>4, <2>6, <3>2
  <2>. QED BY <2>3, <2>5, <2>6
<1>4. CASE n < Week
  <2>. DEFINE s == n % Minute
  <2>1. Unit(b) = ((n % Week) \div Day) * Day BY SMT, Zenon DEF Unit, DehumanizeUnit
  <2>2. Unit(c) = ((n % Day) \div Hour) * Hour BY SMT, Zenon DEF Unit, DehumanizeUnit
  <2>3. Unit(d) = ((n % Hour) \div Minute) * Minute BY SMT, Zenon DEF Unit, DehumanizeUnit
  <2>4. Unit(e) = IF RoundsOff(s) THEN NotWhole ELSE s BY SMT, Zenon DEF Unit, DehumanizeUnit
  <2>5. Unit(a) = 0 BY DEF Unit
  <2>6. zero \in Piece /\ Unit(zero) = 0
    <3>1. zero \in Piece BY DEF Piece, Words7
    <3>. HIDE DEF zero
    <3>2. v[zero] = Unit(zero) BY <3>1
    <3>. QED BY <3>1, <3>2, UnitType DEF zero
  <2>7. a[1] = 0 /\ b[1] = (n % Week) \div Day /\ c[1] = (n % Day) \div Hour
        /\ d[1] = (n % Hour) \div Minute /\ e[1] = s
    BY <1>4, Division
  <2>8. n % Week = n /\ n \div Day \in Nat BY <1>4, Division
  <2>9. v[a] = Unit(a) /\ v[b] = Unit(b) /\ v[c] = Unit(c) /\ v[d] = Unit(d) /\ v[e] = Unit(e) BY <1>1
  <2>. HIDE DEF a, b, c, d, e, zero, v
  <2>10. Worth(v, a) = 0 BY <2>7 DEF Worth
  <2>11. Worth(v, b) = (n \div Day) * Day
    <3>1. b[1] = n \div Day /\ v[b] = (n \div Day) * Day BY <2>1, <2>7, <2>8, <2>9
    <3>. HIDE DEF s
    <3>. QED BY <3>1, <2>8, UnitSizes DEF Worth
  <2>12. Worth(v, c) = ((n % Day) \div Hour) * Hour
    <3>1. c[1] = (n % Day) \div Hour /\ v[c] = ((n % Day) \div Hour) * Hour BY <2>2, <2>7, <2>9
    <3>2. (n % Day) \div Hour \in Nat BY Division
    <3>. QED BY <3>1, <3>2, UnitSizes DEF Worth
  <2>13. Worth(v, d) = ((n % Hour) \div Minute) * Minute
    <3>1. d[1] = (n % Hour) \div Minute /\ v[d] = ((n % Hour) \div Minute) * Minute BY <2>3, <2>7, <2>9
    <3>2. (n % Hour) \div Minute \in Nat BY Division
    <3>. QED BY <3>1, <3>2, UnitSizes DEF Worth
  <2>14. s \in Nat BY Division
  <2>15. \A x : ~ (x[2] = "undefined" /\ Has(text, x)) BY <1>3, <1>4, UnitSizes
  <2>16. Unit(b) # NotWhole /\ Unit(c) # NotWhole /\ Unit(d) # NotWhole /\ Unit(a) # NotWhole /\ Unit(zero) # NotWhole
    <3>1. (n % Week) \div Day \in Nat /\ (n % Day) \div Hour \in Nat /\ (n % Hour) \div Minute \in Nat BY Division
    <3>2. \A x, y \in Nat : x * y # NotWhole BY SMT DEF NotWhole
    <3>3. NotWhole # 0 BY DEF NotWhole
    <3>. QED BY <2>1, <2>2, <2>3, <2>5, <2>6, <3>1, <3>2, <3>3, UnitSizes
  <2>17. (\E x : Has(text, x) /\ Unit(x) = NotWhole) <=> RoundsOff(s)
    <3>1. CASE RoundsOff(s)
      <4>1. s > 0 BY <2>14, <3>1 DEF RoundsOff
      <4>2. Has(text, e) BY <1>1, <2>7, <4>1
      <4>. QED BY <2>4, <3>1, <4>2
    <3>2. CASE ~RoundsOff(s)
      <4>1. Unit(e) = s /\ s # NotWhole BY <2>4, <2>14, <3>2 DEF NotWhole
      <4>2. \A x : Has(text, x) => x \in {zero, a, b, c, d, e} BY <1>1
      <4>3. \A x \in {zero, a, b, c, d, e} : Unit(x) # NotWhole BY <2>16, <4>1
      <4>. QED BY <3>2, <4>2, <4>3
    <3>. QED BY <3>1, <3>2
  <2>18. ASSUME ~RoundsOff(s) PROVE Sum(v, text) = n
    <3>1. Worth(v, e) = s BY <2>4, <2>7, <2>9, <2>14, <2>18 DEF Worth
    <3>2. /\ n = (n \div Day) * Day + (n % Day) /\ n % Day = ((n % Day) \div Hour) * Hour + (n % Hour)
          /\ n % Hour = ((n % Hour) \div Minute) * Minute + s
          /\ n % Day \in Nat /\ n % Hour \in Nat
      BY Division
    <3>. DEFINE x1 == (n \div Day) * Day
                x2 == ((n % Day) \div Hour) * Hour
                x3 == ((n % Hour) \div Minute) * Minute
                r1 == n % Day
                r2 == n % Hour
    <3>3. x1 \in Nat /\ x2 \in Nat /\ x3 \in Nat
      <4>1. (n % Day) \div Hour \in Nat /\ (n % Hour) \div Minute \in Nat BY Division
      <4>2. \A x, y \in Nat : x * y \in Nat OBVIOUS
      <4>. QED BY <4>1, <4>2, <2>8, UnitSizes
    <3>4. Sum(v, text) = 0 + x1 + x2 + x3 + s BY <1>1, <2>10, <2>11, <2>12, <2>13, <3>1
    <3>5. n = x1 + r1 /\ r1 = x2 + r2 /\ r2 = x3 + s /\ r1 \in Nat /\ r2 \in Nat BY <3>2
    <3>. HIDE DEF x1, x2, x3, r1, r2, s
    <3>. QED BY <2>14, <3>3, <3>4, <3>5
  <2>19. ~ (n >= Week) BY <1>4, UnitSizes
  <2>20. DehumanizerTTL(text)
           = Taken(IF \E x : Has(text, x) /\ Unit(x) = NotWhole THEN NotWhole ELSE Sum(v, text), <<>>)
    BY <1>2, <2>15
  <2>. HIDE DEF s
  <2>21. CASE RoundsOff(s) BY <2>17, <2>19, <2>20, <2>21 DEF text, s
  <2>22. CASE ~RoundsOff(s)
    <3>1. Sum(v, text) = n BY <2>18, <2>22 DEF s
    <3>. QED BY <2>17, <2>19, <2>20, <2>22, <3>1 DEF text, s
  <2>. QED BY <2>21, <2>22
<1>5. CASE n >= Week BY <1>2, <1>3, <1>5 DEF text
<1>6. n < Week \/ n >= Week BY UnitSizes
<1>. QED BY <1>4, <1>5, <1>6

(* What the units of a duration come to.                                     *)
LEMMA UnitsAdd ==
  ASSUME NEW n \in Nat
  PROVE  /\ n = (n \div Day) * Day + ((n % Day) \div Hour) * Hour + ((n % Hour) \div Minute) * Minute + (n % Minute)
         /\ (n \div Day) * Day \in Nat /\ ((n % Day) \div Hour) * Hour \in Nat
         /\ ((n % Hour) \div Minute) * Minute \in Nat /\ n % Minute \in Nat
<1>1. /\ n = (n \div Day) * Day + (n % Day) /\ n % Day = ((n % Day) \div Hour) * Hour + (n % Hour)
      /\ n % Hour = ((n % Hour) \div Minute) * Minute + (n % Minute)
      /\ n % Day \in Nat /\ n % Hour \in Nat /\ n % Minute \in Nat
  BY Division
<1>. DEFINE x1 == (n \div Day) * Day
            x2 == ((n % Day) \div Hour) * Hour
            x3 == ((n % Hour) \div Minute) * Minute
            r1 == n % Day
            r2 == n % Hour
            s == n % Minute
<1>2. x1 \in Nat /\ x2 \in Nat /\ x3 \in Nat
  <2>1. n \div Day \in Nat /\ (n % Day) \div Hour \in Nat /\ (n % Hour) \div Minute \in Nat BY Division
  <2>2. \A x, y \in Nat : x * y \in Nat OBVIOUS
  <2>. QED BY <2>1, <2>2, UnitSizes
<1>3. n = x1 + r1 /\ r1 = x2 + r2 /\ r2 = x3 + s /\ r1 \in Nat /\ r2 \in Nat /\ s \in Nat BY <1>1
<1>. HIDE DEF x1, x2, x3, r1, r2, s
<1>4. n = x1 + x2 + x3 + s BY <1>2, <1>3
<1>. QED BY <1>2, <1>3, <1>4 DEF x1, x2, x3, s

(* How a node words a piece.                                                 *)
Worded(piece) == IF piece[2] = "s" THEN <<piece[1] * 1000, "s">>
                 ELSE IF piece[2] = "day" /\ piece[1] > 1 THEN <<piece[1], "days">> ELSE piece

(* A piece in the words of a node is a piece.                                *)
LEMMA WordedType == \A p \in Piece : Worded(p) \in Piece
<1>. SUFFICES ASSUME NEW p \in Piece PROVE Worded(p) \in Piece OBVIOUS
<1>1. p[1] \in Nat /\ p[2] \in Words7 /\ p = <<p[1], p[2]>> BY DEF Piece
<1>. QED BY <1>1 DEF Worded, Piece, Words7

Second == 1000

(* The counts of the units are numbers.                                      *)
Counted(n) == /\ n \div Day \in Nat /\ (n % Day) \div Hour \in Nat /\ (n % Hour) \div Minute \in Nat
              /\ (n % Minute) \div Second \in Nat /\ n % Second \in Nat

(* The pieces of a duration hold natural numbers.                            *)
LEMMA Counts == ASSUME NEW n \in Nat PROVE Counted(n)
<1>1. n \div Day \in Nat BY SMT DEF Day
<1>2. (n % Day) \div Hour \in Nat /\ (n % Hour) \div Minute \in Nat BY SMT DEF Day, Hour, Minute
<1>3. (n % Minute) \div Second \in Nat /\ n % Second \in Nat BY SMT DEF Second, Minute
<1>. QED BY <1>1, <1>2, <1>3 DEF Counted

(* What is left of a minute, in seconds and milliseconds.                    *)
LEMMA Seconds ==
  ASSUME NEW n \in Nat
  PROVE  /\ (n % Minute) \div Second \in Nat /\ n % Second \in Nat /\ (n % Second) \div 1 = n % Second
         /\ n % Minute = ((n % Minute) \div Second) * Second + (n % Second)
<1>1. (n % Minute) \div Second \in Nat /\ n % Second \in Nat BY SMT DEF Second, Minute
<1>2. (n % Second) \div 1 = n % Second BY SMT DEF Second
<1>3. n % Minute = ((n % Minute) \div Second) * Second + (n % Second) BY SMT DEF Second, Minute
<1>. QED BY <1>1, <1>2, <1>3

(* What a node writes of a duration is worth the duration, unit by unit.     *)
LEMMA NodeText ==
  ASSUME NEW n \in Nat, NEW v \in [Piece -> Int], v[<<0, "s">>] = 0
  PROVE  LET text == NodeTTL(n)
             w == [p \in Piece |-> v[Worded(p)]]
             b == <<n \div Day, "day">>
             c == <<(n % Day) \div Hour, "h">>
             d == <<(n % Hour) \div Minute, "m">>
             e == <<(n % Minute) \div Second, "s">>
             f == <<n % Second, "ms">>
         IN  /\ text \in Seq(Piece) /\ text # <<>>
             /\ Sum(v, text) = Worth(w, b) + Worth(w, c) + Worth(w, d) + Worth(w, e) + Worth(w, f)
             /\ \A x : Has(text, x) => x = <<0, "s">> \/ \E y \in {b, c, d, e, f} : y[1] > 0 /\ x = Worded(y)
             /\ \A y \in {b, c, d, e, f} : y[1] > 0 => Has(text, Worded(y))
             /\ b \in Piece /\ c \in Piece /\ d \in Piece /\ e \in Piece /\ f \in Piece
<1>0. n \div Day \in Nat /\ (n % Day) \div Hour \in Nat /\ (n % Hour) \div Minute \in Nat
        /\ (n % Minute) \div Second \in Nat /\ n % Second \in Nat
  BY Counts DEF Counted
<1>. DEFINE u1 == <<0, Day, "day">>
            u2 == <<Day, Hour, "h">>
            u3 == <<Hour, Minute, "m">>
            u4 == <<Minute, 1000, "s">>
            u5 == <<1000, 1, "ms">>
            w == [p \in Piece |-> v[Worded(p)]]
            b == <<n \div Day, "day">>
            c == <<(n % Day) \div Hour, "h">>
            d == <<(n % Hour) \div Minute, "m">>
            e == <<(n % Minute) \div Second, "s">>
            f == <<n % Second, "ms">>
            zero == <<0, "s">>
            all == {b, c, d, e, f}
<1>. DEFINE shown == Pieces(n, <<u1, u2, u3, u4, u5>>)
<1>1. NodeTTL(n) = [i \in DOMAIN shown |-> Worded(shown[i])] BY DEF NodeTTL, Worded
<1>2. PieceOf(n, u1) = b /\ PieceOf(n, u2) = c BY UnitSizes DEF PieceOf, CountOf
<1>3. PieceOf(n, u3) = d /\ PieceOf(n, u4) = e BY UnitSizes DEF PieceOf, CountOf, Second
<1>4. PieceOf(n, u5) = f
  <2>1. CountOf(n, u5) = (n % Second) \div 1 BY DEF CountOf, Second
  <2>2. CountOf(n, u5) = n % Second BY <2>1, Seconds
  <2>. QED BY <2>2 DEF PieceOf
<1>5. b \in Piece /\ c \in Piece /\ d \in Piece /\ e \in Piece /\ f \in Piece
  <2>2. \A k \in Nat : \A word \in Words7 : <<k, word>> \in Piece BY DEF Piece
  <2>3. "day" \in Words7 /\ "h" \in Words7 /\ "m" \in Words7 /\ "s" \in Words7 /\ "ms" \in Words7 BY DEF Words7
  <2>. QED BY <1>0, <2>2, <2>3
<1>6. zero \in Piece /\ Worded(zero) = zero BY DEF Piece, Words7, Worded
<1>7. w \in [Piece -> Int] /\ w[zero] = 0
  <2>1. v[zero] = 0 OBVIOUS
  <2>. HIDE DEF zero
  <2>. QED BY <1>6, <2>1, WordedType
<1>. HIDE DEF b, c, d, e, f, u1, u2, u3, u4, u5, w, shown
<1>8. shown = FiveText(b, c, d, e, f) BY <1>2, <1>3, <1>4, <1>5, PiecesFive DEF FiveText, shown
<1>9. /\ shown \in Seq(Piece) /\ shown # <<>>
      /\ Sum(w, shown) = Worth(w, b) + Worth(w, c) + Worth(w, d) + Worth(w, e) + Worth(w, f)
      /\ \A x : Has(shown, x) => x = zero \/ (x[1] > 0 /\ x \in all)
      /\ \A x \in all : x[1] > 0 => Has(shown, x)
  <2>. DEFINE five == FiveText(b, c, d, e, f)
  <2>1. /\ five \in Seq(Piece) /\ five # <<>>
        /\ Sum(w, five) = Worth(w, b) + Worth(w, c) + Worth(w, d) + Worth(w, e) + Worth(w, f)
        /\ \A x : Has(five, x) => x = <<0, "s">> \/ (x[1] > 0 /\ x \in {b, c, d, e, f})
        /\ \A x \in {b, c, d, e, f} : x[1] > 0 => Has(five, x)
    BY <1>5, <1>7, TextOf
  <2>. HIDE DEF five
  <2>2. shown = five BY <1>8 DEF five
  <2>. QED BY <2>1, <2>2
<1>. HIDE DEF zero, all
<1>. DEFINE text == [i \in DOMAIN shown |-> Worded(shown[i])]
<1>10. /\ text \in Seq(Piece) /\ text # <<>> /\ DOMAIN text = DOMAIN shown
       /\ \A i \in DOMAIN shown : text[i] = Worded(shown[i]) /\ shown[i] \in Piece
  <2>1. \A i \in DOMAIN shown : shown[i] \in Piece /\ Worded(shown[i]) \in Piece BY <1>9, WordedType
  <2>2. DOMAIN shown = 1..Len(shown) /\ Len(shown) \in Nat /\ Len(shown) # 0 BY <1>9
  <2>3. text \in Seq(Piece) /\ DOMAIN text = DOMAIN shown BY <2>1, <2>2
  <2>4. text # <<>>
    <3>1. \A q : q = <<>> => DOMAIN q = {} OBVIOUS
    <3>2. 1 \in DOMAIN shown BY <2>2
    <3>. HIDE DEF text
    <3>. QED BY <2>3, <3>1, <3>2
  <2>. QED BY <2>1, <2>3, <2>4
<1>. HIDE DEF text
<1>11. Sum(v, text) = Sum(w, shown)
  <2>1. [i \in DOMAIN text |-> v[text[i]]] = [i \in DOMAIN shown |-> w[shown[i]]]
    <3>1. \A i \in DOMAIN shown : v[text[i]] = w[shown[i]] BY <1>10 DEF w
    <3>. QED BY <1>10, <3>1
  <2>. QED BY <2>1 DEF Sum
<1>12. ASSUME NEW x, Has(text, x) PROVE x = zero \/ \E y \in all : y[1] > 0 /\ x = Worded(y)
  <2>1. PICK i \in DOMAIN shown : x = Worded(shown[i]) BY <1>10, <1>12 DEF Has
  <2>2. Has(shown, shown[i]) BY DEF Has
  <2>. QED BY <1>6, <1>9, <2>1, <2>2
<1>13. ASSUME NEW y \in all, y[1] > 0 PROVE Has(text, Worded(y))
  <2>1. PICK i \in DOMAIN shown : shown[i] = y BY <1>9, <1>13 DEF Has
  <2>. QED BY <1>10, <2>1 DEF Has
<1>14. NodeTTL(n) = text BY <1>1 DEF text
<1>15. Sum(v, text) = Worth(w, b) + Worth(w, c) + Worth(w, d) + Worth(w, e) + Worth(w, f) BY <1>9, <1>11
<1>16. /\ \A x : Has(text, x) => x = zero \/ \E y \in all : y[1] > 0 /\ x = Worded(y)
       /\ \A y \in all : y[1] > 0 => Has(text, Worded(y))
  BY <1>12, <1>13
<1>17. text \in Seq(Piece) /\ text # <<>> BY <1>10
<1>18. /\ NodeTTL(n) \in Seq(Piece) /\ NodeTTL(n) # <<>>
       /\ Sum(v, NodeTTL(n)) = Worth(w, b) + Worth(w, c) + Worth(w, d) + Worth(w, e) + Worth(w, f)
       /\ \A x : Has(NodeTTL(n), x) => x = zero \/ \E y \in all : y[1] > 0 /\ x = Worded(y)
       /\ \A y \in all : y[1] > 0 => Has(NodeTTL(n), Worded(y))
  BY <1>14, <1>15, <1>16, <1>17
<1>. HIDE DEF text
<1>. QED BY <1>5, <1>18, Zenon DEF b, c, d, e, f, w, zero, all

(* What a node writes is read back, unless it has days in the plural.        *)
LEMMA NodeRead ==
  ASSUME NEW n \in Nat
  PROVE  DehumanizerTTL(NodeTTL(n)) = IF n >= 2 * Day THEN Taken(NotWhole, <<>>) ELSE Taken(n, <<>>)
<1>. DEFINE text == NodeTTL(n)
            v == [p \in Piece |-> Unit(p)]
            w == [p \in Piece |-> v[Worded(p)]]
            b == <<n \div Day, "day">>
            c == <<(n % Day) \div Hour, "h">>
            d == <<(n % Hour) \div Minute, "m">>
            e == <<(n % Minute) \div Second, "s">>
            f == <<n % Second, "ms">>
            zero == <<0, "s">>
            all == {b, c, d, e, f}
<1>0. v \in [Piece -> Int] /\ v[zero] = 0 BY UnitType
<1>1. /\ text \in Seq(Piece)
      /\ Sum(v, text) = Worth(w, b) + Worth(w, c) + Worth(w, d) + Worth(w, e) + Worth(w, f)
      /\ \A x : Has(text, x) => x = zero \/ \E y \in all : y[1] > 0 /\ x = Worded(y)
      /\ \A y \in all : y[1] > 0 => Has(text, Worded(y))
      /\ b \in Piece /\ c \in Piece /\ d \in Piece /\ e \in Piece /\ f \in Piece
  <2>1. v[<<0, "s">>] = 0 BY <1>0
  <2>2. v \in [Piece -> Int] BY <1>0
  <2>. HIDE DEF v
  <2>. QED BY <2>1, <2>2, NodeText
<1>2. DehumanizerTTL(text)
        = IF \E x : Has(text, x) /\ x[2] = "undefined" THEN Thrown
          ELSE Taken(IF \E x : Has(text, x) /\ Unit(x) = NotWhole THEN NotWhole ELSE Sum(v, text), <<>>)
  BY <1>1, Dehumanized
<1>. DEFINE k == n \div Day
            kc == (n % Day) \div Hour
            kd == (n % Hour) \div Minute
            ke == (n % Minute) \div Second
            kf == n % Second
<1>3. k \in Nat /\ kc \in Nat /\ kd \in Nat /\ ke \in Nat /\ kf \in Nat BY Counts DEF Counted
<1>4. /\ b = <<k, "day">> /\ c = <<kc, "h">> /\ d = <<kd, "m">> /\ e = <<ke, "s">> /\ f = <<kf, "ms">>
  OBVIOUS
<1>. HIDE DEF text, v, k, kc, kd, ke, kf
<1>5. Worded(b) = IF k > 1 THEN <<k, "days">> ELSE b BY DEF Worded, k
<1>6. Worded(c) = c /\ Worded(d) = d /\ Worded(f) = f BY DEF Worded
<1>7. Worded(e) = <<ke * Second, "s">> BY DEF Worded, Second, ke
<1>8. zero[2] # "undefined" /\ \A y \in all : Worded(y)[2] # "undefined"
  <2>1. zero[2] # "undefined" /\ Worded(b)[2] # "undefined" BY <1>5
  <2>2. Worded(c)[2] # "undefined" /\ Worded(d)[2] # "undefined" /\ Worded(f)[2] # "undefined" BY <1>6
  <2>3. Worded(e)[2] # "undefined" BY <1>7
  <2>. HIDE DEF zero, b, c, d, e, f
  <2>. QED BY <2>1, <2>2, <2>3
<1>9. ~ \E x : Has(text, x) /\ x[2] = "undefined"
  <2>. HIDE DEF zero, all
  <2>. QED BY <1>1, <1>8
<1>10. /\ Unit(Worded(c)) = kc * Hour /\ Unit(Worded(d)) = kd * Minute /\ Unit(Worded(f)) = kf
       /\ Unit(zero) = 0
  <2>1. Unit(c) = kc * Hour BY <1>4 DEF Unit, DehumanizeUnit
  <2>2. Unit(d) = kd * Minute BY <1>4 DEF Unit, DehumanizeUnit
  <2>3. Unit(f) = kf BY <1>4 DEF Unit, DehumanizeUnit
  <2>4. Unit(zero) = 0 BY SMT DEF Unit, DehumanizeUnit, RoundsOff
  <2>. QED BY <1>6, <2>1, <2>2, <2>3, <2>4
<1>11. Unit(Worded(e)) = ke * Second
  <2>1. ke * Second \in Nat /\ ~RoundsOff(ke * Second) BY <1>3, SMT DEF RoundsOff, Second
  <2>2. Unit(<<ke * Second, "s">>) = IF RoundsOff(ke * Second) THEN NotWhole ELSE ke * Second
    BY DEF Unit, DehumanizeUnit
  <2>. QED BY <1>7, <2>1, <2>2
<1>12. (n >= 2 * Day <=> k > 1) BY SMT DEF k, Day
<1>13. \A x, y \in Nat : x * y \in Nat /\ x * y # NotWhole BY SMT DEF NotWhole
<1>. HIDE DEF zero, b, c, d, e, f
<1>14. CASE k > 1
  <2>1. Worded(b) = <<k, "days">> BY <1>5, <1>14
  <2>2. Unit(Worded(b)) = NotWhole BY <2>1 DEF Unit, DehumanizeUnit
  <2>3. b[1] > 0 BY <1>3, <1>4, <1>14
  <2>4. Has(text, Worded(b)) BY <1>1, <2>3
  <2>. QED BY <1>2, <1>9, <1>12, <1>14, <2>2, <2>4 DEF text
<1>15. CASE ~ (k > 1)
  <2>1. Worded(b) = b BY <1>5, <1>15
  <2>2. Unit(Worded(b)) = k * Day
    <3>1. Unit(<<k, "day">>) = k * Day BY DEF Unit, DehumanizeUnit
    <3>. QED BY <1>4, <2>1, <3>1
  <2>3. Second \in Nat BY SMT DEF Second
  <2>4. Unit(zero) # NotWhole /\ \A y \in all : Unit(Worded(y)) # NotWhole
    <3>1. Unit(Worded(b)) # NotWhole BY <1>3, <1>13, <2>2, UnitSizes
    <3>2. Unit(Worded(c)) # NotWhole BY <1>3, <1>10, <1>13, UnitSizes
    <3>3. Unit(Worded(d)) # NotWhole BY <1>3, <1>10, <1>13, UnitSizes
    <3>4. Unit(Worded(e)) # NotWhole BY <1>3, <1>11, <1>13, <2>3
    <3>5. Unit(Worded(f)) # NotWhole /\ Unit(zero) # NotWhole BY <1>3, <1>10 DEF NotWhole
    <3>. QED BY <3>1, <3>2, <3>3, <3>4, <3>5
  <2>5. ~ \E x : Has(text, x) /\ Unit(x) = NotWhole
    <3>. HIDE DEF all
    <3>. QED BY <1>1, <2>4
  <2>6. DehumanizerTTL(text) = Taken(Sum(v, text), <<>>) BY <1>2, <1>9, <2>5
  <2>7. w[b] = k * Day /\ w[c] = kc * Hour /\ w[d] = kd * Minute /\ w[e] = ke * Second /\ w[f] = kf
    <3>1. \A p \in Piece : w[p] = Unit(Worded(p)) BY WordedType DEF v
    <3>. HIDE DEF w
    <3>. QED BY <1>1, <1>10, <1>11, <2>2, <3>1
  <2>. HIDE DEF w
  <2>8. Worth(w, b) = k * Day /\ Worth(w, c) = kc * Hour /\ Worth(w, d) = kd * Minute
        /\ Worth(w, e) = ke * Second /\ Worth(w, f) = kf
    <3>1. b[1] = k /\ c[1] = kc /\ d[1] = kd /\ e[1] = ke /\ f[1] = kf BY <1>4
    <3>2. \A x \in Nat : ~ (x > 0) => x = 0 OBVIOUS
    <3>3. \A x \in Nat : 0 * x = 0 OBVIOUS
    <3>4. Worth(w, b) = k * Day BY <1>3, <2>7, <3>1, <3>2, <3>3, UnitSizes DEF Worth
    <3>5. Worth(w, c) = kc * Hour BY <1>3, <2>7, <3>1, <3>2, <3>3, UnitSizes DEF Worth
    <3>6. Worth(w, d) = kd * Minute BY <1>3, <2>7, <3>1, <3>2, <3>3, UnitSizes DEF Worth
    <3>7. Worth(w, e) = ke * Second BY <1>3, <2>3, <2>7, <3>1, <3>2, <3>3 DEF Worth
    <3>8. Worth(w, f) = kf BY <1>3, <2>7, <3>1, <3>2 DEF Worth
    <3>. QED BY <3>4, <3>5, <3>6, <3>7, <3>8
  <2>9. Sum(v, text) = k * Day + kc * Hour + kd * Minute + ke * Second + kf BY <1>1, <2>8
  <2>10. n = k * Day + kc * Hour + kd * Minute + (n % Minute) /\ n % Minute = ke * Second + kf
         /\ k * Day \in Nat /\ kc * Hour \in Nat /\ kd * Minute \in Nat /\ ke * Second \in Nat
    <3>1. /\ n = k * Day + kc * Hour + kd * Minute + (n % Minute)
          /\ k * Day \in Nat /\ kc * Hour \in Nat /\ kd * Minute \in Nat
      BY UnitsAdd DEF k, kc, kd
    <3>2. n % Minute = ke * Second + kf BY Seconds DEF ke, kf
    <3>3. ke * Second \in Nat BY <1>3, <1>13, <2>3
    <3>. QED BY <3>1, <3>2, <3>3
  <2>11. Sum(v, text) = n
    <3>1. \A x1, x2, x3, x4, x5 \in Nat : x1 + x2 + x3 + x4 + x5 = x1 + x2 + x3 + (x4 + x5) OBVIOUS
    <3>. QED BY <1>3, <2>9, <2>10, <3>1
  <2>. QED BY <1>12, <1>15, <2>6, <2>11 DEF text
<1>. QED BY <1>14, <1>15

(* What parseDurationString takes of a piece.                                *)
Fraction(f) == IF f % 100 = 0 THEN f \div 100 ELSE IF f % 10 = 0 THEN f \div 10 ELSE f
Read(piece) ==
    CASE piece[2] = "s" -> IF piece[1] % 1000 = 0 THEN piece[1] ELSE Fraction(piece[1] % 1000) * 1000
      [] piece[2] \in {"m", "ms"} -> piece[1] * Minute
      [] piece[2] = "h" -> piece[1] * Hour
      [] piece[2] \in {"day", "days"} -> piece[1] * Day
      [] piece[2] = "undefined" -> 0

(* What it takes of a count in each unit.                                    *)
ReadsAs(k) ==
    /\ Read(<<k, "s">>) = IF k % 1000 = 0 THEN k ELSE Fraction(k % 1000) * 1000
    /\ Read(<<k, "m">>) = k * Minute /\ Read(<<k, "ms">>) = k * Minute /\ Read(<<k, "h">>) = k * Hour
    /\ Read(<<k, "day">>) = k * Day /\ Read(<<k, "days">>) = k * Day /\ Read(<<k, "undefined">>) = 0

(* What parseDurationString makes of a single piece.                         *)
LEMMA ReadOf == \A k \in Nat : ReadsAs(k)
<1>. SUFFICES ASSUME NEW k \in Nat PROVE ReadsAs(k) OBVIOUS
<1>. DEFINE thousand == 1000
<1>1. \A p : Read(p) =
        CASE p[2] = "s" -> IF p[1] % thousand = 0 THEN p[1] ELSE Fraction(p[1] % thousand) * thousand
          [] p[2] \in {"m", "ms"} -> p[1] * Minute
          [] p[2] = "h" -> p[1] * Hour
          [] p[2] \in {"day", "days"} -> p[1] * Day
          [] p[2] = "undefined" -> 0
  BY DEF Read
<1>2. \A x, y : <<x, y>>[1] = x /\ <<x, y>>[2] = y OBVIOUS
<1>. HIDE DEF thousand
<1>3. Read(<<k, "s">>) = IF k % thousand = 0 THEN k ELSE Fraction(k % thousand) * thousand BY <1>1, <1>2, Zenon
<1>4. Read(<<k, "m">>) = k * Minute BY <1>1, <1>2, Zenon
<1>5. Read(<<k, "ms">>) = k * Minute BY <1>1, <1>2, Zenon
<1>6. Read(<<k, "h">>) = k * Hour BY <1>1, <1>2, Zenon
<1>7. Read(<<k, "day">>) = k * Day BY <1>1, <1>2, Zenon
<1>8. Read(<<k, "days">>) = k * Day BY <1>1, <1>2, Zenon
<1>9. Read(<<k, "undefined">>) = 0 BY <1>1, <1>2, Zenon
<1>. QED BY <1>3, <1>4, <1>5, <1>6, <1>7, <1>8, <1>9 DEF thousand, ReadsAs

(* It makes a number of every piece, and nothing of "0s".                    *)
LEMMA ReadType == [p \in Piece |-> Read(p)] \in [Piece -> Int] /\ [p \in Piece |-> Read(p)][<<0, "s">>] = 0
<1>1. ASSUME NEW p \in Piece PROVE Read(p) \in Int
  <2>1. PICK k \in Nat, word \in Words7 : p = <<k, word>> BY DEF Piece
  <2>2. k * Minute \in Int /\ k * Hour \in Int /\ k * Day \in Int BY UnitSizes
  <2>3. (IF k % 1000 = 0 THEN k ELSE Fraction(k % 1000) * 1000) \in Int BY SMT DEF Fraction
  <2>10. ReadsAs(k) BY ReadOf
  <2>4. word \in {"undefined", "day", "days", "h", "m", "s", "ms"} BY DEF Words7
  <2>5. CASE word = "s" BY <2>1, <2>3, <2>5, <2>10 DEF ReadsAs
  <2>6. CASE word = "m" \/ word = "ms" BY <2>1, <2>2, <2>6, <2>10 DEF ReadsAs
  <2>7. CASE word = "h" BY <2>1, <2>2, <2>7, <2>10 DEF ReadsAs
  <2>8. CASE word = "day" \/ word = "days" BY <2>1, <2>2, <2>8, <2>10 DEF ReadsAs
  <2>9. CASE word = "undefined" BY <2>1, <2>9, <2>10 DEF ReadsAs
  <2>. QED BY <2>4, <2>5, <2>6, <2>7, <2>8, <2>9
<1>2. <<0, "s">> \in Piece BY DEF Piece, Words7
<1>3. Read(<<0, "s">>) = 0
  <2>1. ReadsAs(0) BY ReadOf
  <2>. QED BY <2>1 DEF ReadsAs
<1>. QED BY <1>1, <1>2, <1>3

(* What parseDurationString makes of a text of pieces.                       *)
LEMMA Parsed ==
  ASSUME NEW text \in Seq(Piece), text # <<>>, \A x : Has(text, x) => x[2] # "undefined"
  PROVE  ParseDurationString(text) = Taken(Sum([p \in Piece |-> Read(p)], text), <<>>)
<1>. DEFINE v == [p \in Piece |-> Read(p)]
<1>1. ParseDurationString(text)
        = IF \A i \in DOMAIN text : text[i][2] = "undefined" THEN Thrown
          ELSE Taken(Total([i \in DOMAIN text |-> Read(text[i])]), <<>>)
  BY DEF ParseDurationString, Read, Fraction
<1>2. 1 \in DOMAIN text
  <2>1. DOMAIN text = 1..Len(text) /\ Len(text) \in Nat /\ Len(text) # 0 OBVIOUS
  <2>. QED BY <2>1
<1>3. ~ \A i \in DOMAIN text : text[i][2] = "undefined" BY <1>2 DEF Has
<1>4. [i \in DOMAIN text |-> Read(text[i])] = [i \in DOMAIN text |-> v[text[i]]]
  <2>1. \A i \in DOMAIN text : text[i] \in Piece OBVIOUS
  <2>. QED BY <2>1
<1>. HIDE DEF v
<1>. QED BY <1>1, <1>3, <1>4 DEF Sum, v

(* Whole seconds, fewer than two days of them.                               *)
Plain(n) == n % 1000 = 0 /\ n < 2 * Day

(* parseDurationString reads what humanizerTTL writes of a plain duration.   *)
LEMMA HumanParsed ==
  ASSUME NEW n \in Nat, Plain(n)
  PROVE  ParseDurationString(HumanizerTTL(n)) = Taken(n, <<>>)
<1>. DEFINE text == HumanizerTTL(n)
            v == [p \in Piece |-> Read(p)]
            a == <<n \div Week, "undefined">>
            b == <<(n % Week) \div Day, "day">>
            c == <<(n % Day) \div Hour, "h">>
            d == <<(n % Hour) \div Minute, "m">>
            e == <<n % Minute, "s">>
            zero == <<0, "s">>
<1>1. /\ text \in Seq(Piece) /\ text # <<>>
      /\ Sum(v, text) = Worth(v, a) + Worth(v, b) + Worth(v, c) + Worth(v, d) + Worth(v, e)
      /\ \A x : Has(text, x) => x = zero \/ (x[1] > 0 /\ x \in {a, b, c, d, e})
      /\ a \in Piece /\ b \in Piece /\ c \in Piece /\ d \in Piece /\ e \in Piece
  <2>1. v \in [Piece -> Int] /\ v[<<0, "s">>] = 0 BY ReadType
  <2>. HIDE DEF v
  <2>. QED BY <2>1, HumanText
<1>2. n < Week BY UnitSizes DEF Plain
<1>3. n \div Week = 0 /\ n % Week = n BY <1>2, SMT DEF Week
<1>. DEFINE k == n \div Day
            kc == (n % Day) \div Hour
            kd == (n % Hour) \div Minute
            s == n % Minute
<1>4. k \in Nat /\ kc \in Nat /\ kd \in Nat BY Counts DEF Counted
<1>5. s \in Nat /\ s % 1000 = 0 BY SMT DEF Minute, Plain
<1>6. a = <<0, "undefined">> /\ b = <<k, "day">> /\ c = <<kc, "h">> /\ d = <<kd, "m">> /\ e = <<s, "s">> BY <1>3
<1>7. n = k * Day + kc * Hour + kd * Minute + s /\ k * Day \in Nat /\ kc * Hour \in Nat /\ kd * Minute \in Nat
  BY UnitsAdd
<1>. HIDE DEF text, k, kc, kd, s, a, b, c, d, e
<1>8. zero[2] # "undefined" /\ ~ (a[1] > 0) /\ b[2] # "undefined" /\ c[2] # "undefined" /\ d[2] # "undefined"
      /\ e[2] # "undefined"
  BY <1>6
<1>9. v[b] = k * Day /\ v[c] = kc * Hour /\ v[d] = kd * Minute /\ v[e] = s
  <2>0. ReadsAs(k) /\ ReadsAs(kc) /\ ReadsAs(kd) /\ ReadsAs(s) BY <1>4, <1>5, ReadOf
  <2>1. Read(b) = k * Day /\ Read(c) = kc * Hour /\ Read(d) = kd * Minute BY <1>6, <2>0 DEF ReadsAs
  <2>2. Read(e) = s BY <1>5, <1>6, <2>0 DEF ReadsAs
  <2>. QED BY <1>1, <2>1, <2>2
<1>. HIDE DEF v, zero
<1>10. ParseDurationString(text) = Taken(Sum(v, text), <<>>)
  <2>1. \A x : Has(text, x) => x[2] # "undefined" BY <1>1, <1>8
  <2>. QED BY <1>1, <2>1, Parsed DEF v
<1>11. Worth(v, a) = 0 /\ Worth(v, b) = k * Day /\ Worth(v, c) = kc * Hour /\ Worth(v, d) = kd * Minute
       /\ Worth(v, e) = s
  <2>1. b[1] = k /\ c[1] = kc /\ d[1] = kd /\ e[1] = s BY <1>6
  <2>2. \A x \in Nat : ~ (x > 0) => x = 0 OBVIOUS
  <2>3. \A x \in Nat : 0 * x = 0 OBVIOUS
  <2>4. Worth(v, b) = k * Day BY <1>4, <1>9, <2>1, <2>2, <2>3, UnitSizes DEF Worth
  <2>5. Worth(v, c) = kc * Hour BY <1>4, <1>9, <2>1, <2>2, <2>3, UnitSizes DEF Worth
  <2>6. Worth(v, d) = kd * Minute BY <1>4, <1>9, <2>1, <2>2, <2>3, UnitSizes DEF Worth
  <2>7. Worth(v, e) = s BY <1>5, <1>9, <2>1, <2>2 DEF Worth
  <2>8. Worth(v, a) = 0 BY <1>8 DEF Worth
  <2>. QED BY <2>4, <2>5, <2>6, <2>7, <2>8
<1>12. Sum(v, text) = n BY <1>1, <1>5, <1>7, <1>11
<1>. QED BY <1>10, <1>12 DEF text

(* parseDurationString reads what a node writes of a plain duration.         *)
LEMMA NodeParsed ==
  ASSUME NEW n \in Nat, Plain(n)
  PROVE  ParseDurationString(NodeTTL(n)) = Taken(n, <<>>)
<1>. DEFINE text == NodeTTL(n)
            v == [p \in Piece |-> Read(p)]
            w == [p \in Piece |-> v[Worded(p)]]
            b == <<n \div Day, "day">>
            c == <<(n % Day) \div Hour, "h">>
            d == <<(n % Hour) \div Minute, "m">>
            e == <<(n % Minute) \div Second, "s">>
            f == <<n % Second, "ms">>
            zero == <<0, "s">>
            all == {b, c, d, e, f}
<1>1. /\ text \in Seq(Piece) /\ text # <<>>
      /\ Sum(v, text) = Worth(w, b) + Worth(w, c) + Worth(w, d) + Worth(w, e) + Worth(w, f)
      /\ \A x : Has(text, x) => x = zero \/ \E y \in all : y[1] > 0 /\ x = Worded(y)
      /\ b \in Piece /\ c \in Piece /\ d \in Piece /\ e \in Piece /\ f \in Piece
  <2>1. v \in [Piece -> Int] /\ v[<<0, "s">>] = 0 BY ReadType
  <2>. HIDE DEF v
  <2>. QED BY <2>1, NodeText
<1>. DEFINE k == n \div Day
            kc == (n % Day) \div Hour
            kd == (n % Hour) \div Minute
            ke == (n % Minute) \div Second
<1>2. k \in Nat /\ kc \in Nat /\ kd \in Nat /\ ke \in Nat BY Counts DEF Counted
<1>3. b = <<k, "day">> /\ c = <<kc, "h">> /\ d = <<kd, "m">> /\ e = <<ke, "s">> /\ f = <<0, "ms">> BY DEF Second, Plain
<1>4. n = k * Day + kc * Hour + kd * Minute + (n % Minute) /\ k * Day \in Nat /\ kc * Hour \in Nat /\ kd * Minute \in Nat
  BY UnitsAdd
<1>5. n % Minute = ke * Second /\ ke * Second \in Nat /\ (ke * Second) % 1000 = 0 BY SMT DEF Minute, Second, Plain
<1>6. k <= 1 BY SMT DEF Day, Plain
<1>. HIDE DEF text, k, kc, kd, ke, b, c, d, e, f
<1>7. Worded(b) = b /\ Worded(c) = c /\ Worded(d) = d /\ Worded(f) = f
  <2>1. b[1] = k /\ b[2] = "day" /\ c[2] = "h" /\ d[2] = "m" /\ f[2] = "ms" BY <1>3
  <2>2. ~ (k > 1) BY <1>2, <1>6
  <2>. QED BY <2>1, <2>2 DEF Worded
<1>8. Worded(e) = <<ke * Second, "s">> BY <1>3 DEF Worded, Second
<1>9. zero[2] # "undefined" /\ Worded(b)[2] # "undefined" /\ Worded(c)[2] # "undefined" /\ Worded(d)[2] # "undefined"
      /\ Worded(e)[2] # "undefined" /\ Worded(f)[2] # "undefined"
  BY <1>3, <1>7, <1>8
<1>10. w[b] = k * Day /\ w[c] = kc * Hour /\ w[d] = kd * Minute /\ w[e] = ke * Second
  <2>0. ReadsAs(k) /\ ReadsAs(kc) /\ ReadsAs(kd) /\ ReadsAs(ke * Second) BY <1>2, <1>5, ReadOf
  <2>1. Read(Worded(b)) = k * Day /\ Read(Worded(c)) = kc * Hour /\ Read(Worded(d)) = kd * Minute
    BY <1>3, <1>7, <2>0 DEF ReadsAs
  <2>2. Read(Worded(e)) = ke * Second BY <1>5, <1>8, <2>0 DEF ReadsAs
  <2>3. \A p \in Piece : w[p] = Read(Worded(p)) BY WordedType
  <2>. HIDE DEF w
  <2>. QED BY <1>1, <2>1, <2>2, <2>3
<1>. HIDE DEF v, w, zero
<1>11. ParseDurationString(text) = Taken(Sum(v, text), <<>>)
  <2>1. \A x : Has(text, x) => x[2] # "undefined" BY <1>1, <1>9
  <2>. QED BY <1>1, <2>1, Parsed DEF v
<1>12. Worth(w, b) = k * Day /\ Worth(w, c) = kc * Hour /\ Worth(w, d) = kd * Minute
       /\ Worth(w, e) = ke * Second /\ Worth(w, f) = 0
  <2>1. b[1] = k /\ c[1] = kc /\ d[1] = kd /\ e[1] = ke /\ f[1] = 0 BY <1>3
  <2>2. \A x \in Nat : ~ (x > 0) => x = 0 OBVIOUS
  <2>3. \A x \in Nat : 0 * x = 0 OBVIOUS
  <2>4. Worth(w, b) = k * Day BY <1>2, <1>10, <2>1, <2>2, <2>3, UnitSizes DEF Worth
  <2>5. Worth(w, c) = kc * Hour BY <1>2, <1>10, <2>1, <2>2, <2>3, UnitSizes DEF Worth
  <2>6. Worth(w, d) = kd * Minute BY <1>2, <1>10, <2>1, <2>2, <2>3, UnitSizes DEF Worth
  <2>7. Second \in Nat BY SMT DEF Second
  <2>8. Worth(w, e) = ke * Second BY <1>2, <1>10, <2>1, <2>2, <2>3, <2>7 DEF Worth
  <2>9. Worth(w, f) = 0 BY <2>1 DEF Worth
  <2>. QED BY <2>4, <2>5, <2>6, <2>8, <2>9
<1>13. Sum(v, text) = n BY <1>1, <1>4, <1>5, <1>12
<1>. QED BY <1>11, <1>13 DEF text

(* Only the first prefix of the map is that of an account.                   *)
LEMMA AccountPrefixes ==
  /\ 1 \in DOMAIN KeyIDByPrefix
  /\ KeyIDByPrefix[1] = [prefix |-> <<"account", "hash">>, kind |-> "Account"]
  /\ \A i \in DOMAIN KeyIDByPrefix : i # 1 => /\ KeyIDByPrefix[i].kind # "Account"
                                              /\ KeyIDByPrefix[i].prefix[1] # "account"
                                              /\ DOMAIN KeyIDByPrefix[i].prefix = 1..Len(KeyIDByPrefix[i].prefix)
                                              /\ Len(KeyIDByPrefix[i].prefix) \in {1, 2, 3}
<1>1. /\ 1 \in DOMAIN KeyIDByPrefix
      /\ KeyIDByPrefix[1] = [prefix |-> <<"account", "hash">>, kind |-> "Account"]
      /\ \A i \in DOMAIN KeyIDByPrefix : i # 1 => KeyIDByPrefix[i].kind # "Account" /\ KeyIDByPrefix[i].prefix[1] # "account"
  BY SMTT(60) DEF KeyIDByPrefix
<1>2. \A i \in DOMAIN KeyIDByPrefix : Len(KeyIDByPrefix[i].prefix) \in {1, 2, 3} BY SMTT(60) DEF KeyIDByPrefix
<1>3. \A i \in DOMAIN KeyIDByPrefix : DOMAIN KeyIDByPrefix[i].prefix = 1..Len(KeyIDByPrefix[i].prefix)
  BY SMTT(60) DEF KeyIDByPrefix
<1>. QED BY <1>1, <1>2, <1>3

(* A hash is read back from its hexadecimal form.                            *)
LEMMA HashReadFromHex ==
  ASSUME NEW h \in Hashes
  PROVE  HashFromHex(<<Hex(h)>>) = Taken(h, <<>>)
<1>1. Len(h) = HashLen BY DEF Hashes
<1>2. Hex(h)[1] = "hex" /\ Hex(h)[2] = h /\ Len(Hex(h)) = 2 BY DEF Hex
<1>. DEFINE s == <<Hex(h)>>
<1>3. Len(s) = 1 /\ s[1] = Hex(h) OBVIOUS
<1>. HIDE DEF s
<1>. QED BY <1>1, <1>2, <1>3 DEF HashFromHex, IsHex, s

(* The prefix that an account hash is printed with, and is found by.         *)
LEMMA AccountPrefix == PrefixOf("Account") = <<"account", "hash">>
<1>. DEFINE of == {i \in DOMAIN KeyIDByPrefix : KeyIDByPrefix[i].kind = "Account"}
<1>1. of = {1} BY AccountPrefixes
<1>2. 1 \in Nat /\ 1 >= 1 OBVIOUS
<1>3. Max({1}) = 1 BY <1>2 DEF Max
<1>. HIDE DEF of
<1>4. PrefixOf("Account") = KeyIDByPrefix[Max(of)].prefix BY DEF PrefixOf, of
<1>. QED BY <1>1, <1>3, <1>4, AccountPrefixes

(* Two or three things in a row.                                             *)
LEMMA ThreeThings ==
  ASSUME NEW a, NEW b, NEW c
  PROVE  /\ SubSeq(<<a, b, c>>, 1, 2) = <<a, b>> /\ SubSeq(<<a, b>>, 1, 2) = <<a, b>>
         /\ SubSeq(<<a, b, c>>, 3, 3) = <<c>> /\ <<a, b>> \o <<c>> = <<a, b, c>>
<1>. DEFINE T == {a, b, c}
            three == <<a, b, c>>
            two == <<a, b>>
            one == <<c>>
<1>1. three \in Seq(T) /\ Len(three) = 3 /\ three[1] = a /\ three[2] = b /\ three[3] = c OBVIOUS
<1>2. two \in Seq(T) /\ Len(two) = 2 /\ two[1] = a /\ two[2] = b OBVIOUS
<1>3. one \in Seq(T) /\ Len(one) = 1 /\ one[1] = c OBVIOUS
<1>. HIDE DEF T, three, two, one
<1>4. SubSeq(three, 1, 2) = two BY <1>1, <1>2
<1>5. SubSeq(two, 1, 2) = two BY <1>2
<1>6. SubSeq(three, 3, 3) = one BY <1>1, <1>3
<1>7. two \o one = three
  <2>1. two \o <<c>> = Append(two, c)
    <3>1. c \in T BY DEF T
    <3>. QED BY <1>2, <3>1
  <2>2. Append(two, c) = three
    <3>1. c \in T BY DEF T
    <3>2. \A i \in 1..Len(two) : three[i] = two[i] BY <1>1, <1>2
    <3>3. Len(three) = Len(two) + 1 /\ three[Len(two) + 1] = c BY <1>1, <1>2
    <3>. QED BY <1>1, <1>2, <3>1, <3>2, <3>3, AppendIs
  <2>. QED BY <2>1, <2>2 DEF one
<1>. QED BY <1>4, <1>5, <1>6, <1>7 DEF three, two, one

(* The prefix of an account hash is found, and taken off.                    *)
LEMMA AccountFound ==
  ASSUME NEW x
  PROVE  LET source == <<<<"account">>, <<"hash">>, x>>
         IN  /\ FindPrefixByMap(source) = "Account"
             /\ Without(source, <<"account", "hash">>) = <<x>>
<1>. DEFINE source == <<<<"account">>, <<"hash">>, x>>
            T == {<<"account">>, <<"hash">>, x}
            map == KeyIDByPrefix
            matches == {i \in DOMAIN map : StartsWith(source, map[i].prefix)}
<1>1. Words(<<"account", "hash">>) = <<<<"account">>, <<"hash">>>> BY DEF Words, Word
<1>2. StartsWith(source, <<"account", "hash">>)
  <2>1. Len(source) = 3 /\ Len(<<<<"account">>, <<"hash">>>>) = 2 OBVIOUS
  <2>2. SubSeq(source, 1, 2) = <<<<"account">>, <<"hash">>>> BY ThreeThings
  <2>3. SubSeq(<<<<"account">>, <<"hash">>>>, 1, 2) = <<<<"account">>, <<"hash">>>> BY ThreeThings
  <2>. HIDE DEF source
  <2>. DEFINE two == <<<<"account">>, <<"hash">>>>
  <2>4. Words(<<"account", "hash">>) = two /\ Len(two) = 2 /\ SubSeq(source, 1, 2) = two /\ SubSeq(two, 1, 2) = two
    BY <1>1, <2>1, <2>2, <2>3
  <2>. HIDE DEF two, source
  <2>5. IsPrefix(two, source) BY <2>1, <2>4 DEF IsPrefix
  <2>. QED BY <2>4, <2>5 DEF StartsWith
<1>3. Without(source, <<"account", "hash">>) = <<x>>
  <2>1. Without(source, <<"account", "hash">>) = SubSeq(source, 3, 3) BY <1>2 DEF Without, From, Slice
  <2>2. SubSeq(source, 3, 3) = <<x>> BY ThreeThings
  <2>. QED BY <2>1, <2>2
<1>4. ASSUME NEW p, DOMAIN p = 1..Len(p), Len(p) \in {1, 2, 3}, StartsWith(source, p) PROVE p[1] = "account"
  <2>. DEFINE w == Words(p)
              n == Len(p)
  <2>1. n \in Nat /\ n > 0 /\ DOMAIN p = 1..n
    <3>1. Len(p) \in {1, 2, 3} /\ DOMAIN p = 1..Len(p) BY <1>4
    <3>. QED BY <3>1
  <2>2. w = [i \in 1..n |-> <<p[i]>>] BY <2>1 DEF Words, Word
  <2>3. Len(w) = n /\ w[1] = <<p[1]>> /\ w \in Seq({<<p[i]>> : i \in 1..n}) BY <2>1, <2>2
  <2>4. SubSeq(w, 1, n) = SubSeq(source, 1, n) /\ n <= Len(source) BY <1>4, <2>3 DEF StartsWith, IsPrefix
  <2>5. SubSeq(w, 1, n)[1] = w[1]
    <3>. HIDE DEF w, n
    <3>. QED BY <2>1, <2>3
  <2>6. SubSeq(source, 1, n)[1] = <<"account">>
    <3>1. source \in Seq(T) /\ Len(source) = 3 /\ source[1] = <<"account">> OBVIOUS
    <3>2. n \in 1..3 BY <2>1, <2>4, <3>1
    <3>. HIDE DEF source, T, n
    <3>. QED BY <3>1, <3>2
  <2>. HIDE DEF w, n
  <2>7. <<p[1]>> = <<"account">> BY <2>3, <2>4, <2>5, <2>6
  <2>. QED BY <2>7
<1>. HIDE DEF source
<1>5. matches = {1}
  <2>1. 1 \in DOMAIN map /\ StartsWith(source, map[1].prefix) BY <1>2, AccountPrefixes
  <2>2. \A i \in DOMAIN map : i # 1 => ~StartsWith(source, map[i].prefix) BY <1>4, AccountPrefixes
  <2>. HIDE DEF map
  <2>. QED BY <2>1, <2>2
<1>6. map[Max(matches)].kind = "Account" /\ matches # {}
  <2>1. 1 \in Nat /\ 1 >= 1 OBVIOUS
  <2>2. Max({1}) = 1 BY <2>1 DEF Max
  <2>3. map[1].kind = "Account" BY AccountPrefixes
  <2>. HIDE DEF map, matches
  <2>. QED BY <1>5, <2>2, <2>3
<1>. DEFINE kind == map[Max(matches)].kind
<1>7. FindPrefixByMap(source) =
        IF matches = {} THEN "none"
        ELSE CASE kind = "EraId" /\ StartsWith(source, <<"era", "summary">>) -> "EraSummary"
               [] kind = "Bid" /\ StartsWith(source, <<"bid", "addr">>) -> "BidAddr"
               [] kind = "Balance" /\ StartsWith(source, <<"balance", "hold">>) -> "BalanceHold"
               [] OTHER -> kind
  BY DEF FindPrefixByMap
<1>8. kind = "Account" BY <1>6
<1>. HIDE DEF kind, matches
<1>9. FindPrefixByMap(source) = "Account" BY <1>6, <1>7, <1>8
<1>. QED BY <1>3, <1>9 DEF source

(* An account hash is read from the string it is printed as.                 *)
LEMMA AccountRead ==
  ASSUME NEW h \in Hashes
  PROVE  NewKey(KeyString(<<"Account", h>>)) = Taken(<<"Account", h>>, <<>>)
<1>. DEFINE source == <<<<"account">>, <<"hash">>, Hex(h)>>
<1>1. Words(PrefixOf("Account")) \o <<Hex(h)>> = source
  <2>1. Words(<<"account", "hash">>) = <<<<"account">>, <<"hash">>>> BY DEF Words, Word
  <2>2. \A x : <<<<"account">>, <<"hash">>>> \o <<x>> = <<<<"account">>, <<"hash">>, x>> BY ThreeThings
  <2>. QED BY <2>1, <2>2, AccountPrefix
<1>2. "Account" \in HashKinds BY DEF HashKinds
<1>3. KeyString(<<"Account", h>>) = source
  <2>. DEFINE key == <<"Account", h>>
  <2>1. key[1] = "Account" /\ key[2] = h OBVIOUS
  <2>. HIDE DEF key, source
  <2>2. key[1] \in HashKinds BY <1>2, <2>1
  <2>4. KeyString(key) = Words(PrefixOf(key[1])) \o <<Hex(key[2])>> BY <2>1, <2>2, ZenonT(60) DEF KeyString
  <2>3. KeyString(key) = Words(PrefixOf("Account")) \o <<Hex(h)>> BY <2>1, <2>4
  <2>. QED BY <1>1, <2>3 DEF key
<1>4. FindPrefixByMap(source) = "Account" /\ Without(source, <<"account", "hash">>) = <<Hex(h)>> BY AccountFound
<1>5. Len(source) = 3 OBVIOUS
<1>. HIDE DEF source
<1>6. NewKey(source) = CreateByType(source, "Account") BY <1>4, <1>5 DEF NewKey
<1>7. CreateByType(source, "Account") = Taken(<<"Account", h>>, <<>>)
  <2>1. HashFromHex(Without(source, PrefixOf("Account"))) = Taken(h, <<>>) BY <1>4, AccountPrefix, HashReadFromHex
  <2>2. CreateByType(source, "Account")
          = Then(HashFromHex(Without(source, PrefixOf("Account"))), LAMBDA addr, ignored : Taken(<<"Account", addr>>, <<>>))
    BY <1>2, Zenon DEF CreateByType
  <2>. QED BY <2>1, <2>2 DEF Then, Taken
<1>. QED BY <1>3, <1>6, <1>7

(* A public key is read from its bytes.                                      *)
LEMMA PublicKeyRead ==
  ASSUME NEW key \in PublicKeys
  PROVE  /\ PublicKeyFromBytes(PublicKeyBytes(key)).threw = FALSE
         /\ PublicKeyFromBytes(PublicKeyBytes(key)).val = key
         /\ PublicKeyBytes(key) \in Octets
<1>. DEFINE alg == key[1]
            body == key[2]
            bytes == PublicKeyBytes(key)
            n == KeySize(alg)
<1>1. key = <<alg, body>> /\ alg \in {1, 2} /\ body \in Seq(Byte) /\ Len(body) = n BY DEF PublicKeys
<1>2. n \in Nat BY <1>1 DEF KeySize
<1>3. <<alg>> \in Seq(Nat) /\ Len(<<alg>>) = 1 /\ body \in Seq(Nat)
  <2>1. body \in Octets BY <1>1, BytesType
  <2>2. alg \in Nat BY <1>1
  <2>. HIDE DEF alg, body
  <2>. QED BY <2>1, <2>2 DEF Octets
<1>4. bytes = <<alg>> \o body BY DEF PublicKeyBytes
<1>5. bytes \in Seq(Nat) /\ Len(bytes) = 1 + n /\ bytes[1] = alg
  <2>. DEFINE a == <<alg>>
  <2>1. a[1] = alg OBVIOUS
  <2>. HIDE DEF a, bytes, alg, body, n
  <2>2. a \o body \in Seq(Nat) /\ Len(a \o body) = Len(a) + Len(body) BY <1>3, ConcatType DEF a
  <2>3. (a \o body)[1] = a[1] BY <1>3 DEF a
  <2>. QED BY <1>1, <1>3, <1>4, <2>1, <2>2, <2>3 DEF a
<1>6. Slice(bytes, 1, 1 + n) = body
  <2>. DEFINE a == <<alg>>
  <2>1. From(a \o body, Len(a)) = body BY <1>3, FromAfter
  <2>2. From(bytes, 1) = Slice(bytes, 1, 1 + n) BY <1>5 DEF From
  <2>. QED BY <1>3, <1>4, <2>1, <2>2
<1>7. bytes # <<>> BY <1>2, <1>5
<1>. HIDE DEF bytes, alg, body
<1>8. PublicKeyFromBytes(bytes) = Taken(<<alg, body>>, From(bytes, 1 + n))
  <2>1. ~ (bytes = <<>> \/ (bytes # <<>> /\ bytes[1] \notin {1, 2})) BY <1>1, <1>5, <1>7
  <2>2. ~ (Len(bytes) < 1 + KeySize(bytes[1])) BY <1>2, <1>5
  <2>3. Slice(bytes, 1, 1 + KeySize(bytes[1])) = body /\ From(bytes, 1 + KeySize(bytes[1])) = From(bytes, 1 + n)
    BY <1>5, <1>6
  <2>. HIDE DEF n
  <2>. QED BY <1>5, <2>1, <2>2, <2>3 DEF PublicKeyFromBytes
<1>. QED BY <1>1, <1>5, <1>8 DEF Taken, bytes, Octets

(* An initiator is read from its JSON.                                       *)
LEMMA InitiatorRead ==
  ASSUME NEW initiator \in Initiators
  PROVE  InitiatorFromJSON(InitiatorToJSON(initiator)) = Taken(initiator, <<>>)
<1>1. CASE initiator[1] = "AccountHash"
  <2>1. PICK h \in Hashes : initiator = <<"AccountHash", h>> BY <1>1 DEF Initiators
  <2>2. InitiatorToJSON(initiator) = <<"AccountHash", KeyString(<<"Account", h>>)>> BY <2>1 DEF InitiatorToJSON
  <2>. DEFINE text == KeyString(<<"Account", h>>)
  <2>3. NewKey(text) = Taken(<<"Account", h>>, <<>>) BY AccountRead
  <2>. HIDE DEF text
  <2>5. NewKey(text).threw = FALSE /\ NewKey(text).val[2] = h BY <2>3 DEF Taken
  <2>4. InitiatorFromJSON(<<"AccountHash", text>>) = Taken(<<"AccountHash", h>>, <<>>)
    BY <2>5 DEF InitiatorFromJSON, Then
  <2>. QED BY <2>1, <2>2, <2>4 DEF text
<1>2. CASE initiator[1] # "AccountHash"
  <2>1. PICK key \in PublicKeys : initiator = <<"PublicKey", key>> BY <1>2 DEF Initiators
  <2>. DEFINE bytes == PublicKeyBytes(key)
  <2>2. InitiatorToJSON(initiator) = <<"PublicKey", bytes>> BY <2>1 DEF InitiatorToJSON
  <2>3. PublicKeyFromBytes(bytes).threw = FALSE /\ PublicKeyFromBytes(bytes).val = key BY PublicKeyRead
  <2>. HIDE DEF bytes
  <2>4. InitiatorFromJSON(<<"PublicKey", bytes>>) = Taken(<<"PublicKey", key>>, <<>>)
    BY <2>3 DEF InitiatorFromJSON, Then, Taken
  <2>. QED BY <2>1, <2>2, <2>4
<1>. QED BY <1>1, <1>2

(* The fields of a table by their number.                                    *)
LEMMA FieldOf ==
  ASSUME NEW fields \in Seq(Octets), NEW j \in Nat
  PROVE  GetField(TableOf(fields), j) = IF j < Len(fields) THEN <<fields[j + 1]>> ELSE <<>>
<1>. DEFINE table == TableOf(fields)
            n == Len(fields)
            found == {i \in DOMAIN table : table[i].index = j}
<1>1. n \in Nat OBVIOUS
<1>2. DOMAIN table = 1..n /\ \A i \in 1..n : table[i].index = i - 1 /\ table[i].value = fields[i] BY DEF TableOf
<1>3. GetField(table, j) = IF found = {} THEN <<>> ELSE <<table[Min(found)].value>> BY DEF GetField
<1>. HIDE DEF table, n
<1>4. CASE j < n
  <2>1. j + 1 \in 1..n /\ \A i \in 1..n : i - 1 = j <=> i = j + 1 BY <1>1, <1>4
  <2>2. found = {j + 1} BY <1>2, <2>1
  <2>3. j + 1 <= j + 1 /\ Min({j + 1}) = j + 1 BY DEF Min
  <2>. HIDE DEF found
  <2>. QED BY <1>2, <1>3, <1>4, <2>1, <2>2, <2>3 DEF table, n
<1>5. CASE ~ (j < n)
  <2>1. \A i \in 1..n : i - 1 # j BY <1>1, <1>5
  <2>2. found = {} BY <1>2, <2>1
  <2>. HIDE DEF found
  <2>. QED BY <1>3, <1>5, <2>2 DEF table, n
<1>. QED BY <1>4, <1>5

(* What a reader of a table starts from: its tag, and its other fields.      *)
Opens(bytes, fields) ==
  LET table == CalltableFromBytes(bytes)
      n == Len(fields)
  IN  /\ table.threw = FALSE
      /\ (n > 0 => GetField(table.val, 0) = <<fields[1]>>)
      /\ (n > 1 => GetField(table.val, 1) = <<fields[2]>>)
      /\ (n > 2 => GetField(table.val, 2) = <<fields[3]>>)
      /\ (n > 3 => GetField(table.val, 3) = <<fields[4]>>)
      /\ (n = 3 => GetField(table.val, 3) = <<>>)

(* Every list of fields is read back from its calltable.                     *)
LEMMA Opened == \A fields \in Seq(Octets) : Opens(CalltableBytes(fields), fields)
<1>. SUFFICES ASSUME NEW fields \in Seq(Octets) PROVE Opens(CalltableBytes(fields), fields) OBVIOUS
<1>. DEFINE bytes == CalltableBytes(fields)
            n == Len(fields)
<1>1. CalltableFromBytes(bytes) = Taken(TableOf(fields), <<>>) BY TableRead
<1>. HIDE DEF bytes
<1>2. CalltableFromBytes(bytes).threw = FALSE /\ CalltableFromBytes(bytes).val = TableOf(fields) BY <1>1 DEF Taken
<1>. DEFINE get(j) == GetField(TableOf(fields), j)
<1>3. \A j \in Nat : get(j) = IF j < Len(fields) THEN <<fields[j + 1]>> ELSE <<>> BY FieldOf
<1>. HIDE DEF get
<1>4. n \in Nat /\ (n > 0 => get(0) = <<fields[1]>>) /\ (n > 1 => get(1) = <<fields[2]>>) BY <1>3
<1>5. (n > 2 => get(2) = <<fields[3]>>) /\ (n > 3 => get(3) = <<fields[4]>>) /\ (n = 3 => get(3) = <<>>) BY <1>3
<1>. QED BY <1>2, <1>4, <1>5 DEF Opens, bytes, get

(* One to four fields.                                                       *)
LEMMA FewFields ==
  ASSUME NEW a \in Octets, NEW b \in Octets, NEW c \in Octets, NEW d \in Octets
  PROVE  /\ <<a>> \in Seq(Octets) /\ Len(<<a>>) = 1 /\ <<a>>[1] = a
         /\ <<a, b>> \in Seq(Octets) /\ Len(<<a, b>>) = 2 /\ <<a, b>>[1] = a /\ <<a, b>>[2] = b
         /\ <<a, b, c>> \in Seq(Octets) /\ Len(<<a, b, c>>) = 3
         /\ <<a, b, c>>[1] = a /\ <<a, b, c>>[2] = b /\ <<a, b, c>>[3] = c
         /\ <<a, b, c, d>> \in Seq(Octets) /\ Len(<<a, b, c, d>>) = 4
         /\ <<a, b, c, d>>[1] = a /\ <<a, b, c, d>>[2] = b /\ <<a, b, c, d>>[3] = c /\ <<a, b, c, d>>[4] = d
         /\ <<a, b, c>> \o <<d>> = <<a, b, c, d>> /\ <<a, b, c>> \o <<>> = <<a, b, c>> /\ <<a>> \o <<b>> = <<a, b>>
         /\ <<a>> \o <<>> = <<a>>
<1>. DEFINE T == Octets
            one == <<a>>
            two == <<a, b>>
            three == <<a, b, c>>
            four == <<a, b, c, d>>
<1>1. one \in Seq(T) /\ Len(one) = 1 /\ one[1] = a OBVIOUS
<1>2. two \in Seq(T) /\ Len(two) = 2 /\ two[1] = a /\ two[2] = b OBVIOUS
<1>3. three \in Seq(T) /\ Len(three) = 3 /\ three[1] = a /\ three[2] = b /\ three[3] = c OBVIOUS
<1>4. four \in Seq(T) /\ Len(four) = 4 /\ four[1] = a /\ four[2] = b /\ four[3] = c /\ four[4] = d OBVIOUS
<1>5. \A s \in Seq(T), x \in T : s \o <<x>> = Append(s, x) /\ s \o <<>> = s OBVIOUS
<1>6. Append(three, d) = four
  <2>. HIDE DEF three, four
  <2>1. \A i \in 1..Len(three) : four[i] = three[i] BY <1>3, <1>4
  <2>2. Len(four) = Len(three) + 1 /\ four[Len(three) + 1] = d BY <1>3, <1>4
  <2>. QED BY <1>3, <1>4, <2>1, <2>2, AppendIs
<1>7. Append(one, b) = two
  <2>. HIDE DEF one, two
  <2>1. \A i \in 1..Len(one) : two[i] = one[i] BY <1>1, <1>2
  <2>2. Len(two) = Len(one) + 1 /\ two[Len(one) + 1] = b BY <1>1, <1>2
  <2>. QED BY <1>1, <1>2, <2>1, <2>2, AppendIs
<1>. HIDE DEF one, two, three, four
<1>8. three \o <<d>> = four /\ one \o <<b>> = two /\ one \o <<>> = one /\ three \o <<>> = three
  <2>1. three \o <<d>> = four BY <1>3, <1>5, <1>6
  <2>2. one \o <<b>> = two BY <1>1, <1>5, <1>7
  <2>3. one \o <<>> = one BY <1>1
  <2>4. three \o <<>> = three BY <1>3
  <2>. QED BY <2>1, <2>2, <2>3, <2>4
<1>. QED BY <1>1, <1>2, <1>3, <1>4, <1>8 DEF one, two, three, four

(* A tag is one byte.                                                        *)
LEMMA TagType == \A k \in Nat : <<k>> \in Octets /\ Len(<<k>>) = 1 /\ <<k>>[1] = k BY DEF Octets

(* The tag of an entry point is its place among the tags, from 0.            *)
LEMMA EntryTagIs ==
  /\ DOMAIN EntryPointTags = 1..13 /\ Len(EntryPointTags) = 13 /\ EntryPointTags[2] = "Custom"
  /\ \A i \in 1..13 : \A entry : entry[1] = EntryPointTags[i] => EntryPointTag(entry) = i - 1
  /\ \A i \in 1..13 : EntryPointTags[i] = "Custom" <=> i = 2
<1>. DEFINE tags == EntryPointTags
<1>1. DOMAIN tags = 1..13 /\ Len(tags) = 13 /\ tags[2] = "Custom" BY DEF EntryPointTags
<1>2. \A m, n \in 1..13 : tags[m] = tags[n] => m = n BY SMTT(60) DEF EntryPointTags
<1>. HIDE DEF tags
<1>3. ASSUME NEW i \in 1..13, NEW entry, entry[1] = tags[i] PROVE EntryPointTag(entry) = i - 1
  <2>. DEFINE found == {m \in 1..Len(tags) : tags[m] = entry[1]}
  <2>1. found = {i} BY <1>1, <1>2, <1>3
  <2>2. i \in Nat /\ Min({i}) = i BY DEF Min
  <2>3. EntryPointTag(entry) = (IF found # {} THEN Min(found) ELSE 0) - 1 BY DEF EntryPointTag, SelectInSeq, tags
  <2>. HIDE DEF found
  <2>. QED BY <2>1, <2>2, <2>3
<1>4. \A i \in 1..13 : tags[i] = "Custom" <=> i = 2
  <2>1. 2 \in 1..13 OBVIOUS
  <2>. QED BY <1>1, <1>2, <2>1
<1>. QED BY <1>1, <1>3, <1>4 DEF tags

(* An entry point that is not a custom one is read from its bytes.           *)
LEMMA EntryPointRead ==
  ASSUME NEW entry \in EntryPoints, entry[1] # "Custom"
  PROVE  EntryPointFromBytes(EntryPointBytes(entry)) = Taken(entry, <<>>)
<1>1. PICK i \in DOMAIN EntryPointTags : entry = <<EntryPointTags[i]>> BY DEF EntryPoints
<1>. DEFINE tags == EntryPointTags
            k == i - 1
<1>2. DOMAIN tags = 1..13 /\ Len(tags) = 13 BY DEF EntryPointTags
<1>4. EntryPointTag(entry) = k BY <1>1, <1>2, EntryTagIs
<1>5. k \in Nat /\ k < 13 /\ k + 1 = i BY <1>2
<1>. DEFINE tag == <<k>>
            bytes == CalltableBytes(<<tag>>)
<1>6. tag \in Octets /\ Len(tag) = 1 /\ tag[1] = k BY <1>5, TagType
<1>. HIDE DEF tags, k, tag
<1>7. EntryPointBytes(entry) = bytes
  <2>1. <<tag>> \o <<>> = <<tag>> BY <1>6, FewFields
  <2>2. <<<<EntryPointTag(entry)>>>> \o <<>> = <<tag>> BY <1>4, <2>1 DEF tag
  <2>. QED BY <2>2 DEF EntryPointBytes
<1>8. Opens(bytes, <<tag>>) BY <1>6, FewFields, Opened
<1>. HIDE DEF bytes
<1>9. CalltableFromBytes(bytes).threw = FALSE /\ GetField(CalltableFromBytes(bytes).val, 0) = <<tag>>
  <2>1. Len(<<tag>>) = 1 /\ <<tag>>[1] = tag OBVIOUS
  <2>. QED BY <1>8, <2>1 DEF Opens
<1>. DEFINE g == <<tag>>
<1>10. g # <<>> /\ g[1] = tag OBVIOUS
<1>. HIDE DEF g
<1>11. ~ (g = <<>> \/ (g # <<>> /\ (Len(g[1]) # 1 \/ (Len(g[1]) = 1 /\ g[1][1] >= Len(EntryPointTags)))))
  BY <1>2, <1>5, <1>6, <1>10 DEF tags
<1>12. GetField(CalltableFromBytes(bytes).val, 0) = g BY <1>9 DEF g
<1>13. EntryPointTags[g[1][1] + 1] = entry[1] BY <1>1, <1>5, <1>6, <1>10
<1>14. EntryPointFromBytes(bytes) = Taken(<<EntryPointTags[g[1][1] + 1]>>, <<>>)
  BY <1>9, <1>11, <1>12, <1>13 DEF EntryPointFromBytes, TaggedTable, Then
<1>. QED BY <1>1, <1>7, <1>13, <1>14

(* What is below 2^53 of a scheduling is read from its bytes.                *)
LEMMA SchedulingRead ==
  ASSUME NEW scheduling \in Schedulings, scheduling[1] = "Standard" \/ Exact(scheduling[2])
  PROVE  /\ SchedulingBytes(scheduling).threw = FALSE
         /\ SchedulingFromBytes(SchedulingBytes(scheduling).val) = Taken(scheduling, <<>>)
<1>1. CASE scheduling[1] = "Standard"
  <2>1. scheduling = <<"Standard">> BY <1>1 DEF Schedulings
  <2>. DEFINE tag == <<0>>
              g == <<tag>>
              bytes == CalltableBytes(g)
  <2>2. SchedulingBytes(scheduling) = Taken(bytes, <<>>) BY <1>1 DEF SchedulingBytes
  <2>3. tag \in Octets /\ Len(tag) = 1 /\ tag[1] = 0 BY TagType
  <2>. HIDE DEF tag
  <2>4. Opens(bytes, g) BY <2>3, FewFields, Opened
  <2>5. Len(g) = 1 /\ g[1] = tag /\ g # <<>> /\ <<g[1]>> = g OBVIOUS
  <2>. HIDE DEF g, bytes
  <2>6. CalltableFromBytes(bytes).threw = FALSE /\ GetField(CalltableFromBytes(bytes).val, 0) = g
    BY <2>4, <2>5 DEF Opens
  <2>7. ~ (g = <<>> \/ (g # <<>> /\ (Len(g[1]) # 1 \/ (Len(g[1]) = 1 /\ g[1][1] >= 3)))) BY <2>3, <2>5
  <2>9. SchedulingBytes(scheduling).threw = FALSE /\ SchedulingBytes(scheduling).val = bytes BY <2>2 DEF Taken
  <2>8. SchedulingFromBytes(bytes) = Taken(<<"Standard">>, <<>>)
    BY <2>3, <2>5, <2>6, <2>7 DEF SchedulingFromBytes, TaggedTable, Then
  <2>. QED BY <2>1, <2>9, <2>8
<1>2. CASE scheduling[1] # "Standard"
  <2>1. PICK word \in {"FutureEra", "FutureTimestamp"}, digits \in Numbers64 : scheduling = <<word, digits>>
    BY <1>2 DEF Schedulings
  <2>. DEFINE k == SchedulingTag[word]
              tag == <<k>>
              wide == Padded(digits, 8)
              g == <<tag, wide>>
              bytes == CalltableBytes(g)
  <2>2. SchedulingBytes(scheduling) = Taken(bytes, <<>>)
    <3>1. scheduling[1] = word /\ scheduling[2] = digits /\ Len(scheduling) = 2 BY <2>1
    <3>. HIDE DEF bytes
    <3>. QED BY <1>2, <3>1 DEF SchedulingBytes, bytes
  <2>3. k = IF word = "FutureEra" THEN 1 ELSE 2 BY DEF SchedulingTag
  <2>4. tag \in Octets /\ Len(tag) = 1 /\ tag[1] = k BY <2>3, TagType
  <2>5. wide \in Octets /\ Len(wide) = 8 /\ WithoutTopZeros(wide) = digits BY NumberPadded
  <2>. HIDE DEF k, tag, wide
  <2>6. Opens(bytes, g) BY <2>4, <2>5, FewFields, Opened
  <2>7. Len(g) = 2 /\ g[1] = tag /\ g[2] = wide BY <2>4, <2>5, FewFields
  <2>. HIDE DEF g, bytes
  <2>8. /\ CalltableFromBytes(bytes).threw = FALSE /\ GetField(CalltableFromBytes(bytes).val, 0) = <<tag>>
        /\ GetField(CalltableFromBytes(bytes).val, 1) = <<wide>>
    BY <2>6, <2>7 DEF Opens
  <2>. DEFINE g0 == <<tag>>
              g1 == <<wide>>
  <2>9. g0 # <<>> /\ g0[1] = tag /\ g1 # <<>> /\ g1[1] = wide OBVIOUS
  <2>. HIDE DEF g0, g1
  <2>10. ~ (g0 = <<>> \/ (g0 # <<>> /\ (Len(g0[1]) # 1 \/ (Len(g0[1]) = 1 /\ g0[1][1] >= 3)))) BY <2>3, <2>4, <2>9
  <2>11. GetField(CalltableFromBytes(bytes).val, 0) = g0 /\ GetField(CalltableFromBytes(bytes).val, 1) = g1
    BY <2>8 DEF g0, g1
  <2>12. ReadField(CalltableFromBytes(bytes).val, 1, FromBytesU64) = Taken(digits, <<>>)
    BY <2>5, <2>9, <2>11 DEF ReadField, FromBytesU64
  <2>16. ReadField(CalltableFromBytes(bytes).val, 1, FromBytesU64).threw = FALSE
         /\ ReadField(CalltableFromBytes(bytes).val, 1, FromBytesU64).val = digits
    BY <2>12 DEF Taken
  <2>17. SchedulingBytes(scheduling).threw = FALSE /\ SchedulingBytes(scheduling).val = bytes BY <2>2 DEF Taken
  <2>13. Exact(digits) BY <1>2, <2>1
  <2>14. g0[1][1] # 0 /\ (IF g0[1][1] = 1 THEN "FutureEra" ELSE "FutureTimestamp") = word BY <2>3, <2>4, <2>9
  <2>15. SchedulingFromBytes(bytes)
           = Taken(<<IF g0[1][1] = 1 THEN "FutureEra" ELSE "FutureTimestamp", digits>>, <<>>)
    BY <2>8, <2>10, <2>11, <2>13, <2>14, <2>16 DEF SchedulingFromBytes, TaggedTable, Then
  <2>. QED BY <2>1, <2>14, <2>15, <2>17
<1>. QED BY <1>1, <1>2

(* Each element on its own, one after the other.                             *)
LEMMA FlattenSingles ==
  ASSUME NEW T
  PROVE  \A s \in Seq(T) : FlattenSeq([i \in DOMAIN s |-> <<s[i]>>]) = s
<1>. DEFINE ones(s) == [i \in DOMAIN s |-> <<s[i]>>]
            P == {s \in Seq(T) : FlattenSeq(ones(s)) = s}
<1>1. \A e \in Seq(T) : e = <<>> => e \in P
  <2>1. SUFFICES ASSUME NEW e \in Seq(T), e = <<>> PROVE FlattenSeq(ones(e)) = e OBVIOUS
  <2>2. ones(e) = <<>> BY <2>1
  <2>. HIDE DEF ones
  <2>. QED BY <2>1, <2>2, FlattenEmpty
<1>2. ASSUME NEW s \in Seq(T), NEW x \in T, s \in P PROVE Append(s, x) \in P
  <2>. DEFINE t == Append(s, x)
              n == Len(s)
  <2>1. n \in Nat /\ t \in Seq(T) /\ Len(t) = n + 1 /\ t[n + 1] = x /\ \A i \in 1..n : t[i] = s[i] OBVIOUS
  <2>2. ones(s) \in Seq(Seq(T)) /\ Len(ones(s)) = n /\ \A i \in 1..n : ones(s)[i] = <<s[i]>>
    <3>1. \A i \in 1..n : <<s[i]>> \in Seq(T) OBVIOUS
    <3>2. DOMAIN s = 1..n /\ n \in Nat OBVIOUS
    <3>. HIDE DEF n
    <3>. QED BY <3>1, <3>2
  <2>3. ones(t) \in Seq(Seq(T)) /\ Len(ones(t)) = n + 1 /\ \A i \in 1..(n + 1) : ones(t)[i] = <<t[i]>>
    <3>1. \A i \in 1..(n + 1) : t[i] \in T BY <2>1
    <3>2. DOMAIN t = 1..(n + 1) BY <2>1
    <3>3. \A y \in T : <<y>> \in Seq(T) OBVIOUS
    <3>. HIDE DEF n, t
    <3>. QED BY <2>1, <3>1, <3>2, <3>3
  <2>4. <<x>> \in Seq(T) OBVIOUS
  <2>. HIDE DEF ones, t, n
  <2>5. Append(ones(s), <<x>>) = ones(t)
    <3>. DEFINE one == <<x>>
    <3>1. one \in Seq(T) BY <2>4
    <3>0. n + 1 \in 1..(n + 1) /\ \A i \in 1..n : i \in 1..(n + 1) BY <2>1
    <3>2. ones(t)[n + 1] = one /\ \A i \in 1..n : ones(t)[i] = ones(s)[i] BY <2>1, <2>2, <2>3, <3>0
    <3>. HIDE DEF one
    <3>3. Append(ones(s), one) = ones(t) BY <2>1, <2>2, <2>3, <3>1, <3>2, AppendIs
    <3>. QED BY <3>3 DEF one
  <2>6. FlattenSeq(ones(t)) = FlattenSeq(ones(s)) \o <<x>> BY <2>2, <2>4, <2>5, FlattenAppend
  <2>7. FlattenSeq(ones(s)) = s BY <1>2 DEF ones
  <2>8. s \o <<x>> = t BY DEF t
  <2>9. FlattenSeq(ones(t)) = t BY <2>6, <2>7, <2>8
  <2>. QED BY <2>1, <2>9 DEF t, ones
<1>. HIDE DEF P
<1>3. Seq(T) \subseteq P BY <1>1, <1>2, SequenceInduction
<1>. QED BY <1>3 DEF P

(* Text within ASCII is its own bytes.                                       *)
LEMMA AsciiWritten ==
  ASSUME NEW text \in Seq(Nat), Ascii(text)
  PROVE  Utf8(text) = text
<1>. DEFINE code(i) == CASE text[i] < 128 -> <<text[i]>>
                         [] text[i] = Replacement -> <<239, 191, 189>>
                         [] OTHER -> <<192 + (text[i] \div 64), 128 + (text[i] % 64)>>
<1>1. Utf8(text) = FlattenSeq([i \in DOMAIN text |-> code(i)]) BY DEF Utf8
<1>2. ASSUME NEW i \in DOMAIN text PROVE code(i) = <<text[i]>>
  <2>1. text[i] < 128 /\ text[i] \in Nat BY DEF Ascii
  <2>2. text[i] # Replacement BY <2>1, SMT DEF Replacement
  <2>. QED BY <2>1, <2>2
<1>. HIDE DEF code
<1>3. [i \in DOMAIN text |-> code(i)] = [i \in DOMAIN text |-> <<text[i]>>] BY <1>2
<1>. QED BY <1>1, <1>3, FlattenSingles

(* One list after another.                                                   *)
Follows(d, s, t) ==
  /\ \A i \in 1..Len(s) : d[i] = s[i]
  /\ \A i \in 1..Len(t) : d[Len(s) + i] = t[i]

(* The members of a list that follows another.                               *)
LEMMA ConcatElements == \A T : \A s, t \in Seq(T) : Follows(s \o t, s, t)
  BY DEF Follows

(* One element before the others.                                            *)
LEMMA HeadTail ==
  ASSUME NEW T, NEW x \in T, NEW b \in Seq(T)
  PROVE  LET d == <<x>> \o b
         IN  /\ d \in Seq(T) /\ Len(d) = Len(b) + 1 /\ d[1] = x
             /\ \A j \in 1..Len(b) : d[j + 1] = b[j]
<1>. DEFINE c == <<x>>
<1>1. c \in Seq(T) /\ Len(c) = 1 /\ c[1] = x OBVIOUS
<1>. HIDE DEF c
<1>. DEFINE d == c \o b
<1>2. /\ d \in Seq(T) /\ Len(d) = Len(c) + Len(b) /\ Len(b) \in Nat
      /\ \A i \in 1..Len(c) : d[i] = c[i]
      /\ \A i \in 1..Len(b) : d[Len(c) + i] = b[i]
  <2>1. d \in Seq(T) /\ Len(d) = Len(c) + Len(b) /\ Len(b) \in Nat BY <1>1, ConcatType
  <2>2. (\A i \in 1..Len(c) : d[i] = c[i]) /\ \A i \in 1..Len(b) : d[Len(c) + i] = b[i]
    <3>1. Follows(d, c, b) BY <1>1, ConcatElements
    <3>. QED BY <3>1 DEF Follows
  <2>. QED BY <2>1, <2>2
<1>. HIDE DEF d
<1>3. Len(d) = Len(b) + 1 /\ d[1] = x BY <1>1, <1>2
<1>4. \A j \in 1..Len(b) : d[j + 1] = b[j] BY <1>1, <1>2
<1>. QED BY <1>2, <1>3, <1>4 DEF c, d

(* What the reader of texts makes of the bytes from i on.                    *)
ReadsUtf8(f, bytes) ==
  f = [i \in 1..(Len(bytes) + 3) |->
            IF i > Len(bytes) THEN <<>>
            ELSE IF bytes[i] < 128 THEN <<bytes[i]>> \o f[i + 1]
            ELSE IF bytes[i] \in 192..223 /\ i < Len(bytes) /\ bytes[i + 1] \in 128..191
                 THEN <<(64 * (bytes[i] - 192)) + (bytes[i + 1] - 128)>> \o f[i + 2]
            ELSE IF Slice(bytes, i - 1, i + 2) = Utf8(<<Replacement>>)
                 THEN <<Replacement>> \o f[i + 3]
            ELSE <<Replacement>> \o f[i + 1]]

(* A text of ASCII letters is read back from its bytes.                      *)
LEMMA AsciiRead ==
  ASSUME NEW bytes \in Seq(Nat), Ascii(bytes)
  PROVE  FromUtf8(bytes) = bytes
<1>. DEFINE n == Len(bytes)
            f == CHOOSE g : ReadsUtf8(g, bytes)
            w == [i \in 1..(n + 3) |-> SubSeq(bytes, i, n)]
<1>1. FromUtf8(bytes) = f[1] BY DEF FromUtf8, ReadsUtf8
<1>2. n \in Nat OBVIOUS
<1>3. \A i \in 1..n : bytes[i] < 128 BY DEF Ascii
<1>4. \A i \in 1..n : SubSeq(bytes, i, n) = <<bytes[i]>> \o SubSeq(bytes, i + 1, n)
  <2>1. SUFFICES ASSUME NEW i \in 1..n PROVE SubSeq(bytes, i, n) = <<bytes[i]>> \o SubSeq(bytes, i + 1, n) OBVIOUS
  <2>. DEFINE a == SubSeq(bytes, i, n)
              b == SubSeq(bytes, i + 1, n)
              c == <<bytes[i]>>
  <2>2. a \in Seq(Nat) /\ Len(a) = n - i + 1 /\ \A j \in 1..(n - i + 1) : a[j] = bytes[i + j - 1] OBVIOUS
  <2>3. b \in Seq(Nat) /\ Len(b) = n - i /\ \A j \in 1..(n - i) : b[j] = bytes[i + j] OBVIOUS
  <2>. DEFINE d == c \o b
  <2>4. bytes[i] \in Nat OBVIOUS
  <2>. HIDE DEF a, b, n
  <2>5. d \in Seq(Nat) /\ Len(d) = Len(b) + 1 /\ d[1] = bytes[i] /\ \A j \in 1..Len(b) : d[j + 1] = b[j]
    BY <2>3, <2>4, HeadTail
  <2>. HIDE DEF d
  <2>6. \A j \in 1..(n - i + 1) : a[j] = d[j]
    <3>1. SUFFICES ASSUME NEW j \in 1..(n - i + 1) PROVE a[j] = d[j] OBVIOUS
    <3>0. n - i + 1 \in Nat /\ 1 \in 1..(n - i + 1) /\ i + 1 - 1 = i BY <1>2
    <3>2. CASE j = 1 BY <2>2, <2>5, <3>0, <3>2
    <3>3. CASE j # 1
      <4>1. j - 1 \in 1..(n - i) /\ (j - 1) + 1 = j /\ i + (j - 1) = i + j - 1 BY <1>2, <3>3
      <4>2. d[j] = b[j - 1] BY <2>3, <2>5, <4>1
      <4>. QED BY <2>2, <2>3, <4>1, <4>2
    <3>. QED BY <3>2, <3>3
  <2>7. a = d
    <3>1. Len(d) = n - i + 1 BY <1>2, <2>3, <2>5
    <3>. DEFINE m == n - i + 1
    <3>2. a = [j \in 1..m |-> a[j]] /\ d = [j \in 1..m |-> d[j]] BY <2>2, <2>5, <3>1
    <3>3. \A j \in 1..m : a[j] = d[j] BY <2>6
    <3>. HIDE DEF m
    <3>. QED BY <3>2, <3>3
  <2>. QED BY <2>7 DEF a, b, c, d
<1>5. \A i \in (n + 1)..(n + 3) : SubSeq(bytes, i, n) = <<>> BY <1>2
<1>6. ReadsUtf8(w, bytes)
  <2>. DEFINE rest(i) ==
            IF bytes[i] \in 192..223 /\ i < Len(bytes) /\ bytes[i + 1] \in 128..191
                 THEN <<(64 * (bytes[i] - 192)) + (bytes[i + 1] - 128)>> \o w[i + 2]
            ELSE IF Slice(bytes, i - 1, i + 2) = Utf8(<<Replacement>>)
                 THEN <<Replacement>> \o w[i + 3]
            ELSE <<Replacement>> \o w[i + 1]
              body(i) == IF i > n THEN <<>> ELSE IF bytes[i] < 128 THEN <<bytes[i]>> \o w[i + 1] ELSE rest(i)
  <2>. HIDE DEF rest
  <2>1. \A i \in 1..(n + 3) : w[i] = SubSeq(bytes, i, n) OBVIOUS
  <2>2. ASSUME NEW i \in 1..(n + 3) PROVE w[i] = body(i)
    <3>1. CASE i > n BY <1>2, <1>5, <2>1, <3>1
    <3>2. CASE ~ (i > n)
      <4>1. i \in 1..n /\ i + 1 \in 1..(n + 3) BY <1>2, <3>2
      <4>. HIDE DEF w
      <4>2. w[i + 1] = SubSeq(bytes, i + 1, n) BY <2>1, <4>1
      <4>. HIDE DEF n
      <4>3. w[i] = <<bytes[i]>> \o SubSeq(bytes, i + 1, n) BY <1>4, <2>1, <4>1
      <4>4. bytes[i] < 128 BY <1>3, <4>1
      <4>. QED BY <3>2, <4>2, <4>3, <4>4
    <3>. QED BY <3>1, <3>2
  <2>. HIDE DEF body
  <2>3. w = [i \in 1..(n + 3) |-> body(i)] BY <2>2
  <2>. HIDE DEF w
  <2>. QED BY <2>3 DEF ReadsUtf8, body, rest
<1>7. ReadsUtf8(f, bytes) BY <1>6
<1>. HIDE DEF f, w
<1>8. \A i \in 1..(n + 3) : f[i] = IF i > n THEN <<>> ELSE <<bytes[i]>> \o f[i + 1]
  <2>. DEFINE rest(i) ==
            IF bytes[i] \in 192..223 /\ i < Len(bytes) /\ bytes[i + 1] \in 128..191
                 THEN <<(64 * (bytes[i] - 192)) + (bytes[i + 1] - 128)>> \o f[i + 2]
            ELSE IF Slice(bytes, i - 1, i + 2) = Utf8(<<Replacement>>)
                 THEN <<Replacement>> \o f[i + 3]
            ELSE <<Replacement>> \o f[i + 1]
              body(i) == IF i > n THEN <<>> ELSE IF bytes[i] < 128 THEN <<bytes[i]>> \o f[i + 1] ELSE rest(i)
  <2>1. f = [i \in 1..(n + 3) |-> body(i)] BY <1>7 DEF ReadsUtf8
  <2>. HIDE DEF rest, body
  <2>2. \A i \in 1..(n + 3) : f[i] = body(i) BY <2>1
  <2>3. \A i \in 1..(n + 3) : body(i) = IF i > n THEN <<>> ELSE <<bytes[i]>> \o f[i + 1]
    <3>1. SUFFICES ASSUME NEW i \in 1..(n + 3)
                   PROVE  body(i) = IF i > n THEN <<>> ELSE <<bytes[i]>> \o f[i + 1]
      OBVIOUS
    <3>2. CASE i > n BY <3>2 DEF body
    <3>3. CASE ~ (i > n)
      <4>1. i \in 1..n BY <1>2, <3>3
      <4>2. bytes[i] < 128 BY <1>3, <4>1
      <4>. QED BY <3>3, <4>2 DEF body
    <3>. QED BY <3>2, <3>3
  <2>. QED BY <2>2, <2>3
<1>. DEFINE S == {k \in Nat : k <= n => f[n + 1 - k] = SubSeq(bytes, n + 1 - k, n)}
<1>9. 0 \in S
  <2>1. n + 1 - 0 = n + 1 /\ n + 1 \in (n + 1)..(n + 3) /\ n + 1 \in 1..(n + 3) /\ n + 1 > n BY <1>2
  <2>2. f[n + 1] = <<>> BY <1>8, <2>1
  <2>3. SubSeq(bytes, n + 1, n) = <<>> BY <1>5, <2>1
  <2>. QED BY <2>1, <2>2, <2>3
<1>10. ASSUME NEW k \in Nat, k \in S PROVE k + 1 \in S
  <2>1. SUFFICES ASSUME k + 1 <= n PROVE f[n + 1 - (k + 1)] = SubSeq(bytes, n + 1 - (k + 1), n) BY <1>2
  <2>. DEFINE i == n + 1 - (k + 1)
  <2>2. i \in 1..n /\ i \in 1..(n + 3) /\ ~ (i > n) /\ i + 1 = n + 1 - k BY <1>2, <2>1
  <2>3. f[i + 1] = SubSeq(bytes, i + 1, n) BY <1>2, <1>10, <2>1, <2>2
  <2>. HIDE DEF i, n
  <2>4. f[i] = <<bytes[i]>> \o f[i + 1] BY <1>8, <2>2
  <2>5. SubSeq(bytes, i, n) = <<bytes[i]>> \o SubSeq(bytes, i + 1, n) BY <1>4, <2>2
  <2>6. f[i] = SubSeq(bytes, i, n) BY <2>3, <2>4, <2>5
  <2>. QED BY <2>6 DEF i
<1>11. Nat \subseteq S
  <2>. HIDE DEF S
  <2>. QED BY <1>9, <1>10, NaturalInduction
<1>12. f[1] = SubSeq(bytes, 1, n)
  <2>1. n \in S /\ n <= n /\ n + 1 - n = 1 BY <1>2, <1>11
  <2>. QED BY <2>1
<1>13. SubSeq(bytes, 1, n) = bytes OBVIOUS
<1>. QED BY <1>1, <1>12, <1>13

(* A text within ASCII is read from its bytes.                               *)
LEMMA StringRead ==
  ASSUME NEW text \in Seq(Nat), Ascii(text)
  PROVE  StringFromBytes(StringBytes(text)) = Taken(text, <<>>) /\ StringBytes(text) \in Octets
<1>1. StringBytes(text) = U32(Len(text)) \o text BY AsciiWritten DEF StringBytes
<1>2. text \in Octets /\ Len(text) \in Nat BY DEF Octets
<1>3. ParseU32(U32(Len(text)) \o text) = Taken(Len(text), text) BY <1>2, ParsedU32
<1>4. Slice(text, 0, Len(text)) = text /\ From(text, Len(text)) = <<>> BY DEF Slice, From
<1>5. StringFromBytes(U32(Len(text)) \o text) = Taken(text, <<>>)
  <2>. DEFINE bytes == U32(Len(text)) \o text
              n == Len(text)
  <2>1. ParseU32(bytes).threw = FALSE /\ ParseU32(bytes).val = n /\ ParseU32(bytes).rest = text BY <1>3 DEF Taken
  <2>2. Slice(text, 0, n) = text /\ From(text, n) = <<>> BY <1>4
  <2>. HIDE DEF bytes, n
  <2>3. FromUtf8(text) = text BY AsciiRead
  <2>4. StringFromBytes(bytes) = Taken(FromUtf8(Slice(text, 0, n)), From(text, n))
    BY <2>1 DEF StringFromBytes, Then
  <2>. QED BY <2>2, <2>3, <2>4 DEF bytes
<1>6. U32(Len(text)) \o text \in Octets BY <1>2, WidthsType DEF Octets
<1>. QED BY <1>1, <1>5, <1>6

(* All of a list, and nothing after it.                                      *)
LEMMA SliceWhole ==
  ASSUME NEW T, NEW b \in Seq(T)
  PROVE  Slice(b, 0, Len(b)) = b /\ From(b, Len(b)) = <<>>
  BY DEF Slice, From

(* A hash is read back from its bytes.                                       *)
LEMMA HashRead ==
  ASSUME NEW hash \in Hashes
  PROVE  HashFromBytes(hash) = Taken(hash, <<>>) /\ hash \in Octets
<1>1. hash \in Seq(Byte) /\ Len(hash) = HashLen BY DEF Hashes
<1>2. hash \in Octets BY <1>1, BytesType
<1>3. Slice(hash, 0, Len(hash)) = hash /\ From(hash, Len(hash)) = <<>> BY <1>1, SliceWhole
<1>4. ~ (Len(hash) < HashLen) BY <1>1, SMT DEF HashLen
<1>. QED BY <1>1, <1>2, <1>3, <1>4 DEF HashFromBytes

(* A version is read back from its four bytes.                               *)
LEMMA U32Read ==
  ASSUME NEW n \in Nat
  PROVE  U32FromBytes(U32(n)) = Taken(n, <<>>)
<1>1. U32(n) \in Octets /\ Len(U32(n)) = 4 BY WidthsType
<1>2. Slice(U32(n), 0, 4) = U32(n) BY <1>1, SliceWhole DEF Octets
<1>3. Small(U32(n)) = n BY SmallWritten
<1>. DEFINE u == U32(n)
<1>. HIDE DEF u
<1>. QED BY <1>1, <1>2, <1>3 DEF U32FromBytes, u

Heads(d, x, b) == Len(d) = Len(b) + 1 /\ d[1] = x /\ \A j \in 1..Len(b) : d[j + 1] = b[j]

(* The first member and the rest of a list.                                  *)
LEMMA HeadIs == \A T : \A x \in T, b \in Seq(T) : Heads(<<x>> \o b, x, b)
<1>. SUFFICES ASSUME NEW T, NEW x \in T, NEW b \in Seq(T) PROVE Heads(<<x>> \o b, x, b) OBVIOUS
<1>. QED BY HeadTail DEF Heads

(* A version that is not 0 is read from its bytes.                           *)
LEMMA VersionRead ==
  ASSUME NEW version \in VersionOptions
  PROVE  /\ VersionBytes(version) \in Octets
         /\ Truthy(version) => /\ version = <<version[1]>> /\ version[1] \in Nat
                               /\ U32(version[1]) \in Octets
                               /\ VersionFromBytes(VersionBytes(version)) = Taken(version, <<>>)
<1>1. CASE ~Truthy(version)
  <2>1. VersionBytes(version) = <<0>> BY <1>1 DEF VersionBytes
  <2>. QED BY <1>1, <2>1, TagType
<1>2. CASE Truthy(version)
  <2>1. PICK n : n \in Nat /\ version = <<n>>
    <3>1. version # <<>> BY <1>2 DEF Truthy
    <3>2. PICK n \in 0..(TooLarge - 1) : version = <<n>> BY <3>1 DEF VersionOptions
    <3>3. n \in Nat
      <4>1. \A k : 0..k \subseteq Nat OBVIOUS
      <4>. QED BY <3>2, <4>1
    <3>. QED BY <3>2, <3>3
  <2>2. n \in Nat /\ version[1] = n BY <2>1
  <2>. DEFINE u == U32(n)
              one == <<1>>
              bytes == one \o u
  <2>3. u \in Seq(Nat) /\ Len(u) = 4 BY <2>2, WidthsType DEF Octets
  <2>4. VersionBytes(version) = bytes BY <1>2, <2>2 DEF VersionBytes
  <2>5. bytes \in Seq(Nat) /\ Len(bytes) = Len(u) + 1 /\ bytes[1] = 1
    <3>1. 1 \in Nat OBVIOUS
    <3>. HIDE DEF u
    <3>2. Heads(<<1>> \o u, 1, u) BY <2>3, <3>1, HeadIs
    <3>3. one \in Seq(Nat) OBVIOUS
    <3>4. bytes \in Seq(Nat)
      <4>. HIDE DEF one
      <4>. QED BY <2>3, <3>3, ConcatType
    <3>. HIDE DEF bytes
    <3>. QED BY <3>2, <3>4 DEF Heads, bytes
  <2>6. From(bytes, 1) = u
    <3>1. one \in Seq(Nat) /\ Len(one) = 1 OBVIOUS
    <3>2. From(one \o u, Len(one)) = u
      <4>. HIDE DEF one, u
      <4>. QED BY <2>3, <3>1, FromAfter
    <3>. QED BY <3>1, <3>2
  <2>7. U32FromBytes(u) = Taken(n, <<>>) BY <2>2, U32Read
  <2>. HIDE DEF u, bytes
  <2>. HIDE DEF one
  <2>8. bytes # <<>> /\ bytes[1] # 0
    <3>1. \A k, l : Len(k) = Len(l) + 1 /\ Len(l) = 4 => k # <<>> OBVIOUS
    <3>2. bytes # <<>> BY <2>3, <2>5, <3>1
    <3>. QED BY <2>5, <3>2
  <2>9. U32FromBytes(u).threw = FALSE /\ U32FromBytes(u).val = n BY <2>7 DEF Taken
  <2>10. VersionFromBytes(bytes) = Taken(<<n>>, <<>>) BY <2>6, <2>8, <2>9 DEF VersionFromBytes, Then
  <2>. QED BY <2>1, <2>2, <2>3, <2>4, <2>5, <2>10 DEF Octets, u
<1>. QED BY <1>1, <1>2

(* How an id is read: versions that are not said are none.                   *)
MeantId(id) ==
  IF id[1] \notin {"ByPackageHash", "ByPackageName"} THEN id
  ELSE <<id[1], id[2], IF Truthy(id[3]) THEN id[3] ELSE <<>>, IF Truthy(id[4]) THEN id[4] ELSE <<>>>>

(* The letters of a text are numbers.                                        *)
LEMMA TextType == \A text \in Texts : text \in Seq(Nat)
<1>. DEFINE letters == 0..2047 \cup {Replacement}
            numbers == Nat
<1>1. Texts = Seq(0..2047 \cup {Replacement}) BY DEF Texts
<1>2. Texts = Seq(letters) BY <1>1
<1>3. letters \subseteq numbers
  <2>1. Replacement \in Nat BY SMT DEF Replacement
  <2>2. \A r \in Nat : 0..2047 \cup {r} \subseteq Nat BY SMT
  <2>. QED BY <2>1, <2>2
<1>. HIDE DEF letters, numbers
<1>4. \A text \in Texts : text \in Seq(numbers) BY <1>2, <1>3, Widened
<1>. QED BY <1>4 DEF numbers

(* How an id is read, by its tag.                                            *)
Invokes(bytes, k) ==
  LET table == CalltableFromBytes(bytes).val
      hash == ReadField(table, 1, HashFromBytes)
      name == ReadField(table, 1, StringFromBytes)
  IN  /\ (k = 0 => InvocationFromBytes(bytes) = IF hash.threw THEN Thrown ELSE Taken(<<"ByHash", hash.val>>, <<>>))
      /\ (k = 1 => InvocationFromBytes(bytes) = IF name.threw THEN Thrown ELSE Taken(<<"ByName", name.val>>, <<>>))
      /\ (k = 2 => InvocationFromBytes(bytes) = ByPackageFromBytes("ByPackageHash", table, HashFromBytes))
      /\ (k = 3 => InvocationFromBytes(bytes) = ByPackageFromBytes("ByPackageName", table, StringFromBytes))

(* The first field of an invocation says which of the four it is.            *)
LEMMA InvocationOf ==
  \A g \in Seq(Octets), k \in {0, 1, 2, 3} : Len(g) > 0 /\ g[1] = <<k>> => Invokes(CalltableBytes(g), k)
<1>. SUFFICES ASSUME NEW g \in Seq(Octets), NEW k \in {0, 1, 2, 3}, Len(g) > 0, g[1] = <<k>>
              PROVE  Invokes(CalltableBytes(g), k)
  OBVIOUS
<1>. DEFINE tag == <<k>>
            bytes == CalltableBytes(g)
            table == CalltableFromBytes(bytes).val
            hash == ReadField(table, 1, HashFromBytes)
            name == ReadField(table, 1, StringFromBytes)
            byHash == IF hash.threw THEN Thrown ELSE Taken(<<"ByHash", hash.val>>, <<>>)
            byName == IF name.threw THEN Thrown ELSE Taken(<<"ByName", name.val>>, <<>>)
            byPackageHash == ByPackageFromBytes("ByPackageHash", table, HashFromBytes)
            byPackageName == ByPackageFromBytes("ByPackageName", table, StringFromBytes)
            g0 == <<tag>>
<1>1. tag \in Octets /\ Len(tag) = 1 /\ tag[1] = k BY TagType
<1>2. g0 # <<>> /\ g0[1] = tag OBVIOUS
<1>3. Opens(bytes, g) BY Opened
<1>. HIDE DEF tag, bytes, g0
<1>4. CalltableFromBytes(bytes).threw = FALSE /\ GetField(table, 0) = g0 BY <1>3 DEF Opens, g0, tag
<1>5. ~ (g0 = <<>> \/ (g0 # <<>> /\ (Len(g0[1]) # 1 \/ (Len(g0[1]) = 1 /\ g0[1][1] >= 4)))) BY <1>1, <1>2
<1>6. g0[1][1] = k BY <1>1, <1>2
<1>7. InvocationFromBytes(bytes) =
        CASE g0[1][1] = 0 -> byHash [] g0[1][1] = 1 -> byName
          [] g0[1][1] = 2 -> byPackageHash [] g0[1][1] = 3 -> byPackageName
  BY <1>4, <1>5 DEF InvocationFromBytes, TaggedTable, Then
<1>. HIDE DEF byHash, byName, byPackageHash, byPackageName
<1>8. CASE k = 0
  <2>1. g0[1][1] = 0 /\ g0[1][1] # 1 /\ g0[1][1] # 2 /\ g0[1][1] # 3 BY <1>6, <1>8
  <2>2. InvocationFromBytes(bytes) = byHash BY <1>7, <2>1, Zenon
  <2>. QED BY <1>8, <2>2 DEF Invokes, bytes, byHash
<1>9. CASE k = 1
  <2>1. g0[1][1] # 0 /\ g0[1][1] = 1 /\ g0[1][1] # 2 /\ g0[1][1] # 3 BY <1>6, <1>9
  <2>2. InvocationFromBytes(bytes) = byName BY <1>7, <2>1, Zenon
  <2>. QED BY <1>9, <2>2 DEF Invokes, bytes, byName
<1>10. CASE k = 2
  <2>1. g0[1][1] # 0 /\ g0[1][1] # 1 /\ g0[1][1] = 2 /\ g0[1][1] # 3 BY <1>6, <1>10
  <2>2. InvocationFromBytes(bytes) = byPackageHash BY <1>7, <2>1, Zenon
  <2>. QED BY <1>10, <2>2 DEF Invokes, bytes, byPackageHash
<1>11. CASE k = 3
  <2>1. g0[1][1] # 0 /\ g0[1][1] # 1 /\ g0[1][1] # 2 /\ g0[1][1] = 3 BY <1>6, <1>11
  <2>2. InvocationFromBytes(bytes) = byPackageName BY <1>7, <2>1, Zenon
  <2>. QED BY <1>11, <2>2 DEF Invokes, bytes, byPackageName
<1>. QED BY <1>8, <1>9, <1>10, <1>11

(* An id that is a hash, or a name of ASCII letters, is read from its bytes. *)
LEMMA ByHashRead ==
  ASSUME NEW hash \in Hashes
  PROVE  InvocationFromBytes(CalltableBytes(<<<<0>>, hash>>)) = Taken(<<"ByHash", hash>>, <<>>)
<1>. DEFINE tag == <<0>>
            g == <<tag, hash>>
            bytes == CalltableBytes(g)
            g1 == <<hash>>
            read == ReadField(CalltableFromBytes(bytes).val, 1, HashFromBytes)
<1>1. tag \in Octets /\ hash \in Octets /\ HashFromBytes(hash) = Taken(hash, <<>>) BY TagType, HashRead
<1>2. g1 # <<>> /\ g1[1] = hash OBVIOUS
<1>. HIDE DEF tag, bytes
<1>3. g \in Seq(Octets) /\ Opens(bytes, g) /\ Len(g) = 2 /\ g[1] = tag /\ g[2] = hash
  BY <1>1, FewFields, Opened DEF bytes
<1>. HIDE DEF g, g1
<1>4. Invokes(bytes, 0) BY <1>3, InvocationOf DEF bytes, tag
<1>5. GetField(CalltableFromBytes(bytes).val, 1) = g1 BY <1>3 DEF Opens, g1
<1>6. read = Taken(hash, <<>>) BY <1>1, <1>2, <1>5 DEF ReadField
<1>7. read.threw = FALSE /\ read.val = hash BY <1>6 DEF Taken
<1>8. InvocationFromBytes(bytes) = IF read.threw THEN Thrown ELSE Taken(<<"ByHash", read.val>>, <<>>) BY <1>4 DEF Invokes
<1>. HIDE DEF read
<1>. QED BY <1>7, <1>8 DEF bytes, g, tag

(* The invocation of a contract by name is read back from its bytes.         *)
LEMMA ByNameRead ==
  ASSUME NEW name \in Texts, Ascii(name)
  PROVE  InvocationFromBytes(CalltableBytes(<<<<1>>, StringBytes(name)>>)) = Taken(<<"ByName", name>>, <<>>)
<1>. DEFINE tag == <<1>>
            text == StringBytes(name)
            g == <<tag, text>>
            bytes == CalltableBytes(g)
            g1 == <<text>>
            read == ReadField(CalltableFromBytes(bytes).val, 1, StringFromBytes)
<1>1. tag \in Octets BY TagType
<1>2. text \in Octets /\ StringFromBytes(text) = Taken(name, <<>>) BY TextType, StringRead
<1>3. g1 # <<>> /\ g1[1] = text OBVIOUS
<1>. HIDE DEF tag, text, bytes
<1>4. g \in Seq(Octets) /\ Opens(bytes, g) /\ Len(g) = 2 /\ g[1] = tag /\ g[2] = text
  BY <1>1, <1>2, FewFields, Opened DEF bytes
<1>. HIDE DEF g, g1
<1>5. Invokes(bytes, 1) BY <1>4, InvocationOf DEF bytes, tag
<1>6. GetField(CalltableFromBytes(bytes).val, 1) = g1 BY <1>4 DEF Opens, g1
<1>7. read = Taken(name, <<>>) BY <1>2, <1>3, <1>6 DEF ReadField
<1>8. read.threw = FALSE /\ read.val = name BY <1>7 DEF Taken
<1>9. InvocationFromBytes(bytes) = IF read.threw THEN Thrown ELSE Taken(<<"ByName", read.val>>, <<>>) BY <1>5 DEF Invokes
<1>. HIDE DEF read
<1>. QED BY <1>8, <1>9 DEF bytes, g, tag, text

(* Three fields and one more.                                                *)
LEMMA FourFields ==
  \A a, b, c, d \in Octets : <<a, b, c>> \o <<d>> = <<a, b, c, d>>
<1>. SUFFICES ASSUME NEW a \in Octets, NEW b \in Octets, NEW c \in Octets, NEW d \in Octets
              PROVE  <<a, b, c>> \o <<d>> = <<a, b, c, d>>
  OBVIOUS
<1>. DEFINE T == Octets
            three == <<a, b, c>>
            four == <<a, b, c, d>>
<1>1. three \in Seq(T) /\ Len(three) = 3 /\ three[1] = a /\ three[2] = b /\ three[3] = c OBVIOUS
<1>2. four \in Seq(T) /\ Len(four) = 4 /\ four[1] = a /\ four[2] = b /\ four[3] = c /\ four[4] = d OBVIOUS
<1>3. \A s \in Seq(T), x \in T : s \o <<x>> = Append(s, x) OBVIOUS
<1>. HIDE DEF three, four
<1>4. \A i \in 1..Len(three) : four[i] = three[i] BY <1>1, <1>2
<1>5. Len(four) = Len(three) + 1 /\ four[Len(three) + 1] = d BY <1>1, <1>2
<1>6. Append(three, d) = four BY <1>1, <1>2, <1>4, <1>5, AppendIs
<1>. QED BY <1>1, <1>3, <1>6 DEF three, four

(* The fields of a package with its versions.                                *)
PackageFields(tag, package, version, major) ==
  <<<<tag>>, package, VersionBytes(version)>> \o IF Truthy(major) THEN <<U32(major[1])>> ELSE <<>>

(* What is found of them: the package, a version that is not 0, and a major  *)
(* version only if there is one.                                             *)
Packages(table, package, version, major) ==
  /\ GetField(table, 1) = <<package>>
  /\ Truthy(version) => ReadField(table, 2, VersionFromBytes) = Taken(version, <<>>)
  /\ IF Truthy(major) THEN /\ GetField(table, 3) # <<>>
                           /\ ReadField(table, 3, U32FromBytes) = Taken(major[1], <<>>) /\ major = <<major[1]>>
     ELSE GetField(table, 3) = <<>>

(* The fields of the invocation of a package are found in its calltable,     *)
(* the versions it leaves out excepted.                                      *)
LEMMA PackageFound ==
  ASSUME NEW tag \in Nat, NEW package \in Octets, NEW version \in VersionOptions, NEW major \in VersionOptions
  PROVE  /\ PackageFields(tag, package, version, major) \in Seq(Octets)
         /\ Len(PackageFields(tag, package, version, major)) > 0
         /\ PackageFields(tag, package, version, major)[1] = <<tag>>
         /\ Packages(CalltableFromBytes(CalltableBytes(PackageFields(tag, package, version, major))).val,
                     package, version, major)
<1>. DEFINE t == <<tag>>
            v == VersionBytes(version)
            m == U32(major[1])
            g == PackageFields(tag, package, version, major)
            bytes == CalltableBytes(g)
            table == CalltableFromBytes(bytes).val
            f1 == <<package>>
            f2 == <<v>>
            f3 == <<m>>
<1>1. t \in Octets BY TagType
<1>2. v \in Octets /\ (Truthy(version) => VersionFromBytes(v) = Taken(version, <<>>)) BY VersionRead
<1>3. Truthy(major) => /\ m \in Octets /\ U32FromBytes(m) = Taken(major[1], <<>>) /\ major = <<major[1]>>
  BY VersionRead, U32Read
<1>4. f1 # <<>> /\ f1[1] = package /\ f2 # <<>> /\ f2[1] = v /\ f3 # <<>> /\ f3[1] = m OBVIOUS
<1>5. g = <<t, package, v>> \o IF Truthy(major) THEN <<m>> ELSE <<>> BY DEF PackageFields
<1>. HIDE DEF t, v, m, g
<1>6. CASE Truthy(major)
  <2>1. m \in Octets BY <1>3, <1>6
  <2>9. <<t, package, v>> \o <<m>> = <<t, package, v, m>>
    <3>1. v \in Octets BY <1>2
    <3>. QED BY <1>1, <2>1, <3>1, FourFields, Zenon
  <2>10. g = <<t, package, v>> \o <<m>> BY <1>5, <1>6, Zenon
  <2>2. g = <<t, package, v, m>> BY <2>9, <2>10, Zenon
  <2>3. g \in Seq(Octets) /\ Len(g) = 4 /\ g[1] = t /\ g[2] = package /\ g[3] = v /\ g[4] = m
    BY <1>1, <1>2, <2>1, <2>2, FewFields
  <2>4. Opens(bytes, g) BY <2>3, Opened
  <2>. HIDE DEF bytes, f1, f2, f3
  <2>5. GetField(table, 1) = f1 /\ GetField(table, 2) = f2 /\ GetField(table, 3) = f3
    BY <2>3, <2>4 DEF Opens, f1, f2, f3
  <2>. HIDE DEF table
  <2>6. Truthy(version) => ReadField(table, 2, VersionFromBytes) = Taken(version, <<>>)
    BY <1>2, <1>4, <2>5 DEF ReadField
  <2>7. ReadField(table, 3, U32FromBytes) = Taken(major[1], <<>>) BY <1>3, <1>4, <1>6, <2>5 DEF ReadField
  <2>8. Packages(table, package, version, major)
    BY <1>3, <1>4, <1>6, <2>5, <2>6, <2>7 DEF Packages, f1
  <2>. QED BY <2>3, <2>8 DEF g, table, bytes, t
<1>7. CASE ~Truthy(major)
  <2>2. g = <<t, package, v>> BY <1>1, <1>2, <1>5, <1>7, FewFields
  <2>3. g \in Seq(Octets) /\ Len(g) = 3 /\ g[1] = t /\ g[2] = package /\ g[3] = v
    BY <1>1, <1>2, <2>2, FewFields
  <2>4. Opens(bytes, g) BY <2>3, Opened
  <2>. HIDE DEF bytes, f1, f2, f3
  <2>5. GetField(table, 1) = f1 /\ GetField(table, 2) = f2 /\ GetField(table, 3) = <<>>
    BY <2>3, <2>4 DEF Opens, f1, f2
  <2>. HIDE DEF table
  <2>6. Truthy(version) => ReadField(table, 2, VersionFromBytes) = Taken(version, <<>>)
    BY <1>2, <1>4, <2>5 DEF ReadField
  <2>8. Packages(table, package, version, major)
    BY <1>4, <1>7, <2>5, <2>6 DEF Packages, f1
  <2>. QED BY <2>3, <2>8 DEF g, table, bytes, t
<1>. QED BY <1>6, <1>7

(* So a package whose version is said is read back.                          *)
PackageOf(kind, table, package) ==
  IF package.threw THEN Thrown
  ELSE Then(ReadField(table, 2, VersionFromBytes), LAMBDA version, none :
         IF GetField(table, 3) = <<>> THEN Taken(<<kind, package.val, version, <<>>>>, <<>>)
         ELSE Then(ReadField(table, 3, U32FromBytes), LAMBDA major, nothing :
                Taken(<<kind, package.val, version, <<major>>>>, <<>>)))

(* The package is read back if its version is there and is not zero.         *)
LEMMA PackageRead ==
  \A table, kind, written, package, version, major :
    Packages(table, written, version, major) /\ Truthy(version) =>
      PackageOf(kind, table, Taken(package, <<>>))
        = Taken(<<kind, package, version, IF Truthy(major) THEN major ELSE <<>>>>, <<>>)
<1>. SUFFICES ASSUME NEW table, NEW kind, NEW written, NEW package, NEW version, NEW major,
                     Packages(table, written, version, major), Truthy(version)
              PROVE  PackageOf(kind, table, Taken(package, <<>>))
                       = Taken(<<kind, package, version, IF Truthy(major) THEN major ELSE <<>>>>, <<>>)
  OBVIOUS
<1>. DEFINE r1 == Taken(package, <<>>)
            r2 == ReadField(table, 2, VersionFromBytes)
            r3 == ReadField(table, 3, U32FromBytes)
<1>4. r1.threw = FALSE /\ r1.val = package BY DEF Taken
<1>5. r2 = Taken(version, <<>>) BY DEF Packages
<1>6. r2.threw = FALSE /\ r2.val = version BY <1>5 DEF Taken
<1>7. CASE Truthy(major)
  <2>1. GetField(table, 3) # <<>> /\ r3 = Taken(major[1], <<>>) /\ major = <<major[1]>> BY <1>7 DEF Packages
  <2>2. r3.threw = FALSE /\ r3.val = major[1] BY <2>1 DEF Taken
  <2>. HIDE DEF r1, r2, r3
  <2>3. PackageOf(kind, table, r1) = Taken(<<kind, r1.val, r2.val, <<r3.val>>>>, <<>>)
    BY <1>4, <1>6, <2>1, <2>2 DEF PackageOf, Then, r2, r3
  <2>. QED BY <1>4, <1>6, <1>7, <2>1, <2>2, <2>3 DEF r1
<1>8. CASE ~Truthy(major)
  <2>1. GetField(table, 3) = <<>> BY <1>8 DEF Packages
  <2>. HIDE DEF r1, r2, r3
  <2>3. PackageOf(kind, table, r1) = Taken(<<kind, r1.val, r2.val, <<>>>>, <<>>)
    BY <1>4, <1>6, <2>1 DEF PackageOf, Then, r2, r3
  <2>. QED BY <1>4, <1>6, <1>8, <2>3 DEF r1
<1>. QED BY <1>7, <1>8

(* Each of the two by the reader of its package.                             *)
LEMMA PackageIs ==
  \A kind, table :
    /\ ByPackageFromBytes(kind, table, HashFromBytes) = PackageOf(kind, table, ReadField(table, 1, HashFromBytes))
    /\ ByPackageFromBytes(kind, table, StringFromBytes) = PackageOf(kind, table, ReadField(table, 1, StringFromBytes))
BY DEF ByPackageFromBytes, PackageOf, Then

(* The bytes of an id, by its kind.                                          *)
LEMMA InvocationWritten ==
  \A id :
    LET fields == PackageFields(IF id[1] = "ByPackageHash" THEN 2 ELSE 3,
                                IF id[1] = "ByPackageHash" THEN id[2] ELSE StringBytes(id[2]), id[3], id[4])
    IN  /\ (id[1] = "ByHash" => InvocationBytes(id) = Taken(CalltableBytes(<<<<0>>, id[2]>>), <<>>))
        /\ (id[1] = "ByName" =>
              InvocationBytes(id) = IF id[2] = <<>> THEN Thrown
                                    ELSE Taken(CalltableBytes(<<<<1>>, StringBytes(id[2])>>), <<>>))
        /\ (id[1] \in {"ByPackageHash", "ByPackageName"} => InvocationBytes(id) = Taken(CalltableBytes(fields), <<>>))
<1>. SUFFICES ASSUME NEW id
              PROVE  LET fields == PackageFields(IF id[1] = "ByPackageHash" THEN 2 ELSE 3,
                                IF id[1] = "ByPackageHash" THEN id[2] ELSE StringBytes(id[2]), id[3], id[4])
    IN  /\ (id[1] = "ByHash" => InvocationBytes(id) = Taken(CalltableBytes(<<<<0>>, id[2]>>), <<>>))
        /\ (id[1] = "ByName" =>
              InvocationBytes(id) = IF id[2] = <<>> THEN Thrown
                                    ELSE Taken(CalltableBytes(<<<<1>>, StringBytes(id[2])>>), <<>>))
        /\ (id[1] \in {"ByPackageHash", "ByPackageName"} => InvocationBytes(id) = Taken(CalltableBytes(fields), <<>>))
  OBVIOUS
<1>. DEFINE byHash == Taken(CalltableBytes(<<<<0>>, id[2]>>), <<>>)
            byName == IF id[2] = <<>> THEN Thrown ELSE Taken(CalltableBytes(<<<<1>>, StringBytes(id[2])>>), <<>>)
            byPackageHash == Taken(ByPackageBytes(2, id[2], id[3], id[4]), <<>>)
            byPackageName == Taken(ByPackageBytes(3, StringBytes(id[2]), id[3], id[4]), <<>>)
<1>1. InvocationBytes(id) = CASE id[1] = "ByHash" -> byHash [] id[1] = "ByName" -> byName
                              [] id[1] = "ByPackageHash" -> byPackageHash [] id[1] = "ByPackageName" -> byPackageName
  BY DEF InvocationBytes
<1>2. /\ byPackageHash = Taken(CalltableBytes(PackageFields(2, id[2], id[3], id[4])), <<>>)
      /\ byPackageName = Taken(CalltableBytes(PackageFields(3, StringBytes(id[2]), id[3], id[4])), <<>>)
  BY DEF ByPackageBytes, PackageFields
<1>. HIDE DEF byHash, byName, byPackageHash, byPackageName
<1>3. /\ (id[1] = "ByHash" => id[1] # "ByName" /\ id[1] # "ByPackageHash" /\ id[1] # "ByPackageName")
      /\ (id[1] = "ByName" => id[1] # "ByHash" /\ id[1] # "ByPackageHash" /\ id[1] # "ByPackageName")
      /\ (id[1] = "ByPackageHash" => id[1] # "ByName" /\ id[1] # "ByHash" /\ id[1] # "ByPackageName")
      /\ (id[1] = "ByPackageName" => id[1] # "ByName" /\ id[1] # "ByPackageHash" /\ id[1] # "ByHash")
  OBVIOUS
<1>4. id[1] = "ByHash" => InvocationBytes(id) = byHash BY <1>1, <1>3, Zenon
<1>5. id[1] = "ByName" => InvocationBytes(id) = byName BY <1>1, <1>3, Zenon
<1>6. id[1] = "ByPackageHash" => InvocationBytes(id) = byPackageHash BY <1>1, <1>3, Zenon
<1>7. id[1] = "ByPackageName" => InvocationBytes(id) = byPackageName BY <1>1, <1>3, Zenon
<1>. QED BY <1>2, <1>3, <1>4, <1>5, <1>6, <1>7 DEF byHash, byName

(* Every id is read back from its bytes, except a package whose version is   *)
(* not said and names outside ASCII.                                         *)
LEMMA InvocationRead ==
  ASSUME NEW id \in InvocationIds, ~InvocationBytes(id).threw,
         id[1] \in {"ByPackageHash", "ByPackageName"} => Truthy(id[3]),
         id[1] \in {"ByName", "ByPackageName"} => Ascii(id[2])
  PROVE  InvocationFromBytes(InvocationBytes(id).val) = Taken(MeantId(id), <<>>)
<1>1. CASE id[1] = "ByHash"
  <2>1. PICK hash \in Hashes : id = <<"ByHash", hash>> BY <1>1 DEF InvocationIds
  <2>2. id[2] = hash BY <2>1
  <2>. DEFINE bytes == CalltableBytes(<<<<0>>, hash>>)
  <2>3. InvocationBytes(id) = Taken(bytes, <<>>) BY <1>1, <2>2, InvocationWritten
  <2>4. InvocationFromBytes(bytes) = Taken(id, <<>>) BY <2>1, ByHashRead
  <2>. HIDE DEF bytes
  <2>5. InvocationBytes(id).val = bytes BY <2>3 DEF Taken
  <2>6. MeantId(id) = id BY <1>1 DEF MeantId
  <2>. QED BY <2>4, <2>5, <2>6
<1>2. CASE id[1] = "ByName"
  <2>1. PICK name \in Texts : id = <<"ByName", name>> BY <1>2 DEF InvocationIds
  <2>2. id[2] = name BY <2>1
  <2>. DEFINE bytes == CalltableBytes(<<<<1>>, StringBytes(name)>>)
  <2>3. InvocationBytes(id) = IF name = <<>> THEN Thrown ELSE Taken(bytes, <<>>) BY <1>2, <2>2, InvocationWritten
  <2>4. Ascii(name) BY <1>2, <2>2
  <2>5. InvocationFromBytes(bytes) = Taken(id, <<>>) BY <2>1, <2>4, ByNameRead
  <2>. HIDE DEF bytes
  <2>6. InvocationBytes(id) = Taken(bytes, <<>>) BY <2>3 DEF Thrown
  <2>7. InvocationBytes(id).val = bytes BY <2>6 DEF Taken
  <2>8. MeantId(id) = id BY <1>2 DEF MeantId
  <2>. QED BY <2>5, <2>7, <2>8
<1>3. CASE id[1] = "ByPackageHash"
  <2>1. PICK hash \in Hashes, version \in VersionOptions, major \in VersionOptions :
          id = <<"ByPackageHash", hash, version, major>>
    BY <1>3 DEF InvocationIds
  <2>2. id[2] = hash /\ id[3] = version /\ id[4] = major BY <2>1
  <2>. DEFINE g == PackageFields(2, hash, version, major)
              bytes == CalltableBytes(g)
              table == CalltableFromBytes(bytes).val
  <2>3. InvocationBytes(id) = Taken(bytes, <<>>) BY <1>3, <2>2, InvocationWritten
  <2>4. hash \in Octets /\ HashFromBytes(hash) = Taken(hash, <<>>) BY HashRead
  <2>5. g \in Seq(Octets) /\ Len(g) > 0 /\ g[1] = <<2>> /\ Packages(table, hash, version, major)
    BY <2>4, PackageFound
  <2>. HIDE DEF g
  <2>6. Invokes(bytes, 2) BY <2>5, InvocationOf
  <2>. HIDE DEF bytes
  <2>7. InvocationFromBytes(bytes) = ByPackageFromBytes("ByPackageHash", table, HashFromBytes) BY <2>6 DEF Invokes
  <2>. HIDE DEF table
  <2>. DEFINE f1 == <<hash>>
  <2>8. f1 # <<>> /\ f1[1] = hash OBVIOUS
  <2>. HIDE DEF f1
  <2>9. GetField(table, 1) = f1 BY <2>5 DEF Packages, f1
  <2>10. ReadField(table, 1, HashFromBytes) = Taken(hash, <<>>) BY <2>4, <2>8, <2>9 DEF ReadField
  <2>. DEFINE meant == <<"ByPackageHash", hash, version, IF Truthy(major) THEN major ELSE <<>>>>
  <2>11. Truthy(version) BY <1>3, <2>2
  <2>12. PackageOf("ByPackageHash", table, Taken(hash, <<>>)) = Taken(meant, <<>>)
    BY <2>5, <2>11, PackageRead
  <2>13. ByPackageFromBytes("ByPackageHash", table, HashFromBytes)
           = PackageOf("ByPackageHash", table, ReadField(table, 1, HashFromBytes))
    BY PackageIs
  <2>14. meant = MeantId(id) BY <1>3, <2>2, <2>11 DEF MeantId
  <2>. HIDE DEF meant
  <2>15. InvocationFromBytes(bytes) = Taken(meant, <<>>) BY <2>7, <2>10, <2>12, <2>13
  <2>16. InvocationBytes(id).val = bytes BY <2>3 DEF Taken
  <2>. QED BY <2>14, <2>15, <2>16
<1>4. CASE id[1] = "ByPackageName"
  <2>1. PICK name \in Texts, version \in VersionOptions, major \in VersionOptions :
          id = <<"ByPackageName", name, version, major>>
    BY <1>4 DEF InvocationIds
  <2>2. id[2] = name /\ id[3] = version /\ id[4] = major /\ id[1] # "ByPackageHash" BY <2>1
  <2>. DEFINE text == StringBytes(name)
              g == PackageFields(3, text, version, major)
              bytes == CalltableBytes(g)
              table == CalltableFromBytes(bytes).val
  <2>3. InvocationBytes(id) = Taken(bytes, <<>>) BY <1>4, <2>2, InvocationWritten
  <2>17. Ascii(name) BY <1>4, <2>2
  <2>4. text \in Octets /\ StringFromBytes(text) = Taken(name, <<>>) BY <2>17, TextType, StringRead
  <2>. HIDE DEF text
  <2>5. g \in Seq(Octets) /\ Len(g) > 0 /\ g[1] = <<3>> /\ Packages(table, text, version, major)
    BY <2>4, PackageFound
  <2>. HIDE DEF g
  <2>6. Invokes(bytes, 3) BY <2>5, InvocationOf
  <2>. HIDE DEF bytes
  <2>7. InvocationFromBytes(bytes) = ByPackageFromBytes("ByPackageName", table, StringFromBytes) BY <2>6 DEF Invokes
  <2>. HIDE DEF table
  <2>. DEFINE f1 == <<text>>
  <2>8. f1 # <<>> /\ f1[1] = text OBVIOUS
  <2>. HIDE DEF f1
  <2>9. GetField(table, 1) = f1 BY <2>5 DEF Packages, f1
  <2>10. ReadField(table, 1, StringFromBytes) = Taken(name, <<>>) BY <2>4, <2>8, <2>9 DEF ReadField
  <2>. DEFINE meant == <<"ByPackageName", name, version, IF Truthy(major) THEN major ELSE <<>>>>
  <2>11. Truthy(version) BY <1>4, <2>2
  <2>12. PackageOf("ByPackageName", table, Taken(name, <<>>)) = Taken(meant, <<>>)
    BY <2>5, <2>11, PackageRead
  <2>13. ByPackageFromBytes("ByPackageName", table, StringFromBytes)
           = PackageOf("ByPackageName", table, ReadField(table, 1, StringFromBytes))
    BY PackageIs
  <2>14. meant = MeantId(id) BY <1>4, <2>2, <2>11 DEF MeantId
  <2>. HIDE DEF meant
  <2>15. InvocationFromBytes(bytes) = Taken(meant, <<>>) BY <2>7, <2>10, <2>12, <2>13
  <2>16. InvocationBytes(id).val = bytes BY <2>3 DEF Taken
  <2>. QED BY <2>14, <2>15, <2>16 DEF text
<1>5. id[1] \in {"ByHash", "ByName", "ByPackageHash", "ByPackageName"} BY DEF InvocationIds
<1>. QED BY <1>1, <1>2, <1>3, <1>4, <1>5

(* Versions 0 and none are written alike.                                    *)
LEMMA MeantWritten ==
  ASSUME NEW id \in InvocationIds
  PROVE  /\ InvocationBytes(MeantId(id)) = InvocationBytes(id)
         /\ MeantId(MeantId(id)) = MeantId(id) /\ MeantId(id)[1] = id[1] /\ MeantId(id)[2] = id[2]
         /\ id[1] \in {"ByPackageHash", "ByPackageName"} => (Truthy(MeantId(id)[3]) <=> Truthy(id[3]))
<1>. DEFINE meant(option) == IF Truthy(option) THEN option ELSE <<>>
            kinds == {"ByPackageHash", "ByPackageName"}
<1>1. CASE id[1] \notin kinds
  <2>1. MeantId(id) = id BY <1>1 DEF MeantId
  <2>. QED BY <1>1, <2>1
<1>2. CASE id[1] \in kinds
  <2>1. MeantId(id) = <<id[1], id[2], meant(id[3]), meant(id[4])>> BY <1>2 DEF MeantId
  <2>2. \A option : /\ Truthy(meant(option)) <=> Truthy(option)
                    /\ Truthy(option) => meant(option) = option
                    /\ meant(meant(option)) = meant(option)
    BY DEF Truthy
  <2>3. \A option : VersionBytes(meant(option)) = VersionBytes(option) BY <2>2 DEF VersionBytes
  <2>. HIDE DEF meant
  <2>. DEFINE m == MeantId(id)
  <2>4. m[1] = id[1] /\ m[2] = id[2] /\ m[3] = meant(id[3]) /\ m[4] = meant(id[4]) BY <2>1
  <2>. HIDE DEF m
  <2>5. MeantId(m) = m
    <3>1. MeantId(m) = <<m[1], m[2], meant(m[3]), meant(m[4])>> BY <1>2, <2>4 DEF MeantId, meant
    <3>. QED BY <2>1, <2>2, <2>4, <3>1 DEF m
  <2>. DEFINE major(option) == IF Truthy(option) THEN <<U32(option[1])>> ELSE <<>>
  <2>8. \A option : major(meant(option)) = major(option) BY <2>2
  <2>9. \A tag, package, version, option :
          PackageFields(tag, package, version, option) = <<<<tag>>, package, VersionBytes(version)>> \o major(option)
    BY DEF PackageFields
  <2>. HIDE DEF major
  <2>6. \A tag, package : PackageFields(tag, package, m[3], m[4]) = PackageFields(tag, package, id[3], id[4])
    BY <2>3, <2>4, <2>8, <2>9, Zenon
  <2>7. InvocationBytes(m) = InvocationBytes(id)
    <3>. DEFINE tag == IF id[1] = "ByPackageHash" THEN 2 ELSE 3
                package == IF id[1] = "ByPackageHash" THEN id[2] ELSE StringBytes(id[2])
    <3>1. InvocationBytes(id) = Taken(CalltableBytes(PackageFields(tag, package, id[3], id[4])), <<>>)
      BY <1>2, InvocationWritten
    <3>2. m[1] \in kinds BY <1>2, <2>4
    <3>3. InvocationBytes(m)
            = Taken(CalltableBytes(PackageFields(IF m[1] = "ByPackageHash" THEN 2 ELSE 3,
                IF m[1] = "ByPackageHash" THEN m[2] ELSE StringBytes(m[2]), m[3], m[4])), <<>>)
      BY <3>2, InvocationWritten
    <3>4. InvocationBytes(m) = Taken(CalltableBytes(PackageFields(tag, package, m[3], m[4])), <<>>) BY <2>4, <3>3
    <3>. HIDE DEF tag, package
    <3>. QED BY <2>6, <3>1, <3>4
  <2>. QED BY <2>2, <2>4, <2>5, <2>7 DEF m
<1>. QED BY <1>1, <1>2

(* A target is what its id means.                                            *)
LEMMA TargetMeant ==
  ASSUME NEW target \in Targets
  PROVE  /\ target[1] = "Stored" => /\ target[2] \in InvocationIds
                                    /\ target = <<"Stored", target[2], target[3]>>
                                    /\ WithoutZeros(target) = <<"Stored", MeantId(target[2]), target[3]>>
         /\ target[1] # "Stored" => WithoutZeros(target) = target
<1>1. CASE target[1] = "Stored"
  <2>1. PICK id \in InvocationIds, runtime \in Runtimes : target = <<"Stored", id, runtime>> BY <1>1 DEF Targets
  <2>2. target[2] = id /\ target[3] = runtime BY <2>1
  <2>3. CASE id[1] \notin {"ByPackageHash", "ByPackageName"}
    <3>1. WithoutZeros(target) = target BY <2>2, <2>3, Zenon DEF WithoutZeros
    <3>2. MeantId(id) = id BY <2>3 DEF MeantId
    <3>. QED BY <1>1, <2>1, <2>2, <3>1, <3>2
  <2>4. CASE id[1] \in {"ByPackageHash", "ByPackageName"}
    <3>. DEFINE meant == MeantId(id)
    <3>1. meant = <<id[1], id[2], IF Truthy(id[3]) THEN id[3] ELSE <<>>, IF Truthy(id[4]) THEN id[4] ELSE <<>>>>
      BY <2>4 DEF MeantId
    <3>2. WithoutZeros(target) = [target EXCEPT ![2] = meant]
      <4>1. WithoutZeros(target) = [target EXCEPT ![2] = <<@[1], @[2], IF Truthy(@[3]) THEN @[3] ELSE <<>>,
                                 IF Truthy(@[4]) THEN @[4] ELSE <<>>>>]
        BY <1>1, <2>2, <2>4, Zenon DEF WithoutZeros
      <4>. QED BY <2>2, <3>1, <4>1
    <3>. HIDE DEF meant
    <3>3. [target EXCEPT ![2] = meant] = <<"Stored", meant, runtime>> BY <2>1
    <3>. QED BY <1>1, <2>1, <2>2, <3>2, <3>3 DEF meant
  <2>. QED BY <2>3, <2>4
<1>2. CASE target[1] # "Stored"
  <2>1. WithoutZeros(target) = target BY <1>2 DEF WithoutZeros
  <2>. QED BY <1>2, <2>1
<1>. QED BY <1>1, <1>2

(* The bytes of a target that is stored, which are those of the meant one.   *)
LEMMA TargetWritten ==
  ASSUME NEW target \in Targets
  PROVE  /\ TargetBytes(WithoutZeros(target)) = TargetBytes(target)
         /\ target[1] = "Stored" /\ ~TargetBytes(target).threw => ~InvocationBytes(target[2]).threw
<1>1. CASE target[1] = "Stored"
  <2>. DEFINE id == target[2]
              meant == <<"Stored", MeantId(id), target[3]>>
  <2>1. \A t : t[1] = "Stored" => TargetBytes(t) = StoredBytes(t)
    <3>. SUFFICES ASSUME NEW t, t[1] = "Stored" PROVE TargetBytes(t) = StoredBytes(t) OBVIOUS
    <3>1. t[1] # "Native" /\ t[1] # "Session" OBVIOUS
    <3>. QED BY <3>1, Zenon DEF TargetBytes
  <2>2. id \in InvocationIds /\ WithoutZeros(target) = meant BY <1>1, TargetMeant
  <2>3. InvocationBytes(MeantId(id)) = InvocationBytes(id) BY <2>2, MeantWritten
  <2>4. meant[1] = "Stored" /\ meant[2] = MeantId(id) /\ meant[3] = target[3] OBVIOUS
  <2>. HIDE DEF id, meant
  <2>5. StoredBytes(meant) = StoredBytes(target) BY <2>3, <2>4 DEF StoredBytes, Then, id
  <2>6. TargetBytes(meant) = StoredBytes(meant) /\ TargetBytes(target) = StoredBytes(target) BY <1>1, <2>1, <2>4
  <2>7. InvocationBytes(id).threw => StoredBytes(target) = Thrown BY DEF StoredBytes, Then, id
  <2>8. Thrown.threw = TRUE BY DEF Thrown
  <2>. QED BY <2>2, <2>5, <2>6, <2>7, <2>8 DEF id
<1>2. CASE target[1] # "Stored"
  <2>1. WithoutZeros(target) = target BY <1>2, TargetMeant
  <2>. QED BY <1>2, <2>1
<1>. QED BY <1>1, <1>2

(* What the bytes of a payload are made of.                                  *)
BytesOf(initiator, timestamp, ttl, chain, pricing, parts) ==
  LET fields == FieldsBytes([i \in DOMAIN parts |-> ToBytesArrayU8(parts[i].val)])
  IN  IF ttl = NotWhole \/ \E i \in DOMAIN parts : parts[i].threw THEN Thrown
      ELSE IF fields.threw THEN Thrown
      ELSE Taken(CalltableBytes(<<InitiatorBytes(initiator), Padded(timestamp, 8), Padded(Digits(ttl), 8),
                                  StringBytes(chain), PricingBytes(pricing), fields.val>>), <<>>)

(* The bytes of a payload, in terms of its fields.                           *)
LEMMA PayloadBytesOf ==
  \A p : PayloadBytes(p) = BytesOf(p.initiator, p.timestamp, p.ttl, p.chain, p.pricing, PayloadFields(p))
BY DEF PayloadBytes, BytesOf, Then

(* What is known of the bytes: they are a value if every part has one.       *)
Complete(bytes, ttl, parts) ==
  /\ ~bytes.threw => /\ bytes = Taken(bytes.val, <<>>)
                     /\ ttl # NotWhole
                     /\ \A i \in DOMAIN parts : ~parts[i].threw
  /\ bytes.threw => bytes = Thrown

(* They exist unless a field throws or the ttl is not a whole number.        *)
LEMMA BytesTaken == \A a, b, c, d, e, parts : Complete(BytesOf(a, b, c, d, e, parts), c, parts)
<1>. SUFFICES ASSUME NEW a, NEW b, NEW c, NEW d, NEW e, NEW parts
              PROVE  Complete(BytesOf(a, b, c, d, e, parts), c, parts)
  OBVIOUS
<1>. DEFINE fields == FieldsBytes([i \in DOMAIN parts |-> ToBytesArrayU8(parts[i].val)])
            value == CalltableBytes(<<InitiatorBytes(a), Padded(b, 8), Padded(Digits(c), 8),
                                      StringBytes(d), PricingBytes(e), fields.val>>)
            bytes == BytesOf(a, b, c, d, e, parts)
<1>1. bytes = IF c = NotWhole \/ \E i \in DOMAIN parts : parts[i].threw THEN Thrown
              ELSE IF fields.threw THEN Thrown ELSE Taken(value, <<>>)
  BY DEF BytesOf
<1>2. Thrown.threw = TRUE /\ \A v : Taken(v, <<>>).threw = FALSE /\ Taken(v, <<>>).val = v BY DEF Thrown, Taken
<1>. HIDE DEF bytes, fields, value
<1>3. bytes = Thrown \/ (/\ bytes = Taken(value, <<>>) /\ c # NotWhole /\ ~ \E i \in DOMAIN parts : parts[i].threw)
  BY <1>1
<1>4. CASE bytes = Thrown BY <1>2, <1>4 DEF bytes, Complete
<1>5. CASE bytes = Taken(value, <<>>) /\ c # NotWhole /\ ~ \E i \in DOMAIN parts : parts[i].threw
  <2>1. bytes.threw = FALSE /\ bytes.val = value BY <1>2, <1>5
  <2>. QED BY <1>5, <2>1 DEF bytes, Complete
<1>. QED BY <1>3, <1>4, <1>5

(* A payload that is signed has all of its parts, and its bytes are a value. *)
LEMMA PayloadSigned ==
  ASSUME NEW p
  PROVE  /\ ~PayloadBytes(p).threw =>
              /\ PayloadBytes(p) = Taken(PayloadBytes(p).val, <<>>)
              /\ p.ttl # NotWhole
              /\ ~TargetBytes(p.target).threw
              /\ ~SchedulingBytes(p.scheduling).threw
         /\ PayloadBytes(p).threw => PayloadBytes(p) = Thrown
<1>. DEFINE parts == PayloadFields(p)
<1>1. 2 \in DOMAIN parts /\ 4 \in DOMAIN parts /\ parts[2] = TargetBytes(p.target)
      /\ parts[4] = SchedulingBytes(p.scheduling)
  BY DEF PayloadFields
<1>2. PayloadBytes(p) = BytesOf(p.initiator, p.timestamp, p.ttl, p.chain, p.pricing, parts) BY PayloadBytesOf
<1>. HIDE DEF parts
<1>. QED BY <1>1, <1>2, BytesTaken DEF Complete

(* The bytes depend on the parts only, and on a target through its own bytes.*)
LEMMA SameBytes ==
  ASSUME NEW p, NEW q, p.initiator = q.initiator, p.timestamp = q.timestamp, p.ttl = q.ttl, p.chain = q.chain,
         p.pricing = q.pricing, p.args = q.args, p.entry = q.entry, p.scheduling = q.scheduling,
         TargetBytes(p.target) = TargetBytes(q.target)
  PROVE  PayloadBytes(p) = PayloadBytes(q)
<1>1. PayloadFields(p) = PayloadFields(q) BY DEF PayloadFields
<1>. QED BY <1>1, PayloadBytesOf

(* A payload by its fields.                                                  *)
Fields(i, t, l, c, r, a, g, e, s) ==
  [initiator |-> i, timestamp |-> t, ttl |-> l, chain |-> c, pricing |-> r, args |-> a, target |-> g, entry |-> e,
   scheduling |-> s]
AsRecord(p) ==
  Fields(p.initiator, p.timestamp, p.ttl, p.chain, p.pricing, p.args, p.target, p.entry, p.scheduling)

(* A record of nine fields is put together of them.                          *)
LEMMA RecordShape ==
  \A I, T, L, C, R, A, G, E, S :
    \A p \in [initiator : I, timestamp : T, ttl : L, chain : C, pricing : R, args : A, target : G, entry : E,
              scheduling : S] :
      /\ p = AsRecord(p)
      /\ p.initiator \in I /\ p.timestamp \in T /\ p.ttl \in L /\ p.chain \in C /\ p.pricing \in R
      /\ p.args \in A /\ p.target \in G /\ p.entry \in E /\ p.scheduling \in S
BY SMT DEF AsRecord, Fields

(* So is a payload, and its fields are of their types.                       *)
LEMMA PayloadShape ==
  ASSUME NEW p \in Payload
  PROVE  /\ p = AsRecord(p)
         /\ p.initiator \in Initiators /\ p.timestamp \in Numbers64 /\ p.ttl \in Nat /\ p.ttl # NotWhole
         /\ p.chain \in Texts /\ p.pricing \in Pricings /\ p.args \in Seq(Arguments) /\ p.target \in Targets
         /\ p.entry \in EntryPoints /\ p.scheduling \in Schedulings
<1>. DEFINE times == 0..LongestTtl
            args == Seq(Arguments)
<1>1. \A n \in times : n \in Nat /\ n # NotWhole
  <2>1. LongestTtl \in Nat BY SMT DEF LongestTtl
  <2>. QED BY <2>1, SMT DEF NotWhole
<1>2. p \in [initiator : Initiators, timestamp : Numbers64, ttl : times, chain : Texts, pricing : Pricings,
             args : args, target : Targets, entry : EntryPoints, scheduling : Schedulings]
  BY SMT DEF Payload
<1>. HIDE DEF times, args
<1>3. /\ p = AsRecord(p)
      /\ p.initiator \in Initiators /\ p.timestamp \in Numbers64 /\ p.ttl \in times /\ p.chain \in Texts
      /\ p.pricing \in Pricings /\ p.args \in args /\ p.target \in Targets /\ p.entry \in EntryPoints
      /\ p.scheduling \in Schedulings
  BY <1>2, RecordShape
<1>. QED BY <1>1, <1>3, Zenon DEF args

(* Fields that are replaced.                                                 *)
LEMMA FieldsOf ==
  \A i, t, l, c, r, a, g, e, s :
    LET p == Fields(i, t, l, c, r, a, g, e, s)
    IN  /\ p.initiator = i /\ p.timestamp = t /\ p.ttl = l /\ p.chain = c /\ p.pricing = r
        /\ p.args = a /\ p.target = g /\ p.entry = e /\ p.scheduling = s
BY DEF Fields

(* A payload with another ttl.                                               *)
LEMMA TtlReplaced ==
  ASSUME NEW p, NEW l, p = AsRecord(p)
  PROVE  [p EXCEPT !.ttl = l]
           = Fields(p.initiator, p.timestamp, l, p.chain, p.pricing, p.args, p.target, p.entry, p.scheduling)
<1>. DEFINE q0 == AsRecord(p)
            q1 == Fields(p.initiator, p.timestamp, l, p.chain, p.pricing, p.args, p.target, p.entry, p.scheduling)
<1>1. [q0 EXCEPT !.ttl = l] = q1 BY DEF Fields, AsRecord
<1>2. p = q0 OBVIOUS
<1>. HIDE DEF q0, q1
<1>3. [p EXCEPT !.ttl = l] = q1 BY <1>1, <1>2, Zenon
<1>. QED BY <1>3, Zenon DEF q1

(* As JSON the payload is another in three of its fields.                    *)
InJSON(p) ==
  Fields(InitiatorToJSON(p.initiator), p.timestamp, HumanizerTTL(p.ttl), p.chain, p.pricing, ArgsJSON(p.args).val,
         p.target, p.entry, p.scheduling)

(* What toJSON makes of a payload, field by field.                           *)
LEMMA ToJSONIs ==
  ASSUME NEW p, p = AsRecord(p)
  PROVE  PayloadToJSON(p) = IF ArgsJSON(p.args).threw THEN Thrown ELSE Taken(InJSON(p), <<>>)
<1>. DEFINE a == ArgsJSON(p.args).val
            l == HumanizerTTL(p.ttl)
            i == InitiatorToJSON(p.initiator)
            t == p.timestamp
            c == p.chain
            r == p.pricing
            g == p.target
            e == p.entry
            s == p.scheduling
            q0 == AsRecord(p)
            q1 == Fields(p.initiator, t, p.ttl, c, r, a, g, e, s)
            q2 == Fields(p.initiator, t, l, c, r, a, g, e, s)
            q3 == Fields(i, t, l, c, r, a, g, e, s)
<1>. HIDE DEF a, l, i
<1>1. [q0 EXCEPT !.args = a] = q1 BY DEF Fields, AsRecord
<1>2. [q1 EXCEPT !.ttl = l] = q2 BY DEF Fields
<1>3. [q2 EXCEPT !.initiator = i] = q3 BY DEF Fields
<1>4. p = q0 OBVIOUS
<1>. HIDE DEF q0, q1, q2, q3
<1>5. [p EXCEPT !.args = a] = q1 BY <1>1, <1>4, Zenon
<1>6. [[[p EXCEPT !.args = a] EXCEPT !.ttl = l] EXCEPT !.initiator = i] = q3 BY <1>2, <1>3, <1>5, Zenon
<1>7. [p EXCEPT !.args = a, !.ttl = l, !.initiator = i] = q3 BY <1>6, Zenon
<1>8. [p EXCEPT !.args = ArgsJSON(p.args).val, !.ttl = HumanizerTTL(@), !.initiator = InitiatorToJSON(@)] = q3
  BY <1>7, Zenon DEF a, l, i
<1>9. q3 = InJSON(p) BY Zenon DEF q3, InJSON, a, l, i
<1>10. PayloadToJSON(p)
        = IF ArgsJSON(p.args).threw THEN Thrown
          ELSE Taken([p EXCEPT !.args = ArgsJSON(p.args).val, !.ttl = HumanizerTTL(@),
                               !.initiator = InitiatorToJSON(@)], <<>>)
  BY Zenon DEF PayloadToJSON, Then
<1>. QED BY <1>8, <1>9, <1>10, Zenon

(* And what is read of it.                                                   *)
OutOfJSON(json) ==
  Fields(InitiatorFromJSON(json.initiator).val, json.timestamp, DehumanizerTTL(json.ttl).val, json.chain,
         json.pricing, ArgsOfJSON(json.args).val, json.target, EntryPointFromJSON(json.entry).val,
         SchedulingFromJSON(json.scheduling))
NotOutOfJSON(json) ==
  \/ ArgsOfJSON(json.args).threw \/ EntryPointFromJSON(json.entry).threw
  \/ DehumanizerTTL(json.ttl).threw \/ InitiatorFromJSON(json.initiator).threw

(* What fromJSON makes of it, field by field.                                *)
LEMMA FromJSONIs ==
  ASSUME NEW json, json = AsRecord(json)
  PROVE  PayloadFromJSON(json) = IF NotOutOfJSON(json) THEN Thrown ELSE Taken(OutOfJSON(json), <<>>)
<1>. DEFINE read == [json EXCEPT !.args = ArgsOfJSON(json.args).val, !.entry = EntryPointFromJSON(json.entry).val,
                                 !.ttl = DehumanizerTTL(json.ttl).val,
                                 !.initiator = InitiatorFromJSON(json.initiator).val,
                                 !.scheduling = SchedulingFromJSON(@)]
<1>. DEFINE a == ArgsOfJSON(json.args).val
            e == EntryPointFromJSON(json.entry).val
            l == DehumanizerTTL(json.ttl).val
            i == InitiatorFromJSON(json.initiator).val
            s == SchedulingFromJSON(json.scheduling)
            t == json.timestamp
            c == json.chain
            r == json.pricing
            g == json.target
            q0 == AsRecord(json)
            q1 == Fields(json.initiator, t, json.ttl, c, r, a, g, json.entry, json.scheduling)
            q2 == Fields(json.initiator, t, json.ttl, c, r, a, g, e, json.scheduling)
            q3 == Fields(json.initiator, t, l, c, r, a, g, e, json.scheduling)
            q4 == Fields(i, t, l, c, r, a, g, e, json.scheduling)
            q5 == Fields(i, t, l, c, r, a, g, e, s)
<1>. HIDE DEF a, e, l, i, s
<1>1. [q0 EXCEPT !.args = a] = q1 BY DEF Fields, AsRecord
<1>2. [q1 EXCEPT !.entry = e] = q2 BY DEF Fields
<1>3. [q2 EXCEPT !.ttl = l] = q3 BY DEF Fields
<1>4. [q3 EXCEPT !.initiator = i] = q4 BY DEF Fields
<1>5. [q4 EXCEPT !.scheduling = s] = q5 BY DEF Fields
<1>6. json = q0 OBVIOUS
<1>. HIDE DEF q0, q1, q2, q3, q4, q5
<1>7. [json EXCEPT !.args = a] = q1 BY <1>1, <1>6, Zenon
<1>8. [[[[[json EXCEPT !.args = a] EXCEPT !.entry = e] EXCEPT !.ttl = l] EXCEPT !.initiator = i] EXCEPT !.scheduling = s]
        = q5
  BY <1>2, <1>3, <1>4, <1>5, <1>7, Zenon
<1>9. [json EXCEPT !.args = a, !.entry = e, !.ttl = l, !.initiator = i, !.scheduling = s] = q5 BY <1>8, Zenon
<1>10. read = q5 BY <1>9, Zenon DEF a, e, l, i, s
<1>11. q5 = OutOfJSON(json) BY Zenon DEF q5, OutOfJSON, a, e, l, i, s
<1>. HIDE DEF read
<1>12. PayloadFromJSON(json) = IF NotOutOfJSON(json) THEN Thrown ELSE Taken(read, <<>>)
  BY Zenon DEF PayloadFromJSON, NotOutOfJSON, read
<1>. QED BY <1>10, <1>11, <1>12, Zenon

(* What is read of the parts' own bytes.                                     *)
IdRead(target) == IF target[1] = "Stored" THEN InvocationFromBytes(InvocationBytes(target[2]).val) ELSE Taken(<<>>, <<>>)
EntryRead(p) == EntryPointFromBytes(EntryPointBytes(p.entry))
TimeRead(p) == SchedulingFromBytes(SchedulingBytes(p.scheduling).val)
TargetRead(target) == IF target[1] = "Stored" THEN [target EXCEPT ![2] = IdRead(target).val] ELSE target
PartsRead(p) ==
  Fields(p.initiator, p.timestamp, p.ttl, p.chain, p.pricing, p.args, TargetRead(p.target), EntryRead(p).val,
         TimeRead(p).val)

(* What the parts of a payload are when each is read back from its bytes.    *)
LEMMA PartsIs ==
  ASSUME NEW p, p = AsRecord(p)
  PROVE  PartsFromBytes(p) = IF EntryRead(p).threw \/ TimeRead(p).threw \/ IdRead(p.target).threw THEN Thrown
                             ELSE Taken(PartsRead(p), <<>>)
<1>. DEFINE read == [p EXCEPT !.entry = EntryRead(p).val, !.scheduling = TimeRead(p).val,
                              !.target = IF @[1] = "Stored" THEN [@ EXCEPT ![2] = IdRead(p.target).val] ELSE @]
<1>. DEFINE g == TargetRead(p.target)
            e == EntryRead(p).val
            s == TimeRead(p).val
            i == p.initiator
            t == p.timestamp
            l == p.ttl
            c == p.chain
            r == p.pricing
            a == p.args
            q0 == AsRecord(p)
            q1 == Fields(i, t, l, c, r, a, p.target, e, p.scheduling)
            q2 == Fields(i, t, l, c, r, a, p.target, e, s)
            q3 == Fields(i, t, l, c, r, a, g, e, s)
<1>. HIDE DEF g, e, s
<1>1. [q0 EXCEPT !.entry = e] = q1 BY DEF Fields, AsRecord
<1>2. [q1 EXCEPT !.scheduling = s] = q2 BY DEF Fields
<1>3. [q2 EXCEPT !.target = g] = q3 BY DEF Fields
<1>4. p = q0 OBVIOUS
<1>. HIDE DEF q0, q1, q2, q3
<1>5. [p EXCEPT !.entry = e] = q1 BY <1>1, <1>4, Zenon
<1>6. [[[p EXCEPT !.entry = e] EXCEPT !.scheduling = s] EXCEPT !.target = g] = q3 BY <1>2, <1>3, <1>5, Zenon
<1>7. [p EXCEPT !.entry = e, !.scheduling = s, !.target = g] = q3 BY <1>6, Zenon
<1>8. read = q3 BY <1>7, Zenon DEF g, e, s, TargetRead
<1>9. q3 = PartsRead(p) BY Zenon DEF q3, PartsRead, g, e, s
<1>. HIDE DEF read
<1>10. PartsFromBytes(p) = IF EntryRead(p).threw \/ TimeRead(p).threw \/ IdRead(p.target).threw THEN Thrown
                          ELSE Taken(read, <<>>)
  BY Zenon DEF PartsFromBytes, EntryRead, TimeRead, IdRead, read
<1>. QED BY <1>8, <1>9, <1>10, Zenon

(* The texts that stand for a ttl.                                           *)
TtlTexts(ttl, viaNode) == {HumanizerTTL(ttl)} \cup (IF viaNode THEN {NodeTTL(ttl)} ELSE {})

(* What a form of the payload shares with the one that was built: the parts  *)
(* that are not read back may be anything.                                   *)
SameElsewhere(p, m) == p.timestamp = m.timestamp /\ p.chain = m.chain /\ p.pricing = m.pricing
SameParts(p, m) ==
  p.target \in {m.target, WithoutZeros(m.target)} /\ p.entry = m.entry /\ p.scheduling = m.scheduling

ObjectOf(p, m) ==
  /\ p = AsRecord(p)
  /\ SameElsewhere(p, m)
  /\ p.initiator = m.initiator /\ p.ttl = m.ttl
  /\ ~ArgsUnread(m.args) => p.args = m.args
  /\ ~PartsUnread(m) => SameParts(p, m) /\ PayloadBytes(p) = PayloadBytes(m)

JsonOf(p, m, viaNode) ==
  /\ p = AsRecord(p)
  /\ SameElsewhere(p, m)
  /\ p.initiator = InitiatorToJSON(m.initiator) /\ p.ttl \in TtlTexts(m.ttl, viaNode)
  /\ ~ArgsUnread(m.args) => p.args = ArgsJSON(m.args).val
  /\ ~PartsUnread(m) => SameParts(p, m)

(* A payload that was built and signed.                                      *)
Built(m) == m \in Payload /\ ~PayloadBytes(m).threw

(* What is written of a payload that agrees with the one that was made       *)
(* agrees with it too.                                                       *)
LEMMA ObjectToJson ==
  ASSUME NEW p, NEW m, NEW viaNode, ObjectOf(p, m)
  PROVE  JsonOf(InJSON(p), m, viaNode)
<1>1. InJSON(p) = AsRecord(InJSON(p)) BY FieldsOf DEF InJSON, AsRecord
<1>2. /\ InJSON(p).initiator = InitiatorToJSON(p.initiator) /\ InJSON(p).timestamp = p.timestamp
      /\ InJSON(p).ttl = HumanizerTTL(p.ttl) /\ InJSON(p).chain = p.chain /\ InJSON(p).pricing = p.pricing
      /\ InJSON(p).args = ArgsJSON(p.args).val /\ InJSON(p).target = p.target /\ InJSON(p).entry = p.entry
      /\ InJSON(p).scheduling = p.scheduling
  BY FieldsOf DEF InJSON
<1>3. InJSON(p).ttl \in TtlTexts(m.ttl, viaNode) BY <1>2 DEF ObjectOf, TtlTexts
<1>4. SameElsewhere(InJSON(p), m) BY <1>2 DEF ObjectOf, SameElsewhere
<1>5. ~PartsUnread(m) => SameParts(InJSON(p), m) BY <1>2 DEF ObjectOf, SameParts
<1>6. ~ArgsUnread(m.args) => InJSON(p).args = ArgsJSON(m.args).val BY <1>2 DEF ObjectOf
<1>. QED BY <1>1, <1>2, <1>3, <1>4, <1>5, <1>6 DEF ObjectOf, JsonOf

(* A payload is signed with a scheduling that has its time.                  *)
LEMMA SchedulingSigned ==
  ASSUME NEW s, SchedulingFromJSON(s) # s
  PROVE  SchedulingBytes(SchedulingFromJSON(s)).threw
<1>1. SchedulingFromJSON(s) = <<"FutureTimestamp">> BY DEF SchedulingFromJSON
<1>2. Len(<<"FutureTimestamp">>) = 1 /\ <<"FutureTimestamp">>[1] # "Standard" OBVIOUS
<1>3. SchedulingBytes(<<"FutureTimestamp">>) = Thrown BY <1>2 DEF SchedulingBytes
<1>. QED BY <1>1, <1>3 DEF Thrown

(* What is read of a ttl is the ttl, or refused, or nothing that is signed.  *)
LEMMA TtlRead ==
  ASSUME NEW n \in Nat, NEW viaNode, NEW text \in TtlTexts(n, viaNode)
  PROVE  /\ ~DehumanizerTTL(text).threw => DehumanizerTTL(text).val \in {n, NotWhole}
         /\ ~(n >= Week) /\ ~(n >= 2 * Day /\ viaNode) /\ ~RoundsOff(n % Minute) =>
              ~DehumanizerTTL(text).threw /\ DehumanizerTTL(text).val = n
<1>. DEFINE taken(v) == Taken(v, <<>>)
            small == n >= Week
            days == n >= 2 * Day
            rounds == RoundsOff(n % Minute)
<1>1. \A v : taken(v).threw = FALSE /\ taken(v).val = v BY DEF Taken
<1>2. Thrown.threw = TRUE BY DEF Thrown
<1>3. DehumanizerTTL(HumanizerTTL(n)) = IF small THEN Thrown ELSE IF rounds THEN taken(NotWhole) ELSE taken(n)
  BY HumanRead
<1>4. DehumanizerTTL(NodeTTL(n)) = IF days THEN taken(NotWhole) ELSE taken(n) BY NodeRead
<1>5. text = HumanizerTTL(n) \/ (viaNode /\ text = NodeTTL(n)) BY DEF TtlTexts
<1>. HIDE DEF taken, small, days, rounds
<1>6. CASE text = HumanizerTTL(n)
  <2>1. /\ ~DehumanizerTTL(text).threw => DehumanizerTTL(text).val \in {n, NotWhole}
        /\ ~small /\ ~(days /\ viaNode) /\ ~rounds => ~DehumanizerTTL(text).threw /\ DehumanizerTTL(text).val = n
    BY <1>1, <1>2, <1>3, <1>6
  <2>. QED BY <2>1 DEF small, days, rounds
<1>7. CASE viaNode /\ text = NodeTTL(n)
  <2>1. /\ ~DehumanizerTTL(text).threw => DehumanizerTTL(text).val \in {n, NotWhole}
        /\ ~small /\ ~(days /\ viaNode) /\ ~rounds => ~DehumanizerTTL(text).threw /\ DehumanizerTTL(text).val = n
    BY <1>1, <1>2, <1>4, <1>7
  <2>. QED BY <2>1 DEF small, days, rounds
<1>. QED BY <1>5, <1>6, <1>7

(* The fields of what fromJSON makes.                                        *)
LEMMA OutFields ==
  ASSUME NEW p
  PROVE  /\ OutOfJSON(p) = AsRecord(OutOfJSON(p))
         /\ OutOfJSON(p).initiator = InitiatorFromJSON(p.initiator).val /\ OutOfJSON(p).timestamp = p.timestamp
         /\ OutOfJSON(p).ttl = DehumanizerTTL(p.ttl).val /\ OutOfJSON(p).chain = p.chain
         /\ OutOfJSON(p).pricing = p.pricing /\ OutOfJSON(p).args = ArgsOfJSON(p.args).val
         /\ OutOfJSON(p).target = p.target /\ OutOfJSON(p).entry = EntryPointFromJSON(p.entry).val
         /\ OutOfJSON(p).scheduling = SchedulingFromJSON(p.scheduling)
<1>1. OutOfJSON(p) = AsRecord(OutOfJSON(p)) BY FieldsOf DEF OutOfJSON, AsRecord
<1>. QED BY <1>1, FieldsOf DEF OutOfJSON

(* The parts that are read back are read as they were built.                 *)
LEMMA ReadBack ==
  ASSUME NEW p, NEW m, NEW viaNode, Built(m), JsonOf(p, m, viaNode)
  PROVE  /\ ~InitiatorFromJSON(p.initiator).threw /\ InitiatorFromJSON(p.initiator).val = m.initiator
         /\ ~ArgsUnread(m.args) => ~ArgsOfJSON(p.args).threw /\ ArgsOfJSON(p.args).val = m.args
         /\ ~PartsUnread(m) => ~EntryPointFromJSON(p.entry).threw /\ EntryPointFromJSON(p.entry).val = m.entry
<1>1. \A v : Taken(v, <<>>).threw = FALSE /\ Taken(v, <<>>).val = v BY DEF Taken
<1>2. m.initiator \in Initiators BY PayloadShape DEF Built
<1>3. InitiatorFromJSON(InitiatorToJSON(m.initiator)) = Taken(m.initiator, <<>>) BY <1>2, InitiatorRead
<1>4. ~ArgsUnread(m.args) => ArgsOfJSON(p.args) = Taken(m.args, <<>>) BY DEF JsonOf, ArgsUnread
<1>5. ~PartsUnread(m) => EntryPointFromJSON(p.entry) = Taken(m.entry, <<>>)
  <2>1. ~PartsUnread(m) => p.entry = m.entry /\ m.entry[1] # "Custom" BY DEF JsonOf, SameParts, PartsUnread
  <2>. QED BY <2>1 DEF EntryPointFromJSON
<1>6. p.initiator = InitiatorToJSON(m.initiator) BY DEF JsonOf
<1>. QED BY <1>1, <1>3, <1>4, <1>5, <1>6

(* A target with zeros for none has the bytes of the one without.            *)
LEMMA SameTarget ==
  ASSUME NEW p, NEW m, Built(m), SameParts(p, m)
  PROVE  TargetBytes(p.target) = TargetBytes(m.target)
<1>1. m.target \in Targets BY PayloadShape DEF Built
<1>2. TargetBytes(WithoutZeros(m.target)) = TargetBytes(m.target) BY <1>1, TargetWritten
<1>. QED BY <1>2 DEF SameParts

(* What is read of the JSON and validated is the payload that was built.     *)
LEMMA JsonToObject ==
  ASSUME NEW p, NEW m, NEW viaNode, Built(m), JsonOf(p, m, viaNode), ~NotOutOfJSON(p),
         PayloadBytes(OutOfJSON(p)) = PayloadBytes(m)
  PROVE  ObjectOf(OutOfJSON(p), m)
<1>. DEFINE q == OutOfJSON(p)
<1>1. /\ q = AsRecord(q)
      /\ q.initiator = InitiatorFromJSON(p.initiator).val /\ q.timestamp = p.timestamp
      /\ q.ttl = DehumanizerTTL(p.ttl).val /\ q.chain = p.chain
      /\ q.pricing = p.pricing /\ q.args = ArgsOfJSON(p.args).val
      /\ q.target = p.target /\ q.entry = EntryPointFromJSON(p.entry).val
      /\ q.scheduling = SchedulingFromJSON(p.scheduling)
  BY OutFields
<1>2. /\ InitiatorFromJSON(p.initiator).val = m.initiator
      /\ ~ArgsUnread(m.args) => ArgsOfJSON(p.args).val = m.args
      /\ ~PartsUnread(m) => EntryPointFromJSON(p.entry).val = m.entry
  BY ReadBack
<1>. HIDE DEF q
<1>3. ~PayloadBytes(q).threw BY DEF Built, q
<1>4. q.ttl # NotWhole /\ ~SchedulingBytes(q.scheduling).threw BY <1>3, PayloadSigned
<1>5. q.ttl = m.ttl
  <2>1. m.ttl \in Nat /\ p.ttl \in TtlTexts(m.ttl, viaNode) BY PayloadShape DEF Built, JsonOf
  <2>2. ~DehumanizerTTL(p.ttl).threw BY DEF NotOutOfJSON
  <2>3. DehumanizerTTL(p.ttl).val \in {m.ttl, NotWhole} BY <2>1, <2>2, TtlRead
  <2>. QED BY <1>1, <1>4, <2>3
<1>6. q.scheduling = p.scheduling BY <1>1, <1>4, SchedulingSigned
<1>7. SameElsewhere(q, m) BY <1>1 DEF SameElsewhere, JsonOf
<1>8. ~PartsUnread(m) => SameParts(q, m) BY <1>1, <1>2, <1>6 DEF SameParts, JsonOf
<1>9. PayloadBytes(q) = PayloadBytes(m) BY DEF q
<1>. QED BY <1>1, <1>2, <1>5, <1>7, <1>8, <1>9 DEF ObjectOf, q

(* JSON that has nothing of what is not read back is read and has the bytes  *)
(* that were signed.                                                         *)
LEMMA JsonValid ==
  ASSUME NEW p, NEW m, Built(m), JsonOf(p, m, byNode), ~JsonUnread(m), ~PartsUnread(m)
  PROVE  ~NotOutOfJSON(p) /\ PayloadBytes(OutOfJSON(p)) = PayloadBytes(m)
<1>. DEFINE q == OutOfJSON(p)
<1>1. /\ q.initiator = InitiatorFromJSON(p.initiator).val /\ q.timestamp = p.timestamp
      /\ q.ttl = DehumanizerTTL(p.ttl).val /\ q.chain = p.chain
      /\ q.pricing = p.pricing /\ q.args = ArgsOfJSON(p.args).val
      /\ q.target = p.target /\ q.entry = EntryPointFromJSON(p.entry).val
      /\ q.scheduling = SchedulingFromJSON(p.scheduling)
  BY OutFields
<1>2. ~ArgsUnread(m.args) /\ m.scheduling[1] # "FutureTimestamp" /\ ~(m.ttl >= Week)
      /\ ~(m.ttl >= 2 * Day /\ byNode) /\ ~RoundsOff(m.ttl % Minute)
  BY Zenon DEF JsonUnread
<1>3. /\ ~InitiatorFromJSON(p.initiator).threw /\ InitiatorFromJSON(p.initiator).val = m.initiator
      /\ ~ArgsOfJSON(p.args).threw /\ ArgsOfJSON(p.args).val = m.args
      /\ ~EntryPointFromJSON(p.entry).threw /\ EntryPointFromJSON(p.entry).val = m.entry
  BY <1>2, ReadBack
<1>4. ~DehumanizerTTL(p.ttl).threw /\ DehumanizerTTL(p.ttl).val = m.ttl
  <2>1. m.ttl \in Nat /\ p.ttl \in TtlTexts(m.ttl, byNode) BY PayloadShape DEF Built, JsonOf
  <2>. QED BY <1>2, <2>1, TtlRead
<1>5. ~NotOutOfJSON(p) BY <1>3, <1>4 DEF NotOutOfJSON
<1>6. SameParts(p, m) BY DEF JsonOf
<1>7. q.scheduling = m.scheduling BY <1>1, <1>2, <1>6 DEF SameParts, SchedulingFromJSON
<1>8. TargetBytes(q.target) = TargetBytes(m.target) BY <1>1, <1>6, SameTarget
<1>9. q.timestamp = m.timestamp /\ q.chain = m.chain /\ q.pricing = m.pricing BY <1>1 DEF JsonOf, SameElsewhere
<1>10. q.initiator = m.initiator /\ q.ttl = m.ttl /\ q.args = m.args /\ q.entry = m.entry BY <1>1, <1>3, <1>4
<1>. HIDE DEF q
<1>11. PayloadBytes(q) = PayloadBytes(m) BY <1>7, <1>8, <1>9, <1>10, SameBytes
<1>. QED BY <1>5, <1>11 DEF q

(* The fields of a payload whose parts were read back from their bytes.      *)
LEMMA PartsFields ==
  ASSUME NEW p
  PROVE  /\ PartsRead(p) = AsRecord(PartsRead(p))
         /\ PartsRead(p).initiator = p.initiator /\ PartsRead(p).timestamp = p.timestamp
         /\ PartsRead(p).ttl = p.ttl /\ PartsRead(p).chain = p.chain /\ PartsRead(p).pricing = p.pricing
         /\ PartsRead(p).args = p.args /\ PartsRead(p).target = TargetRead(p.target)
         /\ PartsRead(p).entry = EntryRead(p).val /\ PartsRead(p).scheduling = TimeRead(p).val
<1>1. PartsRead(p) = AsRecord(PartsRead(p)) BY FieldsOf DEF PartsRead, AsRecord
<1>. QED BY <1>1, FieldsOf DEF PartsRead

(* A target is read back without its zeros.                                  *)
LEMMA TargetReadBack ==
  ASSUME NEW m, Built(m), ~PartsUnread(m), NEW target \in {m.target, WithoutZeros(m.target)}
  PROVE  ~IdRead(target).threw /\ TargetRead(target) = WithoutZeros(m.target)
<1>1. m.target \in Targets BY PayloadShape DEF Built
<1>2. CASE m.target[1] # "Stored"
  <2>1. WithoutZeros(m.target) = m.target BY <1>1, <1>2, TargetMeant
  <2>2. Taken(<<>>, <<>>).threw = FALSE BY DEF Taken
  <2>. QED BY <1>2, <2>1, <2>2 DEF IdRead, TargetRead
<1>3. CASE m.target[1] = "Stored"
  <2>. DEFINE id == m.target[2]
              runtime == m.target[3]
              meant == MeantId(id)
              bytes == InvocationBytes(id).val
  <2>1. id \in InvocationIds /\ m.target = <<"Stored", id, runtime>> /\ WithoutZeros(m.target) = <<"Stored", meant, runtime>>
    BY <1>1, <1>3, TargetMeant
  <2>2. InvocationBytes(meant) = InvocationBytes(id) BY <2>1, MeantWritten
  <2>3. ~InvocationBytes(id).threw
    <3>1. ~TargetBytes(m.target).threw BY PayloadSigned DEF Built
    <3>. QED BY <1>1, <1>3, <3>1, TargetWritten
  <2>4. /\ id[1] \in {"ByPackageHash", "ByPackageName"} => Truthy(id[3])
        /\ id[1] \in {"ByName", "ByPackageName"} => Ascii(id[2])
    BY <1>3 DEF PartsUnread
  <2>5. InvocationFromBytes(bytes) = Taken(meant, <<>>) BY <2>1, <2>3, <2>4, InvocationRead
  <2>. HIDE DEF meant, id, runtime, bytes
  <2>6. \A i : <<"Stored", i, runtime>>[1] = "Stored" /\ <<"Stored", i, runtime>>[2] = i OBVIOUS
  <2>7. target = <<"Stored", id, runtime>> \/ target = <<"Stored", meant, runtime>> BY <2>1
  <2>8. target[1] = "Stored" /\ InvocationBytes(target[2]).val = bytes BY <2>2, <2>6, <2>7 DEF bytes
  <2>9. IdRead(target) = Taken(meant, <<>>) BY <2>5, <2>8 DEF IdRead
  <2>10. IdRead(target).threw = FALSE /\ IdRead(target).val = meant BY <2>9 DEF Taken
  <2>11. \A i, j : [<<"Stored", i, runtime>> EXCEPT ![2] = j] = <<"Stored", j, runtime>> OBVIOUS
  <2>12. [target EXCEPT ![2] = meant] = <<"Stored", meant, runtime>> BY <2>7, <2>11, Zenon
  <2>13. TargetRead(target) = <<"Stored", meant, runtime>> BY <2>8, <2>10, <2>12 DEF TargetRead
  <2>. QED BY <2>1, <2>10, <2>13
<1>. QED BY <1>2, <1>3

(* The parts are read back from their own bytes as they were built.          *)
LEMMA PartsReadBack ==
  ASSUME NEW p, NEW m, Built(m), ObjectOf(p, m), ~PartsUnread(m)
  PROVE  /\ ~EntryRead(p).threw /\ ~TimeRead(p).threw /\ ~IdRead(p.target).threw
         /\ EntryRead(p).val = m.entry /\ TimeRead(p).val = m.scheduling
         /\ TargetRead(p.target) = WithoutZeros(m.target)
<1>1. \A v : Taken(v, <<>>).threw = FALSE /\ Taken(v, <<>>).val = v BY DEF Taken
<1>2. p.target \in {m.target, WithoutZeros(m.target)} /\ p.entry = m.entry /\ p.scheduling = m.scheduling
  BY DEF ObjectOf, SameParts
<1>3. m.entry \in EntryPoints /\ m.scheduling \in Schedulings BY PayloadShape DEF Built
<1>4. m.entry[1] # "Custom" /\ (m.scheduling[1] = "Standard" \/ Exact(m.scheduling[2])) BY DEF PartsUnread
<1>5. EntryRead(p) = Taken(m.entry, <<>>) BY <1>2, <1>3, <1>4, EntryPointRead DEF EntryRead
<1>6. TimeRead(p) = Taken(m.scheduling, <<>>) BY <1>2, <1>3, <1>4, SchedulingRead DEF TimeRead
<1>7. ~IdRead(p.target).threw /\ TargetRead(p.target) = WithoutZeros(m.target) BY <1>2, TargetReadBack
<1>. QED BY <1>1, <1>5, <1>6, <1>7

(* What is read of the parts is still the payload that was built.            *)
LEMMA PartsKept ==
  ASSUME NEW p, NEW m, Built(m), ObjectOf(p, m)
  PROVE  ObjectOf(PartsRead(p), m)
<1>. DEFINE q == PartsRead(p)
<1>1. /\ q = AsRecord(q)
      /\ q.initiator = p.initiator /\ q.timestamp = p.timestamp /\ q.ttl = p.ttl /\ q.chain = p.chain
      /\ q.pricing = p.pricing /\ q.args = p.args /\ q.target = TargetRead(p.target)
      /\ q.entry = EntryRead(p).val /\ q.scheduling = TimeRead(p).val
  BY PartsFields
<1>. HIDE DEF q
<1>2. SameElsewhere(q, m) BY <1>1 DEF ObjectOf, SameElsewhere
<1>3. ASSUME ~PartsUnread(m)
      PROVE  SameParts(q, m) /\ PayloadBytes(q) = PayloadBytes(m)
  <2>1. EntryRead(p).val = m.entry /\ TimeRead(p).val = m.scheduling /\ TargetRead(p.target) = WithoutZeros(m.target)
    BY <1>3, PartsReadBack
  <2>2. SameParts(q, m) BY <1>1, <2>1 DEF SameParts
  <2>3. SameParts(p, m) /\ PayloadBytes(p) = PayloadBytes(m) BY <1>3 DEF ObjectOf
  <2>4. TargetBytes(q.target) = TargetBytes(m.target) /\ TargetBytes(p.target) = TargetBytes(m.target)
    BY <2>2, <2>3, SameTarget
  <2>5. q.entry = p.entry /\ q.scheduling = p.scheduling BY <2>2, <2>3 DEF SameParts
  <2>6. PayloadBytes(q) = PayloadBytes(p) BY <1>1, <2>4, <2>5, SameBytes
  <2>. QED BY <2>2, <2>3, <2>6
<1>. QED BY <1>1, <1>2, <1>3 DEF ObjectOf, q

(* A transaction by its fields.                                              *)
Wrapped(hash, payload, approvals) == [hash |-> hash, payload |-> payload, approvals |-> approvals]

(* Approvals are over the hash, one of each signer.                          *)
Approved(approvals, hash) ==
  /\ approvals \in Seq(Signers \X {hash})
  /\ \A i, j \in DOMAIN approvals : approvals[i][1] = approvals[j][1] => i = j

(* What is held is a transaction with the hash of what was built.            *)
Held(t, m) == t = Wrapped(PayloadBytes(m).val, t.payload, t.approvals) /\ Approved(t.approvals, PayloadBytes(m).val)

(* The inductive invariant.                                                  *)
IInv ==
  /\ form \in {"object", "json", "refused"} /\ byNode \in BOOLEAN
  /\ trips \in 0..MaxTrips /\ (form = "json" => trips < MaxTrips)
  /\ made \in Payloads /\ Built(made)
  /\ form = "refused" <=> cur = <<>>
  /\ form = "refused" => JsonUnread(made) \/ PartsUnread(made)
  /\ form # "refused" => Held(cur, made)
  /\ form = "object" => ObjectOf(cur.payload, made)
  /\ form = "json" => JsonOf(cur.payload, made, byNode)

(* A transaction is a hash, a payload and approvals.                         *)
LEMMA WrappedIs ==
  \A h, p, a :
    /\ Wrapped(h, p, a).hash = h /\ Wrapped(h, p, a).payload = p /\ Wrapped(h, p, a).approvals = a
    /\ Wrapped(h, p, a) # <<>>
<1>. SUFFICES ASSUME NEW h, NEW p, NEW a
              PROVE  /\ Wrapped(h, p, a).hash = h /\ Wrapped(h, p, a).payload = p /\ Wrapped(h, p, a).approvals = a
                     /\ Wrapped(h, p, a) # <<>>
  OBVIOUS
<1>1. \A e : e = <<>> => DOMAIN e = {} OBVIOUS
<1>2. DOMAIN Wrapped(h, p, a) = {"hash", "payload", "approvals"} BY DEF Wrapped
<1>3. Wrapped(h, p, a) # <<>> BY <1>1, <1>2
<1>4. Wrapped(h, p, a).hash = h /\ Wrapped(h, p, a).payload = p /\ Wrapped(h, p, a).approvals = a BY DEF Wrapped
<1>. QED BY <1>3, <1>4

(* What is held, by its fields, with another payload.                        *)
LEMMA HeldIs ==
  ASSUME NEW t, NEW m, Held(t, m)
  PROVE  LET h == PayloadBytes(m).val
         IN  /\ t = Wrapped(h, t.payload, t.approvals) /\ t.hash = h /\ t # <<>>
             /\ \A q : [t EXCEPT !.payload = q] = Wrapped(h, q, t.approvals) /\ Held(Wrapped(h, q, t.approvals), m)
<1>. DEFINE h == PayloadBytes(m).val
            p == t.payload
            a == t.approvals
<1>1. t = Wrapped(h, p, a) /\ Approved(a, h) BY DEF Held
<1>. HIDE DEF h, p, a
<1>2. t.hash = h /\ t # <<>> BY <1>1, WrappedIs
<1>3. ASSUME NEW q PROVE [t EXCEPT !.payload = q] = Wrapped(h, q, a)
  <2>1. [Wrapped(h, p, a) EXCEPT !.payload = q] = Wrapped(h, q, a) BY DEF Wrapped
  <2>. QED BY <1>1, <2>1, Zenon
<1>4. ASSUME NEW q PROVE Held(Wrapped(h, q, a), m)
  <2>1. Wrapped(h, q, a).payload = q /\ Wrapped(h, q, a).approvals = a BY WrappedIs
  <2>. QED BY <1>1, <2>1 DEF Held, h
<1>. QED BY <1>1, <1>2, <1>3, <1>4, Zenon DEF h, p, a

(* A signer that has not signed does.                                        *)
LEMMA ApprovedBy ==
  ASSUME NEW hash, NEW approvals, Approved(approvals, hash), NEW signer \in Signers,
         \A i \in DOMAIN approvals : approvals[i][1] # signer
  PROVE  Approved(Append(approvals, <<signer, hash>>), hash)
<1>. DEFINE T == Signers \X {hash}
            x == <<signer, hash>>
            s == Append(approvals, x)
            n == Len(approvals)
<1>1. approvals \in Seq(T) /\ \A i, j \in DOMAIN approvals : approvals[i][1] = approvals[j][1] => i = j
  BY DEF Approved
<1>2. x \in T /\ x[1] = signer OBVIOUS
<1>. HIDE DEF T, x
<1>3. s \in Seq(T) BY <1>1, <1>2
<1>4. DOMAIN approvals = 1..n /\ DOMAIN s = 1..(n + 1) /\ n \in Nat /\ s[n + 1] = x
      /\ \A i \in 1..n : s[i] = approvals[i]
  BY <1>1, <1>2
<1>. HIDE DEF s, n
<1>5. ASSUME NEW i \in DOMAIN s, NEW j \in DOMAIN s, s[i][1] = s[j][1]
      PROVE  i = j
  <2>1. (i \in 1..n \/ i = n + 1) /\ (j \in 1..n \/ j = n + 1) BY <1>4
  <2>2. CASE i \in 1..n /\ j \in 1..n BY <1>1, <1>4, <1>5, <2>2
  <2>3. CASE i \in 1..n /\ j = n + 1 BY <1>2, <1>4, <1>5, <2>3
  <2>4. CASE i = n + 1 /\ j \in 1..n BY <1>2, <1>4, <1>5, <2>4
  <2>5. CASE i = n + 1 /\ j = n + 1 BY <2>5
  <2>. QED BY <2>1, <2>2, <2>3, <2>4, <2>5
<1>. QED BY <1>3, <1>5 DEF Approved, T, x, s

(* There are no more approvals than signers.                                 *)
LEMMA ApprovalsBounded ==
  ASSUME NEW hash, NEW approvals, Approved(approvals, hash)
  PROVE  Len(approvals) <= Cardinality(Signers)
<1>. DEFINE n == Len(approvals)
            f == [i \in 1..n |-> approvals[i][1]]
<1>1. n \in Nat /\ DOMAIN approvals = 1..n /\ \A i \in 1..n : approvals[i][1] \in Signers BY DEF Approved
<1>2. \A i, j \in 1..n : f[i] = f[j] => i = j BY <1>1 DEF Approved
<1>3. f \in [1..n -> Signers] BY <1>1
<1>. HIDE DEF f
<1>4. f \in Injection(1..n, Signers) BY <1>2, <1>3 DEF Injection, IsInjective
<1>5. Cardinality(1..n) <= Cardinality(Signers) BY <1>4, SignersAssumption, FS_Injection
<1>6. Cardinality(1..n) = n
  <2>1. Cardinality(1..n) = IF 1 > n THEN 0 ELSE n - 1 + 1 BY <1>1, FS_Interval
  <2>. QED BY <1>1, <2>1
<1>. QED BY <1>5, <1>6

(* A transaction that was just made is held as it was made.                  *)
LEMMA InitHolds == Init => IInv
<1>. SUFFICES ASSUME Init PROVE IInv OBVIOUS
<1>1. /\ made \in Payloads /\ ~PayloadBytes(made).threw /\ form = "object" /\ byNode = FALSE /\ trips = 0
      /\ cur = Wrapped(PayloadBytes(made).val, made, <<>>)
  BY DEF Init, MakeTransactionV1, Wrapped
<1>2. Built(made) BY <1>1, PayloadsAssumption DEF Built
<1>3. cur # <<>> /\ cur.payload = made /\ cur.approvals = <<>> BY <1>1, WrappedIs
<1>4. \A hash : Approved(<<>>, hash) BY DEF Approved
<1>5. Held(cur, made) BY <1>1, <1>3, <1>4 DEF Held
<1>6. ObjectOf(made, made)
  <2>1. made = AsRecord(made) BY <1>2, PayloadShape DEF Built
  <2>. QED BY <2>1 DEF ObjectOf, SameElsewhere, SameParts
<1>7. 0 \in 0..MaxTrips BY TripsAssumption
<1>8. /\ form \in {"object", "json", "refused"} /\ byNode \in BOOLEAN /\ form # "json" /\ form # "refused"
  BY <1>1
<1>. QED BY <1>1, <1>2, <1>3, <1>5, <1>6, <1>7, <1>8 DEF IInv

(* Signing adds an approval over the hash and leaves the rest.               *)
LEMMA SignHolds ==
  ASSUME IInv, NEW signer \in Signers, Sign(signer)
  PROVE  IInv'
<1>. DEFINE h == PayloadBytes(made).val
            p == cur.payload
            a == cur.approvals
            b == Append(a, <<signer, h>>)
<1>1. /\ form = "object" /\ UNCHANGED <<made, form, byNode, trips>>
      /\ cur' = [cur EXCEPT !.approvals = Append(cur.approvals, <<signer, cur.hash>>)]
      /\ \A i \in DOMAIN a : a[i][1] # signer
  BY DEF Sign
<1>2. Held(cur, made) /\ ObjectOf(p, made) BY <1>1 DEF IInv
<1>3. cur = Wrapped(h, p, a) /\ cur.hash = h BY <1>2, HeldIs
<1>4. Approved(b, h) BY <1>1, <1>2, ApprovedBy DEF Held
<1>. HIDE DEF h, p, a, b
<1>5. cur' = Wrapped(h, p, b)
  <2>1. [Wrapped(h, p, a) EXCEPT !.approvals = b] = Wrapped(h, p, b) BY DEF Wrapped
  <2>2. cur' = [cur EXCEPT !.approvals = b] BY <1>1, <1>3 DEF a, b
  <2>3. [cur EXCEPT !.approvals = b] = Wrapped(h, p, b) BY <1>3, <2>1, Zenon
  <2>. QED BY <2>2, <2>3, Zenon
<1>6. cur' # <<>> /\ cur'.payload = p /\ cur'.approvals = b BY <1>5, WrappedIs
<1>7. made' = made /\ form' = "object" /\ byNode' = byNode /\ trips' = trips BY <1>1
<1>8. Held(cur', made') BY <1>4, <1>5, <1>6, <1>7 DEF Held, h
<1>9. ObjectOf(cur'.payload, made') BY <1>2, <1>6, <1>7
<1>. QED BY <1>6, <1>7, <1>8, <1>9 DEF IInv

(* Writing a transaction to JSON keeps what its readers need to know of      *)
(* it.                                                                       *)
LEMMA ToJSONHolds ==
  ASSUME IInv, ToJSON
  PROVE  IInv'
<1>. DEFINE h == PayloadBytes(made).val
            p == cur.payload
            a == cur.approvals
<1>1. form = "object" /\ trips < MaxTrips /\ Becomes(TransactionV1ToJSON(cur), "json") /\ UNCHANGED <<byNode, trips>>
  BY DEF ToJSON
<1>2. Held(cur, made) /\ ObjectOf(p, made) /\ Built(made) BY <1>1 DEF IInv
<1>3. PayloadToJSON(p) = IF ArgsJSON(p.args).threw THEN Thrown ELSE Taken(InJSON(p), <<>>)
  BY <1>2, ToJSONIs DEF ObjectOf
<1>4. CASE ArgsJSON(p.args).threw
  <2>1. Thrown.threw = TRUE BY DEF Thrown
  <2>2. TransactionV1ToJSON(cur) = Thrown BY <1>3, <1>4, <2>1 DEF TransactionV1ToJSON, Then
  <2>3. form' = "refused" /\ cur' = <<>> /\ made' = made /\ byNode' = byNode /\ trips' = trips
    BY <1>1, <2>1, <2>2 DEF Becomes
  <2>4. ArgsUnread(made.args) BY <1>2, <1>4 DEF ObjectOf, ArgsUnread
  <2>5. JsonUnread(made') BY <2>3, <2>4 DEF JsonUnread
  <2>6. (JsonUnread(made) \/ PartsUnread(made))' BY <2>3, <2>4 DEF JsonUnread
  <2>. QED BY <2>3, <2>6 DEF IInv
<1>5. CASE ~ArgsJSON(p.args).threw
  <2>. DEFINE q == InJSON(p)
              t == Wrapped(h, q, a)
  <2>1. JsonOf(q, made, byNode) BY <1>2, ObjectToJson
  <2>2. [cur EXCEPT !.payload = q] = t /\ Held(t, made) BY <1>2, HeldIs
  <2>3. PayloadToJSON(p).threw = FALSE /\ PayloadToJSON(p).val = q BY <1>3, <1>5 DEF Taken
  <2>4. t # <<>> /\ t.payload = q BY WrappedIs
  <2>. HIDE DEF q, t
  <2>5. TransactionV1ToJSON(cur) = Taken([cur EXCEPT !.payload = q], <<>>)
    BY <2>3, Zenon DEF TransactionV1ToJSON, Then
  <2>6. TransactionV1ToJSON(cur).threw = FALSE /\ TransactionV1ToJSON(cur).val = t BY <2>2, <2>5 DEF Taken
  <2>7. form' = "json" /\ cur' = t /\ made' = made /\ byNode' = byNode /\ trips' = trips
    BY <1>1, <2>6 DEF Becomes
  <2>8. Held(cur', made') /\ cur' # <<>> /\ JsonOf(cur'.payload, made', byNode') BY <2>1, <2>2, <2>4, <2>7
  <2>. QED BY <1>1, <2>7, <2>8 DEF IInv
<1>. QED BY <1>4, <1>5

(* A node that writes the ttl in its own words tells the same duration.      *)
LEMMA NodeShowsHolds ==
  ASSUME IInv, NodeShows
  PROVE  IInv'
<1>. DEFINE h == PayloadBytes(made).val
            p == cur.payload
            a == cur.approvals
            n == NodeTTL(made.ttl)
            q == Fields(p.initiator, p.timestamp, n, p.chain, p.pricing, p.args, p.target, p.entry, p.scheduling)
            t == Wrapped(h, q, a)
<1>1. /\ form = "json" /\ byNode' = TRUE /\ UNCHANGED <<made, form, trips>>
      /\ cur' = [cur EXCEPT !.payload = [cur.payload EXCEPT !.ttl = NodeTTL(made.ttl)]]
  BY DEF NodeShows
<1>2. Held(cur, made) /\ JsonOf(p, made, byNode) /\ Built(made) BY <1>1 DEF IInv
<1>3. [p EXCEPT !.ttl = n] = q BY <1>2, TtlReplaced DEF JsonOf
<1>4. [cur EXCEPT !.payload = q] = t /\ Held(t, made) BY <1>2, HeldIs
<1>5. t # <<>> /\ t.payload = q BY WrappedIs
<1>6. JsonOf(q, made, TRUE)
  <2>1. q = AsRecord(q) BY FieldsOf DEF AsRecord
  <2>2. /\ q.initiator = p.initiator /\ q.timestamp = p.timestamp /\ q.ttl = n /\ q.chain = p.chain
        /\ q.pricing = p.pricing /\ q.args = p.args /\ q.target = p.target /\ q.entry = p.entry
        /\ q.scheduling = p.scheduling
    BY FieldsOf
  <2>3. n \in TtlTexts(made.ttl, TRUE) BY DEF TtlTexts
  <2>. HIDE DEF q, n
  <2>. QED BY <1>2, <2>1, <2>2, <2>3 DEF JsonOf, SameElsewhere, SameParts
<1>. HIDE DEF q, t, n
<1>7. cur' = t
  <2>1. cur' = [cur EXCEPT !.payload = [p EXCEPT !.ttl = n]] BY <1>1, Zenon DEF n
  <2>. QED BY <1>3, <1>4, <2>1, Zenon
<1>8. made' = made /\ form' = "json" /\ trips' = trips BY <1>1
<1>9. Held(cur', made') /\ cur' # <<>> /\ JsonOf(cur'.payload, made', byNode') BY <1>1, <1>4, <1>5, <1>6, <1>7, <1>8
<1>. QED BY <1>1, <1>8, <1>9 DEF IInv

(* What is read back in full, or refused.                                    *)
Refusal == IInv /\ made' = made /\ byNode' = byNode /\ form' = "refused" /\ cur' = <<>>

(* A refusal has a cause in the payload that was made.                       *)
LEMMA RefusalHolds ==
  ASSUME Refusal, JsonUnread(made) \/ PartsUnread(made), trips' \in 0..MaxTrips
  PROVE  IInv'
<1>1. JsonUnread(made) => JsonUnread(made)' BY DEF Refusal, JsonUnread
<1>2. PartsUnread(made) => PartsUnread(made)' BY DEF Refusal
<1>3. (JsonUnread(made) \/ PartsUnread(made))' BY <1>1, <1>2
<1>. QED BY <1>3 DEF Refusal, IInv

(* A transaction that is read from JSON and validated is held as it was      *)
(* made, or refused for a cause.                                             *)
LEMMA FromJSONHolds ==
  ASSUME IInv, FromJSON
  PROVE  IInv'
<1>. DEFINE h == PayloadBytes(made).val
            p == cur.payload
            a == cur.approvals
            q == OutOfJSON(p)
            t == Wrapped(h, q, a)
<1>1. form = "json" /\ Becomes(TransactionV1FromJSON(cur), "object") /\ trips' = trips + 1 /\ byNode' = byNode
  BY DEF FromJSON, TransactionFromJSON
<1>2. Held(cur, made) /\ JsonOf(p, made, byNode) /\ Built(made) /\ trips \in 0..MaxTrips /\ trips < MaxTrips
  BY <1>1 DEF IInv
<1>3. trips' \in 0..MaxTrips BY <1>1, <1>2, TripsAssumption
<1>4. PayloadFromJSON(p) = IF NotOutOfJSON(p) THEN Thrown ELSE Taken(q, <<>>) BY <1>2, FromJSONIs DEF JsonOf
<1>5. [cur EXCEPT !.payload = q] = t /\ Held(t, made) BY <1>2, HeldIs
<1>6. t # <<>> /\ t.payload = q /\ t.hash = h /\ t.approvals = a BY WrappedIs
<1>7. PayloadBytes(made) = Taken(h, <<>>) BY <1>2, PayloadSigned DEF Built
<1>8. Thrown.threw = TRUE BY DEF Thrown
<1>. HIDE DEF h, a, q, t
<1>9. Validates(t) <=> PayloadBytes(q) = PayloadBytes(made)
  <2>1. \A i \in DOMAIN a : a[i][2] = h BY <1>2 DEF Held, Approved, h, a
  <2>. QED BY <1>6, <1>7, <2>1 DEF Validates
<1>10. CASE NotOutOfJSON(p)
  <2>1. TransactionV1FromJSON(cur) = Thrown BY <1>4, <1>8, <1>10 DEF TransactionV1FromJSON, Then
  <2>2. form' = "refused" /\ cur' = <<>> /\ made' = made BY <1>1, <1>8, <2>1 DEF Becomes
  <2>3. JsonUnread(made) \/ PartsUnread(made) BY <1>2, <1>10, JsonValid
  <2>. QED BY <1>1, <1>3, <2>2, <2>3, RefusalHolds DEF Refusal
<1>11. CASE ~NotOutOfJSON(p)
  <2>1. PayloadFromJSON(p).threw = FALSE /\ PayloadFromJSON(p).val = q BY <1>4, <1>11 DEF Taken
  <2>2. TransactionV1FromJSON(cur)
          = LET transaction == [cur EXCEPT !.payload = q]
            IN  IF Validates(transaction) THEN Taken(transaction, <<>>) ELSE Thrown
    BY <2>1, Zenon DEF TransactionV1FromJSON, Then
  <2>3. TransactionV1FromJSON(cur) = IF Validates(t) THEN Taken(t, <<>>) ELSE Thrown BY <1>5, <2>2, Zenon
  <2>4. CASE Validates(t)
    <3>1. TransactionV1FromJSON(cur).threw = FALSE /\ TransactionV1FromJSON(cur).val = t BY <2>3, <2>4 DEF Taken
    <3>2. form' = "object" /\ cur' = t /\ made' = made BY <1>1, <3>1 DEF Becomes
    <3>3. ObjectOf(q, made) BY <1>2, <1>9, <1>11, <2>4, JsonToObject DEF q
    <3>4. Held(cur', made') /\ cur' # <<>> /\ ObjectOf(cur'.payload, made') BY <1>5, <1>6, <3>2, <3>3
    <3>. QED BY <1>1, <1>3, <3>2, <3>4 DEF IInv
  <2>5. CASE ~Validates(t)
    <3>1. TransactionV1FromJSON(cur) = Thrown BY <2>3, <2>5
    <3>2. form' = "refused" /\ cur' = <<>> /\ made' = made BY <1>1, <1>8, <3>1 DEF Becomes
    <3>3. JsonUnread(made) \/ PartsUnread(made) BY <1>2, <1>9, <2>5, JsonValid DEF q
    <3>. QED BY <1>1, <1>3, <3>2, <3>3, RefusalHolds DEF Refusal
  <2>. QED BY <2>4, <2>5
<1>. QED BY <1>10, <1>11

(* So is one whose parts are read back from their bytes.                     *)
LEMMA ReadPartsHolds ==
  ASSUME IInv, ReadParts
  PROVE  IInv'
<1>. DEFINE h == PayloadBytes(made).val
            p == cur.payload
            a == cur.approvals
            q == PartsRead(p)
            t == Wrapped(h, q, a)
            next == Then(PartsFromBytes(p), LAMBDA payload, ignored : Taken([cur EXCEPT !.payload = payload], <<>>))
            unread == EntryRead(p).threw \/ TimeRead(p).threw \/ IdRead(p.target).threw
<1>1. form = "object" /\ trips < MaxTrips /\ Becomes(next, "object") /\ trips' = trips + 1 /\ byNode' = byNode
  BY DEF ReadParts
<1>2. Held(cur, made) /\ ObjectOf(p, made) /\ Built(made) /\ trips \in 0..MaxTrips BY <1>1 DEF IInv
<1>3. trips' \in 0..MaxTrips
  <2>. HIDE DEF next
  <2>. QED BY <1>1, <1>2, TripsAssumption
<1>4. PartsFromBytes(p) = IF unread THEN Thrown ELSE Taken(q, <<>>) BY <1>2, PartsIs DEF ObjectOf
<1>5. [cur EXCEPT !.payload = q] = t /\ Held(t, made) BY <1>2, HeldIs
<1>6. t # <<>> /\ t.payload = q BY WrappedIs
<1>7. Thrown.threw = TRUE BY DEF Thrown
<1>8. ObjectOf(q, made) BY <1>2, PartsKept
<1>9. unread => PartsUnread(made) BY <1>2, PartsReadBack
<1>. HIDE DEF h, a, q, t, unread
<1>10. CASE unread
  <2>1. next = Thrown BY <1>4, <1>7, <1>10 DEF Then
  <2>. HIDE DEF next
  <2>2. form' = "refused" /\ cur' = <<>> /\ made' = made BY <1>1, <1>7, <2>1 DEF Becomes
  <2>. QED BY <1>1, <1>3, <1>9, <1>10, <2>2, RefusalHolds DEF Refusal
<1>11. CASE ~unread
  <2>1. PartsFromBytes(p).threw = FALSE /\ PartsFromBytes(p).val = q BY <1>4, <1>11 DEF Taken
  <2>2. next = Taken([cur EXCEPT !.payload = q], <<>>) BY <2>1, Zenon DEF Then
  <2>. HIDE DEF next
  <2>3. next.threw = FALSE /\ next.val = t BY <1>5, <2>2 DEF Taken
  <2>4. form' = "object" /\ cur' = t /\ made' = made BY <1>1, <2>3 DEF Becomes
  <2>5. Held(cur', made') /\ cur' # <<>> /\ ObjectOf(cur'.payload, made') BY <1>5, <1>6, <1>8, <2>4
  <2>. QED BY <1>1, <1>3, <2>4, <2>5 DEF IInv
<1>. QED BY <1>10, <1>11

(* In every state the transaction is held over the hash of the one made,     *)
(* and reads as it (IInv).                                                   *)
THEOREM Invariant == Spec => []IInv
<1>1. IInv /\ [Next]_vars => IInv'
  <2>. SUFFICES ASSUME IInv, [Next]_vars PROVE IInv' OBVIOUS
  <2>1. CASE \E signer \in Signers : Sign(signer) BY <2>1, SignHolds
  <2>2. CASE ToJSON BY <2>2, ToJSONHolds
  <2>3. CASE NodeShows BY <2>3, NodeShowsHolds
  <2>4. CASE FromJSON BY <2>4, FromJSONHolds
  <2>5. CASE ReadParts BY <2>5, ReadPartsHolds
  <2>6. CASE UNCHANGED vars
    <3>1. made' = made /\ form' = form /\ cur' = cur /\ byNode' = byNode /\ trips' = trips BY <2>6 DEF vars
    <3>2. JsonUnread(made) => JsonUnread(made)' BY <3>1 DEF JsonUnread
    <3>3. (JsonUnread(made) \/ PartsUnread(made)) => (JsonUnread(made) \/ PartsUnread(made))' BY <3>1, <3>2
    <3>. QED BY <3>1, <3>3 DEF IInv
  <2>. QED BY <2>1, <2>2, <2>3, <2>4, <2>5, <2>6 DEF Next
<1>. QED BY <1>1, InitHolds, PTL DEF Spec

(* A transaction on its way has its type (TransactionV1.ts,                  *)
(* InitiatorAddr.ts and the classes of its parts).                           *)
THEOREM TypesHold == Spec => []TypeOK
<1>1. IInv => TypeOK
  <2>. SUFFICES ASSUME IInv PROVE TypeOK OBVIOUS
  <2>1. form # "refused" => Len(cur.approvals) <= Cardinality(Signers)
    <3>1. form # "refused" => Approved(cur.approvals, PayloadBytes(made).val) BY DEF IInv, Held
    <3>. QED BY <3>1, ApprovalsBounded
  <2>2. form = "object" => cur.payload.ttl \in Nat \cup {NotWhole}
    <3>1. made.ttl \in Nat BY PayloadShape DEF IInv, Built
    <3>. QED BY <3>1 DEF IInv, ObjectOf
  <2>. QED BY <2>1, <2>2 DEF IInv, TypeOK
<1>. QED BY <1>1, Invariant, PTL

(* ArrivesAsSigned: whatever hands a transaction has passed through, it is   *)
(* the one that was signed, or it was refused (TransactionV1.fromJSON,       *)
(* validate).                                                                *)
THEOREM WalletsAgree == Spec => []ArrivesAsSigned
<1>1. IInv => ArrivesAsSigned
  <2>. SUFFICES ASSUME IInv, form = "object", ~PartsUnread(made)
                PROVE  /\ PayloadBytes(cur.payload) = PayloadBytes(made)
                       /\ cur.hash = PayloadBytes(made).val
                       /\ Validates(cur)
    BY DEF ArrivesAsSigned
  <2>. DEFINE h == PayloadBytes(made).val
  <2>1. Held(cur, made) /\ ObjectOf(cur.payload, made) /\ Built(made) BY DEF IInv
  <2>2. PayloadBytes(cur.payload) = PayloadBytes(made) BY <2>1 DEF ObjectOf
  <2>3. cur.hash = h BY <2>1, HeldIs
  <2>4. PayloadBytes(made) = Taken(h, <<>>) BY <2>1, PayloadSigned DEF Built
  <2>5. \A i \in DOMAIN cur.approvals : cur.approvals[i][2] = h BY <2>1 DEF Held, Approved
  <2>. HIDE DEF h
  <2>6. Validates(cur) BY <2>2, <2>3, <2>4, <2>5 DEF Validates
  <2>. QED BY <2>2, <2>3, <2>6 DEF h
<1>. QED BY <1>1, Invariant, PTL

(* RefusedOnlyForCause: a transaction is refused only where a reader of      *)
(* the code cannot read what a writer of it wrote.                           *)
THEOREM RefusalsHaveACause == Spec => []RefusedOnlyForCause
<1>1. IInv => RefusedOnlyForCause BY DEF IInv, RefusedOnlyForCause
<1>. QED BY <1>1, Invariant, PTL

(* A plain duration is read as it is from both texts.                        *)
LEMMA PlainRead ==
  ASSUME NEW n \in Nat, Plain(n)
  PROVE  DehumanizerTTL(HumanizerTTL(n)) = Taken(n, <<>>) /\ DehumanizerTTL(NodeTTL(n)) = Taken(n, <<>>)
<1>. DEFINE days == n >= 2 * Day
            weeks == n >= Week
            rounds == RoundsOff(n % Minute)
<1>1. ~days /\ ~weeks BY UnitSizes, SMT DEF Plain
<1>2. ~rounds
  <2>1. n % 1000 = 0 BY DEF Plain
  <2>2. (n % 60000) % 1000 = 0 BY <2>1, SMT
  <2>3. n % 60000 \in Nat BY SMT
  <2>4. \A k \in 1001..1023 : k % 1000 # 0 BY SMT
  <2>. QED BY <2>2, <2>3, <2>4, SMT DEF RoundsOff, Minute
<1>3. DehumanizerTTL(HumanizerTTL(n))
        = IF weeks THEN Thrown ELSE IF rounds THEN Taken(NotWhole, <<>>) ELSE Taken(n, <<>>)
  BY HumanRead
<1>4. DehumanizerTTL(NodeTTL(n)) = IF days THEN Taken(NotWhole, <<>>) ELSE Taken(n, <<>>) BY NodeRead
<1>. HIDE DEF days, weeks, rounds
<1>. QED BY <1>1, <1>2, <1>3, <1>4

(* DurationsAgree: the two readers of a ttl make the same of what the        *)
(* library and a node write of a plain one (Time.ts, utils.ts).              *)
THEOREM ReadersAgree == Spec => []DurationsAgree
<1>1. IInv => DurationsAgree
  <2>. SUFFICES ASSUME IInv, form = "json", made.ttl % 1000 = 0, made.ttl < 2 * Day
                PROVE  /\ ParseDurationString(cur.payload.ttl) = Taken(made.ttl, <<>>)
                       /\ DehumanizerTTL(cur.payload.ttl) = Taken(made.ttl, <<>>)
    BY DEF DurationsAgree
  <2>1. made.ttl \in Nat BY PayloadShape DEF IInv, Built
  <2>2. Plain(made.ttl) BY DEF Plain
  <2>3. cur.payload.ttl = HumanizerTTL(made.ttl) \/ cur.payload.ttl = NodeTTL(made.ttl)
    BY DEF IInv, JsonOf, TtlTexts
  <2>. QED BY <2>1, <2>2, <2>3, HumanParsed, NodeParsed, PlainRead
<1>. QED BY <1>1, Invariant, PTL

-----------------------------------------------------------------------------
(* What is signed says one thing. *)

(* The same calltable is the calltable of the same fields.                   *)
LEMMA TablesDiffer == \A f, g \in Seq(Octets) : CalltableBytes(f) = CalltableBytes(g) => f = g
<1> SUFFICES ASSUME NEW f \in Seq(Octets), NEW g \in Seq(Octets), CalltableBytes(f) = CalltableBytes(g)
             PROVE  f = g
  OBVIOUS
<1>1. Taken(TableOf(f), <<>>) = Taken(TableOf(g), <<>>)
  <2>1. CalltableFromBytes(CalltableBytes(f)) = Taken(TableOf(f), <<>>) BY TableRead
  <2>2. CalltableFromBytes(CalltableBytes(g)) = Taken(TableOf(g), <<>>) BY TableRead
  <2>. QED BY <2>1, <2>2
<1>2. TableOf(f) = TableOf(g) BY <1>1 DEF Taken
<1>3. DOMAIN TableOf(f) = 1..Len(f) /\ DOMAIN TableOf(g) = 1..Len(g) BY DEF TableOf
<1>4. Len(f) \in Nat /\ Len(g) \in Nat /\ DOMAIN f = 1..Len(f) /\ DOMAIN g = 1..Len(g) OBVIOUS
<1>5. Len(f) = Len(g)
  <2>1. \A m, n \in Nat : 1..m = 1..n => m = n
    <3> SUFFICES ASSUME NEW m \in Nat, NEW n \in Nat, 1..m = 1..n PROVE m = n OBVIOUS
    <3>1. m > 0 => m \in 1..n OBVIOUS
    <3>2. n > 0 => n \in 1..m OBVIOUS
    <3>. QED BY <3>1, <3>2
  <2>. QED BY <1>2, <1>3, <1>4, <2>1
<1>6. \A i \in 1..Len(f) : f[i] = g[i]
  <2> SUFFICES ASSUME NEW i \in 1..Len(f) PROVE f[i] = g[i] OBVIOUS
  <2>1. TableOf(f)[i].value = f[i] BY DEF TableOf
  <2>2. TableOf(g)[i].value = g[i] BY <1>5 DEF TableOf
  <2>. QED BY <1>2, <2>1, <2>2
<1>. QED BY <1>4, <1>5, <1>6

(* A calltable is a list of bytes.                                           *)
LEMMA TableType == \A f \in Seq(Octets) : CalltableBytes(f) \in Octets
  BY CalltableIs

(* So the fields of a payload are found again in the same bytes only.        *)
LEMMA FieldsDiffer ==
  \A f, g \in Seq(Octets) : FieldsText(f) = FieldsText(g) => f = g
<1> SUFFICES ASSUME NEW f \in Seq(Octets), NEW g \in Seq(Octets), FieldsText(f) = FieldsText(g)
             PROVE  f = g
  OBVIOUS
<1>. DEFINE found(h) == [i \in 1..Len(h) |-> <<i - 1, h[i]>>]
<1>1. Taken(found(f), <<>>) = Taken(found(g), <<>>)
  <2>1. FieldsRead(FieldsText(f)) = Taken(found(f), <<>>) BY FieldsFound
  <2>2. FieldsRead(FieldsText(g)) = Taken(found(g), <<>>) BY FieldsFound
  <2>. QED BY <2>1, <2>2
<1>2. found(f) = found(g)
  <2>. HIDE DEF found
  <2>. QED BY <1>1 DEF Taken
<1>3. DOMAIN found(f) = 1..Len(f) /\ DOMAIN found(g) = 1..Len(g) OBVIOUS
<1>4. Len(f) \in Nat /\ Len(g) \in Nat /\ DOMAIN f = 1..Len(f) /\ DOMAIN g = 1..Len(g) OBVIOUS
<1>5. Len(f) = Len(g)
  <2>1. \A m, n \in Nat : 1..m = 1..n => m = n
    <3> SUFFICES ASSUME NEW m \in Nat, NEW n \in Nat, 1..m = 1..n PROVE m = n OBVIOUS
    <3>1. m > 0 => m \in 1..n OBVIOUS
    <3>2. n > 0 => n \in 1..m OBVIOUS
    <3>. QED BY <3>1, <3>2
  <2>. HIDE DEF found
  <2>. QED BY <1>2, <1>3, <1>4, <2>1
<1>6. \A i \in 1..Len(f) : f[i] = g[i]
  <2> SUFFICES ASSUME NEW i \in 1..Len(f) PROVE f[i] = g[i] OBVIOUS
  <2>1. found(f)[i][2] = f[i] OBVIOUS
  <2>2. found(g)[i][2] = g[i] BY <1>5
  <2>. HIDE DEF found
  <2>. QED BY <1>2, <2>1, <2>2
<1>. QED BY <1>4, <1>5, <1>6

(* Two lists that begin the same one: the shorter begins the longer.         *)
LEMMA Comparable ==
  ASSUME NEW T, NEW x \in Seq(T), NEW y \in Seq(T), NEW u \in Seq(T), NEW v \in Seq(T), x \o u = y \o v
  PROVE  IsPrefix(x, y) \/ IsPrefix(y, x)
<1>1. \A a, b, c, d \in Seq(T) : a \o c = b \o d /\ Len(a) <= Len(b) => IsPrefix(a, b)
  <2> SUFFICES ASSUME NEW a \in Seq(T), NEW b \in Seq(T), NEW c \in Seq(T), NEW d \in Seq(T),
                      a \o c = b \o d, Len(a) <= Len(b)
               PROVE  IsPrefix(a, b)
    OBVIOUS
  <2>1. Follows(a \o c, a, c) /\ Follows(b \o d, b, d) BY ConcatElements
  <2>2. \A i \in 1..Len(a) : a[i] = b[i] BY <2>1 DEF Follows
  <2>3. SubSeq(a, 1, Len(a)) = SubSeq(b, 1, Len(a)) BY <2>2
  <2>. QED BY <2>3 DEF IsPrefix
<1>2. Len(x) <= Len(y) \/ Len(y) <= Len(x) OBVIOUS
<1>. QED BY <1>1, <1>2

(* Pieces none of which begins another are told apart in what they make      *)
(* together, if there are as many of them.                                   *)
PrefixFree(S) == \A x, y \in S : IsPrefix(x, y) => x = y

(* As many pieces of a set none of which begins another make different       *)
(* lists if they differ.                                                     *)
LEMMA PiecesDiffer ==
  ASSUME NEW T, NEW S, S \subseteq Seq(T), PrefixFree(S), NEW s \in Seq(S), NEW t \in Seq(S),
         Len(s) = Len(t), FlattenSeq(s) = FlattenSeq(t)
  PROVE  s = t
<1>1. s \in Seq(Seq(T)) /\ t \in Seq(Seq(T)) BY Widened
<1>2. Len(s) \in Nat /\ DOMAIN s = 1..Len(s) /\ DOMAIN t = 1..Len(s) OBVIOUS
<1>. DEFINE P == {n \in Nat : n <= Len(s) => \A i \in 1..n : s[i] = t[i]}
<1>3. 0 \in P OBVIOUS
<1>4. \A n \in Nat : n \in P => n + 1 \in P
  <2> SUFFICES ASSUME NEW n \in Nat, n \in P PROVE n + 1 \in P
    <3>. HIDE DEF P
    <3>. QED OBVIOUS
  <2> SUFFICES ASSUME n + 1 <= Len(s) PROVE \A i \in 1..(n + 1) : s[i] = t[i] OBVIOUS
  <2>1. \A i \in 1..n : s[i] = t[i] BY <1>2
  <2>. DEFINE k == n + 1
  <2>2. k \in 1..Len(s) /\ k \in 1..Len(t) BY <1>2
  <2>3. SubSeq(s, 1, k - 1) = SubSeq(t, 1, k - 1)
    <3>1. \A i \in 1..n : s[i] = t[i] /\ i \in 1..Len(s) BY <1>2, <2>1
    <3>2. SubSeq(s, 1, n) = [i \in 1..n |-> s[i]] /\ SubSeq(t, 1, n) = [i \in 1..n |-> t[i]] BY <1>2, <2>2
    <3>. QED BY <3>1, <3>2
  <2>4. Before(s, k) = Before(t, k) BY <2>3 DEF Before
  <2>5. /\ Before(s, k) \in Seq(T) /\ After(s, k) \in Seq(T) /\ s[k] \in Seq(T)
        /\ FlattenSeq(s) = Before(s, k) \o (s[k] \o After(s, k))
    <3>. HIDE DEF k
    <3>. QED BY <1>1, <2>2, FlattenSplit
  <2>6. /\ Before(t, k) \in Seq(T) /\ After(t, k) \in Seq(T) /\ t[k] \in Seq(T)
        /\ FlattenSeq(t) = Before(t, k) \o (t[k] \o After(t, k))
    <3>. HIDE DEF k
    <3>. QED BY <1>1, <2>2, FlattenSplit
  <2>. HIDE DEF k
  <2>7. s[k] \o After(s, k) = t[k] \o After(t, k)
    <3>. DEFINE a == Before(s, k)
                b == s[k] \o After(s, k)
                c == Before(t, k)
                d == t[k] \o After(t, k)
    <3>1. a \in Seq(T) /\ b \in Seq(T) /\ c \in Seq(T) /\ d \in Seq(T) BY <2>5, <2>6, ConcatType
    <3>2. a \o b = c \o d /\ a = c BY <2>4, <2>5, <2>6
    <3>. HIDE DEF a, b, c, d
    <3>3. b = d BY <3>1, <3>2, ConcatInjective
    <3>. QED BY <3>3 DEF b, d
  <2>8. IsPrefix(s[k], t[k]) \/ IsPrefix(t[k], s[k])
    <3>. DEFINE x == s[k]
                y == t[k]
                u == After(s, k)
                v == After(t, k)
    <3>1. x \in Seq(T) /\ y \in Seq(T) /\ u \in Seq(T) /\ v \in Seq(T) /\ x \o u = y \o v BY <2>5, <2>6, <2>7
    <3>. HIDE DEF x, y, u, v
    <3>2. IsPrefix(x, y) \/ IsPrefix(y, x) BY <3>1, Comparable
    <3>. QED BY <3>2 DEF x, y
  <2>9. s[k] \in S /\ t[k] \in S BY <2>2
  <2>10. s[k] = t[k] BY <2>8, <2>9 DEF PrefixFree
  <2>. QED BY <2>1, <2>10 DEF k
<1>5. Nat \subseteq P
  <2>. HIDE DEF P
  <2>. QED BY <1>3, <1>4, NaturalInduction
<1>6. \A i \in 1..Len(s) : s[i] = t[i] BY <1>2, <1>5
<1>7. s = [i \in 1..Len(s) |-> s[i]] /\ t = [i \in 1..Len(s) |-> t[i]] BY <1>2
<1>. HIDE DEF P
<1>. QED BY <1>6, <1>7

(* Characters and their bytes.                                               *)
Letter == 0..2047 \cup {Replacement}
Code(c) ==
  CASE c < 128 -> <<c>>
    [] c = Replacement -> <<239, 191, 189>>
    [] OTHER -> <<192 + (c \div 64), 128 + (c % 64)>>
Codes == {Code(c) : c \in Letter}

(* One, two or three bytes, and the first of them says how many.             *)
CodeShape(c) ==
  \/ c < 128 /\ Code(c) = <<c>>
  \/ c = Replacement /\ Code(c) = <<239, 191, 189>>
  \/ /\ c >= 128 /\ c <= 2047 /\ Code(c) = <<192 + (c \div 64), 128 + (c % 64)>>
     /\ c \div 64 \in Nat /\ c \div 64 <= 31 /\ c % 64 \in Nat /\ c = 64 * (c \div 64) + (c % 64)

(* The bytes of a character, by how many there are.                          *)
LEMMA CodeIs == \A c \in Letter : c \in Nat /\ CodeShape(c)
<1> SUFFICES ASSUME NEW c \in Letter PROVE c \in Nat /\ CodeShape(c)
  OBVIOUS
<1>1. c \in Nat /\ (c <= 2047 \/ c = Replacement) BY DEF Letter, Replacement
<1>2. CASE c < 128
  <2>1. Code(c) = <<c>> BY <1>1, <1>2 DEF Code, Replacement
  <2>. QED BY <1>1, <1>2, <2>1 DEF CodeShape
<1>3. CASE c = Replacement
  <2>1. ~(c < 128) BY <1>3 DEF Replacement
  <2>2. Code(c) = <<239, 191, 189>> BY <1>3, <2>1 DEF Code
  <2>. QED BY <1>1, <1>3, <2>2 DEF CodeShape
<1>4. CASE c >= 128 /\ c # Replacement
  <2>1. ~(c < 128) /\ c <= 2047 BY <1>1, <1>4
  <2>2. Code(c) = <<192 + (c \div 64), 128 + (c % 64)>> BY <1>4, <2>1 DEF Code
  <2>3. c \div 64 \in Nat /\ c \div 64 <= 31 /\ c % 64 \in Nat /\ c = 64 * (c \div 64) + (c % 64) BY <1>1, <2>1
  <2>. QED BY <1>1, <1>4, <2>1, <2>2, <2>3 DEF CodeShape
<1>. QED BY <1>1, <1>2, <1>3, <1>4

(* They are bytes.                                                           *)
LEMMA CodeType == \A c \in Letter : Code(c) \in Octets
<1> SUFFICES ASSUME NEW c \in Letter PROVE Code(c) \in Octets
  OBVIOUS
<1>1. c \in Nat /\ CodeShape(c) BY CodeIs
<1>2. CASE c < 128 /\ Code(c) = <<c>> BY <1>1, <1>2 DEF Octets
<1>3. CASE Code(c) = <<239, 191, 189>> BY <1>3 DEF Octets
<1>4. CASE c \div 64 \in Nat /\ c % 64 \in Nat /\ Code(c) = <<192 + (c \div 64), 128 + (c % 64)>>
  <2>. DEFINE x == 192 + (c \div 64)
              y == 128 + (c % 64)
  <2>1. x \in Nat /\ y \in Nat BY <1>4
  <2>. HIDE DEF x, y
  <2>2. <<x, y>> \in Seq(Nat) BY <2>1
  <2>. QED BY <1>4, <2>2 DEF Octets, x, y
<1>. QED BY <1>1, <1>2, <1>3, <1>4 DEF CodeShape

(* The bytes of one character do not begin those of another.                 *)
LEMMA CodesDiffer == \A c, d \in Letter : IsPrefix(Code(c), Code(d)) => c = d
<1> SUFFICES ASSUME NEW c \in Letter, NEW d \in Letter, IsPrefix(Code(c), Code(d))
             PROVE  c = d
  OBVIOUS
<1>1. c \in Nat /\ d \in Nat /\ CodeShape(c) /\ CodeShape(d) BY CodeIs
<1>2. /\ Code(c) \in Octets /\ Code(d) \in Octets /\ Len(Code(c)) <= Len(Code(d))
      /\ \A i \in 1..Len(Code(c)) : Code(c)[i] = Code(d)[i]
  <2>. DEFINE s == Code(c)
              t == Code(d)
  <2>1. s \in Seq(Nat) /\ t \in Seq(Nat) BY CodeType DEF Octets
  <2>2. Len(s) <= Len(t) /\ SubSeq(s, 1, Len(s)) = SubSeq(t, 1, Len(s)) BY DEF IsPrefix
  <2>. HIDE DEF s, t
  <2>3. \A i \in 1..Len(s) : s[i] = t[i]
    <3> SUFFICES ASSUME NEW i \in 1..Len(s) PROVE s[i] = t[i] OBVIOUS
    <3>1. Len(s) \in Nat /\ Len(t) \in Nat BY <2>1
    <3>2. SubSeq(s, 1, Len(s))[i] = s[i] BY <2>1, <3>1
    <3>3. SubSeq(t, 1, Len(s))[i] = t[i] BY <2>1, <2>2, <3>1
    <3>. QED BY <2>2, <3>2, <3>3
  <2>. QED BY <2>1, <2>2, <2>3 DEF s, t, Octets
<1>3. \A e, a : e = <<a>> => Len(e) = 1 /\ e[1] = a OBVIOUS
<1>4. \A e, a, b : e = <<a, b>> => Len(e) = 2 /\ e[1] = a /\ e[2] = b OBVIOUS
<1>5. \A e, a, b, g : e = <<a, b, g>> => Len(e) = 3 /\ e[1] = a /\ e[2] = b OBVIOUS
<1>6. \A x \in Letter : CodeShape(x) => /\ Len(Code(x)) \in {1, 2, 3}
                                        /\ Len(Code(x)) = 1 <=> x < 128
                                        /\ Len(Code(x)) = 3 <=> x = Replacement
                                        /\ Len(Code(x)) = 1 => Code(x)[1] = x
                                        /\ Len(Code(x)) = 3 => Code(x)[1] = 239
                                        /\ Len(Code(x)) = 2 => /\ x = 64 * (Code(x)[1] - 192) + (Code(x)[2] - 128)
                                                               /\ Code(x)[1] >= 192 /\ Code(x)[1] <= 223
  <2> SUFFICES ASSUME NEW x \in Letter, CodeShape(x)
               PROVE  /\ Len(Code(x)) \in {1, 2, 3}
                      /\ Len(Code(x)) = 1 <=> x < 128
                      /\ Len(Code(x)) = 3 <=> x = Replacement
                      /\ Len(Code(x)) = 1 => Code(x)[1] = x
                      /\ Len(Code(x)) = 3 => Code(x)[1] = 239
                      /\ Len(Code(x)) = 2 => /\ x = 64 * (Code(x)[1] - 192) + (Code(x)[2] - 128)
                                             /\ Code(x)[1] >= 192 /\ Code(x)[1] <= 223
    OBVIOUS
  <2>0. x \in Nat BY CodeIs
  <2>1. CASE x < 128 /\ Code(x) = <<x>>
    <3>1. Len(Code(x)) = 1 /\ Code(x)[1] = x BY <1>3, <2>1
    <3>. QED BY <2>0, <2>1, <3>1 DEF Replacement
  <2>2. CASE x = Replacement /\ Code(x) = <<239, 191, 189>>
    <3>1. Len(Code(x)) = 3 /\ Code(x)[1] = 239 BY <1>5, <2>2
    <3>. QED BY <2>0, <2>2, <3>1 DEF Replacement
  <2>3. CASE /\ x >= 128 /\ x <= 2047 /\ Code(x) = <<192 + (x \div 64), 128 + (x % 64)>>
             /\ x \div 64 \in Nat /\ x \div 64 <= 31 /\ x % 64 \in Nat /\ x = 64 * (x \div 64) + (x % 64)
    <3>. DEFINE p == x \div 64
                q == x % 64
    <3>1. Len(Code(x)) = 2 /\ Code(x)[1] = 192 + p /\ Code(x)[2] = 128 + q BY <1>4, <2>3
    <3>2. p \in Nat /\ p <= 31 /\ q \in Nat /\ x = 64 * p + q BY <2>3
    <3>. HIDE DEF p, q
    <3>. QED BY <2>0, <2>3, <3>1, <3>2 DEF Replacement
  <2>. QED BY <2>1, <2>2, <2>3 DEF CodeShape
<1>7. Len(Code(c)) = Len(Code(d))
  <2>1. Code(c)[1] = Code(d)[1] BY <1>1, <1>2, <1>6
  <2>. QED BY <1>1, <1>2, <1>6, <2>1
<1>8. Len(Code(c)) = 2 => Code(c)[1] = Code(d)[1] /\ Code(c)[2] = Code(d)[2] BY <1>2
<1>9. Len(Code(c)) = 1 => Code(c)[1] = Code(d)[1] BY <1>2
<1>10. CASE Len(Code(c)) = 1 BY <1>1, <1>6, <1>7, <1>9, <1>10
<1>11. CASE Len(Code(c)) = 2
  <2>1. c = 64 * (Code(c)[1] - 192) + (Code(c)[2] - 128) BY <1>1, <1>6, <1>11
  <2>0. Len(Code(d)) = 2 BY <1>7, <1>11
  <2>2. d = 64 * (Code(d)[1] - 192) + (Code(d)[2] - 128) BY <1>1, <1>6, <2>0
  <2>. QED BY <1>8, <1>11, <2>1, <2>2
<1>12. CASE Len(Code(c)) = 3 BY <1>1, <1>6, <1>7, <1>12
<1>. QED BY <1>1, <1>6, <1>10, <1>11, <1>12

(* The bytes of the characters of a text.                                    *)
CodesOf(text) == [i \in DOMAIN text |-> Code(text[i])]

(* A text is written character by character.                                 *)
LEMMA Utf8Is == \A text : Utf8(text) = FlattenSeq(CodesOf(text))
  BY DEF Utf8, CodesOf, Code

(* A text is a list of characters.                                           *)
LEMMA TextsAre == Texts = Seq(Letter)
  BY DEF Texts, Letter

(* The bytes of a character do not begin those of another, and a text has    *)
(* as many pieces as characters.                                             *)
LEMMA CodesType ==
  /\ Codes \subseteq Octets /\ PrefixFree(Codes)
  /\ \A text \in Texts : /\ CodesOf(text) \in Seq(Codes) /\ Len(CodesOf(text)) = Len(text)
                         /\ Len(text) \in Nat /\ \A i \in 1..Len(text) : text[i] \in Letter
<1>1. Codes \subseteq Octets BY CodeType DEF Codes
<1>2. PrefixFree(Codes) BY CodesDiffer DEF PrefixFree, Codes
<1>3. ASSUME NEW text \in Texts
      PROVE  /\ CodesOf(text) \in Seq(Codes) /\ Len(CodesOf(text)) = Len(text)
             /\ Len(text) \in Nat /\ \A i \in 1..Len(text) : text[i] \in Letter
  <2>1. text \in Seq(Letter) BY TextsAre
  <2>2. \A c \in Letter : Code(c) \in Codes BY DEF Codes
  <2>. QED BY <2>1, <2>2 DEF CodesOf
<1>. QED BY <1>1, <1>2, <1>3

(* The bytes of a text are bytes.                                            *)
LEMMA StringType == \A text \in Texts : StringBytes(text) \in Octets /\ Utf8(text) \in Octets
<1> SUFFICES ASSUME NEW text \in Texts PROVE StringBytes(text) \in Octets /\ Utf8(text) \in Octets
  OBVIOUS
<1>1. CodesOf(text) \in Seq(Codes) /\ Codes \subseteq Octets BY CodesType
<1>2. CodesOf(text) \in Seq(Octets) BY <1>1, Widened
<1>3. FlattenSeq(CodesOf(text)) \in Seq(Nat) BY <1>2, FlattenType DEF Octets
<1>4. Utf8(text) \in Octets BY <1>3, Utf8Is DEF Octets
<1>5. StringBytes(text) = Joined(U32(Len(text)), Utf8(text)) BY DEF StringBytes, Joined
<1>6. U32(Len(text)) \in Octets BY WidthsType, CodesType
<1>. QED BY <1>4, <1>5, <1>6, OctetsJoined

(* Different sizes are written differently, and so is what follows them.     *)
LEMMA SizesDiffer ==
  \A m, n \in Nat : \A b, c \in Octets : Joined(U32(m), b) = Joined(U32(n), c) => m = n /\ b = c
<1> SUFFICES ASSUME NEW m \in Nat, NEW n \in Nat, NEW b \in Octets, NEW c \in Octets,
                    Joined(U32(m), b) = Joined(U32(n), c)
             PROVE  m = n /\ b = c
  OBVIOUS
<1>. DEFINE u == U32(m)
            v == U32(n)
<1>1. u \in Seq(Nat) /\ v \in Seq(Nat) /\ Len(u) = Len(v) BY WidthsType DEF Octets
<1>2. Small(u) = m /\ Small(v) = n BY SmallWritten
<1>3. u \o b = v \o c BY DEF Joined
<1>4. b \in Seq(Nat) /\ c \in Seq(Nat) BY DEF Octets
<1>. HIDE DEF u, v
<1>5. u = v /\ b = c BY <1>1, <1>3, <1>4, ConcatInjective
<1>. QED BY <1>2, <1>5

(* Different texts are written differently.                                  *)
LEMMA TextsDiffer == \A a, b \in Texts : StringBytes(a) = StringBytes(b) => a = b
<1> SUFFICES ASSUME NEW a \in Texts, NEW b \in Texts, StringBytes(a) = StringBytes(b)
             PROVE  a = b
  OBVIOUS
<1>1. Joined(U32(Len(a)), Utf8(a)) = Joined(U32(Len(b)), Utf8(b)) BY DEF StringBytes, Joined
<1>2. /\ Len(a) \in Nat /\ CodesOf(a) \in Seq(Codes) /\ Len(CodesOf(a)) = Len(a)
      /\ Len(b) \in Nat /\ CodesOf(b) \in Seq(Codes) /\ Len(CodesOf(b)) = Len(b)
      /\ Codes \subseteq Octets /\ PrefixFree(Codes)
  BY CodesType
<1>3. Len(a) = Len(b) /\ Utf8(a) = Utf8(b) BY <1>1, <1>2, StringType, SizesDiffer
<1>4. CodesOf(a) = CodesOf(b)
  <2>1. FlattenSeq(CodesOf(a)) = FlattenSeq(CodesOf(b)) BY <1>3, Utf8Is
  <2>. DEFINE s == CodesOf(a)
              t == CodesOf(b)
  <2>2. s \in Seq(Codes) /\ t \in Seq(Codes) /\ Len(s) = Len(t) /\ FlattenSeq(s) = FlattenSeq(t)
    BY <1>2, <1>3, <2>1
  <2>3. Codes \subseteq Seq(Nat) BY <1>2 DEF Octets
  <2>. HIDE DEF s, t
  <2>4. s = t BY <1>2, <2>2, <2>3, PiecesDiffer
  <2>. QED BY <2>4 DEF s, t
<1>5. a \in Seq(Letter) /\ b \in Seq(Letter) BY TextsAre
<1>6. \A i \in 1..Len(a) : a[i] = b[i]
  <2> SUFFICES ASSUME NEW i \in 1..Len(a) PROVE a[i] = b[i] OBVIOUS
  <2>1. i \in DOMAIN a /\ i \in DOMAIN b BY <1>3, <1>5
  <2>2. CodesOf(a)[i] = Code(a[i]) /\ CodesOf(b)[i] = Code(b[i]) BY <2>1 DEF CodesOf
  <2>3. Code(a[i]) = Code(b[i]) BY <1>4, <2>2
  <2>4. a[i] \in Letter /\ b[i] \in Letter BY <1>3, CodesType
  <2>5. Code(a[i]) \in Seq(Nat) BY <2>4, CodeType DEF Octets
  <2>6. \A x \in Seq(Nat) : IsPrefix(x, x) BY DEF IsPrefix
  <2>. QED BY <2>3, <2>4, <2>5, <2>6, CodesDiffer
<1>. QED BY <1>3, <1>5, <1>6

(* Different numbers of 64 bits are written differently.                     *)
LEMMA NumbersDiffer == \A d, e \in Numbers64 : Padded(d, 8) = Padded(e, 8) => d = e
<1> SUFFICES ASSUME NEW d \in Numbers64, NEW e \in Numbers64, Padded(d, 8) = Padded(e, 8) PROVE d = e
  OBVIOUS
<1>1. WithoutTopZeros(Padded(d, 8)) = d /\ WithoutTopZeros(Padded(e, 8)) = e BY NumberPadded
<1>. QED BY <1>1

(* No digits are zero at the top of a number.                                *)
LEMMA NoTopZeros == \A n \in Nat : WithoutTopZeros(Digits(n)) = Digits(n)
<1>. DEFINE Ends(m) == Digits(m) = <<>> \/ (Len(Digits(m)) \in Nat \ {0} /\ Digits(m)[Len(Digits(m))] # 0)
            P == {k \in Nat : \A m \in Nat : m <= k => Ends(m) /\ (m # 0 => Digits(m) # <<>>)}
<1>1. 0 \in P
  <2>1. Digits(0) = <<>> BY DigitsIs
  <2>. QED BY <2>1
<1>2. \A k \in Nat : k \in P => k + 1 \in P
  <2> SUFFICES ASSUME NEW k \in Nat, \A m \in Nat : m <= k => Ends(m) /\ (m # 0 => Digits(m) # <<>>)
               PROVE  Ends(k + 1) /\ Digits(k + 1) # <<>>
    OBVIOUS
  <2>. DEFINE n == k + 1
              q == n \div 256
              r == n % 256
              tail == Digits(q)
              d == Digits(n)
  <2>1. n \in Nat \ {0} OBVIOUS
  <2>2. q \in Nat /\ q < n /\ r \in 0..255
    <3>. HIDE DEF n
    <3>. QED BY <2>1, SmallerQuotient
  <2>3. q <= k BY <2>2
  <2>4. q = 0 => r = n
    <3>. HIDE DEF n
    <3>. QED BY <2>1
  <2>5. d = <<r>> \o tail
    <3>. HIDE DEF n
    <3>1. n \in Nat /\ n # 0 BY <2>1
    <3>. QED BY <3>1, DigitsIs
  <2>6. tail \in Seq(Nat) BY <2>2, DigitsType
  <2>7. Ends(q) /\ (q # 0 => tail # <<>>) BY <2>2, <2>3
  <2>. HIDE DEF q, r, tail, d
  <2>8. Heads(<<r>> \o tail, r, tail)
    <3>1. r \in Nat BY <2>2
    <3>. QED BY <2>6, <3>1, HeadIs
  <2>9. Len(d) = Len(tail) + 1 /\ d[1] = r /\ \A j \in 1..Len(tail) : d[j + 1] = tail[j] BY <2>5, <2>8 DEF Heads
  <2>10. Len(d) \in Nat \ {0} /\ Len(tail) \in Nat BY <2>6, <2>9
  <2>11. d[Len(d)] # 0
    <3>1. CASE tail = <<>>
      <4>1. Len(tail) = 0 BY <3>1
      <4>2. q = 0 /\ r # 0 BY <2>1, <2>4, <2>7, <3>1
      <4>. QED BY <2>9, <4>1, <4>2
    <3>2. CASE tail # <<>>
      <4>1. Len(tail) \in Nat \ {0} /\ tail[Len(tail)] # 0 BY <2>7, <3>2 DEF tail
      <4>2. d[Len(tail) + 1] = tail[Len(tail)] BY <2>9, <4>1
      <4>. QED BY <2>9, <4>1, <4>2
    <3>. QED BY <3>1, <3>2
  <2>12. \A e : Len(e) \in Nat \ {0} => e # <<>> OBVIOUS
  <2>13. d # <<>> BY <2>10, <2>12
  <2>. QED BY <2>10, <2>11, <2>13 DEF d
<1>3. Nat \subseteq P
  <2>. HIDE DEF P
  <2>. QED BY <1>1, <1>2, NaturalInduction
<1> SUFFICES ASSUME NEW n \in Nat PROVE WithoutTopZeros(Digits(n)) = Digits(n)
  OBVIOUS
<1>4. Ends(n)
  <2>1. n \in P
    <3>. HIDE DEF P
    <3>. QED BY <1>3
  <2>. QED BY <2>1
<1>. DEFINE d == Digits(n)
<1>5. d \in Seq(Nat) BY DigitsType
<1>6. d = <<>> \/ (Len(d) \in Nat \ {0} /\ d[Len(d)] # 0) BY <1>4
<1>. HIDE DEF P, d
<1>7. CASE d = <<>>
  <2>. DEFINE used == {i \in DOMAIN d : d[i] # 0}
  <2>1. used = {} BY <1>7
  <2>2. WithoutTopZeros(d) = SubSeq(d, 1, 0) BY <2>1 DEF WithoutTopZeros
  <2>. QED BY <1>7, <2>2 DEF d
<1>8. CASE Len(d) \in Nat \ {0} /\ d[Len(d)] # 0
  <2>. DEFINE used == {i \in DOMAIN d : d[i] # 0}
              top == CHOOSE i \in used : \A j \in used : j <= i
  <2>1. DOMAIN d = 1..Len(d) BY <1>5
  <2>2. Len(d) \in used /\ used \subseteq 1..Len(d) BY <1>8, <2>1
  <2>3. \A j \in used : j <= Len(d) BY <2>2
  <2>4. WithoutTopZeros(d) = SubSeq(d, 1, IF used = {} THEN 0 ELSE top) BY DEF WithoutTopZeros
  <2>5. top \in used /\ \A j \in used : j <= top BY <2>2, <2>3
  <2>. HIDE DEF used, top
  <2>6. top = Len(d) BY <1>8, <2>2, <2>3, <2>5
  <2>7. WithoutTopZeros(d) = SubSeq(d, 1, Len(d)) BY <2>2, <2>4, <2>6
  <2>. QED BY <1>5, <2>7 DEF d
<1>. QED BY <1>6, <1>7, <1>8

(* The lowest digit of a number and the others.                              *)
Splits(n) ==
  /\ Digits(n) = <<n % 256>> \o Digits(n \div 256) /\ n % 256 \in Nat /\ Digits(n \div 256) \in Seq(Nat)
  /\ n \div 256 \in Nat /\ n \div 256 < n /\ n = 256 * (n \div 256) + (n % 256)

(* The digits of a number that is not 0 are its lowest digit and those of    *)
(* the rest.                                                                 *)
LEMMA DigitsSplit == \A n \in Nat : n # 0 => Splits(n) /\ Digits(n) # <<>>
<1> SUFFICES ASSUME NEW n \in Nat, n # 0 PROVE Splits(n) /\ Digits(n) # <<>>
  OBVIOUS
<1>. DEFINE r == n % 256
            tail == Digits(n \div 256)
<1>1. Digits(n) = <<r>> \o tail BY DigitsIs
<1>2. n % 256 \in Nat /\ n \div 256 \in Nat /\ n \div 256 < n /\ n = 256 * (n \div 256) + (n % 256) OBVIOUS
<1>3. r \in Nat /\ tail \in Seq(Nat) BY <1>2, DigitsType
<1>4. Splits(n) BY <1>1, <1>2, <1>3 DEF Splits
<1>. HIDE DEF r, tail
<1>5. Heads(<<r>> \o tail, r, tail) BY <1>3, HeadIs
<1>6. Len(Digits(n)) = Len(tail) + 1 /\ Len(tail) \in Nat BY <1>1, <1>3, <1>5 DEF Heads
<1>7. \A e : Len(e) \in Nat \ {0} => e # <<>> OBVIOUS
<1>. QED BY <1>4, <1>6, <1>7

(* Equal digits are equal one by one.                                        *)
LEMMA LowestDigit ==
  ASSUME NEW a \in Nat, NEW b \in Nat, NEW s \in Seq(Nat), NEW t \in Seq(Nat), <<a>> \o s = <<b>> \o t
  PROVE  a = b /\ s = t
<1>. DEFINE x == <<a>>
            y == <<b>>
<1>1. x \in Seq(Nat) /\ y \in Seq(Nat) /\ Len(x) = Len(y) /\ x \o s = y \o t OBVIOUS
<1>2. x[1] = a /\ y[1] = b OBVIOUS
<1>. HIDE DEF x, y
<1>3. x = y /\ s = t BY <1>1, ConcatInjective
<1>. QED BY <1>2, <1>3

(* Two numbers whose digits fall apart alike have the same lowest digit      *)
(* and the same rest.                                                        *)
LEMMA SplitsDiffer ==
  ASSUME NEW n, NEW m, Splits(n), Splits(m), Digits(n) = Digits(m)
  PROVE  n % 256 = m % 256 /\ Digits(n \div 256) = Digits(m \div 256)
<1>. DEFINE a == n % 256
            s == Digits(n \div 256)
            b == m % 256
            t == Digits(m \div 256)
<1>1. Digits(n) = <<a>> \o s /\ a \in Nat /\ s \in Seq(Nat) BY Zenon DEF Splits
<1>2. Digits(m) = <<b>> \o t /\ b \in Nat /\ t \in Seq(Nat) BY Zenon DEF Splits
<1>. HIDE DEF a, b, s, t
<1>3. <<a>> \o s = <<b>> \o t BY <1>1, <1>2, Zenon
<1>4. a = b /\ s = t BY <1>1, <1>2, <1>3, LowestDigit
<1>. QED BY <1>4 DEF a, b, s, t

(* Different numbers have different digits.                                  *)
LEMMA DigitsDiffer == \A n, m \in Nat : Digits(n) = Digits(m) => n = m
<1>. DEFINE P == {k \in Nat : \A n, m \in Nat : n <= k /\ Digits(n) = Digits(m) => n = m}
<1>1. Digits(0) = <<>> BY DigitsIs
<1>2. 0 \in P BY <1>1, DigitsSplit
<1>3. \A k \in Nat : k \in P => k + 1 \in P
  <2> SUFFICES ASSUME NEW k \in Nat, \A n, m \in Nat : n <= k /\ Digits(n) = Digits(m) => n = m,
                      NEW n \in Nat, NEW m \in Nat, n <= k + 1, Digits(n) = Digits(m)
               PROVE  n = m
    OBVIOUS
  <2>. HIDE DEF P
  <2>1. CASE n = 0 BY <1>1, <2>1, DigitsSplit
  <2>2. CASE n # 0
    <3>1. m # 0 BY <1>1, <2>2, DigitsSplit
    <3>2. Splits(n) /\ Splits(m) BY <2>2, <3>1, DigitsSplit
    <3>3. n % 256 = m % 256 /\ Digits(n \div 256) = Digits(m \div 256) BY <3>2, SplitsDiffer
    <3>4. /\ n \div 256 \in Nat /\ n \div 256 < n /\ n = 256 * (n \div 256) + (n % 256)
          /\ m \div 256 \in Nat /\ m = 256 * (m \div 256) + (m % 256)
      BY <3>2 DEF Splits
    <3>5. n \div 256 <= k BY <3>4
    <3>6. n \div 256 = m \div 256 BY <3>3, <3>4, <3>5
    <3>. QED BY <3>3, <3>4, <3>6
  <2>. QED BY <2>1, <2>2
<1>4. Nat \subseteq P
  <2>. HIDE DEF P
  <2>. QED BY <1>2, <1>3, NaturalInduction
<1> SUFFICES ASSUME NEW n \in Nat, NEW m \in Nat, Digits(n) = Digits(m) PROVE n = m
  OBVIOUS
<1>5. \A a, b \in Nat : a <= n /\ Digits(a) = Digits(b) => a = b BY <1>4
<1>6. n <= n OBVIOUS
<1>. HIDE DEF P
<1>. QED BY <1>5, <1>6

(* So the ttl is told from its bytes.                                        *)
LEMMA TtlsDiffer == \A n, m \in Nat : Padded(Digits(n), 8) = Padded(Digits(m), 8) => n = m
<1> SUFFICES ASSUME NEW n \in Nat, NEW m \in Nat, Padded(Digits(n), 8) = Padded(Digits(m), 8) PROVE n = m
  OBVIOUS
<1>1. WithoutTopZeros(Padded(Digits(n), 8)) = WithoutTopZeros(Digits(n)) BY DigitsType, PaddedIs
<1>2. WithoutTopZeros(Padded(Digits(m), 8)) = WithoutTopZeros(Digits(m)) BY DigitsType, PaddedIs
<1>. QED BY <1>1, <1>2, NoTopZeros, DigitsDiffer

(* What is known of a table: it is one of bytes, and two of them that are    *)
(* written alike have the same fields.                                       *)
Tells(bytes, fields) == fields \in Seq(Octets) /\ bytes = CalltableBytes(fields)

(* Two tables that are written alike have the same fields.                   *)
LEMMA TablesTell ==
  ASSUME NEW b, NEW c, NEW f, NEW g, Tells(b, f), Tells(c, g)
  PROVE  b \in Octets /\ c \in Octets /\ (b = c => f = g)
  BY TablesDiffer, TableType DEF Tells

(* A pair is put together of its two elements.                               *)
LEMMA PairsAre == \A A, B : \A p \in A \X B : p = <<p[1], p[2]>> /\ p[1] \in A /\ p[2] \in B
  OBVIOUS

(* The fields of an initiator.                                               *)
InitiatorFields(initiator) ==
  IF initiator[1] = "AccountHash" THEN <<<<1>>, initiator[2]>> ELSE <<<<0>>, PublicKeyBytes(initiator[2])>>
InitiatorShape(i) ==
  /\ i = <<i[1], i[2]>>
  /\ \/ i[1] = "AccountHash" /\ i[2] \in Hashes /\ InitiatorFields(i)[1] = <<1>> /\ InitiatorFields(i)[2] = i[2]
     \/ /\ i[1] = "PublicKey" /\ i[2] \in PublicKeys
        /\ InitiatorFields(i)[1] = <<0>> /\ InitiatorFields(i)[2] = PublicKeyBytes(i[2])

(* The bytes of an initiator are a table of these fields                     *)
(* (InitiatorAddr.toBytes).                                                  *)
LEMMA InitiatorIs ==
  \A i \in Initiators : Tells(InitiatorBytes(i), InitiatorFields(i)) /\ InitiatorShape(i)
<1> SUFFICES ASSUME NEW i \in Initiators PROVE Tells(InitiatorBytes(i), InitiatorFields(i)) /\ InitiatorShape(i)
  OBVIOUS
<1>1. InitiatorBytes(i) = CalltableBytes(InitiatorFields(i)) BY DEF InitiatorBytes, InitiatorFields
<1>2. \/ i = <<i[1], i[2]>> /\ i[1] = "AccountHash" /\ i[2] \in Hashes
      \/ i = <<i[1], i[2]>> /\ i[1] = "PublicKey" /\ i[2] \in PublicKeys
  <2>1. i \in {"PublicKey"} \X PublicKeys \/ i \in {"AccountHash"} \X Hashes BY DEF Initiators
  <2>2. \A a, B : \A p \in {a} \X B : p = <<p[1], p[2]>> /\ p[1] = a /\ p[2] \in B OBVIOUS
  <2>. QED BY <2>1, <2>2
<1>3. CASE i = <<i[1], i[2]>> /\ i[1] = "AccountHash" /\ i[2] \in Hashes
  <2>1. InitiatorFields(i) = <<<<1>>, i[2]>> BY <1>3 DEF InitiatorFields
  <2>2. <<1>> \in Octets /\ i[2] \in Octets BY <1>3, TagType, HashRead
  <2>3. InitiatorFields(i) \in Seq(Octets) /\ InitiatorFields(i)[1] = <<1>> /\ InitiatorFields(i)[2] = i[2]
    BY <2>1, <2>2, FewFields
  <2>. QED BY <1>1, <1>3, <2>3 DEF Tells, InitiatorShape
<1>4. CASE i = <<i[1], i[2]>> /\ i[1] = "PublicKey" /\ i[2] \in PublicKeys
  <2>1. InitiatorFields(i) = <<<<0>>, PublicKeyBytes(i[2])>> BY <1>4 DEF InitiatorFields
  <2>2. <<0>> \in Octets /\ PublicKeyBytes(i[2]) \in Octets BY <1>4, TagType, PublicKeyRead
  <2>3. /\ InitiatorFields(i) \in Seq(Octets) /\ InitiatorFields(i)[1] = <<0>>
        /\ InitiatorFields(i)[2] = PublicKeyBytes(i[2])
    BY <2>1, <2>2, FewFields
  <2>. QED BY <1>1, <1>4, <2>3 DEF Tells, InitiatorShape
<1>. QED BY <1>2, <1>3, <1>4

(* Different initiators are written differently.                             *)
LEMMA InitiatorsDiffer ==
  \A i, j \in Initiators : InitiatorBytes(i) = InitiatorBytes(j) => i = j
<1> SUFFICES ASSUME NEW i \in Initiators, NEW j \in Initiators, InitiatorBytes(i) = InitiatorBytes(j)
             PROVE  i = j
  OBVIOUS
<1>1. InitiatorFields(i) = InitiatorFields(j) BY InitiatorIs, TablesTell
<1>2. InitiatorShape(i) /\ InitiatorShape(j) BY InitiatorIs
<1>3. <<0>>[1] = 0 /\ <<1>>[1] = 1 OBVIOUS
<1>4. i[1] = j[1] BY <1>1, <1>2, <1>3 DEF InitiatorShape
<1>5. CASE i[1] = "AccountHash" BY <1>1, <1>2, <1>4, <1>5 DEF InitiatorShape
<1>6. CASE i[1] = "PublicKey"
  <2>1. i[2] \in PublicKeys /\ j[2] \in PublicKeys /\ PublicKeyBytes(i[2]) = PublicKeyBytes(j[2])
    BY <1>1, <1>2, <1>4, <1>6 DEF InitiatorShape
  <2>2. i[2] = j[2]
    <3>1. PublicKeyFromBytes(PublicKeyBytes(i[2])).val = i[2] BY <2>1, PublicKeyRead
    <3>2. PublicKeyFromBytes(PublicKeyBytes(j[2])).val = j[2] BY <2>1, PublicKeyRead
    <3>. QED BY <2>1, <3>1, <3>2
  <2>. QED BY <1>2, <1>4, <2>2 DEF InitiatorShape
<1>. QED BY <1>2, <1>5, <1>6 DEF InitiatorShape

(* The fields of a pricing mode.                                             *)
BoolByte(b) == IF b THEN 1 ELSE 0
PricingShape(p, f) ==
  \/ /\ p[1] = "PaymentLimited" /\ p = <<p[1], p[2], p[3], p[4]>>
     /\ p[2] \in Byte /\ p[3] \in Numbers64 /\ p[4] \in BOOLEAN
     /\ f = <<<<0>>, Padded(p[3], 8), <<p[2]>>, <<BoolByte(p[4])>>>>
  \/ /\ p[1] = "Fixed" /\ p = <<p[1], p[2], p[3]>> /\ p[2] \in Byte /\ p[3] \in Byte
     /\ f = <<<<1>>, <<p[2]>>, <<p[3]>>>>
  \/ p[1] = "Prepaid" /\ p = <<p[1], p[2]>> /\ p[2] \in Hashes /\ f = <<<<2>>, p[2]>>

(* The bytes of a pricing mode are a table of the fields of its kind         *)
(* (PricingMode.toBytes).                                                    *)
LEMMA PricingIs == \A p \in Pricings : \E f : Tells(PricingBytes(p), f) /\ PricingShape(p, f)
<1> SUFFICES ASSUME NEW p \in Pricings PROVE \E f : Tells(PricingBytes(p), f) /\ PricingShape(p, f)
  OBVIOUS
<1>1. \/ p \in {"PaymentLimited"} \X Byte \X Numbers64 \X BOOLEAN
      \/ p \in {"Fixed"} \X Byte \X Byte
      \/ p \in {"Prepaid"} \X Hashes
  BY DEF Pricings
<1>2. Byte \subseteq Nat BY DEF Byte
<1>3. CASE p \in {"PaymentLimited"} \X Byte \X Numbers64 \X BOOLEAN
  <2>1. p[1] = "PaymentLimited" /\ p = <<p[1], p[2], p[3], p[4]>> /\ p[2] \in Byte /\ p[3] \in Numbers64 /\ p[4] \in BOOLEAN
    <3>1. \A a, A, B, C : \A q \in {a} \X A \X B \X C :
            q[1] = a /\ q = <<q[1], q[2], q[3], q[4]>> /\ q[2] \in A /\ q[3] \in B /\ q[4] \in C
      OBVIOUS
    <3>. QED BY <1>3, <3>1
  <2>. DEFINE f == <<<<0>>, Padded(p[3], 8), <<p[2]>>, <<BoolByte(p[4])>>>>
  <2>2. PricingBytes(p) = CalltableBytes(f) BY <2>1 DEF PricingBytes, BoolByte
  <2>3. f \in Seq(Octets)
    <3>1. <<0>> \in Octets /\ <<p[2]>> \in Octets /\ <<BoolByte(p[4])>> \in Octets BY <1>2, <2>1, TagType DEF BoolByte
    <3>2. Padded(p[3], 8) \in Octets BY <2>1, NumberPadded
    <3>. QED BY <3>1, <3>2, FewFields
  <2>. QED BY <2>1, <2>2, <2>3 DEF Tells, PricingShape
<1>4. CASE p \in {"Fixed"} \X Byte \X Byte
  <2>1. p[1] = "Fixed" /\ p = <<p[1], p[2], p[3]>> /\ p[2] \in Byte /\ p[3] \in Byte
    <3>1. \A a, A, B : \A q \in {a} \X A \X B : q[1] = a /\ q = <<q[1], q[2], q[3]>> /\ q[2] \in A /\ q[3] \in B
      OBVIOUS
    <3>. QED BY <1>4, <3>1
  <2>. DEFINE f == <<<<1>>, <<p[2]>>, <<p[3]>>>>
  <2>2. PricingBytes(p) = CalltableBytes(f) BY <2>1 DEF PricingBytes
  <2>3. f \in Seq(Octets)
    <3>1. <<1>> \in Octets /\ <<p[2]>> \in Octets /\ <<p[3]>> \in Octets BY <1>2, <2>1, TagType
    <3>. QED BY <3>1, FewFields
  <2>. QED BY <2>1, <2>2, <2>3 DEF Tells, PricingShape
<1>5. CASE p \in {"Prepaid"} \X Hashes
  <2>1. p[1] = "Prepaid" /\ p = <<p[1], p[2]>> /\ p[2] \in Hashes
    <3>1. \A a, A : \A q \in {a} \X A : q[1] = a /\ q = <<q[1], q[2]>> /\ q[2] \in A OBVIOUS
    <3>. QED BY <1>5, <3>1
  <2>. DEFINE f == <<<<2>>, p[2]>>
  <2>2. PricingBytes(p) = CalltableBytes(f) BY <2>1 DEF PricingBytes
  <2>3. f \in Seq(Octets) BY <2>1, HashRead, TagType, FewFields
  <2>. QED BY <2>1, <2>2, <2>3 DEF Tells, PricingShape
<1>. QED BY <1>1, <1>3, <1>4, <1>5

(* Different pricing modes are written differently.                          *)
LEMMA PricingsDiffer ==
  \A p, q \in Pricings : PricingBytes(p) = PricingBytes(q) => p = q
<1> SUFFICES ASSUME NEW p \in Pricings, NEW q \in Pricings, PricingBytes(p) = PricingBytes(q)
             PROVE  p = q
  OBVIOUS
<1>1. PICK f : Tells(PricingBytes(p), f) /\ PricingShape(p, f) BY PricingIs
<1>2. PICK g : Tells(PricingBytes(q), g) /\ PricingShape(q, g) BY PricingIs
<1>3. f = g BY <1>1, <1>2, TablesTell
<1>4. \A k, a : \A h : h = <<<<k>>, a>> => h[1][1] = k /\ h[2] = a OBVIOUS
<1>5. \A k, a, b : \A h : h = <<<<k>>, <<a>>, <<b>>>> => h[1][1] = k /\ h[2][1] = a /\ h[3][1] = b OBVIOUS
<1>6. \A k, a, b, c : \A h : h = <<<<k>>, a, <<b>>, <<c>>>> => h[1][1] = k /\ h[2] = a /\ h[3][1] = b /\ h[4][1] = c
  OBVIOUS
<1>. DEFINE Says(r, h) ==
       \/ /\ r[1] = "PaymentLimited" /\ r = <<r[1], r[2], r[3], r[4]>> /\ r[3] \in Numbers64 /\ r[4] \in BOOLEAN
          /\ h[1][1] = 0 /\ h[2] = Padded(r[3], 8) /\ h[3][1] = r[2] /\ h[4][1] = BoolByte(r[4])
       \/ r[1] = "Fixed" /\ r = <<r[1], r[2], r[3]>> /\ h[1][1] = 1 /\ h[2][1] = r[2] /\ h[3][1] = r[3]
       \/ r[1] = "Prepaid" /\ r = <<r[1], r[2]>> /\ h[1][1] = 2 /\ h[2] = r[2]
<1>7. \A r, h : PricingShape(r, h) => Says(r, h) BY <1>4, <1>5, <1>6 DEF PricingShape
<1>8. Says(p, f) /\ Says(q, f) BY <1>1, <1>2, <1>3, <1>7
<1>9. \A b, c \in BOOLEAN : BoolByte(b) = BoolByte(c) => b = c BY DEF BoolByte
<1>10. CASE f[1][1] = 0
  <2>1. /\ p = <<p[1], p[2], p[3], p[4]>> /\ q = <<q[1], q[2], q[3], q[4]>> /\ p[1] = q[1] /\ p[2] = q[2]
        /\ p[3] \in Numbers64 /\ q[3] \in Numbers64 /\ p[4] \in BOOLEAN /\ q[4] \in BOOLEAN
        /\ Padded(p[3], 8) = Padded(q[3], 8) /\ BoolByte(p[4]) = BoolByte(q[4])
    BY <1>8, <1>10
  <2>2. p[3] = q[3] BY <2>1, NumbersDiffer
  <2>3. p[4] = q[4] BY <1>9, <2>1
  <2>. QED BY <2>1, <2>2, <2>3
<1>11. CASE f[1][1] = 1
  <2>1. p = <<p[1], p[2], p[3]>> /\ q = <<q[1], q[2], q[3]>> /\ p[1] = q[1] /\ p[2] = q[2] /\ p[3] = q[3] BY <1>8, <1>11
  <2>. QED BY <2>1
<1>12. CASE f[1][1] = 2
  <2>1. p = <<p[1], p[2]>> /\ q = <<q[1], q[2]>> /\ p[1] = q[1] /\ p[2] = q[2] BY <1>8, <1>12
  <2>. QED BY <2>1
<1>. QED BY <1>8, <1>10, <1>11, <1>12

(* What a scheduling is written as.                                          *)
SchedulingShape(s, f) ==
  \/ s = <<"Standard">> /\ f = <<<<0>>>>
  \/ s = <<s[1], s[2]>> /\ s[1] = "FutureEra" /\ s[2] \in Numbers64 /\ f = <<<<1>>, Padded(s[2], 8)>>
  \/ s = <<s[1], s[2]>> /\ s[1] = "FutureTimestamp" /\ s[2] \in Numbers64 /\ f = <<<<2>>, Padded(s[2], 8)>>

(* The bytes of a scheduling exist and are a table of the fields of its      *)
(* kind (TransactionScheduling.toBytes).                                     *)
LEMMA SchedulingIs ==
  \A s \in Schedulings : \E f : /\ SchedulingBytes(s).threw = FALSE /\ Tells(SchedulingBytes(s).val, f)
                                /\ SchedulingShape(s, f)
<1> SUFFICES ASSUME NEW s \in Schedulings
             PROVE  \E f : /\ SchedulingBytes(s).threw = FALSE /\ Tells(SchedulingBytes(s).val, f)
                           /\ SchedulingShape(s, f)
  OBVIOUS
<1>1. s = <<"Standard">> \/ (s = <<s[1], s[2]>> /\ s[1] \in {"FutureEra", "FutureTimestamp"} /\ s[2] \in Numbers64)
  <2>1. s = <<"Standard">> \/ s \in {"FutureEra", "FutureTimestamp"} \X Numbers64 BY DEF Schedulings
  <2>. QED BY <2>1, PairsAre
<1>2. CASE s = <<"Standard">>
  <2>. DEFINE f == <<<<0>>>>
  <2>1. s[1] = "Standard" BY <1>2
  <2>2. SchedulingBytes(s) = Taken(CalltableBytes(f), <<>>) BY <2>1 DEF SchedulingBytes
  <2>3. f \in Seq(Octets) BY TagType, FewFields
  <2>. HIDE DEF f
  <2>4. SchedulingBytes(s).threw = FALSE /\ SchedulingBytes(s).val = CalltableBytes(f) BY <2>2 DEF Taken
  <2>. QED BY <1>2, <2>3, <2>4 DEF Tells, SchedulingShape, f
<1>3. CASE s = <<s[1], s[2]>> /\ s[1] \in {"FutureEra", "FutureTimestamp"} /\ s[2] \in Numbers64
  <2>. DEFINE k == SchedulingTag[s[1]]
              f == <<<<k>>, Padded(s[2], 8)>>
  <2>1. k \in Nat /\ (s[1] = "FutureEra" => k = 1) /\ (s[1] = "FutureTimestamp" => k = 2) BY <1>3 DEF SchedulingTag
  <2>2. s[1] # "Standard" /\ Len(s) # 1
    <3>1. \A t, a, b : t = <<a, b>> => Len(t) = 2 OBVIOUS
    <3>2. Len(s) = 2 BY <1>3, <3>1
    <3>. QED BY <1>3, <3>2
  <2>3. SchedulingBytes(s) = Taken(CalltableBytes(f), <<>>) BY <2>2 DEF SchedulingBytes
  <2>4. f \in Seq(Octets)
    <3>. HIDE DEF k
    <3>. QED BY <1>3, <2>1, NumberPadded, TagType, FewFields
  <2>. HIDE DEF f
  <2>5. SchedulingBytes(s).threw = FALSE /\ SchedulingBytes(s).val = CalltableBytes(f) BY <2>3 DEF Taken
  <2>6. Tells(SchedulingBytes(s).val, f) BY <2>4, <2>5 DEF Tells
  <2>7. SchedulingShape(s, f)
    <3>1. f = <<<<k>>, Padded(s[2], 8)>> BY DEF f
    <3>. HIDE DEF k
    <3>. QED BY <1>3, <2>1, <3>1 DEF SchedulingShape
  <2>. QED BY <2>5, <2>6, <2>7
<1>. QED BY <1>1, <1>2, <1>3

(* Different schedulings are written differently.                            *)
LEMMA SchedulingsDiffer ==
  \A s, t \in Schedulings : SchedulingBytes(s).val = SchedulingBytes(t).val => s = t
<1> SUFFICES ASSUME NEW s \in Schedulings, NEW t \in Schedulings, SchedulingBytes(s).val = SchedulingBytes(t).val
             PROVE  s = t
  OBVIOUS
<1>1. PICK f : Tells(SchedulingBytes(s).val, f) /\ SchedulingShape(s, f) BY SchedulingIs
<1>2. PICK g : Tells(SchedulingBytes(t).val, g) /\ SchedulingShape(t, g) BY SchedulingIs
<1>3. f = g BY <1>1, <1>2, TablesTell
<1>4. \A k, a : \A h : h = <<<<k>>, a>> => h[1][1] = k /\ h[2] = a OBVIOUS
<1>5. \A k : \A h : h = <<<<k>>>> => h[1][1] = k OBVIOUS
<1>. DEFINE Says(r, h) ==
       \/ r = <<"Standard">> /\ h[1][1] = 0
       \/ r = <<r[1], r[2]>> /\ r[1] = "FutureEra" /\ r[2] \in Numbers64 /\ h[1][1] = 1 /\ h[2] = Padded(r[2], 8)
       \/ r = <<r[1], r[2]>> /\ r[1] = "FutureTimestamp" /\ r[2] \in Numbers64 /\ h[1][1] = 2 /\ h[2] = Padded(r[2], 8)
<1>6. \A r, h : SchedulingShape(r, h) => Says(r, h) BY <1>4, <1>5 DEF SchedulingShape
<1>7. Says(s, f) /\ Says(t, f) BY <1>1, <1>2, <1>3, <1>6
<1>8. CASE f[1][1] = 0 BY <1>7, <1>8
<1>9. CASE f[1][1] # 0
  <2>1. /\ s = <<s[1], s[2]>> /\ t = <<t[1], t[2]>> /\ s[1] = t[1] /\ s[2] \in Numbers64 /\ t[2] \in Numbers64
        /\ Padded(s[2], 8) = Padded(t[2], 8)
    BY <1>7, <1>9
  <2>2. s[2] = t[2] BY <2>1, NumbersDiffer
  <2>. QED BY <2>1, <2>2
<1>. QED BY <1>8, <1>9

(* What an entry point is written as.                                        *)
EntryShape(e, f, i) ==
  /\ i \in 1..13 /\ e[1] = EntryPointTags[i]
  /\ \/ i # 2 /\ e = <<e[1]>> /\ f = <<<<i - 1>>>>
     \/ i = 2 /\ e = <<e[1], e[2]>> /\ e[2] \in Texts /\ f = <<<<i - 1>>, StringBytes(e[2])>>

(* The bytes of an entry point are a table of its tag and, of a custom       *)
(* one, its name (TransactionEntryPoint.toBytes).                            *)
LEMMA EntryIs ==
  \A e \in EntryPoints : \E f, i : Tells(EntryPointBytes(e), f) /\ EntryShape(e, f, i)
<1> SUFFICES ASSUME NEW e \in EntryPoints PROVE \E f, i : Tells(EntryPointBytes(e), f) /\ EntryShape(e, f, i)
  OBVIOUS
<1>. DEFINE tags == EntryPointTags
<1>1. \/ \E i \in DOMAIN tags \ {2} : e = <<tags[i]>>
      \/ e = <<e[1], e[2]>> /\ e[1] = "Custom" /\ e[2] \in Texts
  <2>1. (\E i \in DOMAIN tags \ {2} : e = <<tags[i]>>) \/ e \in {"Custom"} \X Texts BY DEF EntryPoints
  <2>2. \A a, B : \A p \in {a} \X B : p = <<p[1], p[2]>> /\ p[1] = a /\ p[2] \in B OBVIOUS
  <2>. QED BY <2>1, <2>2
<1>2. DOMAIN tags = 1..13 /\ tags[2] = "Custom" BY EntryTagIs
<1>3. CASE \E i \in DOMAIN tags \ {2} : e = <<tags[i]>>
  <2>1. PICK i \in 1..13 : i # 2 /\ e = <<tags[i]>> BY <1>2, <1>3
  <2>. DEFINE k == i - 1
              tag == <<k>>
              f == <<tag>>
  <2>2. e[1] = tags[i] /\ e = <<e[1]>> BY <2>1
  <2>3. e[1] # "Custom" BY <2>1, <2>2, EntryTagIs
  <2>4. EntryPointTag(e) = k BY <2>2, EntryTagIs
  <2>5. k \in Nat OBVIOUS
  <2>6. EntryPointBytes(e) = CalltableBytes(f)
    <3>1. tag \in Octets BY <2>5, TagType
    <3>. HIDE DEF tag
    <3>2. <<tag>> \o <<>> = <<tag>> BY <3>1, FewFields
    <3>3. <<<<EntryPointTag(e)>>>> \o <<>> = f BY <2>4, <3>2 DEF tag
    <3>. HIDE DEF f, tags
    <3>. QED BY <2>3, <3>3 DEF EntryPointBytes
  <2>7. f \in Seq(Octets) BY <2>5, TagType, FewFields
  <2>8. EntryShape(e, f, i)
    <3>1. f = <<<<i - 1>>>> OBVIOUS
    <3>. HIDE DEF f
    <3>. QED BY <2>1, <2>2, <3>1 DEF EntryShape
  <2>. HIDE DEF f
  <2>. QED BY <2>6, <2>7, <2>8 DEF Tells
<1>4. CASE e = <<e[1], e[2]>> /\ e[1] = "Custom" /\ e[2] \in Texts
  <2>. DEFINE tag == <<2 - 1>>
              name == StringBytes(e[2])
              f == <<tag, name>>
  <2>1. EntryPointTag(e) = 2 - 1 BY <1>2, <1>4, EntryTagIs
  <2>2. tag \in Octets /\ name \in Octets BY <1>4, TagType, StringType
  <2>3. EntryPointBytes(e) = CalltableBytes(f)
    <3>1. <<<<EntryPointTag(e)>>>> = <<tag>> BY <2>1
    <3>. HIDE DEF tag, name
    <3>2. <<tag>> \o <<name>> = <<tag, name>> BY <2>2, FewFields
    <3>3. <<<<EntryPointTag(e)>>>> \o <<name>> = f BY <3>1, <3>2
    <3>. HIDE DEF f
    <3>. QED BY <1>4, <3>3 DEF EntryPointBytes, name
  <2>4. f \in Seq(Octets)
    <3>. HIDE DEF tag, name
    <3>. QED BY <2>2, FewFields
  <2>5. EntryShape(e, f, 2)
    <3>1. f = <<<<2 - 1>>, StringBytes(e[2])>> OBVIOUS
    <3>. HIDE DEF f
    <3>. QED BY <1>2, <1>4, <3>1 DEF EntryShape
  <2>. HIDE DEF f
  <2>. QED BY <2>3, <2>4, <2>5 DEF Tells
<1>. QED BY <1>1, <1>3, <1>4

(* Different entry points are written differently.                           *)
LEMMA EntriesDiffer ==
  \A d, e \in EntryPoints : EntryPointBytes(d) = EntryPointBytes(e) => d = e
<1> SUFFICES ASSUME NEW d \in EntryPoints, NEW e \in EntryPoints, EntryPointBytes(d) = EntryPointBytes(e)
             PROVE  d = e
  OBVIOUS
<1>1. PICK f, i : Tells(EntryPointBytes(d), f) /\ EntryShape(d, f, i) BY EntryIs
<1>2. PICK g, j : Tells(EntryPointBytes(e), g) /\ EntryShape(e, g, j) BY EntryIs
<1>3. f = g BY <1>1, <1>2, TablesTell
<1>4. \A k, a : \A h : h = <<<<k>>, a>> => h[1][1] = k /\ h[2] = a OBVIOUS
<1>5. \A k : \A h : h = <<<<k>>>> => h[1][1] = k OBVIOUS
<1>6. f[1][1] = i - 1 /\ i \in 1..13 BY <1>1, <1>4, <1>5 DEF EntryShape
<1>7. g[1][1] = j - 1 /\ j \in 1..13 BY <1>2, <1>4, <1>5 DEF EntryShape
<1>8. i = j BY <1>3, <1>6, <1>7
<1>9. CASE i = 2
  <2>1. d = <<d[1], d[2]>> /\ d[2] \in Texts /\ f[2] = StringBytes(d[2]) BY <1>1, <1>4, <1>9 DEF EntryShape
  <2>2. e = <<e[1], e[2]>> /\ e[2] \in Texts /\ g[2] = StringBytes(e[2]) BY <1>2, <1>4, <1>8, <1>9 DEF EntryShape
  <2>3. d[2] = e[2] BY <1>3, <2>1, <2>2, TextsDiffer
  <2>4. d[1] = e[1] BY <1>1, <1>2, <1>8 DEF EntryShape
  <2>. QED BY <2>1, <2>2, <2>3, <2>4
<1>10. CASE i # 2 BY <1>1, <1>2, <1>8, <1>10 DEF EntryShape
<1>. QED BY <1>9, <1>10

(* A version that counts: 0 is none.                                         *)
Counts0(version) == IF Truthy(version) THEN version ELSE <<>>

(* Different versions are written differently, 0 and none excepted.          *)
LEMMA VersionsDiffer ==
  \A v, w \in VersionOptions : VersionBytes(v) = VersionBytes(w) => Counts0(v) = Counts0(w)
<1> SUFFICES ASSUME NEW v \in VersionOptions, NEW w \in VersionOptions, VersionBytes(v) = VersionBytes(w)
             PROVE  Counts0(v) = Counts0(w)
  OBVIOUS
<1>1. \A x \in VersionOptions : Truthy(x) => /\ VersionFromBytes(VersionBytes(x)).threw = FALSE
                                             /\ VersionFromBytes(VersionBytes(x)).val = x
  <2> SUFFICES ASSUME NEW x \in VersionOptions, Truthy(x)
               PROVE  VersionFromBytes(VersionBytes(x)).threw = FALSE /\ VersionFromBytes(VersionBytes(x)).val = x
    OBVIOUS
  <2>1. VersionFromBytes(VersionBytes(x)) = Taken(x, <<>>) BY VersionRead
  <2>. QED BY <2>1 DEF Taken
<1>2. \A x \in VersionOptions : ~Truthy(x) => VersionFromBytes(VersionBytes(x)).threw = TRUE
  <2> SUFFICES ASSUME NEW x \in VersionOptions, ~Truthy(x) PROVE VersionFromBytes(VersionBytes(x)).threw = TRUE OBVIOUS
  <2>1. VersionBytes(x) = <<0>> BY DEF VersionBytes
  <2>. DEFINE b == <<0>>
  <2>2. b # <<>> /\ b[1] = 0 OBVIOUS
  <2>3. VersionBytes(x) = b BY <2>1
  <2>. HIDE DEF b
  <2>4. VersionFromBytes(b) = Thrown BY <2>2 DEF VersionFromBytes
  <2>. QED BY <2>3, <2>4 DEF Thrown
<1>3. CASE Truthy(v) /\ Truthy(w) BY <1>1, <1>3 DEF Counts0
<1>4. CASE ~Truthy(v) /\ ~Truthy(w) BY <1>4 DEF Counts0
<1>. QED BY <1>1, <1>2, <1>3, <1>4

(* Different major versions are written differently.                         *)
LEMMA MajorsDiffer ==
  ASSUME NEW v \in VersionOptions, NEW w \in VersionOptions, Truthy(v), Truthy(w), U32(v[1]) = U32(w[1])
  PROVE  v = w
<1>1. v = <<v[1]>> /\ v[1] \in Nat /\ w = <<w[1]>> /\ w[1] \in Nat BY VersionRead
<1>2. Small(U32(v[1])) = v[1] /\ Small(U32(w[1])) = w[1] BY <1>1, SmallWritten
<1>. QED BY <1>1, <1>2

(* What the fields of a package are.                                         *)
PackageShape(f, tag, package, version, major) ==
  /\ f \in Seq(Octets) /\ f[1] = <<tag>> /\ f[2] = package /\ f[3] = VersionBytes(version)
  /\ Truthy(major) => Len(f) = 4 /\ f[4] = U32(major[1])
  /\ ~Truthy(major) => Len(f) = 3

(* The fields of a package: its tag, the package, its version, and its       *)
(* major version if there is one.                                            *)
LEMMA PackageParts ==
  ASSUME NEW tag \in Nat, NEW package \in Octets, NEW version \in VersionOptions, NEW major \in VersionOptions
  PROVE  PackageShape(PackageFields(tag, package, version, major), tag, package, version, major)
<1>. DEFINE a == <<tag>>
            v == VersionBytes(version)
            u == U32(major[1])
            f == PackageFields(tag, package, version, major)
<1>1. a \in Octets /\ v \in Octets BY TagType, VersionRead
<1>2. CASE Truthy(major)
  <2>1. u \in Octets BY <1>2, VersionRead
  <2>2. f = <<a, package, v>> \o <<u>> BY <1>2 DEF PackageFields
  <2>. HIDE DEF a, v, u, f
  <2>3. f = <<a, package, v, u>> BY <1>1, <2>1, <2>2, FourFields
  <2>4. f \in Seq(Octets) /\ Len(f) = 4 /\ f[1] = a /\ f[2] = package /\ f[3] = v /\ f[4] = u
    BY <1>1, <2>1, <2>3, FewFields
  <2>. QED BY <1>2, <2>4 DEF PackageShape, a, v, u, f
<1>3. CASE ~Truthy(major)
  <2>2. f = <<a, package, v>> \o <<>> BY <1>3 DEF PackageFields
  <2>. HIDE DEF a, v, u, f
  <2>3. f = <<a, package, v>> BY <1>1, <2>2, FewFields
  <2>4. f \in Seq(Octets) /\ Len(f) = 3 /\ f[1] = a /\ f[2] = package /\ f[3] = v BY <1>1, <2>3, FewFields
  <2>. QED BY <1>3, <2>4 DEF PackageShape, a, v, u, f
<1>. QED BY <1>2, <1>3

(* The same fields of a package say the same package and the same            *)
(* versions, 0 and none excepted.                                            *)
LEMMA PackagesDiffer ==
  ASSUME NEW f, NEW t, NEW p, NEW v \in VersionOptions, NEW m \in VersionOptions, PackageShape(f, t, p, v, m),
         NEW s, NEW q, NEW w \in VersionOptions, NEW n \in VersionOptions, PackageShape(f, s, q, w, n)
  PROVE  p = q /\ Counts0(v) = Counts0(w) /\ Counts0(m) = Counts0(n)
<1>1. p = q /\ VersionBytes(v) = VersionBytes(w) BY DEF PackageShape
<1>2. Counts0(v) = Counts0(w) BY <1>1, VersionsDiffer
<1>3. Truthy(m) <=> Truthy(n) BY DEF PackageShape
<1>4. CASE Truthy(m)
  <2>1. U32(m[1]) = U32(n[1]) BY <1>3, <1>4 DEF PackageShape
  <2>2. m = n BY <1>3, <1>4, <2>1, MajorsDiffer
  <2>. QED BY <1>1, <1>2, <2>2
<1>5. CASE ~Truthy(m) BY <1>1, <1>2, <1>3, <1>5 DEF Counts0
<1>. QED BY <1>4, <1>5

(* What an id is written as.                                                 *)
IdShape(id, f) ==
  \/ id = <<id[1], id[2]>> /\ id[1] = "ByHash" /\ f = <<<<0>>, id[2]>>
  \/ id = <<id[1], id[2]>> /\ id[1] = "ByName" /\ id[2] \in Texts /\ f = <<<<1>>, StringBytes(id[2])>>
  \/ /\ id = <<id[1], id[2], id[3], id[4]>> /\ id[1] = "ByPackageHash"
     /\ id[3] \in VersionOptions /\ id[4] \in VersionOptions /\ PackageShape(f, 2, id[2], id[3], id[4])
  \/ /\ id = <<id[1], id[2], id[3], id[4]>> /\ id[1] = "ByPackageName" /\ id[2] \in Texts
     /\ id[3] \in VersionOptions /\ id[4] \in VersionOptions /\ PackageShape(f, 3, StringBytes(id[2]), id[3], id[4])

(* The bytes of an id are a table of the fields of its kind                  *)
(* (TransactionInvocationTarget.toBytes).                                    *)
LEMMA IdIs ==
  ASSUME NEW id \in InvocationIds, ~InvocationBytes(id).threw
  PROVE  \E f : Tells(InvocationBytes(id).val, f) /\ IdShape(id, f)
<1>1. \/ id = <<id[1], id[2]>> /\ id[1] = "ByHash" /\ id[2] \in Hashes
      \/ id = <<id[1], id[2]>> /\ id[1] = "ByName" /\ id[2] \in Texts
      \/ /\ id = <<id[1], id[2], id[3], id[4]>> /\ id[1] = "ByPackageHash" /\ id[2] \in Hashes
         /\ id[3] \in VersionOptions /\ id[4] \in VersionOptions
      \/ /\ id = <<id[1], id[2], id[3], id[4]>> /\ id[1] = "ByPackageName" /\ id[2] \in Texts
         /\ id[3] \in VersionOptions /\ id[4] \in VersionOptions
  <2>1. \/ id \in {"ByHash"} \X Hashes \/ id \in {"ByName"} \X Texts
        \/ id \in {"ByPackageHash"} \X Hashes \X VersionOptions \X VersionOptions
        \/ id \in {"ByPackageName"} \X Texts \X VersionOptions \X VersionOptions
    BY DEF InvocationIds
  <2>2. \A a, B : \A p \in {a} \X B : p = <<p[1], p[2]>> /\ p[1] = a /\ p[2] \in B OBVIOUS
  <2>3. \A a, B, C, D : \A p \in {a} \X B \X C \X D :
          p = <<p[1], p[2], p[3], p[4]>> /\ p[1] = a /\ p[2] \in B /\ p[3] \in C /\ p[4] \in D
    OBVIOUS
  <2>. QED BY <2>1, <2>2, <2>3
<1>2. \A f : f \in Seq(Octets) /\ InvocationBytes(id) = Taken(CalltableBytes(f), <<>>)
               => Tells(InvocationBytes(id).val, f)
  BY DEF Tells, Taken
<1>3. CASE id = <<id[1], id[2]>> /\ id[1] = "ByHash" /\ id[2] \in Hashes
  <2>. DEFINE f == <<<<0>>, id[2]>>
  <2>1. InvocationBytes(id) = Taken(CalltableBytes(f), <<>>) BY <1>3, InvocationWritten
  <2>2. f \in Seq(Octets) BY <1>3, HashRead, TagType, FewFields
  <2>3. IdShape(id, f)
    <3>1. f = <<<<0>>, id[2]>> OBVIOUS
    <3>. HIDE DEF f
    <3>. QED BY <1>3, <3>1 DEF IdShape
  <2>. HIDE DEF f
  <2>. QED BY <1>2, <2>1, <2>2, <2>3
<1>4. CASE id = <<id[1], id[2]>> /\ id[1] = "ByName" /\ id[2] \in Texts
  <2>. DEFINE f == <<<<1>>, StringBytes(id[2])>>
  <2>1. InvocationBytes(id) = IF id[2] = <<>> THEN Thrown ELSE Taken(CalltableBytes(f), <<>>) BY <1>4, InvocationWritten
  <2>2. InvocationBytes(id) = Taken(CalltableBytes(f), <<>>)
    <3>. HIDE DEF f
    <3>. QED BY <2>1 DEF Thrown
  <2>3. f \in Seq(Octets) BY <1>4, StringType, TagType, FewFields
  <2>4. IdShape(id, f)
    <3>1. f = <<<<1>>, StringBytes(id[2])>> OBVIOUS
    <3>. HIDE DEF f
    <3>. QED BY <1>4, <3>1 DEF IdShape
  <2>. HIDE DEF f
  <2>. QED BY <1>2, <2>2, <2>3, <2>4
<1>5. CASE /\ id = <<id[1], id[2], id[3], id[4]>> /\ id[1] = "ByPackageHash" /\ id[2] \in Hashes
           /\ id[3] \in VersionOptions /\ id[4] \in VersionOptions
  <2>. DEFINE f == PackageFields(2, id[2], id[3], id[4])
  <2>1. InvocationBytes(id) = Taken(CalltableBytes(f), <<>>) BY <1>5, InvocationWritten
  <2>2. id[2] \in Octets BY <1>5, HashRead
  <2>3. PackageShape(f, 2, id[2], id[3], id[4]) BY <1>5, <2>2, PackageParts
  <2>. HIDE DEF f
  <2>4. f \in Seq(Octets) BY <2>3 DEF PackageShape
  <2>5. IdShape(id, f) BY <1>5, <2>3 DEF IdShape
  <2>. QED BY <1>2, <2>1, <2>4, <2>5
<1>6. CASE /\ id = <<id[1], id[2], id[3], id[4]>> /\ id[1] = "ByPackageName" /\ id[2] \in Texts
           /\ id[3] \in VersionOptions /\ id[4] \in VersionOptions
  <2>. DEFINE f == PackageFields(3, StringBytes(id[2]), id[3], id[4])
  <2>1. InvocationBytes(id) = Taken(CalltableBytes(f), <<>>) BY <1>6, InvocationWritten
  <2>2. StringBytes(id[2]) \in Octets BY <1>6, StringType
  <2>3. PackageShape(f, 3, StringBytes(id[2]), id[3], id[4]) BY <1>6, <2>2, PackageParts
  <2>. HIDE DEF f
  <2>4. f \in Seq(Octets) BY <2>3 DEF PackageShape
  <2>5. IdShape(id, f) BY <1>6, <2>3 DEF IdShape
  <2>. QED BY <1>2, <2>1, <2>4, <2>5
<1>. QED BY <1>1, <1>3, <1>4, <1>5, <1>6

(* Different ids are written differently, versions 0 and none excepted.      *)
LEMMA IdsDiffer ==
  ASSUME NEW id \in InvocationIds, ~InvocationBytes(id).threw,
         NEW other \in InvocationIds, ~InvocationBytes(other).threw,
         InvocationBytes(id).val = InvocationBytes(other).val
  PROVE  MeantId(id) = MeantId(other)
<1>1. PICK f : Tells(InvocationBytes(id).val, f) /\ IdShape(id, f) BY IdIs
<1>2. PICK g : Tells(InvocationBytes(other).val, g) /\ IdShape(other, g) BY IdIs
<1>3. f = g BY <1>1, <1>2, TablesTell
<1>4. \A k, a : \A h : h = <<<<k>>, a>> => h[1] = <<k>> /\ h[2] = a OBVIOUS
<1>5. \A k, l : <<k>> = <<l>> => k = l OBVIOUS
<1>. DEFINE TagOf(x) == IF x[1] = "ByHash" THEN 0 ELSE IF x[1] = "ByName" THEN 1
                        ELSE IF x[1] = "ByPackageHash" THEN 2 ELSE 3
<1>6. \A x : IdShape(x, f) => /\ f[1] = <<TagOf(x)>>
                              /\ x[1] \in {"ByHash", "ByName", "ByPackageHash", "ByPackageName"}
  BY <1>4 DEF IdShape, PackageShape
<1>7. IdShape(id, f) /\ IdShape(other, f) BY <1>1, <1>2, <1>3
<1>8. TagOf(id) = TagOf(other)
  <2>. HIDE DEF TagOf
  <2>. QED BY <1>5, <1>6, <1>7
<1>9. id[1] = other[1] BY <1>6, <1>7, <1>8
<1>10. \A x : x[1] \notin {"ByPackageHash", "ByPackageName"} => MeantId(x) = x BY DEF MeantId
<1>11. \A x : x[1] \in {"ByPackageHash", "ByPackageName"} => MeantId(x) = <<x[1], x[2], Counts0(x[3]), Counts0(x[4])>>
  BY DEF MeantId, Counts0
<1>12. CASE id[1] = "ByHash"
  <2>1. id = <<id[1], id[2]>> /\ other = <<other[1], other[2]>> /\ id[2] = other[2]
    BY <1>4, <1>7, <1>9, <1>12 DEF IdShape
  <2>2. id = other BY <1>9, <2>1
  <2>. QED BY <2>2
<1>13. CASE id[1] = "ByName"
  <2>1. /\ id = <<id[1], id[2]>> /\ other = <<other[1], other[2]>> /\ id[2] \in Texts /\ other[2] \in Texts
        /\ StringBytes(id[2]) = StringBytes(other[2])
    BY <1>4, <1>7, <1>9, <1>13 DEF IdShape
  <2>2. id[2] = other[2] BY <2>1, TextsDiffer
  <2>3. id = other BY <1>9, <2>1, <2>2
  <2>. QED BY <2>3
<1>14. CASE id[1] = "ByPackageHash"
  <2>1. /\ PackageShape(f, 2, id[2], id[3], id[4]) /\ PackageShape(f, 2, other[2], other[3], other[4])
        /\ id[3] \in VersionOptions /\ id[4] \in VersionOptions
        /\ other[3] \in VersionOptions /\ other[4] \in VersionOptions
    BY <1>7, <1>9, <1>14 DEF IdShape
  <2>2. id[2] = other[2] /\ Counts0(id[3]) = Counts0(other[3]) /\ Counts0(id[4]) = Counts0(other[4])
    BY <2>1, PackagesDiffer
  <2>3. MeantId(id) = <<id[1], id[2], Counts0(id[3]), Counts0(id[4])>> BY <1>11, <1>14
  <2>4. MeantId(other) = <<other[1], other[2], Counts0(other[3]), Counts0(other[4])>>
    <3>1. other[1] \in {"ByPackageHash", "ByPackageName"} BY <1>9, <1>14
    <3>. QED BY <1>11, <3>1
  <2>. HIDE DEF TagOf
  <2>. QED BY <1>9, <2>2, <2>3, <2>4, Zenon
<1>15. CASE id[1] = "ByPackageName"
  <2>1. /\ PackageShape(f, 3, StringBytes(id[2]), id[3], id[4])
        /\ PackageShape(f, 3, StringBytes(other[2]), other[3], other[4])
        /\ id[3] \in VersionOptions /\ id[4] \in VersionOptions /\ id[2] \in Texts
        /\ other[3] \in VersionOptions /\ other[4] \in VersionOptions /\ other[2] \in Texts
    BY <1>7, <1>9, <1>15 DEF IdShape
  <2>2. /\ StringBytes(id[2]) = StringBytes(other[2]) /\ Counts0(id[3]) = Counts0(other[3])
        /\ Counts0(id[4]) = Counts0(other[4])
    BY <2>1, PackagesDiffer
  <2>3. id[2] = other[2] BY <2>1, <2>2, TextsDiffer
  <2>4. MeantId(id) = <<id[1], id[2], Counts0(id[3]), Counts0(id[4])>> BY <1>11, <1>15
  <2>5. MeantId(other) = <<other[1], other[2], Counts0(other[3]), Counts0(other[4])>>
    <3>1. other[1] \in {"ByPackageHash", "ByPackageName"} BY <1>9, <1>15
    <3>. QED BY <1>11, <3>1
  <2>. HIDE DEF TagOf
  <2>. QED BY <1>9, <2>2, <2>3, <2>4, <2>5, Zenon
<1>. QED BY <1>6, <1>7, <1>12, <1>13, <1>14, <1>15

(* Different runtimes are written differently.                               *)
LEMMA RuntimesDiffer ==
  /\ \A r \in Runtimes : RuntimeBytes(r) \in Octets
  /\ \A r, s \in Runtimes : RuntimeBytes(r) = RuntimeBytes(s) => r = s
<1>1. \A r \in Runtimes : RuntimeTag[r] = IF r = "VmCasperV1" THEN 0 ELSE 1 BY DEF Runtimes, RuntimeTag
<1>2. \A r \in Runtimes : Tells(RuntimeBytes(r), <<<<RuntimeTag[r]>>>>)
  <2> SUFFICES ASSUME NEW r \in Runtimes PROVE Tells(RuntimeBytes(r), <<<<RuntimeTag[r]>>>>) OBVIOUS
  <2>1. RuntimeTag[r] \in Nat BY <1>1
  <2>2. <<<<RuntimeTag[r]>>>> \in Seq(Octets) BY <2>1, TagType, FewFields
  <2>. QED BY <2>2 DEF Tells, RuntimeBytes
<1>3. ASSUME NEW r \in Runtimes, NEW s \in Runtimes, RuntimeBytes(r) = RuntimeBytes(s) PROVE r = s
  <2>1. <<<<RuntimeTag[r]>>>> = <<<<RuntimeTag[s]>>>> BY <1>2, <1>3, TablesTell
  <2>2. \A a, b : <<<<a>>>> = <<<<b>>>> => a = b OBVIOUS
  <2>3. RuntimeTag[r] = RuntimeTag[s] BY <2>1, <2>2
  <2>. QED BY <1>1, <2>3 DEF Runtimes
<1>. QED BY <1>2, <1>3, TablesTell

(* So are different modules, by their sizes.                                 *)
LEMMA ArraysDiffer ==
  \A b, c \in Octets : /\ ToBytesArrayU8(b) \in Octets
                       /\ ToBytesArrayU8(b) = ToBytesArrayU8(c) => b = c
<1> SUFFICES ASSUME NEW b \in Octets, NEW c \in Octets
             PROVE  ToBytesArrayU8(b) \in Octets /\ (ToBytesArrayU8(b) = ToBytesArrayU8(c) => b = c)
  OBVIOUS
<1>1. \A a \in Octets : Len(a) \in Nat BY DEF Octets
<1>2. \A a \in Octets : ToBytesArrayU8(a) = Joined(U32(Len(a)), a) BY DEF ToBytesArrayU8, Joined
<1>3. U32(Len(b)) \in Octets BY <1>1, WidthsType
<1>4. ToBytesArrayU8(b) \in Octets BY <1>2, <1>3, OctetsJoined
<1>5. Joined(U32(Len(b)), b) = Joined(U32(Len(c)), c) => b = c BY <1>1, SizesDiffer
<1>. QED BY <1>2, <1>4, <1>5

(* What a target is written as.                                              *)
TargetShape(t, f) ==
  \/ t[1] = "Native" /\ t = <<"Native">> /\ f[1] = <<0>>
  \/ /\ t[1] = "Stored" /\ t[2] \in InvocationIds /\ t[3] \in Runtimes /\ ~InvocationBytes(t[2]).threw
     /\ f[1] = <<1>> /\ f[2] = InvocationBytes(t[2]).val /\ f[3] = RuntimeBytes(t[3])
  \/ /\ t[1] = "Session" /\ t = <<t[1], t[2], t[3], t[4]>>
     /\ t[2] \in Octets /\ t[3] \in Runtimes /\ t[4] \in BOOLEAN
     /\ f[1] = <<2>> /\ f[2] = <<BoolByte(t[4])>> /\ f[3] = RuntimeBytes(t[3]) /\ f[4] = ToBytesArrayU8(t[2])

(* The bytes of a target are a table of the fields of its kind               *)
(* (TransactionTarget.toBytes).                                              *)
LEMMA TargetIs ==
  ASSUME NEW t \in Targets, ~TargetBytes(t).threw
  PROVE  \E f : Tells(TargetBytes(t).val, f) /\ TargetShape(t, f)
<1>1. \/ t = <<"Native">>
      \/ t \in {"Stored"} \X InvocationIds \X Runtimes
      \/ t \in {"Session"} \X Seq(Byte) \X Runtimes \X BOOLEAN
  BY DEF Targets
<1>2. \A f : f \in Seq(Octets) /\ TargetBytes(t) = Taken(CalltableBytes(f), <<>>) => Tells(TargetBytes(t).val, f)
  BY DEF Tells, Taken
<1>3. CASE t = <<"Native">>
  <2>. DEFINE f == <<<<0>>>>
  <2>1. t[1] = "Native" BY <1>3
  <2>2. TargetBytes(t) = Taken(CalltableBytes(f), <<>>) BY <2>1 DEF TargetBytes
  <2>3. f \in Seq(Octets) /\ f[1] = <<0>> BY TagType, FewFields
  <2>. HIDE DEF f
  <2>4. TargetShape(t, f) BY <1>3, <2>1, <2>3 DEF TargetShape
  <2>. QED BY <1>2, <2>2, <2>3, <2>4
<1>4. CASE t \in {"Stored"} \X InvocationIds \X Runtimes
  <2>1. t[1] = "Stored" /\ t[2] \in InvocationIds /\ t[3] \in Runtimes
    <3>1. \A a, A, B : \A q \in {a} \X A \X B : q[1] = a /\ q[2] \in A /\ q[3] \in B OBVIOUS
    <3>. QED BY <1>4, <3>1
  <2>2. ~InvocationBytes(t[2]).threw BY <2>1, TargetWritten
  <2>. DEFINE tag == <<1>>
              id == InvocationBytes(t[2]).val
              runtime == RuntimeBytes(t[3])
              f == <<tag, id, runtime>>
  <2>3. TargetBytes(t) = Taken(CalltableBytes(f), <<>>)
    <3>1. t[1] # "Native" /\ t[1] # "Session" BY <2>1
    <3>2. TargetBytes(t) = StoredBytes(t) BY <2>1, <3>1, Zenon DEF TargetBytes
    <3>. QED BY <2>2, <3>2 DEF StoredBytes, Then
  <2>4. id \in Octets
    <3>1. PICK g : Tells(InvocationBytes(t[2]).val, g) BY <2>1, <2>2, IdIs
    <3>. QED BY <3>1, TablesTell
  <2>5. tag \in Octets /\ runtime \in Octets BY <2>1, TagType, RuntimesDiffer
  <2>6. f \in Seq(Octets) /\ f[1] = tag /\ f[2] = id /\ f[3] = runtime
    <3>. HIDE DEF tag, id, runtime
    <3>. QED BY <2>4, <2>5, FewFields
  <2>7. f[1] = <<1>> /\ f[2] = InvocationBytes(t[2]).val /\ f[3] = RuntimeBytes(t[3]) BY <2>6
  <2>. HIDE DEF f, tag, id, runtime
  <2>8. TargetShape(t, f) BY <2>1, <2>2, <2>7 DEF TargetShape
  <2>. QED BY <1>2, <2>3, <2>6, <2>8
<1>5. CASE t \in {"Session"} \X Seq(Byte) \X Runtimes \X BOOLEAN
  <2>1. /\ t[1] = "Session" /\ t = <<t[1], t[2], t[3], t[4]>> /\ t[2] \in Seq(Byte) /\ t[3] \in Runtimes
        /\ t[4] \in BOOLEAN
    <3>1. \A a, A, B, C : \A q \in {a} \X A \X B \X C :
            q[1] = a /\ q = <<q[1], q[2], q[3], q[4]>> /\ q[2] \in A /\ q[3] \in B /\ q[4] \in C
      OBVIOUS
    <3>. QED BY <1>5, <3>1
  <2>2. t[2] \in Octets BY <2>1, BytesType
  <2>. DEFINE tag == <<2>>
              flag == <<BoolByte(t[4])>>
              runtime == RuntimeBytes(t[3])
              module == ToBytesArrayU8(t[2])
              f == <<tag, flag, runtime, module>>
  <2>3. TargetBytes(t) = Taken(CalltableBytes(f), <<>>)
    <3>1. t[1] # "Native" /\ t[1] # "Stored" BY <2>1
    <3>2. TargetBytes(t) = Taken(SessionBytes(t), <<>>) BY <2>1, <3>1, Zenon DEF TargetBytes
    <3>. QED BY <3>2 DEF SessionBytes, BoolByte
  <2>4. tag \in Octets /\ flag \in Octets /\ runtime \in Octets /\ module \in Octets
    BY <2>1, <2>2, TagType, RuntimesDiffer, ArraysDiffer DEF BoolByte
  <2>5. f \in Seq(Octets) /\ f[1] = tag /\ f[2] = flag /\ f[3] = runtime /\ f[4] = module
    <3>. HIDE DEF tag, flag, runtime, module
    <3>. QED BY <2>4, FewFields
  <2>6. f[1] = <<2>> /\ f[2] = <<BoolByte(t[4])>> /\ f[3] = RuntimeBytes(t[3]) /\ f[4] = ToBytesArrayU8(t[2]) BY <2>5
  <2>. HIDE DEF f, tag, flag, runtime, module
  <2>7. TargetShape(t, f) BY <2>1, <2>2, <2>6 DEF TargetShape
  <2>. QED BY <1>2, <2>3, <2>5, <2>7
<1>. QED BY <1>1, <1>3, <1>4, <1>5

(* Different targets are written differently, versions 0 and none excepted.  *)
LEMMA TargetsDiffer ==
  ASSUME NEW s \in Targets, ~TargetBytes(s).threw, NEW t \in Targets, ~TargetBytes(t).threw,
         TargetBytes(s).val = TargetBytes(t).val
  PROVE  WithoutZeros(s) = WithoutZeros(t)
<1>1. PICK f : Tells(TargetBytes(s).val, f) /\ TargetShape(s, f) BY TargetIs
<1>2. PICK g : Tells(TargetBytes(t).val, g) /\ TargetShape(t, g) BY TargetIs
<1>3. f = g BY <1>1, <1>2, TablesTell
<1>4. TargetShape(s, f) /\ TargetShape(t, f) BY <1>1, <1>2, <1>3
<1>5. \A k, l : <<k>> = <<l>> => k = l OBVIOUS
<1>. DEFINE TagOf(x) == IF x[1] = "Native" THEN 0 ELSE IF x[1] = "Stored" THEN 1 ELSE 2
<1>6. \A x : TargetShape(x, f) => f[1] = <<TagOf(x)>> /\ x[1] \in {"Native", "Stored", "Session"} BY DEF TargetShape
<1>7. TagOf(s) = TagOf(t)
  <2>. HIDE DEF TagOf
  <2>. QED BY <1>4, <1>5, <1>6
<1>8. s[1] = t[1] BY <1>4, <1>6, <1>7
<1>9. CASE s[1] = "Native"
  <2>1. s = t BY <1>4, <1>8, <1>9 DEF TargetShape
  <2>. QED BY <2>1
<1>10. CASE s[1] = "Stored"
  <2>1. /\ s[2] \in InvocationIds /\ s[3] \in Runtimes /\ ~InvocationBytes(s[2]).threw
        /\ t[2] \in InvocationIds /\ t[3] \in Runtimes /\ ~InvocationBytes(t[2]).threw
        /\ InvocationBytes(s[2]).val = InvocationBytes(t[2]).val /\ RuntimeBytes(s[3]) = RuntimeBytes(t[3])
    BY <1>4, <1>8, <1>10 DEF TargetShape
  <2>2. MeantId(s[2]) = MeantId(t[2]) BY <2>1, IdsDiffer
  <2>3. s[3] = t[3] BY <2>1, RuntimesDiffer
  <2>4. WithoutZeros(s) = <<"Stored", MeantId(s[2]), s[3]>> BY <1>10, TargetMeant
  <2>5. WithoutZeros(t) = <<"Stored", MeantId(t[2]), t[3]>> BY <1>8, <1>10, TargetMeant
  <2>. QED BY <2>2, <2>3, <2>4, <2>5
<1>11. CASE s[1] = "Session"
  <2>1. /\ s = <<s[1], s[2], s[3], s[4]>> /\ s[2] \in Octets /\ s[3] \in Runtimes /\ s[4] \in BOOLEAN
        /\ t = <<t[1], t[2], t[3], t[4]>> /\ t[2] \in Octets /\ t[3] \in Runtimes /\ t[4] \in BOOLEAN
        /\ <<BoolByte(s[4])>> = <<BoolByte(t[4])>> /\ RuntimeBytes(s[3]) = RuntimeBytes(t[3])
        /\ ToBytesArrayU8(s[2]) = ToBytesArrayU8(t[2])
    BY <1>4, <1>8, <1>11 DEF TargetShape
  <2>2. s[2] = t[2] BY <2>1, ArraysDiffer
  <2>3. s[3] = t[3] BY <2>1, RuntimesDiffer
  <2>4. s[4] = t[4]
    <3>1. BoolByte(s[4]) = BoolByte(t[4]) BY <1>5, <2>1
    <3>2. \A b, c \in BOOLEAN : BoolByte(b) = BoolByte(c) => b = c BY DEF BoolByte
    <3>. QED BY <2>1, <3>1, <3>2
  <2>5. s = t BY <1>8, <2>1, <2>2, <2>3, <2>4
  <2>. QED BY <2>5
<1>. QED BY <1>4, <1>6, <1>9, <1>10, <1>11

(* The bytes of the arguments that have bytes.                               *)
Passed == {a \in Arguments : ~ArgBytes(a).threw}
ArgTexts == {ArgBytes(a).val : a \in Passed}
ValuesOf(args) == [i \in DOMAIN args |-> ArgBytes(args[i]).val]

(* The bytes of an argument do not begin those of another, and say which     *)
(* argument it is.                                                           *)
LEMMA ArgTextsType ==
  /\ ArgTexts \subseteq Octets /\ PrefixFree(ArgTexts)
  /\ \A a, b \in Passed : ArgBytes(a).val = ArgBytes(b).val => a = b
<1>1. \A a \in Passed : a \in Arguments /\ ~ArgBytes(a).threw /\ ArgBytes(a).val \in Octets
  BY ArgBytesAssumption, BytesType DEF Passed
<1>2. \A a, b \in Passed : IsPrefix(ArgBytes(a).val, ArgBytes(b).val) => a = b BY <1>1, ArgsDifferAssumption
<1>3. \A x \in Octets : IsPrefix(x, x) BY DEF IsPrefix, Octets
<1>. QED BY <1>1, <1>2, <1>3 DEF ArgTexts, PrefixFree

(* The pieces of arguments that all have bytes.                              *)
LEMMA ValuesAre ==
  ASSUME NEW args \in Seq(Arguments), \A i \in DOMAIN args : ~ArgBytes(args[i]).threw
  PROVE  /\ ValuesOf(args) \in Seq(ArgTexts) /\ ValuesOf(args) \in Seq(Octets)
         /\ Len(ValuesOf(args)) = Len(args) /\ Len(args) \in Nat /\ DOMAIN args = 1..Len(args)
         /\ \A i \in 1..Len(args) : args[i] \in Passed /\ ValuesOf(args)[i] = ArgBytes(args[i]).val
<1>1. Len(args) \in Nat /\ DOMAIN args = 1..Len(args) /\ \A i \in 1..Len(args) : args[i] \in Arguments OBVIOUS
<1>2. \A i \in 1..Len(args) : args[i] \in Passed BY <1>1 DEF Passed
<1>3. ValuesOf(args) = [i \in 1..Len(args) |-> ArgBytes(args[i]).val] BY <1>1 DEF ValuesOf
<1>4. \A i \in 1..Len(args) : ArgBytes(args[i]).val \in ArgTexts BY <1>2 DEF ArgTexts
<1>5. ValuesOf(args) \in [1..Len(args) -> ArgTexts] BY <1>3, <1>4
<1>6. ValuesOf(args) \in Seq(ArgTexts) /\ Len(ValuesOf(args)) = Len(args) BY <1>1, <1>5
<1>7. ValuesOf(args) \in Seq(Octets) BY <1>6, ArgTextsType, Widened
<1>. QED BY <1>1, <1>2, <1>3, <1>6, <1>7

(* The arguments as they are written.                                        *)
ArgsText(args) == Joined(<<0>>, Joined(U32(Len(args)), FlattenSeq(ValuesOf(args))))

(* What is written of arguments that all have bytes: that they are named,    *)
(* how many there are, and each of them (TransactionV1Payload.ts,            *)
(* Args.ts).                                                                 *)
LEMMA ArgsAre ==
  ASSUME NEW args \in Seq(Arguments), ~RuntimeArgsBytes(args).threw
  PROVE  /\ \A i \in DOMAIN args : ~ArgBytes(args[i]).threw
         /\ RuntimeArgsBytes(args).val = ArgsText(args) /\ ArgsText(args) \in Octets
<1>. DEFINE written == [i \in DOMAIN args |-> ArgBytes(args[i])]
            named == <<0>>
            size == U32(Len(args))
            vals == [i \in DOMAIN args |-> written[i].val]
            pieces == <<size>> \o vals
            buffer == WriteAll(Write(NewBuffer, named), pieces)
<1>1. RuntimeArgsBytes(args) = IF \E i \in DOMAIN args : written[i].threw THEN Thrown
                               ELSE IF buffer.over THEN Thrown ELSE Taken(buffer.data, <<>>)
  BY DEF RuntimeArgsBytes
<1>2. Thrown.threw = TRUE BY DEF Thrown
<1>3. \A i \in DOMAIN args : ~ArgBytes(args[i]).threw
  <2>. HIDE DEF buffer
  <2>1. \A i \in DOMAIN args : ~written[i].threw
    <3>. HIDE DEF written
    <3>. QED BY <1>1, <1>2
  <2>. QED BY <2>1
<1>4. RuntimeArgsBytes(args) = Taken(buffer.data, <<>>)
  <2>. HIDE DEF buffer, written
  <2>. QED BY <1>1, <1>2
<1>5. RuntimeArgsBytes(args).val = buffer.data
  <2>. HIDE DEF buffer
  <2>. QED BY <1>4 DEF Taken
<1>6. vals = ValuesOf(args) BY DEF ValuesOf
<1>7. ValuesOf(args) \in Seq(Octets) /\ Len(args) \in Nat BY <1>3, ValuesAre
<1>8. size \in Octets BY <1>7, WidthsType
<1>9. named \in Octets /\ Len(named) = 1 BY TagType
<1>. HIDE DEF written, named, size, vals
<1>10. <<size>> \in Seq(Octets) BY <1>8, FewFields
<1>11. pieces \in Seq(Octets)
  <2>. DEFINE head == <<size>>
  <2>. HIDE DEF head
  <2>. QED BY <1>6, <1>7, <1>10, ConcatType DEF head
<1>12. FlattenSeq(pieces) = Joined(size, FlattenSeq(vals))
  <2>. DEFINE head == <<size>>
  <2>1. head \in Seq(Seq(Nat)) /\ vals \in Seq(Seq(Nat)) BY <1>6, <1>7, <1>10 DEF Octets
  <2>2. FlattenSeq(head) = size BY <1>8, FlattenOfOne DEF Octets
  <2>3. pieces = head \o vals OBVIOUS
  <2>. HIDE DEF head, pieces
  <2>4. FlattenSeq(head \o vals) = FlattenSeq(head) \o FlattenSeq(vals) BY <2>1, FlattenConcat
  <2>. QED BY <2>2, <2>3, <2>4, Zenon DEF Joined
<1>. HIDE DEF pieces
<1>. DEFINE first == Write(NewBuffer, named)
<1>13. Whole(first) /\ first.data = named
  <2>1. Len(named) <= 4 BY <1>9
  <2>. QED BY <1>9, <2>1, NewWritten
<1>14. buffer = WriteAll(first, pieces) OBVIOUS
<1>. HIDE DEF first, buffer
<1>15. buffer.data = Joined(named, FlattenSeq(pieces)) BY <1>11, <1>13, <1>14, AllWritten
<1>16. buffer.data = ArgsText(args) BY <1>6, <1>12, <1>15, Zenon DEF ArgsText, named, size
<1>17. buffer.data \in Octets BY <1>11, <1>13, <1>14, AllWritten DEF Whole
<1>. QED BY <1>3, <1>5, <1>16, <1>17

(* Different arguments are written differently.                              *)
LEMMA ArgsDiffer ==
  ASSUME NEW a \in Seq(Arguments), ~RuntimeArgsBytes(a).threw,
         NEW b \in Seq(Arguments), ~RuntimeArgsBytes(b).threw,
         RuntimeArgsBytes(a).val = RuntimeArgsBytes(b).val
  PROVE  a = b
<1>. DEFINE s == ValuesOf(a)
            t == ValuesOf(b)
            named == <<0>>
<1>1. /\ s \in Seq(ArgTexts) /\ s \in Seq(Octets) /\ Len(s) = Len(a) /\ Len(a) \in Nat /\ DOMAIN a = 1..Len(a)
      /\ \A i \in 1..Len(a) : a[i] \in Passed /\ s[i] = ArgBytes(a[i]).val
  BY ArgsAre, ValuesAre
<1>2. /\ t \in Seq(ArgTexts) /\ t \in Seq(Octets) /\ Len(t) = Len(b) /\ Len(b) \in Nat /\ DOMAIN b = 1..Len(b)
      /\ \A i \in 1..Len(b) : b[i] \in Passed /\ t[i] = ArgBytes(b[i]).val
  BY ArgsAre, ValuesAre
<1>3. FlattenSeq(s) \in Octets /\ FlattenSeq(t) \in Octets BY <1>1, <1>2, FlattenType DEF Octets
<1>. DEFINE x == Joined(U32(Len(a)), FlattenSeq(s))
            y == Joined(U32(Len(b)), FlattenSeq(t))
<1>4. x \in Octets /\ y \in Octets
  <2>1. U32(Len(a)) \in Octets /\ U32(Len(b)) \in Octets BY <1>1, <1>2, WidthsType
  <2>. QED BY <1>3, <2>1, OctetsJoined
<1>5. Joined(named, x) = Joined(named, y)
  <2>1. ArgsText(a) = ArgsText(b) BY ArgsAre
  <2>. QED BY <2>1 DEF ArgsText
<1>6. named \in Seq(Nat) BY TagType DEF Octets
<1>7. Len(a) = Len(b) /\ FlattenSeq(s) = FlattenSeq(t)
  <2>1. x = y
    <3>1. x \in Seq(Nat) /\ y \in Seq(Nat) /\ named \o x = named \o y BY <1>4, <1>5 DEF Octets, Joined
    <3>. HIDE DEF x, y, named
    <3>. QED BY <1>6, <3>1, ConcatInjective
  <2>. QED BY <1>1, <1>2, <1>3, <2>1, SizesDiffer
<1>. HIDE DEF s, t, x, y
<1>8. ArgTexts \subseteq Seq(Nat) /\ PrefixFree(ArgTexts) BY ArgTextsType DEF Octets
<1>9. Len(s) = Len(t) BY <1>1, <1>2, <1>7
<1>10. s = t BY <1>1, <1>2, <1>7, <1>8, <1>9, PiecesDiffer
<1>11. \A i \in 1..Len(a) : a[i] = b[i] BY <1>1, <1>2, <1>7, <1>10, ArgTextsType
<1>12. a = [i \in 1..Len(a) |-> a[i]] /\ b = [i \in 1..Len(a) |-> b[i]] BY <1>1, <1>2, <1>7
<1>. QED BY <1>11, <1>12

(* The values of the four fields.                                            *)
ValuesIn(parts) == [i \in DOMAIN parts |-> parts[i].val]
Unthrown(parts) == \A i \in DOMAIN parts : ~parts[i].threw /\ parts[i].val \in Octets

(* The four parts of a payload that is built all have bytes.                 *)
LEMMA PartsType ==
  ASSUME NEW p, Built(p)
  PROVE  LET parts == PayloadFields(p)
         IN  /\ DOMAIN parts = 1..4 /\ Unthrown(parts)
             /\ parts[1] = RuntimeArgsBytes(p.args) /\ parts[2] = TargetBytes(p.target)
             /\ parts[3].val = EntryPointBytes(p.entry) /\ parts[4] = SchedulingBytes(p.scheduling)
<1>. DEFINE parts == PayloadFields(p)
            args == RuntimeArgsBytes(p.args)
            target == TargetBytes(p.target)
            entry == EntryPointBytes(p.entry)
            scheduling == SchedulingBytes(p.scheduling)
<1>1. /\ p.args \in Seq(Arguments) /\ p.target \in Targets /\ p.entry \in EntryPoints
      /\ p.scheduling \in Schedulings
  BY PayloadShape DEF Built
<1>2. parts = <<args, target, Taken(entry, <<>>), scheduling>> BY DEF PayloadFields
<1>3. PayloadBytes(p) = BytesOf(p.initiator, p.timestamp, p.ttl, p.chain, p.pricing, parts) BY PayloadBytesOf
<1>. HIDE DEF parts, args, target, entry, scheduling
<1>4. DOMAIN parts = 1..4 /\ parts[1] = args /\ parts[2] = target /\ parts[3] = Taken(entry, <<>>) /\ parts[4] = scheduling
  BY <1>2
<1>5. \A i \in DOMAIN parts : ~parts[i].threw BY <1>3, BytesTaken DEF Built, Complete
<1>6. parts[3].threw = FALSE /\ parts[3].val = entry BY <1>4 DEF Taken
<1>7. ~args.threw /\ ~target.threw BY <1>4, <1>5
<1>8. args.val \in Octets BY <1>1, <1>7, ArgsAre DEF args
<1>9. target.val \in Octets
  <2>1. PICK f : Tells(target.val, f) BY <1>1, <1>7, TargetIs DEF target
  <2>. QED BY <2>1, TablesTell
<1>10. entry \in Octets
  <2>1. PICK f : Tells(entry, f) BY <1>1, EntryIs DEF entry
  <2>. QED BY <2>1, TablesTell
<1>11. scheduling.val \in Octets /\ scheduling.threw = FALSE
  <2>1. PICK f : scheduling.threw = FALSE /\ Tells(scheduling.val, f) BY <1>1, SchedulingIs DEF scheduling
  <2>. QED BY <2>1, TablesTell
<1>12. Unthrown(parts) BY <1>4, <1>5, <1>6, <1>8, <1>9, <1>10, <1>11 DEF Unthrown
<1>. QED BY <1>4, <1>6, <1>12 DEF parts, args, target, entry, scheduling

(* Six fields.                                                               *)
LEMMA SixFields ==
  \A a, b, c, d, e, f \in Octets :
    \A s : s = <<a, b, c, d, e, f>> =>
      s \in Seq(Octets) /\ Len(s) = 6 /\ s[1] = a /\ s[2] = b /\ s[3] = c /\ s[4] = d /\ s[5] = e /\ s[6] = f
  OBVIOUS

(* What the fields are written to is a list of bytes.                        *)
LEMMA FieldsType == \A values \in Seq(Octets) : FieldsText(values) \in Octets
<1> SUFFICES ASSUME NEW values \in Seq(Octets) PROVE FieldsText(values) \in Octets OBVIOUS
<1>1. Sized(values) \in Seq(Octets) /\ Len(values) \in Nat BY SizedType
<1>2. Numbered(Sized(values)) \in Seq(Octets) BY <1>1, NumberedType
<1>3. FlattenSeq(Numbered(Sized(values))) \in Octets BY <1>2, FlattenType DEF Octets
<1>4. U32(Len(values)) \in Octets BY <1>1, WidthsType
<1>. QED BY <1>3, <1>4, OctetsJoined DEF FieldsText

(* The calltable that is hashed.                                             *)
Signed(p) ==
  <<InitiatorBytes(p.initiator), Padded(p.timestamp, 8), Padded(Digits(p.ttl), 8), StringBytes(p.chain),
    PricingBytes(p.pricing), FieldsText(ValuesIn(PayloadFields(p)))>>

(* Its fields by their numbers.                                              *)
SignedShape(s, p) ==
  /\ s \in Seq(Octets) /\ Len(s) = 6
  /\ s[1] = InitiatorBytes(p.initiator) /\ s[2] = Padded(p.timestamp, 8) /\ s[3] = Padded(Digits(p.ttl), 8)
  /\ s[4] = StringBytes(p.chain) /\ s[5] = PricingBytes(p.pricing)
  /\ s[6] = FieldsText(ValuesIn(PayloadFields(p)))

(* The bytes of a payload that is built are the calltable of its six         *)
(* fields, none of them cut short.                                           *)
LEMMA SignedIs ==
  ASSUME NEW p, Built(p)
  PROVE  /\ PayloadBytes(p).val = CalltableBytes(Signed(p)) /\ SignedShape(Signed(p), p)
         /\ ValuesIn(PayloadFields(p)) \in Seq(Octets) /\ Len(ValuesIn(PayloadFields(p))) = 4
<1>. DEFINE parts == PayloadFields(p)
            values == ValuesIn(parts)
            a == InitiatorBytes(p.initiator)
            b == Padded(p.timestamp, 8)
            c == Padded(Digits(p.ttl), 8)
            d == StringBytes(p.chain)
            e == PricingBytes(p.pricing)
            f == FieldsText(values)
            s == Signed(p)
<1>1. DOMAIN parts = 1..4 /\ Unthrown(parts) BY PartsType
<1>2. values \in Seq(Octets) /\ Len(values) = 4
  <2>1. values = [i \in 1..4 |-> parts[i].val] /\ \A i \in 1..4 : parts[i].val \in Octets BY <1>1 DEF ValuesIn, Unthrown
  <2>. HIDE DEF parts, values
  <2>2. \A n \in Nat : \A g \in [1..n -> Octets] : g \in Seq(Octets) /\ Len(g) = n OBVIOUS
  <2>3. values \in [1..4 -> Octets] BY <2>1
  <2>. QED BY <2>2, <2>3
<1>3. FieldsBytes([i \in DOMAIN parts |-> ToBytesArrayU8(parts[i].val)]) = Taken(f, <<>>)
  <2>1. \A i \in DOMAIN parts : values[i] = parts[i].val BY DEF ValuesIn
  <2>2. DOMAIN values = DOMAIN parts BY DEF ValuesIn
  <2>. HIDE DEF parts, values
  <2>3. [i \in DOMAIN parts |-> ToBytesArrayU8(parts[i].val)] = Sized(values) BY <2>1, <2>2 DEF Sized
  <2>4. Sized(values) \in Seq(Octets) /\ Len(Sized(values)) = Len(values) BY <1>2, SizedType
  <2>5. FieldsBytes(Sized(values)) = Taken(FieldsText(values), <<>>) BY <2>4, FieldsWritten DEF FieldsText
  <2>. QED BY <2>3, <2>5
<1>4. PayloadBytes(p).val = CalltableBytes(s)
  <2>1. /\ PayloadBytes(p) = BytesOf(p.initiator, p.timestamp, p.ttl, p.chain, p.pricing, parts)
        /\ ~PayloadBytes(p).threw
    BY PayloadBytesOf DEF Built
  <2>. DEFINE fields == FieldsBytes([i \in DOMAIN parts |-> ToBytesArrayU8(parts[i].val)])
              value == CalltableBytes(<<a, b, c, d, e, fields.val>>)
  <2>2. PayloadBytes(p) = IF p.ttl = NotWhole \/ \E i \in DOMAIN parts : parts[i].threw THEN Thrown
                          ELSE IF fields.threw THEN Thrown ELSE Taken(value, <<>>)
    BY <2>1 DEF BytesOf
  <2>3. fields.val = f BY <1>3 DEF Taken
  <2>4. Thrown.threw = TRUE BY DEF Thrown
  <2>. HIDE DEF value, fields
  <2>5. PayloadBytes(p) = Taken(value, <<>>) BY <2>1, <2>2, <2>4
  <2>6. PayloadBytes(p).val = value BY <2>5 DEF Taken
  <2>. QED BY <2>3, <2>6, Zenon DEF value, Signed
<1>5. a \in Octets /\ b \in Octets /\ c \in Octets /\ d \in Octets /\ e \in Octets /\ f \in Octets
  <2>1. /\ p.initiator \in Initiators /\ p.timestamp \in Numbers64 /\ p.ttl \in Nat /\ p.chain \in Texts
        /\ p.pricing \in Pricings
    BY PayloadShape DEF Built
  <2>2. a \in Octets BY <2>1, InitiatorIs, TablesTell
  <2>3. b \in Octets BY <2>1, NumberPadded
  <2>4. c \in Octets BY <2>1, DigitsType, PaddedIs
  <2>5. d \in Octets BY <2>1, StringType
  <2>6. e \in Octets
    <3>1. PICK g : Tells(e, g) BY <2>1, PricingIs
    <3>. QED BY <3>1, TablesTell
  <2>. QED BY <1>2, <2>2, <2>3, <2>4, <2>5, <2>6, FieldsType
<1>6. s = <<a, b, c, d, e, f>> BY DEF Signed
<1>7. SignedShape(s, p)
  <2>. HIDE DEF a, b, c, d, e, f, s
  <2>1. /\ s \in Seq(Octets) /\ Len(s) = 6 /\ s[1] = a /\ s[2] = b /\ s[3] = c /\ s[4] = d /\ s[5] = e
        /\ s[6] = f
    BY <1>5, <1>6, SixFields
  <2>. QED BY <2>1, Zenon DEF SignedShape, a, b, c, d, e, f, values, parts
<1>. QED BY <1>2, <1>4, <1>7

(* What a payload means: versions that are 0 are none.                       *)
Meaning(p) == [p EXCEPT !.target = WithoutZeros(@)]

(* Two payloads with the same bytes mean the same.                           *)
LEMMA MeansTheSame ==
  ASSUME NEW p, Built(p), NEW q, Built(q), PayloadBytes(p) = PayloadBytes(q)
  PROVE  Meaning(p) = Meaning(q)
<1>. DEFINE P == PayloadFields(p)
            Q == PayloadFields(q)
            values == ValuesIn(P)
            others == ValuesIn(Q)
            s == Signed(p)
            t == Signed(q)
<1>1. /\ p = AsRecord(p)
      /\ p.initiator \in Initiators /\ p.timestamp \in Numbers64 /\ p.ttl \in Nat
      /\ p.chain \in Texts /\ p.pricing \in Pricings /\ p.args \in Seq(Arguments) /\ p.target \in Targets
      /\ p.entry \in EntryPoints /\ p.scheduling \in Schedulings
  BY PayloadShape DEF Built
<1>2. /\ q = AsRecord(q)
      /\ q.initiator \in Initiators /\ q.timestamp \in Numbers64 /\ q.ttl \in Nat
      /\ q.chain \in Texts /\ q.pricing \in Pricings /\ q.args \in Seq(Arguments) /\ q.target \in Targets
      /\ q.entry \in EntryPoints /\ q.scheduling \in Schedulings
  BY PayloadShape DEF Built
<1>3. /\ PayloadBytes(p).val = CalltableBytes(s) /\ SignedShape(s, p)
      /\ values \in Seq(Octets) /\ Len(values) = 4
  BY SignedIs
<1>4. /\ PayloadBytes(q).val = CalltableBytes(t) /\ SignedShape(t, q)
      /\ others \in Seq(Octets) /\ Len(others) = 4
  BY SignedIs
<1>5. s = t
  <2>1. CalltableBytes(s) = CalltableBytes(t) BY <1>3, <1>4
  <2>2. s \in Seq(Octets) /\ t \in Seq(Octets) BY <1>3, <1>4 DEF SignedShape
  <2>. HIDE DEF s, t
  <2>. QED BY <2>1, <2>2, TablesDiffer
<1>. HIDE DEF s, t
<1>6. /\ InitiatorBytes(p.initiator) = InitiatorBytes(q.initiator)
      /\ Padded(p.timestamp, 8) = Padded(q.timestamp, 8)
      /\ Padded(Digits(p.ttl), 8) = Padded(Digits(q.ttl), 8)
      /\ StringBytes(p.chain) = StringBytes(q.chain)
      /\ PricingBytes(p.pricing) = PricingBytes(q.pricing)
      /\ FieldsText(values) = FieldsText(others)
  BY <1>3, <1>4, <1>5, Zenon DEF SignedShape
<1>7. p.initiator = q.initiator BY <1>1, <1>2, <1>6, InitiatorsDiffer
<1>8. p.timestamp = q.timestamp BY <1>1, <1>2, <1>6, NumbersDiffer
<1>9. p.ttl = q.ttl BY <1>1, <1>2, <1>6, TtlsDiffer
<1>10. p.chain = q.chain BY <1>1, <1>2, <1>6, TextsDiffer
<1>11. p.pricing = q.pricing BY <1>1, <1>2, <1>6, PricingsDiffer
<1>12. values = others
  <2>. HIDE DEF values, others
  <2>. QED BY <1>3, <1>4, <1>6, FieldsDiffer
<1>13. /\ RuntimeArgsBytes(p.args).val = RuntimeArgsBytes(q.args).val /\ ~RuntimeArgsBytes(p.args).threw
       /\ ~RuntimeArgsBytes(q.args).threw
       /\ TargetBytes(p.target).val = TargetBytes(q.target).val /\ ~TargetBytes(p.target).threw
       /\ ~TargetBytes(q.target).threw
       /\ EntryPointBytes(p.entry) = EntryPointBytes(q.entry)
       /\ SchedulingBytes(p.scheduling).val = SchedulingBytes(q.scheduling).val
  <2>1. /\ DOMAIN P = 1..4 /\ Unthrown(P)
        /\ P[1] = RuntimeArgsBytes(p.args) /\ P[2] = TargetBytes(p.target)
        /\ P[3].val = EntryPointBytes(p.entry) /\ P[4] = SchedulingBytes(p.scheduling)
    BY PartsType
  <2>2. /\ DOMAIN Q = 1..4 /\ Unthrown(Q)
        /\ Q[1] = RuntimeArgsBytes(q.args) /\ Q[2] = TargetBytes(q.target)
        /\ Q[3].val = EntryPointBytes(q.entry) /\ Q[4] = SchedulingBytes(q.scheduling)
    BY PartsType
  <2>3. 1 \in 1..4 /\ 2 \in 1..4 /\ 3 \in 1..4 /\ 4 \in 1..4 OBVIOUS
  <2>. HIDE DEF P, Q
  <2>4. \A i \in 1..4 : P[i].val = Q[i].val /\ ~P[i].threw /\ ~Q[i].threw
    <3>1. \A i \in 1..4 : values[i] = P[i].val /\ others[i] = Q[i].val BY <2>1, <2>2 DEF ValuesIn
    <3>2. \A i \in 1..4 : ~P[i].threw /\ ~Q[i].threw BY <2>1, <2>2 DEF Unthrown
    <3>. HIDE DEF values, others
    <3>. QED BY <1>12, <3>1, <3>2
  <2>5. P[1].val = Q[1].val /\ ~P[1].threw /\ ~Q[1].threw BY <2>3, <2>4
  <2>6. P[2].val = Q[2].val /\ ~P[2].threw /\ ~Q[2].threw BY <2>3, <2>4
  <2>7. P[3].val = Q[3].val /\ P[4].val = Q[4].val BY <2>3, <2>4
  <2>. QED BY <2>1, <2>2, <2>5, <2>6, <2>7, Zenon
<1>. HIDE DEF P, Q, values, others
<1>14. p.args = q.args BY <1>1, <1>2, <1>13, ArgsDiffer
<1>15. WithoutZeros(p.target) = WithoutZeros(q.target) BY <1>1, <1>2, <1>13, TargetsDiffer
<1>16. p.entry = q.entry BY <1>1, <1>2, <1>13, EntriesDiffer
<1>17. p.scheduling = q.scheduling BY <1>1, <1>2, <1>13, SchedulingsDiffer
<1>18. \A r : r = AsRecord(r) =>
         Meaning(r) = Fields(r.initiator, r.timestamp, r.ttl, r.chain, r.pricing, r.args, WithoutZeros(r.target),
                             r.entry, r.scheduling)
  <2>1. \A i, u, l, c, v, a, g, e, d :
          [Fields(i, u, l, c, v, a, g, e, d) EXCEPT !.target = WithoutZeros(@)] =
            Fields(i, u, l, c, v, a, WithoutZeros(g), e, d)
    BY DEF Fields
  <2>. SUFFICES ASSUME NEW r, r = AsRecord(r)
                PROVE  Meaning(r) = Fields(r.initiator, r.timestamp, r.ttl, r.chain, r.pricing, r.args,
                                           WithoutZeros(r.target), r.entry, r.scheduling)
    OBVIOUS
  <2>. DEFINE i == r.initiator
              u == r.timestamp
              l == r.ttl
              c == r.chain
              v == r.pricing
              a == r.args
              g == r.target
              e == r.entry
              d == r.scheduling
  <2>2. r = Fields(i, u, l, c, v, a, g, e, d) BY DEF AsRecord
  <2>3. Meaning(r) = [r EXCEPT !.target = WithoutZeros(@)] BY DEF Meaning
  <2>. HIDE DEF i, u, l, c, v, a, g, e, d
  <2>4. Meaning(r) = [Fields(i, u, l, c, v, a, g, e, d) EXCEPT !.target = WithoutZeros(@)] BY <2>2, <2>3
  <2>5. Meaning(r) = Fields(i, u, l, c, v, a, WithoutZeros(g), e, d) BY <2>1, <2>4
  <2>. QED BY <2>5 DEF i, u, l, c, v, a, g, e, d
<1>. QED BY <1>1, <1>2, <1>7, <1>8, <1>9, <1>10, <1>11, <1>14, <1>15, <1>16, <1>17, <1>18, Zenon

(* The parts of what is signed are found where a node looks for them.        *)
Finds(hash, m) ==
  LET table == CalltableFromBytes(hash).val
      fields == GetField(table, 5)[1]
  IN  /\ [i \in DOMAIN table |-> table[i].index] = <<0, 1, 2, 3, 4, 5>>
      /\ GetField(table, 0) = <<InitiatorBytes(m.initiator)>>
      /\ GetField(table, 1) = <<Padded(m.timestamp, 8)>>
      /\ GetField(table, 2) = <<Padded(Digits(m.ttl), 8)>>
      /\ GetField(table, 4) = <<PricingBytes(m.pricing)>>
      /\ FieldsRead(fields) = Taken([i \in 1..4 |-> <<i - 1, PayloadFields(m)[i].val>>], <<>>)

(* Every field is found under its number, and the four parts of the last     *)
(* in turn.                                                                  *)
LEMMA SignedFound ==
  ASSUME NEW m, Built(m)
  PROVE  Finds(PayloadBytes(m).val, m)
<1>. DEFINE hash == PayloadBytes(m).val
            s == Signed(m)
            parts == PayloadFields(m)
            values == ValuesIn(parts)
            table == CalltableFromBytes(hash).val
            fields == GetField(table, 5)[1]
<1>1. hash = CalltableBytes(s) /\ SignedShape(s, m) /\ values \in Seq(Octets) /\ Len(values) = 4 BY SignedIs
<1>. HIDE DEF s, hash
<1>2. s \in Seq(Octets) /\ Len(s) = 6 BY <1>1 DEF SignedShape
<1>3. table = TableOf(s)
  <2>1. CalltableFromBytes(hash) = Taken(TableOf(s), <<>>) BY <1>1, <1>2, TableRead
  <2>. QED BY <2>1 DEF Taken
<1>4. [i \in DOMAIN table |-> table[i].index] = <<0, 1, 2, 3, 4, 5>>
  <2>1. DOMAIN TableOf(s) = 1..6 /\ \A i \in 1..6 : TableOf(s)[i].index = i - 1 BY <1>2 DEF TableOf
  <2>2. [i \in 1..6 |-> i - 1] = <<0, 1, 2, 3, 4, 5>> OBVIOUS
  <2>. HIDE DEF table
  <2>3. [i \in DOMAIN table |-> table[i].index] = [i \in 1..6 |-> i - 1] BY <1>3, <2>1
  <2>. QED BY <2>2, <2>3
<1>. HIDE DEF table
<1>5. \A j \in 0..5 : GetField(table, j) = <<s[j + 1]>>
  <2> SUFFICES ASSUME NEW j \in 0..5 PROVE GetField(table, j) = <<s[j + 1]>> OBVIOUS
  <2>1. j \in Nat /\ j < Len(s) BY <1>2
  <2>2. GetField(TableOf(s), j) = <<s[j + 1]>> BY <1>2, <2>1, FieldOf
  <2>. QED BY <1>3, <2>2
<1>6. /\ GetField(table, 0) = <<s[1]>> /\ GetField(table, 1) = <<s[2]>> /\ GetField(table, 2) = <<s[3]>>
      /\ GetField(table, 4) = <<s[5]>> /\ GetField(table, 5) = <<s[6]>>
  <2>1. 0 \in 0..5 /\ 1 \in 0..5 /\ 2 \in 0..5 /\ 4 \in 0..5 /\ 5 \in 0..5 OBVIOUS
  <2>2. 0 + 1 = 1 /\ 1 + 1 = 2 /\ 2 + 1 = 3 /\ 4 + 1 = 5 /\ 5 + 1 = 6 OBVIOUS
  <2>. QED BY <1>5, <2>1, <2>2
<1>7. /\ s[1] = InitiatorBytes(m.initiator) /\ s[2] = Padded(m.timestamp, 8) /\ s[3] = Padded(Digits(m.ttl), 8)
      /\ s[5] = PricingBytes(m.pricing) /\ s[6] = FieldsText(values)
  BY <1>1 DEF SignedShape
<1>8. FieldsRead(fields) = Taken([i \in 1..4 |-> <<i - 1, parts[i].val>>], <<>>)
  <2>1. fields = FieldsText(values)
    <3>1. \A x : <<x>>[1] = x OBVIOUS
    <3>. QED BY <1>6, <1>7, <3>1
  <2>2. FieldsRead(FieldsText(values)) = Taken([i \in 1..Len(values) |-> <<i - 1, values[i]>>], <<>>)
    <3>. HIDE DEF values
    <3>. QED BY <1>1, FieldsFound
  <2>3. DOMAIN parts = 1..4 BY PartsType
  <2>. HIDE DEF parts
  <2>4. \A i \in 1..4 : values[i] = parts[i].val BY <2>3 DEF ValuesIn
  <2>. HIDE DEF values
  <2>5. [i \in 1..Len(values) |-> <<i - 1, values[i]>>] = [i \in 1..4 |-> <<i - 1, parts[i].val>>] BY <1>1, <2>4
  <2>. HIDE DEF fields
  <2>. QED BY <2>1, <2>2, <2>5, Zenon
<1>. QED BY <1>4, <1>6, <1>7, <1>8, Zenon DEF Finds, table, fields, parts, hash

(* SaysWhatIsSigned: no two payloads that mean different things have the     *)
(* same bytes, so a signature is over one meaning only, and the parts are    *)
(* found where a node looks for them (TransactionV1Payload.toBytes,          *)
(* CalltableSerialization, the toBytes of every part).                       *)
THEOREM SignedSaysOneThing == Spec => []SaysWhatIsSigned
<1>1. IInv => SaysWhatIsSigned
  <2>. SUFFICES ASSUME IInv PROVE OneMeaning /\ PartsFound BY DEF SaysWhatIsSigned
  <2>1. Built(made) BY DEF IInv
  <2>2. OneMeaning
    <3>. SUFFICES ASSUME NEW other \in Payloads, PayloadBytes(other) = PayloadBytes(made)
                  PROVE  Meaning(other) = Meaning(made)
      BY DEF OneMeaning, Meaning
    <3>1. Built(other) BY <2>1, PayloadsAssumption DEF Built
    <3>. QED BY <2>1, <3>1, MeansTheSame
  <2>3. PartsFound
    <3>. SUFFICES ASSUME form = "object" PROVE Finds(cur.hash, made) BY DEF PartsFound, Finds
    <3>1. Held(cur, made) BY DEF IInv
    <3>2. cur.hash = PayloadBytes(made).val BY <3>1, HeldIs
    <3>. QED BY <2>1, <3>2, SignedFound
  <2>. QED BY <2>2, <2>3
<1>. QED BY <1>1, Invariant, PTL
=============================================================================
