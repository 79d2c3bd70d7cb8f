-------------------------- MODULE NodeResults_proofs --------------------------
(* What is told of a chain is true of it, for all facts, bounds and both     *)
(* generations of node (NodeResults).                                        *)
(* The invariant IInv says of every answer only where it was read from: a    *)
(* fact, the generation of the node, the reader.  What the properties state  *)
(* then follows of the readers themselves, one after the other: a lemma      *)
(* about each class says what it makes of what a node writes.  Lists of any  *)
(* length are dealt with by the lemmas about FlattenSeq and Among at the     *)
(* beginning.                                                                *)
EXTENDS NodeResults, SequenceTheorems, FiniteSetTheorems, WellFoundedInduction, TLAPS

-----------------------------------------------------------------------------
(* Lists. *)

(* Induction over the naturals, for a set.                                   *)
LEMMA NaturalInduction ==
  ASSUME NEW S, 0 \in S, \A n \in Nat : n \in S => n + 1 \in S
  PROVE  Nat \subseteq S
<1>. DEFINE T == {n \in Nat : n \notin S}
            R == OpToRel(<, Nat)
<1>1. SUFFICES ASSUME T # {} PROVE FALSE
  OBVIOUS
<1>2. PICK x \in T : \A y \in T : ~ (<<y, x>> \in R)
  <2>1. IsWellFoundedOn(R, Nat)
    BY NatLessThanWellFounded
  <2> HIDE DEF R
  <2> QED BY <1>1, <2>1, WFMin
<1>3. x - 1 \in T
  OBVIOUS
<1>4. <<x - 1, x>> \in R
  <2>0. x \in Nat /\ x - 1 \in Nat /\ x - 1 < x BY <1>3
  <2>1. \A i, j \in Nat : i < j => <<i, j>> \in R
    BY Zenon DEF OpToRel
  <2> HIDE DEF R
  <2> QED BY <2>1, <2>0
<1>. QED BY <1>2, <1>3, <1>4

(* Induction over the sequences of T, for a set.                             *)
LEMMA SequenceInduction ==
  ASSUME NEW T, NEW P, \A e \in Seq(T) : e = <<>> => e \in P,
         \A s \in Seq(T), x \in T : s \in P => Append(s, x) \in P
  PROVE  Seq(T) \subseteq P
<1>. DEFINE S == {n \in Nat : \A s \in Seq(T) : Len(s) = n => s \in P}
<1>1. 0 \in S
  OBVIOUS
<1>2. ASSUME NEW n \in Nat, n \in S PROVE n + 1 \in S
  <2>1. SUFFICES ASSUME NEW s \in Seq(T), Len(s) = n + 1 PROVE s \in P
    OBVIOUS
  <2>. DEFINE front == SubSeq(s, 1, n)
              last == s[n + 1]
  <2>2. front \in Seq(T) /\ Len(front) = n /\ last \in T BY <2>1
  <2>3. s = Append(front, last) BY <2>1, <2>2
  <2>4. front \in P BY <1>2, <2>2
  <2>. QED BY <2>2, <2>3, <2>4
<1>3. Nat \subseteq S
  <2>. HIDE DEF S
  <2>. QED BY <1>1, <1>2, NaturalInduction
<1>. QED BY <1>3

(* flatten[i] of SequencesExt, up to n *)
Flattens(f, ss, n) == f = [i \in 1..n |-> IF i = 1 THEN ss[i] ELSE f[i - 1] \o ss[i]]

(* The function that FlattenSeq chooses exists.                              *)
LEMMA FlattenExists ==
  ASSUME NEW ss
  PROVE  \A n \in Nat : \E f : Flattens(f, ss, n)
<1>. DEFINE S == {n \in Nat : \E f : Flattens(f, ss, n)}
<1>1. 0 \in S
  <2>1. Flattens([i \in 1..0 |-> ss], ss, 0) BY DEF Flattens
  <2>. QED BY <2>1
<1>2. ASSUME NEW n \in Nat, n \in S PROVE n + 1 \in S
  <2>1. PICK f : Flattens(f, ss, n) BY <1>2
  <2>. DEFINE g == [i \in 1..n+1 |-> IF i <= n THEN f[i] ELSE IF i = 1 THEN ss[i] ELSE f[n] \o ss[i]]
  <2>2. \A i \in 1..n : f[i] = IF i = 1 THEN ss[i] ELSE f[i - 1] \o ss[i]
    BY <2>1 DEF Flattens
  <2>3. \A i \in 1..n+1 : g[i] = IF i = 1 THEN ss[i] ELSE g[i - 1] \o ss[i]
    <3>1. TAKE i \in 1..n+1
    <3>2. CASE i <= n
      BY <2>2, <3>2
    <3>3. CASE i = n + 1 /\ i # 1
      <4>1. i - 1 = n /\ n \in 1..n + 1 BY <3>3
      <4>2. g[n] = f[n] /\ g[i] = f[n] \o ss[i]
        <5>1. n \in 1..n+1 /\ n <= n /\ ~ (i <= n) BY <3>3
        <5>. QED BY <5>1, <3>1, <3>3, Zenon
      <4>3. g[i - 1] = g[n] BY <4>1, Zenon
      <4>. HIDE DEF g
      <4>. QED BY <3>3, <4>2, <4>3
    <3>4. CASE i = n + 1 /\ i = 1
      BY <3>4
    <3>. QED BY <3>2, <3>3, <3>4
  <2>4. Flattens(g, ss, n + 1) BY <2>3 DEF Flattens
  <2>. QED BY <2>4
<1>. HIDE DEF S
<1>3. Nat \subseteq S BY <1>1, <1>2, NaturalInduction
<1>. QED BY <1>3 DEF S

(* FlattenSeq is the last value of that function.                            *)
LEMMA FlattenIs ==
  ASSUME NEW ss, Len(ss) \in Nat, Len(ss) # 0
  PROVE  \E f : Flattens(f, ss, Len(ss)) /\ FlattenSeq(ss) = f[Len(ss)]
<1>. DEFINE flatten == CHOOSE f : Flattens(f, ss, Len(ss))
<1>1. FlattenSeq(ss) = flatten[Len(ss)]
  BY DEF FlattenSeq, Flattens
<1>2. Flattens(flatten, ss, Len(ss))
  BY FlattenExists
<1>. QED BY <1>1, <1>2

(* The empty list.                                                           *)
LEMMA EmptyList == \A T : \A e : e = <<>> => e \in Seq(T) /\ DOMAIN e = {}
  OBVIOUS

(* A list with one element more.                                             *)
LEMMA Appended ==
  ASSUME NEW T, NEW s \in Seq(T), NEW x \in T
  PROVE  LET t == Append(s, x)
         IN /\ t \in Seq(T) /\ DOMAIN t = DOMAIN s \cup {Len(s) + 1}
            /\ Len(s) + 1 \notin DOMAIN s /\ t[Len(s) + 1] = x
            /\ \A i \in DOMAIN s : t[i] = s[i]
  OBVIOUS

(* The part of a list made of one of its elements.                           *)
LEMMA PartType == \A T, S : \A x \in T : (IF x \in S THEN <<x>> ELSE <<>>) \in Seq(T)
  OBVIOUS

(* No lists flatten to no list.                                              *)
LEMMA FlattenEmpty == \A e : e = <<>> => FlattenSeq(e) = e
  BY DEF FlattenSeq

(* One list more is added at the end of what was flattened.                  *)
LEMMA FlattenAppend ==
  ASSUME NEW T, NEW ss \in Seq(Seq(T)), NEW s \in Seq(T)
  PROVE  FlattenSeq(Append(ss, s)) = FlattenSeq(ss) \o s
<1>. DEFINE tt == Append(ss, s)
            n == Len(ss)
<1>0. n \in Nat /\ Len(tt) = n + 1 /\ tt[n + 1] = s /\ \A i \in 1..n : tt[i] = ss[i]
  OBVIOUS
<1>1. PICK f : Flattens(f, tt, n + 1) /\ FlattenSeq(tt) = f[n + 1]
  <2>. HIDE DEF tt
  <2>. QED BY <1>0, FlattenIs
<1>. HIDE DEF tt
<1>2. f[n + 1] = IF n + 1 = 1 THEN s ELSE f[n] \o s
  <2>1. \A i \in 1..n + 1 : f[i] = IF i = 1 THEN tt[i] ELSE f[i - 1] \o tt[i]
    BY <1>1 DEF Flattens
  <2>2. n + 1 \in 1..n + 1 /\ (n + 1) - 1 = n BY <1>0
  <2>. QED BY <1>0, <2>1, <2>2, Zenon
<1>3. CASE n = 0
  <2>1. ss = <<>> BY <1>3
  <2>2. FlattenSeq(ss) \o s = s BY <2>1, FlattenEmpty
  <2>3. FlattenSeq(tt) = s
    <3>. HIDE DEF n
    <3>. QED BY <1>1, <1>2, <1>3
  <2>. QED BY <2>2, <2>3 DEF tt
<1>4. CASE n # 0
  <2>1. PICK g : Flattens(g, ss, n) /\ FlattenSeq(ss) = g[n]
    BY <1>0, <1>4, FlattenIs
  <2>. DEFINE S == {k \in Nat : k \in 1..n => f[k] = g[k]}
  <2>2. 0 \in S OBVIOUS
  <2>3. ASSUME NEW k \in Nat, k \in S PROVE k + 1 \in S
    <3>1. \A i \in 1..n : g[i] = IF i = 1 THEN ss[i] ELSE g[i - 1] \o ss[i] BY <2>1 DEF Flattens
    <3>2. \A i \in 1..n + 1 : f[i] = IF i = 1 THEN tt[i] ELSE f[i - 1] \o tt[i] BY <1>1 DEF Flattens
    <3>3. SUFFICES ASSUME k + 1 \in 1..n PROVE f[k + 1] = g[k + 1] OBVIOUS
    <3>4. k + 1 \in 1..n + 1 /\ (k + 1) - 1 = k /\ tt[k + 1] = ss[k + 1] BY <1>0, <3>3
    <3>5. CASE k = 0 BY <3>1, <3>2, <3>3, <3>4, <3>5
    <3>6. CASE k # 0
      <4>1. f[k] = g[k] BY <2>3, <3>3, <3>6
      <4>2. k + 1 # 1 BY <3>6
      <4>3. f[k + 1] = f[k] \o tt[k + 1] BY <3>2, <3>4, <4>2, Zenon
      <4>4. g[k + 1] = g[k] \o ss[k + 1] BY <3>1, <3>3, <3>4, <4>2, Zenon
      <4>. QED BY <3>4, <4>1, <4>3, <4>4
    <3>. QED BY <3>5, <3>6
  <2>4. Nat \subseteq S
    <3>. HIDE DEF S
    <3>. QED BY <2>2, <2>3, NaturalInduction
  <2>5. f[n] = g[n] BY <1>0, <1>4, <2>4
  <2>. QED BY <1>0, <1>1, <1>2, <1>4, <2>1, <2>5 DEF tt
<1>. QED BY <1>3, <1>4

(* Lists of elements of T flatten to a list of elements of T.                *)
LEMMA FlattenType ==
  ASSUME NEW T
  PROVE  \A ss \in Seq(Seq(T)) : FlattenSeq(ss) \in Seq(T)
<1>. DEFINE P == {ss \in Seq(Seq(T)) : FlattenSeq(ss) \in Seq(T)}
<1>1. \A e \in Seq(Seq(T)) : e = <<>> => e \in P BY FlattenEmpty, EmptyList
<1>2. ASSUME NEW ss \in Seq(Seq(T)), NEW s \in Seq(T), ss \in P PROVE Append(ss, s) \in P
  <2>1. FlattenSeq(Append(ss, s)) = FlattenSeq(ss) \o s BY FlattenAppend
  <2>2. FlattenSeq(ss) \o s \in Seq(T) BY <1>2
  <2>3. Append(ss, s) \in Seq(Seq(T)) OBVIOUS
  <2>. QED BY <2>1, <2>2, <2>3
<1>. HIDE DEF P
<1>3. Seq(Seq(T)) \subseteq P BY <1>1, <1>2, SequenceInduction
<1>. QED BY <1>3 DEF P

(* Flattening two lists of lists, one after the other.                       *)
LEMMA FlattenConcat ==
  ASSUME NEW T, NEW ss \in Seq(Seq(T))
  PROVE  \A tt \in Seq(Seq(T)) : FlattenSeq(ss \o tt) = FlattenSeq(ss) \o FlattenSeq(tt)
<1>. DEFINE P == {tt \in Seq(Seq(T)) : FlattenSeq(ss \o tt) = FlattenSeq(ss) \o FlattenSeq(tt)}
<1>0. FlattenSeq(ss) \in Seq(T) BY FlattenType
<1>1. ASSUME NEW e \in Seq(Seq(T)), e = <<>> PROVE e \in P
  <2>1. ss \o e = ss /\ FlattenSeq(ss) \o e = FlattenSeq(ss) BY <1>0, <1>1
  <2>2. FlattenSeq(e) = e BY <1>1, FlattenEmpty
  <2>. QED BY <2>1, <2>2
<1>2. ASSUME NEW tt \in Seq(Seq(T)), NEW s \in Seq(T), tt \in P PROVE Append(tt, s) \in P
  <2>1. ss \o Append(tt, s) = Append(ss \o tt, s) /\ ss \o tt \in Seq(Seq(T)) OBVIOUS
  <2>2. FlattenSeq(Append(ss \o tt, s)) = FlattenSeq(ss \o tt) \o s BY <2>1, FlattenAppend
  <2>3. FlattenSeq(Append(tt, s)) = FlattenSeq(tt) \o s BY FlattenAppend
  <2>4. FlattenSeq(tt) \in Seq(T) BY FlattenType
  <2>5. (FlattenSeq(ss) \o FlattenSeq(tt)) \o s = FlattenSeq(ss) \o (FlattenSeq(tt) \o s)
    BY <1>0, <2>4
  <2>6. Append(tt, s) \in Seq(Seq(T)) OBVIOUS
  <2>7. FlattenSeq(ss \o tt) = FlattenSeq(ss) \o FlattenSeq(tt) BY <1>2
  <2>8. FlattenSeq(ss \o Append(tt, s)) = FlattenSeq(ss) \o FlattenSeq(Append(tt, s))
    BY <2>1, <2>2, <2>3, <2>5, <2>7
  <2>. QED BY <2>6, <2>8
<1>. HIDE DEF P
<1>3. Seq(Seq(T)) \subseteq P BY <1>1, <1>2, SequenceInduction
<1>. QED BY <1>3 DEF P

(* Empty lists flatten to the empty list.                                    *)
LEMMA FlattenNone ==
  ASSUME NEW T
  PROVE  \A ss \in Seq(Seq(T)) : (\A i \in DOMAIN ss : ss[i] = <<>>) => FlattenSeq(ss) = <<>>
<1>. DEFINE P == {ss \in Seq(Seq(T)) : (\A i \in DOMAIN ss : ss[i] = <<>>) => FlattenSeq(ss) = <<>>}
<1>1. \A e \in Seq(Seq(T)) : e = <<>> => e \in P BY FlattenEmpty
<1>2. ASSUME NEW ss \in Seq(Seq(T)), NEW s \in Seq(T), ss \in P PROVE Append(ss, s) \in P
  <2>1. FlattenSeq(Append(ss, s)) = FlattenSeq(ss) \o s BY FlattenAppend
  <2>2. SUFFICES ASSUME \A i \in DOMAIN Append(ss, s) : Append(ss, s)[i] = <<>>
                 PROVE  FlattenSeq(Append(ss, s)) = <<>>
    BY Appended
  <2>3. s = <<>> /\ \A i \in DOMAIN ss : ss[i] = <<>> BY <2>2, Appended
  <2>4. FlattenSeq(ss) = <<>> BY <1>2, <2>3
  <2>. QED BY <2>1, <2>3, <2>4
<1>. HIDE DEF P
<1>3. Seq(Seq(T)) \subseteq P BY <1>1, <1>2, SequenceInduction
<1>. QED BY <1>3 DEF P

(* When all the lists but one are empty, that one is what they flatten to.   *)
LEMMA FlattenOne ==
  ASSUME NEW T
  PROVE  \A ss \in Seq(Seq(T)) : \A j \in DOMAIN ss :
           (\A i \in DOMAIN ss : i # j => ss[i] = <<>>) => FlattenSeq(ss) = ss[j]
<1>. DEFINE P == {ss \in Seq(Seq(T)) : \A j \in DOMAIN ss :
                    (\A i \in DOMAIN ss : i # j => ss[i] = <<>>) => FlattenSeq(ss) = ss[j]}
<1>1. \A e \in Seq(Seq(T)) : e = <<>> => e \in P OBVIOUS
<1>2. ASSUME NEW ss \in Seq(Seq(T)), NEW s \in Seq(T), ss \in P PROVE Append(ss, s) \in P
  <2>. DEFINE tt == Append(ss, s)
  <2>1. FlattenSeq(tt) = FlattenSeq(ss) \o s BY FlattenAppend
  <2>2. SUFFICES ASSUME NEW j \in DOMAIN tt, \A i \in DOMAIN tt : i # j => tt[i] = <<>>
                 PROVE  FlattenSeq(tt) = tt[j]
    BY Appended
  <2>3. DOMAIN tt = DOMAIN ss \cup {Len(ss) + 1} /\ tt[Len(ss) + 1] = s
        /\ (\A i \in DOMAIN ss : tt[i] = ss[i] /\ i # Len(ss) + 1)
    BY Appended
  <2>. HIDE DEF tt
  <2>4. CASE j = Len(ss) + 1
    <3>1. \A i \in DOMAIN ss : ss[i] = <<>> BY <2>2, <2>3, <2>4
    <3>2. FlattenSeq(ss) = <<>> BY <3>1, FlattenNone
    <3>. QED BY <2>1, <2>3, <2>4, <3>2
  <2>5. CASE j \in DOMAIN ss
    <3>1. s = <<>> /\ \A i \in DOMAIN ss : i # j => ss[i] = <<>> BY <2>2, <2>3, <2>5
    <3>2. FlattenSeq(ss) = ss[j] BY <1>2, <2>5, <3>1
    <3>. QED BY <2>1, <2>3, <2>5, <3>1, <3>2
  <2>. QED BY <2>3, <2>4, <2>5
<1>. HIDE DEF P
<1>3. Seq(Seq(T)) \subseteq P BY <1>1, <1>2, SequenceInduction
<1>. QED BY <1>3 DEF P

-----------------------------------------------------------------------------
(* Among *)
LEMMA AmongParts ==
  ASSUME NEW T, NEW s \in Seq(T), NEW S
  PROVE  LET parts == [i \in DOMAIN s |-> IF s[i] \in S THEN <<s[i]>> ELSE <<>>]
         IN parts \in Seq(Seq(T)) /\ Len(parts) = Len(s)
<1>1. \A i \in DOMAIN s : (IF s[i] \in S THEN <<s[i]>> ELSE <<>>) \in Seq(T)
  BY PartType
<1>. DEFINE g == [i \in DOMAIN s |-> IF s[i] \in S THEN <<s[i]>> ELSE <<>>]
<1>2. g \in [1..Len(s) -> Seq(T)] BY <1>1
<1>. HIDE DEF g
<1>3. g \in Seq(Seq(T)) /\ Len(g) = Len(s) BY <1>2
<1>. QED BY <1>3 DEF g

(* Nothing is picked from the empty list.                                    *)
LEMMA AmongEmpty == \A e, S : e = <<>> => Among(e, S) = e
<1>1. SUFFICES ASSUME NEW e, NEW S, e = <<>> PROVE Among(e, S) = e OBVIOUS
<1>2. [i \in DOMAIN e |-> IF e[i] \in S THEN <<e[i]>> ELSE <<>>] = e BY <1>1
<1>. QED BY <1>1, <1>2, FlattenEmpty DEF Among

(* One element more is picked or not.                                        *)
LEMMA AmongAppend ==
  ASSUME NEW T, NEW s \in Seq(T), NEW x \in T, NEW S
  PROVE  Among(Append(s, x), S) = Among(s, S) \o (IF x \in S THEN <<x>> ELSE <<>>)
<1>. DEFINE parts == [i \in DOMAIN s |-> IF s[i] \in S THEN <<s[i]>> ELSE <<>>]
            last == IF x \in S THEN <<x>> ELSE <<>>
            t == Append(s, x)
            all == [i \in DOMAIN t |-> IF t[i] \in S THEN <<t[i]>> ELSE <<>>]
<1>1. parts \in Seq(Seq(T)) /\ last \in Seq(T) /\ Len(parts) = Len(s)
  <2>1. parts \in Seq(Seq(T)) /\ Len(parts) = Len(s) BY AmongParts
  <2>2. last \in Seq(T) BY PartType
  <2>. QED BY <2>1, <2>2
<1>2. all = Append(parts, last)
  <2>0. t \in Seq(T) /\ Len(t) = Len(s) + 1 OBVIOUS
  <2>1. all \in Seq(Seq(T)) /\ Len(all) = Len(s) + 1
    <3>. HIDE DEF t
    <3>. QED BY <2>0, AmongParts
  <2>2. \A i \in 1..Len(s) + 1 : all[i] = Append(parts, last)[i]
    <3>1. \A i \in 1..Len(s) : all[i] = parts[i] OBVIOUS
    <3>2. all[Len(s) + 1] = last OBVIOUS
    <3>. HIDE DEF all, parts, last
    <3>3. \A i \in 1..Len(s) : Append(parts, last)[i] = parts[i] BY <1>1
    <3>4. Append(parts, last)[Len(s) + 1] = last BY <1>1
    <3>5. \A i \in 1..Len(s) + 1 : i \in 1..Len(s) \/ i = Len(s) + 1 OBVIOUS
    <3>. QED BY <3>1, <3>2, <3>3, <3>4, <3>5, Zenon
  <2>. HIDE DEF all, parts, last
  <2>. QED BY <1>1, <2>1, <2>2
<1>3. FlattenSeq(all) = FlattenSeq(parts) \o last
  <2>. HIDE DEF all, parts, last
  <2>. QED BY <1>1, <1>2, FlattenAppend
<1>. QED BY <1>3 DEF Among

(* What is picked is of the list's type and of the set it is picked by.      *)
LEMMA AmongType ==
  ASSUME NEW T, NEW S
  PROVE  \A s \in Seq(T) : Among(s, S) \in Seq(T) /\ Among(s, S) \in Seq(T \cap S)
<1>. DEFINE P == {s \in Seq(T) : Among(s, S) \in Seq(T) /\ Among(s, S) \in Seq(T \cap S)}
<1>1. \A e \in Seq(T) : e = <<>> => e \in P BY AmongEmpty, EmptyList
<1>2. ASSUME NEW s \in Seq(T), NEW x \in T, s \in P PROVE Append(s, x) \in P
  <2>1. Among(Append(s, x), S) = Among(s, S) \o (IF x \in S THEN <<x>> ELSE <<>>) BY AmongAppend
  <2>2. Append(s, x) \in Seq(T) OBVIOUS
  <2>3. Among(s, S) \in Seq(T) /\ Among(s, S) \in Seq(T \cap S) BY <1>2
  <2>4. CASE x \in S
    <3>1. <<x>> \in Seq(T) /\ <<x>> \in Seq(T \cap S) BY <2>4
    <3>2. Among(s, S) \o <<x>> \in Seq(T) /\ Among(s, S) \o <<x>> \in Seq(T \cap S) BY <2>3, <3>1
    <3>. QED BY <2>1, <2>2, <2>4, <3>2
  <2>5. CASE x \notin S
    <3>1. Among(s, S) \o <<>> = Among(s, S) BY <2>3
    <3>. QED BY <2>1, <2>2, <2>3, <2>5, <3>1
  <2>. QED BY <2>4, <2>5
<1>. HIDE DEF P
<1>3. Seq(T) \subseteq P BY <1>1, <1>2, SequenceInduction
<1>. QED BY <1>3 DEF P

(* Picking from two lists, one after the other.                              *)
LEMMA AmongConcat ==
  ASSUME NEW T, NEW S, NEW s \in Seq(T)
  PROVE  \A t \in Seq(T) : Among(s \o t, S) = Among(s, S) \o Among(t, S)
<1>. DEFINE P == {t \in Seq(T) : Among(s \o t, S) = Among(s, S) \o Among(t, S)}
<1>0. Among(s, S) \in Seq(T) BY AmongType
<1>1. ASSUME NEW e \in Seq(T), e = <<>> PROVE e \in P
  <2>1. s \o e = s /\ Among(s, S) \o e = Among(s, S) BY <1>0, <1>1
  <2>2. Among(e, S) = e BY <1>1, AmongEmpty
  <2>. QED BY <2>1, <2>2
<1>2. ASSUME NEW t \in Seq(T), NEW x \in T, t \in P PROVE Append(t, x) \in P
  <2>. DEFINE last == IF x \in S THEN <<x>> ELSE <<>>
  <2>1. s \o Append(t, x) = Append(s \o t, x) /\ s \o t \in Seq(T) OBVIOUS
  <2>2. Among(Append(s \o t, x), S) = Among(s \o t, S) \o last BY <2>1, AmongAppend
  <2>3. Among(Append(t, x), S) = Among(t, S) \o last BY AmongAppend
  <2>4. Among(t, S) \in Seq(T) /\ last \in Seq(T) BY AmongType, PartType
  <2>. HIDE DEF last
  <2>5. (Among(s, S) \o Among(t, S)) \o last = Among(s, S) \o (Among(t, S) \o last)
    BY <1>0, <2>4
  <2>6. Append(t, x) \in Seq(T) OBVIOUS
  <2>7. Among(s \o t, S) = Among(s, S) \o Among(t, S) BY <1>2
  <2>8. Among(s \o Append(t, x), S) = Among(s, S) \o Among(Append(t, x), S)
    BY <2>1, <2>2, <2>3, <2>5, <2>7
  <2>. QED BY <2>6, <2>8
<1>. HIDE DEF P
<1>3. Seq(T) \subseteq P BY <1>1, <1>2, SequenceInduction
<1>. QED BY <1>3 DEF P

(* Nothing is picked when no element is in the set.                          *)
LEMMA AmongNone ==
  ASSUME NEW T, NEW S, NEW s \in Seq(T), \A i \in DOMAIN s : s[i] \notin S
  PROVE  Among(s, S) = <<>>
<1>. DEFINE parts == [i \in DOMAIN s |-> IF s[i] \in S THEN <<s[i]>> ELSE <<>>]
<1>1. parts \in Seq(Seq(T)) BY AmongParts
<1>2. \A i \in DOMAIN parts : parts[i] = <<>> OBVIOUS
<1>3. FlattenSeq(parts) = <<>>
  <2>. HIDE DEF parts
  <2>. QED BY <1>1, <1>2, FlattenNone
<1>. QED BY <1>3 DEF Among

(* Everything is picked when every element is in the set.                    *)
LEMMA AmongAll ==
  ASSUME NEW T, NEW S
  PROVE  \A s \in Seq(T) : (\A i \in DOMAIN s : s[i] \in S) => Among(s, S) = s
<1>. DEFINE P == {s \in Seq(T) : (\A i \in DOMAIN s : s[i] \in S) => Among(s, S) = s}
<1>1. \A e \in Seq(T) : e = <<>> => e \in P BY AmongEmpty
<1>2. ASSUME NEW s \in Seq(T), NEW x \in T, s \in P PROVE Append(s, x) \in P
  <2>1. SUFFICES ASSUME \A i \in DOMAIN Append(s, x) : Append(s, x)[i] \in S
                 PROVE  Among(Append(s, x), S) = Append(s, x)
    BY Appended
  <2>2. x \in S /\ \A i \in DOMAIN s : s[i] \in S BY <2>1, Appended
  <2>3. Among(s, S) = s BY <1>2, <2>2
  <2>4. Among(Append(s, x), S) = s \o <<x>> BY <2>2, <2>3, AmongAppend
  <2>. QED BY <2>4
<1>. HIDE DEF P
<1>3. Seq(T) \subseteq P BY <1>1, <1>2, SequenceInduction
<1>. QED BY <1>3 DEF P

(* Two sets that agree on a list pick the same from it.                      *)
LEMMA AmongSame ==
  ASSUME NEW s, NEW S, NEW R, \A i \in DOMAIN s : s[i] \in S <=> s[i] \in R
  PROVE  Among(s, S) = Among(s, R)
<1>1. [i \in DOMAIN s |-> IF s[i] \in S THEN <<s[i]>> ELSE <<>>]
        = [i \in DOMAIN s |-> IF s[i] \in R THEN <<s[i]>> ELSE <<>>]
  OBVIOUS
<1>. QED BY <1>1 DEF Among

-----------------------------------------------------------------------------
(* Mapped *)
Mapped(g, s) == [i \in DOMAIN s |-> g[s[i]]]

(* A mapped list: its type, its length and its positions.                    *)
LEMMA MappedType ==
  ASSUME NEW T, NEW U, NEW g \in [T -> U], NEW s \in Seq(T)
  PROVE  Mapped(g, s) \in Seq(U) /\ Len(Mapped(g, s)) = Len(s) /\ DOMAIN Mapped(g, s) = DOMAIN s
  BY DEF Mapped

(* One element more is mapped at the end.                                    *)
LEMMA MappedAppend ==
  ASSUME NEW T, NEW g, NEW s \in Seq(T), NEW x \in T
  PROVE  Mapped(g, Append(s, x)) = Append(Mapped(g, s), g[x])
<1>. DEFINE U == {g[y] : y \in T}
            t == Append(s, x)
            m == Mapped(g, s)
            lhs == Mapped(g, t)
            rhs == Append(m, g[x])
<1>1. t \in Seq(T) /\ Len(t) = Len(s) + 1 /\ t[Len(s) + 1] = x /\ \A i \in 1..Len(s) : t[i] = s[i]
  OBVIOUS
<1>2. m \in Seq(U) /\ Len(m) = Len(s) /\ g[x] \in U
  <2>1. m \in Seq(U) /\ Len(m) = Len(s) BY DEF Mapped
  <2>2. g[x] \in U OBVIOUS
  <2>. QED BY <2>1, <2>2
<1>3. \A i \in 1..Len(s) : m[i] = g[s[i]] BY DEF Mapped
<1>4. rhs \in Seq(U) /\ Len(rhs) = Len(s) + 1 /\ rhs[Len(s) + 1] = g[x]
          /\ \A i \in 1..Len(s) : rhs[i] = m[i]
  <2>. HIDE DEF m
  <2>. QED BY <1>2
<1>5. lhs \in Seq(U) /\ Len(lhs) = Len(s) + 1
  <2>. HIDE DEF t
  <2>1. DOMAIN lhs = 1..Len(s) + 1 /\ lhs = [i \in 1..Len(s) + 1 |-> lhs[i]] BY <1>1 DEF Mapped
  <2>2. \A i \in 1..Len(s) + 1 : lhs[i] \in U BY <1>1 DEF Mapped
  <2>. HIDE DEF lhs, U
  <2>. QED BY <2>1, <2>2
<1>6. \A i \in 1..Len(s) + 1 : lhs[i] = g[t[i]]
  <2>. HIDE DEF t
  <2>. QED BY <1>1 DEF Mapped
<1>7. \A i \in 1..Len(s) + 1 : i \in 1..Len(s) \/ i = Len(s) + 1 OBVIOUS
<1>. HIDE DEF t, m, lhs, rhs
<1>8. \A i \in 1..Len(s) + 1 : lhs[i] = rhs[i]
  BY <1>1, <1>3, <1>4, <1>6, <1>7
<1>9. lhs = rhs BY <1>4, <1>5, <1>8
<1>. QED BY <1>9 DEF lhs, rhs, t, m

(* Mapping two lists, one after the other.                                   *)
LEMMA MappedConcat ==
  ASSUME NEW T, NEW g, NEW s \in Seq(T)
  PROVE  \A t \in Seq(T) : Mapped(g, s \o t) = Mapped(g, s) \o Mapped(g, t)
<1>. SUFFICES ASSUME NEW t \in Seq(T) PROVE Mapped(g, s \o t) = Mapped(g, s) \o Mapped(g, t)
  OBVIOUS
<1>. DEFINE U == {g[x] : x \in T}
            st == s \o t
            lhs == Mapped(g, st)
            ms == Mapped(g, s)
            mt == Mapped(g, t)
            rhs == ms \o mt
            n == Len(s) + Len(t)
<1>1. st \in Seq(T) /\ Len(st) = n /\ \A i \in 1..n : st[i] = IF i <= Len(s) THEN s[i] ELSE t[i - Len(s)]
  OBVIOUS
<1>2. ms \in Seq(U) /\ Len(ms) = Len(s) /\ mt \in Seq(U) /\ Len(mt) = Len(t)
  <2>1. ms \in Seq(U) /\ Len(ms) = Len(s) BY DEF Mapped
  <2>2. mt \in Seq(U) /\ Len(mt) = Len(t) BY DEF Mapped
  <2>. QED BY <2>1, <2>2
<1>3. (\A i \in 1..Len(s) : ms[i] = g[s[i]]) /\ (\A i \in 1..Len(t) : mt[i] = g[t[i]]) BY DEF Mapped
<1>4. rhs \in Seq(U) /\ Len(rhs) = n /\ \A i \in 1..n : rhs[i] = IF i <= Len(s) THEN ms[i] ELSE mt[i - Len(s)]
  <2>. HIDE DEF ms, mt
  <2>1. rhs \in Seq(U) /\ Len(rhs) = n BY <1>2
  <2>2. \A i \in 1..n : rhs[i] = IF i <= Len(ms) THEN ms[i] ELSE mt[i - Len(ms)] BY <1>2
  <2>. QED BY <1>2, <2>1, <2>2
<1>5. lhs \in Seq(U) /\ Len(lhs) = n /\ \A i \in 1..n : lhs[i] = g[st[i]]
  <2>. HIDE DEF st
  <2>0. st \in Seq(T) /\ Len(st) = n BY <1>1
  <2>1. lhs \in Seq(U) /\ Len(lhs) = n
    <3>1. DOMAIN lhs = 1..n /\ \A i \in 1..n : lhs[i] \in U BY <2>0 DEF Mapped
    <3>2. lhs = [i \in 1..n |-> lhs[i]] BY <2>0 DEF Mapped
    <3>. HIDE DEF lhs
    <3>. QED BY <3>1, <3>2 DEF n
  <2>2. \A i \in 1..n : lhs[i] = g[st[i]] BY <1>1 DEF Mapped
  <2>. QED BY <2>1, <2>2
<1>6. \A i \in 1..n : (i <= Len(s) => i \in 1..Len(s)) /\ (~(i <= Len(s)) => i - Len(s) \in 1..Len(t))
  OBVIOUS
<1>7. \A i \in 1..n : lhs[i] = rhs[i]
  <2>. HIDE DEF st, lhs, ms, mt, rhs, n
  <2>1. SUFFICES ASSUME NEW i \in 1..n PROVE lhs[i] = rhs[i] OBVIOUS
  <2>2. CASE i <= Len(s)
    <3>1. lhs[i] = g[s[i]] BY <1>1, <1>5, <2>2
    <3>2. rhs[i] = ms[i] /\ ms[i] = g[s[i]] BY <1>3, <1>4, <1>6, <2>2
    <3>. QED BY <3>1, <3>2
  <2>3. CASE ~(i <= Len(s))
    <3>1. lhs[i] = g[t[i - Len(s)]] BY <1>1, <1>5, <2>3
    <3>2. rhs[i] = mt[i - Len(s)] /\ mt[i - Len(s)] = g[t[i - Len(s)]] BY <1>3, <1>4, <1>6, <2>3
    <3>. QED BY <3>1, <3>2
  <2>. QED BY <2>2, <2>3
<1>. HIDE DEF st, lhs, ms, mt, rhs
<1>8. lhs = rhs BY <1>4, <1>5, <1>7
<1>. QED BY <1>8 DEF lhs, rhs, st, ms, mt

(* Each part of a flattened list mapped, or filtered, on its own.            *)
EachMapped(T, g) == [s \in Seq(T) |-> Mapped(g, s)]
EachAmong(T, S) == [s \in Seq(T) |-> Among(s, S)]
Image(T, g) == {g[x] : x \in T}
Chosen(T, g, S) == {x \in T : g[x] \in S}

(* Mapping what was flattened is flattening what was mapped.                 *)
LEMMA MappedFlatten ==
  ASSUME NEW T, NEW g, g \in [T -> Image(T, g)]
  PROVE  \A ss \in Seq(Seq(T)) :
           /\ Mapped(EachMapped(T, g), ss) \in Seq(Seq(Image(T, g)))
           /\ Mapped(g, FlattenSeq(ss)) = FlattenSeq(Mapped(EachMapped(T, g), ss))
<1>. DEFINE U == Image(T, g)
            h == [s \in Seq(T) |-> Mapped(g, s)]
            P == {ss \in Seq(Seq(T)) : Mapped(g, FlattenSeq(ss)) = FlattenSeq(Mapped(h, ss))}
<1>1. h \in [Seq(T) -> Seq(U)] BY MappedType
<1>2. h = EachMapped(T, g) BY DEF EachMapped
<1>3. ASSUME NEW e \in Seq(Seq(T)), e = <<>> PROVE e \in P
  <2>1. Mapped(h, e) = e /\ Mapped(g, e) = e BY <1>3 DEF Mapped
  <2>2. FlattenSeq(e) = e BY <1>3, FlattenEmpty
  <2>. QED BY <2>1, <2>2
<1>4. ASSUME NEW ss \in Seq(Seq(T)), NEW s \in Seq(T), ss \in P PROVE Append(ss, s) \in P
  <2>. HIDE DEF h
  <2>1. FlattenSeq(Append(ss, s)) = FlattenSeq(ss) \o s /\ FlattenSeq(ss) \in Seq(T)
    BY FlattenAppend, FlattenType
  <2>2. Mapped(g, FlattenSeq(ss) \o s) = Mapped(g, FlattenSeq(ss)) \o Mapped(g, s)
    <3>. DEFINE flat == FlattenSeq(ss)
    <3>1. flat \in Seq(T) BY <2>1
    <3>. HIDE DEF flat
    <3>2. Mapped(g, flat \o s) = Mapped(g, flat) \o Mapped(g, s) BY <3>1, MappedConcat
    <3>. QED BY <3>2 DEF flat
  <2>3. Mapped(h, Append(ss, s)) = Append(Mapped(h, ss), h[s]) BY <1>1, MappedAppend
  <2>4. Mapped(h, ss) \in Seq(Seq(U)) /\ h[s] \in Seq(U) BY <1>1, MappedType
  <2>5. FlattenSeq(Append(Mapped(h, ss), h[s])) = FlattenSeq(Mapped(h, ss)) \o h[s]
    BY <2>4, FlattenAppend
  <2>6. h[s] = Mapped(g, s) BY DEF h
  <2>7. Append(ss, s) \in Seq(Seq(T)) OBVIOUS
  <2>. QED BY <1>4, <2>1, <2>2, <2>3, <2>5, <2>6, <2>7
<1>5. Seq(Seq(T)) \subseteq P
  <2>. HIDE DEF P
  <2>. QED BY <1>3, <1>4, SequenceInduction
<1>6. \A ss \in Seq(Seq(T)) : Mapped(h, ss) \in Seq(Seq(U))
  <2>. HIDE DEF h
  <2>. QED BY <1>1, MappedType
<1>. QED BY <1>2, <1>5, <1>6

(* Picking from what was flattened is flattening what was picked.            *)
LEMMA AmongFlatten ==
  ASSUME NEW T, NEW S
  PROVE  \A ss \in Seq(Seq(T)) :
           /\ Mapped(EachAmong(T, S), ss) \in Seq(Seq(T))
           /\ Among(FlattenSeq(ss), S) = FlattenSeq(Mapped(EachAmong(T, S), ss))
<1>. DEFINE h == [s \in Seq(T) |-> Among(s, S)]
            P == {ss \in Seq(Seq(T)) : Among(FlattenSeq(ss), S) = FlattenSeq(Mapped(h, ss))}
<1>1. h \in [Seq(T) -> Seq(T)] BY AmongType
<1>2. h = EachAmong(T, S) BY DEF EachAmong
<1>3. ASSUME NEW e \in Seq(Seq(T)), e = <<>> PROVE e \in P
  <2>1. Mapped(h, e) = e /\ Among(e, S) = e BY <1>3, AmongEmpty DEF Mapped
  <2>2. FlattenSeq(e) = e BY <1>3, FlattenEmpty
  <2>. QED BY <2>1, <2>2
<1>4. ASSUME NEW ss \in Seq(Seq(T)), NEW s \in Seq(T), ss \in P PROVE Append(ss, s) \in P
  <2>. HIDE DEF h
  <2>1. FlattenSeq(Append(ss, s)) = FlattenSeq(ss) \o s /\ FlattenSeq(ss) \in Seq(T)
    BY FlattenAppend, FlattenType
  <2>2. Among(FlattenSeq(ss) \o s, S) = Among(FlattenSeq(ss), S) \o Among(s, S) BY <2>1, AmongConcat
  <2>3. Mapped(h, Append(ss, s)) = Append(Mapped(h, ss), h[s]) BY <1>1, MappedAppend
  <2>4. Mapped(h, ss) \in Seq(Seq(T)) /\ h[s] \in Seq(T) BY <1>1, MappedType
  <2>5. FlattenSeq(Append(Mapped(h, ss), h[s])) = FlattenSeq(Mapped(h, ss)) \o h[s]
    BY <2>4, FlattenAppend
  <2>6. h[s] = Among(s, S) BY DEF h
  <2>7. Append(ss, s) \in Seq(Seq(T)) OBVIOUS
  <2>. QED BY <1>4, <2>1, <2>2, <2>3, <2>5, <2>6, <2>7
<1>5. Seq(Seq(T)) \subseteq P
  <2>. HIDE DEF P
  <2>. QED BY <1>3, <1>4, SequenceInduction
<1>6. \A ss \in Seq(Seq(T)) : Mapped(h, ss) \in Seq(Seq(T))
  <2>. HIDE DEF h
  <2>. QED BY <1>1, MappedType
<1>. QED BY <1>2, <1>5, <1>6

(* Picking from a mapped list is mapping what was picked from the list.      *)
LEMMA AmongMapped ==
  ASSUME NEW T, NEW U, NEW g \in [T -> U], NEW S
  PROVE  \A s \in Seq(T) : Among(Mapped(g, s), S) = Mapped(g, Among(s, Chosen(T, g, S)))
<1>. DEFINE R == {x \in T : g[x] \in S}
            P == {s \in Seq(T) : Among(Mapped(g, s), S) = Mapped(g, Among(s, R))}
<1>1. ASSUME NEW e \in Seq(T), e = <<>> PROVE e \in P
  <2>1. Mapped(g, e) = e BY <1>1 DEF Mapped
  <2>2. Among(e, S) = e /\ Among(e, R) = e BY <1>1, AmongEmpty
  <2>. QED BY <2>1, <2>2
<1>2. ASSUME NEW s \in Seq(T), NEW x \in T, s \in P PROVE Append(s, x) \in P
  <2>. HIDE DEF R
  <2>1. Mapped(g, Append(s, x)) = Append(Mapped(g, s), g[x]) /\ Mapped(g, s) \in Seq(U) /\ g[x] \in U
    BY MappedAppend, MappedType
  <2>2. Among(Append(Mapped(g, s), g[x]), S) = Among(Mapped(g, s), S) \o (IF g[x] \in S THEN <<g[x]>> ELSE <<>>)
    BY <2>1, AmongAppend
  <2>3. Among(Append(s, x), R) = Among(s, R) \o (IF x \in R THEN <<x>> ELSE <<>>) BY AmongAppend
  <2>4. Among(s, R) \in Seq(T) /\ Among(Mapped(g, s), S) \in Seq(U) BY <2>1, AmongType
  <2>5. x \in R <=> g[x] \in S BY DEF R
  <2>6. Append(s, x) \in Seq(T) OBVIOUS
  <2>7. Among(Mapped(g, s), S) = Mapped(g, Among(s, R)) BY <1>2
  <2>8. CASE x \in R
    <3>1. Among(s, R) \o <<x>> = Append(Among(s, R), x) BY <2>4
    <3>2. Mapped(g, Append(Among(s, R), x)) = Append(Mapped(g, Among(s, R)), g[x]) BY <2>4, MappedAppend
    <3>3. Among(Mapped(g, s), S) \o <<g[x]>> = Append(Among(Mapped(g, s), S), g[x]) BY <2>1, <2>4
    <3>4. Among(Mapped(g, Append(s, x)), S) = Mapped(g, Among(Append(s, x), R))
      BY <2>1, <2>2, <2>3, <2>5, <2>7, <2>8, <3>1, <3>2, <3>3
    <3>. QED BY <2>6, <3>4
  <2>9. CASE x \notin R
    <3>1. Among(s, R) \o <<>> = Among(s, R) /\ Among(Mapped(g, s), S) \o <<>> = Among(Mapped(g, s), S)
      BY <2>4
    <3>2. Among(Mapped(g, Append(s, x)), S) = Mapped(g, Among(Append(s, x), R))
      BY <2>1, <2>2, <2>3, <2>5, <2>7, <2>9, <3>1
    <3>. QED BY <2>6, <3>2
  <2>. QED BY <2>8, <2>9
<1>. HIDE DEF P
<1>3. Seq(T) \subseteq P BY <1>1, <1>2, SequenceInduction
<1>. QED BY <1>3 DEF P, Chosen

(* The last of the elements that are in S.                                   *)
LEMMA LastAmong ==
  ASSUME NEW T, NEW S
  PROVE  \A s \in Seq(T) : \A j \in DOMAIN s :
           s[j] \in S /\ (\A i \in DOMAIN s : s[i] \in S => i <= j)
             => Among(s, S) # <<>> /\ Among(s, S)[Len(Among(s, S))] = s[j]
<1>. DEFINE Latest(s, j) == s[j] \in S /\ (\A i \in DOMAIN s : s[i] \in S => i <= j)
            P == {s \in Seq(T) : \A j \in DOMAIN s :
                    Latest(s, j) => Among(s, S) # <<>> /\ Among(s, S)[Len(Among(s, S))] = s[j]}
<1>1. ASSUME NEW e \in Seq(T), e = <<>> PROVE e \in P
  BY <1>1, EmptyList
<1>2. ASSUME NEW s \in Seq(T), NEW x \in T, s \in P PROVE Append(s, x) \in P
  <2>. DEFINE t == Append(s, x)
  <2>1. Among(t, S) = Among(s, S) \o (IF x \in S THEN <<x>> ELSE <<>>) BY AmongAppend
  <2>2. Among(s, S) \in Seq(T) BY AmongType
  <2>3. t \in Seq(T) /\ DOMAIN t = DOMAIN s \cup {Len(s) + 1} /\ t[Len(s) + 1] = x
        /\ \A i \in DOMAIN s : t[i] = s[i] /\ i < Len(s) + 1
    BY Appended
  <2>4. SUFFICES ASSUME NEW j \in DOMAIN t, Latest(t, j)
                 PROVE  Among(t, S) # <<>> /\ Among(t, S)[Len(Among(t, S))] = t[j]
    BY <2>3
  <2>. HIDE DEF t
  <2>5. CASE x \in S
    <3>1. j = Len(s) + 1 BY <2>3, <2>4, <2>5
    <3>2. Among(t, S) = Among(s, S) \o <<x>> BY <2>1, <2>5
    <3>. QED BY <2>2, <2>3, <3>1, <3>2
  <2>6. CASE x \notin S
    <3>1. j \in DOMAIN s /\ Latest(s, j) BY <2>3, <2>4, <2>6
    <3>2. Among(t, S) = Among(s, S) BY <2>1, <2>2, <2>6
    <3>. QED BY <1>2, <2>3, <3>1, <3>2
  <2>. QED BY <2>5, <2>6
<1>. HIDE DEF P
<1>3. Seq(T) \subseteq P BY <1>1, <1>2, SequenceInduction
<1>. QED BY <1>3 DEF P

(* The same for any mapping, the parts being given.                          *)
LEMMA FlattenMapped ==
  ASSUME NEW T, NEW g, NEW ss \in Seq(Seq(T)), NEW parts, Has(parts, DOMAIN ss),
         \A i \in DOMAIN ss : parts[i] = Mapped(g, ss[i])
  PROVE  /\ parts \in Seq(Seq(Image(T, g)))
         /\ Mapped(g, FlattenSeq(ss)) = FlattenSeq(parts)
<1>. DEFINE h == [x \in T |-> g[x]]
<1>. USE DEF Has
<1>1. h \in [T -> Image(T, h)] /\ Image(T, h) = Image(T, g) BY DEF Image
<1>2. \A s \in Seq(T) : Mapped(h, s) = Mapped(g, s) BY DEF Mapped
<1>. HIDE DEF h
<1>4. /\ Mapped(EachMapped(T, h), ss) \in Seq(Seq(Image(T, h)))
      /\ Mapped(h, FlattenSeq(ss)) = FlattenSeq(Mapped(EachMapped(T, h), ss))
  BY <1>1, MappedFlatten
<1>5. \A i \in DOMAIN ss : EachMapped(T, h)[ss[i]] = parts[i] BY <1>2 DEF EachMapped
<1>6. Mapped(EachMapped(T, h), ss) = parts BY <1>5 DEF Mapped
<1>7. FlattenSeq(ss) \in Seq(T) BY FlattenType
<1>8. Mapped(h, FlattenSeq(ss)) = Mapped(g, FlattenSeq(ss)) BY <1>2, <1>7
<1>. QED BY <1>1, <1>4, <1>6, <1>8

(* Lists of what was picked flatten to what is picked of the whole.          *)
LEMMA FlattenAmong ==
  ASSUME NEW T, NEW S, NEW ss \in Seq(Seq(T)), NEW parts, Has(parts, DOMAIN ss),
         \A i \in DOMAIN ss : parts[i] = Among(ss[i], S)
  PROVE  parts \in Seq(Seq(T)) /\ Among(FlattenSeq(ss), S) = FlattenSeq(parts)
<1>. USE DEF Has
<1>1. /\ Mapped(EachAmong(T, S), ss) \in Seq(Seq(T))
      /\ Among(FlattenSeq(ss), S) = FlattenSeq(Mapped(EachAmong(T, S), ss))
  BY AmongFlatten
<1>2. \A i \in DOMAIN ss : EachAmong(T, S)[ss[i]] = parts[i] BY DEF EachAmong
<1>3. Mapped(EachAmong(T, S), ss) = parts BY <1>2 DEF Mapped
<1>. QED BY <1>1, <1>3

(* The same for any set of elements that the mapping respects.               *)
LEMMA MappedAmong ==
  ASSUME NEW T, NEW g, NEW S, NEW R, NEW s \in Seq(T), \A x \in T : x \in R <=> g[x] \in S
  PROVE  Among(Mapped(g, s), S) = Mapped(g, Among(s, R))
<1>. DEFINE U == {g[x] : x \in T}
            h == [x \in T |-> g[x]]
<1>1. h \in [T -> U] OBVIOUS
<1>2. \A r \in Seq(T) : Mapped(h, r) = Mapped(g, r) BY DEF Mapped
<1>3. \A x \in T : x \in Chosen(T, h, S) <=> x \in R BY DEF Chosen
<1>. HIDE DEF h, U
<1>5. Among(Mapped(h, s), S) = Mapped(h, Among(s, Chosen(T, h, S))) BY <1>1, AmongMapped
<1>6. Among(s, R) \in Seq(T) BY AmongType
<1>7. Among(s, Chosen(T, h, S)) = Among(s, R) BY <1>3, AmongSame
<1>. QED BY <1>2, <1>5, <1>6, <1>7

(* What is kept of a list: the elements in S, once each if they were.        *)
Distinct(s) == \A i, j \in DOMAIN s : s[i] = s[j] => i = j

(* What is picked are the elements of the list that are in the set.          *)
LEMMA AmongRange ==
  ASSUME NEW T, NEW S
  PROVE  \A s \in Seq(T) : ToSet(Among(s, S)) = ToSet(s) \cap S
<1>. DEFINE P == {s \in Seq(T) : ToSet(Among(s, S)) = ToSet(s) \cap S}
<1>1. ASSUME NEW e \in Seq(T), e = <<>> PROVE e \in P
  <2>1. Among(e, S) = e /\ DOMAIN e = {} BY <1>1, AmongEmpty, EmptyList
  <2>. QED BY <2>1 DEF ToSet
<1>2. ASSUME NEW s \in Seq(T), NEW x \in T, s \in P PROVE Append(s, x) \in P
  <2>1. Among(Append(s, x), S) = Among(s, S) \o (IF x \in S THEN <<x>> ELSE <<>>) BY AmongAppend
  <2>. DEFINE kept == Among(s, S)
  <2>2. kept \in Seq(T) /\ ToSet(kept) = ToSet(s) \cap S BY <1>2, AmongType
  <2>3. ASSUME NEW r \in Seq(T) PROVE ToSet(Append(r, x)) = ToSet(r) \cup {x}
    BY Appended DEF ToSet
  <2>4. CASE x \in S
    <3>1. Among(Append(s, x), S) = Append(kept, x) BY <2>1, <2>2, <2>4
    <3>. HIDE DEF kept
    <3>2. ToSet(Append(kept, x)) = ToSet(kept) \cup {x} /\ ToSet(Append(s, x)) = ToSet(s) \cup {x}
      BY <2>2, <2>3
    <3>3. Append(s, x) \in Seq(T) OBVIOUS
    <3>. QED BY <2>2, <2>4, <3>1, <3>2, <3>3
  <2>5. CASE x \notin S
    <3>1. Among(Append(s, x), S) = kept BY <2>1, <2>2, <2>5
    <3>. HIDE DEF kept
    <3>2. ToSet(Append(s, x)) = ToSet(s) \cup {x} BY <2>3
    <3>3. Append(s, x) \in Seq(T) OBVIOUS
    <3>. QED BY <2>2, <2>5, <3>1, <3>2, <3>3
  <2>. QED BY <2>4, <2>5
<1>. HIDE DEF P
<1>3. Seq(T) \subseteq P BY <1>1, <1>2, SequenceInduction
<1>. QED BY <1>3 DEF P

(* What is picked of distinct elements is distinct.                          *)
LEMMA AmongDistinct ==
  ASSUME NEW T, NEW S
  PROVE  \A s \in Seq(T) : Distinct(s) => Distinct(Among(s, S))
<1>. DEFINE P == {s \in Seq(T) : Distinct(s) => Distinct(Among(s, S))}
<1>1. ASSUME NEW e \in Seq(T), e = <<>> PROVE e \in P
  <2>1. Among(e, S) = e BY <1>1, AmongEmpty
  <2>. QED BY <2>1
<1>2. ASSUME NEW s \in Seq(T), NEW x \in T, s \in P PROVE Append(s, x) \in P
  <2>1. Among(Append(s, x), S) = Among(s, S) \o (IF x \in S THEN <<x>> ELSE <<>>) BY AmongAppend
  <2>. DEFINE kept == Among(s, S)
  <2>2. kept \in Seq(T) /\ ToSet(kept) \subseteq ToSet(s) BY AmongType, AmongRange
  <2>3. Append(s, x) \in Seq(T) OBVIOUS
  <2>4. SUFFICES ASSUME Distinct(Append(s, x)) PROVE Distinct(Among(Append(s, x), S)) BY <2>3
  <2>5. Distinct(s) /\ x \notin ToSet(s)
    <3>. DEFINE t == Append(s, x)
    <3>1. DOMAIN t = DOMAIN s \cup {Len(s) + 1} /\ t[Len(s) + 1] = x /\ Len(s) + 1 \notin DOMAIN s
          /\ \A i \in DOMAIN s : t[i] = s[i]
      BY Appended
    <3>. HIDE DEF t
    <3>2. Distinct(t) BY <2>4 DEF t
    <3>. QED BY <3>1, <3>2 DEF Distinct, ToSet
  <2>6. Distinct(kept) /\ x \notin ToSet(kept) BY <1>2, <2>2, <2>5
  <2>. HIDE DEF kept
  <2>7. Distinct(Append(kept, x))
    <3>. DEFINE t == Append(kept, x)
    <3>1. DOMAIN t = DOMAIN kept \cup {Len(kept) + 1} /\ t[Len(kept) + 1] = x
          /\ \A i \in DOMAIN kept : t[i] = kept[i]
      BY <2>2, Appended
    <3>. HIDE DEF t
    <3>2. Distinct(t) BY <2>6, <3>1 DEF Distinct, ToSet
    <3>. QED BY <3>2 DEF t
  <2>8. CASE x \in S
    <3>1. Among(Append(s, x), S) = Append(kept, x) BY <2>1, <2>2, <2>8 DEF kept
    <3>. QED BY <2>7, <3>1
  <2>9. CASE x \notin S
    <3>1. Among(Append(s, x), S) = kept BY <2>1, <2>2, <2>9 DEF kept
    <3>. QED BY <2>6, <3>1
  <2>. QED BY <2>8, <2>9
<1>. HIDE DEF P
<1>3. Seq(T) \subseteq P BY <1>1, <1>2, SequenceInduction
<1>. QED BY <1>3 DEF P

(* A list is the flattening of its elements, one by one.                     *)
LEMMA FlattenSingles ==
  ASSUME NEW T, NEW s \in Seq(T), NEW parts, Has(parts, DOMAIN s), \A i \in DOMAIN s : parts[i] = <<s[i]>>
  PROVE  FlattenSeq(parts) = s
<1>1. Among(s, T) = s BY AmongAll
<1>. DEFINE whole == [i \in DOMAIN s |-> IF s[i] \in T THEN <<s[i]>> ELSE <<>>]
<1>2. \A i \in DOMAIN s : parts[i] = IF s[i] \in T THEN <<s[i]>> ELSE <<>> OBVIOUS
<1>3. parts = [i \in DOMAIN s |-> parts[i]] BY DEF Has
<1>4. parts = whole BY <1>2, <1>3
<1>. QED BY <1>1, <1>4 DEF Among

(* What is read of the kept elements of a flattened list, part by part.      *)
LEMMA FlattenKept ==
  ASSUME NEW T, NEW g, NEW S, NEW ss \in Seq(Seq(T)), NEW parts, Has(parts, DOMAIN ss),
         \A i \in DOMAIN ss : parts[i] = Mapped(g, Among(ss[i], S))
  PROVE  parts \in Seq(Seq(Image(T, g))) /\ Mapped(g, Among(FlattenSeq(ss), S)) = FlattenSeq(parts)
<1>. DEFINE kept == [i \in DOMAIN ss |-> Among(ss[i], S)]
<1>1. Has(kept, DOMAIN ss) /\ \A i \in DOMAIN ss : kept[i] = Among(ss[i], S) BY DEF Has
<1>. HIDE DEF kept
<1>2. kept \in Seq(Seq(T)) /\ Among(FlattenSeq(ss), S) = FlattenSeq(kept) BY <1>1, FlattenAmong
<1>3. DOMAIN kept = DOMAIN ss BY <1>1 DEF Has
<1>4. Has(parts, DOMAIN kept) /\ \A i \in DOMAIN kept : parts[i] = Mapped(g, kept[i]) BY <1>1, <1>3
<1>5. parts \in Seq(Seq(Image(T, g))) BY <1>2, <1>4, FlattenMapped
<1>6. Mapped(g, FlattenSeq(kept)) = FlattenSeq(parts) BY <1>2, <1>4, <1>5, FlattenMapped
<1>. QED BY <1>2, <1>5, <1>6

(* One list after another, as a name that the provers do not take apart.     *)
Joined(s, t) == s \o t

(* Two joined lists are a list of their type.                                *)
LEMMA JoinedType == ASSUME NEW T, NEW s \in Seq(T), NEW t \in Seq(T)  PROVE Joined(s, t) \in Seq(T)
  BY DEF Joined

(* They are as long as the two together.                                     *)
LEMMA JoinedLength ==
  ASSUME NEW T, NEW s \in Seq(T), NEW t \in Seq(T) PROVE Len(Joined(s, t)) = Len(s) + Len(t)
  BY DEF Joined

(* Mapping two joined lists.                                                 *)
LEMMA MappedJoined ==
  ASSUME NEW T, NEW g, NEW s \in Seq(T), NEW t \in Seq(T)
  PROVE  Mapped(g, Joined(s, t)) = Joined(Mapped(g, s), Mapped(g, t))
<1>1. Mapped(g, s \o t) = Mapped(g, s) \o Mapped(g, t) BY MappedConcat
<1>. QED BY <1>1, Zenon DEF Joined

(* Picking from two joined lists.                                            *)
LEMMA AmongJoined ==
  ASSUME NEW T, NEW S, NEW s \in Seq(T), NEW t \in Seq(T)
  PROVE  Among(Joined(s, t), S) = Joined(Among(s, S), Among(t, S))
<1>1. Among(s \o t, S) = Among(s, S) \o Among(t, S) BY AmongConcat
<1>. QED BY <1>1, Zenon DEF Joined

(* What is read of the kept elements of a list made of three.                *)
LEMMA KeptOfThree ==
  ASSUME NEW T, NEW g, NEW S, NEW s \in Seq(T), NEW t \in Seq(T), NEW u \in Seq(T)
  PROVE  Mapped(g, Among(Joined(Joined(s, t), u), S))
           = Joined(Joined(Mapped(g, Among(s, S)), Mapped(g, Among(t, S))), Mapped(g, Among(u, S)))
<1>1. Among(Joined(Joined(s, t), u), S) = Joined(Joined(Among(s, S), Among(t, S)), Among(u, S))
  BY JoinedType, AmongJoined
<1>2. Among(s, S) \in Seq(T) /\ Among(t, S) \in Seq(T) /\ Among(u, S) \in Seq(T) BY AmongType
<1>. QED BY <1>1, <1>2, JoinedType, MappedJoined

(* The last part of a flattened list, apart from those before it.            *)
FirstOf(ss, n) == [i \in 1..n |-> ss[i]]
Splits(T, ss, n, m) ==
    /\ FirstOf(ss, n) \in Seq(Seq(T)) /\ Len(FirstOf(ss, n)) = n
    /\ \A i \in 1..n : FirstOf(ss, n)[i] = ss[i]
    /\ ss[m] \in Seq(T) /\ FlattenSeq(FirstOf(ss, n)) \in Seq(T)
    /\ FlattenSeq(ss) = Joined(FlattenSeq(FirstOf(ss, n)), ss[m])

(* Lists flatten to the first n of them, then the last.                      *)
LEMMA FlattenLast ==
  ASSUME NEW T, NEW n \in Nat, NEW m, m = n + 1, NEW ss \in Seq(Seq(T)), Len(ss) = m
  PROVE  Splits(T, ss, n, m)
<1>. DEFINE front == FirstOf(ss, n)
            last == ss[m]
<1>1. front \in Seq(Seq(T)) /\ Len(front) = n /\ \A i \in 1..n : front[i] = ss[i] BY DEF FirstOf
<1>2. last \in Seq(T) OBVIOUS
<1>3. ss = Append(front, last) BY DEF FirstOf
<1>. HIDE DEF front, last
<1>4. FlattenSeq(Append(front, last)) = FlattenSeq(front) \o last BY <1>1, <1>2, FlattenAppend
<1>5. FlattenSeq(front) \in Seq(T) BY <1>1, FlattenType
<1>6. FlattenSeq(ss) = Joined(FlattenSeq(front), last) BY <1>3, <1>4, Zenon DEF Joined
<1>. QED BY <1>1, <1>2, <1>5, <1>6 DEF last, front, Splits

(* Lengths of flattened lists add up if those of their parts do.             *)
Adds(ss, tt, uu, n) ==
    /\ Len(ss) = n /\ Len(tt) = n /\ Len(uu) = n
    /\ \A i \in 1..n : Len(ss[i]) = 1 + Len(tt[i]) + Len(uu[i])

(* Lists made each of one element and of two others: what they flatten to is *)
(* as long as their number and the two flattened.                            *)
LEMMA FlattenLengths ==
  ASSUME NEW T, NEW U, NEW V
  PROVE  \A n \in Nat : \A ss \in Seq(Seq(T)), tt \in Seq(Seq(U)), uu \in Seq(Seq(V)) :
           Adds(ss, tt, uu, n)
             => Len(FlattenSeq(ss)) = n + Len(FlattenSeq(tt)) + Len(FlattenSeq(uu))
<1>. DEFINE P == {n \in Nat : \A ss \in Seq(Seq(T)), tt \in Seq(Seq(U)), uu \in Seq(Seq(V)) :
                    Adds(ss, tt, uu, n)
                      => Len(FlattenSeq(ss)) = n + Len(FlattenSeq(tt)) + Len(FlattenSeq(uu))}
<1>. HIDE DEF P
<1>1. 0 \in P
  <2>. SUFFICES ASSUME NEW ss \in Seq(Seq(T)), NEW tt \in Seq(Seq(U)), NEW uu \in Seq(Seq(V)),
                       Adds(ss, tt, uu, 0)
                PROVE  Len(FlattenSeq(ss)) = 0 + Len(FlattenSeq(tt)) + Len(FlattenSeq(uu))
    BY DEF P
  <2>1. ss = <<>> /\ tt = <<>> /\ uu = <<>> BY DEF Adds
  <2>2. FlattenSeq(ss) = ss /\ FlattenSeq(tt) = tt /\ FlattenSeq(uu) = uu BY <2>1, FlattenEmpty
  <2>. QED BY <2>1, <2>2
<1>2. ASSUME NEW n \in Nat, n \in P PROVE n + 1 \in P
  <2>. SUFFICES ASSUME NEW ss \in Seq(Seq(T)), NEW tt \in Seq(Seq(U)), NEW uu \in Seq(Seq(V)),
                       Adds(ss, tt, uu, n + 1)
                PROVE  Len(FlattenSeq(ss)) = (n + 1) + Len(FlattenSeq(tt)) + Len(FlattenSeq(uu))
    BY DEF P
  <2>. DEFINE m == n + 1
  <2>0. m = n + 1 /\ m \in Nat /\ m \in 1..m /\ \A i \in 1..n : i \in 1..m OBVIOUS
  <2>1. /\ Len(ss) = m /\ Len(tt) = m /\ Len(uu) = m
        /\ \A i \in 1..m : Len(ss[i]) = 1 + Len(tt[i]) + Len(uu[i])
    BY DEF Adds
  <2>. DEFINE s == FirstOf(ss, n)
              t == FirstOf(tt, n)
              u == FirstOf(uu, n)
  <2>. HIDE DEF m
  <2>2. /\ s \in Seq(Seq(T)) /\ Len(s) = n /\ \A i \in 1..n : s[i] = ss[i]
       /\ ss[m] \in Seq(T) /\ FlattenSeq(ss) = Joined(FlattenSeq(s), ss[m])
       /\ FlattenSeq(s) \in Seq(T)
    <3>1. Splits(T, ss, n, m) BY <2>0, <2>1, FlattenLast
    <3>. QED BY <3>1, Zenon DEF Splits
  <2>3. /\ t \in Seq(Seq(U)) /\ Len(t) = n /\ \A i \in 1..n : t[i] = tt[i]
       /\ tt[m] \in Seq(U) /\ FlattenSeq(tt) = Joined(FlattenSeq(t), tt[m])
       /\ FlattenSeq(t) \in Seq(U)
    <3>1. Splits(U, tt, n, m) BY <2>0, <2>1, FlattenLast
    <3>. QED BY <3>1, Zenon DEF Splits
  <2>4. /\ u \in Seq(Seq(V)) /\ Len(u) = n /\ \A i \in 1..n : u[i] = uu[i]
       /\ uu[m] \in Seq(V) /\ FlattenSeq(uu) = Joined(FlattenSeq(u), uu[m])
       /\ FlattenSeq(u) \in Seq(V)
    <3>1. Splits(V, uu, n, m) BY <2>0, <2>1, FlattenLast
    <3>. QED BY <3>1, Zenon DEF Splits
  <2>. HIDE DEF s, t, u
  <2>5. Adds(s, t, u, n) BY <2>0, <2>1, <2>2, <2>3, <2>4 DEF Adds
  <2>6. Len(FlattenSeq(s)) = n + Len(FlattenSeq(t)) + Len(FlattenSeq(u)) 
    BY <1>2, <2>2, <2>3, <2>4, <2>5 DEF P
  <2>7. Len(ss[m]) = 1 + Len(tt[m]) + Len(uu[m]) BY <2>0, <2>1
  <2>8. /\ Len(FlattenSeq(ss)) = Len(FlattenSeq(s)) + Len(ss[m])
        /\ Len(FlattenSeq(tt)) = Len(FlattenSeq(t)) + Len(tt[m])
        /\ Len(FlattenSeq(uu)) = Len(FlattenSeq(u)) + Len(uu[m])
    BY <2>2, <2>3, <2>4 DEF Joined
  <2>9. /\ Len(FlattenSeq(t)) \in Nat /\ Len(FlattenSeq(u)) \in Nat
        /\ Len(tt[m]) \in Nat /\ Len(uu[m]) \in Nat
    BY <2>3, <2>4
  <2>. DEFINE a == Len(FlattenSeq(s))
              b == Len(FlattenSeq(t))
              c == Len(FlattenSeq(u))
              d == Len(ss[m])
              e == Len(tt[m])
              f == Len(uu[m])
  <2>10. a = n + b + c /\ d = 1 + e + f BY <2>6, <2>7
  <2>11. /\ Len(FlattenSeq(ss)) = a + d /\ Len(FlattenSeq(tt)) = b + e /\ Len(FlattenSeq(uu)) = c + f
         /\ b \in Nat /\ c \in Nat /\ e \in Nat /\ f \in Nat
    BY <2>8, <2>9
  <2>. HIDE DEF a, b, c, d, e, f
  <2>12. a + d = (n + 1) + (b + e) + (c + f) BY <2>10, <2>11
  <2>. QED BY <2>11, <2>12
<1>3. Nat \subseteq P BY <1>1, <1>2, NaturalInduction
<1>. QED BY <1>3 DEF P

(* None and Thrown stand for no object, and None for no number.              *)
NotAnObject(v) == v # [n \in DOMAIN v |-> v[n]]
Apart == NotAnObject(None) /\ NotAnObject(Thrown) /\ None # Thrown /\ None \notin Nat

-----------------------------------------------------------------------------
(* What the readers make of a node's answer.                                 *)

ReadBlock(g, b) == getBlock(BlockAnswer(g, b))
ReadHeard(g, b) ==
    LET event == BlockAddedEvent(BlockAddedJSON(g, b)) IN IF event = Thrown THEN Thrown ELSE event.block
ReadKept(read) ==
    LET block == BlockV2(BlockV2JSON(read.originBlockV2))
    IN IF block = Thrown THEN Thrown ELSE newBlockFromBlockV2(block, read.proofs)
ReadHeader(g, b) == QueryGlobalStateResult([block_header |-> QueriedHeader(g, b)])
ReadUnwrapped(g, b) ==
    LET wrapper == BlockHeaderWrapper(QueriedHeader(g, b))
    IN IF wrapper = Thrown THEN Thrown
       ELSE IF wrapper.blockHeaderV1 # None THEN newBlockHeaderFromV1(wrapper.blockHeaderV1)
       ELSE newBlockHeaderFromV2(wrapper.blockHeaderV2)
ReadTransfers(g, b) == ChainGetBlockTransfersResult([transfers |-> BlockTransfersAnswer(g, b)])
ReadDeploy(raw) == toInfoGetTransactionResult(InfoGetDeployResult(raw))

IsBlock(g, b) == \E h \in 1..MaxBlocks, f \in BlockFacts : b = Merged([height |-> h], f) /\ f.gen <= g
IsKnown(g, k) ==
    \/ \E b : IsBlock(g, b) /\ \E t \in ToSet(b.txs) : k = [block |-> b, tx |-> t]
    \/ \E t \in Waiting : k = [block |-> None, tx |-> t] /\ (g = 2 \/ t.version = "Deploy")

RightOfBlock(a) ==
    /\ a.ask \in {"block", "blockAdded", "header", "unwrapped", "kept", "transfers", "finality"}
         => IsBlock(a.api, a.about)
    /\ a.ask = "block" => a.got = ReadBlock(a.api, a.about)
    /\ a.ask = "blockAdded" => a.got = ReadHeard(a.api, a.about)
    /\ a.ask = "header" => a.got = ReadHeader(a.api, a.about)
    /\ a.ask = "stateRoot" => a.got = QueryGlobalStateResult([block_header |-> None])
    /\ a.ask = "unwrapped" => a.api = 2 /\ a.got = ReadUnwrapped(a.api, a.about)
    /\ a.ask = "kept" => \E g \in {1, 2} :
         LET read == ReadBlock(g, a.about)
         IN IsBlock(g, a.about) /\ read # Thrown /\ read.originBlockV2 # None /\ a.got = ReadKept(read)
    /\ a.ask = "transfers" => a.got = ReadTransfers(a.api, a.about)
    /\ a.ask = "finality" => \E signer \in ToSet(a.about.proofs) :
         a.got = FinalitySignatureEvent(FinalitySignatureJSON(a.api, a.about, signer))
RightOfTransaction(a) ==
    /\ a.ask \in {"deploy", "transaction", "reread", "processed", "accepted", "expired", "speculative"}
         => IsKnown(a.api, a.about)
    /\ a.ask = "deploy" =>
         /\ a.about.tx.version = "Deploy"
         /\ \E withHeight \in BOOLEAN :
              /\ a.raw = DeployAnswer(a.api, a.about.block, a.about.tx, withHeight)
              /\ a.got = ReadDeploy(a.raw)
    /\ a.ask = "transaction" =>
         /\ a.raw = TransactionAnswer(a.about.block, a.about.tx)
         /\ a.got = InfoGetTransactionResultFromJSON(a.raw)
    /\ a.ask = "reread" =>
         \/ a.got = InfoGetTransactionResultFromJSON(TransactionAnswer(a.about.block, a.about.tx))
         \/ /\ a.about.tx.version = "Deploy"
            /\ \E withHeight \in BOOLEAN, g \in {1, 2} : IsKnown(g, a.about) /\ a.got =
                 InfoGetTransactionResultFromJSON(DeployAnswer(g, a.about.block, a.about.tx, withHeight))
    /\ a.ask = "processed" =>
         /\ a.about.block # None
         /\ a.got = TransactionProcessedEvent(ProcessedJSON(a.api, a.about.block, a.about.tx))
    /\ a.ask = "accepted" => a.got = TransactionAcceptedEvent(AcceptedJSON(a.api, a.about.tx))
    /\ a.ask = "expired" => a.got = TransactionExpiredEvent(ExpiredJSON(a.api, a.about.tx))
    /\ a.ask = "speculative" =>
         /\ a.about.block # None /\ a.about.block.gen = a.api
         /\ a.got = SpeculativeExecResult(SpeculativeAnswer(a.api, a.about.block, a.about.tx))
RightOfState(a) ==
    /\ a.ask = "auction" =>
         /\ a.about \in StakeFacts
         /\ \A i \in DOMAIN a.about : \A d \in ToSet(a.about[i].delegators) :
              a.api = 2 \/ d.who = None \/ d.who.purse = None
         /\ a.got = getLatestAuctionInfo(IF a.api = 2 THEN AuctionV2JSON(a.about) ELSE None,
                                         AuctionV1JSON(a.api, a.about))
    /\ a.ask = "auctionV1" =>
         /\ a.about \in StakeFacts
         /\ \A i \in DOMAIN a.about : \A d \in ToSet(a.about[i].delegators) : d.who.purse = None
         /\ a.got = AuctionStateFromV1(AuctionStateV1(AuctionV1JSON(a.api, a.about)))
    /\ a.ask = "payments" =>
         /\ a.about \in PaymentFacts
         /\ \A i \in DOMAIN a.about : a.api = 2 \/ a.about[i].who = None \/ a.about[i].who.purse = None
         /\ \E name \in {"Delegator", "DelegatorKind"} :
              a.got = EraSummary(EraSummaryJSON(a.api, name, a.about))
    /\ a.ask = "package" => a.about \in PackageFacts /\ a.got = ContractPackage(PackageJSON(a.api, a.about))
Right(a) == a.api \in {1, 2} /\ RightOfBlock(a) /\ RightOfTransaction(a) /\ RightOfState(a)

IInv ==
    /\ api \in {1, 2}
    /\ chain \in Seq(ToSet(chain)) /\ Len(chain) <= MaxBlocks /\ \A b \in ToSet(chain) : IsBlock(api, b)
    /\ \A a \in answers : a.api <= api /\ Right(a)

(* A block that a 1.x node knows, a 2.x node knows.                          *)
LEMMA KnownBlock ==
  ASSUME NEW b, NEW g \in {1, 2}, IsBlock(g, b)
  PROVE  IsBlock(2, b) /\ \A g2 \in {1, 2} : g <= g2 => IsBlock(g2, b)
  BY BlocksAssumption DEF IsBlock, IsBlockFact

(* The members of a known block.                                             *)
LEMMA BlockFields ==
  ASSUME NEW b, NEW g \in {1, 2}, IsBlock(g, b)
  PROVE  /\ b.gen \in 1..g /\ b.height \in 1..MaxBlocks /\ b.hash # None
         /\ DOMAIN b = {"height", "hash", "gen", "common", "proposer", "eraEnd", "txs", "proofs", "gasPrice",
                          "lastSwitch", "rewardedSignatures"}
<1>1. PICK h \in 1..MaxBlocks, f \in BlockFacts : b = Merged([height |-> h], f) /\ f.gen <= g
  BY DEF IsBlock
<1>2. IsBlockFact(f) BY BlocksAssumption
<1>3. DOMAIN f = {"hash", "gen", "common", "proposer", "eraEnd", "txs", "proofs", "gasPrice", "lastSwitch",
               "rewardedSignatures"}
  BY <1>2 DEF IsBlockFact, Has
<1>. QED BY <1>1, <1>2, <1>3 DEF Merged, IsBlockFact, Has

(* A known block is an object.                                               *)
LEMMA BlockIsObject ==
  ASSUME Apart, NEW b, NEW g \in {1, 2}, IsBlock(g, b)
  PROVE  b # None
  BY DEF IsBlock, Merged, Apart, NotAnObject

(* What the facts say of a block holds of a known block.                     *)
LEMMA BlockOfFact ==
  ASSUME NEW b, NEW g \in {1, 2}, IsBlock(g, b)
  PROVE  /\ b.proposer # "00" /\ IsList(b.proofs) /\ IsList(b.txs)
         /\ \A t \in ToSet(b.txs) : IsTransaction(b.gen, t)
         /\ \A i, j \in DOMAIN b.txs : b.txs[i].hash = b.txs[j].hash => i = j
         /\ b.eraEnd = None \/ IsEraEnd(b.gen, b.eraEnd)
         /\ b.gen = 1 => b.gasPrice = 1 /\ b.lastSwitch = None /\ b.rewardedSignatures = <<>>
<1>1. PICK h \in 1..MaxBlocks, f \in BlockFacts : b = Merged([height |-> h], f) /\ f.gen <= g
  BY DEF IsBlock
<1>2. IsBlockFact(f) BY BlocksAssumption
<1>3. DOMAIN f = {"hash", "gen", "common", "proposer", "eraEnd", "txs", "proofs", "gasPrice", "lastSwitch",
               "rewardedSignatures"}
  BY <1>2 DEF IsBlockFact, Has
<1>4. \A n \in DOMAIN f : b[n] = f[n] BY <1>1, <1>3 DEF Merged
<1>5. /\ b.gen = f.gen /\ b.proposer = f.proposer /\ b.proofs = f.proofs /\ b.txs = f.txs
      /\ b.eraEnd = f.eraEnd
      /\ b.gasPrice = f.gasPrice /\ b.lastSwitch = f.lastSwitch
      /\ b.rewardedSignatures = f.rewardedSignatures
  BY <1>3, <1>4
<1>. QED BY <1>2, <1>5 DEF IsBlockFact

(* A known transaction, and the block it is in.                              *)
LEMMA KnownTransaction ==
  ASSUME Apart, NEW k, NEW g \in {1, 2}, IsKnown(g, k)
  PROVE  /\ k = [block |-> k.block, tx |-> k.tx]
         /\ k.tx.hash # None /\ k.tx.version \in {"Deploy", "V1"}
         /\ g = 1 => k.tx.version = "Deploy"
         /\ k.block # None => /\ IsBlock(g, k.block) /\ k.tx \in ToSet(k.block.txs)
                              /\ IsTransaction(k.block.gen, k.tx)
<1>1. CASE \E b : IsBlock(g, b) /\ \E t \in ToSet(b.txs) : k = [block |-> b, tx |-> t]
  <2>1. PICK b : IsBlock(g, b) /\ \E t \in ToSet(b.txs) : k = [block |-> b, tx |-> t] BY <1>1
  <2>2. PICK t \in ToSet(b.txs) : k = [block |-> b, tx |-> t] BY <2>1
  <2>3. IsTransaction(b.gen, t) /\ b.gen \in 1..g BY <2>1, BlockOfFact, BlockFields
  <2>4. t.hash # None /\ t.version \in {"Deploy", "V1"} /\ (b.gen = 1 => t.version = "Deploy")
    BY <2>3 DEF IsTransaction
  <2>. QED BY <2>1, <2>2, <2>3, <2>4
<1>2. CASE \E t \in Waiting : k = [block |-> None, tx |-> t] /\ (g = 2 \/ t.version = "Deploy")
  BY <1>2, WaitingAssumption DEF IsTransaction
<1>. QED BY <1>1, <1>2 DEF IsKnown

(* Every step keeps the invariant: what is told is read from an answer of    *)
(* the node as it is, later ones of a newer node included.                   *)
LEMMA Inductive == IInv /\ [Next]_vars => IInv'
<1>. SUFFICES ASSUME IInv, [Next]_vars PROVE IInv'
  OBVIOUS
<1>a. ASSUME NEW r, answers' = answers \cup {r}, UNCHANGED <<chain, api>>, r.api = api, Right(r) PROVE IInv'
  BY <1>a DEF IInv, ToSet
<1>b. \A b \in ToSet(chain) : IsBlock(api, b)
  BY DEF IInv
<1>1. ASSUME NEW f \in BlockFacts, AddBlock(f) PROVE IInv'
  <2>. DEFINE b == Merged([height |-> Len(chain) + 1], f)
  <2>1. IsBlock(api, b)
    <3>1. Len(chain) + 1 \in 1..MaxBlocks /\ f.gen <= api
      BY <1>1, BoundsAssumption DEF IInv, AddBlock
    <3>. QED BY <3>1 DEF IsBlock
  <2>2. chain' = Append(chain, b) /\ UNCHANGED <<api, answers>> /\ Len(chain) + 1 <= MaxBlocks
    BY <1>1, BoundsAssumption DEF AddBlock, IInv
  <2>. HIDE DEF b
  <2>3. chain' \in Seq(ToSet(chain) \cup {b}) /\ ToSet(chain') \subseteq ToSet(chain) \cup {b}
            /\ Len(chain') <= MaxBlocks
    BY <2>2 DEF IInv, ToSet
  <2>4. chain' \in Seq(ToSet(chain'))
    BY <2>3 DEF ToSet
  <2>. QED BY <2>1, <2>2, <2>3, <2>4 DEF IInv
<1>2. ASSUME Upgrade PROVE IInv'
  <2>1. api = 1 /\ api' = 2 /\ chain' = chain /\ answers' = answers BY <1>2 DEF Upgrade
  <2>2. \A b \in ToSet(chain) : IsBlock(2, b) BY <1>b, <2>1, KnownBlock
  <2>3. \A a \in answers : a.api <= 2 /\ Right(a) BY <2>1 DEF IInv, Right
  <2>. QED BY <2>1, <2>2, <2>3 DEF IInv, ToSet
<1>3. ASSUME NEW b \in ToSet(chain), AskBlock(b) PROVE IInv'
  BY <1>3, <1>a, <1>b
    DEF AskBlock, Asked, Told, Right, RightOfBlock, RightOfTransaction, RightOfState, IInv, ReadBlock
<1>4. ASSUME NEW b \in ToSet(chain), HearBlock(b) PROVE IInv'
  BY <1>4, <1>a, <1>b
    DEF HearBlock, Asked, Told, Right, RightOfBlock, RightOfTransaction, RightOfState, IInv, ReadHeard
<1>5. ASSUME NEW b \in ToSet(chain), AskHeader(b) PROVE IInv'
  BY <1>5, <1>a, <1>b
    DEF AskHeader, Asked, Told, Right, RightOfBlock, RightOfTransaction, RightOfState, IInv, ReadHeader
<1>6. ASSUME NEW b \in ToSet(chain), UnwrapHeader(b) PROVE IInv'
  BY <1>6, <1>a, <1>b
    DEF UnwrapHeader, Asked, Told, Right, RightOfBlock, RightOfTransaction, RightOfState, IInv,
        ReadUnwrapped
<1>7. ASSUME NEW b \in ToSet(chain), AskTransfers(b) PROVE IInv'
  BY <1>7, <1>a, <1>b
    DEF AskTransfers, Asked, Told, Right, RightOfBlock, RightOfTransaction, RightOfState, IInv,
        ReadTransfers
<1>8. ASSUME NEW b \in ToSet(chain), HearFinality(b) PROVE IInv'
  BY <1>8, <1>a, <1>b
    DEF HearFinality, Asked, Told, Right, RightOfBlock, RightOfTransaction, RightOfState, IInv
<1>9. ASSUME NEW a \in answers, KeepBlock(a) PROVE IInv'
  <2>1. a.api \in {1, 2} /\ a.api <= api /\ IsBlock(a.api, a.about) /\ a.got = ReadBlock(a.api, a.about)
    BY <1>9 DEF IInv, KeepBlock, Right, RightOfBlock
  <2>2. IsBlock(api, a.about)
    BY <2>1, KnownBlock DEF IInv
  <2>. QED BY <1>9, <1>a, <2>1, <2>2
    DEF KeepBlock, Asked, Told, Right, RightOfBlock, RightOfTransaction, RightOfState, IInv, ReadKept
<1>c. \A k \in Deploys : IsKnown(api, k)
  BY <1>b DEF Deploys, Known, Placed, IsKnown, IInv
<1>10. ASSUME NEW k \in Deploys, NEW withHeight \in BOOLEAN, AskDeploy(k, withHeight) PROVE IInv'
  BY <1>10, <1>a, <1>c
    DEF AskDeploy, Asked, Told, Right, RightOfBlock, RightOfTransaction, RightOfState, IInv, ReadDeploy
<1>11. ASSUME NEW k \in Deploys, AskTransaction(k) PROVE IInv'
  BY <1>11, <1>a, <1>c
    DEF AskTransaction, Asked, Told, Right, RightOfBlock, RightOfTransaction, RightOfState, IInv
<1>12. ASSUME NEW a \in answers, Reread(a) PROVE IInv'
  <2>1. a.api \in {1, 2} /\ a.api <= api /\ IsKnown(a.api, a.about) /\ RightOfTransaction(a)
    BY <1>12 DEF IInv, Reread, Right, RightOfTransaction
  <2>2. IsKnown(api, a.about)
    <3>1. CASE a.api = api BY <2>1, <3>1
    <3>2. CASE a.api = 1 /\ api = 2
      <4>1. CASE \E b : IsBlock(1, b) /\ \E t \in ToSet(b.txs) : a.about = [block |-> b, tx |-> t]
        <5>1. PICK b : IsBlock(1, b) /\ \E t \in ToSet(b.txs) : a.about = [block |-> b, tx |-> t] BY <4>1
        <5>2. IsBlock(2, b) BY <5>1, KnownBlock
        <5>. QED BY <3>2, <5>1, <5>2 DEF IsKnown
      <4>2. CASE \E t \in Waiting : a.about = [block |-> None, tx |-> t]
        BY <3>2, <4>2 DEF IsKnown
      <4>. QED BY <2>1, <3>2, <4>1, <4>2 DEF IsKnown
    <3>. QED BY <2>1, <3>1, <3>2 DEF IInv
  <2>. QED BY <1>12, <1>a, <2>1, <2>2
    DEF Reread, Asked, Told, Right, RightOfBlock, RightOfTransaction, RightOfState, IInv
<1>13. ASSUME NEW k \in Deploys, HearProcessed(k) PROVE IInv'
  BY <1>13, <1>a, <1>c
    DEF HearProcessed, Asked, Told, Right, RightOfBlock, RightOfTransaction, RightOfState, IInv
<1>14. ASSUME NEW k \in Deploys, HearAccepted(k) PROVE IInv'
  BY <1>14, <1>a, <1>c
    DEF HearAccepted, Asked, Told, Right, RightOfBlock, RightOfTransaction, RightOfState, IInv
<1>15. ASSUME NEW k \in Deploys, HearExpired(k) PROVE IInv'
  BY <1>15, <1>a, <1>c
    DEF HearExpired, Asked, Told, Right, RightOfBlock, RightOfTransaction, RightOfState, IInv
<1>16. ASSUME NEW k \in Deploys, Speculate(k) PROVE IInv'
  BY <1>16, <1>a, <1>c
    DEF Speculate, Asked, Told, Right, RightOfBlock, RightOfTransaction, RightOfState, IInv
<1>17. ASSUME NEW v \in SpeakableStakes, AskAuction(v) PROVE IInv'
  BY <1>17, <1>a
    DEF SpeakableStakes, Speaks, AskAuction, Asked, Told, Right, RightOfBlock, RightOfTransaction,
        RightOfState, IInv
<1>18. ASSUME NEW v \in SpeakableStakes, AskAuctionV1(v) PROVE IInv'
  BY <1>18, <1>a
    DEF SpeakableStakes, AskAuctionV1, Asked, Told, Right, RightOfBlock, RightOfTransaction,
        RightOfState, IInv
<1>19. ASSUME NEW p \in SpeakablePayments, AskPayments(p) PROVE IInv'
  BY <1>19, <1>a
    DEF SpeakablePayments, Speaks, AskPayments, Asked, Told, Right, RightOfBlock, RightOfTransaction,
        RightOfState, IInv
<1>20. ASSUME NEW p \in PackageFacts, AskPackage(p) PROVE IInv'
  BY <1>20, <1>a DEF AskPackage, Asked, Told, Right, RightOfBlock, RightOfTransaction, RightOfState, IInv
<1>21. ASSUME NEW b \in ToSet(chain), AskStateRoot(b) PROVE IInv'
  BY <1>21, <1>a, <1>b
    DEF AskStateRoot, Asked, Told, Right, RightOfBlock, RightOfTransaction, RightOfState, IInv
<1>22. ASSUME UNCHANGED vars PROVE IInv'
  BY <1>22 DEF vars, IInv, ToSet
<1>. QED
  BY <1>1, <1>2, <1>3, <1>4, <1>5, <1>6, <1>7, <1>8, <1>9, <1>10, <1>11, <1>12, <1>13, <1>14, <1>15, <1>16, <1>17,
     <1>18, <1>19, <1>20, <1>21, <1>22 DEF Next, AskingBlocks, AskingTransactions, AskingState

-----------------------------------------------------------------------------
(* Events *)
LEMMA HeardExpired ==
  ASSUME Apart, NEW t, t.hash # None, t.version \in {"Deploy", "V1"}
  PROVE  /\ TransactionExpiredEvent(ExpiredJSON(1, t)) = Thrown
         /\ TransactionExpiredEvent(ExpiredJSON(2, t)) = TrueHash(t)
<1>1. TransactionExpiredEvent(ExpiredJSON(1, t)) = Thrown
  BY DEF TransactionExpiredEvent, ExpiredJSON, Get
<1>2. TransactionHash(NodeHash(t)) = TrueHash(t)
  BY DEF TransactionHash, NodeHash, Get, TrueHash
<1>3. NodeHash(t) # None BY DEF NodeHash, Apart, NotAnObject
<1>4. TransactionExpiredPayload([transaction_hash |-> NodeHash(t)]) = TrueHash(t)
  BY <1>2, <1>3 DEF TransactionExpiredPayload, Member, Get
<1>. QED BY <1>1, <1>4 DEF TransactionExpiredEvent, ExpiredJSON, Get, TrueHash, Apart, NotAnObject

Sender(t) == [publicKey |-> t.sender, accountHash |-> None]

(* The sender reads as it is from either of the ways a node writes it.       *)
LEMMA SenderRead ==
  ASSUME NEW t
  PROVE  InitiatorAddr(NodeInitiator(t)) = Sender(t) /\ KeyInitiator(t.sender) = Sender(t)
  BY DEF InitiatorAddr, NodeInitiator, KeyInitiator, Sender, Get

(* A transaction in its version, unwrapped and unified.                      *)
LEMMA TransactionRead ==
  ASSUME Apart, NEW t, t.hash # None, t.version \in {"Deploy", "V1"}
  PROVE  LET wrapper == TransactionWrapper(WrappedTransaction(t))
         IN /\ t.version = "Deploy" => wrapper = [deploy |-> DeployJSON(t), transactionV1 |-> None]
            /\ t.version = "V1" =>
                 wrapper = [deploy |-> None, transactionV1 |-> [hash |-> t.hash, initiator_addr |-> NodeInitiator(t)]]
            /\ t.version = "Deploy" =>
                 newTransactionFromDeploy(DeployJSON(t)) = [hash |-> TrueHash(t), initiator |-> Sender(t)]
            /\ t.version = "V1" =>
                 fromTransactionV1([hash |-> t.hash, initiator_addr |-> NodeInitiator(t)])
                    = [hash |-> TrueHash(t), initiator |-> Sender(t)]
            /\ DeployJSON(t) # None /\ [hash |-> t.hash, initiator_addr |-> NodeInitiator(t)] # None
<1>1. DeployJSON(t) # None /\ [hash |-> t.hash, initiator_addr |-> NodeInitiator(t)] # None
  BY DEF DeployJSON, Apart, NotAnObject
<1>2. t.version = "Deploy" => TransactionWrapper(WrappedTransaction(t)) = [deploy |-> DeployJSON(t), transactionV1 |-> None]
  BY DEF TransactionWrapper, WrappedTransaction, Get
<1>3. t.version = "V1" => TransactionWrapper(WrappedTransaction(t)) =
         [deploy |-> None, transactionV1 |-> [hash |-> t.hash, initiator_addr |-> NodeInitiator(t)]]
  BY DEF TransactionWrapper, WrappedTransaction, Get
<1>. QED BY <1>1, <1>2, <1>3, SenderRead
  DEF newTransactionFromDeploy, fromTransactionV1, DeployJSON, DeployHash, TrueHash

(* The empty list has no members.                                            *)
LEMMA NothingRead == \A name : Get(<<>>, name) = None
<1>1. DOMAIN <<>> = {} OBVIOUS
<1>. QED BY <1>1 DEF Get

(* The accepted event of either generation, read.                            *)
LEMMA HeardAccepted ==
  ASSUME Apart, NEW t, t.hash # None, t.version \in {"Deploy", "V1"}
  PROVE  /\ TransactionAcceptedEvent(AcceptedJSON(1, t)) = Thrown
         /\ TransactionAcceptedEvent(AcceptedJSON(2, t)) = [hash |-> TrueHash(t), initiator |-> Sender(t)]
<1>1. TransactionAcceptedEvent(AcceptedJSON(1, t)) = Thrown
  <2>1. Get(AcceptedJSON(1, t), "TransactionAccepted") = None BY DEF AcceptedJSON, Get
  <2>. QED BY <2>1, NothingRead
    DEF TransactionAcceptedEvent, OrElse, TransactionWrapper, DeployAcceptedEvent
<1>2. OrElse(Get(AcceptedJSON(2, t), "TransactionAccepted"), <<>>) = WrappedTransaction(t)
  BY DEF AcceptedJSON, Get, OrElse, WrappedTransaction, Apart, NotAnObject
<1>3. CASE t.version = "Deploy"
  <2>1. /\ TransactionWrapper(WrappedTransaction(t)) = [deploy |-> DeployJSON(t), transactionV1 |-> None]
        /\ newTransactionFromDeploy(DeployJSON(t)) = [hash |-> TrueHash(t), initiator |-> Sender(t)]
        /\ DeployJSON(t) # None
    BY <1>3, TransactionRead
  <2>. QED BY <1>1, <1>2, <2>1 DEF TransactionAcceptedEvent
<1>4. CASE t.version = "V1"
  <2>. DEFINE v1 == [hash |-> t.hash, initiator_addr |-> NodeInitiator(t)]
  <2>1. /\ TransactionWrapper(WrappedTransaction(t)) = [deploy |-> None, transactionV1 |-> v1]
        /\ fromTransactionV1(v1) = [hash |-> TrueHash(t), initiator |-> Sender(t)]
        /\ v1 # None
    BY <1>4, TransactionRead
  <2>. HIDE DEF v1
  <2>. QED BY <1>1, <1>2, <2>1 DEF TransactionAcceptedEvent
<1>. QED BY <1>3, <1>4

(* The finality event of either generation, read.                            *)
LEMMA HeardFinality ==
  ASSUME Apart, NEW g \in {1, 2}, NEW b, IsBlock(g, b), NEW signer
  PROVE  FinalitySignatureEvent(FinalitySignatureJSON(g, b, signer))
           = [blockHash |-> b.hash, publicKey |-> signer, blockHeight |-> IF b.gen = 2 THEN b.height ELSE None]
<1>. DEFINE told == FinalitySignatureJSON(g, b, signer).FinalitySignature
            signed == [block_hash |-> b.hash, public_key |-> signer]
            read == [blockHash |-> b.hash, publicKey |-> signer]
            nowhere == Merged([blockHeight |-> None], read)
<1>1. b.gen \in 1..g BY BlockFields
<1>2. FinalitySignatureV1(signed) = read /\ signed # None /\ read # None
  BY DEF FinalitySignatureV1, Apart, NotAnObject
<1>3. nowhere = [blockHash |-> b.hash, publicKey |-> signer, blockHeight |-> None]
  BY DEF Merged
<1>. HIDE DEF nowhere, read
<1>4. CASE g = 1
  <2>1. told = signed BY <1>4 DEF FinalitySignatureJSON
  <2>2. FinalitySignatureWrapper(signed) = [v1 |-> None, v2 |-> None]
    BY DEF FinalitySignatureWrapper, Member, Get
  <2>. QED BY <1>1, <1>2, <1>3, <1>4, <2>1, <2>2 DEF FinalitySignatureEvent, nowhere
<1>5. CASE g = 2 /\ b.gen = 1
  <2>1. told = [V1 |-> signed] BY <1>5 DEF FinalitySignatureJSON
  <2>2. FinalitySignatureWrapper(told).v1 = read
    BY <2>1, <1>2 DEF FinalitySignatureWrapper, Member, Get
  <2>. QED BY <1>2, <1>3, <1>5, <2>2 DEF FinalitySignatureEvent, nowhere
<1>6. CASE g = 2 /\ b.gen = 2
  <2>. DEFINE signedV2 == Merged([block_height |-> b.height], signed)
  <2>1. signedV2 = [block_height |-> b.height, block_hash |-> b.hash, public_key |-> signer]
    BY DEF Merged
  <2>2. told = [V2 |-> signedV2] BY <1>6 DEF FinalitySignatureJSON
  <2>. HIDE DEF signedV2
  <2>3. signedV2 # None BY <2>1 DEF Apart, NotAnObject
  <2>4. FinalitySignatureWrapper(told) =
          [v1 |-> None, v2 |-> [blockHash |-> b.hash, publicKey |-> signer, blockHeight |-> b.height]]
    BY <2>1, <2>2, <2>3 DEF FinalitySignatureWrapper, FinalitySignatureV2, Member, Get
  <2>5. [blockHash |-> b.hash, publicKey |-> signer, blockHeight |-> b.height] # None
    BY DEF Apart, NotAnObject
  <2>. QED BY <1>6, <2>4, <2>5 DEF FinalitySignatureEvent
<1>. QED BY <1>1, <1>4, <1>5, <1>6

(* The empty list is an object.                                              *)
LEMMA ListsAreObjects == ASSUME Apart PROVE <<>> # None /\ <<>> # Thrown
<1>1. \A e : e = <<>> => e = [n \in DOMAIN e |-> e[n]] OBVIOUS
<1>. QED BY <1>1 DEF Apart, NotAnObject

(* The processed event of either generation, read.                           *)
LEMMA HeardProcessed ==
  ASSUME Apart, NEW b, NEW t, t.hash # None, t.version \in {"Deploy", "V1"}
  PROVE  /\ TransactionProcessedEvent(ProcessedJSON(1, b, t)) = Thrown
         /\ TransactionProcessedEvent(ProcessedJSON(2, b, t))
              = [blockHash |-> b.hash, hash |-> TrueHash(t), initiator |-> Sender(t),
                 executionResult |-> ExecutionResultFromJSON(ResultJSON(b.gen, t))]
<1>1. TransactionProcessedEvent(ProcessedJSON(1, b, t)) = Thrown
  BY DEF TransactionProcessedEvent, ProcessedJSON, Get
<1>. DEFINE payload == [block_hash |-> b.hash, transaction_hash |-> NodeHash(t),
                        initiator_addr |-> NodeInitiator(t), execution_result |-> ResultJSON(b.gen, t)]
<1>2. NodeHash(t) # None /\ NodeInitiator(t) # None /\ ResultJSON(b.gen, t) # None /\ payload # None
  BY DEF NodeHash, NodeInitiator, ResultJSON, Apart, NotAnObject
<1>3. Get(ProcessedJSON(2, b, t), "TransactionProcessed") = payload
  BY DEF ProcessedJSON, Get
<1>4. TransactionHash(NodeHash(t)) = TrueHash(t)
  BY DEF TransactionHash, NodeHash, Get, TrueHash
<1>5. TransactionProcessedPayload(payload)
        = [blockHash |-> b.hash, hash |-> TrueHash(t), initiator |-> Sender(t),
           executionResult |-> ExecutionResultFromJSON(ResultJSON(b.gen, t))]
  BY <1>2, <1>4, SenderRead DEF TransactionProcessedPayload, Member, Get
<1>6. Get(payload, "transaction_hash") # None BY <1>2 DEF Get
<1>. HIDE DEF payload
<1>. QED BY <1>1, <1>2, <1>3, <1>5, <1>6 DEF TransactionProcessedEvent

(* Events name what they are about, and 1.x transaction events throw.        *)
LEMMA EventsRight == ASSUME Apart PROVE IInv => EventsTold
<1>. SUFFICES ASSUME IInv PROVE EventsTold
  OBVIOUS
<1>1. ASSUME NEW a \in answers, a.ask \in {"accepted", "expired", "processed"}
      PROVE  LET t == a.about.tx
                 sender == [publicKey |-> t.sender, accountHash |-> None]
             IN IF a.api = 1 THEN a.got = Thrown
                ELSE /\ a.ask = "expired" => a.got = TrueHash(t)
                     /\ a.ask = "accepted" => a.got = [hash |-> TrueHash(t), initiator |-> sender]
                     /\ a.ask = "processed" =>
                          /\ a.got.hash = TrueHash(t) /\ a.got.initiator = sender
                          /\ a.got.blockHash = a.about.block.hash
  <2>1. a.api \in {1, 2} /\ IsKnown(a.api, a.about) /\ RightOfTransaction(a)
    BY <1>1 DEF IInv, Right, RightOfTransaction
  <2>2. a.about.tx.hash # None /\ a.about.tx.version \in {"Deploy", "V1"}
    BY <2>1, KnownTransaction
  <2>3. CASE a.ask = "accepted"
    BY <2>1, <2>2, <2>3, HeardAccepted DEF RightOfTransaction, Sender
  <2>4. CASE a.ask = "expired"
    BY <2>1, <2>2, <2>4, HeardExpired DEF RightOfTransaction
  <2>5. CASE a.ask = "processed"
    BY <2>1, <2>2, <2>5, HeardProcessed DEF RightOfTransaction, Sender
  <2>. QED BY <1>1, <2>3, <2>4, <2>5
<1>2. ASSUME NEW a \in answers, a.ask = "finality"
      PROVE  /\ a.got.blockHash = a.about.hash
             /\ a.got.publicKey \in ToSet(a.about.proofs)
             /\ a.got.blockHeight = IF a.about.gen = 2 THEN a.about.height ELSE None
  <2>1. a.api \in {1, 2} /\ IsBlock(a.api, a.about) /\ RightOfBlock(a)
    BY <1>2 DEF IInv, Right, RightOfBlock
  <2>2. PICK signer \in ToSet(a.about.proofs) :
          a.got = FinalitySignatureEvent(FinalitySignatureJSON(a.api, a.about, signer))
    BY <1>2, <2>1 DEF RightOfBlock
  <2>. QED BY <2>1, <2>2, HeardFinality
<1>. QED BY <1>1, <1>2 DEF EventsTold, Kinded

-----------------------------------------------------------------------------
(* Outcomes of transactions *)
Transforms1(t) == EffectsV1JSON(t) \o (IF t.error = None THEN TransferWrites(t) ELSE <<>>)
Effects1(t) == [i \in DOMAIN Transforms1(t) |-> Transform(Transforms1(t)[i].key, Transforms1(t)[i].transform)]
Effects2(t) == [i \in DOMAIN t.effects |-> [key |-> t.effects[i].key, kind |-> EffectJSON(2, t.effects[i])]]
Transfers1(t) == IF t.error = None THEN TransfersOfEffects(Transforms1(t)) ELSE <<>>
Transfers2(t) ==
    Each(IF t.error = None THEN [i \in DOMAIN t.transfers |-> TransferJSON(2, TRUE, t, i)] ELSE <<>>,
         TransferFromJSON)
(* What the client makes of the outcome of t in a block of generation gen.   *)
Outcome(gen, t, who) ==
    LET ifDone1(value) == IF t.error = None THEN value ELSE None
    IN IF gen = 1
       THEN [initiator |-> who, errorMessage |-> t.error, limit |-> ifDone1(0), consumed |-> t.consumed,
             cost |-> ifDone1(t.cost), refund |-> ifDone1(0), currentPrice |-> ifDone1(1),
             transfers |-> Transfers1(t), effects |-> Effects1(t)]
       ELSE [initiator |-> who, errorMessage |-> t.error, limit |-> t.limit, consumed |-> t.consumed,
             cost |-> t.cost, refund |-> t.refund, currentPrice |-> t.price,
             transfers |-> Transfers2(t), effects |-> Effects2(t)]

(* A 1.x result made a result of the SDK.                                    *)
LEMMA ResultV1Read ==
  ASSUME Apart, NEW t, t.consumed = t.cost
  PROVE  ExecutionResultFromV1(ResultV1JSON(t)) = Outcome(1, t, None)
<1>. DEFINE effect == [transforms |-> Transforms1(t)]
            success == [cost |-> t.cost, effect |-> effect]
            failure == [cost |-> t.cost, effect |-> effect, error_message |-> t.error]
<1>1. EffectsOf(success) = Effects1(t) /\ EffectsOf(failure) = Effects1(t)
  BY DEF EffectsOf, Effects1
<1>2. success # None /\ failure # None BY DEF Apart, NotAnObject
<1>3. success.cost = t.cost /\ success.effect.transforms = Transforms1(t)
      /\ failure.cost = t.cost /\ failure.error_message = t.error
  OBVIOUS
<1>4. ResultV1JSON(t) = IF t.error = None THEN [Success |-> success] ELSE [Failure |-> failure]
  BY DEF ResultV1JSON, Transforms1
<1>. HIDE DEF success, failure
<1>5. CASE t.error = None
  <2>1. Get(ResultV1JSON(t), "Success") = success /\ ResultV1JSON(t).Success = success
    BY <1>4, <1>5 DEF Get
  <2>. QED BY <1>1, <1>2, <1>3, <1>5, <2>1
    DEF ExecutionResultFromV1, EmptyResult, Merged, Outcome, Transfers1
<1>6. CASE t.error # None
  <2>1. Get(ResultV1JSON(t), "Success") = None /\ Get(ResultV1JSON(t), "Failure") = failure
        /\ ResultV1JSON(t).Failure = failure BY <1>4, <1>6 DEF Get
  <2>. QED BY <1>1, <1>2, <1>3, <1>6, <2>1
    DEF ExecutionResultFromV1, EmptyResult, Merged, Outcome, Transfers1
<1>. QED BY <1>5, <1>6

(* A result in its version, made a result of the SDK.                        *)
LEMMA ResultRead ==
  ASSUME Apart, NEW t, NEW gen \in {1, 2}, gen = 1 => t.consumed = t.cost
  PROVE  ExecutionResultFromJSON(ResultJSON(gen, t)) = Outcome(gen, t, IF gen = 1 THEN None ELSE Sender(t))
<1>1. CASE gen = 1
  <2>1. ResultV1JSON(t) # None BY DEF ResultV1JSON, Apart, NotAnObject
  <2>. HIDE DEF ResultV1JSON
  <2>2. Get(ResultJSON(1, t), "Version2") = None /\ Get(ResultJSON(1, t), "Version1") = ResultV1JSON(t)
        /\ ResultJSON(1, t).Version1 = ResultV1JSON(t)
    BY DEF Get, ResultJSON
  <2>. QED BY <1>1, <2>1, <2>2, ResultV1Read DEF ExecutionResultFromJSON
<1>2. CASE gen = 2
  <2>. DEFINE json == ResultV2JSON(t)
  <2>1. json # None BY DEF ResultV2JSON, Apart, NotAnObject
  <2>2. Get(ResultJSON(2, t), "Version2") = json /\ ResultJSON(2, t).Version2 = json
    BY DEF Get, ResultJSON
  <2>3. ExecutionResultFromJSON(ResultJSON(2, t)) = ExecutionResultV2(json)
    <3>. HIDE DEF json
    <3>. QED BY <2>1, <2>2 DEF ExecutionResultFromJSON
  <2>4. /\ json.initiator = NodeInitiator(t) /\ json.error_message = t.error /\ json.limit = t.limit
        /\ json.consumed = t.consumed /\ json.cost = t.cost /\ json.refund = t.refund
        /\ json.current_price = t.price
        /\ json.transfers = IF t.error = None
                   THEN [i \in DOMAIN t.transfers |-> TransferJSON(2, TRUE, t, i)] ELSE <<>>
        /\ json.effects = Effects2(t)
    BY DEF ResultV2JSON, Effects2
  <2>. HIDE DEF json
  <2>5. Each(json.transfers, TransferFromJSON) = Transfers2(t)
    BY <2>4 DEF Each, Transfers2
  <2>6. [i \in DOMAIN json.effects |-> Transform(json.effects[i].key, json.effects[i].kind)] = Effects2(t)
    BY <2>4 DEF Effects2, Transform
  <2>7. InitiatorAddr(json.initiator) = Sender(t) BY <2>4, SenderRead
  <2>. QED BY <1>2, <2>3, <2>4, <2>5, <2>6, <2>7 DEF ExecutionResultV2, Outcome
<1>. QED BY <1>1, <1>2

(* What is told of where a transaction ran, and how it ended there.          *)
InfoOfKnown(k, info) ==
    IF k.block = None THEN info = None
    ELSE \E height \in {0, k.block.height}, who \in {None, Sender(k.tx)} :
            /\ info = [blockHash |-> k.block.hash, blockHeight |-> height,
                       executionResult |-> Outcome(k.block.gen, k.tx, who)]
            /\ k.block.gen = 2 => height = k.block.height /\ who = Sender(k.tx)
TellsOf(k, got) ==
    \E info : /\ InfoOfKnown(k, info)
              /\ got = [transaction |-> [hash |-> TrueHash(k.tx), initiator |-> Sender(k.tx)],
                        executionInfo |-> info]

(* A transaction that ran is one of its block's.                             *)
LEMMA KnownRan ==
  ASSUME Apart, NEW k, NEW g \in {1, 2}, IsKnown(g, k), k.block # None
  PROVE  k.block.gen \in {1, 2} /\ k.block.gen <= g /\ (k.block.gen = 1 => k.tx.consumed = k.tx.cost)
         /\ IsTransaction(k.block.gen, k.tx) /\ IsBlock(g, k.block) /\ k.tx \in ToSet(k.block.txs)
<1>1. IsBlock(g, k.block) /\ IsTransaction(k.block.gen, k.tx) /\ k.tx \in ToSet(k.block.txs)
  BY KnownTransaction
<1>2. k.block.gen \in 1..g BY <1>1, BlockFields
<1>. QED BY <1>1, <1>2 DEF IsTransaction

(* The execution info of a 2.x node, read.                                   *)
LEMMA InfoRead ==
  ASSUME Apart, NEW k, NEW g \in {1, 2}, IsKnown(g, k), k.block # None
  PROVE  /\ ExecutionInfo(ExecutionInfoJSON(k.block, k.tx)) # None
         /\ ExecutionInfo(ExecutionInfoJSON(k.block, k.tx)) # Thrown
         /\ InfoOfKnown(k, ExecutionInfo(ExecutionInfoJSON(k.block, k.tx)))
<1>. DEFINE b == k.block
            t == k.tx
            json == ExecutionInfoJSON(b, t)
            who == IF b.gen = 1 THEN None ELSE Sender(t)
<1>1. b.gen \in {1, 2} /\ (b.gen = 1 => t.consumed = t.cost) BY KnownRan
<1>2. ResultJSON(b.gen, t) # None BY DEF ResultJSON, Apart, NotAnObject
<1>. HIDE DEF b, t
<1>3. ExecutionInfo(json) = [blockHash |-> b.hash, blockHeight |-> b.height,
                             executionResult |-> ExecutionResultFromJSON(ResultJSON(b.gen, t))]
  BY <1>2 DEF ExecutionInfo, ExecutionInfoJSON, Member, Get
<1>4. ExecutionResultFromJSON(ResultJSON(b.gen, t)) = Outcome(b.gen, t, who)
  BY <1>1, ResultRead
<1>5. ExecutionInfo(json) # None /\ ExecutionInfo(json) # Thrown BY <1>3 DEF Apart, NotAnObject
<1>. QED BY <1>1, <1>3, <1>4, <1>5 DEF InfoOfKnown, b, t

(* A deploy made a transaction.                                              *)
LEMMA DeployRead ==
  ASSUME Apart, NEW k, NEW g \in {1, 2}, IsKnown(g, k), k.tx.version = "Deploy"
  PROVE  newTransactionFromDeploy(DeployJSON(k.tx)) = [hash |-> TrueHash(k.tx), initiator |-> Sender(k.tx)]
         /\ DeployJSON(k.tx) # None /\ DeployJSON(k.tx).account = k.tx.sender
  BY KnownTransaction, TransactionRead DEF DeployJSON

(* The execution info made of a 1.x answer, with a height or without.        *)
LEMMA InfoV1Read ==
  ASSUME Apart, NEW k, NEW g \in {1, 2}, IsKnown(g, k), k.block # None, k.block.gen = 1, NEW height,
         height \in {None, k.block.height}
  PROVE  LET results == <<[block_hash |-> k.block.hash, result |-> ResultV1JSON(k.tx)]>>
             info == ExecutionInfoFromV1(results, height)
         IN /\ info = [blockHash |-> k.block.hash, blockHeight |-> OrElse(height, 0),
                       executionResult |-> Outcome(1, k.tx, None)]
            /\ results # None /\ results # <<>> /\ InfoOfKnown(k, info)
            /\ [info EXCEPT !.executionResult.initiator = Sender(k.tx)] # Thrown
            /\ InfoOfKnown(k, [info EXCEPT !.executionResult.initiator = Sender(k.tx)])
<1>. DEFINE results == <<[block_hash |-> k.block.hash, result |-> ResultV1JSON(k.tx)]>>
            info == ExecutionInfoFromV1(results, height)
            named == [info EXCEPT !.executionResult.initiator = Sender(k.tx)]
<1>1. ExecutionResultFromV1(ResultV1JSON(k.tx)) = Outcome(1, k.tx, None) BY KnownRan, ResultV1Read
<1>2. results # <<>> /\ results[1].block_hash = k.block.hash /\ results[1].result = ResultV1JSON(k.tx)
  OBVIOUS
<1>3. info = [blockHash |-> k.block.hash, blockHeight |-> OrElse(height, 0),
              executionResult |-> Outcome(1, k.tx, None)]
  BY <1>1, <1>2 DEF ExecutionInfoFromV1
<1>4. results # None
  <2>1. \A x : <<x>> = [n \in DOMAIN <<x>> |-> <<x>>[n]] OBVIOUS
  <2>. QED BY <2>1 DEF Apart, NotAnObject
<1>5. OrElse(height, 0) \in {0, k.block.height} BY DEF OrElse
<1>6. InfoOfKnown(k, info) BY <1>3, <1>5 DEF InfoOfKnown
<1>7. named = [blockHash |-> k.block.hash, blockHeight |-> OrElse(height, 0),
               executionResult |-> [Outcome(1, k.tx, None) EXCEPT !.initiator = Sender(k.tx)]]
  <2>. HIDE DEF info
  <2>. QED BY <1>3
<1>8. [Outcome(1, k.tx, None) EXCEPT !.initiator = Sender(k.tx)] = Outcome(1, k.tx, Sender(k.tx))
  BY DEF Outcome
<1>9. named # Thrown BY <1>7 DEF Apart, NotAnObject
<1>10. InfoOfKnown(k, named)
  <2>. HIDE DEF named
  <2>. QED BY <1>5, <1>7, <1>8 DEF InfoOfKnown
<1>. QED BY <1>2, <1>3, <1>4, <1>6, <1>9, <1>10

(* What getDeploy's answer is made into tells of the deploy.                 *)
LEMMA DeployTold ==
  ASSUME Apart, NEW k, NEW g \in {1, 2}, IsKnown(g, k), k.tx.version = "Deploy", NEW withHeight \in BOOLEAN
  PROVE  TellsOf(k, ReadDeploy(DeployAnswer(g, k.block, k.tx, withHeight)))
<1>. DEFINE raw == DeployAnswer(g, k.block, k.tx, withHeight)
            read == InfoGetDeployResult(raw)
            results == <<[block_hash |-> k.block.hash, result |-> ResultV1JSON(k.tx)]>>
<1>1. newTransactionFromDeploy(DeployJSON(k.tx)) = [hash |-> TrueHash(k.tx), initiator |-> Sender(k.tx)]
  BY DeployRead
<1>2. \A info : toInfoGetTransactionResult([deploy |-> DeployJSON(k.tx), executionInfo |-> info,
                                            executionResultsV1 |-> <<>>])
          = [transaction |-> [hash |-> TrueHash(k.tx), initiator |-> Sender(k.tx)], executionInfo |-> info]
  BY <1>1 DEF toInfoGetTransactionResult, InfoGetTransactionResult
<1>3. CASE k.block = None
  <2>1. read = [deploy |-> DeployJSON(k.tx), executionInfo |-> None, executionResultsV1 |-> <<>>]
    BY <1>3 DEF DeployAnswer, InfoGetDeployResult, Member, Get, OrElse
  <2>. QED BY <1>2, <1>3, <2>1 DEF TellsOf, InfoOfKnown, ReadDeploy
<1>4. CASE k.block # None /\ g = 1
  <2>1. k.block.gen = 1 BY <1>4, KnownRan
  <2>2. results # None /\ results # <<>> /\ InfoOfKnown(k, ExecutionInfoFromV1(results, None))
    BY <1>4, <2>1, InfoV1Read
  <2>. HIDE DEF results
  <2>3. raw = [deploy |-> DeployJSON(k.tx), execution_results |-> results,
               block_height |-> IF ~withHeight THEN None ELSE k.block.height]
    BY <1>4 DEF DeployAnswer, results
  <2>. HIDE DEF raw
  <2>4. read = [deploy |-> DeployJSON(k.tx), executionInfo |-> None, executionResultsV1 |-> results]
    BY <2>2, <2>3 DEF InfoGetDeployResult, Member, Get, OrElse
  <2>5. toInfoGetTransactionResult(read) = [transaction |-> [hash |-> TrueHash(k.tx), initiator |-> Sender(k.tx)],
                                            executionInfo |-> ExecutionInfoFromV1(results, None)]
    BY <1>1, <2>2, <2>4 DEF toInfoGetTransactionResult, InfoGetTransactionResult
  <2>. QED BY <2>2, <2>5 DEF TellsOf, ReadDeploy, raw
<1>5. CASE k.block # None /\ g = 2
  <2>. DEFINE json == ExecutionInfoJSON(k.block, k.tx)
  <2>1. json # None BY DEF ExecutionInfoJSON, Apart, NotAnObject
  <2>2. InfoOfKnown(k, ExecutionInfo(json)) BY <1>5, InfoRead
  <2>. HIDE DEF json
  <2>3. raw = [deploy |-> DeployJSON(k.tx), execution_info |-> json]
    BY <1>5 DEF DeployAnswer, json
  <2>. HIDE DEF raw
  <2>4. read = [deploy |-> DeployJSON(k.tx), executionInfo |-> ExecutionInfo(json), executionResultsV1 |-> <<>>]
    BY <2>1, <2>3 DEF InfoGetDeployResult, Member, Get, OrElse
  <2>. QED BY <1>2, <2>2, <2>4 DEF TellsOf, ReadDeploy, raw
<1>. QED BY <1>3, <1>4, <1>5

(* What getTransaction's answer is read into tells of the transaction.       *)
LEMMA TransactionTold ==
  ASSUME Apart, NEW k, NEW g \in {1, 2}, IsKnown(g, k)
  PROVE  TellsOf(k, InfoGetTransactionResultFromJSON(TransactionAnswer(k.block, k.tx)))
<1>. DEFINE json == TransactionAnswer(k.block, k.tx)
            parsed == InfoGetTransactionResultV1Compatible(json)
            info == IF k.block = None THEN None ELSE ExecutionInfo(ExecutionInfoJSON(k.block, k.tx))
            answer == [transaction |-> [hash |-> TrueHash(k.tx), initiator |-> Sender(k.tx)],
                       executionInfo |-> info]
            v1 == [hash |-> k.tx.hash, initiator_addr |-> NodeInitiator(k.tx)]
<1>1. k.tx.hash # None /\ k.tx.version \in {"Deploy", "V1"} BY KnownTransaction
<1>2. InfoOfKnown(k, info) /\ info # Thrown BY InfoRead DEF InfoOfKnown, Apart
<1>3. ExecutionInfoJSON(k.block, k.tx) # None /\ WrappedTransaction(k.tx) # None
  BY DEF ExecutionInfoJSON, WrappedTransaction, Apart, NotAnObject
<1>4. parsed = [transaction |-> TransactionWrapper(WrappedTransaction(k.tx)), deploy |-> None,
                executionInfo |-> info, executionResults |-> <<>>, blockHeight |-> None]
  BY <1>3 DEF InfoGetTransactionResultV1Compatible, TransactionAnswer, Member, Get, OrElse
<1>5. TransactionWrapper(WrappedTransaction(k.tx)) # None
  BY DEF TransactionWrapper, Apart, NotAnObject
<1>. HIDE DEF info, parsed
<1>6. InfoOfResults(parsed) = info BY <1>4 DEF InfoOfResults
<1>7. OrElse(parsed.transaction, TransactionWrapper(<<>>)) = TransactionWrapper(WrappedTransaction(k.tx))
  BY <1>4, <1>5 DEF OrElse
<1>8. newInfoGetTransactionResultFromV1Compatible(parsed) = answer
  <2>1. CASE k.tx.version = "Deploy"
    <3>1. /\ TransactionWrapper(WrappedTransaction(k.tx)) = [deploy |-> DeployJSON(k.tx), transactionV1 |-> None]
          /\ newTransactionFromDeploy(DeployJSON(k.tx)) = [hash |-> TrueHash(k.tx), initiator |-> Sender(k.tx)]
          /\ DeployJSON(k.tx) # None
      BY <1>1, <2>1, TransactionRead
    <3>. QED BY <1>2, <1>6, <1>7, <3>1
      DEF newInfoGetTransactionResultFromV1Compatible, InfoGetTransactionResult
  <2>2. CASE k.tx.version = "V1"
    <3>1. /\ TransactionWrapper(WrappedTransaction(k.tx)) = [deploy |-> None, transactionV1 |-> v1]
          /\ fromTransactionV1(v1) = [hash |-> TrueHash(k.tx), initiator |-> Sender(k.tx)]
          /\ v1 # None
      BY <1>1, <2>2, TransactionRead
    <3>2. parsed.executionInfo = info BY <1>4
    <3>. HIDE DEF v1
    <3>. QED BY <1>7, <3>1, <3>2 DEF newInfoGetTransactionResultFromV1Compatible, InfoGetTransactionResult
  <2>. QED BY <1>1, <2>1, <2>2
<1>. QED BY <1>2, <1>8 DEF TellsOf, InfoGetTransactionResultFromJSON, parsed

(* A raw answer to getDeploy, read as getTransaction's, tells the same.      *)
LEMMA DeployRereadTold ==
  ASSUME Apart, NEW k, NEW g \in {1, 2}, IsKnown(g, k), k.tx.version = "Deploy", NEW withHeight \in BOOLEAN
  PROVE  TellsOf(k, InfoGetTransactionResultFromJSON(DeployAnswer(g, k.block, k.tx, withHeight)))
<1>. DEFINE raw == DeployAnswer(g, k.block, k.tx, withHeight)
            parsed == InfoGetTransactionResultV1Compatible(raw)
            results == <<[block_hash |-> k.block.hash, result |-> ResultV1JSON(k.tx)]>>
            height == IF ~withHeight THEN None ELSE k.block.height
            told(info) == [transaction |-> [hash |-> TrueHash(k.tx), initiator |-> Sender(k.tx)],
                           executionInfo |-> info]
<1>1. /\ newTransactionFromDeploy(DeployJSON(k.tx)) = [hash |-> TrueHash(k.tx), initiator |-> Sender(k.tx)]
      /\ DeployJSON(k.tx) # None /\ KeyInitiator(DeployJSON(k.tx).account) = Sender(k.tx)
  BY DeployRead, SenderRead
<1>2. TransactionWrapper(<<>>) = [deploy |-> None, transactionV1 |-> None]
  BY NothingRead DEF TransactionWrapper
<1>3. ASSUME NEW p, p.transaction = None, p.deploy = DeployJSON(k.tx),
             InfoOfResults(p) # Thrown, InfoOfKnown(k, InfoOfResults(p))
      PROVE  TellsOf(k, newInfoGetTransactionResultFromV1Compatible(p))
  <2>1. newInfoGetTransactionResultFromV1Compatible(p) = told(InfoOfResults(p))
    BY <1>1, <1>2, <1>3 DEF newInfoGetTransactionResultFromV1Compatible, OrElse, InfoGetTransactionResult
  <2>. QED BY <1>3, <2>1 DEF TellsOf
<1>4. CASE k.block = None
  <2>1. parsed = [transaction |-> None, deploy |-> DeployJSON(k.tx), executionInfo |-> None,
                  executionResults |-> <<>>, blockHeight |-> None]
    BY <1>4 DEF DeployAnswer, InfoGetTransactionResultV1Compatible, Member, Get, OrElse
  <2>. HIDE DEF parsed
  <2>2. InfoOfResults(parsed) = None BY <2>1 DEF InfoOfResults
  <2>3. TellsOf(k, newInfoGetTransactionResultFromV1Compatible(parsed))
    BY <1>3, <1>4, <2>1, <2>2 DEF InfoOfKnown, Apart
  <2>. QED BY <2>3 DEF InfoGetTransactionResultFromJSON, parsed
<1>5. CASE k.block # None /\ g = 1
  <2>1. k.block.gen = 1 BY <1>5, KnownRan
  <2>2. height \in {None, k.block.height} OBVIOUS
  <2>3. /\ results # None /\ results # <<>>
        /\ [ExecutionInfoFromV1(results, height) EXCEPT !.executionResult.initiator = Sender(k.tx)] # Thrown
        /\ InfoOfKnown(k, [ExecutionInfoFromV1(results, height) EXCEPT !.executionResult.initiator = Sender(k.tx)])
    <3>. HIDE DEF height
    <3>. QED BY <1>5, <2>1, <2>2, InfoV1Read
  <2>. HIDE DEF results
  <2>4. raw = [deploy |-> DeployJSON(k.tx), execution_results |-> results, block_height |-> height]
    BY <1>5 DEF DeployAnswer, results
  <2>. HIDE DEF raw, height
  <2>5. parsed = [transaction |-> None, deploy |-> DeployJSON(k.tx), executionInfo |-> None,
                  executionResults |-> results, blockHeight |-> height]
    BY <2>3, <2>4 DEF InfoGetTransactionResultV1Compatible, Member, Get, OrElse
  <2>. HIDE DEF parsed
  <2>6. InfoOfResults(parsed)
          = [ExecutionInfoFromV1(results, height) EXCEPT !.executionResult.initiator = Sender(k.tx)]
    BY <1>1, <2>3, <2>5 DEF InfoOfResults
  <2>7. TellsOf(k, newInfoGetTransactionResultFromV1Compatible(parsed))
    <3>1. parsed.transaction = None /\ parsed.deploy = DeployJSON(k.tx) BY <2>5
    <3>2. InfoOfResults(parsed) # Thrown /\ InfoOfKnown(k, InfoOfResults(parsed)) BY <2>3, <2>6
    <3>. QED BY <1>3, <3>1, <3>2
  <2>. QED BY <2>7 DEF InfoGetTransactionResultFromJSON, parsed, raw
<1>6. CASE k.block # None /\ g = 2
  <2>. DEFINE json == ExecutionInfoJSON(k.block, k.tx)
  <2>1. json # None BY DEF ExecutionInfoJSON, Apart, NotAnObject
  <2>2. InfoOfKnown(k, ExecutionInfo(json)) /\ ExecutionInfo(json) # Thrown BY <1>6, InfoRead
  <2>. HIDE DEF json
  <2>3. raw = [deploy |-> DeployJSON(k.tx), execution_info |-> json]
    BY <1>6 DEF DeployAnswer, json
  <2>. HIDE DEF raw
  <2>4. parsed = [transaction |-> None, deploy |-> DeployJSON(k.tx), executionInfo |-> ExecutionInfo(json),
                  executionResults |-> <<>>, blockHeight |-> None]
    BY <2>1, <2>3 DEF InfoGetTransactionResultV1Compatible, Member, Get, OrElse
  <2>. HIDE DEF parsed
  <2>5. InfoOfResults(parsed) = ExecutionInfo(json) BY <2>4 DEF InfoOfResults
  <2>6. TellsOf(k, newInfoGetTransactionResultFromV1Compatible(parsed))
    BY <1>3, <2>2, <2>4, <2>5
  <2>. QED BY <2>6 DEF InfoGetTransactionResultFromJSON, parsed, raw
<1>. QED BY <1>4, <1>5, <1>6

(* Whatever way the outcome was asked for.                                   *)
LEMMA AnswerTold ==
  ASSUME Apart, IInv, NEW a \in answers, a.ask \in {"deploy", "transaction", "reread"}
  PROVE  TellsOf(a.about, a.got) /\ a.api \in {1, 2} /\ IsKnown(a.api, a.about)
<1>1. a.api \in {1, 2} /\ IsKnown(a.api, a.about) /\ RightOfTransaction(a)
  BY DEF IInv, Right, RightOfTransaction
<1>2. CASE a.ask = "deploy" BY <1>1, <1>2, DeployTold DEF RightOfTransaction
<1>3. CASE a.ask = "transaction" BY <1>1, <1>3, TransactionTold DEF RightOfTransaction
<1>4. CASE a.ask = "reread"
  BY <1>1, <1>4, TransactionTold, DeployRereadTold DEF RightOfTransaction
<1>. QED BY <1>1, <1>2, <1>3, <1>4

(* The sender and the place of every outcome are told.                       *)
LEMMA WhoAndWhereRight == ASSUME Apart PROVE IInv => WhoAndWhere
<1>. SUFFICES ASSUME IInv, NEW a \in answers, a.ask \in {"deploy", "transaction", "reread"}
     PROVE  LET k == a.about
                sender == [publicKey |-> k.tx.sender, accountHash |-> None]
                info == a.got.executionInfo
            IN /\ a.got # Thrown
               /\ a.got.transaction = [hash |-> TrueHash(k.tx), initiator |-> sender]
               /\ (info # None) = Done(k)
               /\ Done(k) =>
                    /\ info.blockHash = k.block.hash
                    /\ info.blockHeight \in {0, k.block.height}
                    /\ info.executionResult.initiator \in {None, sender}
                    /\ k.block.gen = 2 => info.blockHeight = k.block.height
                                          /\ info.executionResult.initiator = sender
  BY DEF WhoAndWhere, Kinded
<1>1. PICK info : /\ InfoOfKnown(a.about, info)
                  /\ a.got = [transaction |-> [hash |-> TrueHash(a.about.tx), initiator |-> Sender(a.about.tx)],
                              executionInfo |-> info]
  BY AnswerTold DEF TellsOf
<1>2. a.got # Thrown BY <1>1 DEF Apart, NotAnObject
<1>3. CASE a.about.block = None
  BY <1>1, <1>2, <1>3 DEF InfoOfKnown, Done, Sender
<1>4. CASE a.about.block # None
  <2>1. PICK height \in {0, a.about.block.height}, who \in {None, Sender(a.about.tx)} :
            /\ info = [blockHash |-> a.about.block.hash, blockHeight |-> height,
                       executionResult |-> Outcome(a.about.block.gen, a.about.tx, who)]
            /\ a.about.block.gen = 2 => height = a.about.block.height /\ who = Sender(a.about.tx)
    BY <1>1, <1>4 DEF InfoOfKnown
  <2>2. info # None BY <2>1 DEF Apart, NotAnObject
  <2>3. info.executionResult.initiator = who BY <2>1 DEF Outcome
  <2>. QED BY <1>1, <1>2, <1>4, <2>1, <2>2, <2>3 DEF Done, Sender
<1>. QED BY <1>3, <1>4

(* The outcomes that were told, of the transactions they are about.          *)
LEMMA OutcomeIs ==
  ASSUME Apart, IInv, NEW o \in Outcomes
  PROVE  LET k == o.about
         IN /\ \E g \in {1, 2} : IsKnown(g, k)
            /\ k.block # None /\ k.block.gen \in {1, 2} /\ IsTransaction(k.block.gen, k.tx)
            /\ \E who : o.result = Outcome(k.block.gen, k.tx, who)
            /\ o.info # None => o.info.blockHeight \in {0, k.block.height}
<1>1. ASSUME NEW a \in answers, a.ask \in {"deploy", "transaction", "reread"},
             a.got # Thrown, a.got.executionInfo # None,
             o = [about |-> a.about, result |-> a.got.executionInfo.executionResult, info |-> a.got.executionInfo]
      PROVE  /\ \E g \in {1, 2} : IsKnown(g, o.about)
             /\ o.about.block # None /\ o.about.block.gen \in {1, 2}
             /\ IsTransaction(o.about.block.gen, o.about.tx)
             /\ \E who : o.result = Outcome(o.about.block.gen, o.about.tx, who)
             /\ o.info # None => o.info.blockHeight \in {0, o.about.block.height}
  <2>. DEFINE k == a.about
  <2>1. PICK info : /\ InfoOfKnown(k, info)
                    /\ a.got = [transaction |-> [hash |-> TrueHash(k.tx), initiator |-> Sender(k.tx)],
                                executionInfo |-> info]
    BY <1>1, AnswerTold DEF TellsOf
  <2>2. a.api \in {1, 2} /\ IsKnown(a.api, k) BY <1>1, AnswerTold
  <2>3. o.about = k /\ o.info = info /\ o.result = info.executionResult /\ info # None BY <1>1, <2>1
  <2>4. k.block # None BY <2>1, <2>3 DEF InfoOfKnown
  <2>5. k.block.gen \in {1, 2} /\ IsTransaction(k.block.gen, k.tx) BY <2>2, <2>4, KnownRan
  <2>6. PICK height \in {0, k.block.height}, who \in {None, Sender(k.tx)} :
            info = [blockHash |-> k.block.hash, blockHeight |-> height,
                    executionResult |-> Outcome(k.block.gen, k.tx, who)]
    BY <2>1, <2>4 DEF InfoOfKnown
  <2>. HIDE DEF k
  <2>. QED BY <2>2, <2>3, <2>4, <2>5, <2>6
<1>2. ASSUME NEW a \in answers, a.ask = "processed", a.got # Thrown,
             o = [about |-> a.about, result |-> a.got.executionResult, info |-> None]
      PROVE  /\ \E g \in {1, 2} : IsKnown(g, o.about)
             /\ o.about.block # None /\ o.about.block.gen \in {1, 2}
             /\ IsTransaction(o.about.block.gen, o.about.tx)
             /\ \E who : o.result = Outcome(o.about.block.gen, o.about.tx, who)
             /\ o.info # None => o.info.blockHeight \in {0, o.about.block.height}
  <2>. DEFINE k == a.about
  <2>1. a.api \in {1, 2} /\ IsKnown(a.api, k) /\ k.block # None
        /\ a.got = TransactionProcessedEvent(ProcessedJSON(a.api, k.block, k.tx))
    BY <1>2 DEF IInv, Right, RightOfTransaction
  <2>2. k.tx.hash # None /\ k.tx.version \in {"Deploy", "V1"} BY <2>1, KnownTransaction
  <2>3. k.block.gen \in {1, 2} /\ IsTransaction(k.block.gen, k.tx)
            /\ (k.block.gen = 1 => k.tx.consumed = k.tx.cost)
    BY <2>1, KnownRan
  <2>4. a.got.executionResult = ExecutionResultFromJSON(ResultJSON(k.block.gen, k.tx))
    BY <1>2, <2>1, <2>2, HeardProcessed
  <2>5. ExecutionResultFromJSON(ResultJSON(k.block.gen, k.tx))
          = Outcome(k.block.gen, k.tx, IF k.block.gen = 1 THEN None ELSE Sender(k.tx))
    BY <2>3, ResultRead
  <2>6. o.about = k /\ o.info = None /\ o.result = a.got.executionResult BY <1>2
  <2>. HIDE DEF k
  <2>. QED BY <2>1, <2>3, <2>4, <2>5, <2>6
<1>. QED BY <1>1, <1>2 DEF Outcomes, Kinded

(* Success, what was consumed and what it cost are told.                     *)
LEMMA OutcomesRight == ASSUME Apart PROVE IInv => OutcomeTrue
<1>. SUFFICES ASSUME IInv, NEW o \in Outcomes
     PROVE  LET t == o.about.tx
                gen == o.about.block.gen
            IN /\ o.result.errorMessage = t.error /\ o.result.consumed = t.consumed
               /\ o.result.cost = IF gen = 1 /\ t.error # None THEN None ELSE t.cost
               /\ gen = 2 => o.result.limit = t.limit /\ o.result.refund = t.refund
                            /\ o.result.currentPrice = t.price
  BY DEF OutcomeTrue
<1>1. PICK who : o.result = Outcome(o.about.block.gen, o.about.tx, who) BY OutcomeIs
<1>2. o.about.block.gen \in {1, 2} BY OutcomeIs
<1>. QED BY <1>1, <1>2 DEF Outcome

-----------------------------------------------------------------------------
(* Names *)
LEMMA SubSeqIs ==
  ASSUME NEW T, NEW m \in Seq(T), NEW i \in 0..Len(m), NEW j \in 0..Len(m)
  PROVE  LET sub == SubSeq(m, i + 1, j)
         IN /\ sub \in Seq(T) /\ Len(sub) = (IF i < j THEN j - i ELSE 0)
            /\ \A k \in 1..Len(sub) : sub[k] = m[i + k]
<1>. DEFINE sub == SubSeq(m, i + 1, j)
<1>1. \A k \in i + 1 .. j : m[k] \in T OBVIOUS
<1>2. i + 1 \in Int /\ j \in Int OBVIOUS
<1>3. sub \in Seq(T) /\ Len(sub) = (IF i + 1 <= j THEN j - (i + 1) + 1 ELSE 0)
      /\ \A k \in 1..j - (i + 1) + 1 : sub[k] = m[i + 1 + k - 1]
  BY <1>1, <1>2, SubSeqProperties
<1>4. Len(sub) = IF i < j THEN j - i ELSE 0 BY <1>3
<1>5. \A k \in 1..Len(sub) : sub[k] = m[i + k]
  <2>1. TAKE k \in 1..Len(sub)
  <2>2. i < j /\ k \in 1..j - (i + 1) + 1 /\ i + 1 + k - 1 = i + k BY <1>4
  <2>. HIDE DEF sub
  <2>. QED BY <1>3, <2>2
<1>. QED BY <1>3, <1>4, <1>5

(* Where a name is included in a member, position by position.               *)
LEMMA IncludesAt ==
  ASSUME NEW T, NEW m \in Seq(T), NEW n \in Seq(T), Len(n) # 0
  PROVE  Includes(m, n) <=> \E i \in Nat : i + Len(n) <= Len(m) /\ \A k \in 1..Len(n) : n[k] = m[i + k]
<1>1. ASSUME NEW i \in 0..Len(m), NEW j \in 0..Len(m), n = SubSeq(m, i + 1, j)
      PROVE  i + Len(n) <= Len(m) /\ \A k \in 1..Len(n) : n[k] = m[i + k]
  <2>1. Len(n) = (IF i < j THEN j - i ELSE 0) /\ \A k \in 1..Len(n) : n[k] = m[i + k] BY <1>1, SubSeqIs
  <2>2. Len(n) = j - i BY <2>1
  <2>. QED BY <2>1, <2>2
<1>2. ASSUME NEW i \in Nat, i + Len(n) <= Len(m), \A k \in 1..Len(n) : n[k] = m[i + k]
      PROVE  \E h \in 0..Len(m), j \in 0..Len(m) : n = SubSeq(m, h + 1, j)
  <2>. DEFINE j == i + Len(n)
              sub == SubSeq(m, i + 1, j)
  <2>1. i \in 0..Len(m) /\ j \in 0..Len(m) /\ i < j /\ j - i = Len(n) BY <1>2
  <2>2. sub \in Seq(T) /\ Len(sub) = Len(n) /\ \A k \in 1..Len(n) : sub[k] = m[i + k]
    <3>. HIDE DEF j
    <3>. QED BY <2>1, SubSeqIs
  <2>. HIDE DEF sub
  <2>3. n = sub
    <3>. HIDE DEF j
    <3>. QED BY <1>2, <2>2, SeqEqual
  <2>. QED BY <2>1, <2>3 DEF sub
<1>3. Includes(m, n) <=> \E i \in 0..Len(m), j \in 0..Len(m) : n = SubSeq(m, i + 1, j)
  BY DEF Includes, SubSeqs
<1>4. Includes(m, n) => \E i \in Nat : i + Len(n) <= Len(m) /\ \A k \in 1..Len(n) : n[k] = m[i + k]
  <2>1. SUFFICES ASSUME Includes(m, n)
                 PROVE  \E i \in Nat : i + Len(n) <= Len(m) /\ \A k \in 1..Len(n) : n[k] = m[i + k]
    OBVIOUS
  <2>2. PICK i \in 0..Len(m), j \in 0..Len(m) : n = SubSeq(m, i + 1, j) BY <1>3, <2>1
  <2>3. i \in Nat OBVIOUS
  <2>. QED BY <1>1, <2>2, <2>3
<1>. QED BY <1>2, <1>3, <1>4

(* A name that is included begins somewhere.                                 *)
Begins(m, n, i) == i + Len(n) <= Len(m) /\ \A k \in 1..Len(n) : n[k] = m[i + k]

(* The same, by the position where it begins.                                *)
LEMMA IncludesBegins ==
  ASSUME NEW T, NEW m \in Seq(T), NEW n \in Seq(T), Len(n) # 0
  PROVE  Includes(m, n) <=> \E i \in Nat : Begins(m, n, i)
<1>1. \A i : Begins(m, n, i) <=> i + Len(n) <= Len(m) /\ \A k \in 1..Len(n) : n[k] = m[i + k]
  BY DEF Begins
<1>2. Includes(m, n) <=> \E i \in Nat : i + Len(n) <= Len(m) /\ \A k \in 1..Len(n) : n[k] = m[i + k]
  BY IncludesAt
<1>. QED BY <1>1, <1>2, Zenon

(* The names that a member of one word includes.                             *)
LEMMA IncludesIn1 ==
  ASSUME NEW a
  PROVE  /\ \A x : Includes(<<a>>, <<x>>) <=> x = a
         /\ \A x, y : ~Includes(<<a>>, <<x, y>>)
         /\ \A x, y, z : ~Includes(<<a>>, <<x, y, z>>)
<1>1. ASSUME NEW x PROVE Includes(<<a>>, <<x>>) <=> x = a
  <2>. DEFINE T == {a, x}
              m == <<a>>
              n == <<x>>
  <2>1. m \in Seq(T) /\ n \in Seq(T) /\ Len(n) = 1 /\ Len(m) = 1 /\ n[1] = x /\ m[1] = a OBVIOUS
  <2>. HIDE DEF T, m, n
  <2>0. Len(n) # 0 BY <2>1
  <2>2. Includes(m, n) <=> \E i \in Nat : Begins(m, n, i) BY <2>1, <2>0, IncludesBegins, Zenon
  <2>3. (\E i \in Nat : Begins(m, n, i)) <=> x = a BY <2>1 DEF Begins
  <2>. QED BY <2>2, <2>3 DEF m, n
<1>2. ASSUME NEW x, NEW y PROVE ~Includes(<<a>>, <<x, y>>)
  <2>. DEFINE T == {a, x, y}
              m == <<a>>
              n == <<x, y>>
  <2>1. m \in Seq(T) /\ n \in Seq(T) /\ Len(n) = 2 /\ Len(m) = 1 OBVIOUS
  <2>. HIDE DEF T, m, n
  <2>0. Len(n) # 0 BY <2>1
  <2>2. Includes(m, n) <=> \E i \in Nat : Begins(m, n, i) BY <2>1, <2>0, IncludesBegins, Zenon
  <2>3. ~\E i \in Nat : Begins(m, n, i) BY <2>1 DEF Begins
  <2>. QED BY <2>2, <2>3 DEF m, n
<1>3. ASSUME NEW x, NEW y, NEW z PROVE ~Includes(<<a>>, <<x, y, z>>)
  <2>. DEFINE T == {a, x, y, z}
              m == <<a>>
              n == <<x, y, z>>
  <2>1. m \in Seq(T) /\ n \in Seq(T) /\ Len(n) = 3 /\ Len(m) = 1 OBVIOUS
  <2>. HIDE DEF T, m, n
  <2>0. Len(n) # 0 BY <2>1
  <2>2. Includes(m, n) <=> \E i \in Nat : Begins(m, n, i) BY <2>1, <2>0, IncludesBegins, Zenon
  <2>3. ~\E i \in Nat : Begins(m, n, i) BY <2>1 DEF Begins
  <2>. QED BY <2>2, <2>3 DEF m, n
<1>. QED BY <1>1, <1>2, <1>3

(* The names that a member of two words includes.                            *)
LEMMA IncludesIn2 ==
  ASSUME NEW a, NEW b
  PROVE  /\ \A x : Includes(<<a, b>>, <<x>>) <=> x \in {a, b}
         /\ \A x, y : Includes(<<a, b>>, <<x, y>>) <=> x = a /\ y = b
         /\ \A x, y, z : ~Includes(<<a, b>>, <<x, y, z>>)
<1>1. ASSUME NEW x PROVE Includes(<<a, b>>, <<x>>) <=> x \in {a, b}
  <2>. DEFINE T == {a, b, x}
              m == <<a, b>>
              n == <<x>>
  <2>1. m \in Seq(T) /\ n \in Seq(T) /\ Len(n) = 1 /\ Len(m) = 2 /\ n[1] = x /\ m[1] = a /\ m[2] = b
    OBVIOUS
  <2>. HIDE DEF T, m, n
  <2>0. Len(n) # 0 BY <2>1
  <2>2. Includes(m, n) <=> \E i \in Nat : Begins(m, n, i) BY <2>1, <2>0, IncludesBegins, Zenon
  <2>3. \A i \in Nat : Begins(m, n, i) => i \in {0, 1} BY <2>1 DEF Begins
  <2>4. (Begins(m, n, 0) <=> x = a) /\ (Begins(m, n, 1) <=> x = b) BY <2>1 DEF Begins
  <2>. QED BY <2>2, <2>3, <2>4 DEF m, n
<1>2. ASSUME NEW x, NEW y PROVE Includes(<<a, b>>, <<x, y>>) <=> x = a /\ y = b
  <2>. DEFINE T == {a, b, x, y}
              m == <<a, b>>
              n == <<x, y>>
  <2>1. m \in Seq(T) /\ n \in Seq(T) /\ Len(n) = 2 /\ Len(m) = 2
        /\ n[1] = x /\ n[2] = y /\ m[1] = a /\ m[2] = b OBVIOUS
  <2>. HIDE DEF T, m, n
  <2>0. Len(n) # 0 BY <2>1
  <2>2. Includes(m, n) <=> \E i \in Nat : Begins(m, n, i) BY <2>1, <2>0, IncludesBegins, Zenon
  <2>3. \A i \in Nat : Begins(m, n, i) => i = 0 BY <2>1 DEF Begins
  <2>4. Begins(m, n, 0) <=> x = a /\ y = b
    <3>1. Begins(m, n, 0) <=> \A k \in {1, 2} : n[k] = m[0 + k] BY <2>1 DEF Begins
    <3>. QED BY <2>1, <3>1
  <2>. QED BY <2>2, <2>3, <2>4 DEF m, n
<1>3. ASSUME NEW x, NEW y, NEW z PROVE ~Includes(<<a, b>>, <<x, y, z>>)
  <2>. DEFINE T == {a, b, x, y, z}
              m == <<a, b>>
              n == <<x, y, z>>
  <2>1. m \in Seq(T) /\ n \in Seq(T) /\ Len(n) = 3 /\ Len(m) = 2 OBVIOUS
  <2>. HIDE DEF T, m, n
  <2>0. Len(n) # 0 BY <2>1
  <2>2. Includes(m, n) <=> \E i \in Nat : Begins(m, n, i) BY <2>1, <2>0, IncludesBegins, Zenon
  <2>3. ~\E i \in Nat : Begins(m, n, i) BY <2>1 DEF Begins
  <2>. QED BY <2>2, <2>3 DEF m, n
<1>. QED BY <1>1, <1>2, <1>3

(* The names that a member of three words includes.                          *)
LEMMA IncludesIn3 ==
  ASSUME NEW a, NEW b, NEW c
  PROVE  /\ \A x : Includes(<<a, b, c>>, <<x>>) <=> x \in {a, b, c}
         /\ \A x, y : Includes(<<a, b, c>>, <<x, y>>) <=> (x = a /\ y = b) \/ (x = b /\ y = c)
         /\ \A x, y, z : Includes(<<a, b, c>>, <<x, y, z>>) <=> x = a /\ y = b /\ z = c
<1>1. ASSUME NEW x PROVE Includes(<<a, b, c>>, <<x>>) <=> x \in {a, b, c}
  <2>. DEFINE T == {a, b, c, x}
              m == <<a, b, c>>
              n == <<x>>
  <2>1. m \in Seq(T) /\ n \in Seq(T) /\ Len(n) = 1 /\ Len(m) = 3
        /\ n[1] = x /\ m[1] = a /\ m[2] = b /\ m[3] = c OBVIOUS
  <2>. HIDE DEF T, m, n
  <2>0. Len(n) # 0 BY <2>1
  <2>2. Includes(m, n) <=> \E i \in Nat : Begins(m, n, i) BY <2>1, <2>0, IncludesBegins, Zenon
  <2>3. \A i \in Nat : Begins(m, n, i) => i \in {0, 1, 2} BY <2>1 DEF Begins
  <2>4. (Begins(m, n, 0) <=> x = a) /\ (Begins(m, n, 1) <=> x = b) /\ (Begins(m, n, 2) <=> x = c)
    BY <2>1 DEF Begins
  <2>. QED BY <2>2, <2>3, <2>4 DEF m, n
<1>2. ASSUME NEW x, NEW y PROVE Includes(<<a, b, c>>, <<x, y>>) <=> (x = a /\ y = b) \/ (x = b /\ y = c)
  <2>. DEFINE T == {a, b, c, x, y}
              m == <<a, b, c>>
              n == <<x, y>>
  <2>1. m \in Seq(T) /\ n \in Seq(T) /\ Len(n) = 2 /\ Len(m) = 3
        /\ n[1] = x /\ n[2] = y /\ m[1] = a /\ m[2] = b /\ m[3] = c OBVIOUS
  <2>. HIDE DEF T, m, n
  <2>0. Len(n) # 0 BY <2>1
  <2>2. Includes(m, n) <=> \E i \in Nat : Begins(m, n, i) BY <2>1, <2>0, IncludesBegins, Zenon
  <2>3. \A i \in Nat : Begins(m, n, i) => i \in {0, 1} BY <2>1 DEF Begins
  <2>4. (Begins(m, n, 0) <=> x = a /\ y = b) /\ (Begins(m, n, 1) <=> x = b /\ y = c)
    <3>1. /\ Begins(m, n, 0) <=> \A k \in {1, 2} : n[k] = m[0 + k]
          /\ Begins(m, n, 1) <=> \A k \in {1, 2} : n[k] = m[1 + k]
      BY <2>1 DEF Begins
    <3>. QED BY <2>1, <3>1
  <2>. QED BY <2>2, <2>3, <2>4 DEF m, n
<1>3. ASSUME NEW x, NEW y, NEW z PROVE Includes(<<a, b, c>>, <<x, y, z>>) <=> x = a /\ y = b /\ z = c
  <2>. DEFINE T == {a, b, c, x, y, z}
              m == <<a, b, c>>
              n == <<x, y, z>>
  <2>1. m \in Seq(T) /\ n \in Seq(T) /\ Len(n) = 3 /\ Len(m) = 3
        /\ n[1] = x /\ n[2] = y /\ n[3] = z /\ m[1] = a /\ m[2] = b /\ m[3] = c OBVIOUS
  <2>. HIDE DEF T, m, n
  <2>0. Len(n) # 0 BY <2>1
  <2>2. Includes(m, n) <=> \E i \in Nat : Begins(m, n, i) BY <2>1, <2>0, IncludesBegins, Zenon
  <2>3. \A i \in Nat : Begins(m, n, i) => i = 0 BY <2>1 DEF Begins
  <2>4. Begins(m, n, 0) <=> x = a /\ y = b /\ z = c
    <3>1. Begins(m, n, 0) <=> \A k \in {1, 2, 3} : n[k] = m[0 + k] BY <2>1 DEF Begins
    <3>. QED BY <2>1, <3>1
  <2>. QED BY <2>2, <2>3, <2>4 DEF m, n
<1>. QED BY <1>1, <1>2, <1>3

(* The name of an object holds the rest of a longer name that it holds.      *)
LEMMA IncludesRest ==
  ASSUME NEW T, NEW m \in Seq(T), NEW first
  PROVE  /\ \A x : Includes(m, <<first, x>>) => Includes(m, <<x>>)
         /\ \A x, y : Includes(m, <<first, x, y>>) => Includes(m, <<x, y>>)
<1>1. ASSUME NEW x, Includes(m, <<first, x>>) PROVE Includes(m, <<x>>)
  <2>. DEFINE U == T \cup {first, x}
              n == <<first, x>>
              r == <<x>>
  <2>1. m \in Seq(U) /\ n \in Seq(U) /\ r \in Seq(U) /\ Len(n) = 2 /\ Len(r) = 1 /\ n[2] = x /\ r[1] = x
    OBVIOUS
  <2>2. Includes(m, n) BY <1>1
  <2>. HIDE DEF U, n, r
  <2>0. Len(n) # 0 /\ Len(r) # 0 BY <2>1
  <2>3. PICK i \in Nat : Begins(m, n, i) BY <2>1, <2>0, <2>2, IncludesBegins, Zenon
  <2>4. i + 1 \in Nat /\ Begins(m, r, i + 1) BY <2>1, <2>3 DEF Begins
  <2>5. Includes(m, r) BY <2>1, <2>0, <2>4, IncludesBegins, Zenon
  <2>. QED BY <2>5 DEF r
<1>2. ASSUME NEW x, NEW y, Includes(m, <<first, x, y>>) PROVE Includes(m, <<x, y>>)
  <2>. DEFINE U == T \cup {first, x, y}
              n == <<first, x, y>>
              r == <<x, y>>
  <2>1. m \in Seq(U) /\ n \in Seq(U) /\ r \in Seq(U) /\ Len(n) = 3 /\ Len(r) = 2
        /\ n[2] = x /\ n[3] = y /\ r[1] = x /\ r[2] = y OBVIOUS
  <2>2. Includes(m, n) BY <1>2
  <2>. HIDE DEF U, n, r
  <2>0. Len(n) # 0 /\ Len(r) # 0 BY <2>1
  <2>3. PICK i \in Nat : Begins(m, n, i) BY <2>1, <2>0, <2>2, IncludesBegins, Zenon
  <2>4. i + 1 \in Nat /\ Begins(m, r, i + 1) BY <2>1, <2>3 DEF Begins
  <2>5. Includes(m, r) BY <2>1, <2>0, <2>4, IncludesBegins, Zenon
  <2>. QED BY <2>5 DEF r
<1>. QED BY <1>1, <1>2

(* The names of the kinds.                                                   *)
OneWord == {"Transfer", "Withdraw", "Package", "Message", "Unbonding", "Contract", "Account"}
First ==
    [CLValue |-> "CL", ContractPackage |-> "Contract", DeployInfo |-> "Deploy",
     AddressableEntity |-> "Addressable", BidKind |-> "Bid", NamedKey |-> "Named",
     MessageTopic |-> "Message", AddUInt512 |-> "Add"]
Second ==
    [CLValue |-> "Value", ContractPackage |-> "Package", DeployInfo |-> "Info",
     AddressableEntity |-> "Entity", BidKind |-> "Kind", NamedKey |-> "Key",
     MessageTopic |-> "Topic", AddUInt512 |-> "UInt512"]
TwoWords == {"CLValue", "ContractPackage", "DeployInfo", "AddressableEntity", "BidKind", "NamedKey",
             "MessageTopic", "AddUInt512"}

(* The words of the kinds' names.                                            *)
LEMMA NameIs ==
  /\ \A k \in OneWord : Name(k) = <<k>>
  /\ \A k \in TwoWords : Name(k) = <<First[k], Second[k]>>
  BY DEF OneWord, TwoWords, Name, First, Second

(* Which words the names of two kinds have in common.                        *)
LEMMA WordsDiffer ==
  /\ "Write" \notin OneWord /\ "Identity" \notin OneWord
  /\ \A k \in TwoWords : First[k] # "Write" /\ First[k] # "Identity"
  /\ \A kind \in TwoWords, k \in OneWord : k \in {First[kind], Second[kind]} => <<kind, k>> \in Confused
  /\ \A kind, k \in TwoWords : First[k] = First[kind] /\ Second[k] = Second[kind] => k = kind
  /\ OneWord \cap TwoWords = {}
  BY DEF OneWord, TwoWords, First, Second, Confused

(* The paths where each kind is parsed.                                      *)
LEMMA PathsAre ==
  /\ Kinds = OneWord \cup TwoWords
  /\ \A k \in {"Transfer", "Withdraw", "Unbonding", "DeployInfo"} : Paths[k] = {Flat(k)}
  /\ \A k \in {"AddressableEntity", "Package", "BidKind", "NamedKey", "Message", "MessageTopic", "Contract",
               "ContractPackage"} : Paths[k] = {Nested(k)}
  /\ Paths["AddUInt512"] = {<<Name("AddUInt512")>>}
  /\ \A k \in {"CLValue", "Account"} : Paths[k] = {Flat(k), Nested(k)}
<1>1. /\ DOMAIN PathsOfWrites = {"Transfer", "Withdraw"}
      /\ DOMAIN PathsOfEntities = {"AddressableEntity", "Package", "BidKind", "NamedKey", "Message", "MessageTopic"}
      /\ DOMAIN PathsOfAmounts = {"Unbonding", "DeployInfo", "AddUInt512"}
      /\ DOMAIN PathsOfValues = {"CLValue"} /\ DOMAIN PathsOfContracts = {"Contract", "ContractPackage"}
      /\ DOMAIN PathsOfAccounts = {"Account"}
  BY DEF PathsOfWrites, PathsOfEntities, PathsOfAmounts, PathsOfValues, PathsOfContracts, PathsOfAccounts
<1>. DEFINE p4 == Merged(PathsOfContracts, PathsOfAccounts)
            p3 == Merged(PathsOfValues, p4)
            p2 == Merged(PathsOfAmounts, p3)
            p1 == Merged(PathsOfWrites, PathsOfEntities)
<1>5. Paths = Merged(p1, p2) BY DEF Paths
<1>. HIDE DEF p1, p2, p3, p4
<1>6. DOMAIN p4 = {"Contract", "ContractPackage", "Account"} /\ p4["Account"] = PathsOfAccounts["Account"]
      /\ \A k \in {"Contract", "ContractPackage"} : p4[k] = PathsOfContracts[k]
  BY <1>1 DEF p4, Merged
<1>7. DOMAIN p3 = {"CLValue", "Contract", "ContractPackage", "Account"}
          /\ p3["CLValue"] = PathsOfValues["CLValue"]
      /\ \A k \in {"Contract", "ContractPackage", "Account"} : p3[k] = p4[k]
  BY <1>1, <1>6 DEF p3, Merged
<1>8. DOMAIN p2 = {"Unbonding", "DeployInfo", "AddUInt512", "CLValue", "Contract", "ContractPackage", "Account"}
      /\ (\A k \in {"Unbonding", "DeployInfo", "AddUInt512"} : p2[k] = PathsOfAmounts[k])
      /\ \A k \in {"CLValue", "Contract", "ContractPackage", "Account"} : p2[k] = p3[k]
  BY <1>1, <1>7 DEF p2, Merged
<1>9. DOMAIN p1 = {"Transfer", "Withdraw", "AddressableEntity", "Package", "BidKind", "NamedKey", "Message",
                   "MessageTopic"}
      /\ (\A k \in {"Transfer", "Withdraw"} : p1[k] = PathsOfWrites[k])
      /\ \A k \in {"AddressableEntity", "Package", "BidKind", "NamedKey", "Message", "MessageTopic"} :
           p1[k] = PathsOfEntities[k]
  BY <1>1 DEF p1, Merged
<1>10. (\A k \in DOMAIN p1 : Paths[k] = p1[k])
           /\ (\A k \in DOMAIN p2 : k \notin DOMAIN p1 => Paths[k] = p2[k])
  BY <1>5 DEF Merged
<1>11. (\A k \in {"Transfer", "Withdraw"} : PathsOfWrites[k] = {Flat(k)})
       /\ PathsOfAmounts["Unbonding"] = {Flat("Unbonding")}
       /\ PathsOfAmounts["DeployInfo"] = {Flat("DeployInfo")}
       /\ PathsOfAmounts["AddUInt512"] = {<<Name("AddUInt512")>>}
       /\ PathsOfValues["CLValue"] = {Flat("CLValue"), Nested("CLValue")}
       /\ (\A k \in {"Contract", "ContractPackage"} : PathsOfContracts[k] = {Nested(k)})
       /\ PathsOfAccounts["Account"] = {Flat("Account"), Nested("Account")}
       /\ \A k \in {"AddressableEntity", "Package", "BidKind", "NamedKey", "Message", "MessageTopic"} :
            PathsOfEntities[k] = {Nested(k)}
  BY DEF PathsOfWrites, PathsOfEntities, PathsOfAmounts, PathsOfValues, PathsOfContracts, PathsOfAccounts
<1>12. Kinds = DOMAIN p1 \cup DOMAIN p2 BY <1>5 DEF Kinds, Merged
<1>. QED BY <1>6, <1>7, <1>8, <1>9, <1>10, <1>11, <1>12 DEF OneWord, TwoWords

(* The ways an effect is written.                                            *)
AsWord(d, e) == e.kind = "Identity" /\ d.plain = TRUE /\ d.path = <<<<"Identity">>>>
AsAddition(d, e) == e.kind = "AddUInt512" /\ d.plain = FALSE /\ d.path = <<<<"Add", "UInt512">>>>
AsFlat(d, e) ==
    /\ e.kind \in KindsOf(1) \cup {"Transfer"} /\ e.kind # "AddUInt512"
    /\ e.kind \in {"Contract", "ContractPackage"} => d.plain = TRUE
    /\ e.kind \notin {"Contract", "ContractPackage"} => d.plain = FALSE
    /\ d.path = <<<<"Write">> \o Name(e.kind)>>
AsNested(d, e) ==
    e.kind \in KindsOf(2) \ {"AddUInt512"} /\ d.plain = FALSE /\ d.path = <<<<"Write">>, Name(e.kind)>>

(* How each generation writes an effect.                                     *)
LEMMA EffectWritten ==
  ASSUME NEW gen \in {1, 2}, NEW e, e.kind \in {"Identity"} \cup KindsOf(gen)
  PROVE  LET d == EffectJSON(gen, e)
         IN /\ AsWord(d, e) \/ AsAddition(d, e) \/ (gen = 1 /\ AsFlat(d, e)) \/ (gen = 2 /\ AsNested(d, e))
            /\ d.value = e.value /\ d.plain \in BOOLEAN
            /\ d.inside = IF d.plain THEN {} ELSE e.inside
<1>. DEFINE d == EffectJSON(gen, e)
            bare == e.kind = "Identity" \/ (gen = 1 /\ e.kind \in {"Contract", "ContractPackage"})
<1>1. d.plain = (IF bare THEN TRUE ELSE FALSE) /\ d.value = e.value
          /\ d.inside = (IF bare THEN {} ELSE e.inside)
      /\ d.path = IF e.kind = "Identity" THEN <<<<"Identity">>>>
                ELSE IF gen = 1 \/ e.kind = "AddUInt512"
                THEN <<IF e.kind = "AddUInt512" THEN Name(e.kind) ELSE <<"Write">> \o Name(e.kind)>>
                ELSE <<<<"Write">>, Name(e.kind)>>
  BY DEF EffectJSON
<1>. HIDE DEF d
<1>2. Name("AddUInt512") = <<"Add", "UInt512">> BY NameIs DEF TwoWords, First, Second
<1>3. e.kind = "Identity" => AsWord(d, e) BY <1>1 DEF AsWord
<1>4. e.kind = "AddUInt512" => AsAddition(d, e) BY <1>1, <1>2 DEF AsAddition
<1>5. ASSUME e.kind \notin {"Identity", "AddUInt512"}, gen = 1 PROVE AsFlat(d, e)
  <2>1. e.kind \in KindsOf(1) BY <1>5
  <2>2. d.path = <<<<"Write">> \o Name(e.kind)>> BY <1>1, <1>5
  <2>3. /\ e.kind \in {"Contract", "ContractPackage"} => d.plain = TRUE
        /\ e.kind \notin {"Contract", "ContractPackage"} => d.plain = FALSE
    BY <1>1, <1>5
  <2>. QED BY <1>5, <2>1, <2>2, <2>3 DEF AsFlat
<1>6. e.kind \notin {"Identity", "AddUInt512"} /\ gen = 2 => AsNested(d, e) BY <1>1 DEF AsNested
<1>7. d.plain \in BOOLEAN /\ d.inside = IF d.plain THEN {} ELSE e.inside BY <1>1
<1>8. AsWord(d, e) \/ AsAddition(d, e) \/ (gen = 1 /\ AsFlat(d, e)) \/ (gen = 2 /\ AsNested(d, e))
  BY <1>3, <1>4, <1>5, <1>6
<1>. QED BY <1>1, <1>7, <1>8 DEF d

PathHas(d, name) == \E i \in DOMAIN d.path : Includes(d.path[i], name)

(* An effect is recognised by its path or by a member of its value.          *)
LEMMA TransformationIs ==
  ASSUME NEW d, NEW name
  PROVE  isTransformation(d, name) <=> PathHas(d, name) \/ \E member \in d.inside : Includes(member, name)
  BY DEF isTransformation, PathHas

(* What a path of one member, and of two, includes.                          *)
LEMMA PathHasIs ==
  ASSUME NEW d, NEW name
  PROVE  /\ \A m : d.path = <<m>> => (PathHas(d, name) <=> Includes(m, name))
         /\ \A m, n : d.path = <<m, n>> => (PathHas(d, name) <=> Includes(m, name) \/ Includes(n, name))
  BY DEF PathHas

(* The kinds of both generations have one word or two.                       *)
LEMMA KindsWritten ==
  /\ \A kind \in KindsOf(1) \cup KindsOf(2) \cup {"Transfer"} : kind \in OneWord \cup TwoWords
  /\ \A kind \in KindsOf(1) \cup KindsOf(2) : kind # "Transfer"
  BY DEF KindsOf, OneWord, TwoWords

(* The names with the word Write before them.                                *)
LEMMA Prefixed ==
  /\ \A k \in OneWord : <<"Write">> \o Name(k) = <<"Write", k>>
  /\ \A k \in TwoWords : <<"Write">> \o Name(k) = <<"Write", First[k], Second[k]>>
<1>1. ASSUME NEW x PROVE <<"Write">> \o <<x>> = <<"Write", x>>
  <2>. DEFINE T == {"Write", x}
              s == <<"Write">>
              t == <<x>>
  <2>1. s \in Seq(T) /\ t \in Seq(T) /\ Len(s) = 1 /\ Len(t) = 1 /\ s[1] = "Write" /\ t[1] = x OBVIOUS
  <2>. DEFINE r == <<"Write", x>>
  <2>2. r \in Seq(T) /\ Len(r) = 2 /\ r[1] = "Write" /\ r[2] = x OBVIOUS
  <2>. HIDE DEF s, t, r, T
  <2>3. s \o t \in Seq(T) /\ Len(s \o t) = Len(s) + Len(t)
        /\ \A i \in 1..Len(s) + Len(t) : (s \o t)[i] = IF i <= Len(s) THEN s[i] ELSE t[i - Len(s)]
    BY <2>1, ConcatProperties
  <2>4. 1 + 1 = 2 /\ 1 \in 1..2 /\ 2 \in 1..2 /\ 2 - 1 = 1 /\ ~(2 <= 1) /\ 1..2 = {1, 2} OBVIOUS
  <2>5. (s \o t)[1] = s[1] /\ (s \o t)[2] = t[1] BY <2>1, <2>3, <2>4
  <2>6. \A i \in 1..Len(r) : (s \o t)[i] = r[i] BY <2>1, <2>2, <2>4, <2>5
  <2>7. s \o t = r BY <2>1, <2>2, <2>3, <2>4, <2>6, SeqEqual
  <2>. QED BY <2>7 DEF s, t, r
<1>2. ASSUME NEW x, NEW y PROVE <<"Write">> \o <<x, y>> = <<"Write", x, y>>
  <2>. DEFINE T == {"Write", x, y}
              s == <<"Write">>
              t == <<x, y>>
  <2>1. s \in Seq(T) /\ t \in Seq(T) /\ Len(s) = 1 /\ Len(t) = 2 /\ s[1] = "Write" /\ t[1] = x /\ t[2] = y
    OBVIOUS
  <2>. DEFINE r == <<"Write", x, y>>
  <2>2. r \in Seq(T) /\ Len(r) = 3 /\ r[1] = "Write" /\ r[2] = x /\ r[3] = y OBVIOUS
  <2>. HIDE DEF s, t, r, T
  <2>3. s \o t \in Seq(T) /\ Len(s \o t) = Len(s) + Len(t)
        /\ \A i \in 1..Len(s) + Len(t) : (s \o t)[i] = IF i <= Len(s) THEN s[i] ELSE t[i - Len(s)]
    BY <2>1, ConcatProperties
  <2>4. 1 + 2 = 3 /\ 2 - 1 = 1 /\ 3 - 1 = 2 /\ ~(2 <= 1) /\ ~(3 <= 1) /\ 1..3 = {1, 2, 3} OBVIOUS
  <2>5. (s \o t)[1] = s[1] /\ (s \o t)[2] = t[1] /\ (s \o t)[3] = t[2] BY <2>1, <2>3, <2>4
  <2>6. \A i \in 1..Len(r) : (s \o t)[i] = r[i] BY <2>1, <2>2, <2>4, <2>5
  <2>7. s \o t = r BY <2>1, <2>2, <2>3, <2>4, <2>6, SeqEqual
  <2>. QED BY <2>7 DEF s, t, r
<1>. QED BY <1>1, <1>2, NameIs

Written(d, e) == AsWord(d, e) \/ AsAddition(d, e) \/ AsFlat(d, e) \/ AsNested(d, e)

(* Which names of kinds are found in what was written.                       *)
LEMMA NamesFound ==
  ASSUME NEW d, NEW e, Written(d, e), NEW k \in Kinds, PathHas(d, Name(k)), k # e.kind
  PROVE  <<e.kind, k>> \in Confused
<1>1. k \in OneWord \cup TwoWords BY PathsAre
<1>2. CASE AsWord(d, e)
  <2>1. Includes(<<"Identity">>, Name(k)) BY <1>2, PathHasIs DEF AsWord
  <2>. QED BY <1>1, <2>1, NameIs, WordsDiffer, IncludesIn1
<1>3. CASE AsAddition(d, e)
  <2>1. Includes(<<"Add", "UInt512">>, Name(k)) BY <1>3, PathHasIs DEF AsAddition
  <2>2. CASE k \in OneWord
    <3>1. k \in {"Add", "UInt512"} BY <2>1, <2>2, NameIs, IncludesIn2
    <3>. QED BY <2>2, <3>1 DEF OneWord
  <2>3. CASE k \in TwoWords
    <3>1. First[k] = "Add" /\ Second[k] = "UInt512" BY <2>1, <2>3, NameIs, IncludesIn2
    <3>2. "AddUInt512" \in TwoWords /\ First["AddUInt512"] = "Add" /\ Second["AddUInt512"] = "UInt512"
      BY DEF TwoWords, First, Second
    <3>3. k = "AddUInt512" BY <2>3, <3>1, <3>2, WordsDiffer
    <3>. QED BY <1>3, <3>3 DEF AsAddition
  <2>. QED BY <1>1, <2>2, <2>3
<1>4. CASE AsFlat(d, e)
  <2>1. Includes(<<"Write">> \o Name(e.kind), Name(k)) BY <1>4, PathHasIs DEF AsFlat
  <2>2. e.kind \in OneWord \cup TwoWords BY <1>4, KindsWritten DEF AsFlat
  <2>3. CASE e.kind \in OneWord
    <3>1. Includes(<<"Write", e.kind>>, Name(k)) BY <2>1, <2>3, Prefixed
    <3>2. CASE k \in OneWord
      <4>1. k \in {"Write", e.kind} BY <3>1, <3>2, NameIs, IncludesIn2
      <4>. QED BY <3>2, <4>1, WordsDiffer
    <3>3. CASE k \in TwoWords
      <4>1. First[k] = "Write" BY <3>1, <3>3, NameIs, IncludesIn2
      <4>. QED BY <3>3, <4>1, WordsDiffer
    <3>. QED BY <1>1, <3>2, <3>3
  <2>4. CASE e.kind \in TwoWords
    <3>1. Includes(<<"Write", First[e.kind], Second[e.kind]>>, Name(k)) BY <2>1, <2>4, Prefixed
    <3>2. CASE k \in OneWord
      <4>1. k \in {"Write", First[e.kind], Second[e.kind]} BY <3>1, <3>2, NameIs, IncludesIn3
      <4>. QED BY <2>4, <3>2, <4>1, WordsDiffer
    <3>3. CASE k \in TwoWords
      <4>1. First[k] = "Write" \/ (First[k] = First[e.kind] /\ Second[k] = Second[e.kind])
        BY <3>1, <3>3, NameIs, IncludesIn3
      <4>. QED BY <2>4, <3>3, <4>1, WordsDiffer
    <3>. QED BY <1>1, <3>2, <3>3
  <2>. QED BY <2>2, <2>3, <2>4
<1>5. CASE AsNested(d, e)
  <2>1. Includes(<<"Write">>, Name(k)) \/ Includes(Name(e.kind), Name(k)) BY <1>5, PathHasIs DEF AsNested
  <2>2. e.kind \in OneWord \cup TwoWords BY <1>5, KindsWritten DEF AsNested
  <2>3. ~Includes(<<"Write">>, Name(k)) BY <1>1, NameIs, IncludesIn1, WordsDiffer
  <2>4. CASE e.kind \in OneWord
    BY <1>1, <2>1, <2>3, <2>4, NameIs, IncludesIn1
  <2>5. CASE e.kind \in TwoWords
    <3>1. Includes(<<First[e.kind], Second[e.kind]>>, Name(k)) BY <2>1, <2>3, <2>5, NameIs
    <3>2. CASE k \in OneWord
      <4>1. k \in {First[e.kind], Second[e.kind]} BY <3>1, <3>2, NameIs, IncludesIn2
      <4>. QED BY <2>5, <3>2, <4>1, WordsDiffer
    <3>3. CASE k \in TwoWords
      <4>1. First[k] = First[e.kind] /\ Second[k] = Second[e.kind]
        BY <3>1, <3>3, NameIs, IncludesIn2
      <4>. QED BY <2>5, <3>3, <4>1, WordsDiffer
    <3>. QED BY <1>1, <3>2, <3>3
  <2>. QED BY <2>2, <2>4, <2>5
<1>. QED BY <1>2, <1>3, <1>4, <1>5 DEF Written

(* The members of what was written are sequences of words.                   *)
Worded(d) == \A i \in DOMAIN d.path : IsList(d.path[i])

(* Paths of one member and of two that are lists of words.                   *)
LEMMA WordedIs ==
  ASSUME NEW d
  PROVE  /\ \A m : d.path = <<m>> /\ IsList(m) => Worded(d)
         /\ \A m, n : d.path = <<m, n>> /\ IsList(m) /\ IsList(n) => Worded(d)
  BY DEF Worded

(* Names of one, two and three words are lists.                              *)
LEMMA WordsAreLists ==
  /\ \A x : IsList(<<x>>)
  /\ \A x, y : IsList(<<x, y>>)
  /\ \A x, y, z : IsList(<<x, y, z>>)
<1>1. ASSUME NEW T, NEW s \in Seq(T) PROVE IsList(s)
  <2>1. \A i \in 1..Len(s) : s[i] \in ToSet(s) BY DEF ToSet
  <2>. QED BY <2>1 DEF IsList
<1>2. \A x : <<x>> \in Seq({x}) OBVIOUS
<1>3. \A x, y : <<x, y>> \in Seq({x, y}) OBVIOUS
<1>4. \A x, y, z : <<x, y, z>> \in Seq({x, y, z}) OBVIOUS
<1>. QED BY <1>1, <1>2, <1>3, <1>4, Zenon

(* Every effect is written with lists of words.                              *)
LEMMA WrittenWorded ==
  ASSUME NEW d, NEW e, Written(d, e)
  PROVE  Worded(d)
<1>1. \A k \in OneWord \cup TwoWords : IsList(Name(k)) /\ IsList(<<"Write">> \o Name(k))
  <2>1. ASSUME NEW k \in OneWord PROVE IsList(Name(k)) /\ IsList(<<"Write">> \o Name(k))
    <3>1. Name(k) = <<k>> /\ <<"Write">> \o Name(k) = <<"Write", k>> BY <2>1, NameIs, Prefixed
    <3>2. IsList(<<k>>) /\ IsList(<<"Write", k>>) BY WordsAreLists
    <3>. QED BY <3>1, <3>2, Zenon
  <2>2. ASSUME NEW k \in TwoWords PROVE IsList(Name(k)) /\ IsList(<<"Write">> \o Name(k))
    <3>1. Name(k) = <<First[k], Second[k]>> /\ <<"Write">> \o Name(k) = <<"Write", First[k], Second[k]>>
      BY <2>2, NameIs, Prefixed
    <3>2. IsList(<<First[k], Second[k]>>) /\ IsList(<<"Write", First[k], Second[k]>>) BY WordsAreLists
    <3>. QED BY <3>1, <3>2, Zenon
  <2>. QED BY <2>1, <2>2
<1>3. AsWord(d, e) => Worded(d)
  <2>1. IsList(<<"Identity">>) BY WordsAreLists
  <2>. QED BY <2>1, WordedIs, Zenon DEF AsWord
<1>4. AsAddition(d, e) => Worded(d)
  <2>1. IsList(<<"Add", "UInt512">>) BY WordsAreLists
  <2>. QED BY <2>1, WordedIs, Zenon DEF AsAddition
<1>5. AsFlat(d, e) => Worded(d)
  <2>. SUFFICES ASSUME AsFlat(d, e) PROVE Worded(d) OBVIOUS
  <2>1. d.path = <<<<"Write">> \o Name(e.kind)>> /\ e.kind \in OneWord \cup TwoWords
    BY KindsWritten DEF AsFlat
  <2>2. IsList(<<"Write">> \o Name(e.kind)) BY <1>1, <2>1
  <2>. QED BY <2>1, <2>2, WordedIs, Zenon
<1>6. AsNested(d, e) => Worded(d)
  <2>. SUFFICES ASSUME AsNested(d, e) PROVE Worded(d) OBVIOUS
  <2>1. d.path = <<<<"Write">>, Name(e.kind)>> /\ e.kind \in OneWord \cup TwoWords
    BY KindsWritten DEF AsNested
  <2>2. IsList(<<"Write">>) BY WordsAreLists
  <2>3. IsList(Name(e.kind)) BY <1>1, <2>1
  <2>. QED BY <2>1, <2>2, <2>3, WordedIs, Zenon
<1>. QED BY <1>3, <1>4, <1>5, <1>6 DEF Written

(* A name is part of itself, and of itself after Write.                      *)
LEMMA NamesInclude ==
  ASSUME NEW k \in Kinds
  PROVE  /\ Includes(Name(k), Name(k)) /\ Includes(<<"Write">> \o Name(k), Name(k))
         /\ Includes(<<"Write">> \o Name(k), <<"Write">> \o Name(k))
<1>1. CASE k \in OneWord
  <2>1. Name(k) = <<k>> /\ <<"Write">> \o Name(k) = <<"Write", k>> BY <1>1, NameIs, Prefixed
  <2>2. Includes(<<k>>, <<k>>) /\ Includes(<<"Write", k>>, <<k>>)
            /\ Includes(<<"Write", k>>, <<"Write", k>>)
    BY IncludesIn1, IncludesIn2
  <2>. QED BY <2>1, <2>2, Zenon
<1>2. CASE k \in TwoWords
  <2>. DEFINE x == First[k]
              y == Second[k]
  <2>1. Name(k) = <<x, y>> /\ <<"Write">> \o Name(k) = <<"Write", x, y>> BY <1>2, NameIs, Prefixed
  <2>2. Includes(<<x, y>>, <<x, y>>) BY IncludesIn2
  <2>3. Includes(<<"Write", x, y>>, <<x, y>>) /\ Includes(<<"Write", x, y>>, <<"Write", x, y>>)
    BY IncludesIn3
  <2>. QED BY <2>1, <2>2, <2>3, Zenon
<1>. QED BY <1>1, <1>2, PathsAre

(* What includes Write and a name includes the name.                         *)
LEMMA NameWithoutWrite ==
  ASSUME NEW T, NEW m \in Seq(T), NEW k \in Kinds, Includes(m, <<"Write">> \o Name(k))
  PROVE  Includes(m, Name(k))
<1>1. CASE k \in OneWord
  <2>1. Includes(m, <<"Write", k>>) /\ Name(k) = <<k>> BY <1>1, Prefixed, NameIs
  <2>. QED BY <2>1, IncludesRest
<1>2. CASE k \in TwoWords
  <2>1. Includes(m, <<"Write", First[k], Second[k]>>) /\ Name(k) = <<First[k], Second[k]>>
    BY <1>2, Prefixed, NameIs
  <2>. QED BY <2>1, IncludesRest
<1>. QED BY <1>1, <1>2, PathsAre

(* What is read as a kind names it.                                          *)
LEMMA PathNames ==
  ASSUME NEW d, NEW k \in Kinds, d.path \in Paths[k]
  PROVE  PathHas(d, Name(k))
<1>1. k \in OneWord \cup TwoWords BY PathsAre
<1>2. Includes(Name(k), Name(k)) BY NamesInclude
<1>3. Includes(<<"Write">> \o Name(k), Name(k)) BY NamesInclude
<1>4. d.path \in {<<Name(k)>>, Flat(k), Nested(k)} BY PathsAre DEF OneWord, TwoWords
<1>5. d.path = <<Name(k)>> => PathHas(d, Name(k)) BY <1>2, PathHasIs
<1>6. d.path = Flat(k) => PathHas(d, Name(k)) BY <1>3, PathHasIs DEF Flat
<1>7. d.path = Nested(k) => PathHas(d, Name(k)) BY <1>2, PathHasIs DEF Nested
<1>. QED BY <1>4, <1>5, <1>6, <1>7

(* What was written is read as no other kind.                                *)
LEMMA PathOfOther ==
  ASSUME NEW d, NEW e, Written(d, e), NEW k \in Kinds, k # e.kind
  PROVE  d.path \notin Paths[k]
<1>. SUFFICES ASSUME d.path \in Paths[k] PROVE FALSE OBVIOUS
<1>1. <<e.kind, k>> \in Confused BY PathNames, NamesFound
<1>2. /\ e.kind \in {"ContractPackage", "MessageTopic"}
      /\ k \in {"Contract", "Package", "Message"}
  BY <1>1 DEF Confused
<1>3. d.path = <<<<"Write">>, <<k>>>> BY <1>2, PathsAre, NameIs DEF Nested, OneWord
<1>4. e.kind \in TwoWords BY <1>2 DEF TwoWords
<1>5. AsFlat(d, e) \/ AsNested(d, e) BY <1>2 DEF Written, AsWord, AsAddition
<1>6. CASE AsFlat(d, e)
  <2>1. d.path = <<<<"Write">> \o Name(e.kind)>> BY <1>6 DEF AsFlat
  <2>2. Len(d.path) = 1 BY <2>1
  <2>3. Len(d.path) = 2 BY <1>3
  <2>. QED BY <2>2, <2>3
<1>7. CASE AsNested(d, e)
  <2>1. d.path = <<<<"Write">>, Name(e.kind)>> /\ Name(e.kind) = <<First[e.kind], Second[e.kind]>>
    BY <1>4, <1>7, NameIs DEF AsNested
  <2>2. d.path[2] = <<k>> BY <1>3
  <2>3. d.path[2] = <<First[e.kind], Second[e.kind]>> BY <2>1
  <2>4. Len(d.path[2]) = 1 BY <2>2
  <2>5. Len(d.path[2]) = 2 BY <2>3
  <2>. QED BY <2>4, <2>5
<1>. QED BY <1>5, <1>6, <1>7

(* An effect is recognised as what it is.                                    *)
LEMMA OwnRecognised ==
  ASSUME NEW d, NEW e, Written(d, e), e.kind \in Kinds, d.value = e.value,
         d.plain = TRUE \/ d.value \notin {None, Thrown}
  PROVE  Recognised(d, e.kind)
<1>. DEFINE k == e.kind
<1>1. k \in OneWord \cup TwoWords BY PathsAre
<1>2. ~AsWord(d, e) BY <1>1, WordsDiffer DEF AsWord, TwoWords
<1>3. CASE AsAddition(d, e)
  <2>1. k = "AddUInt512" /\ d.path = <<<<"Add", "UInt512">>>> BY <1>3 DEF AsAddition
  <2>2. Name(k) = <<"Add", "UInt512">> BY <2>1 DEF Name
  <2>3. PathHas(d, Name(k)) BY <2>1, <2>2, PathHasIs, IncludesIn2
  <2>. QED BY <2>1, <2>3, TransformationIs DEF Recognised
<1>4. CASE AsFlat(d, e)
  <2>1. d.path = <<<<"Write">> \o Name(k)>> BY <1>4 DEF AsFlat
  <2>2. Includes(<<"Write">> \o Name(k), <<"Write">> \o Name(k)) BY NamesInclude
  <2>3. Includes(<<"Write">> \o Name(k), Name(k)) BY NamesInclude
  <2>4. isTransformation(d, <<"Write">> \o Name(k)) /\ isTransformation(d, Name(k))
    BY <2>1, <2>2, <2>3, PathHasIs, TransformationIs
  <2>5. k = "Account" => <<"Write">> \o Name(k) = W("Account") BY Prefixed DEF OneWord, W
  <2>. QED BY <2>4, <2>5 DEF Recognised
<1>5. CASE AsNested(d, e)
  <2>1. d.path = <<<<"Write">>, Name(k)>> /\ d.plain = FALSE /\ k \in KindsOf(2) BY <1>5 DEF AsNested
  <2>2. Includes(Name(k), Name(k)) /\ Includes(<<"Write">>, <<"Write">>)
    BY <1>1, NameIs, IncludesIn1, IncludesIn2
  <2>3. isTransformation(d, Name(k)) /\ isTransformation(d, <<"Write">>)
    BY <2>1, <2>2, PathHasIs, TransformationIs
  <2>4. k \in {"Contract", "ContractPackage"} => ReadPath(d, Paths[k]) = d.value
    BY <2>1, PathsAre DEF ReadPath, Nested
  <2>5. k = "Account" => Name(k) = <<"Account">> BY NameIs DEF OneWord
  <2>6. k \notin {"Transfer", "Withdraw", "Unbonding", "DeployInfo"} BY <2>1 DEF KindsOf
  <2>7. d.value \notin {None, Thrown} BY <2>1
  <2>8. CASE k = "Account" BY <2>3, <2>5, <2>8 DEF Recognised
  <2>9. CASE k \in {"Contract", "ContractPackage"} BY <2>4, <2>7, <2>9 DEF Recognised
  <2>10. CASE k \notin {"Account", "Contract", "ContractPackage"} BY <2>3, <2>6, <2>10 DEF Recognised
  <2>. QED BY <2>8, <2>9, <2>10
<1>. QED BY <1>2, <1>3, <1>4, <1>5 DEF Written

(* What is recognised as another kind is so by a name.                       *)
LEMMA OtherRecognised ==
  ASSUME NEW d, NEW e, Written(d, e), NEW k \in Kinds, k # e.kind, Recognised(d, k),
         \A member \in d.inside : IsList(member) /\ member \in e.inside
  PROVE  <<e.kind, k>> \in Confused \/ Within(e, Name(k))
<1>1. isTransformation(d, <<"Write">> \o Name(k)) => isTransformation(d, Name(k))
  <2>. SUFFICES ASSUME isTransformation(d, <<"Write">> \o Name(k)) PROVE isTransformation(d, Name(k))
    OBVIOUS
  <2>1. CASE PathHas(d, <<"Write">> \o Name(k))
    <3>1. PICK i \in DOMAIN d.path : Includes(d.path[i], <<"Write">> \o Name(k)) BY <2>1 DEF PathHas
    <3>2. d.path[i] \in Seq(ToSet(d.path[i])) BY WrittenWorded DEF Worded, IsList
    <3>3. Includes(d.path[i], Name(k)) BY <3>1, <3>2, NameWithoutWrite
    <3>. QED BY <3>3, TransformationIs DEF PathHas
  <2>2. CASE \E member \in d.inside : Includes(member, <<"Write">> \o Name(k))
    <3>1. PICK member \in d.inside : Includes(member, <<"Write">> \o Name(k)) BY <2>2
    <3>2. member \in Seq(ToSet(member)) BY DEF IsList
    <3>3. Includes(member, Name(k)) BY <3>1, <3>2, NameWithoutWrite
    <3>. QED BY <3>3, TransformationIs
  <2>. QED BY <2>1, <2>2, TransformationIs
<1>2. ~(ReadPath(d, Paths[k]) \notin {None, Thrown}) BY PathOfOther DEF ReadPath
<1>3. k = "Account" => Name(k) = <<"Account">> /\ <<"Write">> \o Name(k) = W("Account")
  BY NameIs, Prefixed DEF OneWord, W
<1>4. isTransformation(d, Name(k)) BY <1>1, <1>2, <1>3 DEF Recognised
<1>5. CASE PathHas(d, Name(k)) BY <1>5, NamesFound
<1>6. CASE \E member \in d.inside : Includes(member, Name(k)) BY <1>6 DEF Within
<1>. QED BY <1>4, <1>5, <1>6, TransformationIs

(* A value is called a CLValue by its 1.x name when it is one, of a 1.x node.*)
LEMMA ValuesNamed ==
  ASSUME NEW d, NEW e, Written(d, e)
  PROVE  /\ e.kind = "CLValue" /\ AsFlat(d, e) => isCLValueWrite(d)
         /\ PathHas(d, <<"Write">> \o Name("CLValue")) => e.kind = "CLValue" /\ AsFlat(d, e)
<1>1. Name("CLValue") = <<"CL", "Value">> /\ <<"Write">> \o Name("CLValue") = <<"Write", "CL", "Value">>
  BY NameIs, Prefixed DEF TwoWords, First, Second
<1>2. "CLValue" \in Kinds /\ "CLValue" \notin OneWord BY PathsAre DEF TwoWords, OneWord
<1>3. ASSUME e.kind = "CLValue", AsFlat(d, e) PROVE isCLValueWrite(d)
  <2>1. d.path = <<<<"Write">> \o Name("CLValue")>> BY <1>3 DEF AsFlat
  <2>2. Includes(<<"Write">> \o Name("CLValue"), <<"Write">> \o Name("CLValue")) BY <1>2, NamesInclude
  <2>. QED BY <2>1, <2>2, PathHasIs, TransformationIs DEF isCLValueWrite
<1>4. ASSUME PathHas(d, <<"Write">> \o Name("CLValue")) PROVE e.kind = "CLValue" /\ AsFlat(d, e)
  <2>1. PICK i \in DOMAIN d.path : Includes(d.path[i], <<"Write">> \o Name("CLValue"))
    BY <1>4 DEF PathHas
  <2>2. d.path[i] \in Seq(ToSet(d.path[i])) BY WrittenWorded DEF Worded, IsList
  <2>3. Includes(d.path[i], Name("CLValue")) BY <1>2, <2>1, <2>2, NameWithoutWrite
  <2>4. PathHas(d, Name("CLValue")) BY <2>3 DEF PathHas
  <2>5. e.kind = "CLValue" BY <1>2, <2>4, NamesFound DEF Confused
  <2>6. ~AsNested(d, e)
    <3>. SUFFICES ASSUME AsNested(d, e) PROVE FALSE OBVIOUS
    <3>1. d.path = <<<<"Write">>, <<"CL", "Value">>>> BY <1>1, <2>5 DEF AsNested
    <3>2. Includes(<<"Write">>, <<"Write", "CL", "Value">>) \/ Includes(<<"CL", "Value">>, <<"Write", "CL", "Value">>)
      BY <1>1, <1>4, <3>1, PathHasIs
    <3>. QED BY <3>2, IncludesIn1, IncludesIn2
  <2>. QED BY <2>5, <2>6 DEF Written, AsWord, AsAddition
<1>. QED BY <1>3, <1>4

(* No member is named WriteBid.                                              *)
LEMMA NoBidNamed ==
  ASSUME NEW d, NEW e, Written(d, e)
  PROVE  ~PathHas(d, W("Bid"))
<1>1. W("Bid") = <<"Write", "Bid">> BY DEF W
<1>2. "Bid" \notin OneWord /\ "Write" \notin OneWord /\ (\A k \in TwoWords : First[k] # "Write")
      /\ (\A k \in TwoWords : First[k] = "Bid" => k = "BidKind")
  BY DEF OneWord, TwoWords, First
<1>3. CASE AsWord(d, e) BY <1>1, <1>3, PathHasIs, IncludesIn1 DEF AsWord
<1>4. CASE AsAddition(d, e)
  <2>1. ~Includes(<<"Add", "UInt512">>, <<"Write", "Bid">>) BY IncludesIn2
  <2>. QED BY <1>1, <1>4, <2>1, PathHasIs DEF AsAddition
<1>5. CASE AsFlat(d, e)
  <2>1. e.kind \in OneWord \cup TwoWords /\ d.path = <<<<"Write">> \o Name(e.kind)>> /\ e.kind # "BidKind"
    BY <1>5, KindsWritten DEF AsFlat, KindsOf
  <2>2. CASE e.kind \in OneWord
    <3>1. ~Includes(<<"Write", e.kind>>, <<"Write", "Bid">>) BY <1>2, <2>2, IncludesIn2
    <3>. QED BY <1>1, <2>1, <2>2, <3>1, Prefixed, PathHasIs
  <2>3. CASE e.kind \in TwoWords
    <3>. DEFINE x == First[e.kind]
                y == Second[e.kind]
    <3>2. x # "Write" /\ x # "Bid" BY <1>2, <2>1, <2>3
    <3>. HIDE DEF x, y
    <3>3. ~Includes(<<"Write", x, y>>, <<"Write", "Bid">>) BY <3>2, IncludesIn3
    <3>1. ~Includes(<<"Write", First[e.kind], Second[e.kind]>>, <<"Write", "Bid">>) BY <3>3 DEF x, y
    <3>. QED BY <1>1, <2>1, <2>3, <3>1, Prefixed, PathHasIs
  <2>. QED BY <2>1, <2>2, <2>3
<1>6. CASE AsNested(d, e)
  <2>1. e.kind \in OneWord \cup TwoWords /\ d.path = <<<<"Write">>, Name(e.kind)>>
    BY <1>6, KindsWritten DEF AsNested
  <2>2. ~Includes(<<"Write">>, <<"Write", "Bid">>) BY IncludesIn1
  <2>3. CASE e.kind \in OneWord
    <3>1. ~Includes(<<e.kind>>, <<"Write", "Bid">>) BY IncludesIn1
    <3>. QED BY <1>1, <2>1, <2>2, <2>3, <3>1, NameIs, PathHasIs
  <2>4. CASE e.kind \in TwoWords
    <3>1. ~Includes(<<First[e.kind], Second[e.kind]>>, <<"Write", "Bid">>) BY <1>2, <2>4, IncludesIn2
    <3>. QED BY <1>1, <2>1, <2>2, <2>4, <3>1, NameIs, PathHasIs
  <2>. QED BY <2>1, <2>3, <2>4
<1>. QED BY <1>3, <1>4, <1>5, <1>6 DEF Written

(* What parsing reads: the value of its own kind and of no other.            *)
LEMMA OwnParsed ==
  ASSUME NEW d, NEW e, Written(d, e), e.kind \in Kinds, d.value = e.value, ~Unreadable(d, e),
         d.value \notin {None, Thrown}, d.plain \in BOOLEAN
  PROVE  ParseAs(d, e.kind) = e.value
<1>1. d.plain = FALSE BY DEF Unreadable
<1>2. ~AsWord(d, e) BY <1>1 DEF AsWord
<1>3. d.path \in Paths[e.kind]
  <2>1. CASE AsAddition(d, e) BY <2>1, PathsAre, NameIs DEF AsAddition, TwoWords, First, Second
  <2>2. CASE AsFlat(d, e)
    <3>1. e.kind \in {"CLValue", "Account", "DeployInfo", "Withdraw", "Unbonding", "Transfer"}
      BY <1>1, <2>2 DEF AsFlat, KindsOf
    <3>. QED BY <2>2, <3>1, PathsAre DEF AsFlat, Flat
  <2>3. CASE AsNested(d, e)
    <3>1. e.kind \in {"CLValue", "Contract", "ContractPackage", "Package", "Account", "AddressableEntity",
                      "BidKind", "NamedKey", "Message", "MessageTopic"}
      BY <2>3 DEF AsNested, KindsOf
    <3>. QED BY <2>3, <3>1, PathsAre DEF AsNested, Nested
  <2>. QED BY <1>2, <2>1, <2>2, <2>3 DEF Written
<1>4. ReadPath(d, Paths[e.kind]) = e.value BY <1>1, <1>3 DEF ReadPath
<1>. QED BY <1>4 DEF ParseAs, Unreadable

(* No effect is parsed as what it is not, but Withdraw, as nothing at all.   *)
LEMMA OtherParsed ==
  ASSUME None # Thrown, NEW d, NEW e, Written(d, e), NEW k \in Kinds, k # e.kind, d.plain \in BOOLEAN
  PROVE  ParseAs(d, k) = IF k = "Withdraw" /\ ~d.plain THEN <<>> ELSE Thrown
<1>1. ReadPath(d, Paths[k]) = IF d.plain THEN Thrown ELSE None BY PathOfOther DEF ReadPath
<1>. QED BY <1>1 DEF ParseAs

(* Recognising throws for the words Identity and WriteContract.              *)
LEMMA ThrowsForWords ==
  ASSUME NEW d, NEW e, Written(d, e), NEW k \in Kinds, k # e.kind, RecognisingThrows(d, k)
  PROVE  e.kind \in {"Identity", "Contract"}
<1>. SUFFICES ASSUME e.kind \notin {"Identity", "Contract"} PROVE FALSE OBVIOUS
<1>1. k \in {"Contract", "ContractPackage"} /\ d.plain /\ ~isTransformation(d, <<"Write">> \o Name(k))
  BY DEF RecognisingThrows
<1>2. AsFlat(d, e) /\ e.kind = "ContractPackage"
  BY <1>1 DEF Written, AsWord, AsAddition, AsFlat, AsNested
<1>3. k = "Contract" BY <1>1, <1>2
<1>4. <<"Write">> \o Name("ContractPackage") = <<"Write", "Contract", "Package">>
      /\ <<"Write">> \o Name("Contract") = <<"Write", "Contract">>
  BY Prefixed DEF OneWord, TwoWords, First, Second
<1>5. Includes(<<"Write", "Contract", "Package">>, <<"Write", "Contract">>) BY IncludesIn3
<1>6. d.path = <<<<"Write", "Contract", "Package">>>> BY <1>2, <1>4 DEF AsFlat
<1>7. PathHas(d, <<"Write", "Contract">>) BY <1>5, <1>6, PathHasIs
<1>. QED BY <1>1, <1>3, <1>4, <1>7, TransformationIs

(* One effect, as it was written.                                            *)
LEMMA EffectRight ==
  ASSUME Apart, NEW gen \in {1, 2}, NEW e, IsEffect(gen, e)
  PROVE  LET d == EffectJSON(gen, e)
         IN /\ e.kind \in Kinds => Recognised(d, e.kind)
            /\ e.kind = "CLValue" /\ gen = 1 => isCLValueWrite(d)
            /\ isCLValueWrite(d) /\ ~Within(e, <<"Write">> \o Name("CLValue")) => e.kind = "CLValue" /\ gen = 1
            /\ isWriteBid(d) => Within(e, W("Bid"))
            /\ e.kind \in Kinds /\ ~Unreadable(d, e) => ParseAs(d, e.kind) = e.value
            /\ \A k \in Kinds \ {e.kind} :
                 /\ Recognised(d, k) => <<e.kind, k>> \in Confused \/ Within(e, Name(k))
                 /\ ParseAs(d, k) = IF k = "Withdraw" /\ ~d.plain THEN <<>> ELSE Thrown
                 /\ RecognisingThrows(d, k) => e.kind \in {"Identity", "Contract"}
<1>. DEFINE d == EffectJSON(gen, e)
<1>1. /\ AsWord(d, e) \/ AsAddition(d, e) \/ (gen = 1 /\ AsFlat(d, e)) \/ (gen = 2 /\ AsNested(d, e))
      /\ d.value = e.value /\ d.plain \in BOOLEAN
      /\ d.inside = IF d.plain THEN {} ELSE e.inside
  BY EffectWritten DEF IsEffect
<1>. HIDE DEF d
<1>2. Written(d, e) BY <1>1 DEF Written
<1>3. \A member \in d.inside : IsList(member) /\ member \in e.inside BY <1>1 DEF IsEffect
<1>4. d.plain = TRUE \/ d.value \notin {None, Thrown}
  <2>1. e.kind = "Identity" \/ (gen = 1 /\ e.kind \in {"Contract", "ContractPackage"})
          \/ d.value \notin {None, Thrown}
    BY <1>1 DEF IsEffect
  <2>2. e.kind = "Identity" => d.plain = TRUE BY <1>1 DEF AsWord, AsAddition, AsFlat, AsNested, KindsOf
  <2>3. gen = 1 /\ e.kind \in {"Contract", "ContractPackage"} => d.plain = TRUE
    BY <1>1 DEF AsWord, AsAddition, AsFlat
  <2>. QED BY <2>1, <2>2, <2>3
<1>5. None # Thrown BY DEF Apart
<1>6. e.kind \in Kinds => Recognised(d, e.kind) BY <1>1, <1>2, <1>4, OwnRecognised
<1>7. e.kind = "CLValue" /\ gen = 1 => isCLValueWrite(d)
  BY <1>1, <1>2, ValuesNamed DEF AsWord, AsAddition
<1>8. isCLValueWrite(d) /\ ~Within(e, <<"Write">> \o Name("CLValue")) => e.kind = "CLValue" /\ gen = 1
  <2>1. isCLValueWrite(d) => PathHas(d, <<"Write">> \o Name("CLValue")) \/ Within(e, <<"Write">> \o Name("CLValue"))
    BY <1>3, TransformationIs DEF isCLValueWrite, Within
  <2>2. e.kind = "CLValue" /\ AsFlat(d, e) => gen = 1
    <3>1. AsFlat(d, e) => Len(d.path) = 1 BY DEF AsFlat
    <3>2. AsNested(d, e) => Len(d.path) = 2 BY DEF AsNested
    <3>. QED BY <1>1, <3>1, <3>2 DEF AsWord, AsAddition
  <2>. QED BY <1>2, <2>1, <2>2, ValuesNamed
<1>9. isWriteBid(d) => Within(e, W("Bid"))
  BY <1>2, <1>3, NoBidNamed, TransformationIs DEF isWriteBid, Within
<1>10. e.kind \in Kinds /\ ~Unreadable(d, e) => ParseAs(d, e.kind) = e.value
  BY <1>1, <1>2, <1>4, OwnParsed DEF Unreadable
<1>11. ASSUME NEW k \in Kinds \ {e.kind}
       PROVE  /\ Recognised(d, k) => <<e.kind, k>> \in Confused \/ Within(e, Name(k))
              /\ ParseAs(d, k) = IF k = "Withdraw" /\ ~d.plain THEN <<>> ELSE Thrown
              /\ RecognisingThrows(d, k) => e.kind \in {"Identity", "Contract"}
  BY <1>1, <1>2, <1>3, <1>5, OtherRecognised, OtherParsed, ThrowsForWords
<1>. QED BY <1>6, <1>7, <1>8, <1>9, <1>10, <1>11 DEF d

(* The effects of an outcome are those of the transaction.                   *)
LEMMA EffectsOfOutcome ==
  ASSUME NEW gen \in {1, 2}, NEW t, IsTransaction(gen, t), NEW who
  PROVE  LET effects == Outcome(gen, t, who).effects
         IN \A i \in DOMAIN t.effects :
              effects[i].key = t.effects[i].key /\ effects[i].kind = EffectJSON(gen, t.effects[i])
<1>1. t.effects \in Seq(ToSet(t.effects)) BY DEF IsTransaction, IsList
<1>2. CASE gen = 2
  <2>1. Outcome(2, t, who).effects = Effects2(t) BY DEF Outcome
  <2>. QED BY <1>2, <2>1 DEF Effects2
<1>3. CASE gen = 1
  <2>. DEFINE own == EffectsV1JSON(t)
              more == IF t.error = None THEN TransferWrites(t) ELSE <<>>
              all == own \o more
  <2>1. Outcome(1, t, who).effects = Effects1(t) BY DEF Outcome
  <2>2. DOMAIN own = DOMAIN t.effects /\ Len(own) = Len(t.effects) /\ DOMAIN own = 1..Len(t.effects)
    BY <1>1 DEF EffectsV1JSON
  <2>3. \A i \in DOMAIN t.effects : own[i].key = t.effects[i].key
            /\ own[i].transform = EffectJSON(1, t.effects[i])
    BY DEF EffectsV1JSON
  <2>4. Len(t.transfers) \in Nat /\ DOMAIN t.transfers = 1..Len(t.transfers)
    BY DEF IsTransaction, IsList
  <2>5. Len(more) \in Nat BY <2>4 DEF TransferWrites
  <2>6. Transforms1(t) = all BY DEF Transforms1
  <2>. HIDE DEF own, more
  <2>7. Len(t.effects) \in Nat BY <1>1
  <2>8. DOMAIN all = 1..Len(own) + Len(more) /\ \A i \in 1..Len(own) : all[i] = own[i]
    BY <2>2, <2>5, <2>7
  <2>. HIDE DEF all
  <2>9. \A i \in DOMAIN t.effects : i \in DOMAIN all /\ all[i] = own[i] BY <2>2, <2>5, <2>7, <2>8
  <2>10. \A i \in DOMAIN all : Effects1(t)[i] = Transform(all[i].key, all[i].transform)
    BY <2>6 DEF Effects1
  <2>11. \A i \in DOMAIN t.effects : Effects1(t)[i] = Transform(own[i].key, own[i].transform)
    BY <2>9, <2>10
  <2>12. \A i \in DOMAIN t.effects : Effects1(t)[i].key = own[i].key
             /\ Effects1(t)[i].kind = own[i].transform
    <3>1. \A x, y : Transform(x, y).key = x /\ Transform(x, y).kind = y BY DEF Transform
    <3>. QED BY <2>11, <3>1
  <2>13. \A i \in DOMAIN t.effects :
           Effects1(t)[i].key = t.effects[i].key /\ Effects1(t)[i].kind = EffectJSON(1, t.effects[i])
    BY <2>3, <2>12
  <2>. QED BY <1>3, <2>1, <2>13
<1>. QED BY <1>2, <1>3

(* The effects of every outcome are told as what they are.                   *)
LEMMA EffectsRight == ASSUME Apart PROVE IInv => EffectsTold
<1>. SUFFICES ASSUME IInv, NEW o \in Outcomes, NEW i \in DOMAIN o.about.tx.effects
     PROVE  LET d == o.result.effects[i].kind
                e == o.about.tx.effects[i]
            IN /\ o.result.effects[i].key = e.key
               /\ e.kind \in Kinds => Recognised(d, e.kind)
               /\ e.kind = "CLValue" /\ o.about.block.gen = 1 => isCLValueWrite(d)
               /\ isCLValueWrite(d) /\ ~Within(e, <<"Write">> \o Name("CLValue")) =>
                    e.kind = "CLValue" /\ o.about.block.gen = 1
               /\ isWriteBid(d) => Within(e, W("Bid"))
               /\ e.kind \in Kinds /\ ~Unreadable(d, e) => ParseAs(d, e.kind) = e.value
               /\ \A k \in Kinds \ {e.kind} :
                    /\ Recognised(d, k) => <<e.kind, k>> \in Confused \/ Within(e, Name(k))
                    /\ ParseAs(d, k) = IF k = "Withdraw" /\ ~d.plain THEN <<>> ELSE Thrown
                    /\ RecognisingThrows(d, k) => e.kind \in {"Identity", "Contract"}
  BY DEF EffectsTold
<1>. DEFINE t == o.about.tx
            e == t.effects[i]
            gen == o.about.block.gen
            d == o.result.effects[i].kind
<1>1. gen \in {1, 2} /\ IsTransaction(gen, t) /\ \E who : o.result = Outcome(gen, t, who) BY OutcomeIs
<1>2. PICK who : o.result = Outcome(gen, t, who) BY <1>1
<1>3. o.result.effects[i].key = e.key /\ d = EffectJSON(gen, e) BY <1>1, <1>2, EffectsOfOutcome
<1>4. e \in ToSet(t.effects) BY DEF ToSet
<1>5. IsEffect(gen, e) BY <1>1, <1>4 DEF IsTransaction
<1>. HIDE DEF t, e, gen, d
<1>6. /\ e.kind \in Kinds => Recognised(d, e.kind)
      /\ e.kind = "CLValue" /\ gen = 1 => isCLValueWrite(d)
      /\ isCLValueWrite(d) /\ ~Within(e, <<"Write">> \o Name("CLValue")) => e.kind = "CLValue" /\ gen = 1
      /\ isWriteBid(d) => Within(e, W("Bid"))
      /\ e.kind \in Kinds /\ ~Unreadable(d, e) => ParseAs(d, e.kind) = e.value
      /\ \A k \in Kinds \ {e.kind} :
           /\ Recognised(d, k) => <<e.kind, k>> \in Confused \/ Within(e, Name(k))
           /\ ParseAs(d, k) = IF k = "Withdraw" /\ ~d.plain THEN <<>> ELSE Thrown
           /\ RecognisingThrows(d, k) => e.kind \in {"Identity", "Contract"}
  BY <1>1, <1>3, <1>5, EffectRight
<1>. QED BY <1>3, <1>6 DEF t, e, gen, d

-----------------------------------------------------------------------------
(* Transfers *)
IsPayout(x) == Has(x, {"amount", "id", "to", "source", "target"})

(* A transfer as either generation writes it, read.                          *)
LEMMA TransferRead ==
  ASSUME Apart, NEW gen \in {1, 2}, NEW wrapped \in BOOLEAN, NEW t, NEW i \in DOMAIN t.transfers,
         t.version \in {"Deploy", "V1"}, gen = 1 => t.version = "Deploy", IsPayout(t.transfers[i])
  PROVE  /\ TransferFromJSON(TransferJSON(gen, wrapped, t, i)) = TrueTransfers(gen, t)[i]
         /\ fromTransferV1(TransferV1(TransferV1JSON(t, i))) = TrueTransfers(1, t)[i] \/ gen = 2
         /\ TrueTransfers(gen, t)[i] # Thrown /\ TransferV1JSON(t, i) \notin {None, Thrown}
<1>. DEFINE x == t.transfers[i]
<1>1. DOMAIN x = {"amount", "id", "to", "source", "target"} BY DEF IsPayout, Has
<1>2. ASSUME NEW y, NEW from
      PROVE  LET m == Merged([transactionHash |-> y, from |-> from], x)
             IN m = [amount |-> x.amount, transactionHash |-> y, from |-> from, id |-> x.id, to |-> x.to,
                     source |-> x.source, target |-> x.target]
  <2>. DEFINE m == Merged([transactionHash |-> y, from |-> from], x)
  <2>. HIDE DEF x
  <2>1. DOMAIN m = {"transactionHash", "from", "amount", "id", "to", "source", "target"}
        /\ m = [n \in DOMAIN m |-> m[n]]
    BY <1>1 DEF Merged
  <2>2. m.transactionHash = y /\ m.from = from /\ m.amount = x.amount /\ m.id = x.id /\ m.to = x.to
        /\ m.source = x.source /\ m.target = x.target
    BY <1>1 DEF Merged
  <2>. HIDE DEF m
  <2>3. m = [amount |-> x.amount, transactionHash |-> y, from |-> from, id |-> x.id, to |-> x.to,
                     source |-> x.source, target |-> x.target]
    BY <2>1, <2>2
  <2>. QED BY <2>3 DEF m
<1>3. ASSUME t.version = "Deploy"
      PROVE  fromTransferV1(TransferV1(TransferV1JSON(t, i))) = TrueTransfers(1, t)[i]
  <2>. DEFINE j == TransferV1JSON(t, i)
  <2>1. j = Merged([deploy_hash |-> t.hash, from |-> t.account], x) BY DEF TransferV1JSON
  <2>. HIDE DEF j, x
  <2>2. j.deploy_hash = t.hash /\ j.from = t.account /\ j.amount = x.amount /\ j.id = x.id /\ j.to = x.to
        /\ j.source = x.source /\ j.target = x.target
    BY <1>1, <2>1 DEF Merged
  <2>3. fromTransferV1(TransferV1(j)) =
          [amount |-> x.amount, transactionHash |-> DeployHash(t.hash), from |-> AccountInitiator(t.account),
           id |-> x.id, to |-> x.to, source |-> x.source, target |-> x.target]
    BY <2>2 DEF fromTransferV1, TransferV1, Transfer
  <2>4. TrueTransfers(1, t)[i] =
          Merged([transactionHash |-> TrueHash(t), from |-> [publicKey |-> None, accountHash |-> t.account]], x)
    BY DEF TrueTransfers, x
  <2>5. DeployHash(t.hash) = TrueHash(t) BY <1>3 DEF DeployHash, TrueHash
  <2>6. AccountInitiator(t.account) = [publicKey |-> None, accountHash |-> t.account]
    BY DEF AccountInitiator
  <2>. QED BY <1>2, <2>3, <2>4, <2>5, <2>6 DEF j
<1>4. TransferV1JSON(t, i) \notin {None, Thrown} BY DEF TransferV1JSON, Merged, Apart, NotAnObject
<1>5. TrueTransfers(gen, t)[i] # Thrown BY DEF TrueTransfers, Merged, Apart, NotAnObject
<1>6. ASSUME gen = 1 PROVE TransferFromJSON(TransferJSON(gen, wrapped, t, i)) = TrueTransfers(gen, t)[i]
  <2>. DEFINE j == TransferV1JSON(t, i)
              w == TransferJSON(1, wrapped, t, i)
  <2>1. DOMAIN j = {"deploy_hash", "from", "amount", "id", "to", "source", "target"}
    BY <1>1 DEF TransferV1JSON, Merged
  <2>2. w = IF wrapped THEN [Version1 |-> j] ELSE j BY DEF TransferJSON
  <2>3. j # None BY <1>4
  <2>. HIDE DEF j, w
  <2>4. Get(w, "Version2") = None BY <2>1, <2>2 DEF Get
  <2>5. CASE wrapped
    <3>1. Get(w, "Version1") # None /\ w.Version1 = j BY <2>2, <2>3, <2>5 DEF Get
    <3>. QED BY <1>3, <1>6, <2>4, <3>1 DEF TransferFromJSON, j, w
  <2>6. CASE ~wrapped
    <3>1. Get(w, "Version1") = None /\ w = j BY <2>1, <2>2, <2>6 DEF Get
    <3>. QED BY <1>3, <1>6, <2>4, <3>1 DEF TransferFromJSON, j, w
  <2>. QED BY <2>5, <2>6
<1>7. ASSUME gen = 2 PROVE TransferFromJSON(TransferJSON(gen, wrapped, t, i)) = TrueTransfers(gen, t)[i]
  <2>. DEFINE j == TransferV2JSON(t, i)
              w == TransferJSON(2, wrapped, t, i)
  <2>1. j = Merged([transaction_hash |-> NodeHash(t), from |-> NodeInitiator(t)], x)
    BY DEF TransferV2JSON
  <2>2. w = [Version2 |-> j] BY DEF TransferJSON
  <2>3. j # None BY DEF TransferV2JSON, Merged, Apart, NotAnObject
  <2>. HIDE DEF j, w, x
  <2>4. j.transaction_hash = NodeHash(t) /\ j.from = NodeInitiator(t) /\ j.amount = x.amount /\ j.id = x.id
        /\ j.to = x.to /\ j.source = x.source /\ j.target = x.target
    BY <1>1, <2>1 DEF Merged
  <2>5. TransactionHash(NodeHash(t)) = TrueHash(t) BY DEF TransactionHash, NodeHash, Get, TrueHash
  <2>6. InitiatorAddr(NodeInitiator(t)) = [publicKey |-> t.sender, accountHash |-> None]
    BY SenderRead DEF Sender
  <2>7. TransferV2(j) = [amount |-> x.amount, transactionHash |-> TrueHash(t),
                         from |-> [publicKey |-> t.sender, accountHash |-> None],
                         id |-> x.id, to |-> x.to, source |-> x.source, target |-> x.target]
    BY <2>4, <2>5, <2>6 DEF TransferV2, Transfer
  <2>8. TrueTransfers(2, t)[i] =
          Merged([transactionHash |-> TrueHash(t), from |-> [publicKey |-> t.sender, accountHash |-> None]], x)
    BY DEF TrueTransfers, x
  <2>9. Get(w, "Version2") # None /\ w.Version2 = j BY <2>2, <2>3 DEF Get
  <2>10. TransferFromJSON(w) = TransferV2(j) BY <2>9 DEF TransferFromJSON
  <2>. QED BY <1>2, <1>7, <2>7, <2>8, <2>10 DEF w
<1>. QED BY <1>3, <1>4, <1>5, <1>6, <1>7

(* A list of transfers none of which throws, read.                           *)
LEMMA EachTransfer ==
  ASSUME NEW s, \A i \in DOMAIN s : TransferFromJSON(s[i]) # Thrown
  PROVE  Each(s, TransferFromJSON) = [i \in DOMAIN s |-> TransferFromJSON(s[i])]
  BY DEF Each

(* The transfers and the effects of a transaction are lists.                 *)
LEMMA TransfersAre ==
  ASSUME NEW gen \in {1, 2}, NEW t, IsTransaction(gen, t)
  PROVE  /\ t.version \in {"Deploy", "V1"} /\ (gen = 1 => t.version = "Deploy")
         /\ \A i \in DOMAIN t.transfers : IsPayout(t.transfers[i])
         /\ DOMAIN t.transfers = 1..Len(t.transfers) /\ Len(t.transfers) \in Nat
         /\ t.transfers \in Seq(ToSet(t.transfers)) /\ t.effects \in Seq(ToSet(t.effects))
<1>1. t.transfers \in Seq(ToSet(t.transfers)) BY DEF IsTransaction, IsList
<1>2. \A i \in DOMAIN t.transfers : t.transfers[i] \in ToSet(t.transfers) BY DEF ToSet
<1>. QED BY <1>1, <1>2 DEF IsTransaction, IsPayout, IsList

(* The transfers of a 2.x result.                                            *)
LEMMA Transfers2Read ==
  ASSUME Apart, NEW t, IsTransaction(2, t)
  PROVE  Transfers2(t) = IF t.error = None THEN TrueTransfers(2, t) ELSE <<>>
<1>. DEFINE s == [i \in DOMAIN t.transfers |-> TransferJSON(2, TRUE, t, i)]
<1>1. \A i \in DOMAIN t.transfers : /\ TransferFromJSON(s[i]) = TrueTransfers(2, t)[i]
                                    /\ TrueTransfers(2, t)[i] # Thrown
  BY TransferRead, TransfersAre
<1>2. DOMAIN s = DOMAIN t.transfers OBVIOUS
<1>. HIDE DEF s
<1>3. Each(s, TransferFromJSON) = [i \in DOMAIN s |-> TransferFromJSON(s[i])] BY <1>1, <1>2, EachTransfer
<1>4. [i \in DOMAIN s |-> TransferFromJSON(s[i])] = TrueTransfers(2, t) BY <1>1, <1>2 DEF TrueTransfers
<1>5. \A e : e = <<>> => Each(e, TransferFromJSON) = e
  <2>1. \A e : e = <<>> => DOMAIN e = {} BY EmptyList
  <2>2. \A e : e = <<>> => [i \in DOMAIN e |-> TransferFromJSON(e[i])] = e OBVIOUS
  <2>. QED BY <2>1, <2>2, EachTransfer
<1>. QED BY <1>3, <1>4, <1>5 DEF Transfers2, s

(* A 1.x deploy's transfers are found among what it wrote.                   *)
LEMMA NoTransferWritten ==
  ASSUME NEW e, IsEffect(1, e)
  PROVE  ~Recognised(EffectJSON(1, e), "Transfer")
<1>. DEFINE d == EffectJSON(1, e)
<1>. SUFFICES ASSUME Recognised(d, "Transfer") PROVE FALSE OBVIOUS
<1>1. /\ AsWord(d, e) \/ AsAddition(d, e) \/ AsFlat(d, e)
      /\ d.plain \in BOOLEAN /\ d.inside = IF d.plain THEN {} ELSE e.inside
  BY EffectWritten DEF IsEffect
<1>. HIDE DEF d
<1>2. Written(d, e) /\ "Transfer" \in Kinds /\ e.kind # "Transfer"
  BY <1>1, PathsAre, KindsWritten DEF Written, OneWord, IsEffect
<1>3. <<"Write">> \o Name("Transfer") = W("Transfer") BY Prefixed DEF OneWord, W
<1>4. isTransformation(d, <<"Write">> \o Name("Transfer")) BY DEF Recognised
<1>5. \A member \in d.inside : ~Includes(member, <<"Write">> \o Name("Transfer"))
  BY <1>1, <1>3 DEF IsEffect
<1>6. PICK i \in DOMAIN d.path : Includes(d.path[i], <<"Write">> \o Name("Transfer"))
  BY <1>4, <1>5, TransformationIs DEF PathHas
<1>7. d.path[i] \in Seq(ToSet(d.path[i])) BY <1>2, WrittenWorded DEF Worded, IsList
<1>8. Includes(d.path[i], Name("Transfer")) BY <1>2, <1>6, <1>7, NameWithoutWrite
<1>9. PathHas(d, Name("Transfer")) BY <1>8 DEF PathHas
<1>10. <<e.kind, "Transfer">> \in Confused BY <1>2, <1>9, NamesFound
<1>. QED BY <1>10 DEF Confused

(* A transfer that a 1.x node writes is recognised and parsed as one.        *)
LEMMA TransferWritten ==
  ASSUME NEW value, value \notin {None, Thrown}
  PROVE  LET d == EffectJSON(1, [kind |-> "Transfer", value |-> value, inside |-> {}])
         IN Recognised(d, "Transfer") /\ ParseAs(d, "Transfer") = value
<1>. DEFINE e == [kind |-> "Transfer", value |-> value, inside |-> {}]
            d == EffectJSON(1, e)
<1>1. e.kind = "Transfer" /\ e.value = value /\ e.inside = {} OBVIOUS
<1>2. d.path = <<<<"Write">> \o Name(e.kind)>> /\ d.plain = FALSE /\ d.value = e.value
  BY <1>1 DEF EffectJSON
<1>. HIDE DEF e, d
<1>3. AsFlat(d, e) BY <1>1, <1>2 DEF AsFlat
<1>4. Written(d, e) /\ e.kind \in Kinds BY <1>1, <1>3, PathsAre DEF Written, OneWord
<1>5. ~Unreadable(d, e) BY <1>1, <1>2 DEF Unreadable
<1>6. Recognised(d, e.kind) BY <1>1, <1>2, <1>4, OwnRecognised
<1>7. ParseAs(d, e.kind) = e.value BY <1>1, <1>2, <1>4, <1>5, OwnParsed
<1>. QED BY <1>1, <1>6, <1>7 DEF e, d

(* The transfers of a 1.x result, found among its effects.                   *)
LEMMA Transfers1Read ==
  ASSUME Apart, NEW t, IsTransaction(1, t)
  PROVE  Transfers1(t) = IF t.error = None THEN TrueTransfers(1, t) ELSE <<>>
<1>. SUFFICES ASSUME t.error = None PROVE TransfersOfEffects(Transforms1(t)) = TrueTransfers(1, t)
  BY DEF Transfers1
<1>. DEFINE own == EffectsV1JSON(t)
            more == TransferWrites(t)
            all == own \o more
            Found(s) == {x \in ToSet(s) : Recognised(x.transform, "Transfer")}
            Value(i) == TransferV1JSON(t, i)
            T == ToSet(own) \cup ToSet(more)
<1>1. Transforms1(t) = all BY DEF Transforms1
<1>2. DOMAIN own = DOMAIN t.effects /\ DOMAIN t.effects = 1..Len(t.effects) /\ Len(t.effects) \in Nat
      /\ (\A i \in DOMAIN own : ~Recognised(own[i].transform, "Transfer"))
      /\ own = [i \in DOMAIN own |-> own[i]]
  <2>1. \A i \in DOMAIN t.effects : IsEffect(1, t.effects[i]) BY DEF IsTransaction, ToSet
  <2>2. \A i \in DOMAIN t.effects : own[i].transform = EffectJSON(1, t.effects[i]) BY DEF EffectsV1JSON
  <2>3. DOMAIN own = DOMAIN t.effects /\ own = [i \in DOMAIN own |-> own[i]] BY DEF EffectsV1JSON
  <2>. QED BY <2>1, <2>2, <2>3, NoTransferWritten, TransfersAre
<1>3. DOMAIN more = DOMAIN t.transfers /\ DOMAIN t.transfers = 1..Len(t.transfers)
          /\ Len(t.transfers) \in Nat
      /\ (\A i \in DOMAIN more : /\ Recognised(more[i].transform, "Transfer")
                                 /\ ParseAs(more[i].transform, "Transfer") = Value(i))
      /\ more = [i \in DOMAIN more |-> more[i]]
  <2>1. \A i \in DOMAIN t.transfers : Value(i) \notin {None, Thrown} BY TransferRead, TransfersAre
  <2>2. \A i \in DOMAIN t.transfers :
          more[i].transform = EffectJSON(1, [kind |-> "Transfer", value |-> Value(i), inside |-> {}])
    BY DEF TransferWrites
  <2>3. DOMAIN more = DOMAIN t.transfers /\ more = [i \in DOMAIN more |-> more[i]] BY DEF TransferWrites
  <2>. HIDE DEF more, Value
  <2>4. ASSUME NEW i \in DOMAIN t.transfers
        PROVE  Recognised(more[i].transform, "Transfer") /\ ParseAs(more[i].transform, "Transfer") = Value(i)
    <3>1. Value(i) \notin {None, Thrown} BY <2>1
    <3>2. LET d == EffectJSON(1, [kind |-> "Transfer", value |-> Value(i), inside |-> {}])
          IN Recognised(d, "Transfer") /\ ParseAs(d, "Transfer") = Value(i)
      BY <3>1, TransferWritten
    <3>. QED BY <2>2, <3>2
  <2>. QED BY <2>3, <2>4, TransfersAre
<1>4. \A i \in DOMAIN t.transfers : fromTransferV1(WriteTransfer(Value(i))) = TrueTransfers(1, t)[i]
  <2>1. \A json : WriteTransfer(json) = TransferV1(json) BY DEF WriteTransfer, TransferV1
  <2>2. t.version \in {"Deploy", "V1"} /\ t.version = "Deploy"
            /\ \A i \in DOMAIN t.transfers : IsPayout(t.transfers[i])
    BY TransfersAre
  <2>3. ASSUME NEW i \in DOMAIN t.transfers
        PROVE  fromTransferV1(TransferV1(TransferV1JSON(t, i))) = TrueTransfers(1, t)[i]
    <3>1. 1 \in {1, 2} /\ TRUE \in BOOLEAN /\ 1 # 2 OBVIOUS
    <3>. QED BY <2>2, <3>1, TransferRead
  <2>. QED BY <2>1, <2>3
<1>. HIDE DEF own, more, Value
<1>5. own \in Seq(T) /\ more \in Seq(T) BY <1>2, <1>3 DEF ToSet
<1>6. all \in Seq(T) /\ ToSet(all) = T
  <2>1. all \in Seq(T) BY <1>5
  <2>2. ASSUME NEW x \in T PROVE x \in ToSet(all)
    <3>1. CASE x \in ToSet(own)
      <4>1. PICK i \in DOMAIN own : x = own[i] BY <3>1 DEF ToSet
      <4>2. i \in 1..Len(all) /\ all[i] = x BY <1>5, <4>1, ConcatProperties
      <4>. QED BY <2>1, <4>2 DEF ToSet
    <3>2. CASE x \in ToSet(more)
      <4>1. PICK i \in DOMAIN more : x = more[i] BY <3>2 DEF ToSet
      <4>2. i + Len(own) \in 1..Len(all) /\ all[i + Len(own)] = x BY <1>5, <4>1, ConcatProperties
      <4>. QED BY <2>1, <4>2 DEF ToSet
    <3>. QED BY <3>1, <3>2
  <2>3. ToSet(all) \subseteq T BY <2>1 DEF ToSet
  <2>. QED BY <2>1, <2>2, <2>3
<1>. HIDE DEF all, T
<1>7. Among(all, Found(all)) = more
  <2>1. \A i \in DOMAIN own : own[i] \notin Found(all) BY <1>2
  <2>2. \A i \in DOMAIN more : more[i] \in Found(all) BY <1>3, <1>6 DEF T, ToSet
  <2>. DEFINE S == Found(all)
  <2>. HIDE DEF S
  <2>3. Among(own \o more, S) = Among(own, S) \o Among(more, S) BY <1>5, AmongConcat
  <2>4. Among(own, S) = <<>> BY <1>5, <2>1, AmongNone DEF S
  <2>5. Among(more, S) = more BY <1>5, <2>2, AmongAll DEF S
  <2>6. <<>> \o more = more BY <1>5
  <2>. QED BY <2>3, <2>4, <2>5, <2>6 DEF S, all
<1>8. TransfersOfEffects(all) =
        [i \in DOMAIN more |-> fromTransferV1(WriteTransfer(ParseAs(more[i].transform, "Transfer")))]
  BY <1>7 DEF TransfersOfEffects
<1>9. \A i \in DOMAIN more :
        fromTransferV1(WriteTransfer(ParseAs(more[i].transform, "Transfer"))) = TrueTransfers(1, t)[i]
  BY <1>3, <1>4
<1>10. DOMAIN TrueTransfers(1, t) = DOMAIN more
           /\ TrueTransfers(1, t) = [i \in DOMAIN more |-> TrueTransfers(1, t)[i]]
  BY <1>3 DEF TrueTransfers
<1>. QED BY <1>1, <1>8, <1>9, <1>10

(* The transfers of an outcome are those of its transaction.                 *)
LEMMA TransfersOfOutcome ==
  ASSUME Apart, NEW gen \in {1, 2}, NEW t, IsTransaction(gen, t), NEW who
  PROVE  Outcome(gen, t, who).transfers = IF t.error = None THEN TrueTransfers(gen, t) ELSE <<>>
  BY Transfers1Read, Transfers2Read DEF Outcome

(* The transfers of a block are those of its transactions that succeeded.    *)
DoneOf(b) == Among(b.txs, {t \in ToSet(b.txs) : t.error = None})
TransfersOf(b) == FlattenSeq([k \in DOMAIN DoneOf(b) |-> TrueTransfers(b.gen, DoneOf(b)[k])])

(* The transactions of a block that succeeded, each once.                    *)
LEMMA DoneAre ==
  ASSUME NEW b, NEW g \in {1, 2}, IsBlock(g, b)
  PROVE  /\ DoneOf(b) \in Seq(ToSet(b.txs)) /\ Distinct(DoneOf(b))
         /\ ToSet(DoneOf(b)) = {t \in ToSet(b.txs) : t.error = None}
         /\ \A k \in DOMAIN DoneOf(b) : IsTransaction(b.gen, DoneOf(b)[k]) /\ DoneOf(b)[k] \in ToSet(b.txs)
         /\ \A t1, t2 \in ToSet(b.txs) : TrueHash(t1) = TrueHash(t2) => t1 = t2
<1>. DEFINE S == {t \in ToSet(b.txs) : t.error = None}
<1>1. /\ b.txs \in Seq(ToSet(b.txs)) /\ \A t \in ToSet(b.txs) : IsTransaction(b.gen, t)
      /\ \A i, j \in DOMAIN b.txs : b.txs[i].hash = b.txs[j].hash => i = j
  BY BlockOfFact DEF IsList
<1>2. Distinct(b.txs) BY <1>1 DEF Distinct
<1>3. DoneOf(b) = Among(b.txs, S) BY DEF DoneOf
<1>4. S \subseteq ToSet(b.txs) OBVIOUS
<1>. HIDE DEF S
<1>5. DoneOf(b) \in Seq(ToSet(b.txs)) /\ Distinct(DoneOf(b)) /\ ToSet(DoneOf(b)) = S
  <2>. DEFINE U == ToSet(b.txs)
              txs == b.txs
  <2>1. txs \in Seq(U) BY <1>1
  <2>. HIDE DEF U, txs
  <2>2. Among(txs, S) \in Seq(U) BY <2>1, AmongType
  <2>3. Distinct(txs) => Distinct(Among(txs, S)) BY <2>1, AmongDistinct
  <2>4. ToSet(Among(txs, S)) = ToSet(txs) \cap S BY <2>1, AmongRange
  <2>. QED BY <1>2, <1>3, <1>4, <2>2, <2>3, <2>4 DEF U, txs
<1>6. \A k \in DOMAIN DoneOf(b) : DoneOf(b)[k] \in ToSet(b.txs) BY <1>5
<1>7. ASSUME NEW t1 \in ToSet(b.txs), NEW t2 \in ToSet(b.txs), TrueHash(t1) = TrueHash(t2) PROVE t1 = t2
  <2>1. t1.hash # None /\ t2.hash # None /\ t1.version \in {"Deploy", "V1"}
            /\ t2.version \in {"Deploy", "V1"}
    BY <1>1 DEF IsTransaction
  <2>2. \A t : /\ t.version = "Deploy" => TrueHash(t).deploy = t.hash /\ TrueHash(t).transactionV1 = None
               /\ t.version = "V1" => TrueHash(t).deploy = None /\ TrueHash(t).transactionV1 = t.hash
    BY DEF TrueHash
  <2>3. t1.hash = t2.hash BY <1>7, <2>1, <2>2
  <2>4. PICK i \in DOMAIN b.txs : t1 = b.txs[i] BY DEF ToSet
  <2>5. PICK j \in DOMAIN b.txs : t2 = b.txs[j] BY DEF ToSet
  <2>. QED BY <1>1, <2>3, <2>4, <2>5
<1>. QED BY <1>1, <1>5, <1>6, <1>7 DEF S

(* The answer of either generation to getBlockTransfers, read.               *)
LEMMA BlockTransfersRead ==
  ASSUME Apart, NEW b, NEW g \in {1, 2}, IsBlock(g, b)
  PROVE  ReadTransfers(g, b) = TransfersOf(b)
<1>. DEFINE done == DoneOf(b)
            gen == b.gen
            wrapped == g = 2
            js == [k \in DOMAIN done |->
                    [i \in DOMAIN done[k].transfers |-> TransferJSON(gen, wrapped, done[k], i)]]
            T == UNION {ToSet(js[k]) : k \in DOMAIN done}
            F == [x \in T |-> TransferFromJSON(x)]
            parts == [k \in DOMAIN done |-> TrueTransfers(gen, done[k])]
            all == FlattenSeq(js)
<1>1. BlockTransfersAnswer(g, b) = all BY DEF BlockTransfersAnswer, DoneOf
<1>2. gen \in {1, 2} /\ DOMAIN done = 1..Len(done) /\ Len(done) \in Nat
      /\ \A k \in DOMAIN done : IsTransaction(gen, done[k])
  BY DoneAre, BlockFields
<1>3. ASSUME NEW k \in DOMAIN done
      PROVE  /\ DOMAIN done[k].transfers = 1..Len(done[k].transfers) /\ Len(done[k].transfers) \in Nat
             /\ \A i \in DOMAIN done[k].transfers :
                  /\ TransferFromJSON(TransferJSON(gen, wrapped, done[k], i)) = TrueTransfers(gen, done[k])[i]
                  /\ TrueTransfers(gen, done[k])[i] # Thrown
  <2>1. IsTransaction(gen, done[k]) /\ wrapped \in BOOLEAN BY <1>2
  <2>. HIDE DEF done, gen, wrapped
  <2>2. /\ done[k].version \in {"Deploy", "V1"} /\ (gen = 1 => done[k].version = "Deploy")
        /\ \A i \in DOMAIN done[k].transfers : IsPayout(done[k].transfers[i])
    BY <1>2, <2>1, TransfersAre
  <2>3. DOMAIN done[k].transfers = 1..Len(done[k].transfers) /\ Len(done[k].transfers) \in Nat
    BY <1>2, <2>1, TransfersAre
  <2>. QED BY <1>2, <2>1, <2>2, <2>3, TransferRead
<1>4. ASSUME NEW k \in DOMAIN done
      PROVE  /\ js[k] \in Seq(T) /\ parts[k] = Mapped(F, js[k])
             /\ \A i \in DOMAIN js[k] : TransferFromJSON(js[k][i]) # Thrown
  <2>1. DOMAIN js[k] = 1..Len(done[k].transfers) /\ js[k] = [i \in 1..Len(done[k].transfers) |-> js[k][i]]
    BY <1>3
  <2>2. \A i \in DOMAIN js[k] : js[k][i] \in T BY DEF ToSet
  <2>3. \A i \in DOMAIN js[k] : /\ TransferFromJSON(js[k][i]) = TrueTransfers(gen, done[k])[i]
                                /\ TransferFromJSON(js[k][i]) # Thrown
    BY <1>3
  <2>4. \A i \in DOMAIN js[k] : F[js[k][i]] = TrueTransfers(gen, done[k])[i] BY <2>2, <2>3
  <2>5. DOMAIN parts[k] = DOMAIN js[k] /\ parts[k] = [i \in DOMAIN js[k] |-> TrueTransfers(gen, done[k])[i]]
    BY DEF TrueTransfers
  <2>6. js[k] \in Seq(T) BY <1>3, <2>1, <2>2
  <2>. HIDE DEF js, F, T, parts
  <2>7. parts[k] = Mapped(F, js[k]) BY <2>4, <2>5 DEF Mapped
  <2>. QED BY <2>3, <2>6, <2>7
<1>5. \A x \in T : F[x] = TransferFromJSON(x) /\ F[x] # Thrown
  <2>1. SUFFICES ASSUME NEW x \in T PROVE TransferFromJSON(x) # Thrown OBVIOUS
  <2>2. PICK k \in DOMAIN done : x \in ToSet(js[k]) OBVIOUS
  <2>3. PICK i \in DOMAIN js[k] : x = js[k][i] BY <2>2 DEF ToSet
  <2>. QED BY <1>4, <2>3
<1>6. DOMAIN js = DOMAIN done /\ js = [k \in DOMAIN js |-> js[k]] /\ Has(parts, DOMAIN done)
  BY DEF Has
<1>. HIDE DEF js, T, F, parts
<1>7. js \in Seq(Seq(T)) BY <1>2, <1>4, <1>6
<1>8. Mapped(F, all) = FlattenSeq(parts)
  <2>1. Has(parts, DOMAIN js) /\ \A k \in DOMAIN js : parts[k] = Mapped(F, js[k]) BY <1>4, <1>6
  <2>2. parts \in Seq(Seq(Image(T, F))) BY <1>7, <2>1, FlattenMapped
  <2>. QED BY <1>7, <2>1, <2>2, FlattenMapped
<1>9. all \in Seq(T) BY <1>7, FlattenType
<1>. HIDE DEF all
<1>10. \A i \in DOMAIN all : TransferFromJSON(all[i]) # Thrown /\ F[all[i]] = TransferFromJSON(all[i])
  BY <1>5, <1>9
<1>11. Each(all, TransferFromJSON) = [i \in DOMAIN all |-> TransferFromJSON(all[i])]
  BY <1>10, EachTransfer
<1>12. Each(all, TransferFromJSON) = Mapped(F, all) BY <1>10, <1>11 DEF Mapped
<1>13. ReadTransfers(g, b) = Each(all, TransferFromJSON)
  BY <1>1 DEF ReadTransfers, ChainGetBlockTransfersResult
<1>14. TransfersOf(b) = FlattenSeq(parts) BY DEF TransfersOf, parts
<1>. QED BY <1>8, <1>12, <1>13, <1>14

(* Of the transfers of a block, each transaction's are its own.              *)
LEMMA OwnTransfers ==
  ASSUME NEW b, NEW g \in {1, 2}, IsBlock(g, b), NEW t \in ToSet(b.txs)
  PROVE  Among(TransfersOf(b), {x \in ToSet(TransfersOf(b)) : x.transactionHash = TrueHash(t)})
           = IF t.error = None THEN TrueTransfers(b.gen, t) ELSE <<>>
<1>. DEFINE done == DoneOf(b)
            gen == b.gen
            parts == [k \in DOMAIN done |-> TrueTransfers(gen, done[k])]
            T == UNION {ToSet(parts[k]) : k \in DOMAIN done}
            all == TransfersOf(b)
            S == {x \in ToSet(all) : x.transactionHash = TrueHash(t)}
            R == {x \in T : x.transactionHash = TrueHash(t)}
            mine == [k \in DOMAIN done |-> Among(parts[k], R)]
<1>1. gen \in {1, 2} /\ done \in Seq(ToSet(b.txs)) /\ DOMAIN done = 1..Len(done) /\ Len(done) \in Nat
      /\ \A k \in DOMAIN done : IsTransaction(gen, done[k])
  BY DoneAre, BlockFields
<1>2. ASSUME NEW k \in DOMAIN done
      PROVE  /\ parts[k] \in Seq(T)
             /\ \A i \in DOMAIN parts[k] : parts[k][i].transactionHash = TrueHash(done[k])
  <2>1. DOMAIN done[k].transfers = 1..Len(done[k].transfers) /\ Len(done[k].transfers) \in Nat
    BY <1>1, TransfersAre
  <2>2. DOMAIN parts[k] = 1..Len(done[k].transfers) /\ parts[k] = [i \in DOMAIN parts[k] |-> parts[k][i]]
    BY <2>1 DEF TrueTransfers
  <2>3. \A i \in DOMAIN parts[k] : parts[k][i].transactionHash = TrueHash(done[k])
    BY DEF TrueTransfers, Merged
  <2>4. \A i \in DOMAIN parts[k] : parts[k][i] \in T BY DEF ToSet
  <2>. HIDE DEF parts
  <2>. QED BY <2>1, <2>2, <2>3, <2>4
<1>3. DOMAIN parts = DOMAIN done /\ parts = [k \in DOMAIN parts |-> parts[k]] /\ all = FlattenSeq(parts)
      /\ DOMAIN mine = DOMAIN done /\ Has(mine, DOMAIN done)
      /\ \A k \in DOMAIN done : mine[k] = Among(parts[k], R)
  BY DEF TransfersOf, Has
<1>. HIDE DEF parts, T, mine
<1>4. parts \in Seq(Seq(T)) BY <1>1, <1>2, <1>3
<1>5. all \in Seq(T) BY <1>3, <1>4, FlattenType
<1>6. Among(all, S) = Among(all, R)
  <2>1. \A i \in DOMAIN all : all[i] \in S <=> all[i] \in R BY <1>5 DEF ToSet
  <2>. HIDE DEF S, R, all
  <2>. QED BY <2>1, AmongSame
<1>7. Among(FlattenSeq(parts), R) = FlattenSeq(mine) /\ mine \in Seq(Seq(T))
  <2>. HIDE DEF R
  <2>. QED BY <1>3, <1>4, FlattenAmong
<1>8. \A t1, t2 \in ToSet(b.txs) : TrueHash(t1) = TrueHash(t2) => t1 = t2 BY DoneAre
<1>9. \A k \in DOMAIN done : done[k] \in ToSet(b.txs) BY DoneAre
<1>10. ASSUME NEW k \in DOMAIN done, done[k] # t PROVE mine[k] = <<>>
  <2>1. TrueHash(done[k]) # TrueHash(t) BY <1>8, <1>9, <1>10
  <2>2. \A i \in DOMAIN parts[k] : parts[k][i] \notin R BY <1>2, <2>1
  <2>. HIDE DEF R
  <2>. QED BY <1>2, <1>3, <2>2, AmongNone
<1>11. ASSUME NEW k \in DOMAIN done, done[k] = t PROVE mine[k] = TrueTransfers(gen, t)
  <2>1. \A i \in DOMAIN parts[k] : parts[k][i] \in R BY <1>2, <1>11
  <2>2. parts[k] = TrueTransfers(gen, t) BY <1>11 DEF parts
  <2>. HIDE DEF R
  <2>3. Among(parts[k], R) = parts[k] BY <1>2, <2>1, AmongAll
  <2>. QED BY <1>3, <2>2, <2>3
<1>12. CASE t.error = None
  <2>1. t \in ToSet(done) BY <1>12, DoneAre
  <2>2. PICK j \in DOMAIN done : t = done[j] BY <2>1 DEF ToSet
  <2>3. \A k \in DOMAIN done : k # j => done[k] # t BY <2>2, DoneAre DEF Distinct
  <2>4. \A k \in DOMAIN mine : k # j => mine[k] = <<>> BY <1>3, <1>10, <2>3
  <2>5. FlattenSeq(mine) = mine[j] BY <1>3, <1>7, <2>4, FlattenOne
  <2>. QED BY <1>3, <1>6, <1>7, <1>11, <1>12, <2>2, <2>5
<1>13. CASE t.error # None
  <2>1. t \notin ToSet(done) BY <1>13, DoneAre
  <2>2. \A k \in DOMAIN done : done[k] # t BY <2>1 DEF ToSet
  <2>3. \A k \in DOMAIN mine : mine[k] = <<>> BY <1>3, <1>10, <2>2
  <2>4. FlattenSeq(mine) = <<>> BY <1>7, <2>3, FlattenNone
  <2>. QED BY <1>3, <1>6, <1>7, <1>13, <2>4
<1>. QED BY <1>12, <1>13

(* The transfers of a block and those of its outcomes agree.                 *)
LEMMA TransfersRight == ASSUME Apart PROVE IInv => TransfersAgree
<1>. SUFFICES ASSUME IInv PROVE TransfersAgree OBVIOUS
<1>1. ASSUME NEW a \in Kinded(answers, {"transfers"})
      PROVE  a.api \in {1, 2} /\ IsBlock(a.api, a.about) /\ a.got = TransfersOf(a.about)
  <2>1. a \in answers /\ a.ask = "transfers" BY DEF Kinded
  <2>2. a.api \in {1, 2} /\ IsBlock(a.api, a.about) /\ a.got = ReadTransfers(a.api, a.about)
    BY <2>1 DEF IInv, Right, RightOfBlock
  <2>. QED BY <2>2, BlockTransfersRead
<1>2. ASSUME NEW a \in Kinded(answers, {"transfers"})
      PROVE  LET done == Among(a.about.txs, {t \in ToSet(a.about.txs) : t.error = None})
             IN a.got = FlattenSeq([k \in DOMAIN done |-> TrueTransfers(a.about.gen, done[k])])
  BY <1>1 DEF TransfersOf, DoneOf
<1>3. ASSUME NEW o \in Outcomes, NEW a \in Kinded(answers, {"transfers"}), o.about.block = a.about
      PROVE  o.result.transfers = Among(a.got, {x \in ToSet(a.got) : x.transactionHash = TrueHash(o.about.tx)})
  <2>. DEFINE b == a.about
              t == o.about.tx
  <2>1. /\ \E g \in {1, 2} : IsKnown(g, o.about)
        /\ o.about.block # None /\ IsTransaction(b.gen, t) /\ b.gen \in {1, 2}
        /\ \E who : o.result = Outcome(b.gen, t, who)
    BY <1>3, OutcomeIs
  <2>2. t \in ToSet(b.txs) BY <1>3, <2>1, KnownTransaction
  <2>3. PICK who : o.result = Outcome(b.gen, t, who) BY <2>1
  <2>4. o.result.transfers = IF t.error = None THEN TrueTransfers(b.gen, t) ELSE <<>>
    BY <2>1, <2>3, TransfersOfOutcome
  <2>5. a.api \in {1, 2} /\ IsBlock(a.api, b) /\ a.got = TransfersOf(b) BY <1>1
  <2>. HIDE DEF b, t
  <2>6. Among(TransfersOf(b), {x \in ToSet(TransfersOf(b)) : x.transactionHash = TrueHash(t)})
           = IF t.error = None THEN TrueTransfers(b.gen, t) ELSE <<>>
    BY <2>2, <2>5, OwnTransfers
  <2>7. o.result.transfers = Among(a.got, {x \in ToSet(a.got) : x.transactionHash = TrueHash(t)})
    BY <2>4, <2>5, <2>6
  <2>. QED BY <2>7 DEF t
<1>. QED BY <1>2, <1>3 DEF TransfersAgree

(* What is speculated is told by the result of its generation.               *)
LEMMA SpeculativeRead ==
  ASSUME Apart, NEW b, NEW t, NEW gen \in {1, 2}, IsTransaction(gen, t), b.hash # None
  PROVE  LET got == SpeculativeExecResult(SpeculativeAnswer(gen, b, t))
             v1 == got.executionResultV1
             v2 == got.executionResult
         IN /\ got.blockHash = b.hash /\ (v1 = None) = (gen = 2) /\ (v2 = None) = (gen = 1)
            /\ gen = 1 => IF t.error = None THEN v1.Success.cost = t.consumed
                          ELSE v1.Failure.error_message = t.error
            /\ gen = 2 => /\ v2.consumed = t.consumed /\ v2.errorMessage = t.error
                          /\ v2.transfers = IF t.error = None THEN TrueTransfers(2, t) ELSE <<>>
<1>1. CASE gen = 1
  <2>. DEFINE exec == ResultV1JSON(t)
              json == SpeculativeAnswer(1, b, t)
              got == SpeculativeExecResult(json)
  <2>1. json = [block_hash |-> b.hash, execution_result |-> exec] BY DEF SpeculativeAnswer
  <2>2. DOMAIN exec = (IF t.error = None THEN {"Success"} ELSE {"Failure"})
        /\ (t.error = None => exec.Success.cost = t.cost)
        /\ (t.error # None => exec.Failure.error_message = t.error)
        /\ exec # None
    BY DEF ResultV1JSON, Apart, NotAnObject
  <2>. HIDE DEF exec, json
  <2>3. Get(exec, "block_hash") = None /\ Get(exec, "limit") = None /\ Get(exec, "consumed") = None
    BY <2>2 DEF Get
  <2>4. json.execution_result = exec /\ Get(json, "block_hash") = b.hash BY <2>1 DEF Get
  <2>5. got = [blockHash |-> b.hash, executionResult |-> None, executionResultV1 |-> exec]
    BY <2>2, <2>3, <2>4 DEF SpeculativeExecResult, OrElse
  <2>6. t.consumed = t.cost BY <1>1 DEF IsTransaction
  <2>7. json = SpeculativeAnswer(gen, b, t) BY <1>1 DEF json
  <2>. HIDE DEF got
  <2>8. /\ got.blockHash = b.hash /\ got.executionResultV1 # None /\ got.executionResult = None
        /\ IF t.error = None THEN got.executionResultV1.Success.cost = t.consumed
           ELSE got.executionResultV1.Failure.error_message = t.error
    BY <2>2, <2>5, <2>6
  <2>. QED BY <1>1, <2>7, <2>8 DEF got
<1>2. CASE gen = 2
  <2>. DEFINE exec == [block_hash |-> b.hash, limit |-> t.limit, consumed |-> t.consumed, error |-> t.error,
                       transfers |-> ResultV2JSON(t).transfers, effects |-> ResultV2JSON(t).effects]
              json == SpeculativeAnswer(2, b, t)
              got == SpeculativeExecResult(json)
              v2 == SpeculativeExecutionResult(exec)
  <2>1. json = [execution_result |-> exec] BY DEF SpeculativeAnswer
  <2>2. /\ Get(exec, "block_hash") = b.hash /\ Get(exec, "consumed") = t.consumed
        /\ Get(exec, "error") = t.error /\ exec.transfers = ResultV2JSON(t).transfers
    BY DEF Get
  <2>3. v2.consumed = Get(exec, "consumed") /\ v2.errorMessage = Get(exec, "error")
        /\ v2.transfers = Each(exec.transfers, TransferFromJSON) /\ v2 # None
    BY DEF SpeculativeExecutionResult, Apart, NotAnObject
  <2>4. ResultV2JSON(t).transfers =
          IF t.error = None THEN [i \in DOMAIN t.transfers |-> TransferJSON(2, TRUE, t, i)] ELSE <<>>
    BY DEF ResultV2JSON
  <2>. HIDE DEF exec, json
  <2>5. json.execution_result = exec BY <2>1
  <2>. HIDE DEF v2
  <2>6. got = [blockHash |-> b.hash, executionResult |-> v2, executionResultV1 |-> None]
    BY <2>2, <2>5 DEF SpeculativeExecResult, OrElse, v2
  <2>7. Each(exec.transfers, TransferFromJSON) = Transfers2(t) BY <2>2, <2>4 DEF Transfers2, Each
  <2>8. Transfers2(t) = IF t.error = None THEN TrueTransfers(2, t) ELSE <<>> BY <1>2, Transfers2Read
  <2>9. json = SpeculativeAnswer(gen, b, t) BY <1>2 DEF json
  <2>. HIDE DEF got
  <2>10. /\ got.blockHash = b.hash /\ got.executionResultV1 = None /\ got.executionResult # None
         /\ got.executionResult.consumed = t.consumed /\ got.executionResult.errorMessage = t.error
         /\ got.executionResult.transfers = IF t.error = None THEN TrueTransfers(2, t) ELSE <<>>
    BY <2>2, <2>3, <2>6, <2>7, <2>8
  <2>. QED BY <1>2, <2>9, <2>10 DEF got
<1>. QED BY <1>1, <1>2

(* A speculative execution is told by the result of its generation.          *)
LEMMA SpeculativeRight == ASSUME Apart PROVE IInv => SpeculativeTold
<1>. SUFFICES ASSUME IInv, NEW a \in Kinded(answers, {"speculative"})
     PROVE  LET t == a.about.tx
                v1 == a.got.executionResultV1
                v2 == a.got.executionResult
            IN /\ a.got.blockHash = a.about.block.hash
               /\ (v1 = None) = (a.api = 2) /\ (v2 = None) = (a.api = 1)
               /\ v1 # None => IF t.error = None THEN v1.Success.cost = t.consumed
                               ELSE v1.Failure.error_message = t.error
               /\ v2 # None => /\ v2.consumed = t.consumed /\ v2.errorMessage = t.error
                               /\ v2.transfers = IF t.error = None THEN TrueTransfers(2, t) ELSE <<>>
  BY DEF SpeculativeTold
<1>1. a \in answers /\ a.ask = "speculative" BY DEF Kinded
<1>2. /\ a.api \in {1, 2} /\ IsKnown(a.api, a.about) /\ a.about.block # None /\ a.about.block.gen = a.api
      /\ a.got = SpeculativeExecResult(SpeculativeAnswer(a.api, a.about.block, a.about.tx))
  BY <1>1 DEF IInv, Right, RightOfTransaction
<1>3. IsBlock(a.api, a.about.block) /\ IsTransaction(a.api, a.about.tx) BY <1>2, KnownTransaction
<1>4. a.about.block.hash # None BY <1>2, <1>3, BlockFields
<1>. DEFINE got == a.got
            b == a.about.block
            t == a.about.tx
            gen == a.api
<1>5. gen \in {1, 2} /\ IsTransaction(gen, t) /\ b.hash # None
      /\ got = SpeculativeExecResult(SpeculativeAnswer(gen, b, t))
  BY <1>2, <1>3, <1>4
<1>. HIDE DEF got, b, t, gen
<1>6. LET v1 == got.executionResultV1
          v2 == got.executionResult
      IN /\ got.blockHash = b.hash /\ (v1 = None) = (gen = 2) /\ (v2 = None) = (gen = 1)
         /\ gen = 1 => IF t.error = None THEN v1.Success.cost = t.consumed
                       ELSE v1.Failure.error_message = t.error
         /\ gen = 2 => /\ v2.consumed = t.consumed /\ v2.errorMessage = t.error
                       /\ v2.transfers = IF t.error = None THEN TrueTransfers(2, t) ELSE <<>>
  BY <1>5, SpeculativeRead
<1>. QED BY <1>5, <1>6 DEF got, b, t, gen

-----------------------------------------------------------------------------
(* The state of the chain *)
LEMMA KindRead ==
  ASSUME Apart, NEW who, IsWho(who)
  PROVE  /\ KindJSON(who) # None
         /\ DelegationKind(KindJSON(who)) = [publicKey |-> who.publicKey,
              purse |-> IF who.purse = None THEN None ELSE [address |-> who.purse, access |-> 7]]
<1>1. (who.publicKey = None) # (who.purse = None) BY DEF IsWho
<1>2. CASE who.purse = None
  <2>1. who.publicKey # None BY <1>1, <1>2
  <2>2. KindJSON(who) = [PublicKey |-> who.publicKey] BY <1>2 DEF KindJSON
  <2>. QED BY <1>2, <2>1, <2>2 DEF DelegationKind, Get, PublicKeyKind, Apart, NotAnObject
<1>3. CASE who.purse # None
  <2>1. who.publicKey = None BY <1>1, <1>3
  <2>2. KindJSON(who) = [Purse |-> who.purse] BY <1>3 DEF KindJSON
  <2>. QED BY <1>3, <2>1, <2>2 DEF DelegationKind, Get, Apart, NotAnObject
<1>. QED BY <1>2, <1>3

(* One payment, under either name and by either generation.                  *)
LEMMA PaymentRead ==
  ASSUME Apart, NEW g \in {1, 2}, NEW name \in {"Delegator", "DelegatorKind"}, NEW p, IsPayment(p),
         g = 2 \/ p.who = None \/ p.who.purse = None,
         NEW told, told = SeigniorageAllocation(AllocationJSON(g, name, p))
  PROVE  /\ told # Thrown
         /\ p.who = None => told.validator = [validatorPublicKey |-> p.validator, amount |-> p.amount]
         /\ p.who # None =>
              /\ told.validator = None
              /\ told.delegator.validatorPublicKey = p.validator /\ told.delegator.amount = p.amount
              /\ told.delegator.delegatorKind.publicKey = p.who.publicKey
              /\ (told.delegator.delegatorKind.purse = None) = (p.who.purse = None)
<1>. DEFINE paid == [validator_public_key |-> p.validator, amount |-> p.amount]
            json == AllocationJSON(g, name, p)
<1>0. told = SeigniorageAllocation(json) OBVIOUS
<1>1. paid # None BY DEF Apart, NotAnObject
<1>2. CASE p.who = None
  <2>1. json = [Validator |-> paid] BY <1>2 DEF AllocationJSON
  <2>2. ValidatorAllocation(paid) = [validatorPublicKey |-> p.validator, amount |-> p.amount]
    BY DEF ValidatorAllocation
  <2>. HIDE DEF paid, json
  <2>3. Get(json, "Delegator") = None /\ Get(json, "Validator") # None /\ json.Validator = paid
    BY <1>1, <2>1 DEF Get
  <2>4. told = [validator |-> ValidatorAllocation(paid), delegator |-> None]
    BY <2>3, <1>0 DEF SeigniorageAllocation
  <2>5. told # Thrown BY <2>4 DEF Apart, NotAnObject
  <2>. QED BY <1>2, <2>2, <2>4, <2>5 DEF json
<1>3. CASE p.who # None /\ g = 1
  <2>1. IsWho(p.who) /\ p.who.purse = None BY <1>3 DEF IsPayment
  <2>. DEFINE d == Merged([delegator_public_key |-> p.who.publicKey], paid)
  <2>2. json = [Delegator |-> d] BY <1>3 DEF AllocationJSON
  <2>3. /\ DOMAIN d = {"delegator_public_key", "validator_public_key", "amount"}
        /\ d.delegator_public_key = p.who.publicKey /\ d.validator_public_key = p.validator
        /\ d.amount = p.amount
        /\ d # None
    BY DEF Merged, Apart, NotAnObject
  <2>. HIDE DEF d, json
  <2>4. Get(json, "Delegator") = d BY <2>2 DEF Get
  <2>5. Get(d, "delegator_kind") = None /\ Get(d, "delegator_public_key") = p.who.publicKey
    BY <2>3 DEF Get
  <2>6. told = [validator |-> None,
                delegator |-> [delegatorKind |-> PublicKeyKind(p.who.publicKey),
                               validatorPublicKey |-> p.validator, amount |-> p.amount]]
    BY <2>3, <2>4, <2>5, <1>0 DEF SeigniorageAllocation, DelegatorData
  <2>7. told # Thrown BY <2>6 DEF Apart, NotAnObject
  <2>. QED BY <1>3, <2>1, <2>6, <2>7 DEF PublicKeyKind, json
<1>4. CASE p.who # None /\ g = 2
  <2>. DEFINE kind == KindJSON(p.who)
              d == Merged([delegator_kind |-> kind], paid)
              read == DelegationKind(kind)
  <2>1. kind # None
        /\ read = [publicKey |-> p.who.publicKey,
              purse |-> IF p.who.purse = None THEN None ELSE [address |-> p.who.purse, access |-> 7]]
    BY <1>4, KindRead DEF IsPayment
  <2>2. read.publicKey = p.who.publicKey /\ (read.purse = None) = (p.who.purse = None)
    BY <2>1 DEF Apart, NotAnObject
  <2>. HIDE DEF kind
  <2>3. json = Only(name, d) BY <1>4 DEF AllocationJSON, kind
  <2>4. /\ DOMAIN d = {"delegator_kind", "validator_public_key", "amount"}
        /\ d.delegator_kind = kind /\ d.validator_public_key = p.validator /\ d.amount = p.amount
        /\ d # None
    BY DEF Merged, Apart, NotAnObject
  <2>. HIDE DEF d, json, read
  <2>5. Get(d, "delegator_kind") = kind BY <2>4 DEF Get
  <2>6. DelegatorAllocation(d) = [delegatorKind |-> read, validatorPublicKey |-> p.validator, amount |-> p.amount]
    BY <2>1, <2>4, <2>5 DEF DelegatorAllocation, Member, read
  <2>7. told = [validator |-> None, delegator |-> DelegatorAllocation(d)]
    <3>1. CASE name = "Delegator"
      <4>1. Get(json, "Delegator") = d BY <2>3, <3>1 DEF Get, Only
      <4>. QED BY <2>1, <2>4, <2>5, <4>1, <1>0 DEF SeigniorageAllocation
    <3>2. CASE name = "DelegatorKind"
      <4>1. Get(json, "Delegator") = None /\ Get(json, "Validator") = None /\ Get(json, "DelegatorKind") = d
            /\ json.DelegatorKind = d
        BY <2>3, <3>2 DEF Get, Only
      <4>. QED BY <2>4, <4>1, <1>0 DEF SeigniorageAllocation
    <3>. QED BY <3>1, <3>2
  <2>8. told # Thrown BY <2>7 DEF Apart, NotAnObject
  <2>. QED BY <1>4, <2>2, <2>6, <2>7, <2>8 DEF json
<1>. QED BY <1>2, <1>3, <1>4

(* The payments of an era are told one by one.                               *)
LEMMA PaymentsRight == ASSUME Apart PROVE IInv => PaymentsTold
<1>. SUFFICES ASSUME IInv, NEW a \in Kinded(answers, {"payments"})
     PROVE  /\ a.got.eraInfo # Thrown /\ Len(a.got.eraInfo) = Len(a.about)
            /\ \A i \in DOMAIN a.about :
                 LET p == a.about[i]
                     told == a.got.eraInfo[i]
                 IN IF p.who = None
                    THEN told.validator = [validatorPublicKey |-> p.validator, amount |-> p.amount]
                    ELSE /\ told.validator = None
                         /\ told.delegator.validatorPublicKey = p.validator
                         /\ told.delegator.amount = p.amount
                         /\ told.delegator.delegatorKind.publicKey = p.who.publicKey
                         /\ (told.delegator.delegatorKind.purse = None) = (p.who.purse = None)
  BY DEF PaymentsTold
<1>. DEFINE ps == a.about
            g == a.api
<1>1. a \in answers /\ a.ask = "payments" BY DEF Kinded
<1>2. /\ g \in {1, 2} /\ ps \in PaymentFacts
      /\ \A i \in DOMAIN ps : g = 2 \/ ps[i].who = None \/ ps[i].who.purse = None
      /\ \E name \in {"Delegator", "DelegatorKind"} : a.got = EraSummary(EraSummaryJSON(g, name, ps))
  BY <1>1 DEF IInv, Right, RightOfState
<1>3. PICK name \in {"Delegator", "DelegatorKind"} : a.got = EraSummary(EraSummaryJSON(g, name, ps))
  BY <1>2
<1>4. ps \in Seq(ToSet(ps)) /\ \A i \in DOMAIN ps : IsPayment(ps[i])
  BY <1>2, PaymentsAssumption DEF IsList, ToSet
<1>. DEFINE list == [i \in DOMAIN ps |-> AllocationJSON(g, name, ps[i])]
            read == [i \in DOMAIN ps |-> SeigniorageAllocation(list[i])]
            info == [seigniorage_allocations |-> list]
            json == EraSummaryJSON(g, name, ps)
<1>5. json.stored_value = [EraInfo |-> info] BY DEF EraSummaryJSON
<1>6. info # None BY DEF Apart, NotAnObject
<1>7. \A i \in DOMAIN ps : read[i] = SeigniorageAllocation(AllocationJSON(g, name, ps[i])) OBVIOUS
<1>8. ASSUME NEW i \in DOMAIN ps
       PROVE  LET p == ps[i]
                  told == read[i]
              IN /\ told # Thrown
                 /\ p.who = None => told.validator = [validatorPublicKey |-> p.validator, amount |-> p.amount]
                 /\ p.who # None =>
                      /\ told.validator = None
                      /\ told.delegator.validatorPublicKey = p.validator /\ told.delegator.amount = p.amount
                      /\ told.delegator.delegatorKind.publicKey = p.who.publicKey
                      /\ (told.delegator.delegatorKind.purse = None) = (p.who.purse = None)
  <2>1. IsPayment(ps[i]) /\ (g = 2 \/ ps[i].who = None \/ ps[i].who.purse = None) BY <1>2, <1>4
  <2>2. read[i] = SeigniorageAllocation(AllocationJSON(g, name, ps[i])) BY <1>7
  <2>. HIDE DEF read, ps, g
  <2>. QED BY <1>2, <2>1, <2>2, PaymentRead
<1>9. EraInfo(info) = read BY <1>8 DEF EraInfo, Each
<1>10. a.got.eraInfo = read
  <2>. HIDE DEF info, json, read
  <2>1. Member(json.stored_value, "EraInfo", EraInfo) = EraInfo(info)
    BY <1>5, <1>6 DEF Member, Get
  <2>. QED BY <1>3, <1>9, <2>1 DEF EraSummary, json
<1>11. Len(read) = Len(ps) /\ read # Thrown BY <1>4 DEF Apart, NotAnObject
<1>. HIDE DEF read
<1>. QED BY <1>8, <1>10, <1>11

(* A contract package keeps its versions, groups and disabled versions.      *)
LEMMA PackagesRight == ASSUME Apart PROVE IInv => PackagesTold
<1>. SUFFICES ASSUME IInv, NEW a \in Kinded(answers, {"package"})
     PROVE  LET p == a.about
            IN /\ \A i \in DOMAIN p.groups :
                    a.got.groups[i] = [groupName |-> p.groups[i].name, groupUsers |-> p.groups[i].users]
               /\ \A i \in DOMAIN p.versions :
                    /\ <<a.got.versions[i].protocolVersionMajor, a.got.versions[i].contractVersion>> = p.versions[i]
                    /\ a.got.versions[i].contractHash = p.hashes[i]
               /\ a.api = 2 => a.got.disabledVersions = p.disabled
  BY DEF PackagesTold
<1>. DEFINE p == a.about
            g == a.api
            json == PackageJSON(g, p)
<1>1. a \in answers /\ a.ask = "package" BY DEF Kinded
<1>2. g \in {1, 2} /\ p \in PackageFacts /\ a.got = ContractPackage(json)
  BY <1>1 DEF IInv, Right, RightOfState
<1>3. IsPackage(p) BY <1>2, PackagesAssumption
<1>4. /\ DOMAIN json.groups = DOMAIN p.groups
      /\ \A i \in DOMAIN p.groups : json.groups[i] =
           IF g = 1 THEN [group |-> p.groups[i].name, keys |-> p.groups[i].users]
           ELSE [group_name |-> p.groups[i].name, group_users |-> p.groups[i].users]
      /\ DOMAIN json.versions = DOMAIN p.versions
      /\ \A i \in DOMAIN p.versions : json.versions[i] =
           Merged([contract_hash |-> p.hashes[i]],
                  [protocol_version_major |-> p.versions[i][1], contract_version |-> p.versions[i][2]])
      /\ g = 2 => Get(json, "disabled_versions") = [arrays |-> p.disabled]
                  /\ json.disabled_versions = [arrays |-> p.disabled]
  BY DEF PackageJSON, Get
<1>. HIDE DEF json, p, g
<1>5. /\ a.got.groups = [i \in DOMAIN json.groups |-> ContractGroup(json.groups[i])]
      /\ a.got.versions = [i \in DOMAIN json.versions |-> ContractVersion(json.versions[i])]
      /\ a.got.disabledVersions = Member(json, "disabled_versions", deserializeDisabledVersions)
  BY <1>2 DEF ContractPackage
<1>6. ASSUME NEW i \in DOMAIN p.groups
      PROVE  a.got.groups[i] = [groupName |-> p.groups[i].name, groupUsers |-> p.groups[i].users]
  <2>1. p.groups[i].name # None /\ p.groups[i].users # None BY <1>3 DEF IsPackage, ToSet
  <2>. DEFINE name == p.groups[i].name
              users == p.groups[i].users
  <2>2. a.got.groups[i] = ContractGroup(json.groups[i]) BY <1>4, <1>5
  <2>. HIDE DEF name, users
  <2>3. ContractGroup([group |-> name, keys |-> users]) = [groupName |-> name, groupUsers |-> users]
    BY <2>1 DEF ContractGroup, OrElse, Get, name, users
  <2>4. ContractGroup([group_name |-> name, group_users |-> users]) = [groupName |-> name, groupUsers |-> users]
    BY DEF ContractGroup, OrElse, Get
  <2>. QED BY <1>4, <2>2, <2>3, <2>4 DEF name, users
<1>7. ASSUME NEW i \in DOMAIN p.versions
      PROVE  /\ <<a.got.versions[i].protocolVersionMajor, a.got.versions[i].contractVersion>> = p.versions[i]
             /\ a.got.versions[i].contractHash = p.hashes[i]
  <2>. DEFINE n == p.versions[i]
              hash == p.hashes[i]
              m == Merged([contract_hash |-> hash], [protocol_version_major |-> n[1], contract_version |-> n[2]])
  <2>1. n = <<n[1], n[2]>> BY <1>3 DEF IsPackage, ToSet
  <2>2. a.got.versions[i] = ContractVersion(m) BY <1>4, <1>5
  <2>. HIDE DEF n, hash
  <2>3. m.contract_hash = hash /\ m.protocol_version_major = n[1] /\ m.contract_version = n[2]
    BY DEF Merged
  <2>. HIDE DEF m
  <2>4. /\ ContractVersion(m).protocolVersionMajor = n[1] /\ ContractVersion(m).contractVersion = n[2]
        /\ ContractVersion(m).contractHash = hash
    BY <2>3 DEF ContractVersion
  <2>. QED BY <2>1, <2>2, <2>4 DEF n, hash
<1>8. ASSUME g = 2 PROVE a.got.disabledVersions = p.disabled
  <2>1. p.disabled # None
    <3>1. p.disabled \in Seq(ToSet(p.disabled)) BY <1>3 DEF IsPackage, IsList
    <3>2. p.disabled = [n \in DOMAIN p.disabled |-> p.disabled[n]] BY <3>1
    <3>. QED BY <3>2 DEF Apart, NotAnObject
  <2>. DEFINE wrapped == [arrays |-> p.disabled]
  <2>2. wrapped # None BY DEF Apart, NotAnObject
  <2>3. deserializeDisabledVersions(wrapped) = p.disabled BY <2>1 DEF deserializeDisabledVersions, Get
  <2>. HIDE DEF wrapped
  <2>4. Get(json, "disabled_versions") = wrapped /\ json.disabled_versions = wrapped
    BY <1>4, <1>8 DEF wrapped
  <2>. QED BY <1>5, <2>2, <2>3, <2>4 DEF Member
<1>. QED BY <1>6, <1>7, <1>8 DEF p, g

-----------------------------------------------------------------------------
(* The bids of an auction *)
BidName == [Credit |-> "credit", Bridge |-> "bridge", Reservation |-> "reservation", Unbond |-> "unbond"]
Said(T, name) == [x \in T |-> x.bid[name]]
Holding(T, name) == {x \in T : x.bid[name] # None}
BidIs(x, name, value) == \A n \in DOMAIN NoBid : x.bid[n] = IF n = name THEN value ELSE None

ToldOf(bids, name) ==
    LET named == Among(bids, {x \in ToSet(bids) : x.bid[name] # None})
    IN [i \in DOMAIN named |-> named[i].bid[name]]

(* The bids of one kind, mapped from those that hold it.                     *)
LEMMA ToldIsKept ==
  ASSUME NEW T, NEW bids \in Seq(T), NEW name
  PROVE  ToldOf(bids, name) = Mapped(Said(T, name), Among(bids, Holding(T, name)))
<1>. DEFINE named == Among(bids, {x \in ToSet(bids) : x.bid[name] # None})
            kept == Among(bids, Holding(T, name))
<1>1. \A i \in DOMAIN bids : bids[i] \in {x \in ToSet(bids) : x.bid[name] # None} <=> bids[i] \in Holding(T, name)
  BY DEF Holding, ToSet
<1>2. named = kept BY <1>1, AmongSame
<1>3. kept \in Seq(T) BY AmongType
<1>4. ToldOf(bids, name) = [i \in DOMAIN named |-> named[i].bid[name]] BY DEF ToldOf
<1>. HIDE DEF named, kept
<1>5. \A i \in DOMAIN kept : kept[i].bid[name] = Said(T, name)[kept[i]] BY <1>3 DEF Said
<1>6. ToldOf(bids, name) = [i \in DOMAIN kept |-> kept[i].bid[name]] BY <1>2, <1>4
<1>7. [i \in DOMAIN kept |-> kept[i].bid[name]] = Mapped(Said(T, name), kept) BY <1>5 DEF Mapped
<1>. QED BY <1>6, <1>7 DEF kept

Heard(T, name, bids) == Mapped(Said(T, name), Among(bids, Holding(T, name)))

(* What a list of bids holds of a validator v: one bid of it, one of each of *)
(* its delegators and, if more is told, one of each of the other kinds.      *)
Tells(T, v, more, one, dels, F) ==
    /\ one \in T /\ BidIs(one, "validator", one.bid.validator) /\ one.bid.validator # None
    /\ one.bid.validator.validatorPublicKey = v.key /\ one.bid.validator.stake = v.stake
    /\ more => one.bid.validator.minimumDelegationAmount = v.min
    /\ dels \in Seq(T) /\ Len(dels) = Len(v.delegators)
    /\ \A j \in DOMAIN v.delegators : BidIs(dels[j], "delegator", TrueDelegations(v)[j])
    /\ more => \A x \in ToSet(v.others) : F[x] \in T /\ BidIs(F[x], BidName[x.name], x.value)
PartOf(v, more, one, dels, F) ==
    Joined(Joined(<<one>>, dels), IF more THEN Mapped(F, v.others) ELSE <<>>)

(* The bids of the other kinds of one validator.                             *)
LEMMA OthersKept ==
  ASSUME Apart, NEW T, NEW v, IsValidator(v), NEW F, NEW name \in DOMAIN BidName,
         \A x \in ToSet(v.others) : F[x] \in T /\ BidIs(F[x], BidName[x.name], x.value)
  PROVE  /\ Mapped(F, v.others) \in Seq(T) /\ Len(Mapped(F, v.others)) = Len(v.others)
         /\ Mapped(Said(T, BidName[name]), Among(Mapped(F, v.others), Holding(T, BidName[name])))
              = OthersNamed(v.others, name)
<1>. DEFINE U == ToSet(v.others)
            s == v.others
            R == {x \in U : x.name = name}
            S == Holding(T, BidName[name])
            g == Said(T, BidName[name])
            named == Among(s, R)
            m == Mapped(F, named)
<1>1. s \in Seq(U) BY DEF IsValidator, IsList
<1>2. \A x \in U : x.value # None /\ x.name \in DOMAIN BidName BY DEF IsValidator, BidName
<1>3. \A x \in U : F[x] \in T /\ F[x].bid[BidName[name]] = IF x.name = name THEN x.value ELSE None
  BY <1>2 DEF BidIs, BidName, NoBid
<1>4. \A x \in U : x \in R <=> F[x] \in S BY <1>2, <1>3 DEF Holding
<1>5. Mapped(F, s) \in Seq(T) /\ Len(Mapped(F, s)) = Len(s) BY <1>1, <1>3 DEF Mapped
<1>6. OthersNamed(v.others, name) = [i \in DOMAIN named |-> named[i].value] BY DEF OthersNamed
<1>7. named \in Seq(U \cap R) BY <1>1, AmongType
<1>. HIDE DEF U, s, R, S
<1>8. Among(Mapped(F, s), S) = Mapped(F, named) BY <1>1, <1>4, MappedAmong
<1>9. \A i \in DOMAIN named : named[i] \in U /\ named[i].name = name
  <2>1. \A i \in DOMAIN named : named[i] \in U \cap R BY <1>7
  <2>. QED BY <2>1 DEF R
<1>10. DOMAIN m = DOMAIN named /\ \A i \in DOMAIN named : m[i] = F[named[i]] BY DEF Mapped
<1>. HIDE DEF named, m
<1>11. \A i \in DOMAIN named : g[m[i]] = named[i].value BY <1>3, <1>9, <1>10 DEF Said
<1>. HIDE DEF g
<1>12. Mapped(g, m) = [i \in DOMAIN named |-> named[i].value] BY <1>10, <1>11 DEF Mapped
<1>. QED BY <1>5, <1>6, <1>8, <1>12 DEF U, s, S, g, named, m

(* What the bids made of one validator tell.                                 *)
LEMMA PartTold ==
  ASSUME Apart, NEW T, NEW v, IsValidator(v), NEW more \in BOOLEAN, NEW one, NEW dels, NEW F,
         Tells(T, v, more, one, dels, F), NEW s, s = PartOf(v, more, one, dels, F)
  PROVE  /\ s \in Seq(T)
         /\ Len(s) = 1 + Len(v.delegators) + IF more THEN Len(v.others) ELSE 0
         /\ Heard(T, "validator", s) = <<one.bid.validator>>
         /\ Heard(T, "delegator", s) = TrueDelegations(v)
         /\ more => \A name \in DOMAIN BidName : Heard(T, BidName[name], s) = OthersNamed(v.others, name)
<1>. DEFINE first == <<one>>
            rest == IF more THEN Mapped(F, v.others) ELSE <<>>
            kept(name, part) == Mapped(Said(T, name), Among(part, Holding(T, name)))
<1>1. /\ one \in T /\ BidIs(one, "validator", one.bid.validator) /\ one.bid.validator # None
      /\ dels \in Seq(T) /\ Len(dels) = Len(v.delegators)
      /\ \A j \in DOMAIN v.delegators : BidIs(dels[j], "delegator", TrueDelegations(v)[j])
      /\ more => \A x \in ToSet(v.others) : F[x] \in T /\ BidIs(F[x], BidName[x.name], x.value)
  BY DEF Tells
<1>2. first \in Seq(T) /\ Len(first) = 1 /\ first[1] = one BY <1>1
<1>3. /\ v.delegators \in Seq(ToSet(v.delegators)) /\ v.others \in Seq(ToSet(v.others))
      /\ \A x \in ToSet(v.others) : x.name \in DOMAIN BidName /\ x.value # None
  BY DEF IsValidator, IsList, BidName
<1>4. rest \in Seq(T) /\ Len(rest) = IF more THEN Len(v.others) ELSE 0
  <2>1. CASE more
    <3>1. "Credit" \in DOMAIN BidName BY DEF BidName
    <3>. QED BY <1>1, <2>1, <3>1, OthersKept
  <2>2. CASE ~more BY <2>2
  <2>. QED BY <2>1, <2>2
<1>5. s = Joined(Joined(first, dels), rest) BY DEF PartOf
<1>6. \A j \in DOMAIN rest : \E x \in ToSet(v.others) : more /\ rest[j] = F[x]
  <2>1. CASE more
    <3>1. rest = Mapped(F, v.others) BY <2>1
    <3>2. \A j \in DOMAIN Mapped(F, v.others) : v.others[j] \in ToSet(v.others)
              /\ Mapped(F, v.others)[j] = F[v.others[j]]
      BY <1>3 DEF Mapped, ToSet
    <3>. HIDE DEF rest
    <3>. QED BY <2>1, <3>1, <3>2
  <2>2. CASE ~more BY <2>2
  <2>. QED BY <2>1, <2>2
<1>7. DOMAIN dels = DOMAIN v.delegators BY <1>1, <1>3
<1>. HIDE DEF first, rest
<1>8. s \in Seq(T) BY <1>1, <1>2, <1>4, <1>5, JoinedType
<1>9. Len(s) = 1 + Len(v.delegators) + IF more THEN Len(v.others) ELSE 0
  <2>. DEFINE m == IF more THEN Len(v.others) ELSE 0
  <2>1. Len(rest) = m BY <1>4
  <2>. HIDE DEF m
  <2>. DEFINE both == Joined(first, dels)
  <2>2. both \in Seq(T) BY <1>1, <1>2, JoinedType
  <2>3. Len(both) = Len(first) + Len(dels) BY <1>1, <1>2, JoinedLength
  <2>. HIDE DEF both
  <2>4. Len(Joined(both, rest)) = Len(both) + Len(rest) BY <1>4, <2>2 DEF Joined
  <2>5. s = Joined(both, rest) BY <1>5 DEF both
  <2>6. Len(s) = 1 + Len(v.delegators) + m BY <1>1, <1>2, <2>1, <2>3, <2>4, <2>5
  <2>. QED BY <2>6 DEF m
<1>10. \A name : kept(name, s) = Joined(Joined(kept(name, first), kept(name, dels)), kept(name, rest))
  BY <1>1, <1>2, <1>4, <1>5, KeptOfThree
<1>11. \A name : Among(<<>>, Holding(T, name)) = <<>> /\ Mapped(Said(T, name), <<>>) = <<>>
  BY AmongEmpty DEF Mapped
<1>12. TrueDelegations(v) = [j \in DOMAIN v.delegators |-> TrueDelegations(v)[j]]
       /\ \A j \in DOMAIN v.delegators : TrueDelegations(v)[j] # None
  BY DEF TrueDelegations, Apart, NotAnObject
<1>13. /\ \A j \in DOMAIN first : first[j].bid["validator"] = one.bid.validator /\ first[j].bid["delegator"] = None
       /\ \A j \in DOMAIN first : \A name \in DOMAIN BidName : first[j].bid[BidName[name]] = None
  BY <1>1, <1>2 DEF BidIs, NoBid, BidName
<1>14. /\ \A j \in DOMAIN dels : dels[j].bid["delegator"] = TrueDelegations(v)[j] /\ dels[j].bid["validator"] = None
       /\ \A j \in DOMAIN dels : \A name \in DOMAIN BidName : dels[j].bid[BidName[name]] = None
  BY <1>1, <1>7 DEF BidIs, NoBid, BidName
<1>15. \A j \in DOMAIN rest : rest[j].bid["delegator"] = None /\ rest[j].bid["validator"] = None
  BY <1>1, <1>3, <1>6 DEF BidIs, NoBid, BidName
<1>16. kept("validator", s) = <<one.bid.validator>>
  <2>. DEFINE S == Holding(T, "validator")
  <2>1. Among(first, S) = first
    <3>1. \A j \in DOMAIN first : first[j] \in S BY <1>1, <1>2, <1>13 DEF Holding
    <3>. HIDE DEF S
    <3>. QED BY <1>2, <3>1, AmongAll
  <2>2. Among(dels, S) = <<>>
    <3>1. \A j \in DOMAIN dels : dels[j] \notin S BY <1>14 DEF Holding
    <3>. HIDE DEF S
    <3>. QED BY <1>1, <3>1, AmongNone
  <2>3. Among(rest, S) = <<>>
    <3>1. \A j \in DOMAIN rest : rest[j] \notin S BY <1>15 DEF Holding
    <3>. HIDE DEF S
    <3>. QED BY <1>4, <3>1, AmongNone
  <2>4. Mapped(Said(T, "validator"), first) = <<one.bid.validator>> BY <1>1, <1>2 DEF Mapped, Said
  <2>5. kept("validator", s) = Joined(Joined(<<one.bid.validator>>, <<>>), <<>>)
    BY <1>10, <1>11, <2>1, <2>2, <2>3, <2>4
  <2>. QED BY <2>5 DEF Joined
<1>17. kept("delegator", s) = TrueDelegations(v)
  <2>. DEFINE S == Holding(T, "delegator")
              told == TrueDelegations(v)
  <2>1. Among(first, S) = <<>>
    <3>1. \A j \in DOMAIN first : first[j] \notin S BY <1>13 DEF Holding
    <3>. HIDE DEF S
    <3>. QED BY <1>2, <3>1, AmongNone
  <2>2. Among(dels, S) = dels
    <3>0. \A j \in DOMAIN dels : dels[j] \in T /\ dels[j].bid["delegator"] # None
      <4>1. \A j \in DOMAIN dels : dels[j] \in T BY <1>1
      <4>. HIDE DEF S
      <4>2. \A j \in DOMAIN dels : dels[j].bid["delegator"] # None BY <1>7, <1>12, <1>14, Zenon
      <4>. QED BY <4>1, <4>2
    <3>1. \A j \in DOMAIN dels : dels[j] \in S BY <3>0 DEF Holding
    <3>. HIDE DEF S
    <3>. QED BY <1>1, <3>1, AmongAll
  <2>3. Among(rest, S) = <<>>
    <3>1. \A j \in DOMAIN rest : rest[j] \notin S BY <1>15 DEF Holding
    <3>. HIDE DEF S
    <3>. QED BY <1>4, <3>1, AmongNone
  <2>. HIDE DEF told
  <2>4. \A j \in DOMAIN dels : Said(T, "delegator")[dels[j]] = told[j] BY <1>1, <1>14 DEF Said, told
  <2>5. told = [j \in DOMAIN dels |-> told[j]] BY <1>7, <1>12 DEF told
  <2>6. Mapped(Said(T, "delegator"), dels) = told BY <2>4, <2>5 DEF Mapped
  <2>7. kept("delegator", s) = Joined(Joined(<<>>, told), <<>>)
    BY <1>10, <1>11, <2>1, <2>2, <2>3, <2>6
  <2>8. told \in Seq(ToSet(told)) BY <1>1, <1>7, <2>5 DEF ToSet
  <2>9. Joined(Joined(<<>>, told), <<>>) = told BY <2>8 DEF Joined
  <2>. QED BY <2>7, <2>9 DEF told
<1>18. ASSUME more, NEW name \in DOMAIN BidName PROVE kept(BidName[name], s) = OthersNamed(v.others, name)
  <2>. DEFINE S == Holding(T, BidName[name])
              others == OthersNamed(v.others, name)
  <2>1. Among(first, S) = <<>>
    <3>1. \A j \in DOMAIN first : first[j] \notin S BY <1>13 DEF Holding
    <3>. HIDE DEF S
    <3>. QED BY <1>2, <3>1, AmongNone
  <2>2. Among(dels, S) = <<>>
    <3>1. \A j \in DOMAIN dels : dels[j] \notin S BY <1>14 DEF Holding
    <3>. HIDE DEF S
    <3>. QED BY <1>1, <3>1, AmongNone
  <2>3. rest = Mapped(F, v.others) BY <1>18 DEF rest
  <2>4. kept(BidName[name], rest) = others BY <1>1, <1>18, <2>3, OthersKept
  <2>. HIDE DEF others
  <2>5. kept(BidName[name], s) = Joined(Joined(<<>>, <<>>), others)
    BY <1>10, <1>11, <2>1, <2>2, <2>4
  <2>6. others \in Seq(ToSet(others))
    <3>1. v.others \in Seq(ToSet(v.others)) BY <1>3
    <3>. DEFINE named == Among(v.others, {x \in ToSet(v.others) : x.name = name})
    <3>2. named \in Seq(ToSet(v.others)) BY <3>1, AmongType
    <3>3. others = [i \in DOMAIN named |-> named[i].value] BY DEF others, OthersNamed
    <3>. HIDE DEF named
    <3>. QED BY <3>2, <3>3 DEF ToSet
  <2>7. Joined(Joined(<<>>, <<>>), others) = others BY <2>6 DEF Joined
  <2>. QED BY <2>5, <2>7 DEF others
<1>. QED BY <1>8, <1>9, <1>16, <1>17, <1>18 DEF Heard

(* The values of one kind, mapped from the bids with its name.               *)
LEMMA OthersAreKept ==
  ASSUME NEW U, NEW s \in Seq(U), NEW name
  PROVE  OthersNamed(s, name) = Mapped([x \in U |-> x.value], Among(s, {x \in U : x.name = name}))
<1>. DEFINE named == Among(s, {x \in ToSet(s) : x.name = name})
            kept == Among(s, {x \in U : x.name = name})
            g == [x \in U |-> x.value]
<1>1. \A i \in DOMAIN s : s[i] \in {x \in ToSet(s) : x.name = name} <=> s[i] \in {x \in U : x.name = name}
  BY DEF ToSet
<1>2. named = kept BY <1>1, AmongSame
<1>3. kept \in Seq(U) BY AmongType
<1>4. OthersNamed(s, name) = [i \in DOMAIN named |-> named[i].value] BY DEF OthersNamed
<1>. HIDE DEF named, kept
<1>5. \A i \in DOMAIN kept : kept[i].value = g[kept[i]] BY <1>3
<1>6. OthersNamed(s, name) = [i \in DOMAIN kept |-> kept[i].value] BY <1>2, <1>4
<1>7. [i \in DOMAIN kept |-> kept[i].value] = Mapped(g, kept) BY <1>5 DEF Mapped
<1>. QED BY <1>6, <1>7 DEF kept

(* Lists of lists, of any elements.                                          *)
LEMMA ListOfLists ==
  ASSUME NEW n \in Nat, NEW f, Has(f, 1..n), \A i \in 1..n : IsList(f[i])
  PROVE  \E U : f \in Seq(Seq(U)) /\ \A i \in 1..n : f[i] \in Seq(U)
<1>. DEFINE U == UNION {ToSet(f[i]) : i \in 1..n}
<1>1. ASSUME NEW i \in 1..n PROVE f[i] \in Seq(U)
  <2>1. f[i] \in Seq(ToSet(f[i])) BY DEF IsList
  <2>2. ToSet(f[i]) \subseteq U OBVIOUS
  <2>3. \A A, B : A \subseteq B => Seq(A) \subseteq Seq(B) OBVIOUS
  <2>. HIDE DEF U
  <2>. QED BY <2>1, <2>2, <2>3
<1>. HIDE DEF U
<1>2. f \in Seq(Seq(U)) BY <1>1 DEF Has
<1>. QED BY <1>1, <1>2

(* The same for the bids of all the validators.                              *)
LEMMA OthersFlatten ==
  ASSUME NEW n \in Nat, NEW f, Has(f, 1..n), \A i \in 1..n : IsList(f[i]), NEW name,
         NEW parts, Has(parts, 1..n), \A i \in 1..n : parts[i] = OthersNamed(f[i], name)
  PROVE  FlattenSeq(parts) = OthersNamed(FlattenSeq(f), name)
<1>1. PICK U : f \in Seq(Seq(U)) /\ \A i \in 1..n : f[i] \in Seq(U) BY ListOfLists
<1>. DEFINE g == [x \in U |-> x.value]
            S == {x \in U : x.name = name}
<1>2. ASSUME NEW i \in 1..n PROVE parts[i] = Mapped(g, Among(f[i], S))
  <2>1. f[i] \in Seq(U) BY <1>1
  <2>2. OthersNamed(f[i], name) = Mapped(g, Among(f[i], S)) BY <2>1, OthersAreKept
  <2>. QED BY <2>2
<1>3. DOMAIN f = 1..n BY DEF Has
<1>4. FlattenSeq(f) \in Seq(U) BY <1>1, FlattenType
<1>5. OthersNamed(FlattenSeq(f), name) = Mapped(g, Among(FlattenSeq(f), S)) BY <1>4, OthersAreKept
<1>. HIDE DEF g, S
<1>6. Has(parts, DOMAIN f) /\ \A i \in DOMAIN f : parts[i] = Mapped(g, Among(f[i], S)) BY <1>2, <1>3
<1>7. parts \in Seq(Seq(Image(U, g))) BY <1>1, <1>6, FlattenKept
<1>8. Mapped(g, Among(FlattenSeq(f), S)) = FlattenSeq(parts) BY <1>1, <1>6, <1>7, FlattenKept
<1>. QED BY <1>5, <1>8

(* What lists of bids tell, one after the other.                             *)
LEMMA HeardFlatten ==
  ASSUME NEW T, NEW name, NEW ss \in Seq(Seq(T)), NEW parts, Has(parts, DOMAIN ss),
         \A i \in DOMAIN ss : parts[i] = Heard(T, name, ss[i])
  PROVE  Heard(T, name, FlattenSeq(ss)) = FlattenSeq(parts)
<1>. DEFINE g == Said(T, name)
            S == Holding(T, name)
<1>1. \A i \in DOMAIN ss : parts[i] = Mapped(g, Among(ss[i], S)) BY DEF Heard
<1>. HIDE DEF g, S
<1>2. parts \in Seq(Seq(Image(T, g))) BY <1>1, FlattenKept
<1>3. Mapped(g, Among(FlattenSeq(ss), S)) = FlattenSeq(parts) BY <1>1, <1>2, FlattenKept
<1>. QED BY <1>3 DEF Heard, g, S

(* What the bids of all validators tell together.                            *)
AllTell(T, v, more, ones, dels, F) == \A i \in DOMAIN v : Tells(T, v[i], more, ones[i], dels[i], F[i])
PartsOf(parts, v, more, ones, dels, F) ==
    Has(parts, DOMAIN v) /\ \A i \in DOMAIN v : parts[i] = PartOf(v[i], more, ones[i], dels[i], F[i])
DelegationsOf(v) == FlattenSeq([i \in DOMAIN v |-> TrueDelegations(v[i])])
OthersOf(v) == FlattenSeq([i \in DOMAIN v |-> v[i].others])
Gathered(v, more, ones, bids) ==
    /\ ToldOf(bids, "validator") = [i \in DOMAIN v |-> ones[i].bid.validator]
    /\ ToldOf(bids, "delegator") = DelegationsOf(v)
    /\ more => \A name \in DOMAIN BidName : ToldOf(bids, BidName[name]) = OthersNamed(OthersOf(v), name)
    /\ IF more THEN Len(bids) = Len(v) + Len(DelegationsOf(v)) + Len(OthersOf(v))
       ELSE Len(bids) = Len(v) + Len(DelegationsOf(v))

(* The bids made of all the validators, gathered.                            *)
LEMMA AuctionTold ==
  ASSUME Apart, NEW v, IsList(v), \A x \in ToSet(v) : IsValidator(x), NEW more \in BOOLEAN, NEW T,
         NEW ones, NEW dels, NEW F, AllTell(T, v, more, ones, dels, F),
         NEW parts, PartsOf(parts, v, more, ones, dels, F)
  PROVE  Gathered(v, more, ones, FlattenSeq(parts))
<1>. DEFINE bids == FlattenSeq(parts)
            told == [i \in DOMAIN v |-> TrueDelegations(v[i])]
            lists == [i \in DOMAIN v |-> v[i].others]
            n == Len(v)
            firsts == [i \in DOMAIN v |-> ones[i].bid.validator]
<1>1. n \in Nat /\ DOMAIN v = 1..n /\ \A i \in 1..n : IsValidator(v[i])
  <2>1. v \in Seq(ToSet(v)) BY DEF IsList
  <2>. QED BY <2>1
<1>. HIDE DEF n
<1>2. ASSUME NEW i \in 1..n
      PROVE  /\ parts[i] \in Seq(T)
             /\ Len(parts[i]) = 1 + Len(v[i].delegators) + IF more THEN Len(v[i].others) ELSE 0
             /\ Heard(T, "validator", parts[i]) = <<ones[i].bid.validator>>
             /\ Heard(T, "delegator", parts[i]) = TrueDelegations(v[i])
             /\ more => \A name \in DOMAIN BidName :
                  Heard(T, BidName[name], parts[i])
                    = OthersNamed(v[i].others, name)
  <2>1. IsValidator(v[i]) /\ Tells(T, v[i], more, ones[i], dels[i], F[i]) BY <1>1 DEF AllTell
  <2>2. parts[i] = PartOf(v[i], more, ones[i], dels[i], F[i]) BY <1>1 DEF PartsOf
  <2>. QED BY <2>1, <2>2, PartTold
<1>3. parts \in Seq(Seq(T)) /\ Len(parts) = n /\ DOMAIN parts = 1..n
  <2>1. parts = [i \in 1..n |-> parts[i]] BY <1>1 DEF Has, PartsOf
  <2>2. \A i \in 1..n : parts[i] \in Seq(T) BY <1>2
  <2>. QED BY <1>1, <2>1, <2>2
<1>4. bids \in Seq(T) BY <1>3, FlattenType
<1>. HIDE DEF bids
<1>5. \A name : ToldOf(bids, name) = Heard(T, name, bids)
  BY <1>4, ToldIsKept DEF Heard
<1>6. ASSUME NEW name, NEW each, Has(each, 1..n),
             \A i \in 1..n : each[i] = Heard(T, name, parts[i])
      PROVE  ToldOf(bids, name) = FlattenSeq(each)
  <2>2. Has(each, DOMAIN parts) /\ \A i \in DOMAIN parts : each[i] = Heard(T, name, parts[i])
    BY <1>3, <1>6
  <2>1. Heard(T, name, FlattenSeq(parts)) = FlattenSeq(each) BY <1>3, <2>2, HeardFlatten
  <2>. QED BY <1>5, <2>1 DEF bids
<1>7. ToldOf(bids, "validator") = firsts
  <2>. DEFINE each == [i \in 1..n |-> <<ones[i].bid.validator>>]
              U == {ones[i].bid.validator : i \in 1..n}
  <2>1. Has(each, 1..n) BY DEF Has
  <2>2. \A i \in 1..n : each[i] = Heard(T, "validator", parts[i]) BY <1>2
  <2>3. firsts \in Seq(U) /\ DOMAIN firsts = 1..n /\ \A i \in DOMAIN firsts : each[i] = <<firsts[i]>>
    BY <1>1
  <2>. HIDE DEF each, U, firsts
  <2>4. ToldOf(bids, "validator") = FlattenSeq(each) BY <1>6, <2>1, <2>2
  <2>5. FlattenSeq(each) = firsts BY <2>1, <2>3, FlattenSingles
  <2>. QED BY <2>4, <2>5
<1>8. ToldOf(bids, "delegator") = FlattenSeq(told)
  <2>1. Has(told, 1..n) BY <1>1 DEF Has
  <2>2. \A i \in 1..n : told[i] = Heard(T, "delegator", parts[i]) BY <1>1, <1>2
  <2>. HIDE DEF told
  <2>. QED BY <1>6, <2>1, <2>2
<1>9. /\ Has(lists, 1..n)
      /\ \A i \in 1..n : lists[i] = v[i].others
      /\ \A i \in 1..n : IsList(lists[i])
  BY <1>1 DEF IsValidator, Has
<1>10. ASSUME more, NEW name \in DOMAIN BidName
       PROVE  ToldOf(bids, BidName[name]) = OthersNamed(FlattenSeq(lists), name)
  <2>. DEFINE each == [i \in 1..n |-> OthersNamed(v[i].others, name)]
  <2>1. Has(each, 1..n) BY DEF Has
  <2>2. \A i \in 1..n : each[i] = Heard(T, BidName[name], parts[i])
    BY <1>2, <1>10
  <2>3. \A i \in 1..n : each[i] = OthersNamed(lists[i], name) BY <1>9
  <2>. HIDE DEF each, lists
  <2>4. ToldOf(bids, BidName[name]) = FlattenSeq(each) BY <1>6, <2>1, <2>2
  <2>5. FlattenSeq(each) = OthersNamed(FlattenSeq(lists), name) BY <1>1, <1>9, <2>1, <2>3, OthersFlatten
  <2>. QED BY <2>4, <2>5
<1>11. \A i \in 1..n : IsList(told[i]) /\ Len(told[i]) = Len(v[i].delegators) /\ Len(told[i]) \in Nat
  <2>. SUFFICES ASSUME NEW i \in 1..n
                PROVE  IsList(TrueDelegations(v[i])) /\ Len(TrueDelegations(v[i])) = Len(v[i].delegators)
                       /\ Len(TrueDelegations(v[i])) \in Nat
    BY <1>1
  <2>. DEFINE d == v[i].delegators
              t == TrueDelegations(v[i])
  <2>1. d \in Seq(ToSet(d)) BY <1>1 DEF IsValidator, IsList
  <2>2. DOMAIN t = DOMAIN d /\ t = [j \in DOMAIN d |-> t[j]] BY DEF TrueDelegations
  <2>. HIDE DEF t
  <2>3. Len(d) \in Nat /\ DOMAIN d = 1..Len(d) BY <2>1
  <2>4. t \in Seq(ToSet(t)) /\ Len(t) = Len(d) BY <2>2, <2>3 DEF ToSet
  <2>. QED BY <2>3, <2>4 DEF t, IsList
<1>12. IF more THEN Len(bids) = n + Len(FlattenSeq(told)) + Len(FlattenSeq(lists))
       ELSE Len(bids) = n + Len(FlattenSeq(told))
  <2>. DEFINE rest == [i \in 1..n |-> IF more THEN v[i].others ELSE <<>>]
  <2>1. PICK U : told \in Seq(Seq(U))
    <3>1. Has(told, 1..n) BY <1>1 DEF Has
    <3>. HIDE DEF told
    <3>. QED BY <1>1, <1>11, <3>1, ListOfLists
  <2>2. \A i \in 1..n : IsList(rest[i])
    <3>1. \A i \in 1..n : IsList(v[i].others) BY <1>1 DEF IsValidator
    <3>2. IsList(<<>>) BY DEF IsList
    <3>. QED BY <3>1, <3>2
  <2>3. PICK V : rest \in Seq(Seq(V))
    <3>1. Has(rest, 1..n) BY DEF Has
    <3>. HIDE DEF rest
    <3>. QED BY <1>1, <2>2, <3>1, ListOfLists
  <2>4. Len(told) = n /\ Len(rest) = n BY <1>1
  <2>5. \A i \in 1..n : Len(rest[i]) = IF more THEN Len(v[i].others) ELSE 0 OBVIOUS
  <2>6. FlattenSeq(rest) = IF more THEN FlattenSeq(lists) ELSE <<>>
    <3>1. CASE more
      <4>1. rest = lists BY <1>1, <3>1
      <4>. QED BY <3>1, <4>1
    <3>2. CASE ~more
      <4>1. \A i \in DOMAIN rest : rest[i] = <<>> BY <3>2
      <4>. HIDE DEF rest
      <4>. QED BY <2>3, <3>2, <4>1, FlattenNone
    <3>. QED BY <3>1, <3>2
  <2>. HIDE DEF told, rest
  <2>7. \A i \in 1..n : Len(parts[i]) = 1 + Len(told[i]) + Len(rest[i]) BY <1>2, <1>11, <2>5
  <2>8. Adds(parts, told, rest, n) BY <1>3, <2>4, <2>7 DEF Adds
  <2>9. Len(bids) = n + Len(FlattenSeq(told)) + Len(FlattenSeq(rest))
    BY <1>1, <1>3, <2>1, <2>3, <2>8, FlattenLengths DEF bids
  <2>10. IF more THEN FlattenSeq(rest) = FlattenSeq(lists) ELSE Len(FlattenSeq(rest)) = 0 BY <2>6
  <2>11. FlattenSeq(told) \in Seq(U) BY <2>1, FlattenType
  <2>. DEFINE d == Len(FlattenSeq(told))
  <2>12. d \in Nat BY <2>11
  <2>. HIDE DEF d
  <2>13. Len(bids) = n + d + Len(FlattenSeq(rest)) BY <2>9 DEF d
  <2>14. more => Len(bids) = n + d + Len(FlattenSeq(lists)) BY <2>10, <2>13
  <2>15. ~more => Len(bids) = n + d BY <1>1, <2>10, <2>12, <2>13
  <2>. QED BY <2>14, <2>15 DEF d
<1>13. /\ told = [i \in DOMAIN v |-> TrueDelegations(v[i])] /\ lists = [i \in DOMAIN v |-> v[i].others]
       /\ firsts = [i \in DOMAIN v |-> ones[i].bid.validator]
  OBVIOUS
<1>. HIDE DEF told, lists, firsts
<1>. QED BY <1>7, <1>8, <1>10, <1>12, <1>13 DEF bids, n, Gathered, DelegationsOf, OthersOf

(* The bids as the older method's answer is read.                            *)
OldOne(v) ==
    [publicKey |-> v.key,
     bid |-> [NoBid EXCEPT !.validator =
        [validatorPublicKey |-> v.key, stake |-> v.stake, terms |-> v.terms, reservedSlots |-> 0,
         minimumDelegationAmount |-> DEFAULT_MINIMUM_DELEGATION_AMOUNT,
         maximumDelegationAmount |-> DEFAULT_MAXIMUM_DELEGATION_AMOUNT]]]
OldDelegation(v, told) == [publicKey |-> v.key, bid |-> [NoBid EXCEPT !.delegator = told]]
OldDels(v) == [j \in DOMAIN v.delegators |-> OldDelegation(v, TrueDelegations(v)[j])]

(* One delegation of a validator.                                            *)
LEMMA DelegatorIs ==
  ASSUME Apart, NEW v, IsValidator(v), NEW j \in DOMAIN v.delegators
  PROVE  /\ v.delegators[j] \in ToSet(v.delegators) /\ IsWho(v.delegators[j].who)
         /\ TrueDelegations(v)[j] = [stake |-> v.delegators[j].stake, validatorPublicKey |-> v.key,
                                     delegatorKind |-> DelegationKind(KindJSON(v.delegators[j].who))]
<1>. DEFINE d == v.delegators[j]
<1>1. d \in ToSet(v.delegators) BY DEF ToSet
<1>2. IsWho(d.who) BY <1>1 DEF IsValidator
<1>3. DelegationKind(KindJSON(d.who)) =
        [publicKey |-> d.who.publicKey,
         purse |-> IF d.who.purse = None THEN None ELSE [address |-> d.who.purse, access |-> 7]]
  <2>. HIDE DEF d
  <2>. QED BY <1>2, KindRead
<1>4. TrueDelegations(v)[j] = [stake |-> d.stake, validatorPublicKey |-> v.key,
        delegatorKind |-> [publicKey |-> d.who.publicKey,
         purse |-> IF d.who.purse = None THEN None ELSE [address |-> d.who.purse, access |-> 7]]]
  BY DEF TrueDelegations
<1>. QED BY <1>1, <1>2, <1>3, <1>4

(* A delegation as a 2.x node writes it, read.                               *)
LEMMA DelegatorRead ==
  ASSUME Apart, NEW v, IsValidator(v), NEW j \in DOMAIN v.delegators
  PROVE  Delegator(DelegatorJSON(v, v.delegators[j])) = TrueDelegations(v)[j]
<1>. DEFINE d == v.delegators[j]
            kind == KindJSON(d.who)
            json == DelegatorJSON(v, d)
<1>1. IsWho(d.who)
      /\ TrueDelegations(v)[j] = [stake |-> d.stake, validatorPublicKey |-> v.key, delegatorKind |-> DelegationKind(kind)]
  BY DelegatorIs
<1>2. kind # None
  <2>. DEFINE who == d.who
  <2>1. IsWho(who) BY <1>1
  <2>. HIDE DEF who
  <2>2. KindJSON(who) # None BY <2>1, KindRead
  <2>. QED BY <2>2 DEF who
<1>. HIDE DEF d, kind
<1>3. /\ json.stake = d.stake /\ Get(json, "validator_public_key") = v.key
      /\ Get(json, "delegator_kind") = kind /\ json.delegator_kind = kind
  BY DEF DelegatorJSON, Get, kind
<1>. HIDE DEF json
<1>4. Delegator(json) = [stake |-> d.stake, delegatorKind |-> DelegationKind(kind), validatorPublicKey |-> v.key]
  BY <1>2, <1>3 DEF Delegator, Member
<1>. QED BY <1>1, <1>4 DEF json, d

(* The delegations of a 1.x bid, in a list or named by their keys.           *)
LEMMA OldDelegators ==
  ASSUME Apart, NEW v, IsValidator(v), NEW g \in {1, 2}, \A d \in ToSet(v.delegators) : d.who.purse = None,
         NEW json, json = [i \in DOMAIN v.delegators |->
                             IF g = 1 THEN DelegatorV1JSON(v, v.delegators[i]) ELSE Wrapped(v, v.delegators[i])]
  PROVE  DelegatorFromJSON(json) = TrueDelegations(v)
<1>. DEFINE D == DOMAIN v.delegators
            told == TrueDelegations(v)
<1>1. DOMAIN json = D /\ told = [j \in D |-> told[j]] BY DEF TrueDelegations
<1>2. D = 1..Len(v.delegators) /\ Len(v.delegators) \in Nat
  <2>1. v.delegators \in Seq(ToSet(v.delegators)) BY DEF IsValidator, IsList
  <2>. QED BY <2>1
<1>3. json # <<>> => 1 \in D
  <2>1. CASE D = {}
    <3>1. json = [i \in {} |-> None] BY <2>1
    <3>2. <<>> = [i \in {} |-> None] OBVIOUS
    <3>. QED BY <3>1, <3>2
  <2>2. CASE D # {} BY <1>2, <2>2
  <2>. QED BY <2>1, <2>2
<1>4. ASSUME NEW j \in D
      PROVE  /\ v.delegators[j].who.publicKey # None /\ v.delegators[j].who.purse = None
             /\ json[j] = IF g = 1 THEN DelegatorV1JSON(v, v.delegators[j]) ELSE Wrapped(v, v.delegators[j])
  <2>1. v.delegators[j] \in ToSet(v.delegators) /\ IsWho(v.delegators[j].who) BY DelegatorIs
  <2>. QED BY <2>1 DEF IsWho
<1>5. CASE g = 1
  <2>1. ASSUME NEW j \in D
        PROVE  /\ newDelegatorFromDelegatorV1(DelegatorV1(json[j])) = told[j]
               /\ Get(json[j], "delegator_public_key") = None
    <3>. DEFINE d == v.delegators[j]
                old == DelegatorV1JSON(v, d)
    <3>1. json[j] = old /\ d.who.purse = None BY <1>4, <1>5
    <3>2. told[j] = [stake |-> d.stake, validatorPublicKey |-> v.key,
                     delegatorKind |-> [publicKey |-> d.who.publicKey,
             purse |-> IF d.who.purse = None THEN None ELSE [address |-> d.who.purse, access |-> 7]]]
      BY DEF TrueDelegations
    <3>. HIDE DEF d, told
    <3>3. /\ old.stake = d.stake /\ Get(old, "public_key") = d.who.publicKey
          /\ Get(old, "delegatee") = v.key
          /\ Get(old, "delegator_public_key") = None
      BY DEF DelegatorV1JSON, Get
    <3>. HIDE DEF old
    <3>4. newDelegatorFromDelegatorV1(DelegatorV1(old)) =
            [stake |-> d.stake, delegatorKind |-> [publicKey |-> d.who.publicKey, purse |-> None],
             validatorPublicKey |-> v.key]
      BY <3>3 DEF newDelegatorFromDelegatorV1, DelegatorV1, PublicKeyKind
    <3>. QED BY <3>1, <3>2, <3>3, <3>4
  <2>2. ~(json # <<>> /\ Get(json[1], "delegator_public_key") # None) BY <1>3, <2>1
  <2>. HIDE DEF told
  <2>3. DelegatorFromJSON(json) = [i \in DOMAIN json |-> newDelegatorFromDelegatorV1(DelegatorV1(json[i]))]
    BY <2>2 DEF DelegatorFromJSON
  <2>. QED BY <1>1, <2>1, <2>3 DEF told
<1>6. CASE g = 2
  <2>1. ASSUME NEW j \in D
        PROVE  /\ Delegator(json[j].delegator) = told[j]
               /\ Get(json[j], "delegator_public_key") # None
    <3>1. json[j].delegator = DelegatorJSON(v, v.delegators[j])
          /\ Get(json[j], "delegator_public_key") = v.delegators[j].who.publicKey
      BY <1>4, <1>6 DEF Wrapped, Get
    <3>. QED BY <1>4, <3>1, DelegatorRead
  <2>. HIDE DEF told
  <2>2. CASE json = <<>>
    <3>1. D = {} BY <1>1, <2>2
    <3>2. DelegatorFromJSON(json) = [i \in DOMAIN json |-> newDelegatorFromDelegatorV1(DelegatorV1(json[i]))]
      BY <2>2 DEF DelegatorFromJSON
    <3>. QED BY <1>1, <3>1, <3>2 DEF told
  <2>3. CASE json # <<>>
    <3>1. Get(json[1], "delegator_public_key") # None BY <1>3, <2>1, <2>3
    <3>2. DelegatorFromJSON(json) = [i \in DOMAIN json |-> Delegator(json[i].delegator)]
      BY <2>3, <3>1 DEF DelegatorFromJSON
    <3>. QED BY <1>1, <2>1, <3>2 DEF told
  <2>. QED BY <2>2, <2>3
<1>. QED BY <1>5, <1>6

(* The bids made of a 1.x validator tell what it is.                         *)
LEMMA OldTells ==
  ASSUME Apart, NEW v, IsValidator(v), NEW T, OldOne(v) \in T, \A j \in DOMAIN v.delegators : OldDels(v)[j] \in T
  PROVE  Tells(T, v, FALSE, OldOne(v), OldDels(v), None)
<1>. DEFINE one == OldOne(v)
            dels == OldDels(v)
            D == DOMAIN v.delegators
            bid == [validatorPublicKey |-> v.key, stake |-> v.stake, terms |-> v.terms, reservedSlots |-> 0,
                    minimumDelegationAmount |-> DEFAULT_MINIMUM_DELEGATION_AMOUNT,
                    maximumDelegationAmount |-> DEFAULT_MAXIMUM_DELEGATION_AMOUNT]
<1>1. one.bid = [NoBid EXCEPT !.validator = bid] BY DEF OldOne
<1>2. bid # None /\ bid.validatorPublicKey = v.key /\ bid.stake = v.stake BY DEF Apart, NotAnObject
<1>. HIDE DEF bid
<1>3. BidIs(one, "validator", bid) /\ one.bid.validator = bid BY <1>1 DEF BidIs, NoBid
<1>4. D = 1..Len(v.delegators) /\ Len(v.delegators) \in Nat
  <2>1. v.delegators \in Seq(ToSet(v.delegators)) BY DEF IsValidator, IsList
  <2>. QED BY <2>1
<1>5. DOMAIN dels = D /\ dels = [j \in D |-> dels[j]] BY DEF OldDels
<1>6. ASSUME NEW j \in D PROVE BidIs(dels[j], "delegator", TrueDelegations(v)[j])
  <2>. DEFINE told == TrueDelegations(v)[j]
  <2>1. dels[j] = OldDelegation(v, told) BY DEF OldDels
  <2>. HIDE DEF told
  <2>. QED BY <2>1 DEF BidIs, OldDelegation, NoBid, told
<1>. HIDE DEF one, dels
<1>7. dels \in Seq(T) /\ Len(dels) = Len(v.delegators)
  <2>1. \A j \in D : dels[j] \in T BY DEF dels
  <2>. QED BY <1>4, <1>5, <2>1
<1>8. one \in T BY DEF one
<1>. QED BY <1>2, <1>3, <1>6, <1>7, <1>8 DEF Tells, one, dels

(* A 1.x bid is split into its own and its delegators'.                      *)
LEMMA OldBids ==
  ASSUME Apart, NEW v, IsValidator(v), NEW g \in {1, 2}, \A d \in ToSet(v.delegators) : d.who.purse = None,
         NEW bid, bid = IF g = 1 THEN BidJSON(v, DelegatorV1JSON) ELSE BidJSON(v, Wrapped)
  PROVE  BidsOf(PublicKeyAndBid([public_key |-> v.key, bid |-> bid])) = PartOf(v, FALSE, OldOne(v), OldDels(v), None)
<1>. DEFINE json == [i \in DOMAIN v.delegators |->
                       IF g = 1 THEN DelegatorV1JSON(v, v.delegators[i]) ELSE Wrapped(v, v.delegators[i])]
            told == TrueDelegations(v)
            read == Bid(bid)
            entry == [publicKey |-> v.key, bid |-> read]
<1>1. bid = [validator_public_key |-> v.key, stake |-> v.stake, terms |-> v.terms, delegators |-> json]
  <2>1. CASE g = 1 BY <2>1 DEF BidJSON
  <2>2. CASE g = 2 BY <2>2 DEF BidJSON
  <2>. QED BY <2>1, <2>2
<1>2. json # None BY DEF Apart, NotAnObject
<1>3. DelegatorFromJSON(json) = told BY OldDelegators
<1>. HIDE DEF json, told
<1>4. Get(bid, "validator_public_key") = v.key /\ bid.stake = v.stake /\ bid.terms = v.terms
      /\ Get(bid, "delegators") = json /\ bid.delegators = json
  BY <1>1 DEF Get
<1>5. read = [validatorPublicKey |-> v.key, stake |-> v.stake, terms |-> v.terms, delegators |-> told]
  BY <1>2, <1>3, <1>4 DEF Bid, Member
<1>6. PublicKeyAndBid([public_key |-> v.key, bid |-> bid]) = entry BY DEF PublicKeyAndBid
<1>. HIDE DEF read
<1>7. /\ entry.publicKey = v.key /\ entry.bid.validatorPublicKey = v.key /\ entry.bid.stake = v.stake
      /\ entry.bid.terms = v.terms /\ entry.bid.delegators = told
  BY <1>5
<1>. HIDE DEF entry
<1>8. DOMAIN told = DOMAIN v.delegators BY DEF told, TrueDelegations
<1>9. BidsOf(entry) = <<OldOne(v)>> \o OldDels(v)
  <2>1. OldOne(v) = [publicKey |-> entry.publicKey, bid |-> [NoBid EXCEPT !.validator =
          [validatorPublicKey |-> entry.bid.validatorPublicKey, stake |-> entry.bid.stake,
             terms |-> entry.bid.terms, reservedSlots |-> 0,
             minimumDelegationAmount |-> DEFAULT_MINIMUM_DELEGATION_AMOUNT,
             maximumDelegationAmount |-> DEFAULT_MAXIMUM_DELEGATION_AMOUNT]]]
    BY <1>7, Zenon DEF OldOne
  <2>2. OldDels(v) = [i \in DOMAIN entry.bid.delegators |->
                [publicKey |-> entry.publicKey, bid |-> [NoBid EXCEPT !.delegator = entry.bid.delegators[i]]]]
    BY <1>7, <1>8, Zenon DEF OldDels, OldDelegation, told
  <2>. QED BY <2>1, <2>2, Zenon DEF BidsOf
<1>10. PartOf(v, FALSE, OldOne(v), OldDels(v), None) = Joined(Joined(<<OldOne(v)>>, OldDels(v)), <<>>)
  BY DEF PartOf
<1>11. OldDels(v) \in Seq(ToSet(OldDels(v))) /\ <<OldOne(v)>> \in Seq({OldOne(v)})
  <2>1. v.delegators \in Seq(ToSet(v.delegators)) BY DEF IsValidator, IsList
  <2>2. DOMAIN OldDels(v) = 1..Len(v.delegators) /\ Len(v.delegators) \in Nat
        /\ OldDels(v) = [j \in 1..Len(v.delegators) |-> OldDels(v)[j]]
    BY <2>1 DEF OldDels
  <2>. QED BY <2>2 DEF ToSet
<1>12. Joined(Joined(<<OldOne(v)>>, OldDels(v)), <<>>) = <<OldOne(v)>> \o OldDels(v)
  <2>. DEFINE T == {OldOne(v)} \cup ToSet(OldDels(v))
              s == <<OldOne(v)>> \o OldDels(v)
  <2>1. <<OldOne(v)>> \in Seq(T) /\ OldDels(v) \in Seq(T) BY <1>11
  <2>2. s \in Seq(T) BY <2>1
  <2>. HIDE DEF T, s
  <2>3. s \o <<>> = s BY <2>2
  <2>. QED BY <2>3 DEF Joined, s
<1>. QED BY <1>6, <1>9, <1>10, <1>12

(* The bids as the newer method's answer is read.                            *)
ValidatorJSON(v) ==
    [public_key |-> v.key,
     bid |-> [Validator |-> [validator_public_key |-> v.key, stake |-> v.stake, terms |-> v.terms,
                minimum_delegation_amount |-> v.min, maximum_delegation_amount |-> v.max,
                reserved_slots |-> v.reserved]]]
DelsJSON(v) ==
    [i \in DOMAIN v.delegators |->
        [public_key |-> v.key, bid |-> [Delegator |-> DelegatorJSON(v, v.delegators[i])]]]
OtherJSON(v, x) == [public_key |-> v.key, bid |-> Only(x.name, x.value)]
OthersJSON(v) == [i \in DOMAIN v.others |-> OtherJSON(v, v.others[i])]
EntriesJSON(v) == Joined(Joined(<<ValidatorJSON(v)>>, DelsJSON(v)), OthersJSON(v))

NewOne(v) == BidKindWrapper(ValidatorJSON(v))
NewDels(v) == [i \in DOMAIN v.delegators |-> BidKindWrapper(DelsJSON(v)[i])]
NewOthers(v) == [x \in ToSet(v.others) |-> BidKindWrapper(OtherJSON(v, x))]

(* A bid of one kind holds that kind and no other.                           *)
LEMMA BidKindRead ==
  ASSUME Apart, NEW value, value # None,
         NEW name \in {"Validator", "Delegator", "Credit", "Bridge", "Reservation", "Unbond"},
         NEW json, json = Only(name, value), NEW bid, bid = BidKind(json)
  PROVE  /\ bid.unified = None
         /\ bid.validator = IF name = "Validator" THEN ValidatorBid(value) ELSE None
         /\ bid.delegator = IF name = "Delegator" THEN Delegator(value) ELSE None
         /\ bid.credit = IF name = "Credit" THEN value ELSE None
         /\ bid.bridge = IF name = "Bridge" THEN value ELSE None
         /\ bid.reservation = IF name = "Reservation" THEN value ELSE None
         /\ bid.unbond = IF name = "Unbond" THEN value ELSE None
<1>1. \A n : Get(json, n) = (IF n = name THEN value ELSE None) /\ (n = name => json[n] = value)
  BY DEF Only, Get
<1>2. json[name] = value BY <1>1
<1>3. bid = [unified |-> Member(json, "Unified", Bid), validator |-> Member(json, "Validator", ValidatorBid),
     delegator |-> Member(json, "Delegator", Delegator), bridge |-> Member(json, "Bridge", Bridge),
     credit |-> Member(json, "Credit", Credit), reservation |-> Member(json, "Reservation", Reservation),
     unbond |-> Member(json, "Unbond", Unbond)]
  BY DEF BidKind
<1>4. Member(json, "Unified", Bid) = None BY <1>1 DEF Member
<1>5. Member(json, "Validator", ValidatorBid) = IF name = "Validator" THEN ValidatorBid(value) ELSE None
  BY <1>1 DEF Member
<1>6. Member(json, "Delegator", Delegator) = IF name = "Delegator" THEN Delegator(value) ELSE None
  BY <1>1 DEF Member
<1>7. Member(json, "Credit", Credit) = IF name = "Credit" THEN value ELSE None BY <1>1 DEF Member, Credit
<1>8. Member(json, "Bridge", Bridge) = IF name = "Bridge" THEN value ELSE None BY <1>1 DEF Member, Bridge
<1>9. Member(json, "Reservation", Reservation) = IF name = "Reservation" THEN value ELSE None
  BY <1>1 DEF Member, Reservation
<1>10. Member(json, "Unbond", Unbond) = IF name = "Unbond" THEN value ELSE None
  BY <1>1 DEF Member, Unbond
<1>11. /\ bid.unified = Member(json, "Unified", Bid)
       /\ bid.validator = Member(json, "Validator", ValidatorBid)
       /\ bid.delegator = Member(json, "Delegator", Delegator)
       /\ bid.bridge = Member(json, "Bridge", Bridge)
       /\ bid.credit = Member(json, "Credit", Credit)
       /\ bid.reservation = Member(json, "Reservation", Reservation)
       /\ bid.unbond = Member(json, "Unbond", Unbond)
  BY <1>3
<1>. QED BY <1>4, <1>5, <1>6, <1>7, <1>8, <1>9, <1>10, <1>11, Zenon

(* The bids of a 2.x validator tell what it is.                              *)
LEMMA NewTells ==
  ASSUME Apart, NEW v, IsValidator(v), NEW T, NewOne(v) \in T, \A j \in DOMAIN v.delegators : NewDels(v)[j] \in T,
         \A x \in ToSet(v.others) : NewOthers(v)[x] \in T
  PROVE  Tells(T, v, TRUE, NewOne(v), NewDels(v), NewOthers(v))
<1>. DEFINE one == NewOne(v)
            dels == NewDels(v)
            D == DOMAIN v.delegators
            json == [validator_public_key |-> v.key, stake |-> v.stake, terms |-> v.terms,
                     minimum_delegation_amount |-> v.min, maximum_delegation_amount |-> v.max,
                     reserved_slots |-> v.reserved]
            read == ValidatorBid(json)
<1>1. /\ read # None /\ read.validatorPublicKey = v.key /\ read.stake = v.stake
      /\ read.minimumDelegationAmount = v.min
  BY DEF ValidatorBid, Get, Apart, NotAnObject
<1>2. json # None BY DEF Apart, NotAnObject
<1>3. one.bid = BidKind(Only("Validator", json)) BY DEF NewOne, BidKindWrapper, ValidatorJSON, Only
<1>. HIDE DEF json, one
<1>4. BidIs(one, "validator", read) /\ one.bid.validator = read
  <2>. DEFINE bid == one.bid
  <2>. HIDE DEF bid
  <2>1. /\ bid.unified = None /\ bid.validator = read /\ bid.delegator = None /\ bid.credit = None
        /\ bid.bridge = None /\ bid.reservation = None /\ bid.unbond = None
    BY <1>2, <1>3, BidKindRead DEF bid
  <2>. HIDE DEF read
  <2>. QED BY <2>1 DEF BidIs, NoBid, bid
<1>. HIDE DEF read
<1>5. D = 1..Len(v.delegators) /\ Len(v.delegators) \in Nat
  <2>1. v.delegators \in Seq(ToSet(v.delegators)) BY DEF IsValidator, IsList
  <2>. QED BY <2>1
<1>6. DOMAIN dels = D /\ dels = [j \in D |-> dels[j]] BY DEF NewDels
<1>7. ASSUME NEW j \in D PROVE BidIs(dels[j], "delegator", TrueDelegations(v)[j])
  <2>. DEFINE told == TrueDelegations(v)[j]
              d == DelegatorJSON(v, v.delegators[j])
              bid == dels[j].bid
  <2>1. bid = BidKind(Only("Delegator", d)) BY DEF NewDels, DelsJSON, BidKindWrapper, Only
  <2>2. Delegator(d) = told BY DelegatorRead
  <2>3. d # None BY DEF DelegatorJSON, Apart, NotAnObject
  <2>. HIDE DEF d, bid, told
  <2>4. /\ bid.unified = None /\ bid.validator = None /\ bid.delegator = told /\ bid.credit = None
        /\ bid.bridge = None /\ bid.reservation = None /\ bid.unbond = None
    BY <2>1, <2>2, <2>3, BidKindRead
  <2>. QED BY <2>4 DEF BidIs, NoBid, bid, told
<1>8. ASSUME NEW x \in ToSet(v.others)
      PROVE  BidIs(NewOthers(v)[x], BidName[x.name], x.value)
  <2>. DEFINE bid == NewOthers(v)[x].bid
              name == x.name
              value == x.value
  <2>1. bid = BidKind(Only(name, value)) BY DEF NewOthers, OtherJSON, BidKindWrapper
  <2>2. value # None /\ name \in {"Credit", "Bridge", "Reservation", "Unbond"} BY DEF IsValidator
  <2>. HIDE DEF bid, name, value
  <2>3. /\ bid.unified = None /\ bid.validator = None /\ bid.delegator = None
        /\ bid.credit = IF name = "Credit" THEN value ELSE None
        /\ bid.bridge = IF name = "Bridge" THEN value ELSE None
        /\ bid.reservation = IF name = "Reservation" THEN value ELSE None
        /\ bid.unbond = IF name = "Unbond" THEN value ELSE None
    BY <2>1, <2>2, BidKindRead
  <2>. QED BY <2>2, <2>3 DEF BidIs, NoBid, BidName, bid, name, value
<1>. HIDE DEF dels
<1>9. dels \in Seq(T) /\ Len(dels) = Len(v.delegators)
  <2>1. \A j \in D : dels[j] \in T BY DEF dels
  <2>. QED BY <1>5, <1>6, <2>1
<1>10. one \in T BY DEF one
<1>11. one.bid.validator # None /\ BidIs(one, "validator", one.bid.validator) BY <1>1, <1>4
<1>. QED BY <1>1, <1>4, <1>7, <1>8, <1>9, <1>10, <1>11 DEF Tells, one, dels

(* The bids of a 2.x validator, read one by one.                             *)
LEMMA NewBids ==
  ASSUME NEW v, IsValidator(v), NEW J, ValidatorJSON(v) \in J, \A j \in DOMAIN v.delegators : DelsJSON(v)[j] \in J,
         \A x \in ToSet(v.others) : OtherJSON(v, x) \in J,
         NEW g, g = [x \in J |-> BidKindWrapper(x)]
  PROVE  /\ EntriesJSON(v) \in Seq(J)
         /\ Mapped(g, EntriesJSON(v)) = PartOf(v, TRUE, NewOne(v), NewDels(v), NewOthers(v))
<1>1. v.delegators \in Seq(ToSet(v.delegators)) /\ v.others \in Seq(ToSet(v.others))
  BY DEF IsValidator, IsList
<1>2. <<ValidatorJSON(v)>> \in Seq(J) OBVIOUS
<1>3. DelsJSON(v) \in Seq(J)
  <2>. DEFINE dels == DelsJSON(v)
  <2>1. dels = [j \in DOMAIN v.delegators |-> dels[j]] BY DEF DelsJSON
  <2>2. \A j \in DOMAIN v.delegators : dels[j] \in J OBVIOUS
  <2>3. DOMAIN v.delegators = 1..Len(v.delegators) /\ Len(v.delegators) \in Nat BY <1>1
  <2>. HIDE DEF dels
  <2>4. dels \in Seq(J) BY <2>1, <2>2, <2>3
  <2>. QED BY <2>4 DEF dels
<1>4. OthersJSON(v) \in Seq(J)
  <2>. DEFINE others == OthersJSON(v)
  <2>1. others = [j \in DOMAIN v.others |-> others[j]] BY DEF OthersJSON
  <2>2. \A j \in DOMAIN v.others : others[j] \in J BY DEF OthersJSON, ToSet
  <2>3. DOMAIN v.others = 1..Len(v.others) /\ Len(v.others) \in Nat BY <1>1
  <2>. HIDE DEF others
  <2>4. others \in Seq(J) BY <2>1, <2>2, <2>3
  <2>. QED BY <2>4 DEF others
<1>5. Mapped(g, EntriesJSON(v)) =
        Joined(Joined(Mapped(g, <<ValidatorJSON(v)>>), Mapped(g, DelsJSON(v))), Mapped(g, OthersJSON(v)))
  <2>. DEFINE a == <<ValidatorJSON(v)>>
              b == DelsJSON(v)
              c == OthersJSON(v)
  <2>1. a \in Seq(J) /\ b \in Seq(J) /\ c \in Seq(J) BY <1>2, <1>3, <1>4
  <2>2. EntriesJSON(v) = Joined(Joined(a, b), c) BY DEF EntriesJSON
  <2>. HIDE DEF a, b, c
  <2>3. Joined(a, b) \in Seq(J) /\ Mapped(g, Joined(a, b)) = Joined(Mapped(g, a), Mapped(g, b))
    BY <2>1, JoinedType, MappedJoined
  <2>4. Mapped(g, Joined(Joined(a, b), c)) = Joined(Mapped(g, Joined(a, b)), Mapped(g, c))
    BY <2>1, <2>3, MappedJoined
  <2>. QED BY <2>2, <2>3, <2>4 DEF a, b, c
<1>6. Mapped(g, <<ValidatorJSON(v)>>) = <<NewOne(v)>> BY DEF Mapped, NewOne
<1>7. Mapped(g, DelsJSON(v)) = NewDels(v)
  <2>1. DOMAIN DelsJSON(v) = DOMAIN v.delegators BY DEF DelsJSON
  <2>2. \A j \in DOMAIN v.delegators : g[DelsJSON(v)[j]] = BidKindWrapper(DelsJSON(v)[j]) OBVIOUS
  <2>. QED BY <2>1, <2>2 DEF Mapped, NewDels
<1>8. Mapped(g, OthersJSON(v)) = Mapped(NewOthers(v), v.others)
  <2>1. DOMAIN OthersJSON(v) = DOMAIN v.others BY DEF OthersJSON
  <2>2. \A j \in DOMAIN v.others : g[OthersJSON(v)[j]] = NewOthers(v)[v.others[j]]
    BY DEF OthersJSON, NewOthers, ToSet
  <2>. QED BY <2>1, <2>2 DEF Mapped
<1>9. EntriesJSON(v) \in Seq(J) BY <1>2, <1>3, <1>4, JoinedType DEF EntriesJSON
<1>. QED BY <1>5, <1>6, <1>7, <1>8, <1>9 DEF PartOf

(* All that is told of one auction, from its bids.                           *)
Auction(v, more, bids) ==
    /\ [i \in DOMAIN ToldOf(bids, "validator") |->
           <<ToldOf(bids, "validator")[i].validatorPublicKey, ToldOf(bids, "validator")[i].stake>>]
         = [i \in DOMAIN v |-> <<v[i].key, v[i].stake>>]
    /\ ToldOf(bids, "delegator") = DelegationsOf(v)
    /\ more => /\ \A i \in DOMAIN v : ToldOf(bids, "validator")[i].minimumDelegationAmount = v[i].min
               /\ \A name \in DOMAIN BidName : ToldOf(bids, BidName[name]) = OthersNamed(OthersOf(v), name)
    /\ IF more THEN Len(bids) = Len(v) + Len(DelegationsOf(v)) + Len(OthersOf(v))
       ELSE Len(bids) = Len(v) + Len(DelegationsOf(v))

(* Bids that tell every validator tell the auction.                          *)
LEMMA TellsAuction ==
  ASSUME Apart, NEW v, IsList(v), \A x \in ToSet(v) : IsValidator(x), NEW more \in BOOLEAN, NEW T,
         NEW ones, NEW dels, NEW F, AllTell(T, v, more, ones, dels, F),
         NEW parts, PartsOf(parts, v, more, ones, dels, F)
  PROVE  Auction(v, more, FlattenSeq(parts))
<1>. DEFINE bids == FlattenSeq(parts)
            validators == ToldOf(bids, "validator")
<1>1. Gathered(v, more, ones, bids) BY AuctionTold
<1>2. \A i \in DOMAIN v : ones[i].bid.validator.validatorPublicKey = v[i].key
        /\ ones[i].bid.validator.stake = v[i].stake
        /\ (more => ones[i].bid.validator.minimumDelegationAmount = v[i].min)
  BY DEF Tells, AllTell
<1>. HIDE DEF bids
<1>3. validators = [i \in DOMAIN v |-> ones[i].bid.validator] BY <1>1 DEF Gathered
<1>. HIDE DEF validators
<1>4. [i \in DOMAIN validators |-> <<validators[i].validatorPublicKey, validators[i].stake>>]
        = [i \in DOMAIN v |-> <<v[i].key, v[i].stake>>]
  <2>1. DOMAIN validators = DOMAIN v /\ \A i \in DOMAIN v : validators[i] = ones[i].bid.validator BY <1>3
  <2>2. \A i \in DOMAIN v : <<validators[i].validatorPublicKey, validators[i].stake>> = <<v[i].key, v[i].stake>>
    BY <1>2, <2>1
  <2>. QED BY <2>1, <2>2
<1>5. more => \A i \in DOMAIN v : validators[i].minimumDelegationAmount = v[i].min BY <1>2, <1>3
<1>6. Auction(v, more, bids) BY <1>1, <1>4, <1>5, Zenon DEF Auction, Gathered, validators
<1>. QED BY <1>6 DEF bids

(* The auction by the older method.                                          *)
LEMMA OldAuction ==
  ASSUME Apart, NEW v, IsList(v), \A x \in ToSet(v) : IsValidator(x), NEW g \in {1, 2},
         \A i \in DOMAIN v : \A d \in ToSet(v[i].delegators) : d.who.purse = None
  PROVE  Auction(v, FALSE, AuctionStateFromV1(AuctionStateV1(AuctionV1JSON(g, v))).bids)
<1>. DEFINE ones == [i \in DOMAIN v |-> OldOne(v[i])]
            dels == [i \in DOMAIN v |-> OldDels(v[i])]
            F == [i \in DOMAIN v |-> None]
            T == {ones[i] : i \in DOMAIN v} \cup (UNION {ToSet(dels[i]) : i \in DOMAIN v})
            bid(i) == IF g = 1 THEN BidJSON(v[i], DelegatorV1JSON) ELSE BidJSON(v[i], Wrapped)
            parts == [i \in DOMAIN v |-> BidsOf(PublicKeyAndBid([public_key |-> v[i].key, bid |-> bid(i)]))]
            json == AuctionV1JSON(g, v)
            state == AuctionStateV1(json)
<1>1. \A i \in DOMAIN v : IsValidator(v[i]) BY DEF ToSet
<1>2. ASSUME NEW i \in DOMAIN v PROVE Tells(T, v[i], FALSE, ones[i], dels[i], F[i])
  <2>1. OldOne(v[i]) \in T OBVIOUS
  <2>2. \A j \in DOMAIN v[i].delegators : OldDels(v[i])[j] \in T
    <3>1. DOMAIN OldDels(v[i]) = DOMAIN v[i].delegators BY DEF OldDels
    <3>2. \A j \in DOMAIN OldDels(v[i]) : OldDels(v[i])[j] \in ToSet(dels[i]) BY DEF ToSet
    <3>. QED BY <3>1, <3>2
  <2>. HIDE DEF T
  <2>3. Tells(T, v[i], FALSE, OldOne(v[i]), OldDels(v[i]), None) BY <1>1, <2>1, <2>2, OldTells
  <2>. QED BY <2>3
<1>3. ASSUME NEW i \in DOMAIN v PROVE parts[i] = PartOf(v[i], FALSE, ones[i], dels[i], F[i])
  <2>. DEFINE b == bid(i)
              w == v[i]
  <2>1. IsValidator(w) /\ \A d \in ToSet(w.delegators) : d.who.purse = None BY <1>1
  <2>2. b = IF g = 1 THEN BidJSON(w, DelegatorV1JSON) ELSE BidJSON(w, Wrapped) OBVIOUS
  <2>3. parts[i] = BidsOf(PublicKeyAndBid([public_key |-> w.key, bid |-> b])) OBVIOUS
  <2>4. ones[i] = OldOne(w) /\ dels[i] = OldDels(w) /\ F[i] = None OBVIOUS
  <2>. HIDE DEF b, w, parts, ones, dels, F
  <2>5. BidsOf(PublicKeyAndBid([public_key |-> w.key, bid |-> b])) = PartOf(w, FALSE, OldOne(w), OldDels(w), None)
    BY <2>1, <2>2, OldBids
  <2>. QED BY <2>3, <2>4, <2>5 DEF w
<1>4. Has(parts, DOMAIN v) BY DEF Has
<1>5. json.bids = [i \in DOMAIN v |-> [public_key |-> v[i].key, bid |-> bid(i)]] BY DEF AuctionV1JSON
<1>6. state.bids = [i \in DOMAIN json.bids |-> PublicKeyAndBid(json.bids[i])] BY DEF AuctionStateV1
<1>7. [i \in DOMAIN state.bids |-> BidsOf(state.bids[i])] = parts BY <1>5, <1>6
<1>8. AuctionStateFromV1(state).bids = FlattenSeq([i \in DOMAIN state.bids |-> BidsOf(state.bids[i])])
  BY DEF AuctionStateFromV1
<1>. HIDE DEF ones, dels, F, T, parts, state
<1>9. Auction(v, FALSE, FlattenSeq(parts))
  <2>1. AllTell(T, v, FALSE, ones, dels, F) BY <1>2 DEF AllTell
  <2>2. PartsOf(parts, v, FALSE, ones, dels, F) BY <1>3, <1>4 DEF PartsOf
  <2>. QED BY <2>1, <2>2, TellsAuction
<1>. QED BY <1>7, <1>8, <1>9 DEF state

(* The auction by the newer method.                                          *)
LEMMA NewAuction ==
  ASSUME Apart, NEW v, IsList(v), \A x \in ToSet(v) : IsValidator(x)
  PROVE  Auction(v, TRUE, AuctionStateFromV2(AuctionStateV2(AuctionV2JSON(v))).bids)
<1>. DEFINE ones == [i \in DOMAIN v |-> NewOne(v[i])]
            dels == [i \in DOMAIN v |-> NewDels(v[i])]
            F == [i \in DOMAIN v |-> NewOthers(v[i])]
            T == {ones[i] : i \in DOMAIN v} \cup (UNION {ToSet(dels[i]) : i \in DOMAIN v})
                   \cup UNION {{F[i][x] : x \in ToSet(v[i].others)} : i \in DOMAIN v}
            entries == [i \in DOMAIN v |-> EntriesJSON(v[i])]
            J == {ValidatorJSON(v[i]) : i \in DOMAIN v} \cup (UNION {ToSet(DelsJSON(v[i])) : i \in DOMAIN v})
                   \cup UNION {{OtherJSON(v[i], x) : x \in ToSet(v[i].others)} : i \in DOMAIN v}
            g == [x \in J |-> BidKindWrapper(x)]
            parts == [i \in DOMAIN v |-> Mapped(g, entries[i])]
            json == AuctionV2JSON(v)
<1>1. \A i \in DOMAIN v : IsValidator(v[i]) BY DEF ToSet
<1>2. ASSUME NEW i \in DOMAIN v PROVE Tells(T, v[i], TRUE, ones[i], dels[i], F[i])
  <2>1. NewOne(v[i]) \in T OBVIOUS
  <2>2. \A j \in DOMAIN v[i].delegators : NewDels(v[i])[j] \in T
    <3>1. DOMAIN NewDels(v[i]) = DOMAIN v[i].delegators BY DEF NewDels
    <3>2. \A j \in DOMAIN NewDels(v[i]) : NewDels(v[i])[j] \in ToSet(dels[i]) BY DEF ToSet
    <3>. QED BY <3>1, <3>2
  <2>3. ASSUME NEW x \in ToSet(v[i].others) PROVE NewOthers(v[i])[x] \in T
    <3>1. NewOthers(v[i])[x] \in {F[i][y] : y \in ToSet(v[i].others)} OBVIOUS
    <3>. QED BY <3>1
  <2>. HIDE DEF T
  <2>4. Tells(T, v[i], TRUE, NewOne(v[i]), NewDels(v[i]), NewOthers(v[i]))
    BY <1>1, <2>1, <2>2, <2>3, NewTells
  <2>. QED BY <2>4
<1>3. ASSUME NEW i \in DOMAIN v
      PROVE  entries[i] \in Seq(J) /\ parts[i] = PartOf(v[i], TRUE, ones[i], dels[i], F[i])
  <2>1. ValidatorJSON(v[i]) \in J OBVIOUS
  <2>2. \A j \in DOMAIN v[i].delegators : DelsJSON(v[i])[j] \in J
    <3>1. DOMAIN DelsJSON(v[i]) = DOMAIN v[i].delegators BY DEF DelsJSON
    <3>2. \A j \in DOMAIN DelsJSON(v[i]) : DelsJSON(v[i])[j] \in ToSet(DelsJSON(v[i])) BY DEF ToSet
    <3>. QED BY <3>1, <3>2
  <2>3. ASSUME NEW x \in ToSet(v[i].others) PROVE OtherJSON(v[i], x) \in J
    <3>1. OtherJSON(v[i], x) \in {OtherJSON(v[i], y) : y \in ToSet(v[i].others)} OBVIOUS
    <3>. QED BY <3>1
  <2>4. g = [x \in J |-> BidKindWrapper(x)] OBVIOUS
  <2>5. entries[i] = EntriesJSON(v[i]) /\ parts[i] = Mapped(g, EntriesJSON(v[i])) OBVIOUS
  <2>6. ones[i] = NewOne(v[i]) /\ dels[i] = NewDels(v[i]) /\ F[i] = NewOthers(v[i]) OBVIOUS
  <2>. HIDE DEF J, g, entries, parts, ones, dels, F
  <2>7. EntriesJSON(v[i]) \in Seq(J)
        /\ Mapped(g, EntriesJSON(v[i])) = PartOf(v[i], TRUE, NewOne(v[i]), NewDels(v[i]), NewOthers(v[i]))
    BY <1>1, <2>1, <2>2, <2>3, <2>4, NewBids
  <2>. QED BY <2>5, <2>6, <2>7
<1>4. Has(parts, DOMAIN v) BY DEF Has
<1>5. entries \in Seq(Seq(J)) /\ DOMAIN entries = DOMAIN v
  <2>1. DOMAIN v = 1..Len(v) /\ Len(v) \in Nat
    <3>1. v \in Seq(ToSet(v)) BY DEF IsList
    <3>. QED BY <3>1
  <2>2. entries = [i \in DOMAIN v |-> entries[i]] OBVIOUS
  <2>3. \A i \in DOMAIN v : entries[i] \in Seq(J) BY <1>3
  <2>. HIDE DEF entries, J
  <2>. QED BY <2>1, <2>2, <2>3
<1>6. json.bids = FlattenSeq(entries)
  <2>1. entries = [i \in DOMAIN v |->
           <<ValidatorJSON(v[i])>> \o DelsJSON(v[i]) \o OthersJSON(v[i])]
    BY Zenon DEF EntriesJSON, Joined
  <2>. HIDE DEF entries
  <2>. QED BY <2>1 DEF AuctionV2JSON, ValidatorJSON, DelsJSON, OthersJSON, OtherJSON
<1>7. json.bids \in Seq(J)
  <2>. HIDE DEF J, json, entries
  <2>. QED BY <1>5, <1>6, FlattenType
<1>8. AuctionStateFromV2(AuctionStateV2(json)).bids = [i \in DOMAIN json.bids |-> BidKindWrapper(json.bids[i])]
  BY DEF AuctionStateFromV2, AuctionStateV2
<1>9. \A i \in DOMAIN json.bids : g[json.bids[i]] = BidKindWrapper(json.bids[i])
  <2>. HIDE DEF J, json
  <2>. QED BY <1>7
<1>10. [i \in DOMAIN json.bids |-> BidKindWrapper(json.bids[i])] = Mapped(g, json.bids)
  <2>. HIDE DEF g, json
  <2>. QED BY <1>9 DEF Mapped
<1>11. \A i \in DOMAIN entries : parts[i] = Mapped(g, entries[i]) OBVIOUS
<1>. HIDE DEF ones, dels, F, T, entries, J, g, parts, json
<1>12. Has(parts, DOMAIN entries) BY <1>4, <1>5
<1>13. parts \in Seq(Seq(Image(J, g))) BY <1>5, <1>11, <1>12, FlattenMapped
<1>14. Mapped(g, FlattenSeq(entries)) = FlattenSeq(parts) BY <1>5, <1>11, <1>12, <1>13, FlattenMapped
<1>15. Auction(v, TRUE, FlattenSeq(parts))
  <2>1. AllTell(T, v, TRUE, ones, dels, F) BY <1>2 DEF AllTell
  <2>2. PartsOf(parts, v, TRUE, ones, dels, F) BY <1>3, <1>4 DEF PartsOf
  <2>. QED BY <2>1, <2>2, TellsAuction
<1>. QED BY <1>6, <1>8, <1>10, <1>14, <1>15 DEF json

(* The auction tells every stake once, in order.                             *)
LEMMA StakesRight == ASSUME Apart PROVE IInv => StakesTold
<1>. SUFFICES ASSUME IInv, NEW a \in Kinded(answers, {"auction", "auctionV1"})
     PROVE  LET v == a.about
                bids == a.got.bids
                told == [name \in DOMAIN NoBid |->
                            LET named == Among(bids, {x \in ToSet(bids) : x.bid[name] # None})
                            IN [i \in DOMAIN named |-> named[i].bid[name]]]
                delegations == FlattenSeq([i \in DOMAIN v |-> TrueDelegations(v[i])])
                others == FlattenSeq([i \in DOMAIN v |-> v[i].others])
            IN /\ [i \in DOMAIN told.validator |-> <<told.validator[i].validatorPublicKey, told.validator[i].stake>>]
                    = [i \in DOMAIN v |-> <<v[i].key, v[i].stake>>]
               /\ told.delegator = delegations
               /\ IF a.ask = "auction" /\ a.api = 2
                  THEN /\ \A i \in DOMAIN v : told.validator[i].minimumDelegationAmount = v[i].min
                       /\ told.credit \o told.bridge \o told.reservation \o told.unbond
                            = OthersNamed(others, "Credit") \o OthersNamed(others, "Bridge")
                                \o OthersNamed(others, "Reservation") \o OthersNamed(others, "Unbond")
                       /\ Len(bids) = Len(v) + Len(delegations) + Len(others)
                  ELSE Len(bids) = Len(v) + Len(delegations)
  BY DEF StakesTold
<1>. DEFINE v == a.about
            bids == a.got.bids
            told == [name \in DOMAIN NoBid |-> ToldOf(bids, name)]
            delegations == FlattenSeq([i \in DOMAIN v |-> TrueDelegations(v[i])])
            others == FlattenSeq([i \in DOMAIN v |-> v[i].others])
            more == a.ask = "auction" /\ a.api = 2
<1>1. a \in answers /\ a.ask \in {"auction", "auctionV1"} BY DEF Kinded
<1>2. a.api \in {1, 2} /\ v \in StakeFacts BY <1>1 DEF IInv, Right, RightOfState
<1>3. IsList(v) /\ \A x \in ToSet(v) : IsValidator(x) BY <1>2, StakesAssumption
<1>4. ~more => /\ \A i \in DOMAIN v : \A d \in ToSet(v[i].delegators) : d.who.purse = None
               /\ a.got = AuctionStateFromV1(AuctionStateV1(AuctionV1JSON(a.api, v)))
  <2>1. CASE a.ask = "auctionV1" BY <1>1, <2>1 DEF IInv, Right, RightOfState
  <2>2. CASE a.ask = "auction" /\ a.api = 1
    <3>1. /\ \A i \in DOMAIN v : \A d \in ToSet(v[i].delegators) : d.who = None \/ d.who.purse = None
          /\ a.got = getLatestAuctionInfo(None, AuctionV1JSON(a.api, v))
      BY <1>1, <2>2 DEF IInv, Right, RightOfState
    <3>2. ASSUME NEW i \in DOMAIN v, NEW d \in ToSet(v[i].delegators) PROVE d.who.purse = None
      <4>1. IsValidator(v[i]) BY <1>3 DEF ToSet
      <4>2. IsWho(d.who) BY <4>1 DEF IsValidator
      <4>3. d.who # None BY <4>2 DEF IsWho, Has, Apart, NotAnObject
      <4>. QED BY <3>1, <4>3
    <3>. QED BY <3>1, <3>2 DEF getLatestAuctionInfo
  <2>. QED BY <1>1, <1>2, <2>1, <2>2
<1>5. more => a.got = AuctionStateFromV2(AuctionStateV2(AuctionV2JSON(v)))
  <2>. SUFFICES ASSUME more PROVE a.got = AuctionStateFromV2(AuctionStateV2(AuctionV2JSON(v))) OBVIOUS
  <2>1. a.got = getLatestAuctionInfo(AuctionV2JSON(v), AuctionV1JSON(a.api, v))
    BY <1>1 DEF IInv, Right, RightOfState
  <2>2. AuctionV2JSON(v) # None BY DEF AuctionV2JSON, Apart, NotAnObject
  <2>. QED BY <2>1, <2>2 DEF getLatestAuctionInfo
<1>6. Auction(v, more, bids)
  <2>1. CASE more
    <3>1. Auction(v, TRUE, bids) BY <1>3, <1>5, <2>1, NewAuction
    <3>. HIDE DEF v, bids
    <3>. QED BY <2>1, <3>1
  <2>2. CASE ~more
    <3>1. Auction(v, FALSE, bids) BY <1>2, <1>3, <1>4, <2>2, OldAuction
    <3>. HIDE DEF v, bids
    <3>. QED BY <2>2, <3>1
  <2>. QED BY <2>1, <2>2
<1>7. told = [name \in DOMAIN NoBid |->
                LET named == Among(bids, {x \in ToSet(bids) : x.bid[name] # None})
                IN [i \in DOMAIN named |-> named[i].bid[name]]]
  BY DEF ToldOf
<1>8. /\ told.validator = ToldOf(bids, "validator") /\ told.delegator = ToldOf(bids, "delegator")
      /\ told.credit = ToldOf(bids, "credit") /\ told.bridge = ToldOf(bids, "bridge")
      /\ told.reservation = ToldOf(bids, "reservation") /\ told.unbond = ToldOf(bids, "unbond")
  BY DEF NoBid
<1>. HIDE DEF told, bids, v, more
<1>9. /\ [i \in DOMAIN told.validator |-> <<told.validator[i].validatorPublicKey, told.validator[i].stake>>]
           = [i \in DOMAIN v |-> <<v[i].key, v[i].stake>>]
      /\ told.delegator = delegations
      /\ more => \A i \in DOMAIN v : told.validator[i].minimumDelegationAmount = v[i].min
      /\ more => \A name \in DOMAIN BidName : ToldOf(bids, BidName[name]) = OthersNamed(others, name)
      /\ IF more THEN Len(bids) = Len(v) + Len(delegations) + Len(others)
         ELSE Len(bids) = Len(v) + Len(delegations)
  BY <1>6, <1>8, Zenon DEF Auction, DelegationsOf, OthersOf
<1>10. more => /\ told.credit = OthersNamed(others, "Credit") /\ told.bridge = OthersNamed(others, "Bridge")
               /\ told.reservation = OthersNamed(others, "Reservation")
               /\ told.unbond = OthersNamed(others, "Unbond")
  <2>1. /\ \A n \in {"Credit", "Bridge", "Reservation", "Unbond"} : n \in DOMAIN BidName
        /\ BidName["Credit"] = "credit" /\ BidName["Bridge"] = "bridge"
        /\ BidName["Reservation"] = "reservation" /\ BidName["Unbond"] = "unbond"
    BY DEF BidName
  <2>. HIDE DEF others
  <2>. QED BY <1>8, <1>9, <2>1
<1>. HIDE DEF delegations, others
<1>11. /\ [i \in DOMAIN told.validator |-> <<told.validator[i].validatorPublicKey, told.validator[i].stake>>]
            = [i \in DOMAIN v |-> <<v[i].key, v[i].stake>>]
       /\ told.delegator = delegations
       /\ IF more
          THEN /\ \A i \in DOMAIN v : told.validator[i].minimumDelegationAmount = v[i].min
               /\ told.credit \o told.bridge \o told.reservation \o told.unbond
                    = OthersNamed(others, "Credit") \o OthersNamed(others, "Bridge")
                        \o OthersNamed(others, "Reservation") \o OthersNamed(others, "Unbond")
               /\ Len(bids) = Len(v) + Len(delegations) + Len(others)
          ELSE Len(bids) = Len(v) + Len(delegations)
  <2>1. CASE more
    <3>1. told.credit \o told.bridge \o told.reservation \o told.unbond
            = OthersNamed(others, "Credit") \o OthersNamed(others, "Bridge")
                \o OthersNamed(others, "Reservation") \o OthersNamed(others, "Unbond")
      BY <1>10, <2>1, Zenon
    <3>. QED BY <1>9, <2>1, <3>1, Zenon
  <2>2. CASE ~more BY <1>9, <2>2, Zenon
  <2>. QED BY <2>1, <2>2
<1>. QED BY <1>11, Zenon DEF v, bids, more, delegations, others, told, ToldOf

-----------------------------------------------------------------------------
(* The rewards of an era *)

(* A finite set as a list: every element of it, once.                        *)
LEMMA SetAsList ==
  ASSUME NEW S, IsFiniteSet(S), NEW s, s = SetToSeq(S)
  PROVE  s \in Seq(S) /\ ToSet(s) = S /\ Distinct(s) /\ Len(s) = Cardinality(S) /\ Cardinality(S) \in Nat
<1>. DEFINE n == Cardinality(S)
<1>1. n \in Nat /\ ExistsBijection(1..n, S) BY FS_CardinalityType
<1>. HIDE DEF n
<1>2. \E f \in [1..n -> S] : IsInjective(f) BY <1>1 DEF ExistsBijection, Bijection, Injection
<1>3. s \in [1..n -> S] /\ IsInjective(s) BY <1>2, Zenon DEF SetToSeq, n
<1>4. s \in Seq(S) /\ Len(s) = n /\ DOMAIN s = 1..n BY <1>1, <1>3
<1>5. Distinct(s) BY <1>3 DEF Distinct, IsInjective
<1>6. ToSet(s) = S
  <2>. DEFINE T == ToSet(s)
  <2>1. T \subseteq S BY <1>4 DEF ToSet
  <2>2. s \in [1..n -> T] /\ \A t \in T : \E i \in 1..n : s[i] = t BY <1>3, <1>4 DEF ToSet
  <2>. HIDE DEF T
  <2>3. s \in Bijection(1..n, T) BY <1>3, <2>2 DEF Bijection, Injection, Surjection
  <2>4. Cardinality(T) = n BY <1>1, <2>3, FS_CountingElements DEF ExistsBijection
  <2>5. S = T BY <2>1, <2>4, FS_Subset DEF n
  <2>. QED BY <2>5 DEF T
<1>. QED BY <1>1, <1>4, <1>5, <1>6 DEF n

(* The elements of a flattened list are those of its parts.                  *)
LEMMA FlattenRange ==
  ASSUME NEW T
  PROVE  \A ss \in Seq(Seq(T)) : ToSet(FlattenSeq(ss)) = UNION {ToSet(ss[i]) : i \in DOMAIN ss}
<1>. DEFINE P == {ss \in Seq(Seq(T)) : ToSet(FlattenSeq(ss)) = UNION {ToSet(ss[i]) : i \in DOMAIN ss}}
<1>1. ASSUME NEW e \in Seq(Seq(T)), e = <<>> PROVE e \in P
  <2>1. FlattenSeq(e) = e /\ DOMAIN e = {} BY <1>1, FlattenEmpty, EmptyList
  <2>2. ToSet(e) = {} BY <2>1 DEF ToSet
  <2>3. UNION {ToSet(e[i]) : i \in DOMAIN e} = {} BY <2>1
  <2>. QED BY <2>1, <2>2, <2>3
<1>2. ASSUME NEW ss \in Seq(Seq(T)), NEW s \in Seq(T), ss \in P PROVE Append(ss, s) \in P
  <2>. DEFINE tt == Append(ss, s)
              flat == FlattenSeq(ss)
  <2>1. FlattenSeq(tt) = flat \o s BY FlattenAppend
  <2>2. flat \in Seq(T) BY FlattenType
  <2>3. ToSet(flat) = UNION {ToSet(ss[i]) : i \in DOMAIN ss} BY <1>2
  <2>4. /\ tt \in Seq(Seq(T)) /\ DOMAIN tt = DOMAIN ss \cup {Len(ss) + 1}
        /\ tt[Len(ss) + 1] = s /\ \A i \in DOMAIN ss : tt[i] = ss[i]
    BY Appended
  <2>. HIDE DEF tt, flat
  <2>5. ToSet(flat \o s) = ToSet(flat) \cup ToSet(s)
    <3>1. \A i \in DOMAIN flat : i \in DOMAIN (flat \o s) /\ (flat \o s)[i] = flat[i] BY <2>2
    <3>2. \A i \in DOMAIN s : Len(flat) + i \in DOMAIN (flat \o s) /\ (flat \o s)[Len(flat) + i] = s[i]
      BY <2>2
    <3>3. \A i \in DOMAIN (flat \o s) : i \in DOMAIN flat \/ \E j \in DOMAIN s : i = Len(flat) + j
      <4>. SUFFICES ASSUME NEW i \in DOMAIN (flat \o s), i \notin DOMAIN flat
                    PROVE  \E j \in DOMAIN s : i = Len(flat) + j
        OBVIOUS
      <4>1. i - Len(flat) \in DOMAIN s /\ i = Len(flat) + (i - Len(flat)) BY <2>2
      <4>. QED BY <4>1
    <3>. DEFINE both == flat \o s
    <3>. HIDE DEF both
    <3>4. ASSUME NEW x \in ToSet(both) PROVE x \in ToSet(flat) \cup ToSet(s)
      <4>1. PICK i \in DOMAIN both : both[i] = x BY DEF ToSet
      <4>. QED BY <3>1, <3>2, <3>3, <4>1 DEF ToSet, both
    <3>5. ASSUME NEW x \in ToSet(flat) PROVE x \in ToSet(both)
      <4>1. PICK i \in DOMAIN flat : flat[i] = x BY DEF ToSet
      <4>. QED BY <3>1, <4>1 DEF ToSet, both
    <3>6. ASSUME NEW x \in ToSet(s) PROVE x \in ToSet(both)
      <4>1. PICK i \in DOMAIN s : s[i] = x BY DEF ToSet
      <4>. QED BY <3>2, <4>1 DEF ToSet, both
    <3>7. ToSet(both) = ToSet(flat) \cup ToSet(s) BY <3>4, <3>5, <3>6
    <3>. QED BY <3>7 DEF both
  <2>6. UNION {ToSet(tt[i]) : i \in DOMAIN tt} = (UNION {ToSet(ss[i]) : i \in DOMAIN ss}) \cup ToSet(s)
    BY <2>4
  <2>7. ToSet(FlattenSeq(tt)) = UNION {ToSet(tt[i]) : i \in DOMAIN tt} BY <2>1, <2>3, <2>5, <2>6
  <2>. QED BY <2>4, <2>7 DEF tt
<1>. HIDE DEF P
<1>3. Seq(Seq(T)) \subseteq P BY <1>1, <1>2, SequenceInduction
<1>. QED BY <1>3 DEF P

(* The payments of one validator, as a 1.x node lists them.                  *)
Paid(rewards, v) == [i \in DOMAIN rewards[v] |-> [validator |-> v, amount |-> rewards[v][i]]]
AllPaid(rewards) ==
    FlattenSeq([i \in DOMAIN SetToSeq(DOMAIN rewards) |-> Paid(rewards, SetToSeq(DOMAIN rewards)[i])])

(* The payments of an era, one by one and grouped again by validator.        *)
LEMMA RewardsGrouped ==
  ASSUME NEW r, Has(r, DOMAIN r), IsFiniteSet(DOMAIN r), \A v \in DOMAIN r : IsList(r[v]) /\ r[v] # <<>>
  PROVE  /\ RewardsByValidator(AllPaid(r)) = r
         /\ \E T : AllPaid(r) \in Seq(T) /\ \A x \in T : x = [validator |-> x.validator, amount |-> x.amount]
<1>. DEFINE D == DOMAIN r
            names == SetToSeq(D)
            parts == [i \in DOMAIN names |-> Paid(r, names[i])]
            T == UNION {ToSet(Paid(r, v)) : v \in D}
            all == FlattenSeq(parts)
<1>1. names \in Seq(D) /\ ToSet(names) = D /\ Distinct(names) BY SetAsList
<1>2. ASSUME NEW v \in D
      PROVE  /\ Paid(r, v) \in Seq(T) /\ DOMAIN Paid(r, v) = DOMAIN r[v] /\ DOMAIN r[v] # {}
             /\ \A i \in DOMAIN r[v] : Paid(r, v)[i] = [validator |-> v, amount |-> r[v][i]]
             /\ r[v] = [i \in DOMAIN r[v] |-> r[v][i]]
  <2>1. r[v] \in Seq(ToSet(r[v])) /\ r[v] # <<>> BY DEF IsList
  <2>2. /\ DOMAIN Paid(r, v) = DOMAIN r[v]
        /\ \A i \in DOMAIN r[v] : Paid(r, v)[i] = [validator |-> v, amount |-> r[v][i]]
    BY DEF Paid
  <2>3. Len(r[v]) \in Nat /\ DOMAIN r[v] = 1..Len(r[v]) /\ r[v] = [i \in DOMAIN r[v] |-> r[v][i]] BY <2>1
  <2>4. DOMAIN r[v] # {} BY <2>1
  <2>5. \A i \in DOMAIN r[v] : Paid(r, v)[i] \in T BY <2>2 DEF ToSet
  <2>6. Paid(r, v) = [i \in DOMAIN r[v] |-> Paid(r, v)[i]] BY <2>2 DEF Paid
  <2>. HIDE DEF T
  <2>7. Paid(r, v) \in Seq(T) BY <2>3, <2>5, <2>6
  <2>. QED BY <2>2, <2>3, <2>4, <2>7
<1>10. ASSUME NEW v \in D, NEW i \in DOMAIN Paid(r, v)
       PROVE  /\ Paid(r, v)[i] = [validator |-> v, amount |-> r[v][i]]
              /\ Paid(r, v)[i].validator = v /\ Paid(r, v)[i].amount = r[v][i]
  <2>1. Paid(r, v)[i] = [validator |-> v, amount |-> r[v][i]] BY <1>2
  <2>. QED BY <2>1
<1>11. ASSUME NEW v \in D
       PROVE  /\ DOMAIN Paid(r, v) = DOMAIN r[v] /\ DOMAIN r[v] # {} /\ Paid(r, v) \in Seq(T)
              /\ r[v] = [i \in DOMAIN r[v] |-> r[v][i]]
  BY <1>2, Zenon
<1>3. ASSUME NEW x \in T PROVE x = [validator |-> x.validator, amount |-> x.amount] /\ x.validator \in D
  <2>1. PICK v \in D : x \in ToSet(Paid(r, v)) OBVIOUS
  <2>2. PICK i \in DOMAIN Paid(r, v) : x = Paid(r, v)[i] BY <2>1 DEF ToSet
  <2>. QED BY <1>10, <2>2
<1>. HIDE DEF names, T
<1>4. parts \in Seq(Seq(T)) /\ DOMAIN parts = DOMAIN names
          /\ \A i \in DOMAIN names : parts[i] = Paid(r, names[i])
  <2>1. \A i \in DOMAIN names : Paid(r, names[i]) \in Seq(T) BY <1>1, <1>2
  <2>. QED BY <1>1, <2>1
<1>. HIDE DEF parts
<1>5. all \in Seq(T) BY <1>4, FlattenType
<1>6. ASSUME NEW v \in D, NEW S, \A x \in T : x \in S <=> x.validator = v
      PROVE  Among(all, S) = Paid(r, v)
  <2>. DEFINE kept == [i \in DOMAIN parts |-> Among(parts[i], S)]
  <2>1. PICK j \in DOMAIN names : names[j] = v BY <1>1 DEF ToSet
  <2>2. kept \in Seq(Seq(T)) /\ Among(all, S) = FlattenSeq(kept)
    <3>1. Has(kept, DOMAIN parts) /\ \A i \in DOMAIN parts : kept[i] = Among(parts[i], S) BY DEF Has
    <3>. HIDE DEF kept
    <3>. QED BY <1>4, <3>1, FlattenAmong
  <2>3. kept[j] = Paid(r, v)
    <3>1. Paid(r, v) \in Seq(T) /\ \A i \in DOMAIN Paid(r, v) : Paid(r, v)[i] \in S BY <1>10, <1>11, <1>6
    <3>2. Among(Paid(r, v), S) = Paid(r, v) BY <3>1, AmongAll
    <3>. QED BY <1>4, <2>1, <3>2
  <2>4. ASSUME NEW i \in DOMAIN kept, i # j PROVE kept[i] = <<>>
    <3>1. i \in DOMAIN names /\ names[i] \in D /\ names[i] # v BY <1>1, <1>4, <2>1, <2>4 DEF Distinct
    <3>. DEFINE u == names[i]
    <3>2. Paid(r, u) \in Seq(T) /\ \A m \in DOMAIN Paid(r, u) : Paid(r, u)[m] \notin S
      BY <1>10, <1>11, <1>6, <3>1
    <3>3. Among(Paid(r, u), S) = <<>> BY <3>2, AmongNone
    <3>. QED BY <1>4, <3>1, <3>3
  <2>5. j \in DOMAIN kept BY <1>4, <2>1
  <2>. HIDE DEF kept
  <2>6. FlattenSeq(kept) = kept[j] BY <2>2, <2>4, <2>5, FlattenOne
  <2>. QED BY <2>2, <2>3, <2>6
<1>. HIDE DEF all
<1>7. {all[i].validator : i \in DOMAIN all} = D
  <2>1. \A i \in DOMAIN all : all[i].validator \in D BY <1>3, <1>5
  <2>2. ASSUME NEW v \in D PROVE \E i \in DOMAIN all : all[i].validator = v
    <3>1. ToSet(all) = UNION {ToSet(parts[i]) : i \in DOMAIN parts} BY <1>4, FlattenRange DEF all
    <3>2. PICK j \in DOMAIN names : names[j] = v BY <1>1 DEF ToSet
    <3>3. PICK m \in DOMAIN Paid(r, v) : TRUE BY <1>11
    <3>4. Paid(r, v)[m] \in ToSet(parts[j]) BY <1>4, <3>2 DEF ToSet
    <3>5. Paid(r, v)[m] \in ToSet(all) BY <1>4, <3>1, <3>4
    <3>6. Paid(r, v)[m].validator = v BY <1>10
    <3>. QED BY <3>5, <3>6 DEF ToSet
  <2>. QED BY <2>1, <2>2
<1>8. ASSUME NEW v \in D
      PROVE  LET paid == Among(all, {reward \in ToSet(all) : reward.validator = v})
             IN [i \in DOMAIN paid |-> paid[i].amount] = r[v]
  <2>. DEFINE S == {reward \in ToSet(all) : reward.validator = v}
              R == {x \in T : x.validator = v}
              paid == Among(all, S)
  <2>1. \A i \in DOMAIN all : all[i] \in S <=> all[i] \in R BY <1>5 DEF ToSet
  <2>2. \A x \in T : x \in R <=> x.validator = v OBVIOUS
  <2>. HIDE DEF S, R
  <2>3. Among(all, S) = Among(all, R) BY <2>1, AmongSame
  <2>4. Among(all, R) = Paid(r, v) BY <1>6, <2>2
  <2>5. paid = Paid(r, v) BY <2>3, <2>4
  <2>. HIDE DEF paid
  <2>6. [i \in DOMAIN paid |-> paid[i].amount] = r[v] BY <1>10, <1>11, <2>5
  <2>. QED BY <2>6 DEF paid, S
<1>9. RewardsByValidator(all) = [v \in D |-> r[v]]
  <2>. DEFINE F(v) == LET paid == Among(all, {reward \in ToSet(all) : reward.validator = v})
                      IN [i \in DOMAIN paid |-> paid[i].amount]
  <2>1. RewardsByValidator(all) = [v \in D |-> F(v)] BY <1>7 DEF RewardsByValidator
  <2>2. \A v \in D : F(v) = r[v] BY <1>8
  <2>. HIDE DEF F
  <2>. QED BY <2>1, <2>2
<1>. QED BY <1>3, <1>5, <1>9 DEF Has, all, AllPaid, parts, names

(* As a 2.x node and the SDK write them, one entry a validator.              *)
LEMMA RewardsRead ==
  ASSUME NEW r, Has(r, DOMAIN r), IsFiniteSet(DOMAIN r)
  PROVE  deserializeRewards(serializeRewards(r)) = r
<1>. DEFINE D == DOMAIN r
            names == SetToSeq(D)
            arr == [i \in DOMAIN names |-> <<names[i], r[names[i]]>>]
<1>1. names \in Seq(D) /\ ToSet(names) = D /\ Distinct(names) /\ Len(names) = Cardinality(D) BY SetAsList
<1>. HIDE DEF names
<1>2. /\ DOMAIN arr = DOMAIN names /\ Len(arr) = Len(names)
      /\ \A i \in DOMAIN names : arr[i][1] = names[i] /\ arr[i][2] = r[names[i]]
  BY <1>1
<1>3. serializeRewards(r) = arr BY DEF serializeRewards, names
<1>. HIDE DEF arr
<1>4. {arr[i][1] : i \in DOMAIN arr} = D
  <2>1. {arr[i][1] : i \in DOMAIN arr} = {names[i] : i \in DOMAIN names} BY <1>2
  <2>. QED BY <1>1, <2>1 DEF ToSet
<1>5. ASSUME NEW v \in D PROVE arr[CHOOSE i \in DOMAIN arr : arr[i][1] = v][2] = r[v]
  <2>1. PICK j \in DOMAIN arr : arr[j][1] = v BY <1>1, <1>2 DEF ToSet
  <2>. DEFINE c == CHOOSE i \in DOMAIN arr : arr[i][1] = v
  <2>2. c \in DOMAIN arr /\ arr[c][1] = v BY <2>1
  <2>. HIDE DEF c
  <2>3. arr[c][2] = r[v] BY <1>2, <2>2
  <2>. QED BY <2>3 DEF c
<1>6. deserializeRewards(arr) = [v \in D |-> arr[CHOOSE i \in DOMAIN arr : arr[i][1] = v][2]]
  BY <1>1, <1>2, <1>4 DEF deserializeRewards
<1>. QED BY <1>3, <1>5, <1>6 DEF Has

-----------------------------------------------------------------------------
(* Headers *)

(* What is true of the end of an era, as the SDK says it.                    *)
TrueEnd(end) ==
    [equivocators |-> end.equivocators, inactiveValidators |-> end.inactiveValidators,
     nextEraValidatorWeights |-> end.weights, rewards |-> end.rewards, nextEraGasPrice |-> end.gasPrice]

(* The end of an era in a 1.x block is read as it is.                        *)
LEMMA OldEndRead ==
  ASSUME Apart, NEW end, IsEraEnd(1, end)
  PROVE  /\ EraEndFromV1(EraEndV1(EraEndV1JSON(end))) = TrueEnd(end)
         /\ EraEndV1JSON(end) # None /\ EraEndV1(EraEndV1JSON(end)) # None
<1>. DEFINE r == end.rewards
            json == EraEndV1JSON(end)
            all == AllPaid(r)
<1>1. /\ Has(r, DOMAIN r) /\ IsFiniteSet(DOMAIN r) /\ \A v \in DOMAIN r : IsList(r[v]) /\ r[v] # <<>>
      /\ end.gasPrice = 1 /\ end.weights # None
  BY DEF IsEraEnd
<1>. HIDE DEF r
<1>2. json = [era_report |-> [equivocators |-> end.equivocators, inactive_validators |-> end.inactiveValidators,
                              rewards |-> all],
              next_era_validator_weights |-> end.weights]
  BY DEF EraEndV1JSON, AllPaid, Paid, r
<1>3. /\ RewardsByValidator(all) = r
      /\ \E T : all \in Seq(T) /\ \A x \in T : x = [validator |-> x.validator, amount |-> x.amount]
  BY <1>1, RewardsGrouped
<1>. HIDE DEF json, all
<1>4. Each(all, EraReward) = all
  <2>1. PICK T : all \in Seq(T) /\ \A x \in T : x = [validator |-> x.validator, amount |-> x.amount]
    BY <1>3
  <2>2. \A i \in DOMAIN all : all[i] \in T BY <2>1
  <2>3. \A i \in DOMAIN all : EraReward(all[i]) = all[i] /\ all[i] # Thrown
    BY <2>1, <2>2 DEF EraReward, Apart, NotAnObject
  <2>4. all = [i \in DOMAIN all |-> all[i]] BY <2>1
  <2>. QED BY <2>3, <2>4 DEF Each
<1>5. EraReport(json.era_report) =
        [equivocators |-> end.equivocators, inactiveValidators |-> end.inactiveValidators, rewards |-> all]
  BY <1>2, <1>4 DEF EraReport
<1>6. EraEndV1(json) =
        [eraReport |-> [equivocators |-> end.equivocators, inactiveValidators |-> end.inactiveValidators,
                        rewards |-> all],
         nextEraValidatorWeights |-> end.weights]
  BY <1>2, <1>5 DEF EraEndV1
<1>7. EraEndFromV1(EraEndV1(json)) = TrueEnd(end) BY <1>1, <1>3, <1>6 DEF EraEndFromV1, TrueEnd, r
<1>8. json # None /\ EraEndV1(json) # None BY <1>2, <1>6 DEF Apart, NotAnObject
<1>. QED BY <1>7, <1>8 DEF json

(* The end of an era in a 2.x block is read as it is.                        *)
LEMMA NewEndRead ==
  ASSUME Apart, NEW end, IsEraEnd(2, end)
  PROVE  /\ EraEndFromV2(EraEndV2(EraEndV2JSON(end))) = TrueEnd(end)
         /\ EraEndV2JSON(end) # None /\ EraEndV2(EraEndV2JSON(end)) \notin {None, Thrown}
<1>. DEFINE r == end.rewards
            json == EraEndV2JSON(end)
<1>1. Has(r, DOMAIN r) /\ IsFiniteSet(DOMAIN r) BY DEF IsEraEnd
<1>. HIDE DEF r
<1>2. json = [equivocators |-> end.equivocators, inactive_validators |-> end.inactiveValidators,
              next_era_validator_weights |-> end.weights, next_era_gas_price |-> end.gasPrice,
              rewards |-> serializeRewards(r)]
  BY DEF EraEndV2JSON, serializeRewards, r
<1>3. deserializeRewards(serializeRewards(r)) = r BY <1>1, RewardsRead
<1>. HIDE DEF json
<1>4. r # Thrown BY <1>1 DEF Has, Apart, NotAnObject
<1>5. EraEndV2(json) = TrueEnd(end) BY <1>2, <1>3, <1>4 DEF EraEndV2, TrueEnd, r
<1>6. json # None /\ EraEndV2(json) \notin {None, Thrown} BY <1>2, <1>5 DEF TrueEnd, Apart, NotAnObject
<1>. QED BY <1>5, <1>6 DEF EraEndFromV2, json

(* The headers of the two generations, read by their own classes.            *)
EndIs(told, b) == IF b.eraEnd = None THEN told = None ELSE told = TrueEnd(b.eraEnd)

(* The header of a 1.x block, read by its own class.                         *)
LEMMA OldHeaderRead ==
  ASSUME Apart, NEW b, NEW g \in {1, 2}, IsBlock(g, b), b.gen = 1
  PROVE  LET header == BlockHeaderV1(BlockV1HeaderJSON(b))
         IN /\ header = [common |-> b.common, height |-> b.height, eraEnd |-> header.eraEnd]
            /\ EndIs(Member(header, "eraEnd", EraEndFromV1), b)
            /\ header # None /\ BlockV1HeaderJSON(b) # None
<1>. DEFINE json == BlockV1HeaderJSON(b)
            header == BlockHeaderV1(json)
<1>1. "eraEnd" \in DOMAIN b /\ (b.eraEnd = None \/ IsEraEnd(1, b.eraEnd)) BY BlockFields, BlockOfFact
<1>2. json = [common |-> b.common, height |-> b.height, era_end |-> json.era_end]
      /\ json.era_end = IF b.eraEnd = None THEN None ELSE EraEndV1JSON(b.eraEnd)
  BY <1>1 DEF BlockV1HeaderJSON, Member, Get
<1>. HIDE DEF json
<1>3. header = [common |-> b.common, height |-> b.height, eraEnd |-> header.eraEnd]
      /\ header.eraEnd = IF json.era_end = None THEN None ELSE EraEndV1(json.era_end)
  BY <1>2 DEF BlockHeaderV1, Member, Get
<1>. HIDE DEF header
<1>4. Member(header, "eraEnd", EraEndFromV1) = IF header.eraEnd = None THEN None ELSE EraEndFromV1(header.eraEnd)
  BY <1>3 DEF Member, Get
<1>5. EndIs(Member(header, "eraEnd", EraEndFromV1), b)
  <2>1. CASE b.eraEnd = None BY <1>2, <1>3, <1>4, <2>1 DEF EndIs
  <2>2. CASE b.eraEnd # None
    <3>. DEFINE end == b.eraEnd
    <3>1. IsEraEnd(1, end) BY <1>1, <2>2
    <3>2. /\ EraEndFromV1(EraEndV1(EraEndV1JSON(end))) = TrueEnd(end)
          /\ EraEndV1JSON(end) # None /\ EraEndV1(EraEndV1JSON(end)) # None
      BY <3>1, OldEndRead
    <3>. QED BY <1>2, <1>3, <1>4, <2>2, <3>2 DEF EndIs
  <2>. QED BY <2>1, <2>2
<1>6. header # None /\ json # None BY <1>2, <1>3 DEF Apart, NotAnObject
<1>. QED BY <1>3, <1>5, <1>6 DEF header, json

TrueHeader(header, b) ==
    /\ Has(header, {"common", "height", "currentGasPrice", "proposer", "lastSwitchBlockHash", "eraEnd"})
    /\ header.common = b.common /\ header.height = b.height /\ header.currentGasPrice = b.gasPrice
    /\ header.proposer = TrueProposer(b) /\ header.lastSwitchBlockHash = b.lastSwitch

(* A proposer is written and read as it is.                                  *)
LEMMA ProposerRead ==
  ASSUME NEW b, b.proposer # "00"
  PROVE  Proposer(NodeProposer(b.proposer)) = TrueProposer(b) /\ ProposerJSON(TrueProposer(b)) = NodeProposer(b.proposer)
  BY DEF Proposer, NodeProposer, TrueProposer, ProposerJSON

(* The header of a 2.x block without a last switch block is refused.         *)
LEMMA NewHeaderRefused ==
  ASSUME Apart, NEW b, NoLastSwitch(b)
  PROVE  BlockHeaderV2(BlockV2HeaderJSON(b)) = Thrown /\ BlockV2HeaderJSON(b) # None
<1>1. BlockV2HeaderJSON(b).last_switch_block_hash = None BY DEF BlockV2HeaderJSON, NoLastSwitch
<1>2. BlockV2HeaderJSON(b) # None BY DEF BlockV2HeaderJSON, Apart, NotAnObject
<1>. QED BY <1>1, <1>2 DEF BlockHeaderV2

(* The header of a 2.x block, read by its own class.                         *)
LEMMA NewHeaderRead ==
  ASSUME Apart, NEW b, NEW g \in {1, 2}, IsBlock(g, b), b.gen = 2, b.lastSwitch # None
  PROVE  LET header == BlockHeaderV2(BlockV2HeaderJSON(b))
         IN /\ TrueHeader(header, b) /\ EndIs(header.eraEnd, b)
            /\ EndIs(Member(header, "eraEnd", EraEndFromV2), b)
            /\ header \notin {None, Thrown} /\ BlockV2HeaderJSON(b) # None
<1>. DEFINE json == BlockV2HeaderJSON(b)
            header == BlockHeaderV2(json)
<1>1. "eraEnd" \in DOMAIN b /\ (b.eraEnd = None \/ IsEraEnd(2, b.eraEnd)) /\ b.proposer # "00"
  BY BlockFields, BlockOfFact
<1>2. /\ json = [common |-> b.common, height |-> b.height, current_gas_price |-> b.gasPrice,
                 proposer |-> NodeProposer(b.proposer), last_switch_block_hash |-> b.lastSwitch,
                 era_end |-> json.era_end]
      /\ json.era_end = IF b.eraEnd = None THEN None ELSE EraEndV2JSON(b.eraEnd)
  BY <1>1 DEF BlockV2HeaderJSON, Member, Get
<1>. DEFINE read == Member(json, "era_end", EraEndV2)
<1>. HIDE DEF json
<1>3. EndIs(read, b) /\ read # Thrown
  <2>1. read = IF json.era_end = None THEN None ELSE EraEndV2(json.era_end)
    BY <1>2 DEF Member, Get
  <2>. HIDE DEF read
  <2>2. CASE b.eraEnd = None BY <1>2, <2>1, <2>2 DEF EndIs, Apart
  <2>3. CASE b.eraEnd # None
    <3>. DEFINE end == b.eraEnd
    <3>1. IsEraEnd(2, end) BY <1>1, <2>3
    <3>2. /\ EraEndV2(EraEndV2JSON(end)) = TrueEnd(end) /\ EraEndV2JSON(end) # None
          /\ EraEndV2(EraEndV2JSON(end)) # Thrown
      BY <3>1, NewEndRead DEF EraEndFromV2
    <3>. QED BY <1>2, <2>1, <2>3, <3>2 DEF EndIs
  <2>. QED BY <2>2, <2>3
<1>. HIDE DEF read
<1>4. header = [common |-> b.common, height |-> b.height, currentGasPrice |-> b.gasPrice,
                proposer |-> TrueProposer(b), lastSwitchBlockHash |-> b.lastSwitch, eraEnd |-> read]
  BY <1>1, <1>2, <1>3, ProposerRead DEF BlockHeaderV2, read
<1>. HIDE DEF header
<1>5. Member(header, "eraEnd", EraEndFromV2) = header.eraEnd
  BY <1>4 DEF Member, Get, EraEndFromV2
<1>6. header \notin {None, Thrown} /\ json # None BY <1>2, <1>4 DEF Apart, NotAnObject
<1>7. TrueHeader(header, b) BY <1>4 DEF TrueHeader, Has
<1>8. EndIs(header.eraEnd, b) BY <1>3, <1>4
<1>. QED BY <1>5, <1>6, <1>7, <1>8 DEF header, json

(* The header of a query is refused: it is wrapped or names no proposer.     *)
LEMMA QueriedRead ==
  ASSUME Apart, NEW b, NEW g \in {1, 2}
  PROVE  ReadHeader(g, b) = Thrown
<1>. DEFINE q == QueriedHeader(g, b)
<1>1. q # None /\ Get(q, "proposer") = None
  <2>1. CASE g = 1
    <3>1. q = [common |-> b.common, height |-> b.height, era_end |-> Member(b, "eraEnd", EraEndV1JSON)]
      BY <2>1 DEF QueriedHeader, BlockV1HeaderJSON
    <3>. HIDE DEF q
    <3>. QED BY <3>1 DEF Get, Apart, NotAnObject
  <2>2. CASE g = 2
    <3>1. q = IF b.gen = 1 THEN [Version1 |-> BlockV1HeaderJSON(b)] ELSE [Version2 |-> BlockV2HeaderJSON(b)]
      BY <2>2 DEF QueriedHeader
    <3>. HIDE DEF q
    <3>. QED BY <3>1 DEF Get, Apart, NotAnObject
  <2>. QED BY <2>1, <2>2
<1>. HIDE DEF q
<1>2. BlockHeader(q) = Thrown BY <1>1 DEF BlockHeader
<1>3. QueryGlobalStateResult([block_header |-> q]) = Thrown
  BY <1>1, <1>2 DEF QueryGlobalStateResult, Member, Get
<1>. QED BY <1>3 DEF ReadHeader, q

(* The header taken out of its version and unified.                          *)
LEMMA UnwrappedRead ==
  ASSUME Apart, NEW b, IsBlock(2, b)
  PROVE  LET got == ReadUnwrapped(2, b)
         IN IF NoLastSwitch(b) THEN got = Thrown
            ELSE /\ got.height = b.height /\ got.common = b.common /\ EndIs(got.eraEnd, b)
                 /\ got.currentGasPrice = b.gasPrice
                 /\ got.proposer = IF b.gen = 2 THEN TrueProposer(b) ELSE None
<1>. DEFINE wrapper == BlockHeaderWrapper(QueriedHeader(2, b))
            got == ReadUnwrapped(2, b)
<1>1. b.gen \in {1, 2} /\ (b.gen = 1 => b.gasPrice = 1) BY BlockFields, BlockOfFact
<1>2. got = IF wrapper = Thrown THEN Thrown
            ELSE IF wrapper.blockHeaderV1 # None THEN newBlockHeaderFromV1(wrapper.blockHeaderV1)
            ELSE newBlockHeaderFromV2(wrapper.blockHeaderV2)
  BY DEF ReadUnwrapped
<1>3. CASE b.gen = 1
  <2>. DEFINE json == BlockV1HeaderJSON(b)
              header == BlockHeaderV1(json)
              end == Member(header, "eraEnd", EraEndFromV1)
  <2>1. /\ header = [common |-> b.common, height |-> b.height, eraEnd |-> header.eraEnd]
        /\ EndIs(end, b)
        /\ header # None /\ json # None
    BY <1>3, OldHeaderRead
  <2>2. QueriedHeader(2, b) = [Version1 |-> json] BY <1>3 DEF QueriedHeader
  <2>. HIDE DEF json
  <2>3. wrapper = [blockHeaderV1 |-> header, blockHeaderV2 |-> None]
    BY <2>1, <2>2 DEF BlockHeaderWrapper, Member, Get, Apart
  <2>4. newBlockHeaderFromV1(header) =
          [common |-> header.common, height |-> header.height, currentGasPrice |-> 1, proposer |-> None,
           eraEnd |-> end]
    BY DEF newBlockHeaderFromV1
  <2>. HIDE DEF header, wrapper, got, end
  <2>5. wrapper # Thrown /\ wrapper.blockHeaderV1 = header BY <2>3 DEF Apart, NotAnObject
  <2>6. got = newBlockHeaderFromV1(header) BY <1>2, <2>1, <2>5
  <2>7. header.common = b.common /\ header.height = b.height BY <2>1
  <2>8. got = [common |-> b.common, height |-> b.height, currentGasPrice |-> 1, proposer |-> None, eraEnd |-> end]
    BY <2>4, <2>6, <2>7
  <2>9. /\ got.height = b.height /\ got.common = b.common /\ got.currentGasPrice = b.gasPrice
        /\ got.proposer = IF b.gen = 2 THEN TrueProposer(b) ELSE None
    BY <1>1, <1>3, <2>8
  <2>10. EndIs(got.eraEnd, b) BY <2>1, <2>8
  <2>. QED BY <1>3, <2>9, <2>10 DEF got, NoLastSwitch
<1>4. CASE b.gen = 2
  <2>. DEFINE json == BlockV2HeaderJSON(b)
              header == BlockHeaderV2(json)
              end == Member(header, "eraEnd", EraEndFromV2)
  <2>1. QueriedHeader(2, b) = [Version2 |-> json] BY <1>4 DEF QueriedHeader
  <2>2. CASE b.lastSwitch = None
    <3>1. header = Thrown /\ json # None BY <1>4, <2>2, NewHeaderRefused DEF NoLastSwitch
    <3>. HIDE DEF json
    <3>2. wrapper = Thrown BY <2>1, <3>1 DEF BlockHeaderWrapper, Member, Get
    <3>. HIDE DEF wrapper, got
    <3>. QED BY <1>2, <1>4, <2>2, <3>2 DEF got, NoLastSwitch
  <2>3. CASE b.lastSwitch # None
    <3>1. TrueHeader(header, b) /\ EndIs(end, b) /\ header # None /\ header # Thrown /\ json # None
      BY <1>4, <2>3, NewHeaderRead
    <3>. HIDE DEF json
    <3>2. wrapper = [blockHeaderV1 |-> None, blockHeaderV2 |-> header]
      BY <2>1, <3>1 DEF BlockHeaderWrapper, Member, Get
    <3>3. newBlockHeaderFromV2(header) =
            [common |-> header.common, height |-> header.height, currentGasPrice |-> header.currentGasPrice,
             proposer |-> header.proposer, eraEnd |-> end]
      BY DEF newBlockHeaderFromV2
    <3>. HIDE DEF wrapper, got, header, end
    <3>4. wrapper # Thrown /\ wrapper.blockHeaderV1 = None /\ wrapper.blockHeaderV2 = header
      BY <3>2 DEF Apart, NotAnObject
    <3>5. got = newBlockHeaderFromV2(header) BY <1>2, <3>4
    <3>6. got = [common |-> b.common, height |-> b.height, currentGasPrice |-> b.gasPrice,
                 proposer |-> TrueProposer(b), eraEnd |-> end]
      BY <3>1, <3>3, <3>5 DEF TrueHeader
    <3>7. EndIs(got.eraEnd, b) BY <3>1, <3>6
    <3>8. /\ got.height = b.height /\ got.common = b.common /\ got.currentGasPrice = b.gasPrice
          /\ got.proposer = IF b.gen = 2 THEN TrueProposer(b) ELSE None
      BY <1>4, <3>6
    <3>. QED BY <2>3, <3>7, <3>8 DEF got, NoLastSwitch
  <2>. QED BY <2>2, <2>3
<1>. QED BY <1>1, <1>3, <1>4

(* The invariant implies what is promised of headers.                        *)
LEMMA HeadersRight == ASSUME Apart PROVE IInv => HeadersTold
<1>. SUFFICES ASSUME IInv PROVE HeadersTold OBVIOUS
<1>1. ASSUME NEW a \in Kinded(answers, {"header"}) PROVE a.got = Thrown
  <2>1. a.api \in {1, 2} /\ a.got = ReadHeader(a.api, a.about)
    BY <1>1 DEF Kinded, IInv, Right, RightOfBlock
  <2>. QED BY <2>1, QueriedRead
<1>2. ASSUME NEW a \in Kinded(answers, {"stateRoot"}) PROVE a.got = [blockHeader |-> None]
  <2>1. a.got = QueryGlobalStateResult([block_header |-> None])
    BY <1>2 DEF Kinded, IInv, Right, RightOfBlock
  <2>2. Member([block_header |-> None], "block_header", BlockHeader) = None BY DEF Member, Get
  <2>. QED BY <2>1, <2>2 DEF QueryGlobalStateResult, Apart
<1>3. ASSUME NEW a \in Kinded(answers, {"unwrapped"})
      PROVE  LET b == a.about
             IN IF NoLastSwitch(b) THEN a.got = Thrown
                ELSE /\ a.got.height = b.height /\ a.got.common = b.common
                     /\ a.got.currentGasPrice = b.gasPrice
                     /\ a.got.proposer = IF b.gen = 2 THEN TrueProposer(b) ELSE None
                     /\ (a.got.eraEnd = None) = (b.eraEnd = None)
                     /\ b.eraEnd # None =>
                          /\ a.got.eraEnd.nextEraValidatorWeights = b.eraEnd.weights
                          /\ a.got.eraEnd.equivocators = b.eraEnd.equivocators
                          /\ a.got.eraEnd.rewards = b.eraEnd.rewards
  <2>. DEFINE b == a.about
              got == ReadUnwrapped(2, b)
  <2>1. IsBlock(2, b) /\ a.got = got BY <1>3 DEF Kinded, IInv, Right, RightOfBlock
  <2>. HIDE DEF b
  <2>2. IF NoLastSwitch(b) THEN got = Thrown
        ELSE /\ got.height = b.height /\ got.common = b.common /\ EndIs(got.eraEnd, b)
             /\ got.currentGasPrice = b.gasPrice
             /\ got.proposer = IF b.gen = 2 THEN TrueProposer(b) ELSE None
    BY <2>1, UnwrappedRead
  <2>. HIDE DEF got
  <2>3. EndIs(got.eraEnd, b) =>
          /\ (got.eraEnd = None) = (b.eraEnd = None)
          /\ b.eraEnd # None =>
               /\ got.eraEnd.nextEraValidatorWeights = b.eraEnd.weights
               /\ got.eraEnd.equivocators = b.eraEnd.equivocators /\ got.eraEnd.rewards = b.eraEnd.rewards
    BY DEF EndIs, TrueEnd, Apart, NotAnObject
  <2>. QED BY <2>1, <2>2, <2>3 DEF b
<1>. QED BY <1>1, <1>2, <1>3 DEF HeadersTold

-----------------------------------------------------------------------------
(* The transactions of a block *)

(* Kept or not, every element of a list is counted once.                     *)
LEMMA AmongAppendLength ==
  ASSUME NEW T, NEW s \in Seq(T), NEW x \in T, NEW S
  PROVE  Len(Among(Append(s, x), S)) = Len(Among(s, S)) + IF x \in S THEN 1 ELSE 0
<1>. DEFINE kept == Among(s, S)
            last == IF x \in S THEN <<x>> ELSE <<>>
<1>1. Among(Append(s, x), S) = Joined(kept, last) BY AmongAppend DEF Joined
<1>2. kept \in Seq(T) BY AmongType
<1>3. last \in Seq(T) /\ Len(last) = IF x \in S THEN 1 ELSE 0
  <2>1. CASE x \in S BY <2>1
  <2>2. CASE x \notin S BY <2>2
  <2>. QED BY <2>1, <2>2
<1>. HIDE DEF kept, last
<1>4. Len(Joined(kept, last)) = Len(kept) + Len(last) BY <1>2, <1>3, JoinedLength
<1>. QED BY <1>1, <1>3, <1>4 DEF kept

(* The elements of a list by category, together as many as the list has.     *)
Filed(T, c) == {x \in T : x.category = c}
LengthFiled(T, s, c) == Len(Among(s, Filed(T, c)))
Sum6(T, s) ==
    LengthFiled(T, s, 0) + LengthFiled(T, s, 1) + LengthFiled(T, s, 2)
      + LengthFiled(T, s, 3) + LengthFiled(T, s, 4) + LengthFiled(T, s, 5)

(* A list is as long as its six categories together.                         *)
LEMMA FiledLengths ==
  ASSUME NEW T, \A x \in T : x.category \in 0..5
  PROVE  \A s \in Seq(T) : Sum6(T, s) = Len(s)
<1>. DEFINE P == {s \in Seq(T) : Sum6(T, s) = Len(s)}
<1>1. ASSUME NEW e \in Seq(T), e = <<>> PROVE e \in P
  <2>1. \A c : LengthFiled(T, e, c) = 0 BY <1>1, AmongEmpty DEF LengthFiled
  <2>. QED BY <1>1, <2>1 DEF Sum6
<1>2. ASSUME NEW s \in Seq(T), NEW x \in T, s \in P PROVE Append(s, x) \in P
  <2>. DEFINE t == Append(s, x)
              n(c) == LengthFiled(T, s, c)
              m(c) == LengthFiled(T, t, c)
              k == x.category
  <2>1. ASSUME NEW c \in 0..5 PROVE m(c) = n(c) + (IF c = k THEN 1 ELSE 0) /\ n(c) \in Nat
    <3>1. x \in Filed(T, c) <=> c = k BY DEF Filed
    <3>2. Among(s, Filed(T, c)) \in Seq(T) BY AmongType
    <3>3. Len(Among(t, Filed(T, c))) = Len(Among(s, Filed(T, c))) + IF x \in Filed(T, c) THEN 1 ELSE 0
      BY AmongAppendLength
    <3>. QED BY <3>1, <3>2, <3>3 DEF LengthFiled
  <2>2. k \in 0..5 /\ t \in Seq(T) /\ Len(t) = Len(s) + 1 /\ Len(s) \in Nat OBVIOUS
  <2>3. n(0) + n(1) + n(2) + n(3) + n(4) + n(5) = Len(s) BY <1>2 DEF Sum6
  <2>. HIDE DEF n, m, k, t
  <2>4. m(0) + m(1) + m(2) + m(3) + m(4) + m(5) = Len(t)
    <3>1. /\ m(0) = n(0) + (IF 0 = k THEN 1 ELSE 0) /\ n(0) \in Nat
          /\ m(1) = n(1) + (IF 1 = k THEN 1 ELSE 0) /\ n(1) \in Nat
          /\ m(2) = n(2) + (IF 2 = k THEN 1 ELSE 0) /\ n(2) \in Nat
          /\ m(3) = n(3) + (IF 3 = k THEN 1 ELSE 0) /\ n(3) \in Nat
          /\ m(4) = n(4) + (IF 4 = k THEN 1 ELSE 0) /\ n(4) \in Nat
          /\ m(5) = n(5) + (IF 5 = k THEN 1 ELSE 0) /\ n(5) \in Nat
      BY <2>1
    <3>. DEFINE l == Len(t)
                h == Len(s)
                a == n(0)
                b == n(1)
                d == n(2)
                e == n(3)
                f == n(4)
                g == n(5)
    <3>2. l = h + 1 /\ h \in Nat /\ a + b + d + e + f + g = h BY <2>2, <2>3
    <3>3. /\ a \in Nat /\ b \in Nat /\ d \in Nat /\ e \in Nat /\ f \in Nat /\ g \in Nat
          /\ m(0) = a + (IF 0 = k THEN 1 ELSE 0) /\ m(1) = b + (IF 1 = k THEN 1 ELSE 0)
          /\ m(2) = d + (IF 2 = k THEN 1 ELSE 0) /\ m(3) = e + (IF 3 = k THEN 1 ELSE 0)
          /\ m(4) = f + (IF 4 = k THEN 1 ELSE 0) /\ m(5) = g + (IF 5 = k THEN 1 ELSE 0)
      BY <3>1
    <3>. HIDE DEF l, h, a, b, d, e, f, g
    <3>4. m(0) + m(1) + m(2) + m(3) + m(4) + m(5) = l
      <4>1. CASE k = 0
        <5>1. m(0) = a + 1 /\ m(1) = b /\ m(2) = d /\ m(3) = e /\ m(4) = f /\ m(5) = g
          BY <3>3, <4>1
        <5>2. a \in Nat /\ b \in Nat /\ d \in Nat /\ e \in Nat /\ f \in Nat /\ g \in Nat BY <3>3
        <5>3. (a + 1) + b + d + e + f + g = l BY <3>2, <5>2
        <5>. QED BY <5>1, <5>3
      <4>2. CASE k = 1
        <5>1. m(0) = a /\ m(1) = b + 1 /\ m(2) = d /\ m(3) = e /\ m(4) = f /\ m(5) = g
          BY <3>3, <4>2
        <5>2. a \in Nat /\ b \in Nat /\ d \in Nat /\ e \in Nat /\ f \in Nat /\ g \in Nat BY <3>3
        <5>3. a + (b + 1) + d + e + f + g = l BY <3>2, <5>2
        <5>. QED BY <5>1, <5>3
      <4>3. CASE k = 2
        <5>1. m(0) = a /\ m(1) = b /\ m(2) = d + 1 /\ m(3) = e /\ m(4) = f /\ m(5) = g
          BY <3>3, <4>3
        <5>2. a \in Nat /\ b \in Nat /\ d \in Nat /\ e \in Nat /\ f \in Nat /\ g \in Nat BY <3>3
        <5>3. a + b + (d + 1) + e + f + g = l BY <3>2, <5>2
        <5>. QED BY <5>1, <5>3
      <4>4. CASE k = 3
        <5>1. m(0) = a /\ m(1) = b /\ m(2) = d /\ m(3) = e + 1 /\ m(4) = f /\ m(5) = g
          BY <3>3, <4>4
        <5>2. a \in Nat /\ b \in Nat /\ d \in Nat /\ e \in Nat /\ f \in Nat /\ g \in Nat BY <3>3
        <5>3. a + b + d + (e + 1) + f + g = l BY <3>2, <5>2
        <5>. QED BY <5>1, <5>3
      <4>5. CASE k = 4
        <5>1. m(0) = a /\ m(1) = b /\ m(2) = d /\ m(3) = e /\ m(4) = f + 1 /\ m(5) = g
          BY <3>3, <4>5
        <5>2. a \in Nat /\ b \in Nat /\ d \in Nat /\ e \in Nat /\ f \in Nat /\ g \in Nat BY <3>3
        <5>3. a + b + d + e + (f + 1) + g = l BY <3>2, <5>2
        <5>. QED BY <5>1, <5>3
      <4>6. CASE k = 5
        <5>1. m(0) = a /\ m(1) = b /\ m(2) = d /\ m(3) = e /\ m(4) = f /\ m(5) = g + 1
          BY <3>3, <4>6
        <5>2. a \in Nat /\ b \in Nat /\ d \in Nat /\ e \in Nat /\ f \in Nat /\ g \in Nat BY <3>3
        <5>3. a + b + d + e + f + (g + 1) = l BY <3>2, <5>2
        <5>. QED BY <5>1, <5>3
      <4>. QED BY <2>2, <4>1, <4>2, <4>3, <4>4, <4>5, <4>6
    <3>. QED BY <3>4 DEF l
  <2>. QED BY <2>2, <2>4 DEF Sum6, m, t
<1>. HIDE DEF P
<1>3. Seq(T) \subseteq P BY <1>1, <1>2, SequenceInduction
<1>. QED BY <1>3 DEF P

(* An element of a list is of its type.                                      *)
LEMMA ElementType == ASSUME NEW T, NEW s \in Seq(T), NEW i \in DOMAIN s PROVE s[i] \in T
  OBVIOUS

(* Six lists flattened into one.                                             *)
LEMMA FlattenSix ==
  ASSUME NEW T, NEW ss \in Seq(Seq(T)), Len(ss) = 6
  PROVE  Len(FlattenSeq(ss)) = Len(ss[1]) + Len(ss[2]) + Len(ss[3]) + Len(ss[4]) + Len(ss[5]) + Len(ss[6])
<1>. DEFINE first(n) == FirstOf(ss, n)
            l(n) == Len(FlattenSeq(FirstOf(ss, n)))
<1>1. ASSUME NEW n \in 0..6
      PROVE  first(n) \in Seq(Seq(T)) /\ Len(first(n)) = n /\ DOMAIN first(n) = 1..n /\ \A i \in 1..n : first(n)[i] = ss[i]
  <2>0. DOMAIN ss = 1..6
    <3>1. DOMAIN ss = 1..Len(ss) OBVIOUS
    <3>. QED BY <3>1
  <2>1. ASSUME NEW i \in 1..n PROVE ss[i] \in Seq(T)
    <3>1. i \in DOMAIN ss BY <2>0
    <3>. QED BY <3>1, ElementType
  <2>. DEFINE tt == [i \in 1..n |-> ss[i]]
  <2>2. tt \in [1..n -> Seq(T)] /\ n \in Nat BY <2>1
  <2>3. \A i \in 1..n : tt[i] = ss[i] OBVIOUS
  <2>. HIDE DEF tt
  <2>4. tt \in Seq(Seq(T)) /\ Len(tt) = n /\ DOMAIN tt = 1..n BY <2>2
  <2>. QED BY <2>3, <2>4 DEF FirstOf, tt
<1>2. l(0) = 0
  <2>1. first(0) = <<>> BY <1>1
  <2>2. FlattenSeq(first(0)) = first(0) BY <2>1, FlattenEmpty
  <2>. QED BY <2>1, <2>2
<1>3. ASSUME NEW n \in 0..5, NEW m, m = n + 1 PROVE l(m) = l(n) + Len(ss[m]) /\ l(n) \in Nat /\ Len(ss[m]) \in Nat
  <2>. DEFINE tt == first(m)
  <2>0. m \in 0..6 BY <1>3
  <2>1. tt \in Seq(Seq(T)) /\ Len(tt) = m /\ \A i \in 1..m : tt[i] = ss[i] BY <1>1, <2>0
  <2>2. FirstOf(tt, n) = first(n)
    <3>1. \A i \in 1..n : tt[i] = ss[i] BY <1>3, <2>1
    <3>. HIDE DEF tt
    <3>. QED BY <3>1 DEF FirstOf
  <2>. HIDE DEF tt
  <2>3. Splits(T, tt, n, m) BY <1>3, <2>1, FlattenLast
  <2>4. tt[m] = ss[m] BY <1>3, <2>1
  <2>5. /\ ss[m] \in Seq(T) /\ FlattenSeq(first(n)) \in Seq(T)
        /\ FlattenSeq(tt) = Joined(FlattenSeq(first(n)), ss[m])
    BY <2>2, <2>3, <2>4, Zenon DEF Splits
  <2>6. Len(FlattenSeq(tt)) = Len(FlattenSeq(first(n))) + Len(ss[m]) BY <2>5, JoinedLength
  <2>. QED BY <2>5, <2>6 DEF tt
<1>4. first(6) = ss BY DEF FirstOf
<1>5. l(6) = Len(FlattenSeq(ss)) BY <1>4
<1>. HIDE DEF first, l
<1>6. /\ l(1) = l(0) + Len(ss[1]) /\ l(0) \in Nat /\ Len(ss[1]) \in Nat
      /\ l(2) = l(1) + Len(ss[2]) /\ l(1) \in Nat /\ Len(ss[2]) \in Nat
      /\ l(3) = l(2) + Len(ss[3]) /\ l(2) \in Nat /\ Len(ss[3]) \in Nat
      /\ l(4) = l(3) + Len(ss[4]) /\ l(3) \in Nat /\ Len(ss[4]) \in Nat
      /\ l(5) = l(4) + Len(ss[5]) /\ l(4) \in Nat /\ Len(ss[5]) \in Nat
      /\ l(6) = l(5) + Len(ss[6]) /\ l(5) \in Nat /\ Len(ss[6]) \in Nat
  <2>1. /\ 0 \in 0..5 /\ 1 \in 0..5 /\ 2 \in 0..5 /\ 3 \in 0..5 /\ 4 \in 0..5 /\ 5 \in 0..5
        /\ 1 = 0 + 1 /\ 2 = 1 + 1 /\ 3 = 2 + 1 /\ 4 = 3 + 1 /\ 5 = 4 + 1 /\ 6 = 5 + 1
    OBVIOUS
  <2>. QED BY <1>3, <2>1, Zenon
<1>. DEFINE a == Len(ss[1])
            b == Len(ss[2])
            c == Len(ss[3])
            d == Len(ss[4])
            e == Len(ss[5])
            f == Len(ss[6])
            all == Len(FlattenSeq(ss))
<1>7. /\ l(1) = l(0) + a /\ a \in Nat /\ l(2) = l(1) + b /\ b \in Nat /\ l(3) = l(2) + c /\ c \in Nat
      /\ l(4) = l(3) + d /\ d \in Nat /\ l(5) = l(4) + e /\ e \in Nat /\ l(6) = l(5) + f /\ f \in Nat
      /\ l(0) = 0 /\ all = l(6)
  BY <1>2, <1>5, <1>6
<1>. HIDE DEF a, b, c, d, e, f, all
<1>8. all = a + b + c + d + e + f BY <1>7
<1>. QED BY <1>8 DEF a, b, c, d, e, f, all

(* A transaction as a block tells it.                                        *)
TrueTx(t) == [category |-> t.category, version |-> t.version, hash |-> t.hash]
IsTx(t) == t.category \in 0..5 /\ t.version \in {"Deploy", "V1"} /\ t.hash # None
SaidOf(T) == [x \in T |-> TrueTx(x)]
(* The transactions of a block by category, however they are ordered.        *)
SameFiled(got, txs) ==
    /\ IsList(got) /\ Len(got) = Len(txs) /\ \A t \in ToSet(got) : t = TrueTx(t) /\ IsTx(t)
    /\ \A c \in 0..5 : OfCategory(got, c) = OfCategory([i \in DOMAIN txs |-> TrueTx(txs[i])], c)

(* A category picked from a list, its elements being known.                  *)
LEMMA OfCategoryIs ==
  ASSUME NEW T, NEW s \in Seq(T), NEW c
  PROVE  OfCategory(s, c) = Among(s, Filed(T, c))
<1>. DEFINE S == {t \in ToSet(s) : t.category = c}
            R == Filed(T, c)
<1>1. \A i \in DOMAIN s : s[i] \in S <=> s[i] \in R BY DEF Filed, ToSet
<1>2. OfCategory(s, c) = Among(s, S) BY DEF OfCategory
<1>. HIDE DEF S, R
<1>3. Among(s, S) = Among(s, R) BY <1>1, AmongSame
<1>. QED BY <1>2, <1>3 DEF R

(* Lists filed by category, one after the other, keep each its category.     *)
LEMMA PartsFiled ==
  ASSUME NEW U, NEW parts \in Seq(Seq(U)), Len(parts) = 6,
         \A i \in 1..6 : \A m \in DOMAIN parts[i] : parts[i][m].category = i - 1,
         NEW c \in 0..5
  PROVE  OfCategory(FlattenSeq(parts), c) = parts[c + 1]
<1>. DEFINE R == Filed(U, c)
            each == [i \in 1..6 |-> Among(parts[i], R)]
            j == c + 1
            got == FlattenSeq(parts)
<1>0. got \in Seq(U) BY FlattenType
<1>1. OfCategory(got, c) = Among(got, R)
  <2>. HIDE DEF got
  <2>. QED BY <1>0, OfCategoryIs
<1>2. DOMAIN parts = 1..6
  <2>1. DOMAIN parts = 1..Len(parts) OBVIOUS
  <2>. QED BY <2>1
<1>3. each \in Seq(Seq(U)) /\ Among(got, R) = FlattenSeq(each)
  <2>1. Has(each, DOMAIN parts) /\ \A i \in DOMAIN parts : each[i] = Among(parts[i], R) BY <1>2 DEF Has
  <2>. HIDE DEF each, R
  <2>. QED BY <2>1, FlattenAmong
<1>4. ASSUME NEW i \in 1..6 PROVE parts[i] \in Seq(U)
  <2>1. i \in DOMAIN parts BY <1>2
  <2>. QED BY <2>1, ElementType
<1>5. ASSUME NEW i \in 1..6, i # j PROVE each[i] = <<>>
  <2>1. parts[i] \in Seq(U) BY <1>4
  <2>2. \A m \in DOMAIN parts[i] : parts[i][m] \notin R BY <1>5 DEF Filed
  <2>. HIDE DEF R
  <2>. QED BY <2>1, <2>2, AmongNone
<1>6. j \in 1..6 /\ j - 1 = c OBVIOUS
<1>7. each[j] = parts[j]
  <2>1. parts[j] \in Seq(U) BY <1>4, <1>6
  <2>2. \A m \in DOMAIN parts[j] : parts[j][m] \in U /\ parts[j][m].category = c
    <3>1. \A m \in DOMAIN parts[j] : parts[j][m].category = j - 1 BY <1>6
    <3>. HIDE DEF j
    <3>. QED BY <1>6, <2>1, <3>1
  <2>3. \A m \in DOMAIN parts[j] : parts[j][m] \in R BY <2>2 DEF Filed
  <2>. HIDE DEF R
  <2>. QED BY <1>6, <2>1, <2>3, AmongAll
<1>8. FlattenSeq(each) = parts[j]
  <2>1. DOMAIN each = 1..6 OBVIOUS
  <2>. HIDE DEF each, j
  <2>. QED BY <1>3, <1>5, <1>6, <1>7, <2>1, FlattenOne
<1>. QED BY <1>1, <1>3, <1>8

(* Six lists, each of them what a function of its number gives.              *)
LEMMA SixLists ==
  ASSUME NEW U, NEW parts, Has(parts, 1..6), \A c \in 1..6 : parts[c] \in Seq(U)
  PROVE  parts \in Seq(Seq(U)) /\ Len(parts) = 6 /\ DOMAIN parts = 1..6
<1>1. DOMAIN parts = 1..6 BY DEF Has
<1>2. parts \in [1..6 -> Seq(U)] BY <1>1 DEF Has
<1>. DEFINE n == 6
<1>3. n \in Nat /\ parts \in [1..n -> Seq(U)] BY <1>2
<1>. HIDE DEF n
<1>4. parts \in Seq(Seq(U)) /\ Len(parts) = n BY <1>3
<1>. QED BY <1>1, <1>4 DEF n

(* A category of the true transactions is that of the facts.                 *)
LEMMA CategoryTold ==
  ASSUME NEW T, NEW txs \in Seq(T), NEW c
  PROVE  OfCategory([i \in DOMAIN txs |-> TrueTx(txs[i])], c) = Mapped(SaidOf(T), Among(txs, Filed(T, c)))
<1>. DEFINE told == [i \in DOMAIN txs |-> TrueTx(txs[i])]
            g == SaidOf(T)
            U == {TrueTx(x) : x \in T}
<1>1. told = Mapped(g, txs) BY DEF Mapped, SaidOf
<1>2. told \in Seq(U) OBVIOUS
<1>3. \A x \in T : x \in Filed(T, c) <=> g[x] \in Filed(U, c) BY DEF Filed, SaidOf, TrueTx
<1>. HIDE DEF told, g, U
<1>4. Among(Mapped(g, txs), Filed(U, c)) = Mapped(g, Among(txs, Filed(T, c))) BY <1>3, MappedAmong
<1>5. OfCategory(told, c) = Among(told, Filed(U, c)) BY <1>2, OfCategoryIs
<1>. QED BY <1>1, <1>4, <1>5 DEF told, g

(* The hashes of one category, read.                                         *)
LEMMA FiledRead ==
  ASSUME Apart, NEW l, IsList(l), \A x \in ToSet(l) : x.hash # None /\ x.version \in {"Deploy", "V1"}, NEW c
  PROVE  getBlockTransactionsFromTransactionHashes(Each([i \in DOMAIN l |-> NodeHash(l[i])], TransactionHash), c)
           = [i \in DOMAIN l |-> BlockTransaction(c, l[i].version, l[i].hash)]
<1>. DEFINE json == [i \in DOMAIN l |-> NodeHash(l[i])]
            hashes == [i \in DOMAIN l |-> TransactionHash(NodeHash(l[i]))]
            read == [i \in DOMAIN l |-> BlockTransaction(c, l[i].version, l[i].hash)]
            Made(hash) == IF hash.transactionV1 # None THEN BlockTransaction(c, "V1", hash.transactionV1)
                          ELSE IF hash.deploy # None THEN BlockTransaction(c, "Deploy", hash.deploy)
                          ELSE Thrown
<1>1. ASSUME NEW i \in DOMAIN l
      PROVE  /\ TransactionHash(NodeHash(l[i])) # Thrown
             /\ Made(TransactionHash(NodeHash(l[i]))) = BlockTransaction(c, l[i].version, l[i].hash)
             /\ BlockTransaction(c, l[i].version, l[i].hash) # Thrown
  <2>1. l[i].hash # None /\ l[i].version \in {"Deploy", "V1"} BY DEF ToSet
  <2>2. TransactionHash(NodeHash(l[i])) =
          [deploy |-> IF l[i].version = "Deploy" THEN l[i].hash ELSE None,
           transactionV1 |-> IF l[i].version = "Deploy" THEN None ELSE l[i].hash]
    BY DEF TransactionHash, NodeHash, Get
  <2>3. Made(TransactionHash(NodeHash(l[i]))) = BlockTransaction(c, l[i].version, l[i].hash)
    <3>. HIDE DEF Made
    <3>1. CASE l[i].version = "Deploy" BY <2>1, <2>2, <3>1 DEF Made
    <3>2. CASE l[i].version = "V1" BY <2>1, <2>2, <3>2 DEF Made
    <3>. QED BY <2>1, <3>1, <3>2
  <2>4. BlockTransaction(c, l[i].version, l[i].hash) # Thrown BY DEF BlockTransaction, Apart, NotAnObject
  <2>5. TransactionHash(NodeHash(l[i])) # Thrown BY <2>2 DEF Apart, NotAnObject
  <2>. QED BY <2>3, <2>4, <2>5
<1>2. Each(json, TransactionHash) = hashes BY <1>1 DEF Each
<1>3. getBlockTransactionsFromTransactionHashes(hashes, c) = Each(hashes, Made)
  BY DEF getBlockTransactionsFromTransactionHashes
<1>4. \A i \in DOMAIN hashes : Made(hashes[i]) = read[i] /\ read[i] # Thrown BY <1>1
<1>5. Each(hashes, Made) = read
  <2>1. DOMAIN hashes = DOMAIN l OBVIOUS
  <2>. HIDE DEF hashes, Made
  <2>2. [i \in DOMAIN hashes |-> Made(hashes[i])] = read BY <1>4, <2>1
  <2>. QED BY <1>4, <2>1, <2>2 DEF Each
<1>. QED BY <1>2, <1>3, <1>5

(* The transactions of a 2.x block, read from where a node files them.       *)
LEMMA TransactionsRead ==
  ASSUME Apart, NEW T, \A x \in T : IsTx(x), NEW txs \in Seq(T)
  PROVE  SameFiled(BlockTransactionFromJSON(TransactionsJSON(txs)), txs)
<1>. DEFINE data == TransactionsJSON(txs)
            kept(c) == Among(txs, Filed(T, c))
            g == SaidOf(T)
            parts == [c \in 1..6 |-> Mapped(g, kept(c - 1))]
            U == {TrueTx(x) : x \in T}
            got == FlattenSeq(parts)
            F(c) == IF c \in DOMAIN data
                    THEN getBlockTransactionsFromTransactionHashes(Each(data[c], TransactionHash), c) ELSE <<>>
<1>1. g \in [T -> U] BY DEF SaidOf
<1>2. ASSUME NEW c
      PROVE  /\ kept(c) \in Seq(T) /\ kept(c) \in Seq(T \cap Filed(T, c))
             /\ Mapped(g, kept(c)) \in Seq(U) /\ Len(Mapped(g, kept(c))) = Len(kept(c))
             /\ DOMAIN Mapped(g, kept(c)) = DOMAIN kept(c)
  <2>1. kept(c) \in Seq(T) /\ kept(c) \in Seq(T \cap Filed(T, c)) BY AmongType
  <2>. DEFINE s == kept(c)
              m == Mapped(g, s)
  <2>. HIDE DEF s, kept, g, U
  <2>2. s \in Seq(T) BY <2>1 DEF s
  <2>3. m \in Seq(U) /\ Len(m) = Len(s) /\ DOMAIN m = DOMAIN s BY <1>1, <2>2 DEF Mapped, m
  <2>. QED BY <2>1, <2>3 DEF s
<1>3. DOMAIN data = {txs[i].category : i \in DOMAIN txs} BY DEF TransactionsJSON
<1>4. ASSUME NEW c \in 0..5 PROVE F(c) = Mapped(g, kept(c))
  <2>. DEFINE l == kept(c)
  <2>1. l = OfCategory(txs, c) BY OfCategoryIs
  <2>2. ASSUME NEW i \in DOMAIN l PROVE l[i] \in T /\ l[i].category = c
    <3>1. l \in Seq(T \cap Filed(T, c)) BY <1>2
    <3>. HIDE DEF l
    <3>2. l[i] \in T \cap Filed(T, c) BY <3>1, ElementType
    <3>. QED BY <3>2 DEF Filed
  <2>3. l \in Seq(T) BY <1>2
  <2>4. CASE c \in DOMAIN data
    <3>1. data[c] = [i \in DOMAIN l |-> NodeHash(l[i])]
      <4>. DEFINE filed == Among(txs, {t \in ToSet(txs) : t.category = c})
      <4>1. data[c] = [i \in DOMAIN filed |-> NodeHash(filed[i])] BY <1>3, <2>4 DEF TransactionsJSON
      <4>2. filed = l BY <2>1 DEF OfCategory
      <4>. HIDE DEF filed, l, data
      <4>. QED BY <4>1, <4>2
    <3>. HIDE DEF l, data
    <3>2. IsList(l) /\ \A x \in ToSet(l) : x.hash # None /\ x.version \in {"Deploy", "V1"}
      BY <2>2, <2>3 DEF IsList, ToSet, IsTx
    <3>3. F(c) = [i \in DOMAIN l |-> BlockTransaction(c, l[i].version, l[i].hash)]
      BY <2>4, <3>1, <3>2, FiledRead
    <3>4. \A i \in DOMAIN l : BlockTransaction(c, l[i].version, l[i].hash) = g[l[i]]
      BY <2>2 DEF BlockTransaction, SaidOf, TrueTx
    <3>5. F(c) = Mapped(g, l) BY <3>3, <3>4 DEF Mapped
    <3>. QED BY <3>5 DEF l
  <2>5. CASE c \notin DOMAIN data
    <3>1. \A i \in DOMAIN txs : txs[i] \notin Filed(T, c) BY <1>3, <2>5 DEF Filed
    <3>2. l = <<>> BY <3>1, AmongNone
    <3>3. F(c) = <<>> BY <2>5
    <3>4. Mapped(g, <<>>) = <<>> BY DEF Mapped
    <3>. QED BY <3>2, <3>3, <3>4
  <2>. QED BY <2>4, <2>5
<1>5. parts \in Seq(Seq(U)) /\ Len(parts) = 6 /\ \A c \in 1..6 : parts[c] = Mapped(g, kept(c - 1))
          /\ parts[c] \in Seq(U)
  <2>1. \A c \in 1..6 : parts[c] = Mapped(g, kept(c - 1)) /\ parts[c] \in Seq(U) BY <1>2
  <2>2. Has(parts, 1..6) BY DEF Has
  <2>. HIDE DEF parts, U
  <2>. QED BY <2>1, <2>2, SixLists
<1>6. BlockTransactionFromJSON(data) = got
  <2>. HIDE DEF data, kept, g
  <2>1. \A c \in 1..6 : F(c - 1) = parts[c] BY <1>4
  <2>2. \A c \in 1..6 : parts[c] # Thrown
    <3>1. \A c \in 1..6 : parts[c] = [i \in DOMAIN parts[c] |-> parts[c][i]]
      <4>. SUFFICES ASSUME NEW c \in 1..6, NEW s, s = parts[c] PROVE s = [i \in DOMAIN s |-> s[i]]
        OBVIOUS
      <4>. HIDE DEF parts, U
      <4>1. s \in Seq(U) BY <1>5
      <4>. QED BY <4>1
    <3>. HIDE DEF parts
    <3>. QED BY <3>1 DEF Apart, NotAnObject
  <2>. DEFINE read == [c \in 1..6 |-> F(c - 1)]
  <2>3. BlockTransactionFromJSON(data) = IF \E c \in 1..6 : read[c] = Thrown THEN Thrown ELSE FlattenSeq(read)
    BY DEF BlockTransactionFromJSON
  <2>4. read = parts BY <2>1
  <2>. HIDE DEF read, parts
  <2>. QED BY <2>2, <2>3, <2>4
<1>7. got \in Seq(U)
  <2>. HIDE DEF parts, U
  <2>. QED BY <1>5, FlattenType
<1>8. IsList(got) /\ \A t \in ToSet(got) : t = TrueTx(t) /\ IsTx(t)
  <2>1. \A u \in U : u = TrueTx(u) /\ IsTx(u) BY DEF TrueTx, IsTx
  <2>. HIDE DEF got, U
  <2>2. got \in Seq(ToSet(got)) BY <1>7 DEF ToSet
  <2>3. \A t \in ToSet(got) : t \in U BY <1>7 DEF ToSet
  <2>. QED BY <2>1, <2>2, <2>3 DEF IsList
<1>9. Len(got) = Len(txs)
  <2>. HIDE DEF parts, U, kept
  <2>1. Len(got) = Len(parts[1]) + Len(parts[2]) + Len(parts[3]) + Len(parts[4]) + Len(parts[5]) + Len(parts[6])
    BY <1>5, FlattenSix
  <2>2. /\ Len(parts[1]) = Len(kept(0)) /\ Len(parts[2]) = Len(kept(1)) /\ Len(parts[3]) = Len(kept(2))
        /\ Len(parts[4]) = Len(kept(3)) /\ Len(parts[5]) = Len(kept(4)) /\ Len(parts[6]) = Len(kept(5))
    <3>1. \A c \in 1..6 : Len(parts[c]) = Len(kept(c - 1)) BY <1>2, <1>5
    <3>2. 1 - 1 = 0 /\ 2 - 1 = 1 /\ 3 - 1 = 2 /\ 4 - 1 = 3 /\ 5 - 1 = 4 /\ 6 - 1 = 5 OBVIOUS
    <3>. HIDE DEF got
    <3>. QED BY <3>1, <3>2
  <2>3. Len(kept(0)) + Len(kept(1)) + Len(kept(2)) + Len(kept(3)) + Len(kept(4)) + Len(kept(5)) = Len(txs)
    BY FiledLengths DEF Sum6, LengthFiled, kept, IsTx
  <2>. HIDE DEF got
  <2>. QED BY <2>1, <2>2, <2>3
<1>10. ASSUME NEW c \in 0..5
       PROVE  OfCategory(got, c) = OfCategory([i \in DOMAIN txs |-> TrueTx(txs[i])], c)
  <2>. DEFINE j == c + 1
  <2>1. ASSUME NEW i \in 1..6, NEW m \in DOMAIN parts[i] PROVE parts[i][m].category = i - 1
    <3>1. DOMAIN kept(i - 1) = DOMAIN parts[i] /\ parts[i] = Mapped(g, kept(i - 1)) BY <1>2, <1>5
    <3>2. kept(i - 1) \in Seq(T \cap Filed(T, i - 1)) BY <1>2
    <3>. HIDE DEF parts, kept
    <3>3. kept(i - 1)[m] \in T \cap Filed(T, i - 1) BY <3>1, <3>2, ElementType
    <3>4. parts[i][m] = g[kept(i - 1)[m]] BY <3>1 DEF Mapped
    <3>. QED BY <3>3, <3>4 DEF Filed, SaidOf, TrueTx
  <2>2. OfCategory(got, c) = parts[j]
    <3>. HIDE DEF parts, U
    <3>. QED BY <1>5, <2>1, PartsFiled
  <2>3. parts[j] = Mapped(g, kept(c))
    <3>1. j \in 1..6 /\ j - 1 = c OBVIOUS
    <3>. HIDE DEF j, parts
    <3>. QED BY <1>5, <3>1
  <2>4. OfCategory([i \in DOMAIN txs |-> TrueTx(txs[i])], c) = Mapped(g, kept(c)) BY CategoryTold
  <2>. HIDE DEF parts, got
  <2>. QED BY <2>2, <2>3, <2>4
<1>. HIDE DEF got
<1>. QED BY <1>6, <1>8, <1>9, <1>10 DEF SameFiled

(* A list of transactions of one category, as many as there were.            *)
AllFiled(U, c, l, m) == m \in Seq(U) /\ Len(m) = Len(l) /\ \A i \in DOMAIN m : m[i] \in U /\ m[i].category = c

(* The transactions of a 1.x block, read from its two lists.                 *)
LEMMA OldTransactionsRead ==
  ASSUME Apart, NEW T, \A x \in T : IsTx(x) /\ x.version = "Deploy" /\ x.category \in {0, 3}, NEW txs \in Seq(T),
         NEW body,
         body.transferHashes = HashesOf(Among(txs, {t \in ToSet(txs) : IsTransfer(t)})),
         body.deployHashes = HashesOf(Among(txs, {t \in ToSet(txs) : ~IsTransfer(t)}))
  PROVE  SameFiled(TransactionsOfBodyV1(body), txs)
<1>. DEFINE kept(c) == Among(txs, Filed(T, c))
            g == SaidOf(T)
            U == {TrueTx(x) : x \in T}
            first == Mapped(g, kept(0))
            second == Mapped(g, kept(3))
            got == Joined(first, second)
<1>1. ASSUME NEW c, NEW l, l = kept(c)
      PROVE  l \in Seq(T) /\ \A i \in DOMAIN l : l[i] \in T /\ l[i].category = c
  <2>1. l \in Seq(T) /\ l \in Seq(T \cap Filed(T, c)) BY <1>1, AmongType
  <2>2. ASSUME NEW i \in DOMAIN l PROVE l[i] \in T /\ l[i].category = c
    <3>1. l[i] \in T \cap Filed(T, c) BY <2>1, ElementType
    <3>. QED BY <3>1 DEF Filed
  <2>. QED BY <2>1, <2>2
<1>2. ASSUME NEW c, NEW l, l = kept(c), NEW m, m = Mapped(g, l)
      PROVE  AllFiled(U, c, l, m)
  <2>1. l \in Seq(T) /\ \A i \in DOMAIN l : l[i] \in T /\ l[i].category = c BY <1>1, <1>2
  <2>. HIDE DEF kept
  <2>2. DOMAIN m = DOMAIN l /\ \A i \in DOMAIN l : m[i] = TrueTx(l[i]) BY <1>2, <2>1 DEF Mapped, SaidOf
  <2>3. m = [i \in DOMAIN l |-> m[i]] BY <1>2 DEF Mapped
  <2>4. \A i \in DOMAIN m : m[i] \in U /\ m[i].category = c BY <2>1, <2>2 DEF TrueTx
  <2>. HIDE DEF U
  <2>5. m \in Seq(U) /\ Len(m) = Len(l) BY <2>1, <2>2, <2>3, <2>4
  <2>. QED BY <2>4, <2>5 DEF AllFiled
<1>3. txs \in Seq(T) /\ \A i \in DOMAIN txs : txs[i] \in T OBVIOUS
<1>4. Among(txs, {t \in ToSet(txs) : IsTransfer(t)}) = kept(0)
  <2>. DEFINE S == {t \in ToSet(txs) : IsTransfer(t)}
              R == Filed(T, 0)
  <2>1. \A i \in DOMAIN txs : txs[i] \in S <=> txs[i] \in R
    BY <1>3 DEF Filed, IsTransfer, Categories, ToSet
  <2>. HIDE DEF S, R
  <2>2. Among(txs, S) = Among(txs, R) BY <2>1, AmongSame
  <2>. QED BY <2>2 DEF S, R
<1>5. Among(txs, {t \in ToSet(txs) : ~IsTransfer(t)}) = kept(3)
  <2>. DEFINE S == {t \in ToSet(txs) : ~IsTransfer(t)}
              R == Filed(T, 3)
  <2>1. \A i \in DOMAIN txs : txs[i] \in S <=> txs[i] \in R
    BY <1>3 DEF Filed, IsTransfer, Categories, ToSet
  <2>. HIDE DEF S, R
  <2>2. Among(txs, S) = Among(txs, R) BY <2>1, AmongSame
  <2>. QED BY <2>2 DEF S, R
<1>6. ASSUME NEW c \in {0, 3}, NEW l, l = kept(c)
      PROVE  [i \in DOMAIN HashesOf(l) |-> BlockTransaction(c, "Deploy", HashesOf(l)[i])] = Mapped(g, l)
  <2>1. \A i \in DOMAIN l : l[i] \in T /\ l[i].category = c BY <1>1, <1>6
  <2>. HIDE DEF kept
  <2>2. DOMAIN HashesOf(l) = DOMAIN l /\ \A i \in DOMAIN l : HashesOf(l)[i] = l[i].hash BY DEF HashesOf
  <2>3. \A i \in DOMAIN l : BlockTransaction(c, "Deploy", HashesOf(l)[i]) = g[l[i]]
    BY <2>1, <2>2 DEF BlockTransaction, SaidOf, TrueTx
  <2>. HIDE DEF g
  <2>. QED BY <2>2, <2>3 DEF Mapped
<1>7. TransactionsOfBodyV1(body) = got
  <2>. DEFINE l == kept(0)
              k == kept(3)
  <2>1. [i \in DOMAIN HashesOf(l) |-> BlockTransaction(0, "Deploy", HashesOf(l)[i])] = first BY <1>6
  <2>2. [i \in DOMAIN HashesOf(k) |-> BlockTransaction(3, "Deploy", HashesOf(k)[i])] = second BY <1>6
  <2>3. body.transferHashes = HashesOf(l) /\ body.deployHashes = HashesOf(k) BY <1>4, <1>5
  <2>4. Categories.Mint = 0 /\ Categories.Large = 3 BY DEF Categories
  <2>. HIDE DEF l, k, first, second
  <2>5. TransactionsOfBodyV1(body) = Joined([i \in DOMAIN HashesOf(l) |-> BlockTransaction(0, "Deploy", HashesOf(l)[i])],
                                            [i \in DOMAIN HashesOf(k) |-> BlockTransaction(3, "Deploy", HashesOf(k)[i])])
    BY <2>3, <2>4, Zenon DEF TransactionsOfBodyV1, Joined
  <2>. QED BY <2>1, <2>2, <2>5
<1>8. /\ first \in Seq(U) /\ Len(first) = Len(kept(0)) /\ \A i \in DOMAIN first : first[i] \in U /\ first[i].category = 0
      /\ second \in Seq(U) /\ Len(second) = Len(kept(3)) /\ \A i \in DOMAIN second : second[i] \in U /\ second[i].category = 3
  <2>. HIDE DEF kept, g, U
  <2>1. AllFiled(U, 0, kept(0), first) /\ AllFiled(U, 3, kept(3), second) BY <1>2, Zenon
  <2>. HIDE DEF first, second
  <2>. QED BY <2>1, Zenon DEF AllFiled
<1>9. \A c \in 0..5 : c \notin {0, 3} => kept(c) = <<>>
  <2>. SUFFICES ASSUME NEW c \in 0..5, c \notin {0, 3} PROVE Among(txs, Filed(T, c)) = <<>> OBVIOUS
  <2>1. \A i \in DOMAIN txs : txs[i] \notin Filed(T, c) BY <1>3 DEF Filed
  <2>. QED BY <1>3, <2>1, AmongNone
<1>. HIDE DEF first, second
<1>10. got \in Seq(U) BY <1>8, JoinedType
<1>11. Len(got) = Len(txs)
  <2>1. Len(got) = Len(kept(0)) + Len(kept(3)) BY <1>8, JoinedLength
  <2>2. Len(kept(0)) + Len(kept(1)) + Len(kept(2)) + Len(kept(3)) + Len(kept(4)) + Len(kept(5)) = Len(txs)
    BY FiledLengths DEF Sum6, LengthFiled, IsTx
  <2>3. Len(kept(1)) = 0 /\ Len(kept(2)) = 0 /\ Len(kept(4)) = 0 /\ Len(kept(5)) = 0
    <3>. HIDE DEF kept
    <3>. QED BY <1>9
  <2>4. kept(0) \in Seq(T) /\ kept(3) \in Seq(T) BY <1>1
  <2>. DEFINE a == Len(kept(0))
              b == Len(kept(3))
              n == Len(txs)
              m == Len(got)
  <2>5. a \in Nat /\ b \in Nat /\ m = a + b BY <2>1, <2>4
  <2>6. a + 0 + 0 + b + 0 + 0 = n BY <2>2, <2>3
  <2>. HIDE DEF a, b, n, m
  <2>7. m = n BY <2>5, <2>6
  <2>. QED BY <2>7 DEF m, n
<1>12. IsList(got) /\ \A t \in ToSet(got) : t = TrueTx(t) /\ IsTx(t)
  <2>1. \A u \in U : u = TrueTx(u) /\ IsTx(u) BY DEF TrueTx, IsTx
  <2>. HIDE DEF got, U
  <2>2. got \in Seq(ToSet(got)) BY <1>10 DEF ToSet
  <2>3. \A t \in ToSet(got) : t \in U BY <1>10 DEF ToSet
  <2>. QED BY <2>1, <2>2, <2>3 DEF IsList
<1>13. ASSUME NEW c \in 0..5
       PROVE  OfCategory(got, c) = OfCategory([i \in DOMAIN txs |-> TrueTx(txs[i])], c)
  <2>. DEFINE R == Filed(U, c)
  <2>1. OfCategory(got, c) = Among(got, R)
    <3>. HIDE DEF got, U
    <3>. QED BY <1>10, OfCategoryIs
  <2>2. Among(got, R) = Joined(Among(first, R), Among(second, R)) BY <1>8, AmongJoined
  <2>3. ASSUME NEW k, NEW s \in Seq(U), \A i \in DOMAIN s : s[i] \in U /\ s[i].category = k
        PROVE  Among(s, R) = IF k = c THEN s ELSE <<>>
    <3>1. CASE k = c
      <4>1. \A i \in DOMAIN s : s[i] \in R BY <2>3, <3>1 DEF Filed
      <4>. HIDE DEF R, U
      <4>2. Among(s, R) = s BY <2>3, <4>1, AmongAll
      <4>. QED BY <3>1, <4>2
    <3>2. CASE k # c
      <4>1. \A i \in DOMAIN s : s[i] \notin R BY <2>3, <3>2 DEF Filed
      <4>. HIDE DEF R, U
      <4>2. Among(s, R) = <<>> BY <2>3, <4>1, AmongNone
      <4>. QED BY <3>2, <4>2
    <3>. QED BY <3>1, <3>2
  <2>. HIDE DEF R
  <2>4. Among(first, R) = IF 0 = c THEN first ELSE <<>> BY <1>8, <2>3
  <2>5. Among(second, R) = IF 3 = c THEN second ELSE <<>> BY <1>8, <2>3
  <2>6. Joined(first, <<>>) = first /\ Joined(<<>>, second) = second /\ Joined(<<>>, <<>>) = <<>>
    BY <1>8 DEF Joined
  <2>7. OfCategory([i \in DOMAIN txs |-> TrueTx(txs[i])], c) = Mapped(g, kept(c)) BY CategoryTold
  <2>8. Mapped(g, <<>>) = <<>> BY DEF Mapped
  <2>. HIDE DEF got, g, kept
  <2>9. CASE c = 0
    <3>1. Among(got, R) = first BY <2>2, <2>4, <2>5, <2>6, <2>9
    <3>. QED BY <2>1, <2>7, <2>9, <3>1 DEF first
  <2>10. CASE c = 3
    <3>1. Among(got, R) = second BY <2>2, <2>4, <2>5, <2>6, <2>10
    <3>. QED BY <2>1, <2>7, <2>10, <3>1 DEF second
  <2>11. CASE c \notin {0, 3}
    <3>1. Among(got, R) = <<>> BY <2>2, <2>4, <2>5, <2>6, <2>11
    <3>2. kept(c) = <<>> BY <1>9, <2>11
    <3>. QED BY <2>1, <2>7, <2>8, <3>1, <3>2
  <2>. QED BY <2>9, <2>10, <2>11
<1>. HIDE DEF got
<1>. QED BY <1>7, <1>11, <1>12, <1>13 DEF SameFiled

-----------------------------------------------------------------------------
(* Blocks *)

(* What is true of a block, whoever read it.                                 *)
BlockTrue(got, b) ==
    /\ Has(got, {"lastSwitchBlockHash", "currentGasPrice", "rewardedSignatures", "eraEnd", "originBlockV2",
                 "hash", "height", "common", "proposer", "transactions", "proofs"})
    /\ got.hash = b.hash /\ got.height = b.height /\ got.common = b.common /\ got.proposer = TrueProposer(b)
    /\ got.lastSwitchBlockHash = b.lastSwitch /\ got.currentGasPrice = b.gasPrice
    /\ got.rewardedSignatures = b.rewardedSignatures
    /\ SameFiled(got.transactions, b.txs) /\ EndIs(got.eraEnd, b)

(* The transactions of a block, of either generation.                        *)
LEMMA BlockTransactions ==
  ASSUME NEW b, NEW g \in {1, 2}, IsBlock(g, b)
  PROVE  /\ b.txs \in Seq(ToSet(b.txs)) /\ \A x \in ToSet(b.txs) : IsTx(x)
         /\ b.gen = 1 => \A x \in ToSet(b.txs) : IsTx(x) /\ x.version = "Deploy" /\ x.category \in {0, 3}
<1>1. IsList(b.txs) /\ \A t \in ToSet(b.txs) : IsTransaction(b.gen, t) BY BlockOfFact
<1>. QED BY <1>1 DEF IsList, IsTransaction, IsTx, Categories

(* A 1.x block, bare or with signatures beside its members.                  *)
LEMMA OldBlockRead ==
  ASSUME Apart, NEW b, NEW g \in {1, 2}, IsBlock(g, b), b.gen = 1,
         NEW json, {"hash", "header", "body"} \subseteq DOMAIN json,
         json.hash = b.hash, json.header = BlockV1HeaderJSON(b), json.body = BareBlockV1(b).body
  PROVE  LET got == newBlockFromBlockV1(BlockV1(json))
         IN /\ BlockTrue(got, b) /\ got.proofs = Get(json, "proofs") /\ got.originBlockV2 = None
            /\ BlockV1(json) \notin {None, Thrown}
<1>. DEFINE block == BlockV1(json)
            header == BlockHeaderV1(BlockV1HeaderJSON(b))
            body == BlockBodyV1(json.body)
            end == Member(header, "eraEnd", EraEndFromV1)
            got == newBlockFromBlockV1(block)
            txs == TransactionsOfBodyV1(body)
            transfers == HashesOf(Among(b.txs, {t \in ToSet(b.txs) : IsTransfer(t)}))
            deploys == HashesOf(Among(b.txs, {t \in ToSet(b.txs) : ~IsTransfer(t)}))
<1>1. b.proposer # "00" /\ b.gasPrice = 1 /\ b.lastSwitch = None /\ b.rewardedSignatures = <<>>
  BY BlockOfFact
<1>2. /\ header = [common |-> b.common, height |-> b.height, eraEnd |-> header.eraEnd]
      /\ EndIs(end, b) /\ header # None /\ BlockV1HeaderJSON(b) # None
  BY OldHeaderRead
<1>3. json.body = [deploy_hashes |-> deploys, transfer_hashes |-> transfers, proposer |-> NodeProposer(b.proposer)]
  BY DEF BareBlockV1
<1>. HIDE DEF transfers, deploys
<1>4. json.body # None BY <1>3 DEF Apart, NotAnObject
<1>5. body = [deployHashes |-> deploys, proposer |-> TrueProposer(b), transferHashes |-> transfers]
  BY <1>1, <1>3, ProposerRead DEF BlockBodyV1
<1>. HIDE DEF body, header
<1>6. block = [hash |-> b.hash, header |-> header, body |-> body, proofs |-> Get(json, "proofs")]
  <2>1. Get(json, "hash") = b.hash /\ b.hash # None BY BlockFields DEF Get
  <2>. QED BY <1>2, <1>4, <2>1 DEF BlockV1, Member, Get, body, header
<1>7. SameFiled(txs, b.txs)
  <2>1. body.transferHashes = transfers /\ body.deployHashes = deploys BY <1>5
  <2>2. /\ b.txs \in Seq(ToSet(b.txs))
        /\ \A x \in ToSet(b.txs) : IsTx(x) /\ x.version = "Deploy" /\ x.category \in {0, 3}
    BY BlockTransactions
  <2>. QED BY <2>1, <2>2, OldTransactionsRead DEF transfers, deploys
<1>. HIDE DEF block, end, txs
<1>8. got = Merged([lastSwitchBlockHash |-> None, currentGasPrice |-> 1, rewardedSignatures |-> <<>>,
                    eraEnd |-> end, originBlockV2 |-> None],
                   [hash |-> b.hash, height |-> b.height, common |-> b.common,
                    proposer |-> TrueProposer(b), transactions |-> txs, proofs |-> Get(json, "proofs")])
  BY <1>2, <1>5, <1>6 DEF newBlockFromBlockV1, Block, end, txs
<1>. DEFINE proofs == Get(json, "proofs")
            proposer == TrueProposer(b)
<1>. HIDE DEF got, proofs, proposer
<1>9. got = [lastSwitchBlockHash |-> None, currentGasPrice |-> 1, rewardedSignatures |-> <<>>,
             eraEnd |-> end, originBlockV2 |-> None, hash |-> b.hash, height |-> b.height, common |-> b.common,
             proposer |-> proposer, transactions |-> txs, proofs |-> proofs]
  BY <1>8 DEF Merged, proofs, proposer
<1>10. got.proofs = proofs /\ got.originBlockV2 = None BY <1>9
<1>11. BlockTrue(got, b) BY <1>1, <1>2, <1>7, <1>9 DEF BlockTrue, Has, proposer
<1>12. block \notin {None, Thrown} BY <1>6 DEF Apart, NotAnObject
<1>. QED BY <1>10, <1>11, <1>12 DEF got, block, proofs

(* A 2.x block without a last switch block is refused.                       *)
LEMMA NewBlockRefused ==
  ASSUME Apart, NEW b, NoLastSwitch(b)
  PROVE  BlockV2(BareBlockV2(b)) = Thrown
<1>1. BareBlockV2(b).header = BlockV2HeaderJSON(b) BY DEF BareBlockV2
<1>2. BlockHeaderV2(BlockV2HeaderJSON(b)) = Thrown BY NewHeaderRefused
<1>. QED BY <1>1, <1>2 DEF BlockV2

(* A 2.x block, with the signatures that were answered beside it.            *)
LEMMA NewBlockRead ==
  ASSUME Apart, NEW b, NEW g \in {1, 2}, IsBlock(g, b), b.gen = 2, b.lastSwitch # None, NEW proofs
  PROVE  LET block == BlockV2(BareBlockV2(b))
             got == newBlockFromBlockV2(block, proofs)
         IN /\ BlockTrue(got, b) /\ got.proofs = proofs /\ got.originBlockV2 = block
            /\ block \notin {None, Thrown}
            /\ block = [hash |-> b.hash, header |-> BlockHeaderV2(BlockV2HeaderJSON(b)),
                        body |-> [transactions |-> block.body.transactions,
                                  rewardedSignatures |-> b.rewardedSignatures]]
            /\ SameFiled(block.body.transactions, b.txs)
<1>. DEFINE json == BareBlockV2(b)
            block == BlockV2(json)
            header == BlockHeaderV2(BlockV2HeaderJSON(b))
            txs == BlockTransactionFromJSON(TransactionsJSON(b.txs))
            end == Member(header, "eraEnd", EraEndFromV2)
            got == newBlockFromBlockV2(block, proofs)
            proposer == TrueProposer(b)
<1>1. TrueHeader(header, b) /\ EndIs(end, b) /\ header # Thrown BY NewHeaderRead
<1>2. SameFiled(txs, b.txs)
  <2>1. b.txs \in Seq(ToSet(b.txs)) /\ \A x \in ToSet(b.txs) : IsTx(x) BY BlockTransactions
  <2>. QED BY <2>1, TransactionsRead
<1>3. json = [hash |-> b.hash, header |-> BlockV2HeaderJSON(b),
              body |-> [transactions |-> TransactionsJSON(b.txs), rewarded_signatures |-> b.rewardedSignatures]]
  BY DEF BareBlockV2
<1>. DEFINE body == [transactions |-> txs, rewardedSignatures |-> b.rewardedSignatures]
<1>. HIDE DEF json, header, txs
<1>12. txs # Thrown
  <2>1. txs = [i \in 1..Len(txs) |-> txs[i]] BY <1>2 DEF SameFiled, IsList
  <2>. QED BY <2>1 DEF Apart, NotAnObject
<1>13. BlockBodyV2(json.body) = body /\ body # Thrown
  <2>1. BlockBodyV2(json.body) = body BY <1>3, <1>12 DEF BlockBodyV2, txs
  <2>. QED BY <2>1 DEF Apart, NotAnObject
<1>14. json.hash = b.hash /\ BlockHeaderV2(json.header) = header BY <1>3 DEF header
<1>4. block = [hash |-> b.hash, header |-> header, body |-> body]
  <2>. HIDE DEF body
  <2>. QED BY <1>1, <1>13, <1>14 DEF BlockV2
<1>. HIDE DEF block, end, proposer
<1>5. block \notin {None, Thrown} BY <1>4 DEF Apart, NotAnObject
<1>6. /\ header.common = b.common /\ header.height = b.height /\ header.currentGasPrice = b.gasPrice
      /\ header.proposer = proposer /\ header.lastSwitchBlockHash = b.lastSwitch
  BY <1>1 DEF TrueHeader, proposer
<1>7. got = Merged([lastSwitchBlockHash |-> b.lastSwitch, currentGasPrice |-> b.gasPrice,
                    rewardedSignatures |-> b.rewardedSignatures, eraEnd |-> end, originBlockV2 |-> block],
                   [hash |-> b.hash, height |-> b.height, common |-> b.common,
                    proposer |-> proposer, transactions |-> txs, proofs |-> proofs])
  <2>1. Member(block.header, "eraEnd", EraEndFromV2) = end BY <1>4 DEF end
  <2>2. block.header = header /\ block.hash = b.hash /\ block.body.transactions = txs
        /\ block.body.rewardedSignatures = b.rewardedSignatures
    BY <1>4
  <2>. QED BY <1>6, <2>1, <2>2 DEF newBlockFromBlockV2, Block
<1>. HIDE DEF got
<1>8. got = [lastSwitchBlockHash |-> b.lastSwitch, currentGasPrice |-> b.gasPrice,
             rewardedSignatures |-> b.rewardedSignatures, eraEnd |-> end, originBlockV2 |-> block,
             hash |-> b.hash, height |-> b.height, common |-> b.common,
             proposer |-> proposer, transactions |-> txs, proofs |-> proofs]
  BY <1>7 DEF Merged
<1>9. got.proofs = proofs /\ got.originBlockV2 = block BY <1>8
<1>10. BlockTrue(got, b) BY <1>1, <1>2, <1>8 DEF BlockTrue, Has, proposer
<1>11. block.body.transactions = txs BY <1>4
<1>. QED BY <1>2, <1>4, <1>5, <1>9, <1>10, <1>11 DEF got, block, json, header

(* A block in its version, unwrapped.                                        *)
LEMMA WrappedRead ==
  ASSUME Apart, NEW b, NEW g \in {1, 2}, IsBlock(g, b), ~NoLastSwitch(b), NEW proofs
  PROVE  LET wrapper == BlockWrapper(WrappedBlock(b))
             got == newBlockFromBlockWrapper(wrapper, proofs)
         IN /\ BlockTrue(got, b) /\ got.proofs = proofs
            /\ wrapper # Thrown /\ (wrapper.blockV1 # None \/ wrapper.blockV2 # None)
            /\ got.originBlockV2 = IF b.gen = 1 THEN None ELSE BlockV2(BareBlockV2(b))
<1>. DEFINE wrapper == BlockWrapper(WrappedBlock(b))
            got == newBlockFromBlockWrapper(wrapper, proofs)
<1>1. b.gen \in {1, 2} BY BlockFields
<1>2. CASE b.gen = 1
  <2>. DEFINE json == BareBlockV1(b)
              block == BlockV1(json)
              made == newBlockFromBlockV1(block)
  <2>1. {"hash", "header", "body"} \subseteq DOMAIN json /\ json.hash = b.hash
            /\ json.header = BlockV1HeaderJSON(b)
        /\ json.body = BareBlockV1(b).body /\ json # None
    BY DEF BareBlockV1, Apart, NotAnObject
  <2>2. BlockTrue(made, b) /\ made.originBlockV2 = None /\ block # None /\ block # Thrown
    BY <1>2, <2>1, OldBlockRead
  <2>3. WrappedBlock(b) = [Version1 |-> json] BY <1>2 DEF WrappedBlock
  <2>. HIDE DEF json
  <2>4. Member(WrappedBlock(b), "Version1", BlockV1) = block /\ Member(WrappedBlock(b), "Version2", BlockV2) = None
    BY <2>1, <2>3 DEF Member, Get
  <2>. HIDE DEF block
  <2>5. wrapper = [blockV1 |-> block, blockV2 |-> None] BY <2>2, <2>4 DEF BlockWrapper, Apart
  <2>. HIDE DEF made, wrapper
  <2>8. wrapper # Thrown /\ wrapper.blockV1 = block BY <2>5 DEF Apart, NotAnObject
  <2>6. got = [made EXCEPT !.proofs = proofs] BY <2>2, <2>8 DEF newBlockFromBlockWrapper, made
  <2>7. BlockTrue(got, b) /\ got.proofs = proofs /\ got.originBlockV2 = None
    <3>1. Has(made, {"lastSwitchBlockHash", "currentGasPrice", "rewardedSignatures", "eraEnd", "originBlockV2",
                     "hash", "height", "common", "proposer", "transactions", "proofs"})
      BY <2>2 DEF BlockTrue
    <3>. HIDE DEF got
    <3>2. /\ Has(got, {"lastSwitchBlockHash", "currentGasPrice", "rewardedSignatures", "eraEnd", "originBlockV2",
                       "hash", "height", "common", "proposer", "transactions", "proofs"})
          /\ got.hash = made.hash /\ got.height = made.height /\ got.common = made.common
          /\ got.proposer = made.proposer /\ got.lastSwitchBlockHash = made.lastSwitchBlockHash
          /\ got.currentGasPrice = made.currentGasPrice /\ got.rewardedSignatures = made.rewardedSignatures
          /\ got.transactions = made.transactions /\ got.eraEnd = made.eraEnd
          /\ got.originBlockV2 = made.originBlockV2 /\ got.proofs = proofs
      BY <2>6, <3>1 DEF Has
    <3>3. got.originBlockV2 = None BY <2>2, <3>2
    <3>. QED BY <2>2, <3>2, <3>3, Zenon DEF BlockTrue
  <2>. QED BY <1>2, <2>2, <2>7, <2>8 DEF wrapper
<1>3. CASE b.gen = 2
  <2>. DEFINE json == BareBlockV2(b)
              block == BlockV2(json)
              made == newBlockFromBlockV2(block, proofs)
  <2>1. BlockTrue(made, b) /\ made.proofs = proofs /\ made.originBlockV2 = block /\ block # None /\ block # Thrown
    BY <1>3, NewBlockRead DEF NoLastSwitch
  <2>2. WrappedBlock(b) = [Version2 |-> json] /\ json # None
    BY <1>3 DEF WrappedBlock, BareBlockV2, Apart, NotAnObject
  <2>. HIDE DEF json
  <2>3. Member(WrappedBlock(b), "Version1", BlockV1) = None /\ Member(WrappedBlock(b), "Version2", BlockV2) = block
    BY <2>2 DEF Member, Get
  <2>. HIDE DEF block
  <2>4. wrapper = [blockV1 |-> None, blockV2 |-> block] BY <2>1, <2>3 DEF BlockWrapper, Apart
  <2>. HIDE DEF wrapper
  <2>5. wrapper # Thrown /\ wrapper.blockV1 = None /\ wrapper.blockV2 = block
    BY <2>4 DEF Apart, NotAnObject
  <2>6. got = made BY <2>1, <2>5 DEF newBlockFromBlockWrapper
  <2>. HIDE DEF got, made
  <2>. QED BY <1>3, <2>1, <2>5, <2>6 DEF wrapper, got, block, json
<1>. QED BY <1>1, <1>2, <1>3

(* A block in its version that cannot be read.                               *)
LEMMA WrappedRefused ==
  ASSUME Apart, NEW b, NoLastSwitch(b)
  PROVE  BlockWrapper(WrappedBlock(b)) = Thrown /\ BlockV1(WrappedBlock(b)) = Thrown
<1>. DEFINE json == BareBlockV2(b)
<1>1. BlockV2(json) = Thrown BY NewBlockRefused
<1>2. WrappedBlock(b) = [Version2 |-> json] /\ json # None
  BY DEF NoLastSwitch, WrappedBlock, BareBlockV2, Apart, NotAnObject
<1>. HIDE DEF json
<1>3. Member(WrappedBlock(b), "Version2", BlockV2) = Thrown /\ Get(WrappedBlock(b), "hash") = None
  BY <1>1, <1>2 DEF Member, Get
<1>. QED BY <1>3 DEF BlockWrapper, BlockV1

(* A block asked for, of either generation by either node.                   *)
LEMMA BlockRead ==
  ASSUME Apart, NEW b, NEW g \in {1, 2}, IsBlock(g, b)
  PROVE  LET got == ReadBlock(g, b)
         IN IF NoLastSwitch(b) THEN got = Thrown
            ELSE /\ BlockTrue(got, b) /\ got.proofs = b.proofs
                 /\ got.originBlockV2 = IF b.gen = 1 THEN None ELSE BlockV2(BareBlockV2(b))
<1>. DEFINE json == BlockAnswer(g, b)
            result == ChainGetBlockResultV1Compatible(json)
            signed == Member(json, "block_with_signatures", BlockWithSignatures)
            old == Member(json, "block", BlockV1)
            got == ReadBlock(g, b)
<1>1. b.gen \in 1..g BY BlockFields
<1>2. got = IF result = Thrown THEN Thrown ELSE newChainGetBlockResultFromV1Compatible(result)
  BY DEF ReadBlock, getBlock
<1>3. result = IF old = Thrown \/ signed = Thrown THEN Thrown ELSE [blockV1 |-> old, blockWithSignatures |-> signed]
  BY DEF ChainGetBlockResultV1Compatible
<1>4. CASE g = 1
  <2>. DEFINE bare == Merged([proofs |-> b.proofs], BareBlockV1(b))
              block == BlockV1(bare)
  <2>0. b.gen = 1 /\ ~NoLastSwitch(b) BY <1>1, <1>4 DEF NoLastSwitch
  <2>1. /\ DOMAIN bare = {"hash", "header", "body", "proofs"} /\ bare.hash = b.hash
        /\ bare.header = BlockV1HeaderJSON(b) /\ bare.body = BareBlockV1(b).body
        /\ bare.proofs = b.proofs /\ bare # None
    BY DEF BareBlockV1, Merged, Apart, NotAnObject
  <2>2. json = [block |-> bare] BY <1>4 DEF BlockAnswer
  <2>. HIDE DEF bare
  <2>3. {"hash", "header", "body"} \subseteq DOMAIN bare /\ Get(bare, "proofs") = b.proofs
    BY <2>1 DEF Get
  <2>4. /\ BlockTrue(newBlockFromBlockV1(block), b) /\ newBlockFromBlockV1(block).proofs = b.proofs
        /\ newBlockFromBlockV1(block).originBlockV2 = None /\ block # None /\ block # Thrown
    BY <2>0, <2>1, <2>3, OldBlockRead
  <2>. HIDE DEF json
  <2>5. old = block /\ signed = None BY <2>1, <2>2 DEF Member, Get
  <2>. HIDE DEF block, result, old, signed, got
  <2>6. result = [blockV1 |-> block, blockWithSignatures |-> None] BY <1>3, <2>4, <2>5 DEF Apart
  <2>7. result # Thrown /\ result.blockV1 = block BY <2>6 DEF Apart, NotAnObject
  <2>8. got = newBlockFromBlockV1(block) BY <1>2, <2>4, <2>7 DEF newChainGetBlockResultFromV1Compatible
  <2>. QED BY <2>0, <2>4, <2>8 DEF got
<1>5. CASE g = 2
  <2>. DEFINE inner == [block |-> WrappedBlock(b), proofs |-> b.proofs]
              wrapper == BlockWrapper(WrappedBlock(b))
              made == newBlockFromBlockWrapper(wrapper, b.proofs)
              both == [block |-> wrapper, proofs |-> b.proofs]
  <2>1. json = [block_with_signatures |-> inner] /\ inner # None
    BY <1>5 DEF BlockAnswer, Apart, NotAnObject
  <2>2. BlockWithSignatures(inner) = IF wrapper = Thrown THEN Thrown ELSE both BY DEF BlockWithSignatures
  <2>. HIDE DEF inner, json
  <2>3. old = None /\ signed = BlockWithSignatures(inner) BY <2>1 DEF Member, Get
  <2>. HIDE DEF old, signed, result, got
  <2>4. CASE NoLastSwitch(b)
    <3>1. signed = Thrown BY <2>2, <2>3, <2>4, WrappedRefused
    <3>. QED BY <1>2, <1>3, <2>4, <3>1 DEF got
  <2>5. CASE ~NoLastSwitch(b)
    <3>1. /\ BlockTrue(made, b) /\ made.proofs = b.proofs /\ wrapper # Thrown
          /\ made.originBlockV2 = IF b.gen = 1 THEN None ELSE BlockV2(BareBlockV2(b))
      BY <2>5, WrappedRead
    <3>. HIDE DEF wrapper, made
    <3>2. signed = both /\ both # None /\ both # Thrown BY <2>2, <2>3, <3>1 DEF Apart, NotAnObject
    <3>3. result = [blockV1 |-> None, blockWithSignatures |-> both] BY <1>3, <2>3, <3>2 DEF Apart
    <3>4. result # Thrown /\ result.blockV1 = None /\ result.blockWithSignatures = both
      BY <3>3 DEF Apart, NotAnObject
    <3>5. got = made BY <1>2, <3>2, <3>4 DEF newChainGetBlockResultFromV1Compatible, made
    <3>. QED BY <2>5, <3>1, <3>5 DEF got
  <2>. QED BY <2>4, <2>5
<1>. QED BY <1>4, <1>5

(* A block heard of: as it is, without its signatures.                       *)
LEMMA BlockHeard ==
  ASSUME Apart, NEW b, NEW g \in {1, 2}, IsBlock(g, b)
  PROVE  LET got == ReadHeard(g, b)
         IN IF NoLastSwitch(b) THEN got = Thrown ELSE BlockTrue(got, b) /\ got.proofs \in {None, <<>>}
<1>. DEFINE json == BlockAddedJSON(g, b)
            inner == IF g = 1 THEN BareBlockV1(b) ELSE WrappedBlock(b)
            wrapper == BlockWrapper(inner)
            old == BlockV1(inner)
            event == BlockAddedEvent(json)
            got == ReadHeard(g, b)
            Event(block) == [blockHash |-> b.hash, block |-> block]
<1>1. b.gen \in 1..g BY BlockFields
<1>2. json.BlockAdded = [block_hash |-> b.hash, block |-> inner] BY DEF BlockAddedJSON
<1>3. got = IF event = Thrown THEN Thrown ELSE event.block BY DEF ReadHeard
<1>. HIDE DEF json, inner
<1>4. event = IF wrapper # Thrown /\ (wrapper.blockV1 # None \/ wrapper.blockV2 # None)
              THEN Event(newBlockFromBlockWrapper(wrapper, <<>>))
              ELSE IF old # Thrown THEN Event(newBlockFromBlockV1(old)) ELSE Thrown
  BY <1>2 DEF BlockAddedEvent
<1>5. ASSUME NEW block PROVE Event(block) # Thrown /\ Event(block).block = block
  BY DEF Apart, NotAnObject
<1>6. CASE g = 1
  <2>1. b.gen = 1 /\ ~NoLastSwitch(b) BY <1>1, <1>6 DEF NoLastSwitch
  <2>2. inner = BareBlockV1(b) BY <1>6 DEF inner
  <2>3. /\ DOMAIN inner = {"hash", "header", "body"} /\ inner.hash = b.hash
        /\ inner.header = BlockV1HeaderJSON(b) /\ inner.body = BareBlockV1(b).body
    BY <2>2 DEF BareBlockV1
  <2>4. {"hash", "header", "body"} \subseteq DOMAIN inner /\ Get(inner, "proofs") = None
        /\ Get(inner, "Version1") = None /\ Get(inner, "Version2") = None
    BY <2>3 DEF Get
  <2>5. wrapper = [blockV1 |-> None, blockV2 |-> None] BY <2>4 DEF BlockWrapper, Member, Apart
  <2>6. BlockTrue(newBlockFromBlockV1(old), b) /\ newBlockFromBlockV1(old).proofs = None /\ old # Thrown
    BY <2>1, <2>3, <2>4, OldBlockRead
  <2>. HIDE DEF wrapper, got, old, event, Event
  <2>7. wrapper.blockV1 = None /\ wrapper.blockV2 = None BY <2>5
  <2>8. event = Event(newBlockFromBlockV1(old)) BY <1>4, <2>6, <2>7
  <2>9. got = newBlockFromBlockV1(old) BY <1>3, <1>5, <2>8
  <2>. QED BY <2>1, <2>6, <2>9 DEF got
<1>7. CASE g = 2
  <2>1. inner = WrappedBlock(b) BY <1>7 DEF inner
  <2>2. CASE NoLastSwitch(b)
    <3>1. wrapper = Thrown /\ old = Thrown BY <2>1, <2>2, WrappedRefused
    <3>. HIDE DEF wrapper, old, event, got, Event
    <3>. QED BY <1>3, <1>4, <2>2, <3>1 DEF got
  <2>3. CASE ~NoLastSwitch(b)
    <3>. DEFINE made == newBlockFromBlockWrapper(wrapper, <<>>)
    <3>1. /\ BlockTrue(made, b) /\ made.proofs = <<>> /\ wrapper # Thrown
          /\ wrapper.blockV1 # None \/ wrapper.blockV2 # None
      BY <2>1, <2>3, WrappedRead
    <3>. HIDE DEF wrapper, old, event, got, Event, made
    <3>2. event = Event(made) BY <1>4, <3>1 DEF made
    <3>3. got = made BY <1>3, <1>5, <3>2
    <3>. QED BY <2>3, <3>1, <3>3 DEF got
  <2>. QED BY <2>2, <2>3
<1>. QED BY <1>6, <1>7

(* A block is told as it is by the answer and by the event, or refused.      *)
LEMMA BlocksRight == ASSUME Apart PROVE IInv => BlockTold
<1>. SUFFICES ASSUME IInv, NEW a \in Kinded(answers, {"block", "blockAdded"})
     PROVE  LET b == a.about
            IN /\ (a.got = Thrown) = NoLastSwitch(b)
               /\ a.got # Thrown =>
                    /\ a.got.hash = b.hash /\ a.got.height = b.height /\ a.got.common = b.common
                    /\ a.got.proposer = TrueProposer(b)
                    /\ a.got.lastSwitchBlockHash = b.lastSwitch /\ a.got.currentGasPrice = b.gasPrice
                    /\ a.got.rewardedSignatures = b.rewardedSignatures
                    /\ Len(a.got.transactions) = Len(b.txs)
                    /\ \A c \in 0..5 : OfCategory(a.got.transactions, c) = OfCategory(TrueTransactions(b), c)
                    /\ IF b.eraEnd = None THEN a.got.eraEnd = None
                       ELSE a.got.eraEnd = [equivocators |-> b.eraEnd.equivocators,
                                            inactiveValidators |-> b.eraEnd.inactiveValidators,
                                            nextEraValidatorWeights |-> b.eraEnd.weights,
                                            rewards |-> b.eraEnd.rewards, nextEraGasPrice |-> b.eraEnd.gasPrice]
                    /\ a.ask = "block" => a.got.proofs = b.proofs
                    /\ a.ask = "blockAdded" => a.got.proofs \in {None, <<>>}
  BY DEF BlockTold
<1>. DEFINE b == a.about
            got == a.got
            g == a.api
<1>1. a.ask \in {"block", "blockAdded"} /\ g \in {1, 2} /\ RightOfBlock(a) BY DEF Kinded, IInv, Right
<1>2. /\ IsBlock(g, b)
      /\ a.ask = "block" => got = ReadBlock(g, b)
      /\ a.ask = "blockAdded" => got = ReadHeard(g, b)
  BY <1>1 DEF RightOfBlock
<1>. HIDE DEF b, got, g
<1>3. IF NoLastSwitch(b) THEN got = Thrown
      ELSE /\ BlockTrue(got, b) /\ (a.ask = "block" => got.proofs = b.proofs)
           /\ (a.ask = "blockAdded" => got.proofs \in {None, <<>>})
  <2>1. CASE a.ask = "block" BY <1>1, <1>2, <2>1, BlockRead
  <2>2. CASE a.ask = "blockAdded" BY <1>1, <1>2, <2>2, BlockHeard
  <2>. QED BY <1>1, <2>1, <2>2
<1>4. CASE NoLastSwitch(b) BY <1>3, <1>4 DEF b, got
<1>5. CASE ~NoLastSwitch(b)
  <2>0. BlockTrue(got, b) BY <1>3, <1>5
  <2>1. got # Thrown BY <2>0 DEF BlockTrue, Has, Apart, NotAnObject
  <2>2. TrueTransactions(b) = [i \in DOMAIN b.txs |-> TrueTx(b.txs[i])] BY DEF TrueTransactions, TrueTx
  <2>3. /\ Len(got.transactions) = Len(b.txs)
        /\ \A c \in 0..5 : OfCategory(got.transactions, c) = OfCategory(TrueTransactions(b), c)
    BY <2>0, <2>2 DEF BlockTrue, SameFiled
  <2>4. IF b.eraEnd = None THEN got.eraEnd = None
        ELSE got.eraEnd = [equivocators |-> b.eraEnd.equivocators,
                           inactiveValidators |-> b.eraEnd.inactiveValidators,
                           nextEraValidatorWeights |-> b.eraEnd.weights,
                           rewards |-> b.eraEnd.rewards, nextEraGasPrice |-> b.eraEnd.gasPrice]
    BY <2>0 DEF BlockTrue, EndIs, TrueEnd
  <2>5. /\ got.hash = b.hash /\ got.height = b.height /\ got.common = b.common
        /\ got.proposer = TrueProposer(b)
        /\ got.lastSwitchBlockHash = b.lastSwitch /\ got.currentGasPrice = b.gasPrice
        /\ got.rewardedSignatures = b.rewardedSignatures
    BY <2>0 DEF BlockTrue
  <2>6. /\ (a.ask = "block" => got.proofs = b.proofs)
        /\ (a.ask = "blockAdded" => got.proofs \in {None, <<>>})
    BY <1>3, <1>5
  <2>7. (got = Thrown) = NoLastSwitch(b) BY <1>5, <2>1 DEF NoLastSwitch
  <2>. QED BY <2>3, <2>4, <2>5, <2>6, <2>7, Zenon DEF b, got
<1>. QED BY <1>4, <1>5

-----------------------------------------------------------------------------
(* A block kept as JSON *)

(* A set of positions that is not empty has a last one.                      *)
LEMMA LastPosition ==
  ASSUME NEW n \in Nat, NEW I, I \subseteq 1..n, I # {}
  PROVE  Max(I) \in I /\ \A i \in I : i <= Max(I)
<1>. DEFINE P == {m \in Nat : \A J : J \subseteq 1..m /\ J # {} => \E x \in J : \A y \in J : x >= y}
<1>1. 0 \in P OBVIOUS
<1>2. ASSUME NEW m \in Nat, m \in P PROVE m + 1 \in P
  <2>1. SUFFICES ASSUME NEW J, J \subseteq 1..(m + 1), J # {} PROVE \E x \in J : \A y \in J : x >= y
    OBVIOUS
  <2>2. CASE m + 1 \in J BY <2>1, <2>2
  <2>3. CASE m + 1 \notin J
    <3>1. J \subseteq 1..m BY <2>1, <2>3
    <3>. QED BY <1>2, <2>1, <3>1
  <2>. QED BY <2>2, <2>3
<1>. HIDE DEF P
<1>3. Nat \subseteq P BY <1>1, <1>2, NaturalInduction
<1>4. \E x \in I : \A y \in I : x >= y BY <1>3 DEF P
<1>5. I \subseteq Nat OBVIOUS
<1>. QED BY <1>4, <1>5 DEF Max

(* The last of each category is what a block's JSON keeps of it.             *)
LEMMA LatestKept ==
  ASSUME NEW s, IsList(s), NEW c
  PROVE  LET json == BlockTransactionsJSON(s)
             mine == OfCategory(s, c)
         IN IF c \in DOMAIN json
            THEN /\ mine # <<>> /\ Last(mine) \in ToSet(s) /\ Last(mine).category = c
                 /\ json[c] = <<Only(Last(mine).version, Last(mine).hash)>>
            ELSE mine = <<>>
<1>. DEFINE json == BlockTransactionsJSON(s)
            mine == OfCategory(s, c)
            T == ToSet(s)
            written == [i \in DOMAIN s |-> BlockTransactionJSON(s[i])]
            I == {i \in 1..Len(written) : written[i].category = c}
            R == Filed(T, c)
<1>1. s \in Seq(T) /\ DOMAIN s = 1..Len(s) /\ Len(s) \in Nat BY DEF IsList
<1>2. /\ DOMAIN written = DOMAIN s /\ Len(written) = Len(s)
      /\ \A i \in DOMAIN s : /\ written[i].category = s[i].category
                             /\ written[i].hash = Only(s[i].version, s[i].hash)
  BY <1>1 DEF BlockTransactionJSON
<1>3. /\ DOMAIN json = {written[i].category : i \in DOMAIN written}
      /\ c \in DOMAIN json => json[c] = <<written[SelectLastInSeq(written, LAMBDA tx : tx.category = c)].hash>>
  BY DEF BlockTransactionsJSON
<1>4. SelectLastInSeq(written, LAMBDA tx : tx.category = c) = IF I # {} THEN Max(I) ELSE 0
  BY DEF SelectLastInSeq
<1>. HIDE DEF written, json
<1>5. I = {i \in DOMAIN s : s[i].category = c} BY <1>1, <1>2
<1>. HIDE DEF I
<1>6. mine = Among(s, R)
  <2>. HIDE DEF T
  <2>. QED BY <1>1, OfCategoryIs
<1>7. CASE c \in DOMAIN json
  <2>. DEFINE j == Max(I)
  <2>1. I # {}
    <3>1. PICK i \in DOMAIN written : c = written[i].category BY <1>3, <1>7
    <3>. QED BY <1>2, <1>5, <3>1
  <2>2. j \in I /\ \A i \in I : i <= j
    <3>1. I \subseteq 1..Len(s) BY <1>1, <1>5
    <3>. QED BY <1>1, <2>1, <3>1, LastPosition
  <2>. HIDE DEF j
  <2>3. j \in DOMAIN s /\ s[j].category = c /\ s[j] \in T BY <1>5, <2>2 DEF ToSet
  <2>4. s[j] \in R /\ \A i \in DOMAIN s : s[i] \in R => i <= j BY <1>5, <2>2, <2>3 DEF Filed
  <2>. HIDE DEF T, R, mine
  <2>5. mine # <<>> /\ Last(mine) = s[j] BY <1>1, <1>6, <2>3, <2>4, LastAmong DEF Last
  <2>6. json[c] = <<written[j].hash>> BY <1>3, <1>4, <1>7, <2>1 DEF j
  <2>. QED BY <1>2, <1>7, <2>3, <2>5, <2>6 DEF json, mine, T
<1>8. CASE c \notin DOMAIN json
  <2>1. \A i \in DOMAIN s : s[i] \notin R BY <1>2, <1>3, <1>8 DEF Filed
  <2>. HIDE DEF T, R, mine
  <2>2. mine = <<>> BY <1>1, <1>6, <2>1, AmongNone
  <2>. QED BY <1>8, <2>2 DEF json, mine
<1>. QED BY <1>7, <1>8

(* One hash, written under the name of its version, read.                    *)
LEMMA WrittenHashRead ==
  ASSUME Apart, NEW version \in {"Deploy", "V1"}, NEW hash, hash # None, NEW c
  PROVE  getBlockTransactionsFromTransactionHashes(Each(<<Only(version, hash)>>, TransactionHash), c)
           = IF version = "V1" THEN Thrown ELSE <<BlockTransaction(c, "Deploy", hash)>>
<1>. DEFINE told == TransactionHash(Only(version, hash))
            Made(h) == IF h.transactionV1 # None THEN BlockTransaction(c, "V1", h.transactionV1)
                       ELSE IF h.deploy # None THEN BlockTransaction(c, "Deploy", h.deploy)
                       ELSE Thrown
<1>1. told = [deploy |-> IF version = "Deploy" THEN hash ELSE None, transactionV1 |-> None]
  BY DEF TransactionHash, Only, Get
<1>2. told # Thrown BY <1>1 DEF Apart, NotAnObject
<1>3. Each(<<Only(version, hash)>>, TransactionHash) = <<told>>
  <2>. DEFINE arr == <<Only(version, hash)>>
  <2>1. DOMAIN arr = {1} /\ arr[1] = Only(version, hash) OBVIOUS
  <2>. HIDE DEF arr
  <2>2. Each(arr, TransactionHash) = [i \in DOMAIN arr |-> TransactionHash(arr[i])]
    BY <1>2, <2>1 DEF Each
  <2>3. [i \in DOMAIN arr |-> TransactionHash(arr[i])] = [i \in {1} |-> told] BY <2>1
  <2>4. [i \in {1} |-> told] = <<told>> OBVIOUS
  <2>. QED BY <2>2, <2>3, <2>4 DEF arr
<1>. HIDE DEF told
<1>4. Made(told) = IF version = "V1" THEN Thrown ELSE BlockTransaction(c, "Deploy", hash) BY <1>1
<1>5. getBlockTransactionsFromTransactionHashes(<<told>>, c) = Each(<<told>>, Made)
  BY DEF getBlockTransactionsFromTransactionHashes
<1>6. BlockTransaction(c, "Deploy", hash) # Thrown BY DEF BlockTransaction, Apart, NotAnObject
<1>7. Each(<<told>>, Made) = IF version = "V1" THEN Thrown ELSE <<BlockTransaction(c, "Deploy", hash)>>
  <2>. DEFINE arr == <<told>>
  <2>1. DOMAIN arr = {1} /\ arr[1] = told OBVIOUS
  <2>. HIDE DEF arr, Made
  <2>2. CASE version = "V1"
    <3>1. \E i \in DOMAIN arr : Made(arr[i]) = Thrown BY <1>4, <2>1, <2>2
    <3>. QED BY <2>2, <3>1 DEF Each, arr
  <2>3. CASE version # "V1"
    <3>. DEFINE tx == BlockTransaction(c, "Deploy", hash)
    <3>. HIDE DEF tx
    <3>1. Made(told) = tx /\ tx # Thrown BY <1>4, <1>6, <2>3 DEF tx
    <3>2. Each(arr, Made) = [i \in DOMAIN arr |-> Made(arr[i])] BY <2>1, <3>1 DEF Each
    <3>3. [i \in DOMAIN arr |-> Made(arr[i])] = [i \in {1} |-> tx] BY <2>1, <3>1
    <3>4. [i \in {1} |-> tx] = <<tx>> OBVIOUS
    <3>. QED BY <2>3, <3>2, <3>3, <3>4 DEF arr, tx
  <2>. QED BY <2>2, <2>3
<1>. QED BY <1>3, <1>5, <1>7

(* What a category's last transaction reads as, and what stays of the rest.  *)
KeptOf(s, c) == IF OfCategory(s, c) = <<>> THEN <<>> ELSE <<Last(OfCategory(s, c))>>
Present(s) == {c \in 0..5 : OfCategory(s, c) # <<>>}

(* The transactions written and read back: the last of each category, or     *)
(* nothing at all when one of those is a V1 transaction.                     *)
LEMMA KeptTransactions ==
  ASSUME Apart, NEW s, IsList(s), \A t \in ToSet(s) : t = TrueTx(t) /\ IsTx(t)
  PROVE  LET got == BlockTransactionFromJSON(BlockTransactionsJSON(s))
         IN IF \E c \in Present(s) : Last(OfCategory(s, c)).version = "V1" THEN got = Thrown
            ELSE /\ got # Thrown
                 /\ \A t \in ToSet(got) : t.category \in Present(s)
                 /\ \A c \in Present(s) : OfCategory(got, c) = <<Last(OfCategory(s, c))>>
<1>. DEFINE data == BlockTransactionsJSON(s)
            U == ToSet(s)
            mine(c) == OfCategory(s, c)
            F(c) == IF c \in DOMAIN data
                    THEN getBlockTransactionsFromTransactionHashes(Each(data[c], TransactionHash), c) ELSE <<>>
            read == [c \in 1..6 |-> F(c - 1)]
            got == BlockTransactionFromJSON(data)
<1>1. got = IF \E c \in 1..6 : read[c] = Thrown THEN Thrown ELSE FlattenSeq(read)
  BY DEF BlockTransactionFromJSON
<1>2. ASSUME NEW c \in 0..5
      PROVE  /\ mine(c) # <<>> => Last(mine(c)) \in U /\ Last(mine(c)).category = c
             /\ F(c) = IF mine(c) # <<>> /\ Last(mine(c)).version = "V1" THEN Thrown ELSE KeptOf(s, c)
  <2>. DEFINE m == mine(c)
              last == Last(m)
  <2>1. IF c \in DOMAIN data
        THEN /\ m # <<>> /\ last \in U /\ last.category = c
             /\ data[c] = <<Only(last.version, last.hash)>>
        ELSE m = <<>>
    BY LatestKept
  <2>2. KeptOf(s, c) = IF m = <<>> THEN <<>> ELSE <<last>> BY DEF KeptOf
  <2>. HIDE DEF m, last, data
  <2>3. CASE c \in DOMAIN data
    <3>1. last.version \in {"Deploy", "V1"} /\ last.hash # None /\ last = TrueTx(last)
      BY <2>1, <2>3 DEF IsTx
    <3>2. F(c) = IF last.version = "V1" THEN Thrown ELSE <<BlockTransaction(c, "Deploy", last.hash)>>
      BY <2>1, <2>3, <3>1, WrittenHashRead
    <3>3. last.version # "V1" => BlockTransaction(c, "Deploy", last.hash) = last
      BY <2>1, <2>3, <3>1 DEF BlockTransaction, TrueTx
    <3>. HIDE DEF F
    <3>. QED BY <2>1, <2>2, <2>3, <3>2, <3>3 DEF m, last
  <2>4. CASE c \notin DOMAIN data
    <3>1. m = <<>> /\ F(c) = <<>> BY <2>1, <2>4
    <3>. HIDE DEF F
    <3>. QED BY <2>2, <3>1 DEF m, last
  <2>. QED BY <2>3, <2>4
<1>3. ASSUME NEW c \in 0..5 PROVE KeptOf(s, c) \in Seq(U) /\ KeptOf(s, c) # Thrown
                                  /\ \A m \in DOMAIN KeptOf(s, c) : KeptOf(s, c)[m].category = c
  <2>. DEFINE last == Last(mine(c))
              kept == KeptOf(s, c)
  <2>1. kept = IF mine(c) = <<>> THEN <<>> ELSE <<last>> BY DEF KeptOf
  <2>2. mine(c) # <<>> => last \in U /\ last.category = c BY <1>2
  <2>. HIDE DEF last, kept, U, mine
  <2>3. kept \in Seq(U) /\ \A m \in DOMAIN kept : kept[m].category = c BY <2>1, <2>2
  <2>4. kept = [m \in DOMAIN kept |-> kept[m]] BY <2>3
  <2>5. kept # Thrown BY <2>4 DEF Apart, NotAnObject
  <2>. QED BY <2>3, <2>5 DEF kept
<1>4. \A c \in Present(s) : c \in 0..5 /\ mine(c) # <<>> BY DEF Present
<1>5. \A c \in 0..5 : mine(c) # <<>> => c \in Present(s) BY DEF Present
<1>6. Has(read, 1..6) /\ \A c \in 1..6 : read[c] = F(c - 1) BY DEF Has
<1>. HIDE DEF data, U, F, read, got
<1>7. CASE \E c \in Present(s) : Last(OfCategory(s, c)).version = "V1"
  <2>1. PICK c \in Present(s) : Last(mine(c)).version = "V1" BY <1>7
  <2>2. c \in 0..5 /\ mine(c) # <<>> BY <1>4
  <2>3. F(c) = Thrown BY <1>2, <2>1, <2>2
  <2>4. c + 1 \in 1..6 /\ read[c + 1] = Thrown
    <3>1. c + 1 \in 1..6 /\ (c + 1) - 1 = c BY <2>2
    <3>. QED BY <1>6, <2>3, <3>1
  <2>5. got = Thrown BY <1>1, <2>4
  <2>. QED BY <1>7, <2>5 DEF got, data
<1>8. CASE ~\E c \in Present(s) : Last(OfCategory(s, c)).version = "V1"
  <2>1. ASSUME NEW c \in 0..5 PROVE F(c) = KeptOf(s, c)
    BY <1>2, <1>5, <1>8
  <2>2. ASSUME NEW i \in 1..6
        PROVE  /\ read[i] = KeptOf(s, i - 1) /\ read[i] \in Seq(U) /\ read[i] # Thrown
               /\ \A m \in DOMAIN read[i] : read[i][m].category = i - 1
    <3>1. i - 1 \in 0..5 /\ read[i] = F(i - 1) BY <1>6
    <3>. QED BY <1>3, <2>1, <3>1
  <2>3. got = FlattenSeq(read) BY <1>1, <2>2
  <2>4. read \in Seq(Seq(U)) /\ Len(read) = 6 /\ DOMAIN read = 1..6
    BY <1>6, <2>2, SixLists
  <2>5. ASSUME NEW c \in Present(s) PROVE OfCategory(got, c) = <<Last(OfCategory(s, c))>>
    <3>1. c \in 0..5 /\ mine(c) # <<>> BY <1>4
    <3>2. OfCategory(FlattenSeq(read), c) = read[c + 1] BY <2>2, <2>4, <3>1, PartsFiled
    <3>3. c + 1 \in 1..6 /\ (c + 1) - 1 = c BY <3>1
    <3>4. read[c + 1] = KeptOf(s, c) BY <2>2, <3>3
    <3>. QED BY <2>3, <3>1, <3>2, <3>4 DEF KeptOf
  <2>6. ASSUME NEW t \in ToSet(got) PROVE t.category \in Present(s)
    <3>1. ToSet(got) = UNION {ToSet(read[i]) : i \in DOMAIN read} BY <2>3, <2>4, FlattenRange
    <3>2. PICK i \in 1..6 : t \in ToSet(read[i]) BY <2>4, <3>1
    <3>3. PICK m \in DOMAIN read[i] : t = read[i][m] BY <3>2 DEF ToSet
    <3>4. t.category = i - 1 /\ i - 1 \in 0..5 BY <2>2, <3>3
    <3>5. mine(i - 1) # <<>>
      <4>1. read[i] = KeptOf(s, i - 1) BY <2>2
      <4>2. KeptOf(s, i - 1) # <<>> BY <3>3, <4>1
      <4>. QED BY <4>2 DEF KeptOf
    <3>. QED BY <1>5, <3>4, <3>5
  <2>7. got # Thrown
    <3>1. got \in Seq(U) BY <2>3, <2>4, FlattenType
    <3>2. got = [i \in DOMAIN got |-> got[i]] BY <3>1
    <3>. QED BY <3>2 DEF Apart, NotAnObject
  <2>. QED BY <1>8, <2>5, <2>6, <2>7 DEF got, data
<1>. QED BY <1>7, <1>8

(* The end of an era in a kept block, written and read back.                 *)
KeptEndJSON(end) ==
    [equivocators |-> end.equivocators, inactive_validators |-> end.inactiveValidators,
     next_era_validator_weights |-> end.nextEraValidatorWeights,
     rewards |-> serializeRewards(end.rewards), next_era_gas_price |-> end.nextEraGasPrice]

LEMMA KeptEndRead ==
  ASSUME Apart, NEW end, IsEraEnd(2, end)
  PROVE  LET json == KeptEndJSON(TrueEnd(end))
         IN json # None /\ EraEndV2(json) # Thrown /\ EraEndV2(json).rewards = end.rewards
<1>. DEFINE r == end.rewards
            json == KeptEndJSON(TrueEnd(end))
            read == EraEndV2(json)
<1>1. Has(r, DOMAIN r) /\ IsFiniteSet(DOMAIN r) BY DEF IsEraEnd
<1>2. TrueEnd(end).rewards = r BY DEF TrueEnd
<1>. HIDE DEF r
<1>3. json.rewards = serializeRewards(r) /\ json # None BY <1>2 DEF KeptEndJSON, Apart, NotAnObject
<1>. HIDE DEF json
<1>4. deserializeRewards(json.rewards) = r /\ r # Thrown
  BY <1>1, <1>3, RewardsRead DEF Has, Apart, NotAnObject
<1>5. read = [equivocators |-> json.equivocators, inactiveValidators |-> json.inactive_validators,
              nextEraValidatorWeights |-> json.next_era_validator_weights, rewards |-> r,
              nextEraGasPrice |-> json.next_era_gas_price]
  BY <1>4 DEF EraEndV2
<1>. HIDE DEF read
<1>6. read # Thrown /\ read.rewards = r BY <1>5 DEF Apart, NotAnObject
<1>. QED BY <1>3, <1>6 DEF json, read, r

(* The header of a kept block, written and read back.                        *)
LEMMA KeptHeaderRead ==
  ASSUME Apart, NEW b, NEW g \in {1, 2}, IsBlock(g, b), b.gen = 2, b.lastSwitch # None, NEW block,
         block.header = BlockHeaderV2(BlockV2HeaderJSON(b))
  PROVE  LET header == BlockHeaderV2(BlockV2JSON(block).header)
             end == Member(header, "eraEnd", EraEndFromV2)
         IN /\ header # Thrown /\ header.proposer = TrueProposer(b)
            /\ b.eraEnd # None => end.rewards = b.eraEnd.rewards
<1>. DEFINE was == block.header
            json == BlockV2JSON(block).header
            header == BlockHeaderV2(json)
            end == Member(header, "eraEnd", EraEndFromV2)
<1>1. TrueHeader(was, b) /\ EndIs(was.eraEnd, b) BY NewHeaderRead
<1>2. json = [common |-> was.common, height |-> was.height, current_gas_price |-> was.currentGasPrice,
              proposer |-> ProposerJSON(was.proposer), last_switch_block_hash |-> was.lastSwitchBlockHash,
              era_end |-> Member(was, "eraEnd", KeptEndJSON)]
  BY DEF BlockV2JSON, KeptEndJSON
<1>3. b.proposer # "00" /\ (b.eraEnd = None \/ IsEraEnd(2, b.eraEnd)) BY BlockOfFact
<1>4. Proposer(ProposerJSON(was.proposer)) = TrueProposer(b)
  BY <1>1, <1>3, ProposerRead DEF TrueHeader
<1>5. "eraEnd" \in DOMAIN was /\ was.lastSwitchBlockHash # None BY <1>1 DEF TrueHeader, Has
<1>. DEFINE wrote == Member(was, "eraEnd", KeptEndJSON)
            read == Member(json, "era_end", EraEndV2)
<1>6. wrote = IF was.eraEnd = None THEN None ELSE KeptEndJSON(was.eraEnd) BY <1>5 DEF Member, Get
<1>. HIDE DEF was
<1>7. /\ json.proposer = ProposerJSON(was.proposer) /\ "era_end" \in DOMAIN json /\ json.era_end = wrote
      /\ json.last_switch_block_hash # None
  BY <1>2, <1>5
<1>. HIDE DEF json, wrote
<1>8. read = IF wrote = None THEN None ELSE EraEndV2(wrote) BY <1>7 DEF Member, Get
<1>. HIDE DEF read
<1>9. read # Thrown /\ (b.eraEnd # None => read.rewards = b.eraEnd.rewards)
  <2>1. CASE b.eraEnd = None
    <3>1. was.eraEnd = None BY <1>1, <2>1 DEF EndIs
    <3>. QED BY <1>6, <1>8, <2>1, <3>1 DEF Apart
  <2>2. CASE b.eraEnd # None
    <3>. DEFINE e == b.eraEnd
                w == KeptEndJSON(TrueEnd(e))
    <3>1. was.eraEnd = TrueEnd(e) /\ TrueEnd(e) # None BY <1>1, <2>2 DEF EndIs, TrueEnd, Apart, NotAnObject
    <3>2. w # None /\ EraEndV2(w) # Thrown /\ EraEndV2(w).rewards = e.rewards BY <1>3, <2>2, KeptEndRead
    <3>. HIDE DEF w, e
    <3>3. wrote = w BY <1>6, <3>1 DEF w
    <3>4. read = EraEndV2(w) BY <1>8, <3>2, <3>3
    <3>. QED BY <3>2, <3>4 DEF e
  <2>. QED BY <2>1, <2>2
<1>10. header = [common |-> json.common, height |-> json.height, currentGasPrice |-> json.current_gas_price,
                 proposer |-> Proposer(json.proposer), lastSwitchBlockHash |-> json.last_switch_block_hash,
                 eraEnd |-> read]
  BY <1>7, <1>9 DEF BlockHeaderV2, read
<1>. HIDE DEF header
<1>11. header # Thrown /\ header.proposer = TrueProposer(b) /\ "eraEnd" \in DOMAIN header /\ header.eraEnd = read
  <2>1. header # Thrown BY <1>10 DEF Apart, NotAnObject
  <2>. QED BY <1>4, <1>7, <1>10, <2>1
<1>12. end = read BY <1>11 DEF Member, Get, EraEndFromV2
<1>. QED BY <1>9, <1>11, <1>12 DEF header, json

(* A block kept as JSON is read back as far as it was written.               *)
LEMMA KeptRead ==
  ASSUME Apart, NEW b, NEW g \in {1, 2}, IsBlock(g, b), ReadBlock(g, b) # Thrown,
         ReadBlock(g, b).originBlockV2 # None
  PROVE  LET got == ReadKept(ReadBlock(g, b))
             s == BlockV2(BareBlockV2(b)).body.transactions
             txs == BlockTransactionFromJSON(BlockTransactionsJSON(s))
         IN /\ SameFiled(s, b.txs)
            /\ txs = Thrown => got = Thrown
            /\ txs # Thrown =>
                 /\ got.transactions = txs /\ got.hash = b.hash /\ got.proposer = TrueProposer(b)
                 /\ b.eraEnd # None => got.eraEnd.rewards = b.eraEnd.rewards
<1>. DEFINE read == ReadBlock(g, b)
            block == BlockV2(BareBlockV2(b))
            json == BlockV2JSON(block)
            again == BlockV2(json)
            header == BlockHeaderV2(json.header)
            got == ReadKept(read)
            s == block.body.transactions
            txs == BlockTransactionFromJSON(BlockTransactionsJSON(s))
            end == Member(header, "eraEnd", EraEndFromV2)
            made == newBlockFromBlockV2(again, read.proofs)
<1>1. b.gen = 2 /\ b.lastSwitch # None /\ read.originBlockV2 = block
  <2>1. b.gen \in 1..g BY BlockFields
  <2>2. IF NoLastSwitch(b) THEN read = Thrown ELSE read.originBlockV2 = IF b.gen = 1 THEN None ELSE block
    BY BlockRead
  <2>. HIDE DEF read, block
  <2>. QED BY <2>1, <2>2 DEF read, NoLastSwitch
<1>2. /\ block = [hash |-> b.hash, header |-> BlockHeaderV2(BlockV2HeaderJSON(b)),
                  body |-> [transactions |-> s, rewardedSignatures |-> b.rewardedSignatures]]
      /\ SameFiled(s, b.txs)
  BY <1>1, NewBlockRead
<1>. HIDE DEF block
<1>3. block.header = BlockHeaderV2(BlockV2HeaderJSON(b)) /\ block.hash = b.hash BY <1>2
<1>4. header # Thrown /\ header.proposer = TrueProposer(b) /\ (b.eraEnd # None => end.rewards = b.eraEnd.rewards)
  BY <1>1, <1>3, KeptHeaderRead
<1>5. json.hash = b.hash /\ json.body.transactions = BlockTransactionsJSON(s)
  BY <1>3 DEF BlockV2JSON
<1>6. got = IF again = Thrown THEN Thrown ELSE made BY <1>1 DEF ReadKept
<1>. DEFINE body == [transactions |-> txs, rewardedSignatures |-> json.body.rewarded_signatures]
            whole == [hash |-> b.hash, header |-> header, body |-> body]
<1>. HIDE DEF json, header, txs
<1>7. BlockBodyV2(json.body) = IF txs = Thrown THEN Thrown ELSE body
  BY <1>5 DEF BlockBodyV2, txs
<1>8. CASE txs = Thrown
  <2>1. again = Thrown BY <1>7, <1>8 DEF BlockV2
  <2>. HIDE DEF again, got, made
  <2>2. got = Thrown BY <1>6, <2>1
  <2>. QED BY <1>2, <1>8, <2>2 DEF got, read, s, block, txs
<1>9. CASE txs # Thrown
  <2>1. BlockBodyV2(json.body) = body /\ body # Thrown BY <1>7, <1>9 DEF Apart, NotAnObject
  <2>2. body.transactions = txs OBVIOUS
  <2>. HIDE DEF body
  <2>3. again = whole BY <1>4, <1>5, <2>1 DEF BlockV2, header
  <2>4. whole # Thrown BY DEF Apart, NotAnObject
  <2>. HIDE DEF again, got, made
  <2>5. again.hash = b.hash /\ again.header = header /\ again.body.transactions = txs
    BY <2>2, <2>3
  <2>. HIDE DEF whole
  <2>6. got = made BY <1>6, <2>3, <2>4
  <2>. DEFINE first == [lastSwitchBlockHash |-> again.header.lastSwitchBlockHash,
                        currentGasPrice |-> again.header.currentGasPrice,
                        rewardedSignatures |-> again.body.rewardedSignatures,
                        eraEnd |-> Member(again.header, "eraEnd", EraEndFromV2), originBlockV2 |-> again]
              second == Block(again, again.header.proposer, again.body.transactions, read.proofs)
  <2>. HIDE DEF read, end
  <2>7. got = Merged(first, second) BY <2>6 DEF made, newBlockFromBlockV2
  <2>8. second.hash = b.hash /\ second.proposer = header.proposer /\ second.transactions = txs
        /\ DOMAIN second = {"hash", "height", "common", "proposer", "transactions", "proofs"}
    BY <2>5 DEF Block
  <2>9. /\ DOMAIN first = {"lastSwitchBlockHash", "currentGasPrice", "rewardedSignatures", "eraEnd", "originBlockV2"}
        /\ first.eraEnd = end
    BY <2>5 DEF end
  <2>. HIDE DEF first, second
  <2>10. got.hash = b.hash /\ got.proposer = header.proposer /\ got.transactions = txs /\ got.eraEnd = end
    BY <2>7, <2>8, <2>9 DEF Merged
  <2>. QED BY <1>2, <1>4, <1>9, <2>10 DEF got, read, s, block, txs, header
<1>. QED BY <1>8, <1>9

(* What is kept of a block reads back, or it is not readable any more.       *)
LEMMA KeptRight == ASSUME Apart PROVE IInv => KeptReadsBack
<1>. SUFFICES ASSUME IInv, NEW a \in Kinded(answers, {"kept"})
     PROVE  LET Mine(c) == OfCategory(TrueTransactions(a.about), c)
                categories == {c \in 0..5 : Mine(c) # <<>>}
            IN IF \E c \in categories : Last(Mine(c)).version = "V1" THEN a.got = Thrown
               ELSE /\ \A t \in ToSet(a.got.transactions) : t.category \in categories
                    /\ \A c \in categories : OfCategory(a.got.transactions, c) = <<Last(Mine(c))>>
                    /\ a.got.hash = a.about.hash /\ a.got.proposer = TrueProposer(a.about)
                    /\ a.about.eraEnd # None => a.got.eraEnd.rewards = a.about.eraEnd.rewards
  BY DEF KeptReadsBack
<1>. DEFINE b == a.about
            got == a.got
            s == BlockV2(BareBlockV2(b)).body.transactions
            Mine(c) == OfCategory(TrueTransactions(b), c)
            categories == {c \in 0..5 : Mine(c) # <<>>}
            kept == BlockTransactionFromJSON(BlockTransactionsJSON(s))
<1>1. a.ask = "kept" /\ RightOfBlock(a) BY DEF Kinded, IInv, Right
<1>2. PICK g \in {1, 2} :
        LET read == ReadBlock(g, a.about)
        IN IsBlock(g, a.about) /\ read # Thrown /\ read.originBlockV2 # None /\ a.got = ReadKept(read)
  BY <1>1 DEF RightOfBlock
<1>3. /\ SameFiled(s, b.txs)
      /\ kept = Thrown => got = Thrown
      /\ kept # Thrown =>
           /\ got.transactions = kept /\ got.hash = b.hash /\ got.proposer = TrueProposer(b)
           /\ b.eraEnd # None => got.eraEnd.rewards = b.eraEnd.rewards
  BY <1>2, KeptRead
<1>. HIDE DEF b, got, s
<1>4. TrueTransactions(b) = [i \in DOMAIN b.txs |-> TrueTx(b.txs[i])] BY DEF TrueTransactions, TrueTx
<1>5. IsList(s) /\ (\A t \in ToSet(s) : t = TrueTx(t) /\ IsTx(t))
      /\ \A c \in 0..5 : OfCategory(s, c) = Mine(c)
  BY <1>3, <1>4 DEF SameFiled
<1>6. IF \E c \in Present(s) : Last(OfCategory(s, c)).version = "V1" THEN kept = Thrown
      ELSE /\ kept # Thrown
           /\ \A t \in ToSet(kept) : t.category \in Present(s)
           /\ \A c \in Present(s) : OfCategory(kept, c) = <<Last(OfCategory(s, c))>>
  BY <1>5, KeptTransactions
<1>. HIDE DEF Mine, kept
<1>7. Present(s) = categories /\ \A c \in categories : OfCategory(s, c) = Mine(c) BY <1>5 DEF Present
<1>. HIDE DEF categories
<1>8. IF \E c \in categories : Last(Mine(c)).version = "V1" THEN kept = Thrown
      ELSE /\ kept # Thrown
           /\ \A t \in ToSet(kept) : t.category \in categories
           /\ \A c \in categories : OfCategory(kept, c) = <<Last(Mine(c))>>
  BY <1>6, <1>7
<1>. QED BY <1>3, <1>8 DEF b, got, Mine, categories

-----------------------------------------------------------------------------
(* What the checked invariants state *)

(* A list has finitely many positions.                                       *)
LEMMA FiniteList == ASSUME NEW n \in Nat, NEW s, DOMAIN s = 1..n PROVE IsFiniteSet(DOMAIN s)
  BY FS_Interval

(* The lists of an outcome.                                                  *)
LEMMA OutcomeLists ==
  ASSUME Apart, NEW gen \in {1, 2}, NEW t, IsTransaction(gen, t), NEW who
  PROVE  /\ IsFiniteSet(DOMAIN Outcome(gen, t, who).effects)
         /\ IsFiniteSet(DOMAIN Outcome(gen, t, who).transfers)
<1>. DEFINE effects == Outcome(gen, t, who).effects
            transfers == Outcome(gen, t, who).transfers
<1>1. /\ DOMAIN t.effects = 1..Len(t.effects) /\ Len(t.effects) \in Nat
      /\ DOMAIN t.transfers = 1..Len(t.transfers) /\ Len(t.transfers) \in Nat
  BY DEF IsTransaction, IsList
<1>2. IsFiniteSet(DOMAIN effects)
  <2>1. CASE gen = 2
    <3>1. effects = Effects2(t) BY <2>1 DEF Outcome
    <3>2. DOMAIN effects = 1..Len(t.effects) BY <1>1, <3>1 DEF Effects2
    <3>. HIDE DEF effects
    <3>. QED BY <1>1, <3>2, FiniteList
  <2>2. CASE gen = 1
    <3>. DEFINE own == EffectsV1JSON(t)
                more == IF t.error = None THEN TransferWrites(t) ELSE <<>>
    <3>1. effects = Effects1(t) BY <2>2 DEF Outcome
    <3>2. Transforms1(t) = own \o more BY DEF Transforms1
    <3>3. Len(own) \in Nat BY <1>1 DEF EffectsV1JSON
    <3>4. Len(more) \in Nat BY <1>1 DEF TransferWrites
    <3>. HIDE DEF own, more
    <3>5. DOMAIN (own \o more) = 1..(Len(own) + Len(more)) BY <3>3, <3>4
    <3>6. DOMAIN effects = 1..(Len(own) + Len(more)) BY <3>1, <3>2, <3>5 DEF Effects1
    <3>7. Len(own) + Len(more) \in Nat BY <3>3, <3>4
    <3>. HIDE DEF effects
    <3>. QED BY <3>6, <3>7, FiniteList
  <2>. QED BY <2>1, <2>2
<1>3. IsFiniteSet(DOMAIN transfers)
  <2>1. transfers = IF t.error = None THEN TrueTransfers(gen, t) ELSE <<>> BY TransfersOfOutcome
  <2>. HIDE DEF transfers
  <2>2. CASE t.error = None
    <3>1. DOMAIN transfers = 1..Len(t.transfers) BY <1>1, <2>1, <2>2 DEF TrueTransfers
    <3>. QED BY <1>1, <3>1, FiniteList
  <2>3. CASE t.error # None
    <3>1. DOMAIN transfers = 1..0 BY <2>1, <2>3
    <3>. QED BY <3>1, FiniteList
  <2>. QED BY <2>2, <2>3
<1>. QED BY <1>2, <1>3

(* The blocks that are told have a height and categories that exist.         *)
LEMMA BlockTypes ==
  ASSUME Apart, NEW b, NEW g \in {1, 2}, IsBlock(g, b), NEW got, BlockTrue(got, b)
  PROVE  got.height \in 1..MaxBlocks /\ \A t \in ToSet(got.transactions) : t.category \in 0..5
<1>1. got.height = b.height /\ SameFiled(got.transactions, b.txs) BY DEF BlockTrue
<1>2. b.height \in 1..MaxBlocks BY BlockFields
<1>3. \A t \in ToSet(got.transactions) : t = TrueTx(t) /\ IsTx(t) BY <1>1 DEF SameFiled
<1>. QED BY <1>1, <1>2, <1>3 DEF IsTx

(* Everything told has the type of its class.                                *)
LEMMA TypesRight == ASSUME Apart PROVE IInv => TypeOK
<1>. SUFFICES ASSUME IInv PROVE TypeOK OBVIOUS
<1>1. api \in {1, 2} /\ Len(chain) <= MaxBlocks BY DEF IInv
<1>2. ASSUME NEW a \in Kinded(answers, {"block", "blockAdded"}), a.got # Thrown
      PROVE  a.got.height \in 1..MaxBlocks /\ \A t \in ToSet(a.got.transactions) : t.category \in 0..5
  <2>. DEFINE b == a.about
              got == a.got
              g == a.api
  <2>1. a.ask \in {"block", "blockAdded"} /\ g \in {1, 2} /\ RightOfBlock(a) BY DEF Kinded, IInv, Right
  <2>2. /\ IsBlock(g, b)
        /\ a.ask = "block" => got = ReadBlock(g, b)
        /\ a.ask = "blockAdded" => got = ReadHeard(g, b)
    BY <2>1 DEF RightOfBlock
  <2>3. got # Thrown BY <1>2
  <2>. HIDE DEF b, got, g
  <2>4. BlockTrue(got, b)
    <3>1. CASE a.ask = "block" BY <2>1, <2>2, <2>3, <3>1, BlockRead
    <3>2. CASE a.ask = "blockAdded" BY <2>1, <2>2, <2>3, <3>2, BlockHeard
    <3>. QED BY <2>1, <3>1, <3>2
  <2>5. got.height \in 1..MaxBlocks /\ \A t \in ToSet(got.transactions) : t.category \in 0..5
    BY <2>1, <2>2, <2>4, BlockTypes
  <2>. QED BY <2>5 DEF got
<1>3. ASSUME NEW o \in Outcomes
      PROVE  /\ o.info # None => o.info.blockHeight \in 0..MaxBlocks
             /\ IsFiniteSet(DOMAIN o.result.effects) /\ IsFiniteSet(DOMAIN o.result.transfers)
  <2>. DEFINE k == o.about
  <2>1. /\ k.block # None /\ k.block.gen \in {1, 2} /\ IsTransaction(k.block.gen, k.tx)
        /\ o.info # None => o.info.blockHeight \in {0, k.block.height}
    BY OutcomeIs
  <2>2. PICK who : o.result = Outcome(k.block.gen, k.tx, who) BY OutcomeIs
  <2>3. PICK g \in {1, 2} : IsKnown(g, k) BY OutcomeIs
  <2>. HIDE DEF k
  <2>4. IsBlock(g, k.block) BY <2>1, <2>3, KnownRan
  <2>5. k.block.height \in 1..MaxBlocks BY <2>4, BlockFields
  <2>6. o.info # None => o.info.blockHeight \in 0..MaxBlocks BY <2>1, <2>5, BoundsAssumption
  <2>7. IsFiniteSet(DOMAIN o.result.effects) /\ IsFiniteSet(DOMAIN o.result.transfers)
    BY <2>1, <2>2, OutcomeLists
  <2>. QED BY <2>6, <2>7
<1>. QED BY <1>1, <1>2, <1>3 DEF TypeOK

(* Initially nothing was asked.                                              *)
LEMMA Initially == Init => IInv
  BY BoundsAssumption DEF Init, IInv, ToSet

(* Whatever is told was read from the answer of a node of one of the two     *)
(* generations to the fact it is about: what every theorem below rests on.   *)
THEOREM ToldIsRead == Spec => []IInv
<1>1. Init => IInv BY Initially
<1>2. IInv /\ [Next]_vars => IInv' BY Inductive
<1>. QED BY <1>1, <1>2, PTL DEF Spec

(* Answers have the types of their classes: heights and categories that      *)
(* exist, lists of effects and transfers.                                    *)
THEOREM AnswersTyped == ASSUME Apart PROVE Spec => []TypeOK
<1>1. IInv => TypeOK BY TypesRight
<1>. QED BY <1>1, ToldIsRead, PTL

(* Blocks are told as they are by either generation and by the event, and    *)
(* refused if and only if they are 2.x blocks without a last switch block; a *)
(* query answered with a header is refused; a 2.x block kept as JSON reads   *)
(* back the last transaction of each category, or not at all.                *)
THEOREM BlocksToldTruly == ASSUME Apart PROVE Spec => []BlocksTold
<1>1. IInv => BlocksTold BY BlocksRight, HeadersRight, KeptRight DEF BlocksTold
<1>. QED BY <1>1, ToldIsRead, PTL

(* The outcome of a transaction is told the same in every way it is asked,   *)
(* with its transfers, its sender and its block.                             *)
THEOREM OutcomesToldTruly == ASSUME Apart PROVE Spec => []OutcomesTold
<1>1. IInv => OutcomesTold
  BY OutcomesRight, TransfersRight, WhoAndWhereRight, SpeculativeRight DEF OutcomesTold
<1>. QED BY <1>1, ToldIsRead, PTL

(* Every effect is recognised and parsed as what it is, and as nothing else  *)
(* but the confusions that are named.                                        *)
THEOREM EffectsToldTruly == ASSUME Apart PROVE Spec => []EffectsTold
<1>1. IInv => EffectsTold BY EffectsRight
<1>. QED BY <1>1, ToldIsRead, PTL

(* An event of a 2.x node names what it is about; those of a 1.x node about  *)
(* transactions are refused.                                                 *)
THEOREM EventsToldTruly == ASSUME Apart PROVE Spec => []EventsTold
<1>1. IInv => EventsTold BY EventsRight
<1>. QED BY <1>1, ToldIsRead, PTL

(* The auction, the payments of an era and a contract package are told as    *)
(* they are by either generation.                                            *)
THEOREM StateToldTruly == ASSUME Apart PROVE Spec => []StateTold
<1>1. IInv => StateTold BY StakesRight, PaymentsRight, PackagesRight DEF StateTold
<1>. QED BY <1>1, ToldIsRead, PTL
=============================================================================
