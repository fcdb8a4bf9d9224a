----------------------------- MODULE XmlProofs -----------------------------
(***************************************************************************)
(* Proofs about the XML library, for every text, every set of keys and     *)
(* values and every number of edits.  Four results:                        *)
(*  - the list of edits implements the document of XmlDoc;                 *)
(*  - what mxml_write carries, holds back and writes is of its type;       *)
(*  - the text that it writes is a text of that document;                  *)
(*  - every element of it is found there, whatever is in the cache.        *)
(* A text is described by the places of its tags (Laid), an edit of a text *)
(* by what it sends for each token (Sends, Emitted).  An edit that was     *)
(* possible makes a text of the changed document (EmittedGood), every list *)
(* of edits consists of such (Steps), and the carrier of mxml_write brings *)
(* every token through all of them (Stream).                               *)
(***************************************************************************)
EXTENDS XmlFlatten, SequenceTheorems, FiniteSetTheorems, TLAPS

-----------------------------------------------------------------------------
(* Numbers: a set of them has a least one.                                 *)

\* Every set of natural numbers that is not empty has a least member,
LEMMA NatMin ==
  ASSUME NEW T, T \subseteq Nat, T # {}
  PROVE  \E x \in T : \A y \in T : x <= y
<1>1. PICK x \in T : \A y \in T : ~(<<y, x>> \in OpToRel(<, Nat))
  BY NatLessThanWellFounded, WFMin
<1>2. \A y \in Nat : y < x => <<y, x>> \in OpToRel(<, Nat)
  BY DEF OpToRel
<1>3. x \in Nat /\ \A y \in T : y \in Nat /\ ~(y < x)
  BY <1>1, <1>2
<1>4. \A y \in T : x <= y
  BY <1>3
<1> QED
  BY <1>4

\* which Min returns.
LEMMA MinIs ==
  ASSUME NEW T, T \subseteq Int, NEW i \in T, \A j \in T : i <= j
  PROVE  Min(T) = i
<1>1. i \in Int /\ \A j \in T : j \in Int
  OBVIOUS
<1>2. \A j \in T : (\A h \in T : j <= h) => j = i
  BY <1>1
<1> QED
  BY <1>2 DEF Min

\* A set of numbers with 0 and what follows each of its numbers holds them all.
LEMMA NatInd ==
  ASSUME NEW T, 0 \in T, \A n \in Nat : n \in T => n + 1 \in T
  PROVE  Nat \subseteq T
<1> DEFINE rest == Nat \ T
<1> SUFFICES ASSUME rest # {} PROVE FALSE
  OBVIOUS
<1>1. PICK x \in rest : \A y \in rest : x <= y
  <2>1. rest \subseteq Nat
    OBVIOUS
  <2> HIDE DEF rest
  <2> QED
    BY <2>1, NatMin
<1>2. x \in Nat /\ x # 0 /\ x \notin T
  BY <1>1
<1>3. x - 1 \in Nat /\ (x - 1) + 1 = x /\ ~(x <= x - 1)
  BY <1>2
<1>4. x - 1 \in T
  BY <1>1, <1>3
<1> QED
  BY <1>2, <1>3, <1>4

-----------------------------------------------------------------------------
(* Paths.                                                                  *)

\* A path is below another one if it begins with its tags.
LEMMA PrefixIs ==
  ASSUME NEW p \in Seq(STRING), NEW k \in Seq(STRING)
  PROVE  SelfOrChild(k, p) <=> /\ Len(p) <= Len(k)
                               /\ \A i \in 1 .. Len(p) : p[i] = k[i]
BY DEF SelfOrChild, IsPrefix

\* The relation "is or is below" of paths is reflexive,
LEMMA PrefixSelf == ASSUME NEW k \in Seq(STRING) PROVE SelfOrChild(k, k)
BY PrefixIs

\* and transitive.
LEMMA PrefixTrans ==
  ASSUME NEW p \in Seq(STRING), NEW q \in Seq(STRING), NEW r \in Seq(STRING),
         SelfOrChild(q, p), SelfOrChild(r, q)
  PROVE  SelfOrChild(r, p)
BY PrefixIs

\* The paths above a path.
LEMMA AboveType ==
  ASSUME NEW k \in Path
  PROVE  /\ DOMAIN Above(k) = 1 .. Len(k) - 1
         /\ \A i \in DOMAIN Above(k) : Above(k)[i] \in Path
BY DEF Above, Path

\* They are the others that it is below.
LEMMA AboveIs ==
  ASSUME NEW p \in Path, NEW k \in Path
  PROVE  p \in ToSet(Above(k)) <=> SelfOrChild(k, p) /\ p # k
<1>1. ASSUME p \in ToSet(Above(k)) PROVE SelfOrChild(k, p) /\ p # k
  <2>1. PICK i \in 1 .. Len(k) - 1 : p = SubSeq(k, 1, i)
    BY <1>1 DEF ToSet, Above
  <2>2. Len(p) = i /\ \A j \in 1 .. i : p[j] = k[j]
    BY <2>1 DEF Path
  <2> QED
    BY <2>2, PrefixIs DEF Path
<1>2. ASSUME SelfOrChild(k, p), p # k PROVE p \in ToSet(Above(k))
  <2>1. Len(p) <= Len(k) /\ \A i \in 1 .. Len(p) : p[i] = k[i]
    BY <1>2, PrefixIs DEF Path
  <2>2. Len(p) # Len(k)
    <3>1. ASSUME Len(p) = Len(k) PROVE p = k
      BY <2>1, <3>1, SeqEqual DEF Path
    <3> QED
      BY <1>2, <3>1
  <2>3. Len(p) \in 1 .. Len(k) - 1
    BY <2>1, <2>2 DEF Path
  <2>4. p = SubSeq(k, 1, Len(p))
    <3>1. SubSeq(k, 1, Len(p)) \in Seq(STRING) /\ Len(SubSeq(k, 1, Len(p))) = Len(p)
      BY <2>3 DEF Path
    <3>2. \A i \in 1 .. Len(p) : SubSeq(k, 1, Len(p))[i] = p[i]
      BY <2>1, <2>3 DEF Path
    <3> QED
      BY <3>1, <3>2, SeqEqual DEF Path
  <2> QED
    BY <2>3, <2>4 DEF ToSet, Above
<1> QED
  BY <1>1, <1>2

\* A path lies directly below what is in front of its last tag.
LEMMA FrontIs ==
  ASSUME NEW k \in Path
  PROVE  /\ Front(k) \in Seq(STRING) /\ Len(Front(k)) = Len(k) - 1 /\ Front(k) # k
         /\ SelfOrChild(k, Front(k))
         /\ Len(k) # 1 => Front(k) \in Path
         /\ Len(k) = 1 => Front(k) = <<>>
<1>1. k \in Seq(STRING) /\ Len(k) \in Nat \ {0}
  BY EmptySeq DEF Path
<1>2. Front(k) \in Seq(STRING) /\ Len(Front(k)) = Len(k) - 1
      /\ \A i \in 1 .. Len(k) - 1 : Front(k)[i] = k[i]
  <2> DEFINE n == Len(k) - 1
  <2>1. n \in Nat /\ n <= Len(k) /\ Front(k) = SubSeq(k, 1, n)
    BY <1>1 DEF Front
  <2> HIDE DEF n
  <2>2. /\ SubSeq(k, 1, n) \in Seq(STRING) /\ Len(SubSeq(k, 1, n)) = n
        /\ \A i \in 1 .. n : SubSeq(k, 1, n)[i] = k[i]
    BY <1>1, <2>1
  <2> QED
    BY <2>1, <2>2 DEF n
<1>3. SelfOrChild(k, Front(k))
  BY <1>1, <1>2, PrefixIs
<1>4. Len(k) # 1 => Front(k) \in Path
  BY <1>1, <1>2, EmptySeq DEF Path
<1>5. Len(k) = 1 => Front(k) = <<>>
  BY <1>1, <1>2, EmptySeq
<1> QED
  BY <1>1, <1>2, <1>3, <1>4, <1>5

\* A path is told by what is in front of its last tag and by that tag.
LEMMA FrontAndLast ==
  ASSUME NEW k \in Path, NEW l \in Path, Front(k) = Front(l), Last(k) = Last(l)
  PROVE  k = l
<1>1. k \in Seq(STRING) /\ Len(k) \in Nat \ {0} /\ l \in Seq(STRING) /\ Len(l) \in Nat \ {0}
  BY EmptySeq DEF Path
<1>2. Len(k) = Len(l)
  BY <1>1, FrontIs
<1>3. \A i \in 1 .. Len(k) - 1 : k[i] = l[i]
  <2>1. \A i \in 1 .. Len(k) - 1 : Front(k)[i] = k[i] /\ Front(l)[i] = l[i]
    BY <1>1, <1>2 DEF Front
  <2> QED
    BY <2>1
<1>4. k[Len(k)] = l[Len(k)]
  BY <1>2 DEF Last
<1>5. \A i \in 1 .. Len(k) : k[i] = l[i]
  BY <1>1, <1>3, <1>4
<1> QED
  BY <1>1, <1>2, <1>5, SeqEqual

\* Of two paths above a third one the shorter is above the longer.
LEMMA PrefixChain ==
  ASSUME NEW p \in Seq(STRING), NEW q \in Seq(STRING), NEW k \in Seq(STRING),
         SelfOrChild(k, p), SelfOrChild(k, q), Len(p) <= Len(q)
  PROVE  SelfOrChild(q, p)
BY PrefixIs

\* A path above another one is shorter, unless they are equal.
LEMMA PrefixEqual ==
  ASSUME NEW p \in Seq(STRING), NEW k \in Seq(STRING), SelfOrChild(k, p)
  PROVE  /\ Len(p) <= Len(k)
         /\ Len(p) = Len(k) => p = k
         /\ SelfOrChild(p, k) => p = k
<1>1. Len(p) <= Len(k) /\ \A i \in 1 .. Len(p) : p[i] = k[i]
  BY PrefixIs
<1>2. Len(p) = Len(k) => p = k
  BY <1>1, SeqEqual
<1>3. SelfOrChild(p, k) => Len(k) <= Len(p)
  BY PrefixIs
<1> QED
  BY <1>1, <1>2, <1>3

\* What is above a path, but is not that path, is above the path in front.
LEMMA PrefixFront ==
  ASSUME NEW p \in Seq(STRING), NEW k \in Path, SelfOrChild(k, p), p # k
  PROVE  SelfOrChild(Front(k), p) /\ Len(p) < Len(k)
<1>1. k \in Seq(STRING) /\ Len(k) \in Nat /\ Len(p) \in Nat
  BY DEF Path
<1>2. Len(p) < Len(k)
  BY <1>1, PrefixEqual
<1>3. Front(k) \in Seq(STRING) /\ Len(p) <= Len(Front(k)) /\ SelfOrChild(k, Front(k))
  BY <1>1, <1>2, FrontIs
<1> QED
  BY <1>1, <1>2, <1>3, PrefixChain

\* Every path is below the empty one.
LEMMA PrefixEmpty == ASSUME NEW k \in Seq(STRING) PROVE SelfOrChild(k, <<>>)
<1> DEFINE p == <<>>
<1>1. p \in Seq(STRING) /\ Len(p) = 0 /\ Len(k) \in Nat
  BY EmptySeq
<1> HIDE DEF p
<1>2. \A i \in 1 .. Len(p) : p[i] = k[i]
  BY <1>1
<1>3. Len(p) <= Len(k)
  BY <1>1
<1>4. SelfOrChild(k, p)
  BY <1>1, <1>2, <1>3 DEF SelfOrChild, IsPrefix
<1> QED
  BY <1>4 DEF p

-----------------------------------------------------------------------------
(* Texts.                                                                  *)

\* The parts of a token of a text.
LEMMA TokenIs ==
  ASSUME NEW t \in TextToken
  PROVE  /\ t.type \in {"open", "close", "value"} /\ t.key \in Seq(STRING)
         /\ t = Token(t.type, t.key, t.value)
         /\ t.type # "value" => t.key \in Path /\ t.value = Empty
         /\ t.value \in Nat \cup {Empty}
BY DEF TextToken, Token, Path

\* Tokens that an edit makes are tokens of a text.
LEMMA TokenMade ==
  ASSUME NEW k \in Path, NEW v \in Nat \cup {Empty}
  PROVE  /\ Token("open", k, Empty) \in TextToken
         /\ Token("close", k, Empty) \in TextToken
         /\ Token("value", k, v) \in TextToken
BY DEF TextToken, Token, Path

\* A text and where its elements are: P are their paths, o and c tell the
\* places of their tags.
Laid(text, P, o, c) ==
    /\ text \in Seq(TextToken) /\ P \subseteq Path
    /\ o \in [P -> DOMAIN text] /\ c \in [P -> DOMAIN text]
    /\ \A k \in P :
          /\ text[o[k]].type = "open" /\ text[o[k]].key = k
          /\ text[c[k]].type = "close" /\ text[c[k]].key = k
          /\ o[k] < c[k]
          /\ Len(k) = 1 \/ Front(k) \in P
    /\ \A i \in DOMAIN text :
          /\ text[i].type = "open"  => text[i].key \in P /\ o[text[i].key] = i
          /\ text[i].type = "close" => text[i].key \in P /\ c[text[i].key] = i
          /\ text[i].type = "value" =>
                /\ text[i].key = <<>> \/ text[i].key \in P
                /\ \A k \in P : (o[k] < i /\ i < c[k]) <=> SelfOrChild(text[i].key, k)
    /\ \A k, l \in P :
          /\ k # l /\ SelfOrChild(l, k) => o[k] < o[l] /\ c[l] < c[k]
          /\ ~SelfOrChild(l, k) /\ ~SelfOrChild(k, l) => c[k] < o[l] \/ c[l] < o[k]

\* That is what well formed means.
LEMMA LaidOut ==
  ASSUME NEW text, WellFormed(text)
  PROVE  \E P, o, c : Laid(text, P, o, c) /\ P = {text[i].key : i \in Tags(text, "open")}
<1> DEFINE E == Elements(text)
           P == {text[i].key : i \in Tags(text, "open")}
<1>1. text \in Seq(TextToken) /\ \A i \in DOMAIN text : text[i] \in TextToken
  BY DEF WellFormed
<1>2. \A e \in E : /\ e = <<e[1], e[2]>> /\ e[1] \in DOMAIN text /\ e[2] \in DOMAIN text
                   /\ text[e[1]].type = "open" /\ text[e[2]].type = "close"
                   /\ text[e[2]].key = text[e[1]].key
                   /\ PathAt(text, e) = text[e[1]].key
  BY DEF Elements, Tags, IsA, PathAt
<1>3. \A i \in DOMAIN text : text[i].type = "open" => \E e \in E : e[1] = i
  BY DEF WellFormed, IsA
<1>4. \A i \in DOMAIN text : text[i].type = "close" => \E e \in E : e[2] = i
  BY DEF WellFormed, IsA
<1>5. \A d, e \in E : text[d[1]].key = text[e[1]].key => d = e
  BY <1>2 DEF WellFormed
<1>6. \A k \in P : \E e \in E : text[e[1]].key = k
  BY <1>3 DEF Tags, IsA
<1> DEFINE el == [k \in P |-> CHOOSE e \in E : text[e[1]].key = k]
           o == [k \in P |-> el[k][1]]
           c == [k \in P |-> el[k][2]]
<1>7. \A k \in P : el[k] \in E /\ text[el[k][1]].key = k
  BY <1>6
<1>8. \A e \in E : text[e[1]].key \in P /\ el[text[e[1]].key] = e
  <2>1. ASSUME NEW e \in E PROVE text[e[1]].key \in P
    BY <1>2 DEF Tags, IsA
  <2> QED
    BY <1>5, <1>7, <2>1
<1>9. P \subseteq Path
  <2> SUFFICES ASSUME NEW i \in Tags(text, "open") PROVE text[i].key \in Path
    OBVIOUS
  <2> QED
    BY <1>1, TokenIs DEF Tags, IsA
<1>10. \A k \in P : /\ o[k] = el[k][1] /\ c[k] = el[k][2]
                    /\ o[k] \in DOMAIN text /\ c[k] \in DOMAIN text
                    /\ text[o[k]].type = "open" /\ text[o[k]].key = k
                    /\ text[c[k]].type = "close" /\ text[c[k]].key = k
  BY <1>2, <1>7
<1>11. o \in [P -> DOMAIN text] /\ c \in [P -> DOMAIN text]
  BY <1>10
<1>12. \A k \in P : o[k] < c[k] /\ (Len(k) = 1 \/ Front(k) \in P)
  <2> TAKE k \in P
  <2>1. /\ el[k][1] < el[k][2]
        /\ Len(PathAt(text, el[k])) = 1
              \/ \E d \in E : PathAt(text, d) = Front(PathAt(text, el[k]))
    BY <1>7 DEF WellFormed
  <2> HIDE DEF E, P, el
  <2> QED
    BY <1>2, <1>7, <1>8, <1>10, <2>1
<1>13. ASSUME NEW i \in DOMAIN text, text[i].type = "open"
       PROVE  text[i].key \in P /\ o[text[i].key] = i
  <2> HIDE DEF E, P, el
  <2> QED
    BY <1>3, <1>8, <1>10, <1>13
<1>14. ASSUME NEW i \in DOMAIN text, text[i].type = "close"
       PROVE  text[i].key \in P /\ c[text[i].key] = i
  <2> HIDE DEF E, P, el
  <2> QED
    BY <1>2, <1>4, <1>8, <1>10, <1>14
<1>15. ASSUME NEW i \in DOMAIN text, text[i].type = "value"
       PROVE  /\ text[i].key = <<>> \/ text[i].key \in P
              /\ \A k \in P : (o[k] < i /\ i < c[k]) <=> SelfOrChild(text[i].key, k)
  <2>1. /\ text[i].key = <<>>
               \/ \E e \in E : PathAt(text, e) = text[i].key
        /\ \A e \in E : Within(i, e) <=> SelfOrChild(text[i].key, PathAt(text, e))
    BY <1>15 DEF WellFormed, IsA
  <2> HIDE DEF E, P, el
  <2>2. text[i].key = <<>> \/ text[i].key \in P
    BY <1>2, <1>8, <2>1
  <2>3. \A k \in P : (o[k] < i /\ i < c[k]) <=> SelfOrChild(text[i].key, k)
    BY <1>2, <1>7, <1>10, <2>1 DEF Within
  <2> QED
    BY <2>2, <2>3
<1>16. ASSUME NEW k \in P, NEW l \in P
       PROVE  /\ k # l /\ SelfOrChild(l, k) => o[k] < o[l] /\ c[l] < c[k]
              /\ ~SelfOrChild(l, k) /\ ~SelfOrChild(k, l) => c[k] < o[l] \/ c[l] < o[k]
  <2> DEFINE d == el[k]  e == el[l]
  <2>1. d \in E /\ e \in E /\ PathAt(text, d) = k /\ PathAt(text, e) = l
    BY <1>2, <1>7
  <2>2. /\ k # l /\ SelfOrChild(l, k) => d[1] < e[1] /\ e[2] < d[2]
        /\ ~SelfOrChild(l, k) /\ ~SelfOrChild(k, l) => d[2] < e[1] \/ e[2] < d[1]
    <3>1. \A d1, e1 \in E :
            LET k1 == PathAt(text, d1)
                l1 == PathAt(text, e1)
            IN  /\ k1 # l1 /\ SelfOrChild(l1, k1) => d1[1] < e1[1] /\ e1[2] < d1[2]
                /\ ~SelfOrChild(l1, k1) /\ ~SelfOrChild(k1, l1)
                      => d1[2] < e1[1] \/ e1[2] < d1[1]
      BY DEF WellFormed
    <3> HIDE DEF E, P, el
    <3> QED
      BY <2>1, <3>1
  <2> HIDE DEF E, P, el
  <2> QED
    BY <1>10, <2>2
<1>17. Laid(text, P, o, c)
  <2> HIDE DEF P, o, c, el, E
  <2> QED
    BY <1>1, <1>9, <1>10, <1>11, <1>12, <1>13, <1>14, <1>15, <1>16 DEF Laid
<1> QED
  BY <1>17

\* The elements of a text that is laid out.
LEMMA LaidElements ==
  ASSUME NEW text, NEW P, NEW o, NEW c, Laid(text, P, o, c)
  PROVE  /\ Elements(text) = {<<o[k], c[k]>> : k \in P}
         /\ Tags(text, "open") = {o[k] : k \in P}
         /\ {text[i].key : i \in Tags(text, "open")} = P
<1>1. Tags(text, "open") = {o[k] : k \in P}
  BY DEF Laid, Tags, IsA
<1>2. {text[i].key : i \in Tags(text, "open")} = P
  BY <1>1 DEF Laid
<1>3. ASSUME NEW e \in Elements(text) PROVE e \in {<<o[k], c[k]>> : k \in P}
  <2>1. /\ e = <<e[1], e[2]>> /\ e[1] \in DOMAIN text /\ text[e[1]].type = "open"
        /\ e[2] \in DOMAIN text /\ text[e[2]].type = "close" /\ text[e[1]].key = text[e[2]].key
    BY DEF Elements, Tags, IsA
  <2>2. e[1] = o[text[e[1]].key] /\ e[2] = c[text[e[1]].key] /\ text[e[1]].key \in P
    BY <2>1 DEF Laid
  <2> QED
    BY <2>1, <2>2
<1>4. ASSUME NEW k \in P PROVE <<o[k], c[k]>> \in Elements(text)
  <2>1. /\ o[k] \in DOMAIN text /\ text[o[k]].type = "open" /\ text[o[k]].key = k
        /\ c[k] \in DOMAIN text /\ text[c[k]].type = "close" /\ text[c[k]].key = k
    BY DEF Laid
  <2> QED
    BY <2>1 DEF Elements, Tags, IsA
<1> QED
  BY <1>1, <1>2, <1>3, <1>4

\* A text that is laid out is well formed.
LEMMA LaidWell ==
  ASSUME NEW text, NEW P, NEW o, NEW c, Laid(text, P, o, c)
  PROVE  WellFormed(text)
<1> DEFINE E == Elements(text)
<1>1. E = {<<o[k], c[k]>> : k \in P}
  BY LaidElements
<1>2. ASSUME NEW e \in E
      PROVE  \E k \in P : e[1] = o[k] /\ e[2] = c[k] /\ PathAt(text, e) = k /\ e = <<o[k], c[k]>>
  <2>1. PICK k \in P : e = <<o[k], c[k]>>
    BY <1>1
  <2> QED
    BY <2>1 DEF Laid, PathAt
<1>3. \A k \in P : <<o[k], c[k]>> \in E /\ PathAt(text, <<o[k], c[k]>>) = k
  BY <1>1 DEF Laid, PathAt
<1> HIDE DEF E
<1>4. ASSUME NEW i \in DOMAIN text
      PROVE  /\ IsA(text, "open", i)  => \E e \in E : e[1] = i
             /\ IsA(text, "close", i) => \E e \in E : e[2] = i
  <2>1. CASE IsA(text, "open", i)
    <3>1. text[i].key \in P /\ o[text[i].key] = i /\ text[i].type # "close"
      BY <2>1 DEF Laid, IsA
    <3> QED
      BY <1>3, <3>1 DEF IsA
  <2>2. CASE IsA(text, "close", i)
    <3>1. text[i].key \in P /\ c[text[i].key] = i /\ text[i].type # "open"
      BY <2>2 DEF Laid, IsA
    <3> QED
      BY <1>3, <3>1 DEF IsA
  <2> QED
    BY <2>1, <2>2
<1>5. ASSUME NEW i \in DOMAIN text, IsA(text, "value", i)
      PROVE  /\ text[i].key = <<>> \/ \E e \in E : PathAt(text, e) = text[i].key
             /\ \A e \in E : Within(i, e) <=> SelfOrChild(text[i].key, PathAt(text, e))
  <2>1. /\ text[i].key = <<>> \/ text[i].key \in P
        /\ \A k \in P : (o[k] < i /\ i < c[k]) <=> SelfOrChild(text[i].key, k)
    BY <1>5 DEF Laid, IsA
  <2>2. text[i].key = <<>> \/ \E e \in E : PathAt(text, e) = text[i].key
    BY <1>3, <2>1
  <2>3. ASSUME NEW e \in E
        PROVE  Within(i, e) <=> SelfOrChild(text[i].key, PathAt(text, e))
    <3>1. PICK k \in P : e[1] = o[k] /\ e[2] = c[k] /\ PathAt(text, e) = k
      BY <1>2
    <3> QED
      BY <2>1, <3>1 DEF Within
  <2> QED
    BY <2>2, <2>3
<1>6. ASSUME NEW e \in E
      PROVE  /\ e[1] < e[2]
             /\ \/ Len(PathAt(text, e)) = 1
                \/ \E d \in E : PathAt(text, d) = Front(PathAt(text, e))
  <2>1. PICK k \in P : e[1] = o[k] /\ e[2] = c[k] /\ PathAt(text, e) = k
    BY <1>2
  <2>2. o[k] < c[k] /\ (Len(k) = 1 \/ Front(k) \in P)
    BY DEF Laid
  <2>3. Len(k) = 1 \/ \E d \in E : PathAt(text, d) = Front(k)
    BY <1>3, <2>2
  <2> QED
    BY <2>1, <2>2, <2>3
<1>7. ASSUME NEW d \in E, NEW e \in E
      PROVE  LET k == PathAt(text, d)
                 l == PathAt(text, e)
             IN  /\ k = l => d = e
                 /\ k # l /\ SelfOrChild(l, k) => d[1] < e[1] /\ e[2] < d[2]
                 /\ ~SelfOrChild(l, k) /\ ~SelfOrChild(k, l) => d[2] < e[1] \/ e[2] < d[1]
  <2>1. PICK k \in P : d[1] = o[k] /\ d[2] = c[k] /\ PathAt(text, d) = k /\ d = <<o[k], c[k]>>
    BY <1>2
  <2>2. PICK l \in P : e[1] = o[l] /\ e[2] = c[l] /\ PathAt(text, e) = l /\ e = <<o[l], c[l]>>
    BY <1>2
  <2>3. /\ k # l /\ SelfOrChild(l, k) => o[k] < o[l] /\ c[l] < c[k]
        /\ ~SelfOrChild(l, k) /\ ~SelfOrChild(k, l) => c[k] < o[l] \/ c[l] < o[k]
    BY DEF Laid
  <2> QED
    BY <2>1, <2>2, <2>3
<1>8. text \in Seq(TextToken)
  BY DEF Laid
<1> HIDE DEF Laid
<1> QED
  BY <1>4, <1>5, <1>6, <1>7, <1>8 DEF WellFormed, E

-----------------------------------------------------------------------------
(* The cursor, on a text that is laid out: text, P, o and c are fixed.      *)

\* The tags of an element; the text as a whole lies between two more.
Lo(o, p) == IF p = <<>> THEN 0 ELSE o[p]
Hi(text, c, p) == IF p = <<>> THEN Len(text) + 1 ELSE c[p]

\* Where it begins and ends, the elements in it, and those that are not.
LEMMA Inside ==
  ASSUME NEW text, NEW P, NEW o, NEW c, Laid(text, P, o, c), NEW p \in P \cup {<<>>}
  PROVE  /\ Len(text) \in Nat /\ DOMAIN text = 1 .. Len(text)
         /\ Lo(o, p) \in 0 .. Len(text) /\ Hi(text, c, p) \in 1 .. Len(text) + 1
         /\ Lo(o, p) < Hi(text, c, p) /\ p \in Seq(STRING)
         /\ \A k \in P :
               /\ k \in Path /\ o[k] \in 1 .. Len(text) /\ c[k] \in 1 .. Len(text) /\ o[k] < c[k]
               /\ k # p /\ SelfOrChild(k, p) => Lo(o, p) < o[k] /\ c[k] < Hi(text, c, p)
               /\ k = p \/ ~SelfOrChild(k, p) =>
                     /\ ~(Lo(o, p) < o[k] /\ o[k] < Hi(text, c, p))
                     /\ ~(Lo(o, p) < c[k] /\ c[k] < Hi(text, c, p))
<1>1. /\ text \in Seq(TextToken) /\ P \subseteq Path
      /\ \A k \in P : o[k] \in DOMAIN text /\ c[k] \in DOMAIN text /\ o[k] < c[k]
      /\ \A k, l \in P :
          /\ k # l /\ SelfOrChild(l, k) => o[k] < o[l] /\ c[l] < c[k]
          /\ ~SelfOrChild(l, k) /\ ~SelfOrChild(k, l) => c[k] < o[l] \/ c[l] < o[k]
  BY DEF Laid
<1>2. Len(text) \in Nat /\ DOMAIN text = 1 .. Len(text)
  BY <1>1
<1>3. \A k \in P : o[k] \in 1 .. Len(text) /\ c[k] \in 1 .. Len(text) /\ o[k] < c[k]
  BY <1>1, <1>2
<1>4. CASE p = <<>>
  <2>1. Lo(o, p) = 0 /\ Hi(text, c, p) = Len(text) + 1
    BY <1>4 DEF Lo, Hi
  <2>2. \A k \in P : k \in Path /\ SelfOrChild(k, p) /\ k # p
    BY <1>1, <1>4, PrefixEmpty DEF Path
  <2>3. p \in Seq(STRING)
    BY <1>4, EmptySeq
  <2> QED
    BY <1>2, <1>3, <2>1, <2>2, <2>3
<1>5. CASE p # <<>>
  <2>1. p \in P /\ Lo(o, p) = o[p] /\ Hi(text, c, p) = c[p] /\ p \in Seq(STRING)
    BY <1>1, <1>5 DEF Lo, Hi, Path
  <2>2. ASSUME NEW k \in P
        PROVE  /\ k # p /\ SelfOrChild(k, p) => o[p] < o[k] /\ c[k] < c[p]
               /\ k = p \/ ~SelfOrChild(k, p) =>
                     /\ ~(o[p] < o[k] /\ o[k] < c[p])
                     /\ ~(o[p] < c[k] /\ c[k] < c[p])
    <3>1. CASE k = p
      BY <1>3, <2>1, <3>1
    <3>2. CASE k # p /\ SelfOrChild(k, p)
      BY <1>1, <2>1, <3>2
    <3>3. CASE ~SelfOrChild(k, p) /\ SelfOrChild(p, k)
      <4>1. o[k] < o[p] /\ c[p] < c[k] /\ k # p
        BY <1>1, <2>1, <3>3
      <4> QED
        BY <1>3, <2>1, <3>3, <4>1
    <3>4. CASE ~SelfOrChild(k, p) /\ ~SelfOrChild(p, k)
      <4>1. c[k] < o[p] \/ c[p] < o[k]
        BY <1>1, <2>1, <3>4
      <4>2. \A i, j, m, n \in Nat : i < j /\ m < n /\ (j < m \/ n < i)
                => /\ ~(m < i /\ i < n) /\ ~(m < j /\ j < n)
        OBVIOUS
      <4>3. /\ o[k] \in Nat /\ c[k] \in Nat /\ o[p] \in Nat /\ c[p] \in Nat
            /\ o[k] < c[k] /\ o[p] < c[p]
        BY <1>3, <2>1
      <4>4. ~(o[p] < o[k] /\ o[k] < c[p]) /\ ~(o[p] < c[k] /\ c[k] < c[p])
        BY <4>1, <4>2, <4>3
      <4>5. k # p
        BY <3>4, <2>1, PrefixSelf
      <4> QED
        BY <3>4, <4>4, <4>5
    <3> QED
      BY <3>1, <3>2, <3>3, <3>4
  <2>3. \A k \in P : k \in Path
    BY <1>1
  <2>4. o[p] \in 0 .. Len(text) /\ c[p] \in 1 .. Len(text) + 1 /\ o[p] < c[p]
    BY <1>2, <1>3, <2>1
  <2> QED
    BY <1>2, <1>3, <2>1, <2>2, <2>3, <2>4
<1> QED
  BY <1>4, <1>5

\* No element is open in front of token i if every one that was opened before
\* it is closed before it.
LEMMA DepthIs ==
  ASSUME NEW text, NEW P, NEW o, NEW c, Laid(text, P, o, c), NEW p \in P \cup {<<>>},
         NEW i \in Lo(o, p) + 1 .. Hi(text, c, p)
  PROVE  Depth(text, Lo(o, p) + 1, i) = 0
            <=> \A k \in P : Lo(o, p) < o[k] /\ o[k] < i => c[k] < i
<1> DEFINE a == Lo(o, p)
           opens == {j \in a + 1 .. i - 1 : IsA(text, "open", j)}
           closes == {j \in a + 1 .. i - 1 : IsA(text, "close", j)}
           f == [j \in closes |-> o[text[j].key]]
<1>1. /\ Len(text) \in Nat /\ DOMAIN text = 1 .. Len(text) /\ a \in 0 .. Len(text)
      /\ i \in Int /\ i <= Len(text) + 1 /\ a < i /\ i <= Hi(text, c, p)
      /\ Hi(text, c, p) \in Int
  <2> HIDE DEF a
  <2> QED
    BY Inside DEF a
<1>2. /\ \A k \in P : /\ k # p /\ SelfOrChild(k, p) => a < o[k] /\ c[k] < Hi(text, c, p)
                      /\ k = p \/ ~SelfOrChild(k, p) =>
                           /\ ~(a < o[k] /\ o[k] < Hi(text, c, p))
                           /\ ~(a < c[k] /\ c[k] < Hi(text, c, p))
                      /\ o[k] \in 1 .. Len(text) /\ c[k] \in 1 .. Len(text) /\ o[k] < c[k]
  BY Inside
<1> HIDE DEF a
<1>3. \A j \in a + 1 .. i - 1 : j \in DOMAIN text
  BY <1>1
<1>4. \A j \in closes : text[j].key \in P /\ c[text[j].key] = j
  BY <1>3 DEF Laid, IsA
<1>5. \A j \in opens : text[j].key \in P /\ o[text[j].key] = j
  BY <1>3 DEF Laid, IsA
<1>6. \A k \in P : /\ o[k] \in opens <=> a < o[k] /\ o[k] < i
                   /\ c[k] \in closes <=> a < c[k] /\ c[k] < i
                   /\ text[o[k]].key = k /\ text[c[k]].key = k
  <2> TAKE k \in P
  <2>1. IsA(text, "open", o[k]) /\ IsA(text, "close", c[k]) /\ text[o[k]].key = k /\ text[c[k]].key = k
    BY DEF Laid, IsA
  <2> QED
    BY <1>1, <1>2, <2>1
<1>7. f \in Injection(closes, opens)
  <2>1. ASSUME NEW j \in closes PROVE f[j] \in opens
    <3> DEFINE k == text[j].key
    <3>1. k \in P /\ c[k] = j /\ a < j /\ j < i
      BY <1>1, <1>4
    <3> HIDE DEF k
    <3>2. k # p /\ SelfOrChild(k, p)
      BY <1>1, <1>2, <3>1
    <3>3. a < o[k] /\ o[k] < i
      BY <1>1, <1>2, <3>1, <3>2
    <3>4. o[k] \in opens
      BY <1>6, <3>1, <3>3
    <3> QED
      BY <3>4 DEF k
  <2>2. ASSUME NEW j \in closes, NEW h \in closes, f[j] = f[h] PROVE j = h
    <3>1. o[text[j].key] = o[text[h].key]
      BY <2>2
    <3>2. text[j].key = text[h].key
      BY <1>4, <1>6, <3>1
    <3> QED
      BY <1>4, <3>2
  <2>3. f \in [closes -> opens]
    BY <2>1
  <2> QED
    BY <2>2, <2>3 DEF Injection, IsInjective
<1>8. IsFiniteSet(opens) /\ IsFiniteSet(closes)
  <2>1. IsFiniteSet(a + 1 .. i - 1)
    BY <1>1, FS_Interval
  <2> QED
    BY <2>1, FS_Subset
<1>9. /\ Cardinality(opens) \in Nat /\ Cardinality(closes) \in Nat
      /\ Cardinality(closes) = Cardinality(opens) <=> f \in Surjection(closes, opens)
  <2> HIDE DEF f, opens, closes
  <2> QED
    BY <1>7, <1>8, FS_CardinalityType, FS_Injection
<1>10. Depth(text, a + 1, i) = Cardinality(opens) - Cardinality(closes)
  BY DEF Depth
<1>11. f \in Surjection(closes, opens) <=> \A k \in P : a < o[k] /\ o[k] < i => c[k] < i
  <2>1. ASSUME f \in Surjection(closes, opens), NEW k \in P, a < o[k], o[k] < i
        PROVE  c[k] < i
    <3>1. o[k] \in opens
      BY <1>6, <2>1
    <3>2. PICK j \in closes : f[j] = o[k]
      BY <2>1, <3>1 DEF Surjection
    <3>3. text[j].key \in P /\ o[text[j].key] = o[k]
      BY <1>4, <3>2
    <3>4. text[j].key = k
      BY <1>6, <3>3
    <3>5. c[k] = j
      BY <1>4, <3>4
    <3> QED
      BY <1>1, <3>5
  <2>2. ASSUME \A k \in P : a < o[k] /\ o[k] < i => c[k] < i
        PROVE  f \in Surjection(closes, opens)
    <3>1. ASSUME NEW j \in opens PROVE \E h \in closes : f[h] = j
      <4> DEFINE k == text[j].key
      <4>1. k \in P /\ o[k] = j
        BY <1>5
      <4> HIDE DEF k
      <4>2. a < o[k] /\ o[k] < i
        BY <1>6, <4>1
      <4>3. c[k] < i /\ a < c[k]
        BY <1>1, <1>2, <2>2, <4>1, <4>2
      <4>4. c[k] \in closes /\ text[c[k]].key = k
        BY <1>6, <4>1, <4>3
      <4> QED
        BY <4>1, <4>4
    <3>2. f \in [closes -> opens]
      BY <1>7 DEF Injection
    <3> QED
      BY <3>1, <3>2 DEF Surjection
  <2> QED
    BY <2>1, <2>2
<1> QED
  BY <1>9, <1>10, <1>11 DEF a

\* The cursor stops at the tag that closes the element.
LEMMA SkipIs ==
  ASSUME NEW text, NEW P, NEW o, NEW c, Laid(text, P, o, c), NEW p \in P \cup {<<>>},
         NEW to \in Hi(text, c, p) .. Len(text) + 1
  PROVE  cursor_skip_to_close(text, Span(Lo(o, p) + 1, to)) = Hi(text, c, p)
<1> DEFINE a == Lo(o, p)  b == Hi(text, c, p)
           S == {i \in a + 1 .. to : i = to \/ (IsA(text, "close", i) /\ Depth(text, a + 1, i) = 0)}
<1>1. /\ Len(text) \in Nat /\ DOMAIN text = 1 .. Len(text) /\ a \in 0 .. Len(text)
      /\ b \in 1 .. Len(text) + 1 /\ a < b /\ b <= to /\ to \in Int /\ to <= Len(text) + 1
  <2> HIDE DEF a, b
  <2> QED
    BY Inside DEF a, b
<1>2. \A k \in P : /\ k # p /\ SelfOrChild(k, p) => a < o[k] /\ c[k] < b
                   /\ k = p \/ ~SelfOrChild(k, p) =>
                        /\ ~(a < o[k] /\ o[k] < b)
                        /\ ~(a < c[k] /\ c[k] < b)
                   /\ o[k] \in 1 .. Len(text) /\ c[k] \in 1 .. Len(text) /\ o[k] < c[k]
  BY Inside
<1>3. \A i \in a + 1 .. b :
          Depth(text, a + 1, i) = 0 <=> \A k \in P : a < o[k] /\ o[k] < i => c[k] < i
  BY DepthIs
<1>4. b # to => IsA(text, "close", b)
  <2>1. b # to => p \in P /\ b = c[p]
    BY <1>1 DEF Hi
  <2> QED
    BY <2>1 DEF Laid, IsA
<1>5. \A i \in DOMAIN text : IsA(text, "close", i) => text[i].key \in P /\ c[text[i].key] = i
  BY DEF Laid, IsA
<1> HIDE DEF a, b
<1>6. b \in S
  <2>1. \A k \in P : a < o[k] /\ o[k] < b => c[k] < b
    BY <1>1, <1>2
  <2> QED
    BY <1>1, <1>3, <1>4, <2>1
<1>7. ASSUME NEW i \in S PROVE b <= i
  <2> SUFFICES ASSUME ~(b <= i) PROVE FALSE
    OBVIOUS
  <2>1. i \in Int /\ i < b /\ a < i /\ i \in DOMAIN text /\ i # to
    BY <1>1
  <2>2. IsA(text, "close", i) /\ Depth(text, a + 1, i) = 0
    BY <2>1
  <2> DEFINE k == text[i].key
  <2>3. k \in P /\ c[k] = i
    BY <1>5, <2>1, <2>2
  <2> HIDE DEF k
  <2>4. k # p /\ SelfOrChild(k, p)
    BY <1>2, <2>1, <2>3
  <2>5. a < o[k] /\ o[k] < i
    BY <1>2, <2>3, <2>4
  <2>6. c[k] < i
    BY <1>1, <1>3, <2>1, <2>2, <2>3, <2>5
  <2> QED
    BY <2>1, <2>3, <2>6
<1>8. S \subseteq Int
  BY <1>1
<1>9. cursor_skip_to_close(text, Span(a + 1, to)) = Min(S)
  BY DEF cursor_skip_to_close, Span
<1> HIDE DEF S
<1> QED
  BY <1>6, <1>7, <1>8, <1>9, MinIs DEF a, b

\* A walk over an element comes to the elements directly below it.
LEMMA ChildrenAre ==
  ASSUME NEW text, NEW P, NEW o, NEW c, Laid(text, P, o, c), NEW p \in P \cup {<<>>}
  PROVE  Children(text, Span(Lo(o, p) + 1, Hi(text, c, p))) = {o[k] : k \in {l \in P : Front(l) = p}}
<1> DEFINE a == Lo(o, p)  b == Hi(text, c, p)
<1>1. /\ Len(text) \in Nat /\ DOMAIN text = 1 .. Len(text) /\ a \in 0 .. Len(text)
      /\ b \in 1 .. Len(text) + 1 /\ a < b /\ p \in Seq(STRING)
  <2> HIDE DEF a, b
  <2> QED
    BY Inside DEF a, b
<1>2. \A k \in P : /\ k # p /\ SelfOrChild(k, p) => a < o[k] /\ c[k] < b
                   /\ k = p \/ ~SelfOrChild(k, p) =>
                        /\ ~(a < o[k] /\ o[k] < b)
                        /\ ~(a < c[k] /\ c[k] < b)
                   /\ o[k] \in 1 .. Len(text) /\ c[k] \in 1 .. Len(text) /\ o[k] < c[k]
                   /\ k \in Path
  BY Inside
<1>3. \A i \in a + 1 .. b :
          Depth(text, a + 1, i) = 0 <=> \A k \in P : a < o[k] /\ o[k] < i => c[k] < i
  BY DepthIs
<1>4. cursor_skip_to_close(text, Span(a + 1, b)) = b
  <2>1. b \in b .. Len(text) + 1
    BY <1>1
  <2> QED
    BY <2>1, SkipIs
<1>5. /\ \A i \in DOMAIN text : IsA(text, "open", i) => text[i].key \in P /\ o[text[i].key] = i
      /\ \A k \in P : IsA(text, "open", o[k]) /\ (Len(k) = 1 \/ Front(k) \in P)
      /\ \A k, l \in P :
          /\ k # l /\ SelfOrChild(l, k) => o[k] < o[l] /\ c[l] < c[k]
          /\ ~SelfOrChild(l, k) /\ ~SelfOrChild(k, l) => c[k] < o[l] \/ c[l] < o[k]
  BY DEF Laid, IsA
<1> HIDE DEF a, b
<1> DEFINE kids == {i \in a + 1 .. b - 1 : IsA(text, "open", i) /\ Depth(text, a + 1, i) = 0}
<1>6. Children(text, Span(a + 1, b)) = kids
  BY <1>4 DEF Children, Span
<1>7. ASSUME NEW i \in kids PROVE i \in {o[k] : k \in {l \in P : Front(l) = p}}
  <2>1. i \in DOMAIN text /\ a < i /\ i < b /\ i \in Int /\ IsA(text, "open", i)
    BY <1>1
  <2> DEFINE k == text[i].key
  <2>2. k \in P /\ o[k] = i
    BY <1>5, <2>1
  <2> HIDE DEF k
  <2>3. k # p /\ SelfOrChild(k, p) /\ k \in Path
    BY <1>2, <2>1, <2>2
  <2>4. ASSUME Front(k) # p PROVE FALSE
    <3>1. SelfOrChild(Front(k), p) /\ Len(p) < Len(k)
      BY <1>1, <2>3, PrefixFront
    <3>2. Len(k) # 1
      <4>1. Len(k) = 1 => Front(k) = <<>> /\ Len(p) = 0
        BY <1>1, <2>3, <3>1, FrontIs
      <4>2. Len(p) = 0 => p = <<>>
        BY <1>1, EmptySeq
      <4> QED
        BY <2>4, <4>1, <4>2
    <3> DEFINE m == Front(k)
    <3>3. m \in P /\ m # k /\ SelfOrChild(k, m)
      BY <1>5, <2>2, <2>3, <3>2, FrontIs
    <3> HIDE DEF m
    <3>4. o[m] < o[k] /\ c[k] < c[m]
      BY <1>5, <2>2, <3>3
    <3>5. a < o[m]
      BY <1>2, <2>4, <3>1, <3>3 DEF m
    <3>6. c[m] < i
      BY <1>1, <1>3, <2>1, <2>2, <3>3, <3>4, <3>5
    <3> QED
      BY <1>2, <2>1, <2>2, <3>3, <3>4, <3>6
  <2> QED
    BY <2>2, <2>4
<1>8. ASSUME NEW k \in P, Front(k) = p PROVE o[k] \in kids
  <2>1. k \in Path /\ k # p /\ SelfOrChild(k, p) /\ Len(p) = Len(k) - 1 /\ Len(k) \in Nat
    BY <1>2, <1>8, FrontIs DEF Path
  <2>2. a < o[k] /\ o[k] < b /\ o[k] \in a + 1 .. b - 1 /\ o[k] \in a + 1 .. b
    BY <1>1, <1>2, <2>1
  <2>3. ASSUME NEW l \in P, a < o[l], o[l] < o[k] PROVE c[l] < o[k]
    <3>1. l # p /\ SelfOrChild(l, p) /\ l \in Path /\ l # k
      BY <1>1, <1>2, <2>2, <2>3
    <3>2. ~SelfOrChild(l, k)
      BY <1>2, <1>5, <2>3, <3>1
    <3>3. ~SelfOrChild(k, l)
      <4> SUFFICES ASSUME SelfOrChild(k, l) PROVE FALSE
        OBVIOUS
      <4>1. SelfOrChild(p, l)
        BY <1>8, <2>1, <3>1, PrefixFront DEF Path
      <4> QED
        BY <1>1, <3>1, <4>1, PrefixEqual DEF Path
    <3>4. c[l] < o[k] \/ c[k] < o[l]
      BY <1>5, <3>2, <3>3
    <3> QED
      BY <1>2, <2>3, <3>4
  <2>4. Depth(text, a + 1, o[k]) = 0
    BY <1>3, <2>2, <2>3
  <2> QED
    BY <1>5, <2>2, <2>4
<1> HIDE DEF kids
<1> QED
  BY <1>6, <1>7, <1>8 DEF a, b

\* Where an element is found.
Place(text, P, o, c, k) ==
    IF k \in P \cup {<<>>} THEN Span(Lo(o, k) + 1, Hi(text, c, k)) ELSE None

\* Nothing is found exactly where there is no element.
LEMMA PlaceIs ==
  ASSUME NEW text, NEW P, NEW o, NEW c, Laid(text, P, o, c), NEW k
  PROVE  Place(text, P, o, c, k) = None <=> k \notin P \cup {<<>>}
<1>1. ASSUME NEW p \in P \cup {<<>>} PROVE Span(Lo(o, p) + 1, Hi(text, c, p)) # None
  <2> DEFINE a == Lo(o, p) + 1  b == Hi(text, c, p)
  <2>1. a \in Nat /\ b \in Nat
    <3>1. Lo(o, p) \in 0 .. Len(text) /\ b \in 1 .. Len(text) + 1 /\ Len(text) \in Nat
      BY Inside
    <3> QED
      BY <3>1
  <2> HIDE DEF a, b
  <2>2. Span(a, b) \in [from : Nat, to : Nat]
    BY <2>1 DEF Span
  <2> QED
    BY <2>2, NoneAssumption DEF a, b
<1> QED
  BY <1>1 DEF Place

\* A cache whose places are right.
CacheOK(text, P, o, c, cache) ==
    /\ cache.next \in 0 .. CacheMax - 1
    /\ DOMAIN cache.place = 0 .. CacheMax - 1
    /\ \A i \in 0 .. CacheMax - 1 :
          cache.place[i][2] # None =>
              cache.place[i][1] \in P /\ cache.place[i][2] = Place(text, P, o, c, cache.place[i][1])

\* The empty cache is right;
LEMMA CacheInit ==
  ASSUME NEW text, NEW P, NEW o, NEW c PROVE CacheOK(text, P, o, c, cache_init)
<1>1. 0 \in 0 .. CacheMax - 1
  BY CacheAssumption
<1> QED
  BY <1>1 DEF CacheOK, cache_init

\* what is in a cache that is right is where the element is;
LEMMA CacheHit ==
  ASSUME NEW text, NEW P, NEW o, NEW c, NEW cache, CacheOK(text, P, o, c, cache), NEW k,
         cache_get(cache, k) # None
  PROVE  cache_get(cache, k) = Place(text, P, o, c, k)
<1> DEFINE hits == {i \in DOMAIN cache.place : Same(cache.place[i][1], k)}
<1>1. hits # {} /\ cache_get(cache, k) = cache.place[Min(hits)][2]
  BY DEF cache_get
<1>2. hits \subseteq Nat /\ hits \subseteq Int
  BY CacheAssumption DEF CacheOK
<1>3. PICK i \in hits : \A j \in hits : i <= j
  <2> HIDE DEF hits
  <2> QED
    BY <1>1, <1>2, NatMin
<1>4. Min(hits) = i
  <2> HIDE DEF hits
  <2> QED
    BY <1>2, <1>3, MinIs
<1>5. i \in 0 .. CacheMax - 1 /\ cache.place[i][1] = k
  BY DEF Same, CacheOK
<1> QED
  BY <1>1, <1>4, <1>5 DEF CacheOK

\* and a cache stays right when a right place is put into it.
LEMMA CacheSet ==
  ASSUME NEW text, NEW P, NEW o, NEW c, NEW cache, CacheOK(text, P, o, c, cache), NEW k \in P
  PROVE  CacheOK(text, P, o, c, cache_set(cache, k, Place(text, P, o, c, k)))
<1>1. (cache.next + 1) % CacheMax \in 0 .. CacheMax - 1
  BY CacheAssumption DEF CacheOK
<1> DEFINE span == Place(text, P, o, c, k)
           now == [cache.place EXCEPT ![cache.next] = <<k, span>>]
<1> HIDE DEF span
<1>2. /\ DOMAIN now = 0 .. CacheMax - 1
      /\ \A i \in 0 .. CacheMax - 1 : now[i] = IF i = cache.next THEN <<k, span>> ELSE cache.place[i]
  BY DEF CacheOK
<1>3. cache_set(cache, k, span).place = now
      /\ cache_set(cache, k, span).next = (cache.next + 1) % CacheMax
  BY DEF cache_set
<1> HIDE DEF now
<1>4. \A i \in 0 .. CacheMax - 1 :
         now[i][2] # None => now[i][1] \in P /\ now[i][2] = Place(text, P, o, c, now[i][1])
  BY <1>2 DEF CacheOK, span
<1>5. CacheOK(text, P, o, c, cache_set(cache, k, span))
  BY <1>1, <1>2, <1>3, <1>4 DEF CacheOK
<1> QED
  BY <1>5 DEF span

\* A child is found if it is there.
LEMMA InIs ==
  ASSUME NEW text, NEW P, NEW o, NEW c, Laid(text, P, o, c), NEW k \in Path,
         Front(k) \in P \cup {<<>>}, NEW parent,
         parent.span = Place(text, P, o, c, Front(k)),
         CacheOK(text, P, o, c, parent.cache)
  PROVE  /\ In(text, parent, k).span = Place(text, P, o, c, k)
         /\ CacheOK(text, P, o, c, In(text, parent, k).cache)
<1> DEFINE p == Front(k)
           opens == {i \in Children(text, parent.span) : Last(text[i].key) = Last(k)}
           from == Min(opens) + 1
           span == Span(from, cursor_skip_to_close(text, Span(from, parent.span.to)))
<1>1. parent.span = Span(Lo(o, p) + 1, Hi(text, c, p)) /\ parent.span.to = Hi(text, c, p)
  BY DEF Place, Span
<1> HIDE DEF p
<1>2. Children(text, parent.span) = {o[l] : l \in {l \in P : Front(l) = p}}
  BY <1>1, ChildrenAre DEF p
<1>3. \A l \in P : text[o[l]].key = l /\ l \in Path
  BY DEF Laid
<1>4. \A l \in P : Front(l) = p /\ Last(l) = Last(k) => l = k
  BY <1>3, FrontAndLast DEF p
<1>5. opens = IF k \in P THEN {o[k]} ELSE {}
  BY <1>2, <1>3, <1>4 DEF p
<1>6. k # <<>>
  BY DEF Path
<1>7. CASE k \notin P
  <2>1. opens = {}
    BY <1>5, <1>7
  <2>2. In(text, parent, k) = Answer(None, parent.cache)
    BY <2>1 DEF In
  <2>3. Place(text, P, o, c, k) = None
    BY <1>6, <1>7 DEF Place
  <2> QED
    BY <2>2, <2>3 DEF Answer
<1>8. CASE k \in P
  <2>1. o[k] \in Int
    BY <1>8 DEF Laid
  <2>2. opens = {o[k]} /\ Min(opens) = o[k]
    <3>1. opens = {o[k]}
      BY <1>5, <1>8
    <3> HIDE DEF opens
    <3>2. opens \subseteq Int /\ o[k] \in opens /\ \A j \in opens : o[k] <= j
      BY <2>1, <3>1
    <3> QED
      BY <3>1, <3>2, MinIs
  <2> DEFINE to == Hi(text, c, p)
  <2>3. /\ to \in Hi(text, c, k) .. Len(text) + 1
        /\ Lo(o, k) = o[k] /\ from = Lo(o, k) + 1 /\ opens # {}
    <3>1. k # p /\ SelfOrChild(k, p)
      BY FrontIs DEF p
    <3>2. c[k] < to /\ to \in 1 .. Len(text) + 1 /\ c[k] \in 1 .. Len(text) /\ Len(text) \in Nat
      BY <1>8, <3>1, Inside DEF p
    <3>3. Hi(text, c, k) = c[k] /\ Lo(o, k) = o[k]
      BY <1>6 DEF Hi, Lo
    <3>4. from = o[k] + 1 /\ opens # {}
      <4> HIDE DEF opens
      <4> QED
        BY <2>2
    <3> HIDE DEF to, from, opens
    <3> QED
      BY <3>2, <3>3, <3>4
  <2> HIDE DEF to, from, opens
  <2>4. cursor_skip_to_close(text, Span(from, to)) = Hi(text, c, k)
    BY <1>8, <2>3, SkipIs
  <2>5. span = Place(text, P, o, c, k)
    BY <1>1, <1>8, <2>3, <2>4 DEF Place, to
  <2>6. In(text, parent, k) = Answer(span, cache_set(parent.cache, k, span))
    BY <2>3 DEF In, opens, from
  <2> HIDE DEF span
  <2>7. CacheOK(text, P, o, c, cache_set(parent.cache, k, span))
    BY <1>8, <2>5, CacheSet
  <2> QED
    BY <2>5, <2>6, <2>7 DEF Answer
<1> QED
  BY <1>7, <1>8

\* One call of find_key_noedit, which knows what the call for the parent found.
Call(text, cache, k, n, before) ==
    LET path == SubSeq(k, 1, n)
        hit == cache_get(cache, path)
    IN  CASE n = 0 -> Answer(Whole(text), cache)
          [] n > 0 /\ hit # None -> Answer(hit, cache)
          [] n > 0 /\ hit = None /\ before.span = None -> before
          [] OTHER -> In(text, before, path)

\* What a call returns, for no tag,
LEMMA FirstCall ==
  ASSUME NEW text, NEW cache, NEW k, NEW before
  PROVE  Call(text, cache, k, 0, before) = Answer(Whole(text), cache)
BY DEF Call

\* and for one more tag.
LEMMA NextCall ==
  ASSUME NEW text, NEW cache, NEW k, NEW before, NEW n \in Nat \ {0}
  PROVE  Call(text, cache, k, n, before)
            = IF cache_get(cache, SubSeq(k, 1, n)) # None
                THEN Answer(cache_get(cache, SubSeq(k, 1, n)), cache)
              ELSE IF before.span = None THEN before
              ELSE In(text, before, SubSeq(k, 1, n))
<1> DEFINE path == SubSeq(k, 1, n)  hit == cache_get(cache, path)
<1>1. n > 0 /\ n # 0
  OBVIOUS
<1>2. Call(text, cache, k, n, before)
        = CASE n = 0 -> Answer(Whole(text), cache)
            [] n > 0 /\ hit # None -> Answer(hit, cache)
            [] n > 0 /\ hit = None /\ before.span = None -> before
            [] OTHER -> In(text, before, path)
  BY DEF Call
<1> HIDE DEF path, hit
<1> QED
  BY <1>1, <1>2 DEF path, hit

\* The answers for the first m tags of k: there are such answers.
Calls(text, cache, k, m, f) == f = [n \in 0 .. m |-> Call(text, cache, k, n, f[n - 1])]

\* There are such answers, by induction over the tags.
LEMMA CallsExist ==
  ASSUME NEW text, NEW cache, NEW k, NEW m \in Nat PROVE \E f : Calls(text, cache, k, m, f)
<1> DEFINE T == {l \in Nat : \E f : Calls(text, cache, k, l, f)}
<1> DEFINE first == Answer(Whole(text), cache)
<1>0. \A x : Call(text, cache, k, 0, x) = first
  BY FirstCall
<1> HIDE DEF first
<1>1. 0 \in T
  <2> DEFINE f == [n \in 0 .. 0 |-> first]
             g == [n \in 0 .. 0 |-> Call(text, cache, k, n, f[n - 1])]
  <2>1. \A n \in 0 .. 0 : n = 0
    OBVIOUS
  <2>2. \A n \in 0 .. 0 : f[n] = g[n]
    BY <1>0, <2>1
  <2>3. f = g
    BY <2>2
  <2> HIDE DEF f
  <2>4. Calls(text, cache, k, 0, f)
    BY <2>3 DEF Calls
  <2> QED
    BY <2>4
<1>2. ASSUME NEW l \in Nat, l \in T PROVE l + 1 \in T
  <2>1. PICK f : Calls(text, cache, k, l, f)
    BY <1>2
  <2> DEFINE g == [n \in 0 .. l + 1 |-> IF n <= l THEN f[n] ELSE Call(text, cache, k, n, f[l])]
             h == [n \in 0 .. l + 1 |-> Call(text, cache, k, n, g[n - 1])]
  <2>2. ASSUME NEW n \in 0 .. l + 1 PROVE g[n] = Call(text, cache, k, n, g[n - 1])
    <3>1. CASE n = 0
      <4>1. n \in 0 .. l /\ n <= l
        BY <3>1
      <4>2. f[n] = Call(text, cache, k, n, f[n - 1])
        BY <2>1, <4>1 DEF Calls
      <4> QED
        BY <1>0, <3>1, <4>1, <4>2
    <3>2. CASE n \in 1 .. l
      <4>1. n \in 0 .. l /\ n <= l /\ n - 1 \in 0 .. l + 1 /\ n - 1 <= l
        BY <3>2
      <4>2. f[n] = Call(text, cache, k, n, f[n - 1])
        BY <2>1, <4>1 DEF Calls
      <4>3. g[n] = f[n] /\ g[n - 1] = f[n - 1]
        BY <4>1
      <4> QED
        BY <4>2, <4>3
    <3>3. CASE n = l + 1
      <4>1. n - 1 = l /\ ~(n <= l) /\ l \in 0 .. l + 1 /\ l <= l
        BY <3>3
      <4>2. g[n] = Call(text, cache, k, n, f[l]) /\ g[l] = f[l]
        BY <4>1
      <4> QED
        BY <4>1, <4>2
    <3>4. n = 0 \/ n \in 1 .. l \/ n = l + 1
      OBVIOUS
    <3> QED
      BY <3>1, <3>2, <3>3, <3>4
  <2>3. g = h
    <3>1. g = [n \in 0 .. l + 1 |-> g[n]]
      OBVIOUS
    <3> HIDE DEF g
    <3>2. h = [n \in 0 .. l + 1 |-> Call(text, cache, k, n, g[n - 1])]
      OBVIOUS
    <3> HIDE DEF h
    <3> QED
      BY <2>2, <3>1, <3>2
  <2> HIDE DEF g
  <2>4. Calls(text, cache, k, l + 1, g)
    BY <2>3 DEF Calls
  <2> QED
    BY <2>4
<1>3. Nat \subseteq T
  <2> HIDE DEF T
  <2> QED
    BY <1>1, <1>2, NatInd
<1> QED
  BY <1>3

\* What the calls for the tags of k find.
Finding(text, cache, k, f) ==
    /\ find_key_noedit(text, cache, k) = f[Len(k)]
    /\ f[0] = Answer(Whole(text), cache)
    /\ \A n \in 1 .. Len(k) : f[n] = Call(text, cache, k, n, f[n - 1])

\* find_key_noedit returns the last of them.
LEMMA FindIs ==
  ASSUME NEW text, NEW cache, NEW k \in Path PROVE \E f : Finding(text, cache, k, f)
<1> DEFINE f == CHOOSE f : Calls(text, cache, k, Len(k), f)
<1>1. find_key_noedit(text, cache, k) = f[Len(k)]
  BY Zenon DEF find_key_noedit, Call, Calls
<1>2. Len(k) \in Nat
  BY DEF Path
<1>3. Calls(text, cache, k, Len(k), f)
  <2>1. \E x : Calls(text, cache, k, Len(k), x)
    BY <1>2, CallsExist
  <2> QED
    BY <2>1
<1> HIDE DEF f
<1>4. \A n \in 0 .. Len(k) : f[n] = Call(text, cache, k, n, f[n - 1])
  BY <1>3 DEF Calls
<1>5. f[0] = Answer(Whole(text), cache)
  BY <1>2, <1>4, FirstCall
<1>6. \A n \in 1 .. Len(k) : f[n] = Call(text, cache, k, n, f[n - 1])
  BY <1>2, <1>4
<1> QED
  BY <1>1, <1>5, <1>6 DEF Finding

\* The paths above a path, by their lengths.
LEMMA Beginnings ==
  ASSUME NEW k \in Path, NEW n \in 1 .. Len(k)
  PROVE  /\ SubSeq(k, 1, n) \in Path /\ Len(SubSeq(k, 1, n)) = n
         /\ Front(SubSeq(k, 1, n)) = SubSeq(k, 1, n - 1)
<1>1. k \in Seq(STRING) /\ Len(k) \in Nat /\ n \in Nat /\ n <= Len(k) /\ n - 1 \in Nat
  BY DEF Path
<1> DEFINE s == SubSeq(k, 1, n)  t == SubSeq(k, 1, n - 1)
<1>2. s \in Seq(STRING) /\ Len(s) = n /\ \A i \in 1 .. n : s[i] = k[i]
  BY <1>1
<1>3. t \in Seq(STRING) /\ Len(t) = n - 1 /\ \A i \in 1 .. n - 1 : t[i] = k[i]
  <2> DEFINE m == n - 1
  <2>1. m \in Nat /\ m <= Len(k)
    BY <1>1
  <2> HIDE DEF m
  <2>2. /\ SubSeq(k, 1, m) \in Seq(STRING) /\ Len(SubSeq(k, 1, m)) = m
        /\ \A i \in 1 .. m : SubSeq(k, 1, m)[i] = k[i]
    BY <1>1, <2>1
  <2> QED
    BY <2>2 DEF m
<1> HIDE DEF s, t
<1>4. s \in Path
  BY <1>1, <1>2, EmptySeq DEF Path
<1>5. /\ Front(s) \in Seq(STRING) /\ Len(Front(s)) = n - 1
      /\ \A i \in 1 .. n - 1 : Front(s)[i] = s[i]
  <2>1. Front(s) \in Seq(STRING) /\ Len(Front(s)) = n - 1 /\ SelfOrChild(s, Front(s))
    BY <1>2, <1>4, FrontIs
  <2> QED
    BY <1>2, <2>1, PrefixIs
<1>6. Front(s) = t
  <2>1. \A i \in 1 .. Len(Front(s)) : Front(s)[i] = t[i]
    BY <1>1, <1>2, <1>3, <1>5
  <2> QED
    BY <1>3, <1>5, <2>1, SeqEqual
<1> QED
  BY <1>2, <1>4, <1>6 DEF s, t

\* Whatever is in the cache, if it is right, a search finds the element, and
\* what is in the cache afterwards is right again.
LEMMA FindPlace ==
  ASSUME NEW text, NEW P, NEW o, NEW c, Laid(text, P, o, c), NEW k \in Path,
         NEW cache, CacheOK(text, P, o, c, cache)
  PROVE  /\ find_key_noedit(text, cache, k).span = Place(text, P, o, c, k)
         /\ CacheOK(text, P, o, c, find_key_noedit(text, cache, k).cache)
<1>0. PICK f : Finding(text, cache, k, f)
  BY FindIs
<1>1. /\ find_key_noedit(text, cache, k) = f[Len(k)]
      /\ f[0] = Answer(Whole(text), cache)
      /\ \A n \in 1 .. Len(k) : f[n] = Call(text, cache, k, n, f[n - 1])
  BY <1>0 DEF Finding
<1>2. k \in Seq(STRING) /\ Len(k) \in Nat
  BY DEF Path
<1> DEFINE Right(n) == /\ f[n].span = Place(text, P, o, c, SubSeq(k, 1, n))
                       /\ CacheOK(text, P, o, c, f[n].cache)
           T == {n \in Nat : n <= Len(k) => Right(n)}
<1>3. 0 \in T
  <2>1. SubSeq(k, 1, 0) = <<>>
    BY SubSeqEmpty
  <2>2. Whole(text) = Place(text, P, o, c, SubSeq(k, 1, 0))
    BY <2>1 DEF Whole, Place, Lo, Hi
  <2>3. f[0].span = Whole(text) /\ f[0].cache = cache
    BY <1>1 DEF Answer
  <2> QED
    BY <2>2, <2>3
<1>4. ASSUME NEW m \in Nat, m \in T PROVE m + 1 \in T
  <2> SUFFICES ASSUME m + 1 <= Len(k) PROVE Right(m + 1)
    OBVIOUS
  <2> DEFINE n == m + 1  path == SubSeq(k, 1, n)  before == f[m]
             hit == cache_get(cache, path)
  <2>1. n \in 1 .. Len(k) /\ n - 1 = m /\ n \in Nat \ {0} /\ m <= Len(k)
    BY <1>2
  <2>2. path \in Path /\ Len(path) = n /\ Front(path) = SubSeq(k, 1, m)
    BY <2>1, Beginnings
  <2>3. before.span = Place(text, P, o, c, Front(path)) /\ CacheOK(text, P, o, c, before.cache)
    BY <1>4, <2>1, <2>2
  <2>4. f[n] = IF hit # None THEN Answer(hit, cache)
               ELSE IF before.span = None THEN before ELSE In(text, before, path)
    <3>1. f[n] = Call(text, cache, k, n, before)
      BY <1>1, <2>1
    <3> HIDE DEF n, before
    <3>2. Call(text, cache, k, n, before)
             = IF hit # None THEN Answer(hit, cache)
               ELSE IF before.span = None THEN before ELSE In(text, before, path)
      BY <2>1, NextCall
    <3> QED
      BY <3>1, <3>2
  <2> HIDE DEF path, before, hit
  <2>5. CASE hit # None
    <3>1. hit = Place(text, P, o, c, path)
      BY <2>5, CacheHit DEF hit
    <3> QED
      BY <2>4, <2>5, <3>1 DEF Answer, n, path
  <2>6. CASE hit = None /\ before.span = None
    <3>0. Place(text, P, o, c, Front(path)) = None <=> Front(path) \notin P \cup {<<>>}
      BY PlaceIs
    <3>1. Front(path) \notin P \cup {<<>>}
      BY <2>3, <2>6, <3>0
    <3>2. path \notin P \cup {<<>>}
      BY <2>2, <3>1, FrontIs DEF Laid, Path
    <3>3. Place(text, P, o, c, path) = None
      BY <3>2 DEF Place
    <3> QED
      BY <2>3, <2>4, <2>6, <3>3 DEF n, path
  <2>7. CASE hit = None /\ before.span # None
    <3>1. Front(path) \in P \cup {<<>>}
      BY <2>3, <2>7 DEF Place
    <3>2. /\ In(text, before, path).span = Place(text, P, o, c, path)
          /\ CacheOK(text, P, o, c, In(text, before, path).cache)
      BY <2>2, <2>3, <3>1, InIs
    <3> QED
      BY <2>4, <2>7, <3>2 DEF n, path
  <2> QED
    BY <2>5, <2>6, <2>7
<1>5. Nat \subseteq T
  <2> HIDE DEF T
  <2> QED
    BY <1>3, <1>4, NatInd
<1>6. Right(Len(k))
  BY <1>2, <1>5
<1>7. SubSeq(k, 1, Len(k)) = k
  BY <1>2, SubSeqFull
<1> QED
  BY <1>1, <1>6, <1>7

\* The text that is found is the one behind the tag that opens the element.
LEMMA TextInIs ==
  ASSUME NEW text, NEW P, NEW o, NEW c, Laid(text, P, o, c), NEW k \in Path
  PROVE  TextIn(text, Place(text, P, o, c, k))
            = IF k \in P THEN TextAfter(text, o[k]) ELSE None
<1>1. k # <<>>
  BY DEF Path
<1>2. CASE k \notin P
  BY <1>1, <1>2 DEF TextIn, Place
<1>3. CASE k \in P
  <2> DEFINE span == Place(text, P, o, c, k)
  <2>1. span = Span(o[k] + 1, c[k]) /\ span # None
    BY <1>1, <1>3, PlaceIs DEF Place, Lo, Hi
  <2> HIDE DEF span
  <2>2. span.from = o[k] + 1 /\ span.to = c[k]
    BY <2>1 DEF Span
  <2>3. /\ Len(text) \in Nat /\ o[k] \in 1 .. Len(text) /\ c[k] \in 1 .. Len(text) /\ o[k] < c[k]
        /\ text[c[k]].type = "close"
    BY <1>3 DEF Laid
  <2>4. o[k] < Len(text)
    BY <2>3
  <2>5. (o[k] + 1 < c[k] /\ IsA(text, "value", o[k] + 1)) <=> IsA(text, "value", o[k] + 1)
    <3>1. o[k] + 1 = c[k] \/ o[k] + 1 < c[k]
      BY <2>3
    <3> QED
      BY <2>3, <3>1 DEF IsA
  <2> QED
    BY <1>3, <2>1, <2>2, <2>4, <2>5 DEF TextIn, TextAfter, span
<1> QED
  BY <1>2, <1>3

\* The path of the total.
LEMMA TotalIs ==
  /\ TotalKey \in Seq(STRING) /\ Len(TotalKey) = Len(List) + 1 /\ Len(List) \in Nat
  /\ TotalKey[Len(List) + 1] = TotalTag
  /\ \A i \in 1 .. Len(List) : TotalKey[i] = List[i]
<1>1. List \in Seq(STRING) /\ TotalTag \in STRING
  BY PathAssumption DEF Path
<1>2. Len(List) \in Nat
  BY <1>1
<1>3. /\ TotalKey \in Seq(STRING) /\ Len(TotalKey) = Len(List) + 1
      /\ TotalKey[Len(List) + 1] = TotalTag
  BY <1>1, AppendProperties, Zenon DEF TotalKey
<1>4. \A i \in 1 .. Len(List) : TotalKey[i] = List[i]
  BY <1>1 DEF TotalKey
<1> QED
  BY <1>2, <1>3, <1>4

\* The paths of the list.
LEMMA ListPaths ==
  ASSUME TagsApart, NEW n \in Nat, NEW sub \in Seq(STRING)
  PROVE  /\ TotalKey \in Path /\ ItemKey(n) \in Path /\ ItemKey(n) \o sub \in Path
         /\ SelfOrChild(ItemKey(n) \o sub, List) /\ SelfOrChild(TotalKey, List)
         /\ Len(TotalKey) = Len(List) + 1
         /\ ItemKey(n) \o sub # List
         /\ ~SelfOrChild(ItemKey(n) \o sub, TotalKey)
         /\ ~SelfOrChild(TotalKey, ItemKey(n) \o sub)
<1>1. /\ List \in Seq(STRING) /\ List # <<>> /\ TotalTag \in STRING
      /\ ItemTag(n) \in STRING /\ ItemTag(n) # TotalTag
  BY PathAssumption DEF TagsApart, Path
<1> DEFINE item == ItemKey(n) \o sub  l == Len(List)
<1>2. /\ TotalKey \in Seq(STRING) /\ Len(TotalKey) = l + 1 /\ l \in Nat
      /\ TotalKey[l + 1] = TotalTag /\ \A i \in 1 .. l : TotalKey[i] = List[i]
  BY TotalIs
<1>3. /\ ItemKey(n) \in Seq(STRING) /\ Len(ItemKey(n)) = l + 1
      /\ ItemKey(n)[l + 1] = ItemTag(n) /\ \A i \in 1 .. l : ItemKey(n)[i] = List[i]
  BY <1>1 DEF ItemKey
<1>4. /\ item \in Seq(STRING) /\ Len(item) >= l + 1 /\ Len(item) \in Nat
      /\ item[l + 1] = ItemTag(n) /\ \A i \in 1 .. l : item[i] = List[i]
  <2> HIDE <1>1
  <2>1. item \in Seq(STRING) /\ Len(item) = l + 1 + Len(sub)
    BY <1>3, ConcatProperties
  <2>2. \A i \in 1 .. l + 1 : item[i] = ItemKey(n)[i]
    BY <1>3, ConcatProperties
  <2> QED
    BY <1>2, <1>3, <2>1, <2>2
<1> HIDE DEF item
<1>5. TotalKey \in Path /\ ItemKey(n) \in Path /\ item \in Path /\ item # List
  BY <1>1, <1>2, <1>3, <1>4 DEF Path
<1>6. SelfOrChild(item, List) /\ SelfOrChild(TotalKey, List)
  BY <1>1, <1>2, <1>4, PrefixIs
<1>7. ~SelfOrChild(item, TotalKey) /\ ~SelfOrChild(TotalKey, item)
  <2>1. l + 1 \in 1 .. Len(TotalKey) /\ l + 1 \in 1 .. Len(item)
    BY <1>2, <1>4
  <2>2. TotalKey[l + 1] # item[l + 1]
    BY <1>1, <1>2, <1>4
  <2> QED
    BY <1>2, <1>4, <2>1, <2>2, PrefixIs
<1> QED
  BY <1>2, <1>5, <1>6, <1>7 DEF item

\* What is above the total is the list, or above it.
LEMMA AboveTotal ==
  ASSUME NEW q \in Path, SelfOrChild(TotalKey, q), q # TotalKey
  PROVE  SelfOrChild(List, q)
<1>1. List \in Seq(STRING) /\ TotalTag \in STRING /\ q \in Seq(STRING)
  BY PathAssumption DEF Path
<1> DEFINE l == Len(List)
<1>2. /\ TotalKey \in Seq(STRING) /\ Len(TotalKey) = l + 1 /\ l \in Nat
      /\ \A i \in 1 .. l : TotalKey[i] = List[i]
  BY <1>1, TotalIs
<1>3. Len(q) <= l + 1 /\ \A i \in 1 .. Len(q) : q[i] = TotalKey[i]
  BY <1>1, <1>2, PrefixIs
<1>4. Len(q) # l + 1
  BY <1>1, <1>2, <1>3, SeqEqual
<1>5. Len(q) \in Nat /\ Len(q) <= l
  BY <1>1, <1>2, <1>3, <1>4
<1>6. \A i \in 1 .. Len(q) : q[i] = List[i]
  BY <1>2, <1>3, <1>5
<1> QED
  BY <1>1, <1>5, <1>6, PrefixIs

-----------------------------------------------------------------------------
(* The text that was parsed.                                               *)

\* The text of an element is a value or empty.
LEMMA TextType ==
  ASSUME NEW text \in Seq(TextToken), NEW i \in DOMAIN text
  PROVE  TextAfter(text, i) \in Nat \cup {Empty}
<1>1. CASE i < Len(text) /\ IsA(text, "value", i + 1)
  <2>1. text[i + 1] \in TextToken
    BY <1>1
  <2>2. text[i + 1].value \in Nat \cup {Empty}
    BY <2>1, TokenIs
  <2> QED
    BY <1>1, <2>2 DEF TextAfter
<1>2. CASE ~(i < Len(text) /\ IsA(text, "value", i + 1))
  BY <1>2 DEF TextAfter
<1> QED
  BY <1>1, <1>2

\* It has an element at every path of its tags, with the text behind the tag.
Shows(text, P, o, c, d) ==
    /\ Laid(text, P, o, c) /\ DOMAIN d = P
    /\ \A k \in P : d[k] = TextAfter(text, o[k])

\* All elements of the text that was parsed are found, and no others.
LEMMA OriginalIs ==
  \E P, o, c : Shows(Source, P, o, c, Original) /\ SourcePaths = P
<1>1. PICK P, o, c : /\ Laid(Source, P, o, c)
                     /\ P = {Source[i].key : i \in Tags(Source, "open")}
  BY SourceAssumption, LaidOut
<1>2. SourcePaths = P /\ P \subseteq Path
  BY <1>1 DEF SourcePaths, Laid
<1>3. ASSUME NEW k \in P
      PROVE  /\ find_key_noedit(Source, cache_init, k).span = Place(Source, P, o, c, k)
             /\ Place(Source, P, o, c, k) # None
             /\ TextIn(Source, Place(Source, P, o, c, k)) = TextAfter(Source, o[k])
  <2>1. k \in Path
    BY <1>2
  <2>2. find_key_noedit(Source, cache_init, k).span = Place(Source, P, o, c, k)
    BY <1>1, <2>1, CacheInit, FindPlace
  <2>3. Place(Source, P, o, c, k) # None
    BY <1>1, PlaceIs
  <2> QED
    BY <1>1, <2>1, <2>2, <2>3, TextInIs
<1>4. DOMAIN Original = P
  BY <1>2, <1>3 DEF Original
<1>5. \A k \in P : Original[k] = TextAfter(Source, o[k])
  BY <1>2, <1>3 DEF Original
<1> QED
  BY <1>1, <1>2, <1>4, <1>5 DEF Shows

\* Paths of the document, and its texts.
LEMMA OriginalPath ==
  /\ DOMAIN Original = SourcePaths /\ SourcePaths \subseteq Path
  /\ \A k \in SourcePaths : Original[k] \in Nat \cup {Empty}
<1>1. PICK P, o, c : Shows(Source, P, o, c, Original) /\ SourcePaths = P
  BY OriginalIs
<1>2. /\ Source \in Seq(TextToken) /\ P \subseteq Path
      /\ \A k \in P : o[k] \in DOMAIN Source /\ Original[k] = TextAfter(Source, o[k])
  BY <1>1 DEF Shows, Laid
<1>3. \A k \in P : Original[k] \in Nat \cup {Empty}
  BY <1>2, TextType
<1> QED
  BY <1>1, <1>2, <1>3 DEF Shows

-----------------------------------------------------------------------------
(* Looking for a path in the records.                                      *)

Edits == [op : Operations, key : Path, value : Nat \cup {Empty}]

Deciding(es, k) == {i \in DOMAIN es : Decides(es[i], k)}
Implied(es, k) == \E i \in DOMAIN es : es[i].op = "append" /\ SelfOrChild(es[i].key, k)

\* The newest record is the one with the least number.
LEMMA NewestIs ==
  ASSUME NEW D, D \subseteq Nat, NEW i \in D, \A j \in D : i <= j
  PROVE  Newest(D) = i
<1>1. i \in Nat /\ \A j \in D : j \in Nat
  OBVIOUS
<1>2. \A j \in D : (\A h \in D : j <= h) => j = i
  BY <1>1
<1> QED
  BY <1>2 DEF Newest, Min

\* The newest record that decides about a path says what is found,
LEMMA FindDecided ==
  ASSUME NEW es \in Seq(Edits), NEW k, NEW i \in Deciding(es, k),
         \A j \in Deciding(es, k) : i <= j
  PROVE  find_key(es, k) = IF es[i].op = "delete" THEN None ELSE es[i].value
<1>1. Deciding(es, k) \subseteq Nat
  BY DEF Deciding
<1>2. Newest(Deciding(es, k)) = i
  BY <1>1, NewestIs
<1> QED
  BY <1>2 DEF find_key, Deciding

\* and without one the text does, or else what was appended below.
LEMMA FindUndecided ==
  ASSUME NEW es, NEW k, Deciding(es, k) = {}
  PROVE  find_key(es, k) = IF k \in DOMAIN Original THEN Original[k]
                           ELSE IF Implied(es, k) THEN Empty ELSE None
BY DEF find_key, Deciding, Implied

\* If any record decides, there is a newest one.
LEMMA NewestExists ==
  ASSUME NEW es \in Seq(Edits), NEW k, Deciding(es, k) # {}
  PROVE  \E i \in Deciding(es, k) : \A j \in Deciding(es, k) : i <= j
<1>1. Deciding(es, k) \subseteq Nat
  BY DEF Deciding
<1> QED
  BY <1>1, NatMin

\* Nothing exists only because something below it was appended: it was
\* appended itself, since missing parents are, or it is older or deleted.
ParentsMade(es) ==
    \A k \in Path : Implied(es, k) => k \in DOMAIN Original \/ Deciding(es, k) # {}

\* The records of an edit in front of the older ones.
LEMMA FrontAbove ==
  ASSUME NEW rs \in Seq(Edits), NEW es \in Seq(Edits)
  PROVE  /\ rs \o es \in Seq(Edits)
         /\ DOMAIN (rs \o es) = 1 .. Len(rs) + Len(es)
         /\ \A i \in 1 .. Len(rs) : (rs \o es)[i] = rs[i]
         /\ \A i \in 1 .. Len(es) : (rs \o es)[i + Len(rs)] = es[i]
OBVIOUS

\* New records leave alone what they do not decide about.
LEMMA FindOlder ==
  ASSUME NEW rs \in Seq(Edits), NEW es \in Seq(Edits), NEW k \in Path,
         ParentsMade(es), ParentsMade(rs \o es), Deciding(rs, k) = {}
  PROVE  find_key(rs \o es, k) = find_key(es, k)
<1> DEFINE all == rs \o es  n == Len(rs)
<1>1. all \in Seq(Edits) /\ n \in Nat
  BY FrontAbove
<1>2. Deciding(all, k) = {i + n : i \in Deciding(es, k)}
  <2>1. ASSUME NEW i \in Deciding(es, k) PROVE i + n \in Deciding(all, k)
    BY <2>1, FrontAbove DEF Deciding
  <2>2. ASSUME NEW j \in Deciding(all, k)
        PROVE  \E i \in Deciding(es, k) : j = i + n
    <3>1. j \in 1 .. n + Len(es) /\ Decides(all[j], k)
      BY <2>2, FrontAbove DEF Deciding
    <3>2. ~(j <= n)
      BY <1>1, <3>1, FrontAbove DEF Deciding
    <3>3. j - n \in 1 .. Len(es) /\ j = (j - n) + n
      BY <1>1, <3>1, <3>2
    <3>4. all[j] = es[j - n]
      BY <3>3, FrontAbove
    <3> QED
      BY <3>1, <3>3, <3>4 DEF Deciding
  <2> QED
    BY <2>1, <2>2
<1>3. CASE Deciding(es, k) = {}
  <2>1. Deciding(all, k) = {}
    BY <1>2, <1>3
  <2>2. k \notin DOMAIN Original => ~Implied(es, k) /\ ~Implied(all, k)
    BY <1>3, <2>1 DEF ParentsMade
  <2> QED
    BY <1>3, <2>1, <2>2, FindUndecided
<1>4. CASE Deciding(es, k) # {}
  <2>1. PICK i \in Deciding(es, k) : \A j \in Deciding(es, k) : i <= j
    BY <1>4, NewestExists
  <2>2. i \in 1 .. Len(es) /\ \A j \in Deciding(es, k) : j \in Nat
    BY <2>1 DEF Deciding
  <2>3. i + n \in Deciding(all, k) /\ \A j \in Deciding(all, k) : i + n <= j
    BY <1>1, <1>2, <2>1, <2>2
  <2>4. all[i + n] = es[i]
    BY <2>2, FrontAbove
  <2>5. find_key(es, k) = IF es[i].op = "delete" THEN None ELSE es[i].value
    BY <2>1, FindDecided
  <2>6. find_key(all, k)
          = IF all[i + n].op = "delete" THEN None ELSE all[i + n].value
    BY <1>1, <2>3, FindDecided
  <2> QED
    BY <2>4, <2>5, <2>6
<1> QED
  BY <1>3, <1>4

\* New records decide before older ones.
LEMMA FindNewer ==
  ASSUME NEW rs \in Seq(Edits), NEW es \in Seq(Edits), NEW k, NEW i \in Deciding(rs, k),
         \A j \in Deciding(rs, k) : i <= j
  PROVE  find_key(rs \o es, k) = IF rs[i].op = "delete" THEN None ELSE rs[i].value
<1> DEFINE all == rs \o es  n == Len(rs)
<1>1. all \in Seq(Edits) /\ n \in Nat /\ Len(es) \in Nat
  BY FrontAbove
<1>2. i \in 1 .. n /\ Decides(rs[i], k)
  BY DEF Deciding
<1>3. all[i] = rs[i] /\ i \in DOMAIN all
  BY <1>1, <1>2, FrontAbove
<1>4. i \in Deciding(all, k)
  BY <1>2, <1>3 DEF Deciding
<1>5. ASSUME NEW j \in Deciding(all, k) PROVE i <= j
  <2>1. j \in 1 .. n + Len(es) /\ Decides(all[j], k)
    BY <1>5, FrontAbove DEF Deciding
  <2>2. CASE j <= n
    <3>1. j \in 1 .. n
      BY <1>1, <2>1, <2>2
    <3>2. j \in Deciding(rs, k)
      BY <2>1, <3>1, FrontAbove DEF Deciding
    <3> QED
      BY <3>2
  <2>3. CASE ~(j <= n)
    BY <1>1, <1>2, <2>1, <2>3
  <2> QED
    BY <2>2, <2>3
<1>6. find_key(all, k) = IF all[i].op = "delete" THEN None ELSE all[i].value
  BY <1>1, <1>4, <1>5, FindDecided
<1> QED
  BY <1>3, <1>6

\* Parents are made by new records if every path above one of them is decided.
LEMMA ParentsKept ==
  ASSUME NEW rs \in Seq(Edits), NEW es \in Seq(Edits), ParentsMade(es),
         \A k \in Path : Implied(rs, k) => \/ k \in DOMAIN Original
                                           \/ Deciding(rs, k) # {}
                                           \/ Deciding(es, k) # {}
  PROVE  ParentsMade(rs \o es)
<1> DEFINE all == rs \o es  n == Len(rs)
<1>1. n \in Nat /\ Len(es) \in Nat
  BY FrontAbove
<1> SUFFICES ASSUME NEW k \in Path, Implied(all, k), k \notin DOMAIN Original
             PROVE  Deciding(all, k) # {}
  BY DEF ParentsMade
<1>2. Implied(rs, k) \/ Implied(es, k)
  <2>1. PICK j \in 1 .. n + Len(es) : all[j].op = "append" /\ SelfOrChild(all[j].key, k)
    BY FrontAbove DEF Implied
  <2>2. CASE j <= n
    <3>1. j \in 1 .. n /\ all[j] = rs[j]
      BY <1>1, <2>1, <2>2, FrontAbove
    <3> QED
      BY <2>1, <3>1 DEF Implied
  <2>3. CASE ~(j <= n)
    <3>1. j - n \in 1 .. Len(es) /\ j = (j - n) + n
      BY <1>1, <2>1, <2>3
    <3>2. all[j] = es[j - n]
      BY <3>1, FrontAbove
    <3> QED
      BY <2>1, <3>1, <3>2 DEF Implied
  <2> QED
    BY <2>2, <2>3
<1>3. Deciding(rs, k) # {} \/ Deciding(es, k) # {}
  BY <1>2 DEF ParentsMade
<1>4. CASE Deciding(rs, k) # {}
  <2>1. PICK i \in 1 .. n : Decides(rs[i], k)
    BY <1>4 DEF Deciding
  <2>2. i \in 1 .. n + Len(es) /\ all[i] = rs[i]
    BY <1>1, <2>1, FrontAbove
  <2> QED
    BY <2>1, <2>2, FrontAbove DEF Deciding
<1>5. CASE Deciding(es, k) # {}
  <2>1. PICK i \in 1 .. Len(es) : Decides(es[i], k)
    BY <1>5 DEF Deciding
  <2>2. i + n \in 1 .. n + Len(es) /\ all[i + n] = es[i]
    BY <1>1, <2>1, FrontAbove
  <2> QED
    BY <2>1, <2>2, FrontAbove DEF Deciding
<1> QED
  BY <1>3, <1>4, <1>5

-----------------------------------------------------------------------------
(* Records that are made by one edit.                                      *)

\* Records are kept in the reverse order, so that the newest is the first.
LEMMA Reversed ==
  ASSUME NEW s \in Seq(Edits)
  PROVE  /\ Reverse(s) \in Seq(Edits) /\ Len(Reverse(s)) = Len(s)
         /\ ToSet(Reverse(s)) = ToSet(s)
<1>1. Reverse(s) = [i \in 1 .. Len(s) |-> s[(Len(s) - i) + 1]]
  BY DEF Reverse
<1>2. \A i \in 1 .. Len(s) : (Len(s) - i) + 1 \in 1 .. Len(s)
  OBVIOUS
<1>3. Reverse(s) \in [1 .. Len(s) -> Edits]
  BY <1>1, <1>2
<1>4. Reverse(s) \in Seq(Edits) /\ Len(Reverse(s)) = Len(s)
  BY <1>3, IsASeq
<1>5. ASSUME NEW i \in 1 .. Len(s) PROVE \E j \in 1 .. Len(s) : Reverse(s)[j] = s[i]
  <2>1. (Len(s) - i) + 1 \in 1 .. Len(s) /\ (Len(s) - ((Len(s) - i) + 1)) + 1 = i
    OBVIOUS
  <2> QED
    BY <1>1, <2>1
<1>6. ASSUME NEW i \in 1 .. Len(s) PROVE \E j \in 1 .. Len(s) : Reverse(s)[i] = s[j]
  BY <1>1, <1>2
<1>7. ToSet(Reverse(s)) = ToSet(s)
  <2>1. ToSet(s) = {s[i] : i \in 1 .. Len(s)}
    BY DEF ToSet
  <2>2. ToSet(Reverse(s)) = {Reverse(s)[i] : i \in 1 .. Len(s)}
    BY <1>1 DEF ToSet
  <2> QED
    BY <1>5, <1>6, <2>1, <2>2
<1> QED
  BY <1>4, <1>7

\* The elements of one sequence behind another.
LEMMA ConcatSet ==
  ASSUME NEW S, NEW s \in Seq(S), NEW t \in Seq(S)
  PROVE  ToSet(s \o t) = ToSet(s) \cup ToSet(t)
<1> DEFINE u == s \o t
<1>1. /\ Len(s) \in Nat /\ Len(t) \in Nat /\ DOMAIN u = 1 .. Len(s) + Len(t)
      /\ \A i \in 1 .. Len(s) : u[i] = s[i]
      /\ \A i \in 1 .. Len(t) : u[i + Len(s)] = t[i]
  OBVIOUS
<1> HIDE DEF u
<1>2. ASSUME NEW i \in DOMAIN u
      PROVE  (\E j \in DOMAIN s : u[i] = s[j]) \/ (\E j \in DOMAIN t : u[i] = t[j])
  <2>1. CASE i <= Len(s)
    BY <1>1, <2>1
  <2>2. CASE ~(i <= Len(s))
    <3>1. i - Len(s) \in 1 .. Len(t) /\ (i - Len(s)) + Len(s) = i
      BY <1>1, <2>2
    <3>2. u[(i - Len(s)) + Len(s)] = t[i - Len(s)] /\ i - Len(s) \in DOMAIN t
      BY <1>1, <3>1
    <3> QED
      BY <3>1, <3>2
  <2> QED
    BY <2>1, <2>2
<1>3. ASSUME NEW j \in DOMAIN s PROVE \E i \in DOMAIN u : u[i] = s[j]
  <2>1. j \in 1 .. Len(s) /\ j \in DOMAIN u
    BY <1>1
  <2>2. u[j] = s[j]
    BY <1>1, <2>1
  <2> QED
    BY <2>1, <2>2
<1>4. ASSUME NEW j \in DOMAIN t PROVE \E i \in DOMAIN u : u[i] = t[j]
  <2>1. j \in 1 .. Len(t) /\ j + Len(s) \in DOMAIN u
    BY <1>1
  <2>2. u[j + Len(s)] = t[j]
    BY <1>1, <2>1
  <2> QED
    BY <2>1, <2>2
<1>5. ToSet(u) = ToSet(s) \cup ToSet(t)
  BY <1>2, <1>3, <1>4 DEF ToSet
<1> QED
  BY <1>5 DEF u

\* Records that delete nothing are found by their keys, in whatever order they
\* were made, if none of them contradicts another.
LEMMA FindWritten ==
  ASSUME NEW rs \in Seq(Edits), NEW es \in Seq(Edits), NEW text,
         \A e \in ToSet(rs) : e.op # "delete" /\ e.value = text[e.key],
         ParentsMade(es), ParentsMade(rs \o es), NEW k \in Path
  PROVE  find_key(rs \o es, k) = IF k \in {e.key : e \in ToSet(rs)} THEN text[k]
                                 ELSE find_key(es, k)
<1>1. \A i \in DOMAIN rs : rs[i] \in ToSet(rs)
  BY DEF ToSet
<1>2. Deciding(rs, k) = {i \in DOMAIN rs : rs[i].key = k}
  BY <1>1 DEF Deciding, Decides
<1>3. CASE k \in {e.key : e \in ToSet(rs)}
  <2>1. Deciding(rs, k) # {}
    BY <1>2, <1>3 DEF ToSet
  <2>2. PICK i \in Deciding(rs, k) : \A j \in Deciding(rs, k) : i <= j
    BY <2>1, NewestExists
  <2>3. rs[i] \in ToSet(rs) /\ rs[i].key = k
    BY <1>1, <1>2, <2>2
  <2>4. find_key(rs \o es, k) = IF rs[i].op = "delete" THEN None ELSE rs[i].value
    BY <2>2, FindNewer
  <2> QED
    BY <1>3, <2>3, <2>4
<1>4. CASE k \notin {e.key : e \in ToSet(rs)}
  <2>1. Deciding(rs, k) = {}
    BY <1>1, <1>2, <1>4
  <2> QED
    BY <1>4, <2>1, FindOlder
<1> QED
  BY <1>3, <1>4

\* What is found after an edit that deletes nothing, told by what it records.
LEMMA Recorded ==
  ASSUME NEW records \in Seq(Edits), NEW es \in Seq(Edits), ParentsMade(es), NEW text,
         \A e \in ToSet(records) : e.op # "delete" /\ e.value = text[e.key],
         \A e \in ToSet(records), p \in Path :
             e.op = "append" /\ SelfOrChild(e.key, p)
                => p \in {f.key : f \in ToSet(records)} \/ Exists(es, p)
  PROVE  LET now == Reverse(records) \o es
         IN  /\ now \in Seq(Edits) /\ ParentsMade(now)
             /\ \A p \in Path : find_key(now, p)
                    = IF p \in {e.key : e \in ToSet(records)} THEN text[p]
                      ELSE find_key(es, p)
<1> DEFINE rs == Reverse(records)
<1>1. rs \in Seq(Edits) /\ ToSet(rs) = ToSet(records)
  BY Reversed
<1> HIDE DEF rs
<1>2. ASSUME NEW p \in Path, Implied(rs, p)
      PROVE  \/ p \in DOMAIN Original \/ Deciding(rs, p) # {} \/ Deciding(es, p) # {}
  <2>1. PICK i \in DOMAIN rs : rs[i].op = "append" /\ SelfOrChild(rs[i].key, p)
    BY <1>2 DEF Implied
  <2>2. rs[i] \in ToSet(records)
    BY <1>1 DEF ToSet
  <2>3. CASE p \in {f.key : f \in ToSet(records)}
    <3>1. PICK f \in ToSet(rs) : f.key = p /\ f.op # "delete"
      BY <1>1, <2>3
    <3>2. PICK j \in DOMAIN rs : rs[j] = f
      BY DEF ToSet
    <3> QED
      BY <3>1, <3>2 DEF Deciding, Decides
  <2>4. CASE Exists(es, p)
    <3>1. CASE Deciding(es, p) = {}
      BY <2>4, <3>1, FindUndecided DEF Exists, ParentsMade
    <3> QED
      BY <3>1
  <2> QED
    BY <2>1, <2>2, <2>3, <2>4
<1>3. ParentsMade(rs \o es)
  BY <1>1, <1>2, ParentsKept
<1>4. \A p \in Path : find_key(rs \o es, p)
          = IF p \in {e.key : e \in ToSet(rs)} THEN text[p] ELSE find_key(es, p)
  BY <1>1, <1>3, FindWritten
<1>5. rs \o es \in Seq(Edits)
  BY <1>1, FrontAbove
<1> QED
  BY <1>1, <1>3, <1>4, <1>5 DEF rs

-----------------------------------------------------------------------------
(* The document.                                                           *)

\* What is found is a text or nothing.
LEMMA FindType ==
  ASSUME NEW es \in Seq(Edits), NEW k PROVE find_key(es, k) \in Nat \cup {Empty, None}
<1>1. CASE Deciding(es, k) = {}
  BY <1>1, FindUndecided, OriginalPath
<1>2. CASE Deciding(es, k) # {}
  <2>1. PICK i \in Deciding(es, k) : \A j \in Deciding(es, k) : i <= j
    BY <1>2, NewestExists
  <2>2. find_key(es, k) = IF es[i].op = "delete" THEN None ELSE es[i].value
    BY <2>1, FindDecided
  <2>3. es[i] \in Edits
    BY DEF Deciding
  <2>4. es[i].value \in Nat \cup {Empty}
    BY <2>3 DEF Edits
  <2> QED
    BY <2>2, <2>4
<1> QED
  BY <1>1, <1>2

\* What a list of records shows, wherever it is looked for.
Shown(es) == [k \in {p \in Path : Exists(es, p)} |-> find_key(es, k)]

\* The inductive invariant.
XmlInv == edits \in Seq(Edits) /\ ParentsMade(edits)

\* Only what the text or the records name can be found.
LEMMA DocumentShown == XmlInv => Document = Shown(edits)
<1> SUFFICES ASSUME XmlInv PROVE Document = Shown(edits)
  OBVIOUS
<1>1. ASSUME NEW p \in KnownPaths PROVE p \in Path
  <2>1. CASE p \in SourcePaths
    BY <2>1, OriginalPath
  <2>2. CASE \E i \in DOMAIN edits : p \in {edits[i].key} \cup ToSet(Above(edits[i].key))
    <3>1. PICK i \in DOMAIN edits : p \in {edits[i].key} \cup ToSet(Above(edits[i].key))
      BY <2>2
    <3>2. edits[i] \in Edits
      BY DEF XmlInv
    <3>3. edits[i].key \in Path
      BY <3>2 DEF Edits
    <3> QED
      BY <3>1, <3>3, AboveType DEF ToSet
  <2> QED
    BY <1>1, <2>1, <2>2 DEF KnownPaths
<1>2. ASSUME NEW p \in Path, Exists(edits, p) PROVE p \in KnownPaths
  <2>1. CASE Deciding(edits, p) = {}
    BY <1>2, <2>1, FindUndecided, OriginalPath DEF Exists, XmlInv, ParentsMade, KnownPaths
  <2>2. CASE Deciding(edits, p) # {}
    <3>1. PICK i \in Deciding(edits, p) : \A j \in Deciding(edits, p) : i <= j
      BY <2>2, NewestExists DEF XmlInv
    <3>2. edits[i].op # "delete"
      BY <1>2, <3>1, FindDecided DEF Exists, XmlInv
    <3>3. i \in DOMAIN edits /\ edits[i].key = p
      BY <3>2 DEF Deciding, Decides
    <3> QED
      BY <3>3 DEF KnownPaths
  <2> QED
    BY <2>1, <2>2
<1>3. {p \in KnownPaths : Exists(edits, p)} = {p \in Path : Exists(edits, p)}
  BY <1>1, <1>2
<1> QED
  BY <1>3 DEF Document, Shown

\* A key stands for a path.
LEMMA ExpandedType ==
  ASSUME TagsApart, NEW key \in Keys, NEW n \in Nat
  PROVE  Expanded(key, n) \in Path
<1>1. CASE key.kind = "path"
  BY <1>1, PathAssumption DEF Keys, Expanded
<1>2. CASE key.kind \in {"+", "$"}
  <2>1. key.path \in Seq(STRING)
    BY <1>2, PathAssumption DEF Keys
  <2>2. n + 1 \in Nat
    OBVIOUS
  <2> QED
    BY <1>2, <2>1, <2>2, ListPaths DEF Expanded
<1>3. CASE key.kind = "#"
  BY <1>3, ListPaths, EmptySeq DEF Expanded
<1> QED
  BY <1>1, <1>2, <1>3 DEF Keys

\* The total of the records is the one of the document.
LEMMA TotalShown ==
  ASSUME TagsApart
  PROVE  XmlInv => Total = Doc!Total /\ Total \in Nat
<1> SUFFICES ASSUME XmlInv PROVE Total = Doc!Total /\ Total \in Nat
  OBVIOUS
<1>1. TotalKey \in Path
  BY ListPaths, EmptySeq
<1>2. Document = Shown(edits)
  BY DocumentShown
<1>3. TotalKey \in DOMAIN Document <=> find_key(edits, TotalKey) # None
  BY <1>1, <1>2 DEF Shown, Exists
<1>4. TotalKey \in DOMAIN Document => Document[TotalKey] = find_key(edits, TotalKey)
  BY <1>1, <1>2 DEF Shown
<1>5. Number(None) = 0
  BY NoneAssumption DEF Number
<1> QED
  BY <1>3, <1>4, <1>5 DEF Total, Doc!Total, Number, Doc!Number, TotalKey, Doc!TotalKey

-----------------------------------------------------------------------------
(* Every edit changes the document at once.                                *)

\* Without a lack of memory an edit records all or nothing.
LEMMA RecordAll ==
  ASSUME ~MemoryFails, NEW records, Record(Made(records))
  PROVE  edits' = Reverse(records) \o edits
BY DEF Record, Made

\* A set of numbers is all that is in ascending order.
LEMMA AscendingSet ==
  ASSUME NEW S, NEW s \in Ascending(S)
  PROVE  /\ DOMAIN s = 1 .. Cardinality(S)
         /\ {s[i] : i \in DOMAIN s} = S
BY DEF Ascending, ToSet

\* The records of missing parents.
LEMMA ParentsType ==
  ASSUME NEW k \in Path,
         NEW missing \in SUBSET DOMAIN Above(k), NEW down \in Ascending(missing)
  PROVE  LET parents == [i \in DOMAIN down |-> Edit("append", Above(k)[down[i]], Empty)]
         IN  /\ parents \in Seq(Edits)
             /\ ToSet(parents) = {Edit("append", p, Empty) : p \in {Above(k)[i] : i \in missing}}
<1> DEFINE above == {Above(k)[i] : i \in missing}
           parents == [i \in DOMAIN down |-> Edit("append", Above(k)[down[i]], Empty)]
<1>1. DOMAIN down = 1 .. Cardinality(missing) /\ {down[i] : i \in DOMAIN down} = missing
  BY AscendingSet
<1>2. Cardinality(missing) \in Nat
  <2>1. missing \subseteq 1 .. Len(k) - 1 /\ Len(k) - 1 \in Int
    BY AboveType DEF Path
  <2>2. IsFiniteSet(1 .. Len(k) - 1)
    BY <2>1, FS_Interval
  <2>3. IsFiniteSet(missing)
    BY <2>1, <2>2, FS_Subset
  <2> QED
    BY <2>3, FS_CardinalityType
<1>3. \A p \in above : Edit("append", p, Empty) \in Edits
  <2>1. above \subseteq Path
    BY AboveType
  <2> QED
    BY <2>1 DEF Edit, Edits, Operations
<1>4. ASSUME NEW i \in DOMAIN down PROVE Above(k)[down[i]] \in above
  BY <1>1
<1>5. parents \in [1 .. Cardinality(missing) -> Edits]
  BY <1>1, <1>3, <1>4
<1>6. parents \in Seq(Edits)
  <2> HIDE DEF parents
  <2> QED
    BY <1>2, <1>5, IsASeq
<1>7. ToSet(parents) = {Edit("append", Above(k)[down[i]], Empty) : i \in DOMAIN down}
  BY DEF ToSet
<1>8. ASSUME NEW p \in above PROVE \E i \in DOMAIN down : Above(k)[down[i]] = p
  BY <1>1
<1> HIDE DEF parents, above
<1>9. ToSet(parents) = {Edit("append", p, Empty) : p \in above}
  BY <1>4, <1>7, <1>8
<1> QED
  BY <1>6, <1>9 DEF parents, above

\* An insertion adds the element, what counts it and the elements above it.
LEMMA AppendShown ==
  ASSUME ~MemoryFails, TagsApart, XmlInv, NEW key \in Keys, NEW v \in Values,
         mxml_append(key, v)
  PROVE  LET k == PathOf(key)
             counted == IF key.kind = "+" THEN {TotalKey} ELSE {}
             d == Shown(edits)
         IN  /\ XmlInv'
             /\ k \notin DOMAIN d
             /\ Shown(edits') =
                   [p \in DOMAIN d \cup {k} \cup counted \cup ToSet(Above(k)) |->
                       IF p = k THEN v
                       ELSE IF p \in counted THEN Total + 1
                       ELSE IF p \in DOMAIN d THEN d[p] ELSE Empty]
<1> DEFINE k == PathOf(key)
           counted == IF key.kind = "+" THEN {TotalKey} ELSE {}
           missing == {i \in DOMAIN Above(k) : ~Exists(edits, Above(k)[i])}
           above == {Above(k)[i] : i \in missing}
           keys == above \cup counted \cup {k}
           text == [p \in Path |-> IF p = k THEN v
                                   ELSE IF p \in counted THEN Total + 1 ELSE Empty]
           total == Edit(IF Exists(edits, TotalKey) THEN "set" ELSE "append",
                         TotalKey, Total + 1)
           count == IF key.kind # "+" THEN <<>> ELSE <<total>>
           item == <<Edit("append", k, v)>>
<1>1. k \in Path /\ Total \in Nat
  BY TotalShown, ExpandedType DEF PathOf
<1>2. v \in Nat \cup {Empty} /\ v # None /\ Empty # None /\ Total + 1 # None
      /\ Total + 1 \in Nat
  BY <1>1, ValueAssumption, NoneAssumption
<1>3. /\ counted \subseteq Path /\ k \notin counted
      /\ \A p \in counted : p \notin ToSet(Above(k))
      /\ \A p \in counted, q \in Path :
             SelfOrChild(p, q) /\ q # p => q \in ToSet(Above(k))
  <2>1. CASE key.kind # "+"
    BY <2>1
  <2>2. CASE key.kind = "+"
    <3>1. key.path \in Seq(STRING)
      BY <2>2, PathAssumption DEF Keys
    <3>2. k = ItemKey(Total + 1) \o key.path
      BY <2>2 DEF PathOf, Expanded
    <3>3. /\ TotalKey \in Path /\ SelfOrChild(k, List) /\ k # List
          /\ ~SelfOrChild(k, TotalKey) /\ ~SelfOrChild(TotalKey, k)
          /\ Len(TotalKey) = Len(List) + 1
      BY <1>2, <3>1, <3>2, ListPaths
    <3> HIDE DEF k
    <3>4. TotalKey # k
      BY <1>1, <3>3, PrefixSelf DEF Path
    <3>5. TotalKey \notin ToSet(Above(k))
      BY <1>1, <3>3, AboveIs
    <3>6. ASSUME NEW q \in Path, SelfOrChild(TotalKey, q), q # TotalKey
          PROVE  q \in ToSet(Above(k))
      <4>1. List \in Path
        BY PathAssumption
      <4>2. SelfOrChild(List, q)
        BY <3>6, <4>1, AboveTotal
      <4>3. SelfOrChild(k, q)
        BY <1>1, <3>3, <4>1, <4>2, PrefixTrans DEF Path
      <4>4. q # k
        BY <1>1, <3>3, <3>6
      <4> QED
        BY <1>1, <4>3, <4>4, AboveIs
    <3> QED
      BY <2>2, <3>3, <3>4, <3>5, <3>6
  <2> QED
    BY <2>1, <2>2
<1> HIDE DEF k, counted
<1>4. above \subseteq ToSet(Above(k)) /\ above \subseteq Path /\ k \notin ToSet(Above(k))
  <2>1. above \subseteq ToSet(Above(k)) /\ ToSet(Above(k)) \subseteq Path
    BY <1>1, AboveType DEF ToSet
  <2> QED
    BY <1>1, <2>1, AboveIs
<1>5. PICK down \in Ascending(missing) :
          LET parents == [i \in DOMAIN down |-> Edit("append", Above(k)[down[i]], Empty)]
          IN  Record(Made(parents \o count \o item)
                        \cup IF MemoryFails THEN {parents \o item} ELSE {})
  BY DEF mxml_append, k
<1> DEFINE parents == [i \in DOMAIN down |-> Edit("append", Above(k)[down[i]], Empty)]
           records == parents \o count \o item
           now == Reverse(records) \o edits
<1>6. edits' = now
  <2>1. Record(Made(records))
    BY <1>5
  <2> HIDE DEF records
  <2> QED
    BY <2>1, RecordAll
<1>7. parents \in Seq(Edits) /\ ToSet(parents) = {Edit("append", p, Empty) : p \in above}
  <2> HIDE DEF parents
  <2>1. parents = [i \in DOMAIN down |-> Edit("append", Above(k)[down[i]], Empty)]
    BY DEF parents
  <2> QED
    BY <1>1, <2>1, ParentsType
<1> HIDE DEF parents
<1>8. /\ count \in Seq(Edits) /\ item \in Seq(Edits)
      /\ ToSet(count) = IF counted = {} THEN {} ELSE {total}
      /\ ToSet(item) = {Edit("append", k, v)}
  <2>1. total \in Edits /\ Edit("append", k, v) \in Edits
    BY <1>1, <1>2, ListPaths, EmptySeq DEF Edit, Edits, Operations
  <2>2. ToSet(count) = IF counted = {} THEN {} ELSE {total}
    BY DEF ToSet, counted
  <2>3. ToSet(item) = {Edit("append", k, v)}
    BY DEF ToSet
  <2> QED
    BY <2>1, <2>2, <2>3
<1> DEFINE made == ToSet(parents) \cup ToSet(count) \cup ToSet(item)
<1>9. records \in Seq(Edits) /\ ToSet(records) = made
  <2> DEFINE both == parents \o count
  <2> HIDE DEF count, item
  <2>1. both \in Seq(Edits) /\ ToSet(both) = ToSet(parents) \cup ToSet(count)
    BY <1>7, <1>8, ConcatSet
  <2> HIDE DEF both
  <2>2. both \o item \in Seq(Edits) /\ ToSet(both \o item) = ToSet(both) \cup ToSet(item)
    BY <1>8, <2>1, ConcatSet
  <2> QED
    BY <2>1, <2>2 DEF both
<1> HIDE DEF records, count, item
<1>10. \A e \in made : \/ e.op = "append" /\ e.key \in above /\ e.value = Empty
                       \/ /\ e.op \in {"set", "append"} /\ e.value = Total + 1
                          /\ e.key \in counted
                       \/ e.op = "append" /\ e.key = k /\ e.value = v
  <2>1. \A e \in ToSet(parents) : e.op = "append" /\ e.key \in above /\ e.value = Empty
    BY <1>7 DEF Edit
  <2>2. \A e \in ToSet(count) : /\ e.op \in {"set", "append"} /\ e.value = Total + 1
                                /\ e.key \in counted
    BY <1>8 DEF Edit, counted
  <2>3. \A e \in ToSet(item) : e.op = "append" /\ e.key = k /\ e.value = v
    BY <1>8 DEF Edit
  <2> QED
    BY <2>1, <2>2, <2>3
<1>11. {e.key : e \in made} = keys
  <2>1. \A p \in above : \E e \in made : e.key = p
    <3> TAKE p \in above
    <3>1. Edit("append", p, Empty) \in made /\ Edit("append", p, Empty).key = p
      BY <1>7 DEF Edit
    <3> QED
      BY <3>1
  <2>2. \A p \in counted : \E e \in made : e.key = p
    <3> TAKE p \in counted
    <3>1. total \in made /\ total.key = p
      BY <1>8 DEF Edit, counted
    <3> QED
      BY <3>1
  <2>3. \E e \in made : e.key = k
    <3>1. Edit("append", k, v) \in made /\ Edit("append", k, v).key = k
      BY <1>8 DEF Edit
    <3> QED
      BY <3>1
  <2> HIDE DEF made, above
  <2> QED
    BY <1>10, <2>1, <2>2, <2>3
<1> HIDE DEF made, text
<1>12. \A e \in made : e.op # "delete" /\ e.value = text[e.key]
  <2>1. \A p \in above : text[p] = Empty
    BY <1>3, <1>4 DEF text
  <2>2. \A p \in counted : text[p] = Total + 1
    BY <1>3 DEF text
  <2>3. text[k] = v
    BY <1>1 DEF text
  <2> QED
    BY <1>10, <2>1, <2>2, <2>3
<1>13. \A p \in ToSet(Above(k)) : p \in above \/ Exists(edits, p)
  BY DEF ToSet
<1>14. \A p \in above : ~Exists(edits, p)
  OBVIOUS
<1>15. ~Exists(edits, k)
  BY DEF mxml_append, k
<1> HIDE DEF above
<1>16. ASSUME NEW e \in made, NEW p \in Path, e.op = "append", SelfOrChild(e.key, p)
       PROVE  p \in keys \/ Exists(edits, p)
  <2>1. CASE p = e.key
    BY <1>11, <2>1
  <2>2. CASE p # e.key
    <3>1. CASE e.key \in counted
      BY <1>3, <1>13, <1>16, <2>2, <3>1
    <3>2. CASE e.key = k
      <4>1. p \in ToSet(Above(k))
        BY <1>1, <1>16, <2>2, <3>2, AboveIs
      <4> QED
        BY <1>13, <4>1
    <3>3. CASE e.key \in above
      <4>1. SelfOrChild(k, e.key) /\ e.key \in Path /\ e.key # k
        BY <1>1, <1>4, <3>3, AboveIs
      <4>2. SelfOrChild(k, p)
        BY <1>1, <1>16, <4>1, PrefixTrans DEF Path
      <4>3. p \in ToSet(Above(k)) \/ p = k
        BY <1>1, <4>2, AboveIs
      <4> QED
        BY <1>13, <4>3
    <3> QED
      BY <1>10, <3>1, <3>2, <3>3
  <2> QED
    BY <2>1, <2>2
<1>17. /\ now \in Seq(Edits) /\ ParentsMade(now)
       /\ \A p \in Path : find_key(now, p) = IF p \in keys THEN text[p]
                                              ELSE find_key(edits, p)
  <2>1. edits \in Seq(Edits) /\ ParentsMade(edits)
    BY DEF XmlInv
  <2> HIDE DEF keys
  <2>2. \A e \in ToSet(records), p \in Path :
            e.op = "append" /\ SelfOrChild(e.key, p)
               => p \in {f.key : f \in ToSet(records)} \/ Exists(edits, p)
    BY <1>9, <1>11, <1>16
  <2>3. \A e \in ToSet(records) : e.op # "delete" /\ e.value = text[e.key]
    BY <1>9, <1>12
  <2> QED
    BY <1>9, <1>11, <2>1, <2>2, <2>3, Recorded
<1> HIDE DEF now
<1>18. \A p \in keys : p \in Path /\ text[p] # None
  <2>1. keys \subseteq Path
    BY <1>1, <1>3, <1>4
  <2> QED
    BY <1>2, <2>1 DEF text
<1>19. {p \in Path : Exists(now, p)} = {p \in Path : Exists(edits, p)} \cup keys
  BY <1>17, <1>18 DEF Exists
<1> DEFINE d == Shown(edits)
<1>20. DOMAIN d = {p \in Path : Exists(edits, p)}
  BY DEF Shown
<1>21. {p \in Path : Exists(now, p)}
          = DOMAIN d \cup {k} \cup counted \cup ToSet(Above(k))
  <2>1. ToSet(Above(k)) \subseteq Path
    BY <1>1, AboveType DEF ToSet
  <2> QED
    BY <1>4, <1>13, <1>19, <1>20, <2>1
<1>22. ASSUME NEW p \in DOMAIN d \cup {k} \cup counted \cup ToSet(Above(k))
       PROVE  find_key(now, p) = IF p = k THEN v
                                 ELSE IF p \in counted THEN Total + 1
                                 ELSE IF p \in DOMAIN d THEN d[p] ELSE Empty
  <2>1. p \in Path
    BY <1>21
  <2>2. CASE p \in keys
    <3>1. find_key(now, p) = text[p]
      BY <1>17, <2>1, <2>2
    <3>2. p \in {k} \cup counted \/ p \notin DOMAIN d
      BY <1>14, <1>20, <2>2
    <3> QED
      BY <2>1, <3>1, <3>2 DEF text
  <2>3. CASE p \notin keys
    <3>1. p \in DOMAIN d /\ p \notin {k} \cup counted
      BY <1>13, <1>20, <2>1, <2>3
    <3>2. find_key(now, p) = find_key(edits, p) /\ d[p] = find_key(edits, p)
      BY <1>17, <1>20, <2>1, <2>3, <3>1 DEF Shown
    <3> QED
      BY <3>1, <3>2
  <2> QED
    BY <2>2, <2>3
<1>23. Shown(now) = [p \in DOMAIN d \cup {k} \cup counted \cup ToSet(Above(k)) |->
                       IF p = k THEN v
                       ELSE IF p \in counted THEN Total + 1
                       ELSE IF p \in DOMAIN d THEN d[p] ELSE Empty]
  <2> HIDE DEF d
  <2> QED
    BY <1>21, <1>22 DEF Shown
<1>24. XmlInv'
  BY <1>6, <1>17 DEF XmlInv
<1>25. k \notin DOMAIN d
  BY <1>15, <1>20
<1> HIDE DEF d
<1> QED
  BY <1>6, <1>23, <1>24, <1>25 DEF d, k, counted

\* One record, and two.
LEMMA OneRecord ==
  ASSUME NEW e \in Edits
  PROVE  /\ <<e>> \in Seq(Edits) /\ ToSet(<<e>>) = {e} /\ Reverse(<<e>>) = <<e>>
         /\ <<e>> \o <<>> = <<e>>
<1>1. <<e>> \in Seq(Edits) /\ ToSet(<<e>>) = {e}
  BY DEF ToSet
<1>2. Reverse(<<e>>) = <<e>>
  BY DEF Reverse
<1>3. <<e>> \o <<>> = <<e>>
  OBVIOUS
<1> QED
  BY <1>1, <1>2, <1>3

\* Of two records the second one is the newer.
LEMMA TwoRecords ==
  ASSUME NEW e \in Edits, NEW f \in Edits, NEW es \in Seq(Edits)
  PROVE  Reverse(<<e>> \o <<f>>) \o es = <<f>> \o (<<e>> \o es)
<1> DEFINE a == <<e>>  b == <<f>>
<1>1. /\ a \in Seq(Edits) /\ Len(a) = 1 /\ a[1] = e
      /\ b \in Seq(Edits) /\ Len(b) = 1 /\ b[1] = f
  OBVIOUS
<1>2. Reverse(a \o b) = b \o a
  <2> HIDE DEF a, b
  <2>1. /\ a \o b \in Seq(Edits) /\ Len(a \o b) = 2 /\ (a \o b)[1] = e /\ (a \o b)[2] = f
        /\ b \o a \in Seq(Edits) /\ Len(b \o a) = 2 /\ (b \o a)[1] = f /\ (b \o a)[2] = e
    <3>1. ASSUME NEW s \in Seq(Edits), NEW t \in Seq(Edits), Len(s) = 1, Len(t) = 1
          PROVE  /\ s \o t \in Seq(Edits) /\ Len(s \o t) = 2
                 /\ (s \o t)[1] = s[1] /\ (s \o t)[2] = t[1]
      <4>1. s \o t \in Seq(Edits) /\ Len(s \o t) = Len(s) + Len(t)
        BY ConcatProperties
      <4>2. 1 \in 1 .. Len(s) /\ 1 \in 1 .. Len(t) /\ 1 + Len(s) = 2 /\ Len(s) + Len(t) = 2
        BY <3>1
      <4>3. (s \o t)[1] = s[1] /\ (s \o t)[1 + Len(s)] = t[1]
        BY <4>2, FrontAbove
      <4> QED
        BY <4>1, <4>2, <4>3
    <3> QED
      BY <1>1, <3>1
  <2> DEFINE r == Reverse(a \o b)
  <2>2. r \in Seq(Edits) /\ Len(r) = 2
    BY <2>1, Reversed
  <2>3. r[1] = f /\ r[2] = e
    BY <2>1 DEF Reverse
  <2> HIDE DEF r
  <2>4. \A i \in 1 .. 2 : r[i] = (b \o a)[i]
    BY <2>1, <2>3
  <2>5. r = b \o a
    BY <2>1, <2>2, <2>4, SeqEqual
  <2> QED
    BY <2>5 DEF r
<1>3. (b \o a) \o es = b \o (a \o es)
  <2> HIDE DEF a, b
  <2> QED
    BY <1>1, ConcatAssociative
<1> QED
  BY <1>2, <1>3

\* A document without what is at a path or below it.
Cut(d, k) == [p \in {q \in DOMAIN d : ~SelfOrChild(q, k)} |-> d[p]]

\* A deletion hides what is below its path and nothing else.
LEMMA DeleteFound ==
  ASSUME NEW es \in Seq(Edits), ParentsMade(es), NEW k \in Path
  PROVE  LET now == <<Edit("delete", k, Empty)>> \o es
         IN  /\ now \in Seq(Edits) /\ ParentsMade(now)
             /\ Shown(now) = Cut(Shown(es), k)
             /\ \A p \in Path : find_key(now, p) = IF SelfOrChild(p, k) THEN None
                                                    ELSE find_key(es, p)
<1> DEFINE e == Edit("delete", k, Empty)  rs == <<e>>  now == rs \o es
<1>1. e \in Edits /\ e.op = "delete" /\ e.key = k
  BY DEF Edit, Edits, Operations
<1> HIDE DEF e
<1>2. rs \in Seq(Edits) /\ DOMAIN rs = {1} /\ rs[1] = e
  BY <1>1
<1> HIDE DEF rs
<1>3. \A p : Deciding(rs, p) = IF SelfOrChild(p, k) THEN {1} ELSE {}
  BY <1>1, <1>2 DEF Deciding, Decides
<1>4. \A p : ~Implied(rs, p)
  BY <1>1, <1>2 DEF Implied
<1>5. now \in Seq(Edits) /\ ParentsMade(now)
  BY <1>2, <1>4, FrontAbove, ParentsKept
<1>6. ASSUME NEW p \in Path
      PROVE  find_key(now, p) = IF SelfOrChild(p, k) THEN None ELSE find_key(es, p)
  <2>1. CASE SelfOrChild(p, k)
    <3>1. 1 \in Deciding(rs, p) /\ \A j \in Deciding(rs, p) : 1 <= j
      BY <1>3, <2>1
    <3>2. find_key(rs \o es, p) = IF rs[1].op = "delete" THEN None ELSE rs[1].value
      BY <1>2, <3>1, FindNewer
    <3> QED
      BY <1>1, <1>2, <2>1, <3>2
  <2>2. CASE ~SelfOrChild(p, k)
    <3>1. Deciding(rs, p) = {}
      BY <1>3, <2>2
    <3>2. find_key(rs \o es, p) = find_key(es, p)
      BY <1>2, <1>5, <3>1, FindOlder
    <3> QED
      BY <2>2, <3>2
  <2> QED
    BY <2>1, <2>2
<1> HIDE DEF now
<1>7. {p \in Path : Exists(now, p)} = {p \in DOMAIN Shown(es) : ~SelfOrChild(p, k)}
  BY <1>6 DEF Exists, Shown
<1>8. Shown(now) = Cut(Shown(es), k)
  BY <1>6, <1>7 DEF Shown, Cut
<1> QED
  BY <1>5, <1>6, <1>8 DEF now, rs, e

\* A new text hides the old one of the same path.
LEMMA SetFound ==
  ASSUME NEW es \in Seq(Edits), ParentsMade(es), NEW k \in DOMAIN Shown(es),
         NEW v \in Nat \cup {Empty}
  PROVE  LET now == <<Edit("set", k, v)>> \o es
         IN  /\ now \in Seq(Edits) /\ ParentsMade(now)
             /\ Shown(now) = [Shown(es) EXCEPT ![k] = v]
<1> DEFINE e == Edit("set", k, v)
           records == <<e>>
           text == [p \in Path |-> v]
           now == records \o es
<1>1. k \in Path /\ Exists(es, k) /\ v # None
  BY NoneAssumption DEF Shown
<1>2. e \in Edits /\ e.op = "set" /\ e.key = k /\ e.value = v
  BY <1>1 DEF Edit, Edits, Operations
<1> HIDE DEF e
<1>3. records \in Seq(Edits) /\ ToSet(records) = {e} /\ Reverse(records) = records
  BY <1>2, OneRecord
<1> HIDE DEF records
<1>4. {f.key : f \in ToSet(records)} = {k}
  BY <1>2, <1>3
<1>5. /\ now \in Seq(Edits) /\ ParentsMade(now)
      /\ \A p \in Path : find_key(now, p)
             = IF p \in {f.key : f \in ToSet(records)} THEN text[p]
               ELSE find_key(es, p)
  <2>1. \A f \in ToSet(records) : f.op # "delete" /\ f.op # "append" /\ f.value = text[f.key]
    BY <1>1, <1>2, <1>3
  <2> HIDE DEF text
  <2> QED
    BY <1>3, <2>1, Recorded
<1> HIDE DEF now
<1>6. \A p \in Path : find_key(now, p) = IF p = k THEN v ELSE find_key(es, p)
  BY <1>4, <1>5
<1>7. \A p \in Path : Exists(now, p) <=> Exists(es, p)
  BY <1>1, <1>6 DEF Exists
<1>8. Shown(now) = [Shown(es) EXCEPT ![k] = v]
  BY <1>1, <1>6, <1>7 DEF Shown
<1> QED
  BY <1>5, <1>8 DEF now, records, e

\* An update changes the text of an element.
LEMMA UpdateShown ==
  ASSUME ~MemoryFails, TagsApart, XmlInv, NEW key \in Keys, NEW v \in Values,
         mxml_update(key, v)
  PROVE  /\ XmlInv'
         /\ key.kind # "#" /\ PathOf(key) \in DOMAIN Shown(edits)
         /\ Shown(edits') = [Shown(edits) EXCEPT ![PathOf(key)] = v]
<1> DEFINE k == PathOf(key)
<1>1. k \in Path
  BY TotalShown, ExpandedType DEF PathOf
<1>2. Record(Made(<<Edit("set", k, v)>>)) /\ Exists(edits, k) /\ key.kind # "#"
  BY DEF mxml_update
<1> HIDE DEF k
<1>3. k \in DOMAIN Shown(edits) /\ v \in Nat \cup {Empty}
  BY <1>1, <1>2, ValueAssumption DEF Shown
<1>4. Edit("set", k, v) \in Edits
  BY <1>1, <1>3 DEF Edit, Edits, Operations
<1>5. edits' = <<Edit("set", k, v)>> \o edits
  BY <1>2, <1>4, RecordAll, OneRecord
<1>6. /\ edits' \in Seq(Edits) /\ ParentsMade(edits')
      /\ Shown(edits') = [Shown(edits) EXCEPT ![k] = v]
  BY <1>3, <1>5, SetFound DEF XmlInv
<1> QED
  BY <1>2, <1>3, <1>6 DEF XmlInv, k

\* The total is what is read back from the path of the last element, unless a
\* digit ends the name of the tag.
LEMMA ReadBackIs == ASSUME TagDigit = 0, NEW n \in Nat PROVE ReadBack(n) = n
BY DEF ReadBack

\* A deletion removes an element with what is below it, and counts it out.
LEMMA DeleteShown ==
  ASSUME ~MemoryFails, TagsApart, TagDigit = 0, XmlInv, NEW key \in Keys,
         mxml_delete(key)
  PROVE  LET k == PathOf(key)
             d == Shown(edits)
             rest == Cut(d, k)
         IN  /\ XmlInv'
             /\ key.kind # "#" /\ k \in DOMAIN d
             /\ Shown(edits') = IF ~IsLastItem(key) \/ TotalKey \notin DOMAIN d THEN rest
                                ELSE IF Total > 1 THEN [rest EXCEPT ![TotalKey] = Total - 1]
                                ELSE Cut(rest, TotalKey)
<1> DEFINE k == PathOf(key)
           d == Shown(edits)
           rest == Cut(d, k)
           e == Edit("delete", k, Empty)
           one == <<e>> \o edits
           left == Total - 1
           total == IF IsLastItem(key) THEN Uncounted(one, left) ELSE <<>>
<1>1. k \in Path /\ Total \in Nat /\ TotalKey \in Path /\ Empty \in Nat \cup {Empty}
  BY TotalShown, ExpandedType, ListPaths, EmptySeq DEF PathOf
<1>2. /\ Record(Made(<<e>> \o total)) /\ Exists(edits, k) /\ key.kind # "#"
  BY <1>1, ReadBackIs DEF mxml_delete
<1>3. IsLastItem(key) => ~SelfOrChild(TotalKey, k)
  <2> SUFFICES ASSUME IsLastItem(key) PROVE ~SelfOrChild(TotalKey, k)
    OBVIOUS
  <2>1. k = ItemKey(Total) \o <<>>
    BY DEF PathOf, Expanded, IsLastItem
  <2> QED
    BY <1>1, <2>1, ListPaths, EmptySeq
<1> HIDE DEF k
<1>4. e \in Edits
  BY <1>1 DEF Edit, Edits, Operations
<1>5. k \in DOMAIN d /\ DOMAIN d \subseteq Path
  BY <1>1, <1>2 DEF Shown
<1>6. edits \in Seq(Edits) /\ ParentsMade(edits)
  BY DEF XmlInv
<1>7. edits' = Reverse(<<e>> \o total) \o edits
  <2> DEFINE records == <<e>> \o total
  <2>1. Record(Made(records))
    BY <1>2
  <2> HIDE DEF records
  <2>2. edits' = Reverse(records) \o edits
    BY <2>1, RecordAll
  <2> QED
    BY <2>2 DEF records
<1>8. /\ one \in Seq(Edits) /\ ParentsMade(one) /\ Shown(one) = rest
      /\ \A p \in Path : find_key(one, p) = IF SelfOrChild(p, k) THEN None
                                            ELSE find_key(edits, p)
  BY <1>1, <1>6, DeleteFound
<1>9. total = <<>> => edits' = one
  BY <1>4, <1>7, OneRecord
<1>10. ASSUME NEW f \in Edits, total = <<f>> PROVE edits' = <<f>> \o one
  BY <1>4, <1>6, <1>7, <1>10, TwoRecords
<1> HIDE DEF e, one
<1>11. CASE ~IsLastItem(key)
  BY <1>2, <1>5, <1>8, <1>9, <1>11 DEF XmlInv, k
<1>12. CASE IsLastItem(key)
  <2>1. Exists(one, TotalKey) <=> TotalKey \in DOMAIN d
    BY <1>1, <1>3, <1>8, <1>12 DEF Exists, Shown
  <2>2. total = Uncounted(one, left)
    BY <1>12
  <2>3. CASE TotalKey \notin DOMAIN d
    <3>1. Total = 0
      BY <1>1, <2>3, NoneAssumption DEF Shown, Exists, Total, Number
    <3>2. total = <<>>
      BY <2>1, <2>2, <2>3, <3>1 DEF Uncounted
    <3> QED
      BY <1>2, <1>5, <1>8, <1>9, <2>3, <3>2 DEF XmlInv, k
  <2>4. CASE TotalKey \in DOMAIN d /\ Total > 1
    <3>1. total = <<Edit("set", TotalKey, left)>> /\ left \in Nat
      <4>1. left \in Nat /\ left > 0 /\ ~(left <= 0) /\ Exists(one, TotalKey)
        BY <1>1, <2>1, <2>4
      <4> HIDE DEF left, total
      <4> QED
        BY <2>2, <4>1 DEF Uncounted
    <3>2. Edit("set", TotalKey, left) \in Edits
      BY <1>1, <3>1 DEF Edit, Edits, Operations
    <3>3. edits' = <<Edit("set", TotalKey, left)>> \o one
      BY <1>10, <3>1, <3>2
    <3>4. TotalKey \in DOMAIN Shown(one)
      BY <1>3, <1>8, <1>12, <2>4 DEF Cut
    <3>5. /\ edits' \in Seq(Edits) /\ ParentsMade(edits')
          /\ Shown(edits') = [rest EXCEPT ![TotalKey] = left]
      BY <1>8, <3>1, <3>3, <3>4, SetFound
    <3> QED
      BY <1>2, <1>5, <1>12, <2>4, <3>5 DEF XmlInv, k
  <2>5. CASE TotalKey \in DOMAIN d /\ ~(Total > 1)
    <3>1. total = <<Edit("delete", TotalKey, Empty)>>
      <4>1. left <= 0 /\ ~(left > 0) /\ Exists(one, TotalKey)
        BY <1>1, <2>1, <2>5
      <4> HIDE DEF left, total
      <4> QED
        BY <2>2, <4>1 DEF Uncounted
    <3>2. Edit("delete", TotalKey, Empty) \in Edits
      BY <1>1 DEF Edit, Edits, Operations
    <3>3. edits' = <<Edit("delete", TotalKey, Empty)>> \o one
      BY <1>10, <3>1, <3>2
    <3>4. /\ edits' \in Seq(Edits) /\ ParentsMade(edits')
          /\ Shown(edits') = Cut(Shown(one), TotalKey)
      BY <1>1, <1>8, <3>3, DeleteFound
    <3> QED
      BY <1>2, <1>5, <1>8, <1>12, <2>5, <3>4 DEF XmlInv, k
  <2> QED
    BY <2>3, <2>4, <2>5
<1> QED
  BY <1>11, <1>12

-----------------------------------------------------------------------------
(* The document that is edited at once.                                    *)

\* The keys mean the same in both.
LEMMA SameKeys ==
  ASSUME TagsApart
  PROVE  /\ Doc!Keys = Keys /\ Doc!TotalKey = TotalKey /\ Doc!Path = Path
         /\ \A p, q : Doc!SelfOrChild(p, q) <=> SelfOrChild(p, q)
         /\ \A p : Doc!Above(p) = Above(p)
         /\ \A key : Doc!IsLastItem(key) <=> IsLastItem(key)
         /\ XmlInv => \A key \in Keys : Doc!PathOf(key) = PathOf(key)
<1>1. Doc!Keys = Keys
  BY DEF Doc!Keys, Keys
<1>2. Doc!TotalKey = TotalKey /\ Doc!Path = Path
  BY DEF Doc!TotalKey, TotalKey, Doc!Path, Path
<1>3. \A p, q : Doc!SelfOrChild(p, q) <=> SelfOrChild(p, q)
  BY DEF Doc!SelfOrChild, SelfOrChild, Doc!IsPrefix, IsPrefix
<1>4. \A p : Doc!Above(p) = Above(p)
  BY DEF Doc!Above, Above
<1>5. \A key : Doc!IsLastItem(key) <=> IsLastItem(key)
  BY DEF Doc!IsLastItem, IsLastItem
<1>6. ASSUME XmlInv, NEW key \in Keys PROVE Doc!PathOf(key) = PathOf(key)
  <2>1. Total = Doc!Total
    BY <1>6, TotalShown
  <2> HIDE DEF Doc!Total
  <2>2. Doc!PathOf(key) = Doc!Expanded(key, Total)
    BY <2>1 DEF Doc!PathOf
  <2>3. \A n : Doc!Expanded(key, n) = Expanded(key, n)
    BY <1>2 DEF Doc!Expanded, Expanded, Doc!ItemKey, ItemKey
  <2> QED
    BY <2>2, <2>3 DEF PathOf
<1> QED
  BY <1>1, <1>2, <1>3, <1>4, <1>5, <1>6

\* At the beginning the document is that of the text.
LEMMA InitDoc == Init => XmlInv /\ Doc!Init
<1> SUFFICES ASSUME Init PROVE XmlInv /\ Doc!Init
  OBVIOUS
<1>1. edits = <<>> /\ edits \in Seq(Edits) /\ DOMAIN edits = {}
  BY EmptySeq DEF Init
<1>2. \A k : Deciding(edits, k) = {} /\ ~Implied(edits, k)
  BY <1>1 DEF Deciding, Implied
<1>3. XmlInv
  BY <1>1, <1>2 DEF XmlInv, ParentsMade
<1>4. \A k : find_key(edits, k) = IF k \in DOMAIN Original THEN Original[k] ELSE None
  BY <1>2, FindUndecided
<1>5. \A k \in DOMAIN Original : k \in Path /\ Original[k] # None
  BY OriginalPath, NoneAssumption
<1>6. {p \in Path : Exists(edits, p)} = DOMAIN Original
  BY <1>4, <1>5 DEF Exists
<1>7. Shown(edits) = [k \in DOMAIN Original |-> Original[k]]
  BY <1>4, <1>6 DEF Shown
<1>8. Original = [k \in DOMAIN Original |-> Original[k]]
  BY DEF Original
<1>9. Document = Original
  BY <1>3, <1>7, <1>8, DocumentShown
<1> QED
  BY <1>3, <1>9 DEF Doc!Init

\* Whatever is done to the list of edits is done to the document at once.
LEMMA ChangeDoc ==
  ASSUME ~MemoryFails, TagsApart, TagDigit = 0, XmlInv, Change \/ UNCHANGED edits
  PROVE  XmlInv' /\ [Doc!Next]_Document
<1>1. Document = Shown(edits)
  BY DocumentShown
<1>2. XmlInv' => Document' = Shown(edits')
  <2>1. (XmlInv => Document = Shown(edits))'
    BY DocumentShown, PTL
  <2>2. Shown(edits)' = Shown(edits')
    BY DEF Shown, Exists, find_key
  <2> QED
    BY <2>1, <2>2
<1>3. CASE UNCHANGED edits
  BY <1>1, <1>2, <1>3 DEF XmlInv
<1>4. ASSUME NEW key \in Keys, NEW v \in Values, mxml_update(key, v)
      PROVE  XmlInv' /\ Doc!Update(key, v)
  BY <1>1, <1>2, <1>4, UpdateShown, SameKeys DEF Doc!Update
<1>5. ASSUME NEW key \in Keys, NEW v \in Values, mxml_append(key, v)
      PROVE  XmlInv' /\ Doc!Insert(key, v)
  <2>1. Doc!ToSet(Above(PathOf(key))) = ToSet(Above(PathOf(key)))
    BY DEF Doc!ToSet, ToSet
  <2>2. Total = Doc!Total
    BY TotalShown
  <2>3. Doc!PathOf(key) = PathOf(key) /\ Doc!TotalKey = TotalKey
        /\ Doc!Above(PathOf(key)) = Above(PathOf(key))
    BY SameKeys
  <2> HIDE DEF Doc!Total
  <2> QED
    BY <1>1, <1>2, <1>5, <2>1, <2>2, <2>3, AppendShown DEF Doc!Insert
<1>6. ASSUME NEW key \in Keys, mxml_delete(key)
      PROVE  XmlInv' /\ Doc!Delete(key)
  <2>1. Total = Doc!Total /\ Doc!TotalKey = TotalKey /\ Doc!PathOf(key) = PathOf(key)
        /\ (Doc!IsLastItem(key) <=> IsLastItem(key))
    BY TotalShown, SameKeys
  <2>2. \A d, q : Doc!Without(d, q) = Cut(d, q)
    BY SameKeys DEF Doc!Without, Cut
  <2> HIDE DEF Doc!Total
  <2> QED
    BY <1>1, <1>2, <1>6, <2>1, <2>2, DeleteShown DEF Doc!Delete
<1>7. CASE Change
  <2>1. ASSUME NEW key \in Keys, NEW v \in Values, mxml_set(key, v)
        PROVE  mxml_append(key, v) \/ mxml_update(key, v)
    BY <2>1 DEF mxml_set
  <2>2. Doc!Keys = Keys
    BY SameKeys
  <2> QED
    BY <1>4, <1>5, <1>6, <1>7, <2>1, <2>2 DEF Change, Doc!Next
<1> QED
  BY <1>3, <1>7

\* The text is edited in no other way than by the four calls.
LEMMA StepEdits == [FNext]_vars => Change \/ UNCHANGED edits
BY DEF FNext, vars, Editing, make_editstates, process_token, Failing

\* The records that are kept instead of a document, and are looked up from the
\* newest, implement the document that is changed at once: for every text,
\* every set of keys and every number of edits, as long as no allocation fails
\* and no digit ends the name of a list's tag.
THEOREM EditsAreDocument ==
  ASSUME ~MemoryFails, TagsApart, TagDigit = 0
  PROVE  FSpec => DocSpec
<1>1. FInit => XmlInv /\ Doc!Init
  BY InitDoc DEF FInit
<1>2. XmlInv /\ [FNext]_vars => XmlInv' /\ [Doc!Next]_Document
  BY ChangeDoc, StepEdits
<1> QED
  BY <1>1, <1>2, PTL DEF FSpec, DocSpec, Doc!Spec

-----------------------------------------------------------------------------
(* Types of what is edited and written.                                    *)

\* Records that could be made are records.
LEMMA MadeType ==
  ASSUME NEW records \in Seq(Edits), NEW r \in Made(records) PROVE r \in Seq(Edits)
<1>1. CASE ~MemoryFails
  BY <1>1 DEF Made
<1>2. CASE MemoryFails
  <2>1. PICK n \in 0 .. Len(records) : r = SubSeq(records, 1, n)
    BY <1>2 DEF Made
  <2> QED
    BY <2>1
<1> QED
  BY <1>1, <1>2

\* What is recorded is as long as the bound allows.
LEMMA RecordType ==
  ASSUME edits \in Seq(Edits), NEW outcomes, outcomes \subseteq Seq(Edits), Record(outcomes)
  PROVE  edits' \in Seq(Edits) /\ Len(edits') <= MaxEdits
<1>1. PICK r \in outcomes : /\ Len(r) + Len(edits) <= MaxEdits
                            /\ edits' = Reverse(r) \o edits
  BY DEF Record
<1>2. r \in Seq(Edits) /\ Reverse(r) \in Seq(Edits) /\ Len(Reverse(r)) = Len(r)
  BY <1>1, Reversed
<1> DEFINE rs == Reverse(r)
<1> HIDE DEF rs
<1>3. rs \o edits \in Seq(Edits) /\ Len(rs \o edits) = Len(rs) + Len(edits)
  BY <1>2, ConcatProperties DEF rs
<1> QED
  BY <1>1, <1>2, <1>3 DEF rs

\* The records of every edit are records, whatever could not be recorded.
LEMMA ChangeType ==
  ASSUME TagsApart, edits \in Seq(Edits), Change
  PROVE  edits' \in Seq(Edits) /\ Len(edits') <= MaxEdits
<1>1. Total \in Nat /\ TotalKey \in Path /\ Empty \in Nat \cup {Empty}
  BY ListPaths, EmptySeq DEF Total, Number
<1>2. ASSUME NEW key \in Keys, NEW v \in Values, mxml_update(key, v)
      PROVE  edits' \in Seq(Edits) /\ Len(edits') <= MaxEdits
  <2>1. PathOf(key) \in Path /\ v \in Nat \cup {Empty}
    BY <1>1, ExpandedType, ValueAssumption DEF PathOf
  <2> DEFINE e == Edit("set", PathOf(key), v)
  <2>2. e \in Edits
    BY <2>1 DEF Edit, Edits, Operations
  <2>3. Record(Made(<<e>>))
    BY <1>2 DEF mxml_update
  <2> HIDE DEF e
  <2>4. <<e>> \in Seq(Edits)
    BY <2>2
  <2>5. Made(<<e>>) \subseteq Seq(Edits)
    BY <2>4, MadeType
  <2> QED
    BY <2>3, <2>5, RecordType
<1>3. ASSUME NEW key \in Keys, NEW v \in Values, mxml_append(key, v)
      PROVE  edits' \in Seq(Edits) /\ Len(edits') <= MaxEdits
  <2> DEFINE k == PathOf(key)
             missing == {i \in DOMAIN Above(k) : ~Exists(edits, Above(k)[i])}
             total == Edit(IF Exists(edits, TotalKey) THEN "set" ELSE "append",
                           TotalKey, Total + 1)
             count == IF key.kind # "+" THEN <<>> ELSE <<total>>
             item == <<Edit("append", k, v)>>
  <2>1. k \in Path /\ v \in Nat \cup {Empty}
    BY <1>1, ExpandedType, ValueAssumption DEF PathOf
  <2>2. PICK down \in Ascending(missing) :
            LET parents == [i \in DOMAIN down |-> Edit("append", Above(k)[down[i]], Empty)]
            IN  Record(Made(parents \o count \o item)
                          \cup IF MemoryFails THEN {parents \o item} ELSE {})
    BY <1>3 DEF mxml_append
  <2> DEFINE parents == [i \in DOMAIN down |-> Edit("append", Above(k)[down[i]], Empty)]
  <2> HIDE DEF k
  <2>3. parents \in Seq(Edits)
    BY <1>1, <2>1, ParentsType
  <2>4. count \in Seq(Edits) /\ item \in Seq(Edits)
    <3>1. total \in Edits /\ Edit("append", k, v) \in Edits
      BY <1>1, <2>1 DEF Edit, Edits, Operations
    <3> QED
      BY <3>1, EmptySeq
  <2> DEFINE outcomes == Made(parents \o count \o item)
                            \cup IF MemoryFails THEN {parents \o item} ELSE {}
  <2>5. Record(outcomes)
    BY <2>2
  <2> HIDE DEF parents, count, item
  <2>6. parents \o item \in Seq(Edits) /\ parents \o count \o item \in Seq(Edits)
    <3>1. parents \o count \in Seq(Edits)
      BY <2>3, <2>4
    <3> QED
      BY <2>3, <2>4, <3>1
  <2>7. outcomes \subseteq Seq(Edits)
    BY <2>6, MadeType
  <2> HIDE DEF outcomes
  <2> QED
    BY <2>5, <2>7, RecordType
<1>4. ASSUME NEW key \in Keys, mxml_delete(key)
      PROVE  edits' \in Seq(Edits) /\ Len(edits') <= MaxEdits
  <2>1. PathOf(key) \in Path
    BY <1>1, ExpandedType DEF PathOf
  <2> DEFINE e == Edit("delete", PathOf(key), Empty)
             left == ReadBack(Total) - 1
             total == IF IsLastItem(key) THEN Uncounted(<<e>> \o edits, left) ELSE <<>>
  <2>2. e \in Edits
    BY <1>1, <2>1 DEF Edit, Edits, Operations
  <2>3. left \in Int
    BY <1>1, DigitAssumption DEF ReadBack
  <2>4. Record(Made(<<e>> \o total))
    BY <1>4 DEF mxml_delete
  <2> HIDE DEF e, left
  <2>5. total \in Seq(Edits)
    <3> DEFINE one == <<e>> \o edits
    <3> HIDE DEF one
    <3>0. <<>> \in Seq(Edits) /\ \A f \in Edits : <<f>> \in Seq(Edits)
      BY EmptySeq
    <3>1. Uncounted(one, left) \in Seq(Edits)
      <4>1. CASE left > 0
        <5>1. left \in Nat /\ ~(left <= 0)
          BY <2>3, <4>1
        <5>2. Edit("set", TotalKey, left) \in Edits /\ Edit("append", TotalKey, left) \in Edits
          BY <1>1, <5>1 DEF Edit, Edits, Operations
        <5>3. \/ Uncounted(one, left) = <<Edit("set", TotalKey, left)>>
              \/ Uncounted(one, left) = <<Edit("append", TotalKey, left)>>
          BY <4>1, <5>1 DEF Uncounted
        <5> QED
          BY <3>0, <5>2, <5>3, Zenon
      <4>2. CASE ~(left > 0)
        <5>1. left <= 0
          BY <2>3, <4>2
        <5>2. Edit("delete", TotalKey, Empty) \in Edits
          BY <1>1 DEF Edit, Edits, Operations
        <5>3. \/ Uncounted(one, left) = <<Edit("delete", TotalKey, Empty)>>
              \/ Uncounted(one, left) = <<>>
          BY <4>2, <5>1 DEF Uncounted
        <5> QED
          BY <3>0, <5>2, <5>3, Zenon
      <4> QED
        BY <4>1, <4>2
    <3> QED
      BY <3>1, EmptySeq DEF one
  <2> HIDE DEF total
  <2>6. <<e>> \in Seq(Edits)
    BY <2>2
  <2>7. <<e>> \o total \in Seq(Edits)
    BY <2>5, <2>6, ConcatProperties
  <2>8. Made(<<e>> \o total) \subseteq Seq(Edits)
    BY <2>7, MadeType
  <2> QED
    BY <2>4, <2>8, RecordType
<1> QED
  BY <1>2, <1>3, <1>4 DEF Change, mxml_set

\* The tokens of the text.
LEMMA SourceType ==
  /\ Source \in Seq(TextToken) /\ Len(Source) \in Nat /\ DOMAIN Source = 1 .. Len(Source)
  /\ ToSet(Source) \subseteq TextToken
<1>1. Source \in Seq(TextToken)
  BY SourceAssumption DEF WellFormed
<1> QED
  BY <1>1 DEF ToSet

\* The tokens that can be under way.
LEMMA TokensAre ==
  /\ NoToken \in Tokens /\ EOF \in Tokens
  /\ \A i \in DOMAIN Source : Source[i] \in Tokens /\ Source[i] # NoToken
  /\ EOF # NoToken
  /\ \A i \in DOMAIN edits :
        /\ Token("open", edits[i].key, Empty) \in Tokens
        /\ Token("close", edits[i].key, Empty) \in Tokens
        /\ Token("value", edits[i].key, edits[i].value) \in Tokens
<1>1. \A i \in DOMAIN Source : Source[i] \in ToSet(Source)
  BY DEF ToSet
<1>2. NoToken \notin ToSet(Source) /\ NoToken # EOF
  BY SourceType, TokenAssumption
<1>3. \A i \in DOMAIN edits :
        /\ Token("open", edits[i].key, Empty) \in Tokens
        /\ Token("close", edits[i].key, Empty) \in Tokens
        /\ Token("value", edits[i].key, edits[i].value) \in Tokens
  BY DEF Tokens
<1> QED
  BY <1>1, <1>2, <1>3 DEF Tokens

\* A close has no value.
LEMMA CloseIs ==
  ASSUME NEW t \in Tokens, t # NoToken, t.type = "close"
  PROVE  t = Token("close", t.key, Empty)
<1>1. CASE t \in ToSet(Source)
  <2>1. t \in TextToken
    BY <1>1, SourceType
  <2> QED
    BY <2>1, TokenIs
<1>2. CASE t = EOF
  BY <1>2, TokenAssumption
<1>3. ASSUME NEW i \in DOMAIN edits, NEW type \in {"open", "close"},
             t = Token(type, edits[i].key, Empty)
      PROVE  t = Token("close", t.key, Empty)
  BY <1>3 DEF Token
<1>4. ASSUME NEW i \in DOMAIN edits, t = Token("value", edits[i].key, edits[i].value)
      PROVE  FALSE
  BY <1>4 DEF Token
<1> QED
  BY <1>1, <1>2, <1>3, <1>4 DEF Tokens

\* Typed records are the ones of the type invariant.
LEMMA TypedEdits ==
  ASSUME edits \in Seq(Edits), Len(edits) <= MaxEdits PROVE EditsOK
<1>1. \A i \in DOMAIN edits : edits[i] \in Edits
  OBVIOUS
<1> QED
  BY <1>1 DEF EditsOK, Edits, Path

FlattenTyped == FlattenInv /\ edits \in Seq(Edits)

\* At the beginning.
LEMMA FlattenInit == FInit => FlattenTyped
<1> SUFFICES ASSUME FInit PROVE FlattenTyped
  OBVIOUS
<1>1. edits = <<>> /\ edits \in Seq(Edits) /\ Len(edits) = 0 /\ out = <<>> /\ out \in Seq(Tokens)
  BY EmptySeq DEF FInit, Init
<1>2. EditsOK
  BY <1>1, BoundAssumption, TypedEdits
<1>3. carrier \in Tokens /\ Len(Source) \in Nat
  BY TokensAre, SourceType DEF FInit
<1> QED
  BY <1>1, <1>2, <1>3 DEF FInit, FlattenTyped, FlattenInv, TypeOK, Top, ToSet

\* A step of the carrier: what it carries and what the edits keep stays typed.
LEMMA ProcessStep == ASSUME FlattenTyped, process_token PROVE FlattenTyped'
<1>0. /\ FlattenInv /\ TypeOK /\ status = "write" /\ edits' = edits /\ Tokens' = Tokens
      /\ EditsOK' /\ Top' = Top /\ edits' \in Seq(Edits)
  <2>1. FlattenInv /\ TypeOK /\ status = "write" /\ edits' = edits /\ EditsOK
        /\ edits \in Seq(Edits)
    BY DEF FlattenTyped, FlattenInv, TypeOK, process_token
  <2>2. Tokens' = Tokens
    BY <2>1 DEF Tokens
  <2>3. EditsOK'
    BY <2>1 DEF EditsOK
  <2> QED
    BY <2>1, <2>2, <2>3 DEF Top
<1>1. /\ Len(edits) \in Nat /\ DOMAIN edits = 1 .. Len(edits) /\ Len(Source) \in Nat
      /\ DOMAIN Source = 1 .. Len(Source) /\ Top = Len(edits) + 1
  BY SourceType DEF FlattenTyped, Top
<1>2. /\ carrier \in Tokens /\ curstate \in 0 .. Top /\ pos \in 0 .. Len(Source)
      /\ out \in Seq(Tokens)
  BY <1>0 DEF FlattenInv, TypeOK
<1> DEFINE Keeps(st, held) ==
        /\ DOMAIN st = DOMAIN edits /\ DOMAIN held = DOMAIN edits
        /\ \A i \in DOMAIN edits :
              /\ edits[i].op = "delete" => st[i] = "idle"
              /\ edits[i].op = "set"    => st[i] \in {"idle", "opened"}
              /\ edits[i].op = "append" /\ st[i] # "idle" =>
                    held[i] = Token("close", Front(edits[i].key), Empty)
              /\ st[i] \in {"idle", "opened", "open", "value", "close"}
              /\ edits[i].op = "append" => st[i] # "opened"
              /\ held[i] \in Tokens
<1>3. Keeps(state, held_token)
  BY <1>0 DEF FlattenInv, TypeOK
<1>4. ASSUME /\ status' \in {"write", "written"}
             /\ carrier' \in Tokens /\ curstate' \in 0 .. Top
             /\ pos' \in 0 .. Len(Source) /\ out' \in Seq(Tokens)
             /\ status' # "write" => carrier' = NoToken /\ curstate' = 0
             /\ status' = "write" => Keeps(state', held_token')
      PROVE  FlattenTyped'
  <2>1. ToSet(out') \subseteq Tokens
    BY <1>4 DEF ToSet
  <2> HIDE DEF Tokens, Top
  <2> QED
    BY <1>0, <1>4, <2>1 DEF FlattenTyped, FlattenInv, TypeOK, ToSet
<1>5. ASSUME curstate \in DOMAIN edits, NEW token \in Tokens, Move(token),
             UNCHANGED <<status, pos, out>>, Keeps(state', held_token')
      PROVE  FlattenTyped'
  <2>1. carrier' = token /\ curstate' \in {curstate + 1, curstate - 1}
    BY <1>5 DEF Move
  <2>2. curstate' \in 0 .. Top
    BY <1>1, <1>5, <2>1
  <2> HIDE DEF Keeps
  <2> QED
    BY <1>0, <1>2, <1>4, <1>5, <2>1, <2>2
<1>6. ASSUME curstate \in DOMAIN edits, NEW s, Become(s),
             s \in {"idle", "opened", "open", "value", "close"},
             This.op = "delete" => s = "idle",
             This.op = "set" => s \in {"idle", "opened"},
             This.op = "append" => s # "opened",
             UNCHANGED held_token,
             This.op = "append" /\ s # "idle" =>
                 held_token[curstate] = Token("close", Front(This.key), Empty)
      PROVE  Keeps(state', held_token')
  BY <1>3, <1>6 DEF Become, This
<1> HIDE DEF Keeps
<1>7. CASE write_token
  <2>1. CASE carrier = EOF
    <3>1. Stop("written") /\ UNCHANGED out
      BY <1>7, <2>1 DEF write_token
    <3>2. 0 \in 0 .. Top /\ 0 \in 0 .. Len(Source) /\ NoToken \in Tokens
      BY <1>1, TokensAre
    <3> QED
      BY <1>2, <1>4, <3>1, <3>2 DEF Stop
  <2>2. CASE carrier # EOF
    <3>1. /\ out' = IF carrier = NoToken THEN out ELSE Append(out, carrier)
          /\ Move(NoToken) /\ UNCHANGED <<status, pos, state, held_token>> /\ curstate = 0
      BY <1>7, <2>2 DEF write_token
    <3>2. out' \in Seq(Tokens)
      BY <1>2, <3>1
    <3>3. carrier' = NoToken /\ curstate' = 1 /\ 1 \in 0 .. Top /\ NoToken \in Tokens
      BY <1>1, <3>1, TokensAre DEF Move
    <3> QED
      BY <1>0, <1>2, <1>3, <1>4, <3>1, <3>2, <3>3
  <2> QED
    BY <2>1, <2>2
<1>8. CASE xml_tokenize
  <2>1. PICK token \in Tokens \ {NoToken} : Move(token) /\ pos' \in 0 .. Len(Source)
    <3>1. CASE pos = Len(Source)
      BY <1>2, <1>8, <3>1, TokensAre DEF xml_tokenize
    <3>2. CASE pos # Len(Source)
      <4>1. ASSUME NEW n \in Nat, NEW p \in 0 .. n, p # n
            PROVE  p + 1 \in 1 .. n /\ p + 1 \in 0 .. n
        BY <4>1
      <4>2. pos + 1 \in 1 .. Len(Source) /\ pos + 1 \in 0 .. Len(Source)
        BY <1>1, <1>2, <3>2, <4>1
      <4> QED
        BY <1>1, <1>8, <3>2, <4>2, TokensAre DEF xml_tokenize
    <3> QED
      BY <3>1, <3>2
  <2>2. carrier' = token /\ curstate' = Top - 1
    BY <1>8, <2>1 DEF Move, xml_tokenize
  <2>4. Top - 1 \in 0 .. Top
    BY <1>1
  <2>3. UNCHANGED <<status, state, held_token, out>>
    BY <1>8 DEF xml_tokenize
  <2> QED
    BY <1>0, <1>2, <1>3, <1>4, <2>1, <2>2, <2>3, <2>4
<1>9. CASE process_delete
  <2>1. PICK token \in {NoToken, carrier} : Move(token)
    BY <1>9 DEF process_delete
  <2>2. token \in Tokens
    BY <1>2, <2>1, TokensAre
  <2>3. curstate \in DOMAIN edits /\ UNCHANGED <<status, pos, state, held_token, out>>
    BY <1>9 DEF process_delete, At
  <2> QED
    BY <1>3, <1>5, <2>1, <2>2, <2>3
<1>10. CASE process_set
  <2>1. curstate \in DOMAIN edits /\ This.op = "set" /\ UNCHANGED <<status, pos, held_token, out>>
    BY <1>10 DEF process_set, At, This
  <2>2. /\ NoToken \in Tokens /\ carrier \in Tokens
        /\ Token("value", This.key, This.value) \in Tokens
    BY <1>2, <2>1, TokensAre DEF This
  <2>3. PICK token \in Tokens :
            Move(token) /\ (Become("opened") \/ Become("idle") \/ UNCHANGED state)
    BY <1>10, <2>2 DEF process_set
  <2>4. Keeps(state', held_token')
    <3>1. CASE Become("opened")
      BY <1>6, <2>1, <3>1
    <3>2. CASE Become("idle")
      BY <1>6, <2>1, <3>2
    <3>3. CASE UNCHANGED state
      BY <1>3, <2>1, <3>3
    <3> QED
      BY <2>3, <3>1, <3>2, <3>3
  <2> QED
    BY <1>5, <2>1, <2>3, <2>4
<1>11. CASE process_append
  <2>1. curstate \in DOMAIN edits /\ This.op = "append" /\ UNCHANGED <<status, pos, out>>
    BY <1>11 DEF process_append, At, This
  <2>2. /\ NoToken \in Tokens /\ carrier \in Tokens /\ held_token[curstate] \in Tokens
        /\ Token("open", This.key, Empty) \in Tokens
        /\ Token("close", This.key, Empty) \in Tokens
        /\ Token("value", This.key, This.value) \in Tokens
    BY <1>2, <1>3, <2>1, TokensAre DEF This, Keeps
  <2>3. CASE Triggers /\ Trigger
    <3>1. carrier = Token("close", Front(This.key), Empty)
      BY <1>2, <2>3, CloseIs DEF Triggers, Is
    <3>2. /\ held_token' = [held_token EXCEPT ![curstate] = carrier]
          /\ state' = [state EXCEPT ![curstate] = "open"]
      BY <2>3 DEF Trigger, Become
    <3>3. Keeps(state', held_token')
      BY <1>3, <2>1, <2>2, <3>1, <3>2 DEF Keeps, This
    <3>4. Move(Token("open", This.key, Empty))
      BY <2>3 DEF Trigger
    <3> QED
      BY <1>5, <2>1, <2>2, <3>3, <3>4
  <2>4. CASE ~Triggers /\ carrier # NoToken /\ Move(carrier) /\ UNCHANGED <<state, held_token>>
    BY <1>3, <1>5, <2>1, <2>2, <2>4
  <2>5. CASE carrier = NoToken /\ UNCHANGED held_token
    <3>1. state[curstate] \in {"idle", "open", "value", "close"}
      BY <1>3, <2>1 DEF Keeps, This
    <3>2. CASE state[curstate] = "idle" /\ Move(NoToken) /\ UNCHANGED state
      BY <1>3, <1>5, <2>1, <2>2, <2>5, <3>2
    <3>3. ASSUME state[curstate] # "idle", NEW s \in {"idle", "value", "close"}, Become(s)
          PROVE  Keeps(state', held_token')
      <4>1. held_token[curstate] = Token("close", Front(This.key), Empty)
        BY <1>3, <2>1, <3>3 DEF Keeps, This
      <4> QED
        BY <1>6, <2>1, <2>5, <3>3, <4>1
    <3>4. CASE state[curstate] = "open" /\ Become("value")
               /\ Move(Token("value", This.key, This.value))
      BY <1>5, <2>1, <2>2, <3>3, <3>4
    <3>5. CASE state[curstate] = "value" /\ Become("close")
               /\ Move(Token("close", This.key, Empty))
      BY <1>5, <2>1, <2>2, <3>3, <3>5
    <3>6. CASE state[curstate] = "close" /\ Become("idle") /\ Move(held_token[curstate])
      BY <1>5, <2>1, <2>2, <3>3, <3>6
    <3>7. \/ state[curstate] = "idle" /\ Move(NoToken) /\ UNCHANGED state
          \/ state[curstate] = "open" /\ Become("value")
               /\ Move(Token("value", This.key, This.value))
          \/ state[curstate] = "value" /\ Become("close")
               /\ Move(Token("close", This.key, Empty))
          \/ state[curstate] = "close" /\ Become("idle") /\ Move(held_token[curstate])
      BY <1>11, <2>5, <3>1 DEF process_append, Triggers, Is
    <3> QED
      BY <3>2, <3>4, <3>5, <3>6, <3>7
  <2> QED
    BY <1>11, <2>3, <2>4, <2>5 DEF process_append
<1> QED
  BY <1>0, <1>7, <1>8, <1>9, <1>10, <1>11 DEF process_token

\* Between two calls of mxml_write nothing is under way, and a call begins
\* with every edit idle.
LEMMA RestStep ==
  ASSUME FlattenTyped, edits' \in Seq(Edits), Len(edits') <= MaxEdits,
         carrier' = NoToken, curstate' = 0, pos' \in 0 .. Len(Source), out' = <<>>,
         status' \in {"edit", "write", "failed"},
         status' = "write" => state' = Idle(edits') /\ held_token' = Nothing(edits')
  PROVE  FlattenTyped'
<1>1. EditsOK'
  <2>1. \A i \in DOMAIN edits' : edits'[i] \in Edits
    OBVIOUS
  <2> QED
    BY <2>1 DEF EditsOK, Edits, Path
<1>2. NoToken \in Tokens'
  BY DEF Tokens
<1>3. 0 \in 0 .. Top'
  BY DEF Top
<1>4. out' \in Seq(Tokens') /\ ToSet(out') \subseteq Tokens'
  BY EmptySeq DEF ToSet
<1>5. status' = "write" =>
         /\ DOMAIN state' = DOMAIN edits' /\ DOMAIN held_token' = DOMAIN edits'
         /\ \A i \in DOMAIN edits' : state'[i] = "idle" /\ held_token'[i] = NoToken
  BY DEF Idle, Nothing
<1> QED
  BY <1>1, <1>2, <1>3, <1>4, <1>5 DEF FlattenTyped, FlattenInv, TypeOK

\* Every step keeps the types.
LEMMA FlattenStep == ASSUME TagsApart, FlattenTyped, [FNext]_vars PROVE FlattenTyped'
<1>1. /\ edits \in Seq(Edits) /\ Len(edits) <= MaxEdits /\ pos \in 0 .. Len(Source)
      /\ status # "write" => carrier = NoToken /\ curstate = 0
      /\ Len(Source) \in Nat
  BY SourceType DEF FlattenTyped, FlattenInv, TypeOK, EditsOK
<1>2. CASE Editing
  <2>1. Change /\ status # "write" /\ status' = "edit" /\ out' = <<>>
        /\ UNCHANGED <<carrier, curstate, pos>>
    BY <1>2 DEF Editing
  <2>2. edits' \in Seq(Edits) /\ Len(edits') <= MaxEdits
    BY <1>1, <2>1, ChangeType
  <2> QED
    BY <1>1, <2>1, <2>2, RestStep
<1>3. CASE make_editstates
  BY <1>1, <1>3, RestStep DEF make_editstates
<1>4. CASE process_token
  BY <1>4, ProcessStep
<1>5. CASE Failing
  BY <1>1, <1>5, RestStep DEF Failing, write_fails, Stop
<1>6. CASE UNCHANGED vars
  BY <1>6 DEF vars, writer, FlattenTyped, FlattenInv, TypeOK, EditsOK, Tokens, Top
<1> QED
  BY <1>2, <1>3, <1>4, <1>5, <1>6 DEF FNext

\* Whatever the edits, their failures and the moment at which the caller's
\* function fails: the carrier stays between the writer and the text, what is
\* in it and what was written are tokens of the text or of an edit, and what an
\* append holds back is the CLOSE of its parent (mxml_flatten.c, process_append).
THEOREM FlattenTypeCorrect == ASSUME TagsApart PROVE FSpec => []TypeOK
<1>1. FlattenTyped /\ [FNext]_vars => FlattenTyped'
  BY FlattenStep
<1>2. FlattenTyped => TypeOK
  BY DEF FlattenTyped, FlattenInv
<1> QED
  BY <1>1, <1>2, FlattenInit, PTL DEF FSpec

-----------------------------------------------------------------------------
(* What an edit makes of a text, token by token.                           *)

\* What edit e sends for the token t.
Sends(e, t) ==
    IF e.op = "delete" THEN IF SelfOrChild(t.key, e.key) THEN <<>> ELSE <<t>>
    ELSE IF e.op = "set" THEN
        IF t.type = "open" /\ t.key = e.key THEN <<t, Token("value", e.key, e.value)>>
        ELSE IF t.type = "value" /\ t.key = e.key THEN <<>> ELSE <<t>>
    ELSE IF t.type = "close" /\ t.key = Front(e.key)
           THEN <<Token("open", e.key, Empty), Token("value", e.key, e.value),
                  Token("close", e.key, Empty), t>>
         ELSE <<t>>

\* The text b is what e sends for the text a: at[i] tokens of b come before
\* those that are sent for token i of a.
Mapped(e, a, b, at) ==
    /\ at \in [1 .. Len(a) + 1 -> Nat]
    /\ at[1] = 0 /\ at[Len(a) + 1] = Len(b)
    /\ \A i \in 1 .. Len(a) :
          /\ at[i + 1] = at[i] + Len(Sends(e, a[i]))
          /\ \A m \in 1 .. Len(Sends(e, a[i])) : b[at[i] + m] = Sends(e, a[i])[m]
    /\ \A i, j \in 1 .. Len(a) : i < j => at[i + 1] <= at[j]
    /\ \A q \in 1 .. Len(b) : \E i \in 1 .. Len(a) : at[i] < q /\ q <= at[i + 1]

Emitted(e, a, b) == \E at : Mapped(e, a, b, at)

\* An edit sends tokens of a text.
LEMMA SendsType ==
  ASSUME NEW e \in Edits, NEW t \in TextToken
  PROVE  Sends(e, t) \in Seq(TextToken)
<1>1. /\ e.key \in Path /\ e.value \in Nat \cup {Empty} /\ Empty \in Nat \cup {Empty}
  BY DEF Edits
<1>2. /\ Token("open", e.key, Empty) \in TextToken
      /\ Token("close", e.key, Empty) \in TextToken
      /\ Token("value", e.key, e.value) \in TextToken
  BY <1>1, TokenMade
<1>3. \A x, y, z, w \in TextToken :
         /\ <<>> \in Seq(TextToken) /\ <<x>> \in Seq(TextToken) /\ <<x, y>> \in Seq(TextToken)
         /\ <<x, y, z, w>> \in Seq(TextToken)
  BY EmptySeq
<1> HIDE DEF TextToken
<1> QED
  BY <1>2, <1>3, Zenon DEF Sends

\* Nothing is made of nothing,
LEMMA EmittedNone == ASSUME NEW e PROVE Emitted(e, <<>>, <<>>)
<1> DEFINE at == [i \in 1 .. 1 |-> 0]
<1>1. Len(<<>>) = 0
  OBVIOUS
<1>2. /\ at \in [1 .. 0 + 1 -> Nat] /\ at[1] = 0 /\ at[0 + 1] = 0
      /\ \A i : i \notin 1 .. 0
  OBVIOUS
<1> HIDE DEF at
<1>3. Mapped(e, <<>>, <<>>, at)
  BY <1>1, <1>2 DEF Mapped
<1> QED
  BY <1>3 DEF Emitted

\* and for one more token its own tokens follow.
LEMMA EmittedNext ==
  ASSUME NEW e \in Edits, NEW a \in Seq(TextToken), NEW b \in Seq(TextToken),
         Emitted(e, a, b), NEW t \in TextToken
  PROVE  Emitted(e, Append(a, t), b \o Sends(e, t))
<1>1. PICK at : Mapped(e, a, b, at)
  BY DEF Emitted
<1> DEFINE s == Sends(e, t)
           l == Len(a)
           x == Append(a, t)
           y == b \o s
           up == [i \in 1 .. l + 2 |-> IF i <= l + 1 THEN at[i] ELSE Len(b) + Len(s)]
<1>2. /\ l \in Nat /\ Len(b) \in Nat /\ s \in Seq(TextToken) /\ Len(s) \in Nat
      /\ x \in Seq(TextToken) /\ Len(x) = l + 1 /\ x[l + 1] = t /\ \A i \in 1 .. l : x[i] = a[i]
  BY SendsType
<1> HIDE DEF s
<1>3. /\ Len(y) = Len(b) + Len(s)
      /\ \A i \in 1 .. Len(b) : y[i] = b[i]
      /\ \A m \in 1 .. Len(s) : y[Len(b) + m] = s[m]
  <2>1. \A i \in 1 .. Len(b) + Len(s) : y[i] = IF i <= Len(b) THEN b[i] ELSE s[i - Len(b)]
    BY <1>2, ConcatProperties
  <2>2. Len(y) = Len(b) + Len(s)
    BY <1>2, ConcatProperties
  <2> HIDE DEF y
  <2>3. ASSUME NEW m \in 1 .. Len(s) PROVE y[Len(b) + m] = s[m]
    <3>1. /\ Len(b) + m \in 1 .. Len(b) + Len(s) /\ ~(Len(b) + m <= Len(b))
          /\ (Len(b) + m) - Len(b) = m
      BY <1>2
    <3> QED
      BY <2>1, <3>1
  <2>4. ASSUME NEW i \in 1 .. Len(b) PROVE y[i] = b[i]
    <3>1. i \in 1 .. Len(b) + Len(s) /\ i <= Len(b)
      BY <1>2
    <3> QED
      BY <2>1, <3>1
  <2> QED
    BY <2>2, <2>3, <2>4
<1>4. /\ at \in [1 .. l + 1 -> Nat] /\ at[1] = 0 /\ at[l + 1] = Len(b)
      /\ \A i \in 1 .. l :
            /\ at[i + 1] = at[i] + Len(Sends(e, a[i]))
            /\ \A m \in 1 .. Len(Sends(e, a[i])) : b[at[i] + m] = Sends(e, a[i])[m]
      /\ \A i, j \in 1 .. l : i < j => at[i + 1] <= at[j]
      /\ \A q \in 1 .. Len(b) : \E i \in 1 .. l : at[i] < q /\ q <= at[i + 1]
  BY <1>1 DEF Mapped
<1> HIDE DEF x, y, l
<1>5. \A i \in 1 .. l : Len(Sends(e, a[i])) \in Nat
  <2> TAKE i \in 1 .. l
  <2>1. a[i] \in TextToken
    BY DEF l
  <2> QED
    BY <2>1, SendsType
<1>6. \A i \in 1 .. l + 1 : up[i] = at[i] /\ at[i] \in Nat
  BY <1>2, <1>4
<1>7. up[l + 2] = Len(b) + Len(s) /\ up \in [1 .. l + 2 -> Nat]
  BY <1>2, <1>4
<1> HIDE DEF up
<1>8. ASSUME NEW i \in 1 .. l PROVE at[i] <= Len(b) /\ at[i + 1] <= Len(b)
  <2>1. CASE i = l
    BY <1>2, <1>4, <1>5, <1>6, <2>1
  <2>2. CASE i # l
    <3>1. l \in 1 .. l /\ i < l /\ i + 1 \in 1 .. l + 1
      BY <1>2, <2>2
    <3>2. at[i + 1] <= at[l] /\ at[l + 1] = at[l] + Len(Sends(e, a[l]))
          /\ at[i + 1] = at[i] + Len(Sends(e, a[i]))
      BY <1>4, <3>1
    <3>3. at[l] \in Nat /\ at[i] \in Nat /\ at[i + 1] \in Nat
      BY <1>2, <1>6, <3>1
    <3>4. Len(Sends(e, a[l])) \in Nat /\ Len(Sends(e, a[i])) \in Nat /\ at[l + 1] = Len(b)
      BY <1>4, <1>5, <3>1
    <3>5. \A p, q, r, v, w \in Nat :
             q <= r /\ q = p + w => p <= r + v /\ q <= r + v
      OBVIOUS
    <3>6. Len(b) = at[l] + Len(Sends(e, a[l]))
      BY <3>2, <3>4, Zenon
    <3>7. at[i] <= at[l] + Len(Sends(e, a[l])) /\ at[i + 1] <= at[l] + Len(Sends(e, a[l]))
      BY <3>2, <3>3, <3>4, <3>5, Zenon
    <3> QED
      BY <3>6, <3>7, Zenon
  <2> QED
    BY <2>1, <2>2
<1>9. ASSUME NEW i \in 1 .. Len(x)
      PROVE  /\ up[i + 1] = up[i] + Len(Sends(e, x[i]))
             /\ \A m \in 1 .. Len(Sends(e, x[i])) : y[up[i] + m] = Sends(e, x[i])[m]
  <2>1. CASE i = l + 1
    <3>1. Sends(e, x[i]) = s /\ i + 1 = l + 2 /\ up[i] = Len(b) /\ up[i + 1] = Len(b) + Len(s)
      BY <1>2, <1>4, <1>6, <1>7, <2>1 DEF s
    <3> QED
      BY <1>3, <3>1
  <2>2. CASE i # l + 1
    <3>1. i \in 1 .. l /\ x[i] = a[i] /\ i \in 1 .. l + 1 /\ i + 1 \in 1 .. l + 1
      BY <1>2, <2>2
    <3>2. /\ up[i] = at[i] /\ up[i + 1] = at[i + 1] /\ at[i + 1] = at[i] + Len(Sends(e, a[i]))
          /\ at[i] \in Nat /\ at[i + 1] <= Len(b)
      BY <1>4, <1>6, <1>8, <3>1
    <3>3. ASSUME NEW m \in 1 .. Len(Sends(e, a[i])) PROVE y[at[i] + m] = Sends(e, a[i])[m]
      <4>1. at[i] + m \in 1 .. Len(b)
        BY <1>2, <1>5, <3>1, <3>2
      <4>2. y[at[i] + m] = b[at[i] + m]
        BY <1>3, <4>1
      <4>3. b[at[i] + m] = Sends(e, a[i])[m]
        BY <1>4, <3>1
      <4> QED
        BY <4>2, <4>3
    <3> QED
      BY <3>1, <3>2, <3>3
  <2> QED
    BY <2>1, <2>2
<1>10. ASSUME NEW i \in 1 .. Len(x), NEW j \in 1 .. Len(x), i < j PROVE up[i + 1] <= up[j]
  <2>1. i \in 1 .. l /\ i \in 1 .. l + 1 /\ i + 1 \in 1 .. l + 1
    BY <1>2, <1>10
  <2>2. CASE j = l + 1
    <3>1. up[j] = Len(b) /\ up[i + 1] = at[i + 1]
      BY <1>2, <1>4, <1>6, <2>1, <2>2
    <3> QED
      BY <1>8, <2>1, <3>1
  <2>3. CASE j # l + 1
    <3>1. j \in 1 .. l /\ j \in 1 .. l + 1
      BY <1>2, <2>3
    <3> QED
      BY <1>4, <1>6, <1>10, <2>1, <3>1
  <2> QED
    BY <2>2, <2>3
<1>11. ASSUME NEW q \in 1 .. Len(y) PROVE \E i \in 1 .. Len(x) : up[i] < q /\ q <= up[i + 1]
  <2>1. CASE q <= Len(b)
    <3>1. q \in 1 .. Len(b)
      BY <1>2, <2>1
    <3>2. PICK i \in 1 .. l : at[i] < q /\ q <= at[i + 1]
      BY <1>4, <3>1
    <3>3. i \in 1 .. Len(x) /\ i \in 1 .. l + 1 /\ i + 1 \in 1 .. l + 1
      BY <1>2
    <3> QED
      BY <1>6, <3>2, <3>3
  <2>2. CASE ~(q <= Len(b))
    <3>1. l + 1 \in 1 .. Len(x) /\ l + 1 \in 1 .. l + 1 /\ (l + 1) + 1 = l + 2
      BY <1>2
    <3>2. up[l + 1] = Len(b) /\ up[(l + 1) + 1] = Len(b) + Len(s)
      BY <1>4, <1>6, <1>7, <3>1
    <3>3. Len(b) < q /\ q <= Len(b) + Len(s)
      BY <1>2, <1>3, <2>2
    <3> QED
      BY <3>1, <3>2, <3>3
  <2> QED
    BY <2>1, <2>2
<1>12. up \in [1 .. Len(x) + 1 -> Nat] /\ up[1] = 0 /\ up[Len(x) + 1] = Len(y)
  <2>1. Len(x) + 1 = l + 2 /\ 1 \in 1 .. l + 1
    BY <1>2
  <2> QED
    BY <1>3, <1>4, <1>6, <1>7, <2>1
<1>13. Mapped(e, x, y, up)
  BY <1>9, <1>10, <1>11, <1>12 DEF Mapped
<1> QED
  BY <1>13 DEF Emitted, x, y, s

-----------------------------------------------------------------------------
(* A text and the document that it is.                                     *)

\* A value behind an opening tag is the text of that element.
LEMMA AfterOpen ==
  ASSUME NEW text, NEW P, NEW o, NEW c, Laid(text, P, o, c), NEW p \in P
  PROVE  /\ o[p] + 1 \in DOMAIN text /\ o[p] < Len(text) /\ o[p] \in Nat
         /\ text[o[p] + 1].type = "value" => text[o[p] + 1].key = p
<1> DEFINE i == o[p] + 1
           x == text[i].key
<1>1. /\ text \in Seq(TextToken) /\ p \in Path /\ Len(text) \in Nat
      /\ DOMAIN text = 1 .. Len(text)
      /\ o[p] \in 1 .. Len(text) /\ c[p] \in 1 .. Len(text) /\ o[p] < c[p]
  BY DEF Laid
<1>2. i \in DOMAIN text /\ o[p] < Len(text) /\ o[p] \in Nat
  BY <1>1
<1>3. ASSUME text[i].type = "value" PROVE x = p
  <2>1. c[p] # i /\ o[p] < i /\ i < c[p]
    <3>1. text[c[p]].type = "close"
      BY DEF Laid
    <3>2. c[p] # i
      BY <1>3, <3>1
    <3> QED
      BY <1>1, <3>2
  <2> HIDE DEF i
  <2>2. /\ x = <<>> \/ x \in P
        /\ \A k \in P : (o[k] < i /\ i < c[k]) <=> SelfOrChild(x, k)
    BY <1>2, <1>3 DEF Laid
  <2> HIDE DEF x
  <2>3. SelfOrChild(x, p) /\ p \in Seq(STRING) /\ Len(p) \in Nat \ {0}
    BY <1>1, <2>1, <2>2, EmptySeq DEF Path
  <2>4. x # <<>>
    <3>1. <<>> \in Seq(STRING) /\ Len(<<>>) = 0
      BY EmptySeq
    <3>2. ASSUME x = <<>> PROVE FALSE
      <4>1. Len(p) <= 0
        BY <2>3, <3>1, <3>2, PrefixEqual
      <4> QED
        BY <2>3, <4>1
    <3> QED
      BY <3>2
  <2>5. x \in P /\ x \in Seq(STRING)
    BY <2>2, <2>4 DEF Laid, Path
  <2>6. o[x] < i /\ o[x] \in Nat
    <3>1. SelfOrChild(x, x)
      BY <2>5, PrefixSelf
    <3>2. o[x] \in 1 .. Len(text)
      BY <1>1, <2>5 DEF Laid
    <3> QED
      BY <1>1, <2>2, <2>5, <3>1, <3>2
  <2>7. ASSUME x # p PROVE FALSE
    <3>1. o[p] < o[x]
      BY <2>3, <2>5, <2>7 DEF Laid
    <3> QED
      BY <1>1, <2>6, <3>1 DEF i
  <2> QED
    BY <2>7
<1> QED
  BY <1>2, <1>3

\* The values of a text are the texts of a document d, one for an element.
Tells(text, P, d) ==
    /\ DOMAIN d = P /\ Unmixed(text)
    /\ \A i \in DOMAIN text :
          text[i].type = "value" /\ text[i].key \in P /\ text[i].value # Empty
             => d[text[i].key] = text[i].value
    /\ \A p \in P : d[p] # Empty =>
          \E i \in DOMAIN text : text[i].type = "value" /\ text[i].key = p /\ text[i].value = d[p]

Good(text, d) == \E P, o, c : Laid(text, P, o, c) /\ Tells(text, P, d)

\* Text of an element stands behind the tag that opens it.
LEMMA TextStands ==
  ASSUME NEW text, NEW P, NEW o, NEW c, Laid(text, P, o, c), Unmixed(text),
         NEW i \in DOMAIN text, text[i].type = "value", text[i].key \in P, text[i].value # Empty
  PROVE  i = o[text[i].key] + 1
<1>1. text[i].key # <<>> /\ text \in Seq(TextToken)
  BY DEF Laid, Path
<1>2. i > 1 /\ text[i - 1].type = "open" /\ text[i - 1].key = text[i].key
  BY <1>1 DEF Unmixed, Tags, IsA
<1>3. i - 1 \in DOMAIN text /\ i \in Nat
  BY <1>1, <1>2
<1>4. o[text[i - 1].key] = i - 1
  BY <1>2, <1>3 DEF Laid
<1> QED
  BY <1>2, <1>3, <1>4

\* The text behind the tag of an element is its text in the document.
LEMMA TellsText ==
  ASSUME NEW text, NEW P, NEW o, NEW c, Laid(text, P, o, c), NEW d, Tells(text, P, d),
         NEW p \in P
  PROVE  TextAfter(text, o[p]) = d[p]
<1> DEFINE i == o[p] + 1
<1>1. /\ i \in DOMAIN text /\ o[p] < Len(text)
      /\ text[i].type = "value" => text[i].key = p
  BY AfterOpen
<1>2. ASSUME d[p] # Empty PROVE text[i].type = "value" /\ text[i].value = d[p]
  <2>1. PICK j \in DOMAIN text :
           text[j].type = "value" /\ text[j].key = p /\ text[j].value = d[p]
    BY <1>2 DEF Tells
  <2>2. Unmixed(text) /\ text[j].key \in P /\ text[j].value # Empty
    BY <1>2, <2>1 DEF Tells
  <2>3. j = o[text[j].key] + 1
    BY <2>1, <2>2, TextStands
  <2> QED
    BY <2>1, <2>3
<1>3. ASSUME text[i].type = "value", text[i].value # Empty PROVE d[p] = text[i].value
  BY <1>1, <1>3 DEF Tells
<1>4. TextAfter(text, o[p]) = IF text[i].type = "value" THEN text[i].value ELSE Empty
  BY <1>1 DEF TextAfter, IsA
<1> QED
  BY <1>2, <1>3, <1>4

\* The values of a text without mixed content are its document.
LEMMA TextTells ==
  ASSUME NEW text, NEW P, NEW o, NEW c, NEW d, Shows(text, P, o, c, d), Unmixed(text)
  PROVE  Tells(text, P, d)
<1>1. Laid(text, P, o, c) /\ DOMAIN d = P /\ \A p \in P : d[p] = TextAfter(text, o[p])
  BY DEF Shows
<1>2. ASSUME NEW p \in P
      PROVE  /\ o[p] + 1 \in DOMAIN text
             /\ text[o[p] + 1].type = "value" => text[o[p] + 1].key = p
             /\ d[p] = IF text[o[p] + 1].type = "value" THEN text[o[p] + 1].value ELSE Empty
  <2>1. /\ o[p] + 1 \in DOMAIN text /\ o[p] < Len(text)
        /\ text[o[p] + 1].type = "value" => text[o[p] + 1].key = p
    BY <1>1, AfterOpen
  <2>2. TextAfter(text, o[p]) = IF text[o[p] + 1].type = "value" THEN text[o[p] + 1].value ELSE Empty
    BY <2>1 DEF TextAfter, IsA
  <2> QED
    BY <1>1, <2>1, <2>2, Zenon
<1>3. ASSUME NEW i \in DOMAIN text, text[i].type = "value", text[i].key \in P,
             text[i].value # Empty
      PROVE  d[text[i].key] = text[i].value
  <2>1. i = o[text[i].key] + 1
    BY <1>1, <1>3, TextStands
  <2> QED
    BY <1>2, <1>3, <2>1
<1>4. ASSUME NEW p \in P, d[p] # Empty
      PROVE  \E i \in DOMAIN text :
                text[i].type = "value" /\ text[i].key = p /\ text[i].value = d[p]
  BY <1>2, <1>4
<1> QED
  BY <1>1, <1>3, <1>4 DEF Tells

-----------------------------------------------------------------------------
(* Tokens that are kept.                                                   *)

\* Of the text a the tokens in K are in b, in the same order, at spot.
Kept(a, b, K, spot) ==
    /\ K \subseteq DOMAIN a /\ spot \in [K -> DOMAIN b]
    /\ \A i \in K : b[spot[i]] = a[i]
    /\ \A i, j \in K : i < j => spot[i] < spot[j]

\* The elements in Q are kept, and nothing of the others.
KeptElements(a, P, o, c, K, spot, Q, o2, c2) ==
    /\ Q \subseteq P
    /\ \A p \in Q : /\ o[p] \in K /\ c[p] \in K
                    /\ o2[p] = spot[o[p]] /\ c2[p] = spot[c[p]]
    /\ \A i \in K : a[i].key \in Q \cup {<<>>}

\* What is kept of a text is laid out as before.
LEMMA KeptLaid ==
  ASSUME NEW a, NEW P, NEW o, NEW c, Laid(a, P, o, c), NEW b \in Seq(TextToken),
         NEW K, NEW spot, Kept(a, b, K, spot),
         NEW Q, NEW o2, NEW c2, KeptElements(a, P, o, c, K, spot, Q, o2, c2)
  PROVE  /\ \A p \in Q :
               /\ o2[p] \in DOMAIN b /\ c2[p] \in DOMAIN b /\ o2[p] < c2[p]
               /\ b[o2[p]].type = "open" /\ b[o2[p]].key = p
               /\ b[c2[p]].type = "close" /\ b[c2[p]].key = p
         /\ \A i \in K :
               /\ b[spot[i]].type = "open"  => b[spot[i]].key \in Q /\ o2[b[spot[i]].key] = spot[i]
               /\ b[spot[i]].type = "close" => b[spot[i]].key \in Q /\ c2[b[spot[i]].key] = spot[i]
               /\ b[spot[i]].type = "value" =>
                     /\ b[spot[i]].key = <<>> \/ b[spot[i]].key \in Q
                     /\ \A k \in Q : (o2[k] < spot[i] /\ spot[i] < c2[k])
                                        <=> SelfOrChild(b[spot[i]].key, k)
         /\ \A k, l \in Q :
               /\ k # l /\ SelfOrChild(l, k) => o2[k] < o2[l] /\ c2[l] < c2[k]
               /\ ~SelfOrChild(l, k) /\ ~SelfOrChild(k, l) => c2[k] < o2[l] \/ c2[l] < o2[k]
<1>1. /\ K \subseteq DOMAIN a /\ \A i \in K : i \in Nat /\ spot[i] \in Nat
      /\ \A i \in K : spot[i] \in DOMAIN b /\ b[spot[i]] = a[i]
  <2>1. a \in Seq(TextToken)
    BY DEF Laid
  <2> QED
    BY <2>1 DEF Kept
<1>2. \A i, j \in K : i < j <=> spot[i] < spot[j]
  <2> TAKE i, j \in K
  <2>1. (i < j => spot[i] < spot[j]) /\ (j < i => spot[j] < spot[i])
    BY DEF Kept
  <2>2. i \in Nat /\ j \in Nat /\ spot[i] \in Nat /\ spot[j] \in Nat
    BY <1>1
  <2> QED
    BY <2>1, <2>2
<1>3. /\ Q \subseteq P
      /\ \A p \in Q : /\ o[p] \in K /\ c[p] \in K
                      /\ o2[p] = spot[o[p]] /\ c2[p] = spot[c[p]]
      /\ \A i \in K : a[i].key \in Q \cup {<<>>}
  BY DEF KeptElements
<1>4. \A k \in P :
          /\ a[o[k]].type = "open" /\ a[o[k]].key = k
          /\ a[c[k]].type = "close" /\ a[c[k]].key = k
          /\ o[k] < c[k]
  BY DEF Laid
<1>5. \A i \in DOMAIN a :
          /\ a[i].type = "open"  => a[i].key \in P /\ o[a[i].key] = i
          /\ a[i].type = "close" => a[i].key \in P /\ c[a[i].key] = i
          /\ a[i].type = "value" =>
                /\ a[i].key = <<>> \/ a[i].key \in P
                /\ \A k \in P : (o[k] < i /\ i < c[k]) <=> SelfOrChild(a[i].key, k)
  BY DEF Laid
<1>6. \A k, l \in P :
          /\ k # l /\ SelfOrChild(l, k) => o[k] < o[l] /\ c[l] < c[k]
          /\ ~SelfOrChild(l, k) /\ ~SelfOrChild(k, l) => c[k] < o[l] \/ c[l] < o[k]
  BY DEF Laid
<1>7. <<>> \notin P
  BY DEF Laid, Path
<1> HIDE DEF Laid, Kept, KeptElements
<1>8. \A p \in Q :
         /\ o2[p] \in DOMAIN b /\ c2[p] \in DOMAIN b /\ o2[p] < c2[p]
         /\ b[o2[p]].type = "open" /\ b[o2[p]].key = p
         /\ b[c2[p]].type = "close" /\ b[c2[p]].key = p
  <2> TAKE p \in Q
  <2>1. /\ p \in P /\ o[p] \in K /\ c[p] \in K /\ o2[p] = spot[o[p]] /\ c2[p] = spot[c[p]]
    BY <1>3
  <2>2. b[o2[p]] = a[o[p]] /\ b[c2[p]] = a[c[p]] /\ o2[p] \in DOMAIN b /\ c2[p] \in DOMAIN b
    BY <1>1, <2>1
  <2>3. o2[p] < c2[p]
    BY <1>2, <1>4, <2>1
  <2> QED
    BY <1>4, <2>1, <2>2, <2>3
<1>9. ASSUME NEW i \in K
      PROVE  /\ b[spot[i]].type = "open"  => b[spot[i]].key \in Q /\ o2[b[spot[i]].key] = spot[i]
             /\ b[spot[i]].type = "close" => b[spot[i]].key \in Q /\ c2[b[spot[i]].key] = spot[i]
             /\ b[spot[i]].type = "value" =>
                     /\ b[spot[i]].key = <<>> \/ b[spot[i]].key \in Q
                     /\ \A k \in Q : (o2[k] < spot[i] /\ spot[i] < c2[k])
                                        <=> SelfOrChild(b[spot[i]].key, k)
  <2>1. i \in DOMAIN a /\ b[spot[i]] = a[i] /\ a[i].key \in Q \cup {<<>>}
    BY <1>1, <1>3
  <2>2. ASSUME a[i].type = "open" PROVE a[i].key \in Q /\ o2[a[i].key] = spot[i]
    BY <1>3, <1>5, <1>7, <2>1, <2>2
  <2>3. ASSUME a[i].type = "close" PROVE a[i].key \in Q /\ c2[a[i].key] = spot[i]
    BY <1>3, <1>5, <1>7, <2>1, <2>3
  <2>4. ASSUME a[i].type = "value", NEW k \in Q
        PROVE  (o2[k] < spot[i] /\ spot[i] < c2[k]) <=> SelfOrChild(a[i].key, k)
    <3>1. k \in P /\ o[k] \in K /\ c[k] \in K /\ o2[k] = spot[o[k]] /\ c2[k] = spot[c[k]]
      BY <1>3
    <3>2. (o[k] < i /\ i < c[k]) <=> SelfOrChild(a[i].key, k)
      BY <1>5, <2>1, <2>4, <3>1
    <3>3. (o[k] < i <=> spot[o[k]] < spot[i]) /\ (i < c[k] <=> spot[i] < spot[c[k]])
      BY <1>2, <3>1
    <3> QED
      BY <3>1, <3>2, <3>3
  <2> QED
    BY <2>1, <2>2, <2>3, <2>4
<1>10. ASSUME NEW k \in Q, NEW l \in Q
       PROVE  /\ k # l /\ SelfOrChild(l, k) => o2[k] < o2[l] /\ c2[l] < c2[k]
              /\ ~SelfOrChild(l, k) /\ ~SelfOrChild(k, l) => c2[k] < o2[l] \/ c2[l] < o2[k]
  <2>1. /\ k \in P /\ o[k] \in K /\ c[k] \in K /\ o2[k] = spot[o[k]] /\ c2[k] = spot[c[k]]
        /\ l \in P /\ o[l] \in K /\ c[l] \in K /\ o2[l] = spot[o[l]] /\ c2[l] = spot[c[l]]
    BY <1>3
  <2>2. /\ o[k] < o[l] <=> o2[k] < o2[l]
        /\ c[l] < c[k] <=> c2[l] < c2[k]
        /\ c[k] < o[l] <=> c2[k] < o2[l]
        /\ c[l] < o[k] <=> c2[l] < o2[k]
    BY <1>2, <2>1
  <2> QED
    BY <1>6, <2>1, <2>2
<1> QED
  BY <1>8, <1>9, <1>10

\* Where tokens are sent to.
LEMMA Blocks ==
  ASSUME NEW e \in Edits, NEW a \in Seq(TextToken), NEW b \in Seq(TextToken), NEW at,
         Mapped(e, a, b, at)
  PROVE  /\ DOMAIN a = 1 .. Len(a) /\ Len(a) \in Nat /\ DOMAIN b = 1 .. Len(b) /\ Len(b) \in Nat
         /\ \A i \in DOMAIN a :
               /\ i \in Nat /\ a[i] \in TextToken
               /\ at[i] \in Nat /\ at[i + 1] = at[i] + Len(Sends(e, a[i]))
               /\ \A m \in 1 .. Len(Sends(e, a[i])) :
                     at[i] + m \in DOMAIN b /\ b[at[i] + m] = Sends(e, a[i])[m]
         /\ \A i, j \in DOMAIN a : i < j => at[i + 1] <= at[j]
         /\ \A q \in DOMAIN b : \E i \in DOMAIN a :
               \E m \in 1 .. Len(Sends(e, a[i])) : q = at[i] + m
<1>1. /\ DOMAIN a = 1 .. Len(a) /\ Len(a) \in Nat /\ DOMAIN b = 1 .. Len(b) /\ Len(b) \in Nat
      /\ \A i \in DOMAIN a : a[i] \in TextToken
  OBVIOUS
<1>2. /\ at \in [1 .. Len(a) + 1 -> Nat]
      /\ at[1] = 0 /\ at[Len(a) + 1] = Len(b)
      /\ \A i \in 1 .. Len(a) :
            /\ at[i + 1] = at[i] + Len(Sends(e, a[i]))
            /\ \A m \in 1 .. Len(Sends(e, a[i])) : b[at[i] + m] = Sends(e, a[i])[m]
      /\ \A i, j \in 1 .. Len(a) : i < j => at[i + 1] <= at[j]
      /\ \A q \in 1 .. Len(b) : \E i \in 1 .. Len(a) : at[i] < q /\ q <= at[i + 1]
  BY DEF Mapped
<1>3. \A i \in DOMAIN a : Len(Sends(e, a[i])) \in Nat
  BY <1>1, SendsType
<1> DEFINE l == Len(a)
           n == Len(b)
<1> HIDE DEF l, n
<1>4. ASSUME NEW i \in DOMAIN a
      PROVE  /\ i \in Nat /\ at[i] \in Nat /\ at[i + 1] \in Nat /\ at[i + 1] <= n
             /\ at[i + 1] = at[i] + Len(Sends(e, a[i]))
  <2>1. i \in 1 .. l + 1 /\ i + 1 \in 1 .. l + 1 /\ i \in Nat
    BY <1>1 DEF l
  <2>2. at[i] \in Nat /\ at[i + 1] \in Nat /\ at[i + 1] = at[i] + Len(Sends(e, a[i]))
    BY <1>1, <1>2, <2>1 DEF l
  <2>3. CASE i = l
    BY <1>1, <1>2, <2>1, <2>2, <2>3 DEF l, n
  <2>4. CASE i # l
    <3>1. l \in DOMAIN a /\ i < l /\ l \in 1 .. l + 1
      BY <1>1, <2>4 DEF l
    <3>2. at[i + 1] <= at[l] /\ at[l] \in Nat /\ n = at[l] + Len(Sends(e, a[l]))
      BY <1>1, <1>2, <3>1 DEF l, n
    <3>3. \A p, q, r \in Nat : p <= q => p <= q + r
      OBVIOUS
    <3>4. at[i + 1] <= at[l] + Len(Sends(e, a[l]))
      BY <1>3, <2>2, <3>1, <3>2, <3>3, Zenon
    <3> QED
      BY <2>1, <2>2, <3>2, <3>4, Zenon
  <2> QED
    BY <2>3, <2>4
<1>5. ASSUME NEW i \in DOMAIN a, NEW m \in 1 .. Len(Sends(e, a[i]))
      PROVE  at[i] + m \in DOMAIN b /\ b[at[i] + m] = Sends(e, a[i])[m]
  <2>1. b[at[i] + m] = Sends(e, a[i])[m]
    BY <1>1, <1>2
  <2>2. at[i] \in Nat /\ Len(Sends(e, a[i])) \in Nat /\ at[i] + Len(Sends(e, a[i])) <= n
    BY <1>3, <1>4
  <2>3. at[i] + m \in 1 .. n
    BY <1>1, <2>2 DEF n
  <2> QED
    BY <1>1, <2>1, <2>3 DEF n
<1>6. ASSUME NEW q \in DOMAIN b
      PROVE  \E i \in DOMAIN a : \E m \in 1 .. Len(Sends(e, a[i])) : q = at[i] + m
  <2>1. PICK i \in DOMAIN a : at[i] < q /\ q <= at[i + 1]
    BY <1>1, <1>2
  <2> DEFINE s == Len(Sends(e, a[i]))
             m == q - at[i]
  <2>2. at[i] \in Nat /\ s \in Nat /\ at[i + 1] = at[i] + s /\ q \in Nat
    BY <1>1, <1>3, <1>4
  <2> HIDE DEF s
  <2>3. m \in 1 .. s /\ q = at[i] + m
    BY <2>1, <2>2
  <2> QED
    BY <2>3 DEF s
<1> QED
  BY <1>1, <1>2, <1>4, <1>5, <1>6

\* Text stays behind the tag that it is behind, if both are kept.
LEMMA KeptUnmixed ==
  ASSUME NEW a \in Seq(TextToken), Unmixed(a), NEW b \in Seq(TextToken),
         NEW K, NEW spot, Kept(a, b, K, spot),
         \A i \in K : (i - 1 \in DOMAIN a /\ a[i].type = "value" /\ a[i].key # <<>>
                          /\ a[i - 1].type = "open" /\ a[i - 1].key = a[i].key)
                        => i - 1 \in K /\ spot[i - 1] + 1 = spot[i],
         \A q \in DOMAIN b : b[q].type = "value" =>
            \/ \E i \in K : q = spot[i]
            \/ q > 1 /\ b[q - 1].type = "open" /\ b[q - 1].key = b[q].key
  PROVE  Unmixed(b)
<1>1. ASSUME NEW i \in K, a[i].type = "value", a[i].key # <<>>, a[i].value # Empty
      PROVE  spot[i] > 1 /\ b[spot[i] - 1].type = "open" /\ b[spot[i] - 1].key = a[i].key
  <2>1. i \in DOMAIN a /\ i \in Nat
    BY DEF Kept
  <2>2. i > 1 /\ a[i - 1].type = "open" /\ a[i - 1].key = a[i].key
    BY <1>1, <2>1 DEF Unmixed, Tags, IsA
  <2>3. i - 1 \in DOMAIN a
    BY <2>1, <2>2
  <2>4. i - 1 \in K /\ spot[i - 1] + 1 = spot[i]
    BY <1>1, <2>2, <2>3
  <2>5. spot[i - 1] \in DOMAIN b /\ b[spot[i - 1]] = a[i - 1]
    BY <2>4 DEF Kept
  <2>6. spot[i - 1] \in Nat \ {0}
    BY <2>5
  <2>7. spot[i] > 1 /\ spot[i] - 1 = spot[i - 1]
    BY <2>4, <2>6
  <2> QED
    BY <2>2, <2>5, <2>7
<1>2. ASSUME NEW q \in DOMAIN b, b[q].type = "value", b[q].key # <<>>, b[q].value # Empty
      PROVE  q > 1 /\ b[q - 1].type = "open" /\ b[q - 1].key = b[q].key
  <2>1. CASE \E i \in K : q = spot[i]
    <3>1. PICK i \in K : q = spot[i]
      BY <2>1
    <3>2. b[q] = a[i]
      BY <3>1 DEF Kept
    <3> QED
      BY <1>1, <1>2, <3>1, <3>2
  <2> QED
    BY <1>2, <2>1
<1> QED
  BY <1>2 DEF Unmixed, Tags, IsA

\* A deletion takes an element and what is in it.
LEMMA DeleteGood ==
  ASSUME NEW e \in Edits, e.op = "delete", NEW a \in Seq(TextToken), NEW b \in Seq(TextToken),
         Emitted(e, a, b), NEW d, Good(a, d)
  PROVE  Good(b, Cut(d, e.key))
<1>1. PICK at : Mapped(e, a, b, at)
  BY DEF Emitted
<1>2. PICK P, o, c : Laid(a, P, o, c) /\ Tells(a, P, d)
  BY DEF Good
<1> DEFINE K == {i \in DOMAIN a : ~SelfOrChild(a[i].key, e.key)}
           spot == [i \in K |-> at[i] + 1]
           Q == {p \in P : ~SelfOrChild(p, e.key)}
           o2 == [p \in Q |-> spot[o[p]]]
           c2 == [p \in Q |-> spot[c[p]]]
<1>3. /\ DOMAIN a = 1 .. Len(a) /\ Len(a) \in Nat /\ DOMAIN b = 1 .. Len(b) /\ Len(b) \in Nat
      /\ \A i \in DOMAIN a :
               /\ i \in Nat /\ a[i] \in TextToken
               /\ at[i] \in Nat /\ at[i + 1] = at[i] + Len(Sends(e, a[i]))
               /\ \A m \in 1 .. Len(Sends(e, a[i])) :
                     at[i] + m \in DOMAIN b /\ b[at[i] + m] = Sends(e, a[i])[m]
      /\ \A i, j \in DOMAIN a : i < j => at[i + 1] <= at[j]
      /\ \A q \in DOMAIN b : \E i \in DOMAIN a :
               \E m \in 1 .. Len(Sends(e, a[i])) : q = at[i] + m
  BY <1>1, Blocks
<1>4. \A i \in DOMAIN a : Sends(e, a[i]) = IF i \in K THEN <<a[i]>> ELSE <<>>
  BY DEF Sends
<1>5. ASSUME NEW i \in K
      PROVE  spot[i] \in DOMAIN b /\ b[spot[i]] = a[i] /\ at[i + 1] = spot[i] /\ i \in DOMAIN a
             /\ spot[i] \in Nat
  <2>1. i \in DOMAIN a /\ Sends(e, a[i]) = <<a[i]>>
    BY <1>4
  <2>2. Len(Sends(e, a[i])) = 1 /\ Sends(e, a[i])[1] = a[i] /\ 1 \in 1 .. Len(Sends(e, a[i]))
    BY <2>1
  <2>3. spot[i] = at[i] + 1
    OBVIOUS
  <2> HIDE DEF spot, K
  <2>4. /\ at[i] \in Nat /\ at[i + 1] = at[i] + 1
        /\ at[i] + 1 \in DOMAIN b /\ b[at[i] + 1] = a[i]
    BY <1>3, <2>1, <2>2
  <2> QED
    BY <2>1, <2>3, <2>4
<1>6. \A q \in DOMAIN b : \E i \in K : q = spot[i]
  <2> TAKE q \in DOMAIN b
  <2>1. PICK i \in DOMAIN a : \E m \in 1 .. Len(Sends(e, a[i])) : q = at[i] + m
    BY <1>3
  <2>2. PICK m \in 1 .. Len(Sends(e, a[i])) : q = at[i] + m
    BY <2>1
  <2>3. i \in K
    <3>1. Len(<<>>) = 0 /\ 1 .. 0 = {}
      OBVIOUS
    <3> QED
      BY <1>4, <3>1
  <2>4. m = 1
    <3>1. Len(Sends(e, a[i])) = 1
      BY <1>4, <2>3
    <3> QED
      BY <3>1
  <2> QED
    BY <2>2, <2>3, <2>4
<1>7. Kept(a, b, K, spot)
  <2>1. ASSUME NEW i \in K, NEW j \in K, i < j PROVE spot[i] < spot[j]
    <3>1. at[i + 1] <= at[j] /\ at[i + 1] = spot[i] /\ at[j] \in Nat /\ spot[i] \in Nat
      BY <1>3, <1>5, <2>1
    <3> QED
      BY <3>1
  <2> HIDE DEF K
  <2>2. spot \in [K -> DOMAIN b]
    BY <1>5
  <2> HIDE DEF spot
  <2> QED
    BY <1>5, <2>1, <2>2 DEF Kept
<1>8. /\ e.key \in Path /\ e.key \in Seq(STRING) /\ e.key # <<>> /\ P \subseteq Path
      /\ Path \subseteq Seq(STRING)
  BY <1>2 DEF Edits, Laid, Path
<1>9. ASSUME NEW i \in DOMAIN a PROVE a[i].key \in P \cup {<<>>}
  BY <1>2, <1>3, TokenIs DEF Laid
<1>10. ASSUME NEW p \in P
       PROVE  /\ o[p] \in DOMAIN a /\ c[p] \in DOMAIN a /\ a[o[p]].key = p /\ a[c[p]].key = p
              /\ Len(p) = 1 \/ Front(p) \in P
  BY <1>2 DEF Laid
<1>11. KeptElements(a, P, o, c, K, spot, Q, o2, c2)
  <2>1. ASSUME NEW p \in Q PROVE o[p] \in K /\ c[p] \in K /\ o2[p] = spot[o[p]] /\ c2[p] = spot[c[p]]
    BY <1>10
  <2>2. ASSUME NEW i \in K PROVE a[i].key \in Q \cup {<<>>}
    BY <1>9
  <2> HIDE DEF K, spot, o2, c2
  <2> QED
    BY <2>1, <2>2 DEF KeptElements
<1> HIDE DEF K, spot, o2, c2
<1>12. ASSUME NEW p \in Q PROVE Len(p) = 1 \/ Front(p) \in Q
  <2>1. CASE Len(p) # 1
    <3>1. Front(p) \in P /\ SelfOrChild(p, Front(p)) /\ p \in Path
      BY <1>8, <1>10, <2>1, FrontIs
    <3>2. ASSUME SelfOrChild(Front(p), e.key) PROVE FALSE
      <4>1. p \in Seq(STRING) /\ Front(p) \in Seq(STRING)
        BY <1>8, <3>1
      <4> QED
        BY <1>8, <3>1, <3>2, <4>1, PrefixTrans
    <3> QED
      BY <3>1, <3>2
  <2> QED
    BY <2>1
<1> HIDE DEF Q
<1>13. Laid(b, Q, o2, c2)
  <2>1. /\ \A p \in Q :
              /\ o2[p] \in DOMAIN b /\ c2[p] \in DOMAIN b /\ o2[p] < c2[p]
              /\ b[o2[p]].type = "open" /\ b[o2[p]].key = p
              /\ b[c2[p]].type = "close" /\ b[c2[p]].key = p
        /\ \A i \in K :
              /\ b[spot[i]].type = "open"  => b[spot[i]].key \in Q /\ o2[b[spot[i]].key] = spot[i]
              /\ b[spot[i]].type = "close" => b[spot[i]].key \in Q /\ c2[b[spot[i]].key] = spot[i]
              /\ b[spot[i]].type = "value" =>
                    /\ b[spot[i]].key = <<>> \/ b[spot[i]].key \in Q
                    /\ \A k \in Q : (o2[k] < spot[i] /\ spot[i] < c2[k])
                                       <=> SelfOrChild(b[spot[i]].key, k)
        /\ \A k, l \in Q :
              /\ k # l /\ SelfOrChild(l, k) => o2[k] < o2[l] /\ c2[l] < c2[k]
              /\ ~SelfOrChild(l, k) /\ ~SelfOrChild(k, l) => c2[k] < o2[l] \/ c2[l] < o2[k]
    BY <1>2, <1>7, <1>11, KeptLaid
  <2>2. \A q \in DOMAIN b :
               /\ b[q].type = "open"  => b[q].key \in Q /\ o2[b[q].key] = q
               /\ b[q].type = "close" => b[q].key \in Q /\ c2[b[q].key] = q
               /\ b[q].type = "value" =>
                     /\ b[q].key = <<>> \/ b[q].key \in Q
                     /\ \A k \in Q : (o2[k] < q /\ q < c2[k]) <=> SelfOrChild(b[q].key, k)
    <3> TAKE q \in DOMAIN b
    <3>1. PICK i \in K : q = spot[i]
      BY <1>6
    <3> QED
      BY <2>1, <3>1
  <2>3. Q \subseteq Path
    BY <1>8 DEF Q
  <2>4. o2 \in [Q -> DOMAIN b] /\ c2 \in [Q -> DOMAIN b]
    BY <2>1 DEF o2, c2
  <2>5. \A p \in Q :
           /\ b[o2[p]].type = "open" /\ b[o2[p]].key = p
           /\ b[c2[p]].type = "close" /\ b[c2[p]].key = p
           /\ o2[p] < c2[p]
           /\ Len(p) = 1 \/ Front(p) \in Q
    BY <1>12, <2>1
  <2>6. \A k, l \in Q :
               /\ k # l /\ SelfOrChild(l, k) => o2[k] < o2[l] /\ c2[l] < c2[k]
               /\ ~SelfOrChild(l, k) /\ ~SelfOrChild(k, l) => c2[k] < o2[l] \/ c2[l] < o2[k]
    BY <2>1
  <2> QED
    BY <2>2, <2>3, <2>4, <2>5, <2>6, Zenon DEF Laid
<1>14. Unmixed(b)
  <2>1. Unmixed(a)
    BY <1>2 DEF Tells
  <2>2. ASSUME NEW i \in K, i - 1 \in DOMAIN a, a[i - 1].key = a[i].key
        PROVE  i - 1 \in K /\ spot[i - 1] + 1 = spot[i]
    <3>1. i - 1 \in K
      BY <2>2 DEF K
    <3>2. at[(i - 1) + 1] = spot[i - 1] /\ i \in Nat /\ i \in K
      BY <1>3, <1>5, <3>1
    <3>3. (i - 1) + 1 = i
      BY <3>2
    <3>4. spot[i] = at[i] + 1
      BY DEF spot
    <3> QED
      BY <3>1, <3>2, <3>3, <3>4
  <2> QED
    BY <1>6, <1>7, <2>1, <2>2, KeptUnmixed
<1>15. Tells(b, Q, Cut(d, e.key))
  <2>1. /\ DOMAIN d = P
        /\ \A i \in DOMAIN a :
              a[i].type = "value" /\ a[i].key \in P /\ a[i].value # Empty
                => d[a[i].key] = a[i].value
        /\ \A p \in P : d[p] # Empty =>
              \E i \in DOMAIN a : a[i].type = "value" /\ a[i].key = p /\ a[i].value = d[p]
    BY <1>2 DEF Tells
  <2> DEFINE f == Cut(d, e.key)
  <2>2. DOMAIN f = Q /\ Q \subseteq P /\ \A p \in Q : f[p] = d[p]
    BY <2>1 DEF Cut, Q
  <2> HIDE DEF f
  <2>3. ASSUME NEW q \in DOMAIN b, b[q].type = "value", b[q].key \in Q, b[q].value # Empty
        PROVE  f[b[q].key] = b[q].value
    <3>1. PICK i \in K : q = spot[i]
      BY <1>6
    <3>2. b[q] = a[i] /\ i \in DOMAIN a
      BY <1>5, <3>1
    <3>3. a[i].key \in P /\ d[a[i].key] = a[i].value /\ f[a[i].key] = d[a[i].key]
      BY <2>1, <2>2, <2>3, <3>2
    <3> QED
      BY <3>2, <3>3
  <2>4. ASSUME NEW p \in Q, f[p] # Empty
        PROVE  \E q \in DOMAIN b : b[q].type = "value" /\ b[q].key = p /\ b[q].value = f[p]
    <3>1. PICK i \in DOMAIN a : a[i].type = "value" /\ a[i].key = p /\ a[i].value = d[p]
      BY <2>1, <2>2, <2>4
    <3>2. i \in K
      BY <3>1 DEF K, Q
    <3> QED
      BY <1>5, <2>2, <3>1, <3>2
  <2> QED
    BY <1>14, <2>2, <2>3, <2>4 DEF Tells, f
<1> QED
  BY <1>13, <1>15 DEF Good

\* What is above an element is an element.
LEMMA PrefixClosed ==
  ASSUME NEW text, NEW P, NEW o, NEW c, Laid(text, P, o, c), NEW l \in P, NEW k \in Path,
         SelfOrChild(l, k)
  PROVE  k \in P
<1> DEFINE below == {m \in P : SelfOrChild(m, k)}
           T == {Len(m) : m \in below}
<1>1. P \subseteq Path /\ \A m \in Path : m \in Seq(STRING) /\ Len(m) \in Nat
  BY DEF Laid, Path
<1>2. T \subseteq Nat /\ T # {}
  BY <1>1
<1> HIDE DEF T
<1>3. PICK n \in T : \A x \in T : n <= x
  BY <1>2, NatMin
<1>4. PICK m \in below : Len(m) = n
  BY DEF T
<1>5. ASSUME m # k PROVE FALSE
  <2>1. m \in Path /\ k \in Seq(STRING) /\ SelfOrChild(m, k)
    BY <1>1, <1>4
  <2>2. SelfOrChild(Front(m), k) /\ Len(k) < Len(m) /\ Len(k) \in Nat \ {0}
    BY <1>1, <1>5, <2>1, PrefixFront, EmptySeq DEF Path
  <2>3. Len(m) # 1 /\ Len(m) \in Nat
    BY <1>1, <2>1, <2>2
  <2>4. Front(m) \in P /\ Len(Front(m)) = Len(m) - 1
    BY <1>4, <2>1, <2>3, FrontIs DEF Laid
  <2>5. Len(m) - 1 \in T
    BY <2>2, <2>4 DEF T
  <2> QED
    BY <1>3, <1>4, <2>3, <2>5
<1> QED
  BY <1>4, <1>5

\* A new text replaces the one that an element has.
LEMMA SetGood ==
  ASSUME NEW e \in Edits, e.op = "set", NEW a \in Seq(TextToken), NEW b \in Seq(TextToken),
         Emitted(e, a, b), NEW d, Good(a, d), e.key \in DOMAIN d
  PROVE  Good(b, [d EXCEPT ![e.key] = e.value])
<1>1. PICK at : Mapped(e, a, b, at)
  BY DEF Emitted
<1>2. PICK P, o, c : Laid(a, P, o, c) /\ Tells(a, P, d)
  BY DEF Good
<1> DEFINE K == {i \in DOMAIN a : ~(a[i].type = "value" /\ a[i].key = e.key)}
           spot == [i \in K |-> at[i] + 1]
           o2 == [p \in P |-> spot[o[p]]]
           c2 == [p \in P |-> spot[c[p]]]
           new == Token("value", e.key, e.value)
           k == e.key
           h == o2[k]
<1>3. /\ DOMAIN a = 1 .. Len(a) /\ Len(a) \in Nat /\ DOMAIN b = 1 .. Len(b) /\ Len(b) \in Nat
      /\ \A i \in DOMAIN a :
               /\ i \in Nat /\ a[i] \in TextToken
               /\ at[i] \in Nat /\ at[i + 1] = at[i] + Len(Sends(e, a[i]))
               /\ \A m \in 1 .. Len(Sends(e, a[i])) :
                     at[i] + m \in DOMAIN b /\ b[at[i] + m] = Sends(e, a[i])[m]
      /\ \A i, j \in DOMAIN a : i < j => at[i + 1] <= at[j]
      /\ \A q \in DOMAIN b : \E i \in DOMAIN a :
               \E m \in 1 .. Len(Sends(e, a[i])) : q = at[i] + m
  BY <1>1, Blocks
<1>4. /\ k \in Path /\ k \in Seq(STRING) /\ k # <<>> /\ P \subseteq Path /\ k \in P
      /\ Path \subseteq Seq(STRING) /\ e.value \in Nat \cup {Empty} /\ DOMAIN d = P
  BY <1>2 DEF Edits, Laid, Path, Tells
<1>5. ASSUME NEW p \in P
      PROVE  /\ o[p] \in DOMAIN a /\ c[p] \in DOMAIN a /\ a[o[p]].key = p /\ a[c[p]].key = p
             /\ a[o[p]].type = "open" /\ a[c[p]].type = "close"
             /\ Len(p) = 1 \/ Front(p) \in P
             /\ o[p] \in K /\ c[p] \in K
  BY <1>2 DEF Laid
<1>6. ASSUME NEW i \in DOMAIN a
      PROVE  /\ a[i].type = "open" /\ a[i].key = k <=> i = o[k]
             /\ a[i].key \in P \cup {<<>>}
  <2>1. a[i].type = "open" /\ a[i].key = k <=> i = o[k]
    BY <1>2, <1>4, <1>5 DEF Laid
  <2>2. a[i].key \in P \cup {<<>>}
    BY <1>2, <1>3, TokenIs DEF Laid
  <2> QED
    BY <2>1, <2>2
<1>7. ASSUME NEW i \in DOMAIN a
      PROVE  Sends(e, a[i]) = IF i = o[k] THEN <<a[i], new>>
                              ELSE IF i \in K THEN <<a[i]>> ELSE <<>>
  BY <1>6 DEF Sends
<1>8. o[k] \in K /\ o[k] \in DOMAIN a
  BY <1>4, <1>5
<1>9. /\ new.type = "value" /\ new.key = k /\ new.value = e.value
  BY DEF Token
<1> HIDE DEF new
<1>10. ASSUME NEW i \in K
      PROVE  /\ spot[i] \in DOMAIN b /\ b[spot[i]] = a[i] /\ i \in DOMAIN a /\ spot[i] \in Nat
             /\ spot[i] = at[i] + 1 /\ spot[i] <= at[i + 1] /\ at[i + 1] \in Nat
             /\ i # o[k] => at[i + 1] = spot[i]
             /\ i = o[k] => spot[i] + 1 \in DOMAIN b /\ b[spot[i] + 1] = new
                              /\ at[i + 1] = spot[i] + 1
  <2>1. i \in DOMAIN a /\ spot[i] = at[i] + 1
    OBVIOUS
  <2> HIDE DEF K, spot, k
  <2>2. CASE i # o[k]
    <3>1. Sends(e, a[i]) = <<a[i]>>
      BY <1>7, <2>1, <2>2
    <3>2. Len(Sends(e, a[i])) = 1 /\ Sends(e, a[i])[1] = a[i] /\ 1 \in 1 .. 1
      BY <3>1
    <3>3. /\ at[i] \in Nat /\ at[i + 1] = at[i] + 1
          /\ at[i] + 1 \in DOMAIN b /\ b[at[i] + 1] = a[i]
      BY <1>3, <2>1, <3>2
    <3> QED
      BY <2>1, <2>2, <3>3
  <2>3. CASE i = o[k]
    <3>1. Sends(e, a[i]) = <<a[i], new>>
      BY <1>7, <2>1, <2>3
    <3>2. Len(Sends(e, a[i])) = 2 /\ Sends(e, a[i])[1] = a[i] /\ Sends(e, a[i])[2] = new
          /\ 1 \in 1 .. 2 /\ 2 \in 1 .. 2
      BY <3>1
    <3>3. /\ at[i] \in Nat /\ at[i + 1] = at[i] + 2
          /\ at[i] + 1 \in DOMAIN b /\ b[at[i] + 1] = a[i]
          /\ at[i] + 2 \in DOMAIN b /\ b[at[i] + 2] = new
      BY <1>3, <2>1, <3>2
    <3>4. (at[i] + 1) + 1 = at[i] + 2
      BY <3>3
    <3> QED
      BY <2>1, <2>3, <3>3, <3>4
  <2> QED
    BY <2>2, <2>3
<1>11. h = spot[o[k]] /\ h \in Nat /\ h + 1 \in DOMAIN b /\ b[h + 1] = new /\ b[h] = a[o[k]]
       /\ h \in DOMAIN b
  <2>1. h = spot[o[k]]
    BY <1>4
  <2> HIDE DEF h, K, spot, k
  <2> QED
    BY <1>8, <1>10, <2>1
<1>12. ASSUME NEW q \in DOMAIN b PROVE (\E i \in K : q = spot[i]) \/ q = h + 1
  <2>1. PICK i \in DOMAIN a : \E m \in 1 .. Len(Sends(e, a[i])) : q = at[i] + m
    BY <1>3
  <2>2. PICK m \in 1 .. Len(Sends(e, a[i])) : q = at[i] + m
    BY <2>1
  <2>3. i \in K
    <3>1. Len(<<>>) = 0 /\ 1 .. 0 = {}
      OBVIOUS
    <3> QED
      BY <1>7, <1>8, <3>1
  <2>4. spot[i] = at[i] + 1 /\ at[i] \in Nat
    BY <1>3, <2>3
  <2> HIDE DEF K, spot, k, h
  <2>5. CASE i # o[k]
    <3>1. Len(Sends(e, a[i])) = 1
      BY <1>7, <2>3, <2>5
    <3>2. m = 1
      BY <3>1
    <3> QED
      BY <2>2, <2>3, <2>4, <3>2
  <2>6. CASE i = o[k]
    <3>1. Len(Sends(e, a[i])) = 2
      BY <1>7, <2>6
    <3>2. m \in 1 .. 2
      BY <3>1
    <3>3. m = 1 \/ m = 2
      BY <3>2
    <3>4. q = spot[i] \/ q = spot[i] + 1
      BY <2>2, <2>4, <3>3
    <3> QED
      BY <1>11, <2>3, <2>6, <3>4
  <2> QED
    BY <2>5, <2>6
<1>13. Kept(a, b, K, spot)
  <2>1. ASSUME NEW i \in K, NEW j \in K, i < j PROVE spot[i] < spot[j]
    <3>1. /\ at[i + 1] <= at[j] /\ spot[i] <= at[i + 1] /\ spot[j] = at[j] + 1
          /\ at[j] \in Nat /\ spot[i] \in Nat /\ at[i + 1] \in Nat
      BY <1>3, <1>10, <2>1
    <3> QED
      BY <3>1
  <2> HIDE DEF K
  <2>2. spot \in [K -> DOMAIN b]
    BY <1>10
  <2>3. K \subseteq DOMAIN a
    BY DEF K
  <2> HIDE DEF spot
  <2> QED
    BY <1>10, <2>1, <2>2, <2>3 DEF Kept
<1>14. KeptElements(a, P, o, c, K, spot, P, o2, c2)
  <2>1. ASSUME NEW p \in P PROVE o[p] \in K /\ c[p] \in K /\ o2[p] = spot[o[p]] /\ c2[p] = spot[c[p]]
    BY <1>5
  <2>2. ASSUME NEW i \in K PROVE a[i].key \in P \cup {<<>>}
    BY <1>6
  <2> HIDE DEF K, spot, o2, c2
  <2> QED
    BY <2>1, <2>2 DEF KeptElements
<1>15. \A i \in K : ~(a[i].type = "value" /\ a[i].key = k)
  OBVIOUS
<1>16. \A i \in DOMAIN a : i \in K \/ (a[i].type = "value" /\ a[i].key = k)
  OBVIOUS
<1>17. \A p \in P : o2[p] = spot[o[p]] /\ c2[p] = spot[c[p]]
  OBVIOUS
<1>18. DOMAIN o2 = P /\ DOMAIN c2 = P /\ o2 = [p \in P |-> o2[p]] /\ c2 = [p \in P |-> c2[p]]
  OBVIOUS
<1>19. h = o2[k]
  OBVIOUS
<1> HIDE DEF K, spot, o2, c2, h, k
<1>20. /\ \A p \in P :
               /\ o2[p] \in DOMAIN b /\ c2[p] \in DOMAIN b /\ o2[p] < c2[p]
               /\ b[o2[p]].type = "open" /\ b[o2[p]].key = p
               /\ b[c2[p]].type = "close" /\ b[c2[p]].key = p
       /\ \A i \in K :
               /\ b[spot[i]].type = "open"  => b[spot[i]].key \in P /\ o2[b[spot[i]].key] = spot[i]
               /\ b[spot[i]].type = "close" => b[spot[i]].key \in P /\ c2[b[spot[i]].key] = spot[i]
               /\ b[spot[i]].type = "value" =>
                     /\ b[spot[i]].key = <<>> \/ b[spot[i]].key \in P
                     /\ \A l \in P : (o2[l] < spot[i] /\ spot[i] < c2[l])
                                        <=> SelfOrChild(b[spot[i]].key, l)
       /\ \A l, m \in P :
               /\ l # m /\ SelfOrChild(m, l) => o2[l] < o2[m] /\ c2[m] < c2[l]
               /\ ~SelfOrChild(m, l) /\ ~SelfOrChild(l, m) => c2[l] < o2[m] \/ c2[m] < o2[l]
  BY <1>2, <1>13, <1>14, KeptLaid
<1>a. \A q \in DOMAIN b : q \in Nat \ {0}
  BY <1>3
<1>21. ASSUME NEW p \in P PROVE (o2[p] < h + 1 /\ h + 1 < c2[p]) <=> SelfOrChild(k, p)
  <2>1. /\ o2[p] \in Nat /\ c2[p] \in Nat /\ o2[p] < c2[p] /\ c2[p] # h + 1
        /\ c2[k] \in Nat /\ h < c2[k] /\ h \in Nat
    <3>1. b[c2[p]].type = "close" /\ b[h + 1].type = "value"
      BY <1>9, <1>11, <1>20
    <3>2. o2[p] \in DOMAIN b /\ c2[p] \in DOMAIN b /\ c2[k] \in DOMAIN b /\ h < c2[k]
          /\ o2[p] < c2[p]
      BY <1>4, <1>19, <1>20
    <3>3. c2[p] # h + 1
      BY <3>1, Zenon
    <3> QED
      BY <1>a, <1>11, <3>2, <3>3
  <2>2. CASE p = k
    <3>1. o2[p] = h /\ SelfOrChild(k, p)
      BY <1>4, <1>19, <2>2, PrefixSelf
    <3> QED
      BY <2>1, <2>2, <3>1
  <2>3. CASE p # k /\ SelfOrChild(k, p)
    <3>1. o2[p] < h /\ c2[k] < c2[p]
      BY <1>4, <1>19, <1>20, <2>3
    <3> QED
      BY <2>1, <2>3, <3>1
  <2>4. CASE p # k /\ ~SelfOrChild(k, p) /\ SelfOrChild(p, k)
    <3>1. h < o2[p]
      BY <1>4, <1>19, <1>20, <2>4
    <3> QED
      BY <2>1, <2>4, <3>1
  <2>5. CASE p # k /\ ~SelfOrChild(k, p) /\ ~SelfOrChild(p, k)
    <3>1. c2[p] < h \/ c2[k] < o2[p]
      BY <1>4, <1>19, <1>20, <2>5
    <3> QED
      BY <2>1, <2>5, <3>1
  <2> QED
    BY <2>2, <2>3, <2>4, <2>5
<1>22. Laid(b, P, o2, c2)
  <2>1. ASSUME NEW q \in DOMAIN b
        PROVE  /\ b[q].type = "open"  => b[q].key \in P /\ o2[b[q].key] = q
               /\ b[q].type = "close" => b[q].key \in P /\ c2[b[q].key] = q
               /\ b[q].type = "value" =>
                     /\ b[q].key = <<>> \/ b[q].key \in P
                     /\ \A l \in P : (o2[l] < q /\ q < c2[l]) <=> SelfOrChild(b[q].key, l)
    <3>1. CASE \E i \in K : q = spot[i]
      <4>1. PICK i \in K : q = spot[i]
        BY <3>1
      <4> QED
        BY <1>20, <4>1
    <3>2. CASE q = h + 1
      BY <1>4, <1>9, <1>11, <1>21, <3>2
    <3> QED
      BY <1>12, <3>1, <3>2
  <2>2. o2 \in [P -> DOMAIN b] /\ c2 \in [P -> DOMAIN b]
    BY <1>18, <1>20
  <2>3. \A p \in P :
           /\ b[o2[p]].type = "open" /\ b[o2[p]].key = p
           /\ b[c2[p]].type = "close" /\ b[c2[p]].key = p
           /\ o2[p] < c2[p]
           /\ Len(p) = 1 \/ Front(p) \in P
    BY <1>5, <1>20
  <2>4. \A l, m \in P :
               /\ l # m /\ SelfOrChild(m, l) => o2[l] < o2[m] /\ c2[m] < c2[l]
               /\ ~SelfOrChild(m, l) /\ ~SelfOrChild(l, m) => c2[l] < o2[m] \/ c2[m] < o2[l]
    BY <1>20
  <2> QED
    BY <1>4, <2>1, <2>2, <2>3, <2>4, Zenon DEF Laid
<1>23. Unmixed(b)
  <2>1. Unmixed(a)
    BY <1>2 DEF Tells
  <2>2. ASSUME NEW i \in K, i - 1 \in DOMAIN a, a[i].type = "value",
               a[i - 1].type = "open", a[i - 1].key = a[i].key
        PROVE  i - 1 \in K /\ spot[i - 1] + 1 = spot[i]
    <3>1. i - 1 \in K
      BY <1>16, <2>2
    <3>2. i - 1 # o[k] /\ (i - 1) + 1 = i
      <4>1. a[i].key # k /\ i \in Nat
        BY <1>3, <1>10, <1>15, <2>2
      <4> QED
        BY <1>4, <1>5, <2>2, <4>1
    <3>3. at[(i - 1) + 1] = spot[i - 1] /\ spot[i] = at[i] + 1
      BY <1>10, <3>1, <3>2
    <3> QED
      BY <3>1, <3>2, <3>3
  <2>3. h + 1 > 1 /\ b[(h + 1) - 1].type = "open" /\ b[(h + 1) - 1].key = b[h + 1].key
    <3>1. (h + 1) - 1 = h /\ h + 1 > 1
      BY <1>a, <1>11
    <3> QED
      BY <1>4, <1>5, <1>9, <1>11, <3>1
  <2> QED
    BY <1>12, <1>13, <2>1, <2>2, <2>3, KeptUnmixed
<1>24. Tells(b, P, [d EXCEPT ![e.key] = e.value])
  <2>1. /\ DOMAIN d = P
        /\ \A i \in DOMAIN a :
              a[i].type = "value" /\ a[i].key \in P /\ a[i].value # Empty
                => d[a[i].key] = a[i].value
        /\ \A p \in P : d[p] # Empty =>
              \E i \in DOMAIN a : a[i].type = "value" /\ a[i].key = p /\ a[i].value = d[p]
    BY <1>2 DEF Tells
  <2> DEFINE f == [d EXCEPT ![e.key] = e.value]
  <2>2. DOMAIN f = P /\ f[k] = e.value /\ \A p \in P : p # k => f[p] = d[p]
    BY <1>4, <2>1 DEF k
  <2> HIDE DEF f
  <2>3. ASSUME NEW q \in DOMAIN b, b[q].type = "value", b[q].key \in P, b[q].value # Empty
        PROVE  f[b[q].key] = b[q].value
    <3>1. CASE q = h + 1
      BY <1>9, <1>11, <2>2, <3>1
    <3>2. CASE \E i \in K : q = spot[i]
      <4>1. PICK i \in K : q = spot[i]
        BY <3>2
      <4>2. b[q] = a[i] /\ i \in DOMAIN a /\ a[i].key # k
        BY <1>10, <1>15, <2>3, <4>1
      <4>3. a[i].key \in P /\ d[a[i].key] = a[i].value /\ f[a[i].key] = d[a[i].key]
        BY <2>1, <2>2, <2>3, <4>2
      <4> QED
        BY <4>2, <4>3
    <3> QED
      BY <1>12, <3>1, <3>2
  <2>4. ASSUME NEW p \in P, f[p] # Empty
        PROVE  \E q \in DOMAIN b : b[q].type = "value" /\ b[q].key = p /\ b[q].value = f[p]
    <3>1. CASE p = k
      BY <1>9, <1>11, <2>2, <3>1
    <3>2. CASE p # k
      <4>1. PICK i \in DOMAIN a : a[i].type = "value" /\ a[i].key = p /\ a[i].value = d[p]
        BY <2>1, <2>2, <2>4, <3>2
      <4>2. i \in K
        BY <1>16, <3>2, <4>1
      <4> QED
        BY <1>10, <2>2, <3>2, <4>1, <4>2
    <3> QED
      BY <3>1, <3>2
  <2> QED
    BY <1>23, <2>2, <2>3, <2>4 DEF Tells, f
<1> QED
  BY <1>22, <1>24 DEF Good

\* A new element comes behind those in its parent.
LEMMA AppendGood ==
  ASSUME NEW e \in Edits, e.op = "append", NEW a \in Seq(TextToken), NEW b \in Seq(TextToken),
         Emitted(e, a, b), NEW d, Good(a, d), e.key \notin DOMAIN d,
         Len(e.key) # 1, Front(e.key) \in DOMAIN d
  PROVE  Good(b, [p \in DOMAIN d \cup {e.key} |-> IF p = e.key THEN e.value ELSE d[p]])
<1>1. PICK at : Mapped(e, a, b, at)
  BY DEF Emitted
<1>2. PICK P, o, c : Laid(a, P, o, c) /\ Tells(a, P, d)
  BY DEF Good
<1> DEFINE k == e.key
           f == Front(k)
           K == DOMAIN a
           spot == [i \in K |-> at[i + 1]]
           t == c[f]
           g == at[t]
           Q == P \cup {k}
           o2 == [p \in Q |-> IF p = k THEN g + 1 ELSE spot[o[p]]]
           c2 == [p \in Q |-> IF p = k THEN g + 3 ELSE spot[c[p]]]
           new(type) == Token(type, k, IF type = "value" THEN e.value ELSE Empty)
<1>3. /\ DOMAIN a = 1 .. Len(a) /\ Len(a) \in Nat /\ DOMAIN b = 1 .. Len(b) /\ Len(b) \in Nat
      /\ \A i \in DOMAIN a :
               /\ i \in Nat /\ a[i] \in TextToken
               /\ at[i] \in Nat /\ at[i + 1] = at[i] + Len(Sends(e, a[i]))
               /\ \A m \in 1 .. Len(Sends(e, a[i])) :
                     at[i] + m \in DOMAIN b /\ b[at[i] + m] = Sends(e, a[i])[m]
      /\ \A i, j \in DOMAIN a : i < j => at[i + 1] <= at[j]
      /\ \A q \in DOMAIN b : \E i \in DOMAIN a :
               \E m \in 1 .. Len(Sends(e, a[i])) : q = at[i] + m
  BY <1>1, Blocks
<1>4. /\ k \in Path /\ k \in Seq(STRING) /\ k # <<>> /\ P \subseteq Path /\ k \notin P
      /\ Path \subseteq Seq(STRING) /\ e.value \in Nat \cup {Empty} /\ DOMAIN d = P
      /\ f \in P /\ f \in Seq(STRING) /\ f # k /\ SelfOrChild(k, f) /\ <<>> \notin P
  <2>1. /\ k \in Path /\ k \in Seq(STRING) /\ k # <<>> /\ P \subseteq Path /\ k \notin P
        /\ Path \subseteq Seq(STRING) /\ e.value \in Nat \cup {Empty} /\ DOMAIN d = P
        /\ f \in P /\ <<>> \notin P
    BY <1>2 DEF Edits, Laid, Path, Tells
  <2> QED
    BY <2>1, FrontIs
<1>5. ASSUME NEW p \in P
      PROVE  /\ o[p] \in K /\ c[p] \in K /\ a[o[p]].key = p /\ a[c[p]].key = p
             /\ a[o[p]].type = "open" /\ a[c[p]].type = "close"
             /\ Len(p) = 1 \/ Front(p) \in P
  BY <1>2 DEF Laid
<1>6. ASSUME NEW i \in DOMAIN a
      PROVE  /\ a[i].type = "close" /\ a[i].key = f <=> i = t
             /\ a[i].key \in P \cup {<<>>}
  <2>1. a[i].type = "close" /\ a[i].key = f <=> i = t
    BY <1>2, <1>4, <1>5 DEF Laid
  <2>2. a[i].key \in P \cup {<<>>}
    BY <1>2, <1>3, TokenIs DEF Laid
  <2> QED
    BY <2>1, <2>2
<1>7. ASSUME NEW i \in DOMAIN a
      PROVE  Sends(e, a[i]) = IF i = t THEN <<new("open"), new("value"), new("close"), a[i]>>
                              ELSE <<a[i]>>
  BY <1>6 DEF Sends
<1>8. t \in K /\ \A i \in K : spot[i] = at[i + 1]
  BY <1>4, <1>5
<1>9. \A type \in {"open", "value", "close"} :
         /\ new(type).type = type /\ new(type).key = k
         /\ type = "value" => new(type).value = e.value
  BY DEF Token
<1> HIDE DEF new
<1>10. ASSUME NEW i \in K
      PROVE  /\ spot[i] \in DOMAIN b /\ b[spot[i]] = a[i] /\ at[i] \in Nat /\ i \in Nat
             /\ i # t => spot[i] = at[i] + 1
             /\ i = t => /\ spot[i] = at[i] + 4
                         /\ at[i] + 1 \in DOMAIN b /\ b[at[i] + 1] = new("open")
                         /\ at[i] + 2 \in DOMAIN b /\ b[at[i] + 2] = new("value")
                         /\ at[i] + 3 \in DOMAIN b /\ b[at[i] + 3] = new("close")
  <2>1. i \in DOMAIN a /\ spot[i] = at[i + 1]
    OBVIOUS
  <2> HIDE DEF K, spot, k, t
  <2>2. CASE i # t
    <3>1. Sends(e, a[i]) = <<a[i]>>
      BY <1>7, <2>1, <2>2
    <3>2. Len(Sends(e, a[i])) = 1 /\ Sends(e, a[i])[1] = a[i] /\ 1 \in 1 .. 1
      BY <3>1
    <3>3. /\ at[i] \in Nat /\ at[i + 1] = at[i] + 1 /\ i \in Nat
          /\ at[i] + 1 \in DOMAIN b /\ b[at[i] + 1] = a[i]
      BY <1>3, <2>1, <3>2
    <3> QED
      BY <2>1, <2>2, <3>3
  <2>3. CASE i = t
    <3>1. Sends(e, a[i]) = <<new("open"), new("value"), new("close"), a[i]>>
      BY <1>7, <2>1, <2>3
    <3>2. Len(Sends(e, a[i])) = 4
          /\ Sends(e, a[i])[1] = new("open") /\ Sends(e, a[i])[2] = new("value")
          /\ Sends(e, a[i])[3] = new("close") /\ Sends(e, a[i])[4] = a[i]
          /\ 1 \in 1 .. 4 /\ 2 \in 1 .. 4 /\ 3 \in 1 .. 4 /\ 4 \in 1 .. 4
      BY <3>1
    <3>3. /\ at[i] \in Nat /\ at[i + 1] = at[i] + 4 /\ i \in Nat
          /\ at[i] + 1 \in DOMAIN b /\ b[at[i] + 1] = new("open")
          /\ at[i] + 2 \in DOMAIN b /\ b[at[i] + 2] = new("value")
          /\ at[i] + 3 \in DOMAIN b /\ b[at[i] + 3] = new("close")
          /\ at[i] + 4 \in DOMAIN b /\ b[at[i] + 4] = a[i]
      BY <1>3, <2>1, <3>2
    <3> QED
      BY <2>1, <2>3, <3>3
  <2> QED
    BY <2>2, <2>3
<1>11. /\ spot[t] = g + 4 /\ g \in Nat
       /\ g + 1 \in DOMAIN b /\ b[g + 1] = new("open")
       /\ g + 2 \in DOMAIN b /\ b[g + 2] = new("value")
       /\ g + 3 \in DOMAIN b /\ b[g + 3] = new("close")
  <2> HIDE DEF spot, t, K
  <2> QED
    BY <1>8, <1>10
<1>12. ASSUME NEW q \in DOMAIN b
       PROVE  (\E i \in K : q = spot[i]) \/ q = g + 1 \/ q = g + 2 \/ q = g + 3
  <2>1. PICK i \in DOMAIN a : \E m \in 1 .. Len(Sends(e, a[i])) : q = at[i] + m
    BY <1>3
  <2>2. PICK m \in 1 .. Len(Sends(e, a[i])) : q = at[i] + m
    BY <2>1
  <2>3. i \in K /\ at[i] \in Nat
    BY <1>10
  <2> HIDE DEF K, spot, k, t
  <2>4. CASE i # t
    <3>1. Len(Sends(e, a[i])) = 1
      BY <1>7, <2>3, <2>4
    <3>2. m = 1 /\ spot[i] = at[i] + 1
      BY <1>10, <2>3, <2>4, <3>1
    <3> QED
      BY <2>2, <2>3, <3>2
  <2>5. CASE i = t
    <3>1. Len(Sends(e, a[i])) = 4
      BY <1>7, <2>5
    <3>2. m = 1 \/ m = 2 \/ m = 3 \/ m = 4
      <4>1. m \in 1 .. 4
        BY <3>1
      <4> QED
        BY <4>1
    <3>3. spot[i] = at[i] + 4 /\ at[i] = g
      BY <1>10, <2>3, <2>5
    <3> HIDE DEF g
    <3>4. q = g + m /\ spot[i] = g + 4
      BY <2>2, <3>3
    <3>5. CASE m = 4
      BY <2>3, <3>4, <3>5
    <3> QED
      BY <3>2, <3>4, <3>5
  <2> QED
    BY <2>4, <2>5
<1>13. ASSUME NEW i \in K
       PROVE  /\ i \in Nat /\ t \in Nat /\ spot[i] \in Nat
              /\ i < t <=> spot[i] <= g
              /\ ~(i < t) <=> spot[i] >= g + 4
  <2>1. i \in DOMAIN a /\ t \in DOMAIN a /\ spot[i] = at[i + 1]
    BY <1>8
  <2>2. /\ i \in Nat /\ t \in Nat /\ at[i] \in Nat /\ g \in Nat /\ spot[i] \in Nat
        /\ spot[i] >= at[i] + 1
    <3>1. i \in Nat /\ t \in Nat
      BY <1>3, <2>1
    <3> HIDE DEF K, spot, t
    <3>2. at[i] \in Nat /\ g \in Nat
      BY <1>8, <1>10
    <3>3. spot[i] = at[i] + 1 \/ spot[i] = at[i] + 4
      BY <1>10
    <3> QED
      BY <3>1, <3>2, <3>3
  <2> HIDE DEF spot
  <2>3. CASE i < t
    <3>1. at[i + 1] <= at[t]
      BY <1>3, <2>1, <2>3
    <3> HIDE DEF K, t
    <3>2. spot[i] <= g
      BY <2>1, <3>1
    <3> HIDE DEF g
    <3> QED
      BY <2>2, <2>3, <3>2
  <2>4. CASE i = t
    <3>1. spot[i] = g + 4
      BY <1>11, <2>4
    <3> HIDE DEF K, t, g
    <3> QED
      BY <2>2, <2>4, <3>1
  <2>5. CASE t < i
    <3>1. at[t + 1] <= at[i] /\ at[t + 1] = g + 4
      BY <1>3, <1>8, <1>11, <2>1, <2>5
    <3> HIDE DEF K, t, g
    <3> QED
      BY <2>2, <2>5, <3>1
  <2> HIDE DEF K, t, g
  <2> QED
    BY <2>2, <2>3, <2>4, <2>5
<1>14. Kept(a, b, K, spot)
  <2>1. ASSUME NEW i \in K, NEW j \in K, i < j PROVE spot[i] < spot[j]
    <3>1. at[i + 1] <= at[j] /\ spot[i] = at[i + 1]
      BY <1>3, <1>8, <2>1
    <3> HIDE DEF K, spot, t
    <3>2. at[j] \in Nat /\ (spot[j] = at[j] + 1 \/ spot[j] = at[j] + 4) /\ spot[i] \in Nat
      BY <1>10, <1>13
    <3> QED
      BY <3>1, <3>2
  <2>2. K \subseteq DOMAIN a
    OBVIOUS
  <2> HIDE DEF K
  <2>3. spot \in [K -> DOMAIN b]
    BY <1>10
  <2> HIDE DEF spot
  <2> QED
    BY <1>10, <2>1, <2>2, <2>3 DEF Kept
<1>15. \A p \in P : p # k /\ o2[p] = spot[o[p]] /\ c2[p] = spot[c[p]] /\ p \in Q
  BY <1>4
<1>16. /\ o2[k] = g + 1 /\ c2[k] = g + 3 /\ k \in Q
       /\ \A p \in Q : p = k \/ p \in P
  OBVIOUS
<1>b. o2 = [p \in Q |-> o2[p]] /\ c2 = [p \in Q |-> c2[p]]
  OBVIOUS
<1>17. KeptElements(a, P, o, c, K, spot, P, o2, c2)
  <2>1. ASSUME NEW i \in K PROVE a[i].key \in P \cup {<<>>}
    BY <1>6
  <2> HIDE DEF K, spot, o2, c2
  <2> QED
    BY <1>5, <1>15, <2>1 DEF KeptElements
<1>18. \A i \in K : i \in DOMAIN a
  OBVIOUS
<1> HIDE DEF K, spot, o2, c2, Q, t, g
<1>19. /\ \A p \in P :
               /\ o2[p] \in DOMAIN b /\ c2[p] \in DOMAIN b /\ o2[p] < c2[p]
               /\ b[o2[p]].type = "open" /\ b[o2[p]].key = p
               /\ b[c2[p]].type = "close" /\ b[c2[p]].key = p
       /\ \A i \in K :
               /\ b[spot[i]].type = "open"  => b[spot[i]].key \in P /\ o2[b[spot[i]].key] = spot[i]
               /\ b[spot[i]].type = "close" => b[spot[i]].key \in P /\ c2[b[spot[i]].key] = spot[i]
               /\ b[spot[i]].type = "value" =>
                     /\ b[spot[i]].key = <<>> \/ b[spot[i]].key \in P
                     /\ \A l \in P : (o2[l] < spot[i] /\ spot[i] < c2[l])
                                        <=> SelfOrChild(b[spot[i]].key, l)
       /\ \A l, m \in P :
               /\ l # m /\ SelfOrChild(m, l) => o2[l] < o2[m] /\ c2[m] < c2[l]
               /\ ~SelfOrChild(m, l) /\ ~SelfOrChild(l, m) => c2[l] < o2[m] \/ c2[m] < o2[l]
  BY <1>2, <1>14, <1>17, KeptLaid
\* Which elements the new one is in, and that none is in it.
<1>20. ASSUME NEW p \in P
       PROVE  /\ p # k /\ ~SelfOrChild(p, k)
              /\ o2[p] \in Nat /\ c2[p] \in Nat
              /\ SelfOrChild(k, p) => o2[p] <= g /\ c2[p] >= g + 4
              /\ ~SelfOrChild(k, p) => o2[p] >= g + 4 \/ c2[p] <= g
  <2>1. ~SelfOrChild(p, k) /\ p # k
    BY <1>2, <1>4, PrefixClosed
  <2>2. SelfOrChild(k, p) <=> SelfOrChild(f, p)
    <3>1. p \in Seq(STRING)
      BY <1>4
    <3>2. SelfOrChild(k, p) => SelfOrChild(f, p)
      BY <1>4, <2>1, <3>1, PrefixFront
    <3>3. SelfOrChild(f, p) => SelfOrChild(k, p)
      <4> HIDE DEF f
      <4> QED
        BY <1>4, <3>1, PrefixTrans
    <3> QED
      BY <3>2, <3>3
  <2>3. /\ o[p] \in Nat /\ c[p] \in Nat /\ t \in Nat
        /\ o2[p] \in Nat /\ c2[p] \in Nat /\ g \in Nat
        /\ o[p] < t <=> o2[p] <= g
        /\ ~(o[p] < t) <=> o2[p] >= g + 4
        /\ c[p] < t <=> c2[p] <= g
        /\ ~(c[p] < t) <=> c2[p] >= g + 4
    <3>1. /\ o[p] \in K /\ c[p] \in K /\ o2[p] = spot[o[p]] /\ c2[p] = spot[c[p]] /\ g \in Nat
      BY <1>5, <1>11, <1>15
    <3> QED
      BY <1>13, <3>1
  <2>4. /\ o[f] < t /\ o[p] < c[p] /\ o[f] \in Nat
        /\ p # f /\ SelfOrChild(f, p) => o[p] < o[f] /\ t < c[p]
        /\ p # f /\ SelfOrChild(p, f) => o[f] < o[p] /\ c[p] < t
        /\ ~SelfOrChild(f, p) /\ ~SelfOrChild(p, f) => t < o[p] \/ c[p] < o[f]
    <3>1. o[f] \in Nat
      BY <1>4, <1>5, <1>13
    <3> HIDE DEF f
    <3> QED
      BY <1>2, <1>4, <3>1 DEF Laid, t
  <2>5. CASE p = f
    <3> HIDE DEF f
    <3>1. SelfOrChild(f, p)
      BY <1>4, <2>5, PrefixSelf
    <3>2. c[p] = t
      BY <2>5 DEF t
    <3> QED
      BY <2>1, <2>2, <2>3, <2>4, <2>5, <3>1, <3>2
  <2> HIDE DEF f
  <2>6. CASE p # f /\ SelfOrChild(f, p)
    BY <2>1, <2>2, <2>3, <2>4, <2>6
  <2>7. CASE p # f /\ ~SelfOrChild(f, p) /\ SelfOrChild(p, f)
    BY <2>1, <2>2, <2>3, <2>4, <2>7
  <2>8. CASE p # f /\ ~SelfOrChild(f, p) /\ ~SelfOrChild(p, f)
    BY <2>1, <2>2, <2>3, <2>4, <2>8
  <2> QED
    BY <2>5, <2>6, <2>7, <2>8
<1>21. \A q \in DOMAIN b : q \in Nat \ {0}
  BY <1>3
<1>22. Laid(b, Q, o2, c2)
  <2>1. ASSUME NEW q \in DOMAIN b
        PROVE  /\ b[q].type = "open"  => b[q].key \in Q /\ o2[b[q].key] = q
               /\ b[q].type = "close" => b[q].key \in Q /\ c2[b[q].key] = q
               /\ b[q].type = "value" =>
                     /\ b[q].key = <<>> \/ b[q].key \in Q
                     /\ \A l \in Q : (o2[l] < q /\ q < c2[l]) <=> SelfOrChild(b[q].key, l)
    <3>1. CASE \E i \in K : q = spot[i]
      <4>1. PICK i \in K : q = spot[i]
        BY <3>1
      <4>2. /\ b[q].type = "open"  => b[q].key \in P /\ o2[b[q].key] = q
            /\ b[q].type = "close" => b[q].key \in P /\ c2[b[q].key] = q
            /\ b[q].type = "value" =>
                     /\ b[q].key = <<>> \/ b[q].key \in P
                     /\ \A l \in P : (o2[l] < q /\ q < c2[l]) <=> SelfOrChild(b[q].key, l)
        BY <1>19, <4>1
      <4>3. ASSUME b[q].type = "value"
            PROVE  (o2[k] < q /\ q < c2[k]) <=> SelfOrChild(b[q].key, k)
        <5>1. ~(o2[k] < q /\ q < c2[k])
          <6>1. q \in Nat /\ g \in Nat /\ (q <= g \/ q >= g + 4)
            BY <1>11, <1>13, <4>1
          <6> QED
            BY <1>16, <6>1
        <5>2. CASE b[q].key = <<>>
          <6>1. ASSUME SelfOrChild(<<>>, k) PROVE FALSE
            <7>1. <<>> \in Seq(STRING) /\ Len(<<>>) = 0 /\ Len(k) \in Nat
              BY <1>4, EmptySeq
            <7>2. Len(k) <= 0
              BY <1>4, <6>1, <7>1, PrefixEqual
            <7> QED
              BY <1>4, <7>1, <7>2, EmptySeq
          <6> QED
            BY <5>1, <5>2, <6>1
        <5>3. CASE b[q].key \in P
          BY <1>20, <5>1, <5>3
        <5> QED
          BY <4>2, <4>3, <5>2, <5>3
      <4> QED
        BY <1>15, <1>16, <4>2, <4>3
    <3>2. CASE q = g + 1
      BY <1>9, <1>11, <1>16, <3>2
    <3>3. CASE q = g + 3
      BY <1>9, <1>11, <1>16, <3>3
    <3>4. CASE q = g + 2
      <4>1. b[q].type = "value" /\ b[q].key = k
        BY <1>9, <1>11, <3>4
      <4>2. ASSUME NEW l \in Q PROVE (o2[l] < q /\ q < c2[l]) <=> SelfOrChild(k, l)
        <5>1. CASE l = k
          <6>1. SelfOrChild(k, l)
            BY <1>4, <5>1, PrefixSelf
          <6> QED
            BY <1>11, <1>16, <3>4, <5>1, <6>1
        <5>2. CASE l \in P
          BY <1>11, <1>20, <3>4, <5>2
        <5> QED
          BY <1>16, <5>1, <5>2
      <4> QED
        BY <1>16, <4>1, <4>2
    <3> QED
      BY <1>12, <3>1, <3>2, <3>3, <3>4
  <2>2. o2 \in [Q -> DOMAIN b] /\ c2 \in [Q -> DOMAIN b]
    <3>1. \A p \in Q : o2[p] \in DOMAIN b /\ c2[p] \in DOMAIN b
      BY <1>11, <1>16, <1>19
    <3> QED
      BY <1>b, <3>1
  <2>3. \A p \in Q :
           /\ b[o2[p]].type = "open" /\ b[o2[p]].key = p
           /\ b[c2[p]].type = "close" /\ b[c2[p]].key = p
           /\ o2[p] < c2[p]
           /\ Len(p) = 1 \/ Front(p) \in Q
    <3> TAKE p \in Q
    <3>1. CASE p = k
      BY <1>4, <1>9, <1>11, <1>15, <1>16, <3>1
    <3>2. CASE p \in P
      BY <1>5, <1>15, <1>19, <3>2
    <3> QED
      BY <1>16, <3>1, <3>2
  <2>4. \A l, m \in Q :
               /\ l # m /\ SelfOrChild(m, l) => o2[l] < o2[m] /\ c2[m] < c2[l]
               /\ ~SelfOrChild(m, l) /\ ~SelfOrChild(l, m) => c2[l] < o2[m] \/ c2[m] < o2[l]
    <3> TAKE l, m \in Q
    <3>1. CASE l \in P /\ m \in P
      BY <1>19, <3>1
    <3>2. CASE l = k /\ m = k
      BY <1>4, <3>2, PrefixSelf
    <3>3. CASE l = k /\ m \in P
      BY <1>11, <1>16, <1>20, <3>3
    <3>4. CASE l \in P /\ m = k
      BY <1>11, <1>16, <1>20, <3>4
    <3> QED
      BY <1>16, <3>1, <3>2, <3>3, <3>4
  <2>5. Q \subseteq Path
    BY <1>4 DEF Q
  <2> QED
    BY <2>1, <2>2, <2>3, <2>4, <2>5, Zenon DEF Laid
<1>23. Unmixed(b)
  <2>1. Unmixed(a)
    BY <1>2 DEF Tells
  <2>2. ASSUME NEW i \in K, i - 1 \in DOMAIN a, a[i].type = "value"
        PROVE  i - 1 \in K /\ spot[i - 1] + 1 = spot[i]
    <3>1. i # t
      BY <1>4, <1>5, <2>2 DEF t
    <3>2. i - 1 \in K /\ i \in Nat /\ spot[i] = at[i] + 1
      BY <1>10, <2>2, <3>1 DEF K
    <3>3. spot[i - 1] = at[(i - 1) + 1] /\ (i - 1) + 1 = i
      BY <1>8, <3>2
    <3> QED
      BY <3>2, <3>3
  <2>3. ASSUME NEW q \in DOMAIN b, b[q].type = "value"
        PROVE  \/ \E i \in K : q = spot[i]
               \/ q > 1 /\ b[q - 1].type = "open" /\ b[q - 1].key = b[q].key
    <3>1. q # g + 1 /\ q # g + 3
      BY <1>9, <1>11, <2>3
    <3>2. CASE q = g + 2
      <4>1. q - 1 = g + 1 /\ q > 1
        BY <1>11, <3>2
      <4> QED
        BY <1>9, <1>11, <3>2, <4>1
    <3> QED
      BY <1>12, <3>1, <3>2
  <2> QED
    BY <1>14, <2>1, <2>2, <2>3, KeptUnmixed
<1> DEFINE r == [p \in DOMAIN d \cup {e.key} |-> IF p = e.key THEN e.value ELSE d[p]]
<1>24. Tells(b, Q, r)
  <2>1. /\ DOMAIN d = P
        /\ \A i \in DOMAIN a :
              a[i].type = "value" /\ a[i].key \in P /\ a[i].value # Empty
                => d[a[i].key] = a[i].value
        /\ \A p \in P : d[p] # Empty =>
              \E i \in DOMAIN a : a[i].type = "value" /\ a[i].key = p /\ a[i].value = d[p]
    BY <1>2 DEF Tells
  <2>2. DOMAIN r = Q /\ r[k] = e.value /\ \A p \in P : r[p] = d[p]
    BY <1>4, <2>1 DEF Q
  <2> HIDE DEF r
  <2>3. ASSUME NEW q \in DOMAIN b, b[q].type = "value", b[q].key \in Q, b[q].value # Empty
        PROVE  r[b[q].key] = b[q].value
    <3>1. q # g + 1 /\ q # g + 3
      BY <1>9, <1>11, <2>3
    <3>2. CASE q = g + 2
      BY <1>9, <1>11, <2>2, <3>2
    <3>3. CASE \E i \in K : q = spot[i]
      <4>1. PICK i \in K : q = spot[i]
        BY <3>3
      <4>2. b[q] = a[i] /\ i \in DOMAIN a /\ a[i].key \in P
        BY <1>4, <1>6, <1>10, <1>15, <1>16, <1>18, <2>3, <4>1
      <4>3. d[a[i].key] = a[i].value /\ r[a[i].key] = d[a[i].key]
        BY <2>1, <2>2, <2>3, <4>2
      <4> QED
        BY <4>2, <4>3
    <3> QED
      BY <1>12, <3>1, <3>2, <3>3
  <2>4. ASSUME NEW p \in Q, r[p] # Empty
        PROVE  \E q \in DOMAIN b : b[q].type = "value" /\ b[q].key = p /\ b[q].value = r[p]
    <3>1. CASE p = k
      BY <1>9, <1>11, <2>2, <3>1
    <3>2. CASE p \in P
      <4>1. PICK i \in DOMAIN a : a[i].type = "value" /\ a[i].key = p /\ a[i].value = d[p]
        BY <2>1, <2>2, <2>4, <3>2
      <4>2. i \in K
        BY <4>1 DEF K
      <4> QED
        BY <1>10, <2>2, <3>2, <4>1, <4>2
    <3> QED
      BY <1>16, <3>1, <3>2
  <2> QED
    BY <1>23, <2>2, <2>3, <2>4 DEF Tells
<1> HIDE DEF r
<1>25. Good(b, r)
  BY <1>22, <1>24 DEF Good
<1> QED
  BY <1>25 DEF r, k

-----------------------------------------------------------------------------
(* One record after the other.                                             *)

\* The document after the edit e.
Applied(e, d) ==
    IF e.op = "delete" THEN Cut(d, e.key)
    ELSE IF e.op = "set" THEN [d EXCEPT ![e.key] = e.value]
    ELSE [p \in DOMAIN d \cup {e.key} |-> IF p = e.key THEN e.value ELSE d[p]]

\* What is there has all that is above it.
Closed(d) == \A l \in DOMAIN d, k \in Path : SelfOrChild(l, k) => k \in DOMAIN d

\* When a record is made: of an element that is missing in one that is there,
\* or of one that is there.
Fit(e, D) ==
    /\ e.op = "set" => e.key \in D
    /\ e.op = "append" => /\ e.key \notin D
                          /\ \A p \in Path : SelfOrChild(e.key, p) /\ p # e.key => p \in D
Possible(e, d) == Fit(e, DOMAIN d) /\ (e.op = "delete" => e.value = Empty)

\* An edit that was possible makes a text of the document after it.
LEMMA EmittedGood ==
  ASSUME NEW e \in Edits, NEW a \in Seq(TextToken), NEW b \in Seq(TextToken),
         Emitted(e, a, b), NEW d, Good(a, d), Possible(e, d),
         e.op = "append" => Len(e.key) # 1
  PROVE  Good(b, Applied(e, d))
<1>1. CASE e.op = "delete"
  BY <1>1, DeleteGood DEF Applied
<1>2. CASE e.op = "set"
  BY <1>2, SetGood DEF Applied, Possible, Fit
<1>3. CASE e.op = "append"
  <2>1. /\ Front(e.key) \in Path /\ SelfOrChild(e.key, Front(e.key)) /\ Front(e.key) # e.key
    BY <1>3, FrontIs DEF Edits
  <2>2. e.key \notin DOMAIN d /\ Front(e.key) \in DOMAIN d
    BY <1>3, <2>1 DEF Possible, Fit
  <2>3. Good(b, [p \in DOMAIN d \cup {e.key} |-> IF p = e.key THEN e.value ELSE d[p]])
    BY <1>3, <2>2, AppendGood
  <2> QED
    BY <1>3, <2>3 DEF Applied
<1> QED
  BY <1>1, <1>2, <1>3 DEF Edits, Operations

Sound(es) == es \in Seq(Edits) /\ ParentsMade(es) /\ Closed(Shown(es))

\* The empty list shows the text.
LEMMA SoundSource == Sound(<<>>) /\ Shown(<<>>) = Original
<1>1. <<>> \in Seq(Edits) /\ \A k : Deciding(<<>>, k) = {} /\ ~Implied(<<>>, k)
  BY EmptySeq DEF Deciding, Implied
<1>2. ParentsMade(<<>>)
  BY <1>1 DEF ParentsMade
<1>3. \A p \in Path : find_key(<<>>, p) = IF p \in DOMAIN Original THEN Original[p] ELSE None
  BY <1>1, FindUndecided
<1>4. \A p \in DOMAIN Original : p \in Path /\ Original[p] # None
  BY OriginalPath, NoneAssumption
<1>5. \A p \in Path : Exists(<<>>, p) <=> p \in DOMAIN Original
  BY <1>3, <1>4 DEF Exists
<1>6. Shown(<<>>) = [p \in DOMAIN Original |-> Original[p]]
  <2>1. {p \in Path : Exists(<<>>, p)} = DOMAIN Original
    BY <1>4, <1>5
  <2> QED
    BY <1>3, <1>4, <2>1 DEF Shown
<1>7. Original = [p \in DOMAIN Original |-> Original[p]]
  BY DEF Original
<1>8. Closed(Original)
  <2>1. PICK P, o, c : Shows(Source, P, o, c, Original) /\ SourcePaths = P
    BY OriginalIs
  <2>2. Laid(Source, P, o, c) /\ DOMAIN Original = P
    BY <2>1 DEF Shows
  <2> QED
    BY <2>2, PrefixClosed DEF Closed
<1>9. Shown(<<>>) = Original
  BY <1>6, <1>7, Zenon
<1> QED
  BY <1>1, <1>2, <1>8, <1>9 DEF Sound

\* A record of an insertion shows the new element, and all that was there.
LEMMA AppendFound ==
  ASSUME NEW es \in Seq(Edits), ParentsMade(es), NEW e \in Edits, e.op = "append",
         \A p \in Path : SelfOrChild(e.key, p) /\ p # e.key => Exists(es, p)
  PROVE  LET now == <<e>> \o es
             d == Shown(es)
         IN  /\ now \in Seq(Edits) /\ ParentsMade(now)
             /\ Shown(now) = [p \in DOMAIN d \cup {e.key} |-> IF p = e.key THEN e.value ELSE d[p]]
<1> DEFINE records == <<e>>
           text == [p \in Path |-> e.value]
           now == records \o es
           k == e.key
<1>1. k \in Path /\ e.value # None
  BY NoneAssumption DEF Edits
<1>2. records \in Seq(Edits) /\ ToSet(records) = {e} /\ Reverse(records) = records
  BY OneRecord
<1> HIDE DEF records
<1>3. {f.key : f \in ToSet(records)} = {k}
  BY <1>2
<1>4. /\ now \in Seq(Edits) /\ ParentsMade(now)
      /\ \A p \in Path : find_key(now, p)
             = IF p \in {f.key : f \in ToSet(records)} THEN text[p]
               ELSE find_key(es, p)
  <2>1. \A f \in ToSet(records) : f.op # "delete" /\ f.value = text[f.key]
    BY <1>1, <1>2
  <2>2. \A f \in ToSet(records), p \in Path :
           f.op = "append" /\ SelfOrChild(f.key, p)
              => p \in {g.key : g \in ToSet(records)} \/ Exists(es, p)
    BY <1>2, <1>3
  <2> HIDE DEF text
  <2> QED
    BY <1>2, <2>1, <2>2, Recorded
<1> HIDE DEF now
<1>5. \A p \in Path : find_key(now, p) = IF p = k THEN e.value ELSE find_key(es, p)
  BY <1>3, <1>4
<1>6. \A p \in Path : Exists(now, p) <=> p = k \/ Exists(es, p)
  BY <1>1, <1>5 DEF Exists
<1>7. {p \in Path : Exists(now, p)} = DOMAIN Shown(es) \cup {k}
  BY <1>1, <1>6 DEF Shown
<1>8. \A p \in DOMAIN Shown(es) \cup {k} :
          find_key(now, p) = IF p = k THEN e.value ELSE Shown(es)[p]
  BY <1>1, <1>5 DEF Shown
<1>9. Shown(now) = [p \in DOMAIN Shown(es) \cup {k} |->
                       IF p = k THEN e.value ELSE Shown(es)[p]]
  <2> HIDE DEF k
  <2>1. Shown(now) = [p \in DOMAIN Shown(es) \cup {k} |-> find_key(now, p)]
    BY <1>7 DEF Shown
  <2> QED
    BY <1>8, <2>1
<1> QED
  BY <1>4, <1>9 DEF now, records

\* One more record is one more edit of the document.
LEMMA StepShown ==
  ASSUME NEW es, Sound(es), NEW e \in Edits, Possible(e, Shown(es))
  PROVE  Sound(<<e>> \o es) /\ Shown(<<e>> \o es) = Applied(e, Shown(es))
<1> DEFINE d == Shown(es)
           now == <<e>> \o es
           k == e.key
<1>1. /\ es \in Seq(Edits) /\ ParentsMade(es) /\ Closed(d) /\ k \in Path
      /\ e.value \in Nat \cup {Empty} /\ \A p \in DOMAIN d : p \in Path
  BY DEF Sound, Edits, Shown
<1>2. \A p \in Path : p \in DOMAIN d <=> Exists(es, p)
  BY DEF Shown
<1>3. \A p \in Path : p \in Seq(STRING)
  BY DEF Path
<1>4. CASE e.op = "delete"
  <2>1. e = Edit("delete", k, Empty)
    BY <1>4 DEF Possible, Edit, Edits
  <2>2. now \in Seq(Edits) /\ ParentsMade(now) /\ Shown(now) = Cut(d, k)
    BY <1>1, <2>1, DeleteFound
  <2>3. Closed(Cut(d, k))
    <3> SUFFICES ASSUME NEW l \in DOMAIN Cut(d, k), NEW p \in Path, SelfOrChild(l, p)
                 PROVE  p \in DOMAIN Cut(d, k)
      BY DEF Closed
    <3>1. l \in DOMAIN d /\ ~SelfOrChild(l, k) /\ l \in Path
      BY <1>1 DEF Cut
    <3>2. p \in DOMAIN d
      BY <1>1, <3>1 DEF Closed
    <3>3. ASSUME SelfOrChild(p, k) PROVE FALSE
      BY <1>1, <1>3, <3>1, <3>3, PrefixTrans
    <3> QED
      BY <3>2, <3>3 DEF Cut
  <2> QED
    BY <1>4, <2>2, <2>3 DEF Sound, Applied
<1>5. CASE e.op = "set"
  <2>1. e = Edit("set", k, e.value)
    BY <1>5 DEF Edit, Edits
  <2>2. k \in DOMAIN d
    BY <1>5 DEF Possible, Fit
  <2>3. now \in Seq(Edits) /\ ParentsMade(now) /\ Shown(now) = [d EXCEPT ![k] = e.value]
    <3> HIDE DEF k
    <3>1. \A v \in Nat \cup {Empty} :
             LET one == <<Edit("set", k, v)>> \o es
             IN  /\ one \in Seq(Edits) /\ ParentsMade(one)
                 /\ Shown(one) = [Shown(es) EXCEPT ![k] = v]
      BY <1>1, <2>2, SetFound
    <3> QED
      BY <1>1, <2>1, <3>1, Zenon
  <2>4. Closed([d EXCEPT ![k] = e.value])
    BY <1>1 DEF Closed
  <2> QED
    BY <1>5, <2>3, <2>4 DEF Sound, Applied
<1>6. CASE e.op = "append"
  <2>1. \A p \in Path : SelfOrChild(k, p) /\ p # k => p \in DOMAIN d
    BY <1>6 DEF Possible, Fit
  <2>2. \A p \in Path : SelfOrChild(k, p) /\ p # k => Exists(es, p)
    BY <1>2, <2>1
  <2> DEFINE r == [p \in DOMAIN d \cup {e.key} |-> IF p = e.key THEN e.value ELSE d[p]]
  <2>3. now \in Seq(Edits) /\ ParentsMade(now) /\ Shown(now) = r
    BY <1>1, <1>6, <2>2, AppendFound
  <2>4. Closed(r)
    <3>1. DOMAIN r = DOMAIN d \cup {k}
      OBVIOUS
    <3> HIDE DEF r
    <3> QED
      BY <1>1, <2>1, <3>1 DEF Closed
  <2> QED
    BY <1>6, <2>3, <2>4 DEF Sound, Applied
<1> QED
  BY <1>4, <1>5, <1>6 DEF Edits, Operations

\* The records older than n.
Rest(es, n) == SubSeq(es, n + 1, Len(es))

\* What is older than a new record.
LEMMA RestIs ==
  ASSUME NEW es \in Seq(Edits), NEW e \in Edits
  PROVE  LET now == <<e>> \o es
         IN  /\ now \in Seq(Edits) /\ Len(now) = Len(es) + 1 /\ now[1] = e
             /\ \A n \in 1 .. Len(es) : now[n + 1] = es[n]
             /\ Rest(now, 0) = now /\ Rest(es, 0) = es
             /\ \A n \in 0 .. Len(es) : Rest(now, n + 1) = Rest(es, n)
<1> DEFINE now == <<e>> \o es
           l == Len(es)
<1>1. <<e>> \in Seq(Edits) /\ Len(<<e>>) = 1 /\ <<e>>[1] = e /\ l \in Nat
  OBVIOUS
<1>2. /\ now \in Seq(Edits) /\ Len(now) = 1 + l
      /\ \A i \in 1 .. 1 + l : now[i] = IF i <= 1 THEN <<e>>[i] ELSE es[i - 1]
  BY <1>1, ConcatProperties
<1> HIDE DEF now, l
<1>3. now[1] = e
  BY <1>1, <1>2
<1>4. \A n \in 1 .. l : now[n + 1] = es[n]
  <2> TAKE n \in 1 .. l
  <2>1. n + 1 \in 1 .. 1 + l /\ ~(n + 1 <= 1) /\ (n + 1) - 1 = n
    BY <1>1
  <2> QED
    BY <1>2, <2>1
<1>5. Rest(es, 0) = es /\ Rest(now, 0) = now
  <2>1. ASSUME NEW s \in Seq(Edits) PROVE SubSeq(s, 1, Len(s)) = s
    OBVIOUS
  <2> QED
    BY <1>2, <2>1 DEF Rest
<1>6. ASSUME NEW n \in 0 .. l PROVE Rest(now, n + 1) = Rest(es, n)
  <2> DEFINE a == SubSeq(now, n + 2, l + 1)
             b == SubSeq(es, n + 1, l)
  <2>1. a \in Seq(Edits) /\ Len(a) = l - n /\ \A i \in 1 .. l - n : a[i] = now[i + n + 1]
    <3>1. \A i \in n + 2 .. l + 1 : now[i] \in Edits
      BY <1>1, <1>2
    <3> HIDE DEF a
    <3>2. /\ SubSeq(now, n + 2, l + 1) \in Seq(Edits)
          /\ Len(SubSeq(now, n + 2, l + 1)) = l - n
          /\ \A i \in 1 .. l - n : SubSeq(now, n + 2, l + 1)[i] = now[i + n + 1]
      BY <1>1, <1>2, <3>1
    <3> QED
      BY <3>2 DEF a
  <2>2. b \in Seq(Edits) /\ Len(b) = l - n /\ \A i \in 1 .. l - n : b[i] = es[i + n]
    BY <1>1 DEF l
  <2>3. \A i \in 1 .. l - n : now[i + n + 1] = es[i + n]
    <3> TAKE i \in 1 .. l - n
    <3>1. i + n \in 1 .. l /\ i + n + 1 = (i + n) + 1
      BY <1>1
    <3> QED
      BY <1>4, <3>1
  <2>4. a = b
    <3> HIDE DEF a, b
    <3> QED
      BY <2>1, <2>2, <2>3, SeqEqual
  <2>5. Rest(now, n + 1) = a
    <3>1. (n + 1) + 1 = n + 2 /\ Len(now) = l + 1
      BY <1>1, <1>2
    <3> QED
      BY <3>1 DEF Rest
  <2>6. Rest(es, n) = b
    BY DEF Rest, l
  <2> QED
    BY <2>4, <2>5, <2>6
<1>7. /\ now \in Seq(Edits) /\ Len(now) = Len(es) + 1
      /\ \A n \in 1 .. Len(es) : now[n + 1] = es[n]
      /\ \A n \in 0 .. Len(es) : Rest(now, n + 1) = Rest(es, n)
  <2>1. Len(now) = l + 1
    BY <1>1, <1>2
  <2> QED
    BY <1>2, <1>4, <1>6, <2>1, Zenon DEF l
<1> QED
  BY <1>3, <1>5, <1>7, Zenon DEF now

\* The document is that of the text after the edits of the list, from the
\* oldest to the newest, and each of them was possible at its time.
Steps(es) ==
    /\ es \in Seq(Edits)
    /\ \A n \in 0 .. Len(es) : Sound(Rest(es, n))
    /\ \A n \in 1 .. Len(es) : /\ Possible(es[n], Shown(Rest(es, n)))
                               /\ Shown(Rest(es, n - 1)) = Applied(es[n], Shown(Rest(es, n)))

\* An empty list is such a list;
LEMMA StepsNone == Steps(<<>>)
<1> DEFINE none == <<>>
<1>1. none \in Seq(Edits) /\ Len(none) = 0 /\ SubSeq(none, 1, 0) = <<>>
  BY EmptySeq
<1>2. 0 .. 0 = {0} /\ 1 .. 0 = {} /\ 0 + 1 = 1
  OBVIOUS
<1> HIDE DEF none
<1>3. Rest(none, 0) = <<>>
  BY <1>1, <1>2 DEF Rest
<1>4. Steps(none)
  BY <1>1, <1>2, <1>3, SoundSource DEF Steps
<1> QED
  BY <1>4 DEF none

\* such a list shows a document;
LEMMA StepsSound ==
  ASSUME NEW es, Steps(es) PROVE es \in Seq(Edits) /\ Sound(es)
<1>1. es \in Seq(Edits) /\ 0 \in 0 .. Len(es)
  BY DEF Steps
<1>2. Rest(es, 0) = es
  BY <1>1 DEF Rest
<1> QED
  BY <1>1, <1>2 DEF Steps

\* and one more edit that is possible makes such a list.
LEMMA StepsNext ==
  ASSUME NEW es, Steps(es), NEW e \in Edits, Possible(e, Shown(es))
  PROVE  Steps(<<e>> \o es) /\ Shown(<<e>> \o es) = Applied(e, Shown(es))
<1> DEFINE now == <<e>> \o es
           l == Len(es)
<1>1. es \in Seq(Edits) /\ Sound(es) /\ l \in Nat
  BY StepsSound
<1>2. /\ now \in Seq(Edits) /\ Len(now) = l + 1 /\ now[1] = e
      /\ \A n \in 1 .. l : now[n + 1] = es[n]
      /\ Rest(now, 0) = now /\ Rest(es, 0) = es
      /\ \A n \in 0 .. l : Rest(now, n + 1) = Rest(es, n)
  BY <1>1, RestIs
<1>3. Sound(now) /\ Shown(now) = Applied(e, Shown(es))
  BY <1>1, StepShown
<1>4. /\ \A n \in 0 .. l : Sound(Rest(es, n))
      /\ \A n \in 1 .. l : /\ Possible(es[n], Shown(Rest(es, n)))
                           /\ Shown(Rest(es, n - 1)) = Applied(es[n], Shown(Rest(es, n)))
  BY DEF Steps
<1> HIDE DEF now, l
<1>5. ASSUME NEW n \in 0 .. l + 1 PROVE Sound(Rest(now, n))
  <2>1. CASE n = 0
    BY <1>2, <1>3, <2>1
  <2>2. CASE n # 0
    <3>1. n - 1 \in 0 .. l /\ (n - 1) + 1 = n
      BY <1>1, <2>2
    <3>2. Rest(now, (n - 1) + 1) = Rest(es, n - 1) /\ Sound(Rest(es, n - 1))
      BY <1>2, <1>4, <3>1
    <3> QED
      BY <3>1, <3>2
  <2> QED
    BY <2>1, <2>2
<1>6. ASSUME NEW n \in 1 .. l + 1
      PROVE  /\ Possible(now[n], Shown(Rest(now, n)))
             /\ Shown(Rest(now, n - 1)) = Applied(now[n], Shown(Rest(now, n)))
  <2>1. CASE n = 1
    <3>1. Rest(now, 0 + 1) = Rest(es, 0) /\ 0 + 1 = 1 /\ n - 1 = 0
      BY <1>1, <1>2, <2>1
    <3>2. Rest(now, n) = es /\ now[n] = e /\ Rest(now, n - 1) = now
      BY <1>2, <2>1, <3>1
    <3> QED
      BY <1>3, <3>2
  <2>2. CASE n # 1
    <3> DEFINE m == n - 1
    <3>1. m \in 1 .. l /\ m \in 0 .. l /\ m - 1 \in 0 .. l /\ m + 1 = n /\ (m - 1) + 1 = m
      BY <1>1, <2>2
    <3> HIDE DEF m
    <3>2. now[m + 1] = es[m] /\ Rest(now, m + 1) = Rest(es, m)
          /\ Rest(now, (m - 1) + 1) = Rest(es, m - 1)
      BY <1>2, <3>1
    <3>3. now[n] = es[m] /\ Rest(now, n) = Rest(es, m) /\ Rest(now, m) = Rest(es, m - 1)
      BY <3>1, <3>2
    <3>4. /\ Possible(es[m], Shown(Rest(es, m)))
          /\ Shown(Rest(es, m - 1)) = Applied(es[m], Shown(Rest(es, m)))
      BY <1>4, <3>1
    <3>5. /\ Possible(now[n], Shown(Rest(now, n)))
          /\ Shown(Rest(now, m)) = Applied(now[n], Shown(Rest(now, n)))
      BY <3>3, <3>4, Zenon
    <3> QED
      BY <3>5 DEF m
  <2> QED
    BY <2>1, <2>2
<1>7. Steps(now)
  BY <1>2, <1>5, <1>6 DEF Steps
<1> QED
  BY <1>3, <1>7 DEF now

\* Records of which each is possible when those before it have been made; D
\* are the paths that were there before the first.
Keyed(s) == {s[i].key : i \in DOMAIN s}
Before(s, j) == {s[i].key : i \in 1 .. j - 1}
Fits(s, D) ==
    /\ s \in Seq(Edits)
    /\ \A j \in 1 .. Len(s) : s[j].op \in {"append", "set"} /\ Fit(s[j], D \cup Before(s, j))

\* Records still fit when one that fits after them follows,
LEMMA FitsNext ==
  ASSUME NEW D, NEW s, Fits(s, D), NEW e \in Edits, e.op \in {"append", "set"},
         Fit(e, D \cup Keyed(s))
  PROVE  Fits(s \o <<e>>, D) /\ Keyed(s \o <<e>>) = Keyed(s) \cup {e.key}
<1> DEFINE t == s \o <<e>>
           l == Len(s)
<1>1. s \in Seq(Edits) /\ l \in Nat /\ <<e>> \in Seq(Edits) /\ Len(<<e>>) = 1 /\ <<e>>[1] = e
  BY DEF Fits
<1>2. /\ t \in Seq(Edits) /\ Len(t) = l + 1
      /\ \A i \in 1 .. l + 1 : t[i] = IF i <= l THEN s[i] ELSE <<e>>[i - l]
  BY <1>1, ConcatProperties
<1> HIDE DEF t
<1>3. DOMAIN s = 1 .. l /\ DOMAIN t = 1 .. l + 1 /\ \A i \in 1 .. l : t[i] = s[i]
  BY <1>1, <1>2
<1>4. t[l + 1] = e
  BY <1>1, <1>2
<1>5. \A j \in 1 .. l : s[j].op \in {"append", "set"} /\ Fit(s[j], D \cup Before(s, j))
  BY DEF Fits
<1> HIDE DEF l
<1>6. \A i \in 1 .. l + 1 : i \in 1 .. l \/ i = l + 1
  BY <1>1
<1>7. Keyed(t) = Keyed(s) \cup {e.key}
  <2>1. l + 1 \in 1 .. l + 1 /\ \A i \in 1 .. l : i \in 1 .. l + 1
    BY <1>1
  <2> QED
    BY <1>3, <1>4, <1>6, <2>1 DEF Keyed
<1>8. ASSUME NEW j \in 1 .. l + 1
      PROVE  t[j].op \in {"append", "set"} /\ Fit(t[j], D \cup Before(t, j))
  <2>1. CASE j \in 1 .. l
    <3>1. \A i \in 1 .. j - 1 : i \in 1 .. l
      BY <1>1, <2>1
    <3>2. Before(t, j) = Before(s, j)
      BY <1>3, <3>1 DEF Before
    <3> QED
      BY <1>3, <1>5, <2>1, <3>2
  <2>2. CASE j = l + 1
    <3>1. j - 1 = l
      BY <1>1, <2>2
    <3>2. Before(t, j) = Keyed(s)
      BY <1>3, <3>1 DEF Before, Keyed
    <3> QED
      BY <1>4, <2>2, <3>2
  <2> QED
    BY <1>6, <2>1, <2>2
<1> QED
  BY <1>2, <1>7, <1>8 DEF Fits, t

\* and when the last ones are missing.
LEMMA FitsFirst ==
  ASSUME NEW D, NEW s, Fits(s, D), NEW n \in 0 .. Len(s)
  PROVE  Fits(SubSeq(s, 1, n), D)
<1> DEFINE t == SubSeq(s, 1, n)
<1>1. s \in Seq(Edits) /\ Len(s) \in Nat /\ n \in Nat /\ n <= Len(s)
  BY DEF Fits
<1>2. t \in Seq(Edits) /\ Len(t) = n /\ \A i \in 1 .. n : t[i] = s[i]
  BY <1>1
<1> HIDE DEF t
<1>3. ASSUME NEW j \in 1 .. n
      PROVE  t[j].op \in {"append", "set"} /\ Fit(t[j], D \cup Before(t, j))
  <2>1. j \in 1 .. Len(s) /\ \A i \in 1 .. j - 1 : i \in 1 .. n
    BY <1>1
  <2>2. Before(t, j) = Before(s, j)
    BY <1>2, <2>1 DEF Before
  <2>3. s[j].op \in {"append", "set"} /\ Fit(s[j], D \cup Before(s, j))
    BY <2>1 DEF Fits
  <2> QED
    BY <1>2, <2>2, <2>3
<1> QED
  BY <1>2, <1>3 DEF Fits, t

\* The newest record of several, and the others.
LEMMA ReversedNext ==
  ASSUME NEW s \in Seq(Edits), NEW n \in Nat, Len(s) = n + 1, NEW es \in Seq(Edits)
  PROVE  Reverse(s) \o es = <<s[n + 1]>> \o (Reverse(SubSeq(s, 1, n)) \o es)
<1> DEFINE t == SubSeq(s, 1, n)
           e == s[n + 1]
<1>1. t \in Seq(Edits) /\ Len(t) = n /\ e \in Edits /\ \A i \in 1 .. n : t[i] = s[i]
  OBVIOUS
<1>2. /\ Reverse(s) \in Seq(Edits) /\ Len(Reverse(s)) = n + 1
      /\ \A i \in 1 .. n + 1 : Reverse(s)[i] = s[(n + 1) - i + 1]
  <2>1. \A i \in 1 .. n + 1 : (n + 1) - i + 1 \in 1 .. n + 1
    OBVIOUS
  <2>2. Reverse(s) \in Seq(Edits) /\ Len(Reverse(s)) = n + 1
    BY Reversed
  <2> QED
    BY <2>2 DEF Reverse
<1>3. /\ Reverse(t) \in Seq(Edits) /\ Len(Reverse(t)) = n
      /\ \A i \in 1 .. n : Reverse(t)[i] = t[n - i + 1]
  <2> HIDE DEF t
  <2> QED
    BY <1>1, Reversed DEF Reverse
<1> DEFINE a == Reverse(s)
           b == Reverse(t)
<1> HIDE DEF a, b, t, e
<1>4. a \in Seq(Edits) /\ b \in Seq(Edits) /\ Len(a) = n + 1 /\ Len(b) = n
  BY <1>2, <1>3 DEF a, b
<1>5. <<e>> \in Seq(Edits) /\ Len(<<e>>) = 1 /\ <<e>>[1] = e
  BY <1>1
<1>6. a = <<e>> \o b
  <2>1. /\ <<e>> \o b \in Seq(Edits) /\ Len(<<e>> \o b) = 1 + n
        /\ \A i \in 1 .. 1 + n : (<<e>> \o b)[i] = IF i <= 1 THEN <<e>>[i] ELSE b[i - 1]
    BY <1>4, <1>5, ConcatProperties
  <2>2. ASSUME NEW i \in 1 .. n + 1 PROVE a[i] = (<<e>> \o b)[i]
    <3>0. a[i] = s[(n + 1) - i + 1] /\ i \in 1 .. 1 + n
      BY <1>2 DEF a
    <3>1. CASE i = 1
      <4>1. (n + 1) - i + 1 = n + 1
        BY <3>1
      <4> QED
        BY <1>5, <2>1, <3>0, <3>1, <4>1 DEF e
    <3>2. CASE i # 1
      <4>1. i - 1 \in 1 .. n /\ ~(i <= 1) /\ n - (i - 1) + 1 = (n + 1) - i + 1
            /\ n - (i - 1) + 1 \in 1 .. n
        BY <3>2
      <4>2. b[i - 1] = t[n - (i - 1) + 1]
        BY <1>3, <4>1 DEF b
      <4>3. t[n - (i - 1) + 1] = s[n - (i - 1) + 1]
        BY <1>1, <4>1
      <4> QED
        BY <2>1, <3>0, <4>1, <4>2, <4>3
    <3> QED
      BY <3>1, <3>2
  <2>3. 1 + n = n + 1 /\ <<e>> \o b \in Seq(Edits) /\ Len(<<e>> \o b) = n + 1
    BY <2>1
  <2> DEFINE c == <<e>> \o b
  <2> HIDE DEF c
  <2> QED
    BY <1>4, <2>2, <2>3, SeqEqual DEF c
<1>7. (<<e>> \o b) \o es = <<e>> \o (b \o es)
  BY <1>4, <1>5, ConcatAssociative
<1> QED
  BY <1>6, <1>7 DEF a, b, t, e

\* Records that fit the document may be made one after the other.
LEMMA StepsRecords ==
  ASSUME NEW es, Steps(es), NEW records, Fits(records, DOMAIN Shown(es))
  PROVE  /\ Steps(Reverse(records) \o es)
         /\ DOMAIN Shown(Reverse(records) \o es) = DOMAIN Shown(es) \cup Keyed(records)
<1> DEFINE D == DOMAIN Shown(es)
           Now(s) == Reverse(s) \o es
           T == {n \in Nat : \A s : Fits(s, D) /\ Len(s) = n
                    => Steps(Now(s)) /\ DOMAIN Shown(Now(s)) = D \cup Keyed(s)}
<1>1. es \in Seq(Edits)
  BY StepsSound
<1>2. 0 \in T
  <2> SUFFICES ASSUME NEW s, Fits(s, D), Len(s) = 0
               PROVE  Steps(Now(s)) /\ DOMAIN Shown(Now(s)) = D \cup Keyed(s)
    OBVIOUS
  <2>1. s \in Seq(Edits) /\ Reverse(s) \in Seq(Edits) /\ Len(Reverse(s)) = 0
    BY Reversed DEF Fits
  <2>2. Reverse(s) = <<>> /\ DOMAIN s = {}
    BY <2>1, EmptySeq
  <2>3. Keyed(s) = {}
    BY <2>2 DEF Keyed
  <2>4. <<>> \o es = es
    BY <1>1, ConcatSimplifications
  <2> QED
    BY <2>2, <2>3, <2>4
<1>3. ASSUME NEW n \in Nat, n \in T PROVE n + 1 \in T
  <2> SUFFICES ASSUME NEW s, Fits(s, D), Len(s) = n + 1
               PROVE  Steps(Now(s)) /\ DOMAIN Shown(Now(s)) = D \cup Keyed(s)
    OBVIOUS
  <2> DEFINE t == SubSeq(s, 1, n)
             e == s[n + 1]
  <2>1. s \in Seq(Edits) /\ n \in 0 .. Len(s) /\ n + 1 \in 1 .. Len(s)
    BY DEF Fits
  <2>2. Fits(t, D) /\ t \in Seq(Edits) /\ Len(t) = n /\ \A i \in 1 .. n : t[i] = s[i]
    <3>1. Len(t) = n /\ \A i \in 1 .. n : t[i] = s[i]
      BY <2>1
    <3> HIDE DEF t, D, T
    <3>2. Fits(t, D)
      BY <2>1, FitsFirst DEF t
    <3> QED
      BY <3>1, <3>2 DEF Fits
  <2>3. Steps(Now(t)) /\ DOMAIN Shown(Now(t)) = D \cup Keyed(t)
    <3> HIDE DEF t, D, Now
    <3> QED
      BY <1>3, <2>2
  <2>4. Now(s) = <<e>> \o Now(t)
    BY <1>1, <2>1, ReversedNext
  <2>5. Before(s, n + 1) = Keyed(t) /\ Keyed(s) = Keyed(t) \cup {e.key}
    <3>1. DOMAIN t = 1 .. n /\ DOMAIN s = 1 .. n + 1 /\ (n + 1) - 1 = n
      BY <2>1, <2>2
    <3>2. \A i \in 1 .. n + 1 : i \in 1 .. n \/ i = n + 1
      OBVIOUS
    <3>3. \A i \in 1 .. n : i \in 1 .. n + 1
      OBVIOUS
    <3> HIDE DEF t
    <3>4. Before(s, n + 1) = Keyed(t)
      BY <2>2, <3>1 DEF Before, Keyed
    <3>5. Keyed(s) = Keyed(t) \cup {e.key}
      BY <2>2, <2>1, <3>1, <3>2, <3>3 DEF Keyed
    <3> QED
      BY <3>4, <3>5
  <2>6. e \in Edits /\ e.op \in {"append", "set"} /\ Fit(e, D \cup Keyed(t))
    BY <2>1, <2>5 DEF Fits
  <2> HIDE DEF t, e, Now, D, T
  <2>7. Possible(e, Shown(Now(t)))
    BY <2>3, <2>6 DEF Possible
  <2>8. Steps(Now(s)) /\ Shown(Now(s)) = Applied(e, Shown(Now(t)))
    BY <2>3, <2>4, <2>6, <2>7, StepsNext
  <2>9. DOMAIN Applied(e, Shown(Now(t))) = DOMAIN Shown(Now(t)) \cup {e.key}
    BY <2>6, <2>7 DEF Applied, Possible, Fit
  <2> QED
    BY <2>3, <2>5, <2>8, <2>9
<1>4. Nat \subseteq T
  <2> HIDE DEF T
  <2> QED
    BY <1>2, <1>3, NatInd
<1>5. Len(records) \in Nat
  BY DEF Fits
<1> QED
  BY <1>4, <1>5

\* So it is if only some of the records are made.
LEMMA StepsMade ==
  ASSUME NEW es, Steps(es), NEW records, Fits(records, DOMAIN Shown(es)),
         NEW r \in Made(records)
  PROVE  Steps(Reverse(r) \o es)
<1>1. Fits(r, DOMAIN Shown(es))
  <2>1. CASE MemoryFails
    <3>1. PICK n \in 0 .. Len(records) : r = SubSeq(records, 1, n)
      BY <2>1 DEF Made
    <3> QED
      BY <3>1, FitsFirst
  <2>2. CASE ~MemoryFails
    BY <2>2 DEF Made
  <2> QED
    BY <2>1, <2>2
<1> QED
  BY <1>1, StepsRecords

\* The missing parents of an element, from the root down.
LEMMA ParentsFit ==
  ASSUME NEW es, Steps(es), NEW k \in Path, NEW missing,
         missing = {i \in DOMAIN Above(k) : ~Exists(es, Above(k)[i])},
         NEW down \in Ascending(missing)
  PROVE  LET parents == [i \in DOMAIN down |-> Edit("append", Above(k)[down[i]], Empty)]
             D == DOMAIN Shown(es)
         IN  /\ Fits(parents, D)
             /\ Keyed(parents) \subseteq ToSet(Above(k))
             /\ ToSet(Above(k)) \subseteq D \cup Keyed(parents)
<1> DEFINE parents == [i \in DOMAIN down |-> Edit("append", Above(k)[down[i]], Empty)]
           D == DOMAIN Shown(es)
           m == Cardinality(missing)
<1>1. /\ DOMAIN Above(k) = 1 .. Len(k) - 1 /\ Len(k) \in Nat /\ k \in Seq(STRING)
      /\ \A i \in DOMAIN Above(k) : Above(k)[i] \in Path /\ Above(k)[i] = SubSeq(k, 1, i)
      /\ \A i \in DOMAIN Above(k) : Len(Above(k)[i]) = i
  <2>1. \A i \in 1 .. Len(k) - 1 : Len(SubSeq(k, 1, i)) = i
    BY DEF Path
  <2> QED
    BY <2>1, AboveType DEF Path, Above
<1>2. \A p \in Path : p \in D <=> Exists(es, p)
  BY DEF Shown
<1>3. /\ DOMAIN down = 1 .. m /\ {down[i] : i \in DOMAIN down} = missing
      /\ \A i, j \in DOMAIN down : i < j => down[i] < down[j]
  <2>1. DOMAIN down = 1 .. m /\ {down[i] : i \in DOMAIN down} = missing
    BY AscendingSet
  <2>2. \A i, j \in DOMAIN down : i < j => down[i] < down[j]
    BY DEF Ascending
  <2> QED
    BY <2>1, <2>2
<1>4. parents \in Seq(Edits)
  BY ParentsType
<1>5. m \in Nat
  <2>1. IsFiniteSet(1 .. Len(k) - 1) /\ missing \subseteq 1 .. Len(k) - 1
    BY <1>1, FS_Interval
  <2> QED
    BY <2>1, FS_Subset, FS_CardinalityType
<1>6. \A i \in DOMAIN down : /\ parents[i] = Edit("append", Above(k)[down[i]], Empty)
                             /\ down[i] \in missing /\ down[i] \in DOMAIN Above(k)
  BY <1>3
<1>7. DOMAIN parents = 1 .. m /\ Len(parents) = m
  <2>1. DOMAIN parents = 1 .. m
    BY <1>3
  <2> HIDE DEF parents, m
  <2> QED
    BY <1>4, <1>5, <2>1
<1> HIDE DEF parents, m, D
<1>8. \A i \in 1 .. m : /\ parents[i].op = "append" /\ parents[i].key = Above(k)[down[i]]
                        /\ down[i] \in missing /\ down[i] \in DOMAIN Above(k)
  <2> TAKE i \in 1 .. m
  <2>1. i \in DOMAIN down
    BY <1>3
  <2>2. /\ parents[i] = Edit("append", Above(k)[down[i]], Empty)
        /\ down[i] \in missing /\ down[i] \in DOMAIN Above(k)
    BY <1>6, <2>1
  <2> QED
    BY <2>2 DEF Edit
<1>9. Keyed(parents) = {Above(k)[i] : i \in missing}
  <2>1. Keyed(parents) = {Above(k)[down[i]] : i \in 1 .. m}
    BY <1>7, <1>8 DEF Keyed
  <2> QED
    BY <1>3, <2>1
<1>10. Keyed(parents) \subseteq ToSet(Above(k))
  BY <1>9 DEF ToSet
<1>11. ToSet(Above(k)) \subseteq D \cup Keyed(parents)
  BY <1>1, <1>2, <1>9 DEF ToSet
<1>12. ASSUME NEW j \in 1 .. m PROVE Fit(parents[j], D \cup Before(parents, j))
  <2> DEFINE q == Above(k)[down[j]]
  <2>1. /\ parents[j].op = "append" /\ parents[j].key = q /\ down[j] \in missing
        /\ q \in Path /\ Len(q) = down[j] /\ q = SubSeq(k, 1, down[j]) /\ down[j] \in 1 .. Len(k) - 1
    BY <1>1, <1>8
  <2>2. q \notin D
    BY <1>2, <2>1
  <2>3. q \notin Before(parents, j)
    <3> SUFFICES ASSUME NEW i \in 1 .. j - 1, parents[i].key = q PROVE FALSE
      BY DEF Before
    <3>1. i \in 1 .. m /\ i < j
      BY <1>5
    <3>2. down[i] < down[j] /\ parents[i].key = Above(k)[down[i]] /\ down[i] \in DOMAIN Above(k)
      BY <1>3, <1>8, <3>1
    <3>3. Len(Above(k)[down[i]]) = down[i] /\ down[i] \in Nat
      BY <1>1, <3>2
    <3> QED
      BY <2>1, <3>2, <3>3
  <2>4. ASSUME NEW p \in Path, SelfOrChild(q, p), p # q PROVE p \in D \cup Before(parents, j)
    <3>1. SelfOrChild(k, q) /\ q # k /\ q \in Seq(STRING)
      <4>1. q \in ToSet(Above(k)) /\ q \in Seq(STRING)
        BY <1>1, <2>1 DEF ToSet, Path
      <4> QED
        BY <2>1, <4>1, AboveIs
    <3>2. p \in Seq(STRING) /\ SelfOrChild(k, p) /\ Len(p) < Len(q)
      <4>1. p \in Seq(STRING) /\ Len(p) < Len(q)
        BY <2>1, <2>4, PrefixFront DEF Path
      <4> QED
        BY <1>1, <2>4, <3>1, <4>1, PrefixTrans
    <3>3. p # k
      BY <1>1, <2>1, <3>2
    <3>4. p \in ToSet(Above(k))
      BY <3>2, <3>3, AboveIs
    <3>5. PICK i \in DOMAIN Above(k) : p = Above(k)[i]
      BY <3>4 DEF ToSet
    <3>6. CASE i \notin missing
      BY <1>2, <3>5, <3>6
    <3>7. CASE i \in missing
      <4>1. PICK h \in 1 .. m : down[h] = i
        BY <1>3, <3>7
      <4>2. Len(p) = i /\ i < down[j] /\ i \in Nat
        BY <1>1, <2>1, <3>2, <3>5
      <4>3. h < j
        <5>1. h \in DOMAIN down /\ j \in DOMAIN down /\ down[j] \in Nat
          BY <1>3, <2>1
        <5>2. ~(j < h) /\ h # j
          BY <1>3, <4>1, <4>2, <5>1
        <5> QED
          BY <1>5, <5>2
      <4>4. h \in 1 .. j - 1
        BY <1>5, <4>3
      <4>5. parents[h].key = p
        BY <1>8, <3>5, <4>1
      <4> QED
        BY <4>4, <4>5 DEF Before
    <3> QED
      BY <3>6, <3>7
  <2> QED
    BY <2>1, <2>2, <2>3, <2>4 DEF Fit
<1>13. Fits(parents, D)
  BY <1>4, <1>7, <1>8, <1>12 DEF Fits
<1> QED
  BY <1>10, <1>11, <1>13 DEF parents, D

\* A total that counts a new element lies beside it.
LEMMA CountedApart ==
  ASSUME TagsApart, NEW key \in Keys, key.kind = "+", NEW n \in Nat, NEW k \in Path,
         k = Expanded(key, n)
  PROVE  /\ TotalKey \in Path /\ TotalKey # k /\ TotalKey \notin ToSet(Above(k))
         /\ \A q \in Path : SelfOrChild(TotalKey, q) /\ q # TotalKey => q \in ToSet(Above(k))
<1>1. key.path \in Seq(STRING) /\ n + 1 \in Nat
  BY PathAssumption DEF Keys
<1>2. k = ItemKey(n + 1) \o key.path
  BY DEF Expanded
<1>3. /\ TotalKey \in Path /\ SelfOrChild(k, List) /\ k # List
      /\ ~SelfOrChild(k, TotalKey) /\ ~SelfOrChild(TotalKey, k)
  BY <1>1, <1>2, ListPaths
<1>4. TotalKey # k
  BY <1>3, PrefixSelf DEF Path
<1>5. TotalKey \notin ToSet(Above(k))
  BY <1>3, AboveIs
<1>6. ASSUME NEW q \in Path, SelfOrChild(TotalKey, q), q # TotalKey
      PROVE  q \in ToSet(Above(k))
  <2>1. List \in Path
    BY PathAssumption
  <2>2. SelfOrChild(List, q)
    BY <1>6, <2>1, AboveTotal
  <2>3. SelfOrChild(k, q)
    BY <1>3, <2>1, <2>2, PrefixTrans DEF Path
  <2>4. q # k
    BY <1>3, <1>6
  <2> QED
    BY <2>3, <2>4, AboveIs
<1> QED
  BY <1>3, <1>4, <1>5, <1>6

\* One record that is possible fits.
LEMMA FitsOne ==
  ASSUME NEW e \in Edits, e.op \in {"append", "set"}, NEW D, Fit(e, D)
  PROVE  Fits(<<e>>, D)
<1> DEFINE s == <<e>>
<1>1. s \in Seq(Edits) /\ Len(s) = 1 /\ s[1] = e
  OBVIOUS
<1>2. 1 .. 1 - 1 = {} /\ 1 .. 1 = {1}
  OBVIOUS
<1> HIDE DEF s
<1>3. D \cup Before(s, 1) = D
  BY <1>2 DEF Before
<1>4. Fits(s, D)
  BY <1>1, <1>2, <1>3 DEF Fits
<1> QED
  BY <1>4 DEF s

\* The total is a number, and has a path.
LEMMA TotalType == ASSUME TagsApart PROVE Total \in Nat /\ TotalKey \in Path
BY ListPaths, EmptySeq DEF Total, Number

\* An insertion, whether or not everything could be recorded.
LEMMA AppendSteps ==
  ASSUME TagsApart, Steps(edits), NEW key \in Keys, NEW v \in Values, mxml_append(key, v)
  PROVE  Steps(edits')
<1> DEFINE k == PathOf(key)
           missing == {i \in DOMAIN Above(k) : ~Exists(edits, Above(k)[i])}
           total == Edit(IF Exists(edits, TotalKey) THEN "set" ELSE "append",
                         TotalKey, Total + 1)
           count == IF key.kind # "+" THEN <<>> ELSE <<total>>
           one == Edit("append", k, v)
           item == <<one>>
           D == DOMAIN Shown(edits)
<1>1. Total \in Nat /\ TotalKey \in Path /\ edits \in Seq(Edits)
  BY TotalType, StepsSound
<1>2. k \in Path /\ v \in Nat \cup {Empty} /\ k = Expanded(key, Total) /\ ~Exists(edits, k)
  BY <1>1, ExpandedType, ValueAssumption DEF PathOf, mxml_append
<1>3. PICK down \in Ascending(missing) :
          LET parents == [i \in DOMAIN down |-> Edit("append", Above(k)[down[i]], Empty)]
          IN  Record(Made(parents \o count \o item)
                        \cup IF MemoryFails THEN {parents \o item} ELSE {})
  BY DEF mxml_append
<1> DEFINE parents == [i \in DOMAIN down |-> Edit("append", Above(k)[down[i]], Empty)]
<1>4. Record(Made(parents \o count \o item)
                \cup IF MemoryFails THEN {parents \o item} ELSE {})
  BY <1>3
<1> HIDE DEF k
<1>5. /\ Fits(parents, D)
      /\ Keyed(parents) \subseteq ToSet(Above(k))
      /\ ToSet(Above(k)) \subseteq D \cup Keyed(parents)
  BY <1>2, ParentsFit
<1>6. total \in Edits /\ total.key = TotalKey
      /\ total.op = IF Exists(edits, TotalKey) THEN "set" ELSE "append"
  BY <1>1 DEF Edit, Edits, Operations
<1>7. one \in Edits /\ one.key = k /\ one.op = "append"
  BY <1>2 DEF Edit, Edits, Operations
<1>8. \A p \in Path : p \in D <=> Exists(edits, p)
  BY DEF Shown
<1>9. Made(parents \o count \o item) \cup (IF MemoryFails THEN {parents \o item} ELSE {})
        \subseteq Made(parents \o count \o item) \cup {parents \o item}
  OBVIOUS
<1>10. \A p \in Path : SelfOrChild(k, p) /\ p # k => p \in ToSet(Above(k))
  BY <1>2, AboveIs
<1>11. k \notin ToSet(Above(k))
  BY <1>2, AboveIs
<1> HIDE DEF parents, missing, D, total, one
<1>12. ASSUME NEW s, Fits(s, D), Keyed(parents) \subseteq Keyed(s), k \notin Keyed(s)
       PROVE  Fits(s \o item, D)
  <2>1. Fit(one, D \cup Keyed(s))
    BY <1>2, <1>5, <1>7, <1>8, <1>10, <1>12 DEF Fit
  <2> QED
    BY <1>7, <1>12, <2>1, FitsNext
<1>13. Fits(parents \o item, D)
  BY <1>5, <1>11, <1>12
<1>14. Fits(parents \o count \o item, D)
  <2>1. CASE key.kind # "+"
    <3>1. parents \o <<>> = parents
      BY <1>5, ConcatSimplifications DEF Fits
    <3>2. count = <<>>
      BY <2>1
    <3> QED
      BY <1>13, <3>1, <3>2
  <2>2. CASE key.kind = "+"
    <3>1. /\ TotalKey # k /\ TotalKey \notin ToSet(Above(k))
          /\ \A q \in Path : SelfOrChild(TotalKey, q) /\ q # TotalKey => q \in ToSet(Above(k))
      BY <1>1, <1>2, <2>2, CountedApart
    <3>2. Fit(total, D \cup Keyed(parents))
      <4>1. total.op = "set" => TotalKey \in D
        BY <1>1, <1>6, <1>8
      <4>2. total.op = "append" => TotalKey \notin D \cup Keyed(parents)
        BY <1>1, <1>5, <1>6, <1>8, <3>1
      <4>3. \A q \in Path : SelfOrChild(TotalKey, q) /\ q # TotalKey => q \in D \cup Keyed(parents)
        BY <1>5, <3>1
      <4> QED
        BY <1>6, <4>1, <4>2, <4>3 DEF Fit
    <3>3. Fits(parents \o <<total>>, D) /\ Keyed(parents \o <<total>>) = Keyed(parents) \cup {TotalKey}
      <4>1. total.op \in {"append", "set"}
        BY <1>6
      <4> QED
        BY <1>5, <1>6, <3>2, <4>1, FitsNext
    <3>4. Fits((parents \o <<total>>) \o item, D)
      BY <1>5, <1>11, <1>12, <3>1, <3>3
    <3>5. count = <<total>>
      BY <2>2
    <3> QED
      BY <3>4, <3>5
  <2> QED
    BY <2>1, <2>2
<1> HIDE DEF count, item
<1>15. PICK r \in Made(parents \o count \o item) \cup {parents \o item} :
          edits' = Reverse(r) \o edits
  BY <1>4, <1>9 DEF Record
<1>16. CASE r \in Made(parents \o count \o item)
  BY <1>14, <1>15, <1>16, StepsMade DEF D
<1>17. CASE r = parents \o item
  BY <1>13, <1>15, <1>17, StepsRecords DEF D
<1> QED
  BY <1>15, <1>16, <1>17

\* An update, whether or not it could be recorded.
LEMMA UpdateSteps ==
  ASSUME TagsApart, Steps(edits), NEW key \in Keys, NEW v \in Values, mxml_update(key, v)
  PROVE  Steps(edits')
<1> DEFINE k == PathOf(key)
           e == Edit("set", k, v)
<1>1. k \in Path /\ v \in Nat \cup {Empty} /\ Exists(edits, k) /\ Record(Made(<<e>>))
  BY TotalType, ExpandedType, ValueAssumption DEF PathOf, mxml_update
<1>2. e \in Edits /\ e.op = "set" /\ e.key = k
  BY <1>1 DEF Edit, Edits, Operations
<1>3. k \in DOMAIN Shown(edits)
  BY <1>1 DEF Shown
<1> HIDE DEF e, k
<1>4. Fits(<<e>>, DOMAIN Shown(edits))
  BY <1>2, <1>3, FitsOne DEF Fit
<1>5. PICK r \in Made(<<e>>) : edits' = Reverse(r) \o edits
  BY <1>1 DEF Record
<1> QED
  BY <1>4, <1>5, StepsMade

\* What is recorded of one or two records.
LEMMA FirstOf ==
  ASSUME NEW s \in Seq(Edits), NEW t \in Seq(Edits), Len(t) <= Len(s),
         \A i \in 1 .. Len(t) : t[i] = s[i]
  PROVE  SubSeq(s, 1, Len(t)) = t
<1> DEFINE u == SubSeq(s, 1, Len(t))
<1>1. u \in Seq(Edits) /\ Len(u) = Len(t) /\ \A i \in 1 .. Len(t) : u[i] = t[i]
  OBVIOUS
<1> HIDE DEF u
<1>2. u = t
  BY <1>1, SeqEqual
<1> QED
  BY <1>2 DEF u

\* What may be made of one record,
LEMMA MadeOne ==
  ASSUME NEW e \in Edits, NEW r \in Made(<<e>>) PROVE r = <<>> \/ r = <<e>>
<1> DEFINE s == <<e>>
           none == <<>>
<1>1. s \in Seq(Edits) /\ Len(s) = 1 /\ none \in Seq(Edits) /\ Len(none) = 0
  BY EmptySeq
<1>2. \A n \in 0 .. 1 : n = 0 \/ n = 1
  OBVIOUS
<1> HIDE DEF s, none
<1>3. SubSeq(s, 1, 0) = none /\ SubSeq(s, 1, 1) = s
  <2>1. SubSeq(s, 1, Len(none)) = none
    BY <1>1, FirstOf
  <2>2. SubSeq(s, 1, Len(s)) = s
    BY <1>1, FirstOf
  <2> QED
    BY <1>1, <2>1, <2>2
<1>4. ASSUME NEW x \in Made(s) PROVE x = none \/ x = s
  BY <1>1, <1>2, <1>3 DEF Made
<1> QED
  BY <1>4 DEF s, none

\* and of two.
LEMMA MadeTwo ==
  ASSUME NEW e \in Edits, NEW f \in Edits, NEW r \in Made(<<e>> \o <<f>>)
  PROVE  r = <<>> \/ r = <<e>> \/ r = <<e>> \o <<f>>
<1> DEFINE one == <<e>>
           s == <<e>> \o <<f>>
           none == <<>>
<1>1. /\ one \in Seq(Edits) /\ Len(one) = 1 /\ none \in Seq(Edits) /\ Len(none) = 0
      /\ s \in Seq(Edits) /\ Len(s) = 2 /\ s[1] = one[1]
  BY EmptySeq
<1>2. \A n \in 0 .. 2 : n = 0 \/ n = 1 \/ n = 2
  OBVIOUS
<1> HIDE DEF one, s, none
<1>3. SubSeq(s, 1, 0) = none /\ SubSeq(s, 1, 1) = one /\ SubSeq(s, 1, 2) = s
  <2>1. SubSeq(s, 1, Len(none)) = none
    BY <1>1, FirstOf
  <2>2. SubSeq(s, 1, Len(one)) = one
    BY <1>1, FirstOf
  <2>3. SubSeq(s, 1, Len(s)) = s
    BY <1>1, FirstOf
  <2> QED
    BY <1>1, <2>1, <2>2, <2>3
<1>4. ASSUME NEW x \in Made(s) PROVE x = none \/ x = one \/ x = s
  BY <1>1, <1>2, <1>3 DEF Made
<1> QED
  BY <1>4 DEF one, s, none

\* A deletion, with or without the new total.
LEMMA DeleteSteps ==
  ASSUME TagsApart, Steps(edits), NEW key \in Keys, mxml_delete(key)
  PROVE  Steps(edits')
<1> DEFINE k == PathOf(key)
           e == Edit("delete", k, Empty)
           one == <<e>> \o edits
           left == ReadBack(Total) - 1
           total == IF IsLastItem(key) THEN Uncounted(one, left) ELSE <<>>
<1>1. /\ Total \in Nat /\ TotalKey \in Path /\ edits \in Seq(Edits) /\ Sound(edits)
      /\ k \in Path /\ Exists(edits, k) /\ Record(Made(<<e>> \o total)) /\ left \in Int
  <2>1. Total \in Nat /\ TotalKey \in Path
    BY TotalType
  <2>2. left \in Int
    BY <2>1, DigitAssumption DEF ReadBack
  <2>3. k \in Path
    BY <2>1, ExpandedType DEF PathOf
  <2>4. Exists(edits, k) /\ Record(Made(<<e>> \o total))
    BY DEF mxml_delete
  <2> QED
    BY <2>1, <2>2, <2>3, <2>4, StepsSound
<1>2. e \in Edits /\ e.op = "delete" /\ e.key = k /\ e.value = Empty
  BY <1>1 DEF Edit, Edits, Operations
<1>3. k = Expanded(key, Total)
  BY DEF PathOf
<1> HIDE DEF e, k, left
<1>4. Steps(one) /\ Shown(one) = Cut(Shown(edits), k)
  <2>1. Possible(e, Shown(edits))
    BY <1>2 DEF Possible, Fit
  <2> QED
    BY <1>2, <2>1, StepsNext DEF Applied
<1>5. <<>> \o edits = edits /\ Reverse(<<>>) = <<>> /\ Reverse(<<e>>) = <<e>>
  <2>1. <<>> \in Seq(Edits) /\ Len(<<>>) = 0
    BY EmptySeq
  <2>2. Reverse(<<>>) = <<>>
    BY <2>1, Reversed, EmptySeq
  <2> QED
    BY <1>1, <1>2, <2>2, OneRecord, ConcatSimplifications
<1>6. PICK r \in Made(<<e>> \o total) : edits' = Reverse(r) \o edits
  BY <1>1 DEF Record
<1> HIDE DEF one, total
<1>7. CASE total = <<>>
  <2>1. <<e>> \o <<>> = <<e>>
    BY <1>2, OneRecord
  <2>2. r = <<>> \/ r = <<e>>
    BY <1>2, <1>6, <1>7, <2>1, MadeOne
  <2> QED
    BY <1>4, <1>5, <1>6, <2>2 DEF one
<1>8. ASSUME NEW f \in Edits, total = <<f>>, Possible(f, Shown(one)) PROVE Steps(edits')
  <2>1. r = <<>> \/ r = <<e>> \/ r = <<e>> \o <<f>>
    BY <1>2, <1>6, <1>8, MadeTwo
  <2>2. CASE r = <<e>> \o <<f>>
    <3>1. edits' = <<f>> \o one
      BY <1>1, <1>2, <1>6, <1>8, <2>2, TwoRecords DEF one
    <3> QED
      BY <1>4, <1>8, <3>1, StepsNext
  <2>3. CASE r = <<>> \/ r = <<e>>
    BY <1>4, <1>5, <1>6, <2>3 DEF one
  <2> QED
    BY <2>1, <2>2, <2>3
<1>9. CASE ~IsLastItem(key)
  BY <1>7, <1>9 DEF total
<1>10. CASE IsLastItem(key)
  <2>1. total = Uncounted(one, left)
    BY <1>10 DEF total
  <2>2. \A p \in Path : p \in DOMAIN Shown(one) <=> Exists(one, p)
    BY DEF Shown
  <2>3. CASE left > 0
    <3>1. left \in Nat /\ ~(left <= 0)
      BY <1>1, <2>3
    <3>2. CASE Exists(one, TotalKey)
      <4> DEFINE f == Edit("set", TotalKey, left)
      <4>1. total = <<f>>
        BY <2>1, <2>3, <3>1, <3>2 DEF Uncounted
      <4>2. f \in Edits /\ f.op = "set" /\ f.key = TotalKey
        BY <1>1, <3>1 DEF Edit, Edits, Operations
      <4> HIDE DEF f
      <4>3. Possible(f, Shown(one))
        BY <1>1, <2>2, <3>2, <4>2 DEF Possible, Fit
      <4> QED
        BY <1>8, <4>1, <4>2, <4>3
    <3>3. CASE ~Exists(one, TotalKey)
      <4> DEFINE f == Edit("append", TotalKey, left)
      <4>1. total = <<f>>
        BY <2>1, <2>3, <3>1, <3>3 DEF Uncounted
      <4>2. f \in Edits /\ f.op = "append" /\ f.key = TotalKey
        BY <1>1, <3>1 DEF Edit, Edits, Operations
      <4> HIDE DEF f
      <4>3. ASSUME NEW p \in Path, SelfOrChild(TotalKey, p), p # TotalKey
            PROVE  p \in DOMAIN Shown(one)
        <5>1. /\ List \in Path /\ List \in Seq(STRING) /\ p \in Seq(STRING) /\ k \in Seq(STRING)
              /\ SelfOrChild(List, p)
          BY <1>1, <4>3, AboveTotal, PathAssumption DEF Path
        <5>2. SelfOrChild(k, List) /\ k # List
          <6>1. k = ItemKey(Total) \o key.path /\ key.path \in Seq(STRING)
            BY <1>3, <1>10, EmptySeq DEF Expanded, IsLastItem
          <6> QED
            BY <1>1, <6>1, ListPaths
        <5>3. SelfOrChild(k, p)
          BY <5>1, <5>2, PrefixTrans
        <5>4. p \in DOMAIN Shown(edits)
          <6>1. k \in DOMAIN Shown(edits)
            BY <1>1 DEF Shown
          <6> QED
            BY <1>1, <5>3, <6>1 DEF Sound, Closed
        <5>5. ASSUME SelfOrChild(p, k) PROVE FALSE
          <6>1. SelfOrChild(List, k)
            BY <5>1, <5>5, PrefixTrans
          <6> QED
            BY <5>1, <5>2, <6>1, PrefixEqual
        <5> QED
          BY <1>4, <5>4, <5>5 DEF Cut
      <4>4. Possible(f, Shown(one))
        BY <1>1, <2>2, <3>3, <4>2, <4>3 DEF Possible, Fit
      <4> QED
        BY <1>8, <4>1, <4>2, <4>4
    <3> QED
      BY <3>2, <3>3
  <2>4. CASE ~(left > 0)
    <3>1. left <= 0
      BY <1>1, <2>4
    <3>2. CASE Exists(one, TotalKey)
      <4> DEFINE f == Edit("delete", TotalKey, Empty)
      <4>1. total = <<f>>
        BY <2>1, <2>4, <3>1, <3>2 DEF Uncounted
      <4>2. f \in Edits /\ f.op = "delete" /\ f.value = Empty
        BY <1>1 DEF Edit, Edits, Operations
      <4> HIDE DEF f
      <4>3. Possible(f, Shown(one))
        BY <4>2 DEF Possible, Fit
      <4> QED
        BY <1>8, <4>1, <4>2, <4>3
    <3>3. CASE ~Exists(one, TotalKey)
      <4>1. total = <<>>
        BY <2>1, <2>4, <3>1, <3>3 DEF Uncounted
      <4> QED
        BY <1>7, <4>1
    <3> QED
      BY <3>2, <3>3
  <2> QED
    BY <2>3, <2>4
<1> QED
  BY <1>9, <1>10

\* Every edit, whether or not everything could be recorded.
LEMMA ChangeSteps ==
  ASSUME TagsApart, Steps(edits), Change PROVE Steps(edits')
BY AppendSteps, UpdateSteps, DeleteSteps DEF Change, mxml_set

-----------------------------------------------------------------------------
(* The text that all the edits of a list make.                             *)

\* Every edit has sent what it makes of the text that reached it.
Chain(es, text, c) ==
    /\ c \in [0 .. Len(es) -> Seq(TextToken)]
    /\ c[0] = text /\ c[Len(es)] = Source
    /\ \A i \in 1 .. Len(es) : Emitted(es[i], c[i], c[i - 1])
Finished(es, text) == \E c : Chain(es, text, c)

\* Edits which were recorded one after the other make a text of the document
\* that the list shows.
LEMMA FinishedGood ==
  ASSUME Unmixed(Source), NEW es, Steps(es), NEW text, Finished(es, text),
         \A i \in DOMAIN es : es[i].op = "append" => Len(es[i].key) # 1
  PROVE  Good(text, Shown(es))
<1> DEFINE l == Len(es)
<1>1. PICK c : Chain(es, text, c)
  BY DEF Finished
<1>2. es \in Seq(Edits) /\ l \in Nat /\ DOMAIN es = 1 .. l
  BY StepsSound
<1>3. /\ \A n \in 0 .. l : c[n] \in Seq(TextToken)
      /\ c[0] = text /\ c[l] = Source
      /\ \A i \in 1 .. l : Emitted(es[i], c[i], c[i - 1])
  BY <1>1 DEF Chain
<1>4. \A n \in 1 .. l : /\ Possible(es[n], Shown(Rest(es, n)))
                        /\ Shown(Rest(es, n - 1)) = Applied(es[n], Shown(Rest(es, n)))
  BY DEF Steps
<1>5. \A n \in 1 .. l : es[n] \in Edits
  BY <1>2
<1> HIDE DEF l
<1> DEFINE Holds(n) == Good(c[n], Shown(Rest(es, n)))
           T == {n \in Nat : n <= l => Holds(l - n)}
<1>6. Holds(l)
  <2>1. Rest(es, l) = <<>>
    <3> DEFINE s == SubSeq(es, l + 1, l)
    <3>1. s \in Seq(Edits) /\ Len(s) = 0
      <4>1. l + 1 > l /\ l + 1 \in Nat
        BY <1>2
      <4> QED
        BY <1>2, <4>1
    <3> HIDE DEF s
    <3>2. s = <<>>
      BY <3>1
    <3> QED
      BY <3>2 DEF Rest, l, s
  <2>2. PICK P, o, k : Shows(Source, P, o, k, Original)
    BY OriginalIs
  <2>3. Laid(Source, P, o, k) /\ Tells(Source, P, Original)
    BY <2>2, TextTells DEF Shows
  <2>4. Good(Source, Original)
    BY <2>3 DEF Good
  <2> QED
    BY <1>3, <2>1, <2>4, SoundSource
<1>7. ASSUME NEW i \in 1 .. l, Holds(i) PROVE Holds(i - 1)
  <2>1. /\ i \in 0 .. l /\ i - 1 \in 0 .. l
    BY <1>2
  <2>2. /\ c[i] \in Seq(TextToken) /\ c[i - 1] \in Seq(TextToken)
        /\ Emitted(es[i], c[i], c[i - 1]) /\ es[i] \in Edits
    BY <1>3, <1>5, <2>1
  <2>3. es[i].op = "append" => Len(es[i].key) # 1
    BY <1>2
  <2>4. Possible(es[i], Shown(Rest(es, i)))
    BY <1>4
  <2>5. Good(c[i - 1], Applied(es[i], Shown(Rest(es, i))))
    BY <1>7, <2>2, <2>3, <2>4, EmittedGood
  <2>6. Shown(Rest(es, i - 1)) = Applied(es[i], Shown(Rest(es, i)))
    BY <1>4
  <2> QED
    BY <2>5, <2>6
<1> HIDE DEF Holds
<1>8. 0 \in T
  <2>1. l - 0 = l
    BY <1>2
  <2> QED
    BY <1>6, <2>1
<1>9. ASSUME NEW n \in Nat, n \in T PROVE n + 1 \in T
  <2> SUFFICES ASSUME n + 1 <= l PROVE Holds(l - (n + 1))
    OBVIOUS
  <2> DEFINE i == l - n
  <2>1. i \in 1 .. l /\ i - 1 = l - (n + 1) /\ n <= l
    BY <1>2
  <2>2. Holds(i)
    BY <1>9, <2>1
  <2> HIDE DEF i
  <2>3. Holds(i - 1)
    BY <1>7, <2>1, <2>2
  <2> QED
    BY <2>1, <2>3
<1>10. Nat \subseteq T
  <2> HIDE DEF T
  <2> QED
    BY <1>8, <1>9, NatInd
<1>11. Holds(0)
  <2>1. l - l = 0 /\ l \in T /\ l <= l
    BY <1>2, <1>10
  <2>2. Holds(l - l)
    BY <2>1
  <2> QED
    BY <2>1, <2>2
<1>12. Rest(es, 0) = es
  BY <1>2 DEF Rest
<1> QED
  BY <1>3, <1>11, <1>12 DEF Holds

-----------------------------------------------------------------------------
(* The keys of the text that was written.                                  *)

\* One token is asked for its key, after the ones before it.
KeysCall(text, n, before) ==
    IF n = 0 THEN <<>>
    ELSE IF IsA(text, "open", n) THEN Append(before, text[n].key)
    ELSE before
KeysCalls(text, m, f) == f = [n \in 0 .. m |-> KeysCall(text, n, f[n - 1])]

\* There are such lists of keys, by induction over the tokens.
LEMMA KeysCallsExist ==
  ASSUME NEW text, NEW m \in Nat PROVE \E f : KeysCalls(text, m, f)
<1> DEFINE T == {l \in Nat : \E f : KeysCalls(text, l, f)}
<1>0. \A x : KeysCall(text, 0, x) = <<>>
  BY DEF KeysCall
<1>1. 0 \in T
  <2> DEFINE f == [n \in 0 .. 0 |-> <<>>]
             g == [n \in 0 .. 0 |-> KeysCall(text, n, f[n - 1])]
  <2>1. \A n \in 0 .. 0 : n = 0
    OBVIOUS
  <2>2. \A n \in 0 .. 0 : f[n] = g[n]
    BY <1>0, <2>1
  <2>3. f = g
    BY <2>2
  <2> HIDE DEF f
  <2>4. KeysCalls(text, 0, f)
    BY <2>3 DEF KeysCalls
  <2> QED
    BY <2>4
<1>2. ASSUME NEW l \in Nat, l \in T PROVE l + 1 \in T
  <2>1. PICK f : KeysCalls(text, l, f)
    BY <1>2
  <2> DEFINE g == [n \in 0 .. l + 1 |-> IF n <= l THEN f[n] ELSE KeysCall(text, n, f[l])]
             h == [n \in 0 .. l + 1 |-> KeysCall(text, n, g[n - 1])]
  <2>2. ASSUME NEW n \in 0 .. l + 1 PROVE g[n] = KeysCall(text, n, g[n - 1])
    <3>1. CASE n = 0
      <4>1. n \in 0 .. l /\ n <= l
        BY <3>1
      <4>2. f[n] = KeysCall(text, n, f[n - 1])
        BY <2>1, <4>1 DEF KeysCalls
      <4> QED
        BY <1>0, <3>1, <4>1, <4>2
    <3>2. CASE n \in 1 .. l
      <4>1. n \in 0 .. l /\ n <= l /\ n - 1 \in 0 .. l + 1 /\ n - 1 <= l
        BY <3>2
      <4>2. f[n] = KeysCall(text, n, f[n - 1])
        BY <2>1, <4>1 DEF KeysCalls
      <4>3. g[n] = f[n] /\ g[n - 1] = f[n - 1]
        BY <4>1
      <4> QED
        BY <4>2, <4>3
    <3>3. CASE n = l + 1
      <4>1. n - 1 = l /\ ~(n <= l) /\ l \in 0 .. l + 1 /\ l <= l
        BY <3>3
      <4>2. g[n] = KeysCall(text, n, f[l]) /\ g[l] = f[l]
        BY <4>1
      <4> QED
        BY <4>1, <4>2
    <3>4. n = 0 \/ n \in 1 .. l \/ n = l + 1
      OBVIOUS
    <3> QED
      BY <3>1, <3>2, <3>3, <3>4
  <2>3. g = h
    <3>1. g = [n \in 0 .. l + 1 |-> g[n]]
      OBVIOUS
    <3> HIDE DEF g
    <3>2. h = [n \in 0 .. l + 1 |-> KeysCall(text, n, g[n - 1])]
      OBVIOUS
    <3> HIDE DEF h
    <3> QED
      BY <2>2, <3>1, <3>2
  <2> HIDE DEF g
  <2>4. KeysCalls(text, l + 1, g)
    BY <2>3 DEF KeysCalls
  <2> QED
    BY <2>4
<1>3. Nat \subseteq T
  <2> HIDE DEF T
  <2> QED
    BY <1>1, <1>2, NatInd
<1> QED
  BY <1>3

\* One more key.
LEMMA KeysAppended ==
  ASSUME NEW s \in Seq(Path), NEW k \in Path, IsInjective(s), k \notin ToSet(s)
  PROVE  /\ Append(s, k) \in Seq(Path) /\ IsInjective(Append(s, k))
         /\ ToSet(Append(s, k)) = ToSet(s) \cup {k}
<1> DEFINE t == Append(s, k)  l == Len(s)
<1>1. /\ l \in Nat /\ t \in Seq(Path) /\ Len(t) = l + 1 /\ DOMAIN t = 1 .. l + 1
      /\ t[l + 1] = k /\ \A i \in 1 .. l : t[i] = s[i]
  OBVIOUS
<1>2. DOMAIN s = 1 .. l
  OBVIOUS
<1> HIDE DEF t, l
<1>3. \A i \in 1 .. l : s[i] \in ToSet(s)
  BY <1>2 DEF ToSet
<1>4. \A i \in 1 .. l + 1 : i = l + 1 \/ i \in 1 .. l
  BY <1>1
<1>5. IsInjective(t)
  <2> SUFFICES ASSUME NEW i \in 1 .. l + 1, NEW j \in 1 .. l + 1, t[i] = t[j] PROVE i = j
    BY <1>1 DEF IsInjective
  <2>1. CASE i = l + 1 /\ j \in 1 .. l
    BY <1>1, <1>3, <2>1
  <2>2. CASE j = l + 1 /\ i \in 1 .. l
    BY <1>1, <1>3, <2>2
  <2>3. CASE i \in 1 .. l /\ j \in 1 .. l
    BY <1>1, <1>2, <2>3 DEF IsInjective
  <2> QED
    BY <1>4, <2>1, <2>2, <2>3
<1>6. ToSet(t) = ToSet(s) \cup {k}
  <2>1. ToSet(t) = {t[i] : i \in 1 .. l + 1} /\ ToSet(s) = {s[i] : i \in 1 .. l}
    BY <1>1, <1>2 DEF ToSet
  <2>2. l + 1 \in 1 .. l + 1 /\ \A i \in 1 .. l : i \in 1 .. l + 1
    BY <1>1
  <2> QED
    BY <1>1, <1>4, <2>1, <2>2
<1> QED
  BY <1>1, <1>5, <1>6 DEF t

\* mxml_keys returns every path of the text, and none twice.
LEMMA KeysAre ==
  ASSUME NEW P, NEW o, NEW c, Laid(out, P, o, c)
  PROVE  IsInjective(mxml_keys) /\ ToSet(mxml_keys) = P
<1> DEFINE m == Len(out)
           f == CHOOSE f : KeysCalls(out, m, f)
<1>1. mxml_keys = f[m]
  BY Zenon DEF mxml_keys, KeysCall, KeysCalls
<1>2. m \in Nat /\ DOMAIN out = 1 .. m
  BY DEF Laid
<1>3. KeysCalls(out, m, f)
  <2>1. \E x : KeysCalls(out, m, x)
    BY <1>2, KeysCallsExist
  <2> QED
    BY <2>1
<1> HIDE DEF f, m
<1>4. \A n \in 0 .. m : f[n] = KeysCall(out, n, f[n - 1])
  BY <1>3 DEF KeysCalls
<1>5. f[0] = <<>>
  BY <1>2, <1>4 DEF KeysCall
<1> DEFINE Opened(n) == {out[i].key : i \in {j \in 1 .. n : out[j].type = "open"}}
           Holds(n) == /\ f[n] \in Seq(Path) /\ IsInjective(f[n])
                       /\ ToSet(f[n]) = Opened(n)
           T == {n \in Nat : n <= m => Holds(n)}
<1>6. 0 \in T
  <2> DEFINE s == <<>>
  <2>1. s \in Seq(Path) /\ DOMAIN s = {}
    BY EmptySeq
  <2>2. f[0] = s
    BY <1>5
  <2> HIDE DEF s
  <2>3. IsInjective(s) /\ ToSet(s) = {}
    BY <2>1 DEF IsInjective, ToSet
  <2>4. Opened(0) = {}
    OBVIOUS
  <2> HIDE DEF Opened
  <2> QED
    BY <2>1, <2>2, <2>3, <2>4
<1>7. ASSUME NEW l \in Nat, l \in T PROVE l + 1 \in T
  <2> SUFFICES ASSUME l + 1 <= m PROVE Holds(l + 1)
    OBVIOUS
  <2> DEFINE n == l + 1  k == out[n].key
  <2>1. n \in 1 .. m /\ n \in 0 .. m /\ n # 0 /\ n - 1 = l /\ l <= m
    BY <1>2
  <2>2. Holds(l)
    BY <1>7, <2>1
  <2>3. \A i \in 1 .. n : i = n \/ i \in 1 .. l
    OBVIOUS
  <2>4. \A i \in 1 .. l : i \in 1 .. n /\ i # n /\ i \in 1 .. m
    BY <1>2, <2>1
  <2>5. f[n] = IF out[n].type = "open" THEN Append(f[l], k) ELSE f[l]
    BY <1>4, <2>1 DEF KeysCall, IsA
  <2> HIDE DEF n, k
  <2>6. CASE out[n].type = "open"
    <3>1. k \in Path /\ o[k] = n
      BY <1>2, <2>1, <2>6 DEF Laid, k
    <3>2. ASSUME k \in Opened(l) PROVE FALSE
      <4>1. PICK i \in 1 .. l : out[i].type = "open" /\ out[i].key = k
        BY <3>2
      <4>2. o[k] = i
        BY <1>2, <2>4, <4>1 DEF Laid
      <4> QED
        BY <2>4, <3>1, <4>2
    <3>3. Opened(n) = Opened(l) \cup {k}
      BY <2>1, <2>3, <2>4, <2>6 DEF k
    <3> HIDE DEF Opened
    <3>4. /\ Append(f[l], k) \in Seq(Path) /\ IsInjective(Append(f[l], k))
          /\ ToSet(Append(f[l], k)) = Opened(l) \cup {k}
      BY <2>2, <3>1, <3>2, KeysAppended
    <3>5. Holds(n)
      BY <2>5, <2>6, <3>3, <3>4
    <3> QED
      BY <3>5 DEF n
  <2>7. CASE out[n].type # "open"
    <3>1. Opened(n) = Opened(l)
      BY <2>3, <2>4, <2>7
    <3> HIDE DEF Opened
    <3>2. Holds(n)
      BY <2>2, <2>5, <2>7, <3>1
    <3> QED
      BY <3>2 DEF n
  <2> QED
    BY <2>6, <2>7
<1>8. Nat \subseteq T
  <2> HIDE DEF T
  <2> QED
    BY <1>6, <1>7, NatInd
<1>9. Holds(m)
  <2> HIDE DEF Holds
  <2>1. m \in T /\ m <= m
    <3> HIDE DEF T
    <3> QED
      BY <1>2, <1>8
  <2> QED
    BY <2>1
<1>10. Opened(m) = P
  <2>1. Opened(m) = {out[i].key : i \in Tags(out, "open")}
    BY <1>2 DEF Tags, IsA
  <2> QED
    BY <2>1, LaidElements
<1> QED
  BY <1>1, <1>9, <1>10

-----------------------------------------------------------------------------
(* What was written.                                                       *)

\* Paths that mxml_get may be asked for.
LEMMA KnownType == ASSUME edits \in Seq(Edits) PROVE KnownPaths \subseteq Path
<1> SUFFICES ASSUME NEW p \in KnownPaths PROVE p \in Path
  OBVIOUS
<1>1. CASE p \in SourcePaths
  BY <1>1, OriginalPath
<1>2. CASE \E i \in DOMAIN edits : p \in {edits[i].key} \cup ToSet(Above(edits[i].key))
  <2>1. PICK i \in DOMAIN edits : p \in {edits[i].key} \cup ToSet(Above(edits[i].key))
    BY <1>2
  <2>2. edits[i] \in Edits
    OBVIOUS
  <2>3. edits[i].key \in Path
    BY <2>2 DEF Edits
  <2> QED
    BY <2>1, <2>3, AboveType DEF ToSet
<1> QED
  BY <1>1, <1>2 DEF KnownPaths

\* A good text of the document is one in the sense of both properties.
LEMMA GoodWritten ==
  ASSUME edits \in Seq(Edits), Good(out, Document)
  PROVE  WrittenIsDocument /\ FoundIsDocument
<1>1. PICK P, o, c : Laid(out, P, o, c) /\ Tells(out, P, Document)
  BY DEF Good
<1>2. DOMAIN Document = P /\ P \subseteq Path
  BY <1>1 DEF Tells, Laid
<1> HIDE DEF Document
<1>3. WellFormed(out)
  BY <1>1, LaidWell
<1>4. IsInjective(mxml_keys) /\ ToSet(mxml_keys) = DOMAIN Document
  BY <1>1, <1>2, KeysAre
<1>5. ASSUME NEW i \in Tags(out, "open") PROVE TextAfter(out, i) = Document[out[i].key]
  <2>1. PICK p \in P : i = o[p]
    BY <1>1, LaidElements
  <2>2. out[i].key = p
    BY <1>1, <2>1 DEF Laid
  <2> QED
    BY <1>1, <2>1, <2>2, TellsText
<1>6. ASSUME NEW first \in KnownPaths, NEW k \in KnownPaths
      PROVE  TextIn(out, find_key_noedit(out, find_key_noedit(out, cache_init, first).cache, k).span)
                = IF k \in DOMAIN Document THEN Document[k] ELSE None
  <2> DEFINE cache == find_key_noedit(out, cache_init, first).cache
  <2>1. first \in Path /\ k \in Path
    BY KnownType
  <2>2. CacheOK(out, P, o, c, cache)
    BY <1>1, <2>1, CacheInit, FindPlace
  <2> HIDE DEF cache
  <2>3. find_key_noedit(out, cache, k).span = Place(out, P, o, c, k)
    BY <1>1, <2>1, <2>2, FindPlace
  <2>4. TextIn(out, Place(out, P, o, c, k)) = IF k \in P THEN TextAfter(out, o[k]) ELSE None
    BY <1>1, <2>1, TextInIs
  <2>5. k \in P => TextAfter(out, o[k]) = Document[k]
    BY <1>1, TellsText
  <2>6. TextIn(out, find_key_noedit(out, cache, k).span)
          = IF k \in DOMAIN Document THEN Document[k] ELSE None
    BY <1>2, <2>3, <2>4, <2>5
  <2> QED
    BY <2>6 DEF cache
<1>7. WrittenIsDocument
  BY <1>3, <1>4, <1>5 DEF WrittenIsDocument
<1>8. FoundIsDocument
  BY <1>6 DEF FoundIsDocument
<1> QED
  BY <1>7, <1>8

\* That is what mxml_write leaves, if every edit has sent all that it makes of
\* what reached it.
LEMMA FinishedWritten ==
  ASSUME Unmixed(Source), Steps(edits), status = "written" => Finished(edits, out)
  PROVE  WrittenIsDocument /\ FoundIsDocument
<1>1. CASE status = "written" /\ ~TopAppended
  <2>1. edits \in Seq(Edits) /\ XmlInv
    BY StepsSound DEF Sound, XmlInv
  <2>2. \A i \in DOMAIN edits : edits[i].op = "append" => Len(edits[i].key) # 1
    BY <1>1 DEF TopAppended
  <2>3. Good(out, Shown(edits))
    BY <1>1, <2>2, FinishedGood
  <2> QED
    BY <2>1, <2>3, DocumentShown, GoodWritten
<1>2. CASE ~(status = "written" /\ ~TopAppended)
  BY <1>2 DEF WrittenIsDocument, FoundIsDocument
<1> QED
  BY <1>1, <1>2

-----------------------------------------------------------------------------
(* The tokens under way: stream j is what position j has taken so far, the *)
(* writer at 0 and edit j at j.                                            *)

\* The carrier's token, if it has one of the text.
Given(token) == IF token \in {NoToken, EOF} THEN <<>> ELSE <<token>>

\* What was sent to position j: what it took, and what is about to arrive.
Passed(cur, token, c, j) == IF j = cur THEN c[j] \o Given(token) ELSE c[j]

\* What edit e will send before it takes another token.
Pending(e, s, held) ==
    LET value == Token("value", e.key, e.value)
        close == Token("close", e.key, Empty)
    IN  IF s = "opened" THEN <<value>>
        ELSE IF s = "open" THEN <<value, close, held>>
        ELSE IF s = "value" THEN <<close, held>>
        ELSE IF s = "close" THEN <<held>>
        ELSE <<>>

Stream(es, cur, token, p, st, held, text, c) ==
    /\ c \in [0 .. Len(es) -> Seq(TextToken)]
    /\ c[0] = text
    /\ Passed(cur, token, c, Len(es)) = SubSeq(Source, 1, p)
    /\ \A i \in 1 .. Len(es) :
          Emitted(es[i], c[i], Passed(cur, token, c, i - 1) \o Pending(es[i], st[i], held[i]))

Streams(es, cur, token, p, st, held, text) ==
    \E c : Stream(es, cur, token, p, st, held, text, c)

\* What the carrier brings is taken, and its new token goes to the next place.
Taken(c, cur, token) == [c EXCEPT ![cur] = @ \o Given(token)]
Goes(cur, to) == IF to = NoToken THEN cur + 1 ELSE cur - 1

\* What the carrier gives.
LEMMA GivenIs ==
  /\ Given(NoToken) = <<>> /\ Given(EOF) = <<>>
  /\ \A t \in TextToken : t = EOF \/ Given(t) = <<t>>
  /\ \A t : t \in TextToken \cup {NoToken, EOF} => Given(t) \in Seq(TextToken)
<1>1. \A t \in TextToken : t # NoToken
  BY TokenAssumption
<1>2. \A t \in TextToken : <<t>> \in Seq(TextToken)
  <2> HIDE DEF TextToken
  <2> QED
    OBVIOUS
<1>3. <<>> \in Seq(TextToken)
  BY EmptySeq
<1> HIDE DEF TextToken
<1> QED
  BY <1>1, <1>2, <1>3 DEF Given

\* Nothing that was sent is lost, and the new token comes on top.
LosesNothing(n, c, cur, token, to) ==
    LET d == Taken(c, cur, token)
        next == Goes(cur, to)
    IN  /\ d \in [0 .. n -> Seq(TextToken)]
        /\ \A j \in 0 .. n : j # cur - 1 => Passed(next, to, d, j) = Passed(cur, token, c, j)
        /\ cur - 1 \in 0 .. n =>
              /\ Passed(cur, token, c, cur - 1) = c[cur - 1]
              /\ Passed(next, to, d, cur - 1) = c[cur - 1] \o Given(to)

\* That is so wherever the carrier is.
LEMMA PassedMoves ==
  ASSUME NEW n \in Nat, NEW c \in [0 .. n -> Seq(TextToken)], NEW cur \in 0 .. n + 1,
         NEW token \in TextToken \cup {NoToken, EOF}, NEW to
  PROVE  LosesNothing(n, c, cur, token, to)
<1> DEFINE d == Taken(c, cur, token)  next == Goes(cur, to)
<1>1. \A j \in 0 .. n : c[j] \in Seq(TextToken) /\ c[j] \o <<>> = c[j]
  <2> TAKE j \in 0 .. n
  <2>1. c[j] \in Seq(TextToken)
    OBVIOUS
  <2>2. ASSUME NEW s \in Seq(TextToken) PROVE s \o <<>> = s
    OBVIOUS
  <2> QED
    BY <2>1, <2>2
<1>2. Given(token) \in Seq(TextToken) /\ Given(NoToken) = <<>>
  BY GivenIs
<1>3. DOMAIN c = 0 .. n /\ d = [j \in 0 .. n |-> IF j = cur THEN c[j] \o Given(token) ELSE c[j]]
  BY DEF Taken
<1>4. \A j \in 0 .. n : d[j] = IF j = cur THEN c[j] \o Given(token) ELSE c[j]
  BY <1>3
<1>5. ASSUME NEW s \in Seq(TextToken), NEW t \in Seq(TextToken) PROVE s \o t \in Seq(TextToken)
  BY <1>5, ConcatProperties
<1> HIDE DEF TextToken
<1>6. d \in [0 .. n -> Seq(TextToken)]
  BY <1>1, <1>2, <1>3, <1>5
<1>7. next = (IF to = NoToken THEN cur + 1 ELSE cur - 1) /\ cur \in Int /\ n \in Int
  BY DEF Goes
<1> HIDE DEF d, next
<1>8. ASSUME NEW j \in 0 .. n, j # cur - 1 PROVE Passed(next, to, d, j) = Passed(cur, token, c, j)
  <2>1. CASE j = cur
    <3>1. j # next
      BY <1>7, <2>1
    <3>2. Passed(next, to, d, j) = d[j] /\ Passed(cur, token, c, j) = c[j] \o Given(token)
      BY <2>1, <3>1 DEF Passed
    <3> QED
      BY <1>4, <2>1, <3>2
  <2>2. CASE j # cur
    <3>1. d[j] = c[j] /\ Passed(cur, token, c, j) = c[j]
      BY <1>4, <2>2 DEF Passed
    <3>2. j = next => to = NoToken
      BY <1>7, <1>8
    <3>3. j = next => Given(to) = <<>>
      BY <1>2, <3>2
    <3> QED
      BY <1>1, <3>1, <3>3 DEF Passed
  <2> QED
    BY <2>1, <2>2
<1>9. ASSUME cur - 1 \in 0 .. n
      PROVE  /\ Passed(cur, token, c, cur - 1) = c[cur - 1]
             /\ Passed(next, to, d, cur - 1) = c[cur - 1] \o Given(to)
  <2> DEFINE j == cur - 1
  <2>1. j # cur /\ j \in 0 .. n
    BY <1>7, <1>9
  <2>2. d[j] = c[j] /\ Passed(cur, token, c, j) = c[j] /\ c[j] \o <<>> = c[j]
    BY <1>1, <1>4, <2>1 DEF Passed
  <2>3. j # next => to = NoToken
    BY <1>7
  <2> HIDE DEF j
  <2>4. Passed(next, to, d, j) = c[j] \o Given(to)
    <3>1. CASE j = next
      BY <2>2, <3>1 DEF Passed
    <3>2. CASE j # next
      <4>1. Given(to) = <<>>
        BY <1>2, <2>3, <3>2
      <4>2. Passed(next, to, d, j) = d[j]
        BY <3>2 DEF Passed
      <4> QED
        BY <2>2, <4>1, <4>2
    <3> QED
      BY <3>1, <3>2
  <2> QED
    BY <2>2, <2>4 DEF j
<1> QED
  BY <1>6, <1>8, <1>9 DEF LosesNothing, d, next

\* The writer takes a token.
LEMMA StreamWritten ==
  ASSUME NEW es \in Seq(Edits), NEW token \in TextToken \cup {NoToken, EOF},
         NEW p, NEW st, NEW held, NEW text, Streams(es, 0, token, p, st, held, text)
  PROVE  Streams(es, 1, NoToken, p, st, held, text \o Given(token))
<1>0. PICK c : Stream(es, 0, token, p, st, held, text, c)
  BY DEF Streams
<1> DEFINE n == Len(es)  d == Taken(c, 0, token)
<1>1. n \in Nat /\ 0 \in 0 .. n /\ n \in 0 .. n /\ 0 \in 0 .. n + 1 /\ 0 - 1 \notin 0 .. n
  OBVIOUS
<1>2. /\ c \in [0 .. n -> Seq(TextToken)] /\ c[0] = text
      /\ Passed(0, token, c, n) = SubSeq(Source, 1, p)
      /\ \A i \in 1 .. n :
            Emitted(es[i], c[i], Passed(0, token, c, i - 1) \o Pending(es[i], st[i], held[i]))
  BY <1>0 DEF Stream
<1>3. Goes(0, NoToken) = 1
  BY DEF Goes
<1> HIDE DEF n
<1>4. /\ d \in [0 .. n -> Seq(TextToken)]
      /\ \A j \in 0 .. n : j # 0 - 1 => Passed(1, NoToken, d, j) = Passed(0, token, c, j)
  <2>1. LosesNothing(n, c, 0, token, NoToken)
    BY <1>1, <1>2, PassedMoves
  <2> QED
    BY <1>3, <2>1 DEF LosesNothing
<1>5. \A j \in 0 .. n : Passed(1, NoToken, d, j) = Passed(0, token, c, j)
  <2> TAKE j \in 0 .. n
  <2>1. j # 0 - 1
    BY <1>1
  <2> QED
    BY <1>4, <2>1
<1>6. d[0] = text \o Given(token) /\ \A i \in 1 .. n : d[i] = c[i]
  BY <1>1, <1>2 DEF Taken
<1> HIDE DEF d
<1>7. \A i \in 1 .. n : i - 1 \in 0 .. n
  BY <1>1
<1>8. Stream(es, 1, NoToken, p, st, held, text \o Given(token), d)
  BY <1>1, <1>2, <1>4, <1>5, <1>6, <1>7 DEF Stream, n
<1> QED
  BY <1>8 DEF Streams

\* The text gives a token.
LEMMA StreamRead ==
  ASSUME NEW es \in Seq(Edits), NEW token \in TextToken \cup {NoToken, EOF},
         NEW p, NEW st, NEW held, NEW text,
         Streams(es, Len(es) + 1, token, p, st, held, text),
         NEW to, to # NoToken, NEW q, SubSeq(Source, 1, q) = SubSeq(Source, 1, p) \o Given(to)
  PROVE  Streams(es, Len(es), to, q, st, held, text)
<1>0. PICK c : Stream(es, Len(es) + 1, token, p, st, held, text, c)
  BY DEF Streams
<1> DEFINE n == Len(es)  cur == n + 1  d == Taken(c, cur, token)
<1>1. /\ n \in Nat /\ cur \in 0 .. n + 1 /\ cur - 1 = n /\ n \in 0 .. n /\ cur \notin 0 .. n
      /\ 0 \in 0 .. n
  OBVIOUS
<1>2. /\ c \in [0 .. n -> Seq(TextToken)] /\ c[0] = text
      /\ Passed(cur, token, c, n) = SubSeq(Source, 1, p)
      /\ \A i \in 1 .. n :
            Emitted(es[i], c[i], Passed(cur, token, c, i - 1) \o Pending(es[i], st[i], held[i]))
  BY <1>0 DEF Stream
<1>3. Goes(cur, to) = n
  BY <1>1 DEF Goes
<1>4. d = c
  BY <1>1, <1>2 DEF Taken
<1> HIDE DEF n, cur, d
<1>5. /\ \A j \in 0 .. n : j # n => Passed(n, to, d, j) = Passed(cur, token, c, j)
      /\ Passed(cur, token, c, n) = c[n] /\ Passed(n, to, d, n) = c[n] \o Given(to)
  <2>1. LosesNothing(n, c, cur, token, to)
    BY <1>1, <1>2, PassedMoves
  <2> QED
    BY <1>1, <1>3, <2>1 DEF LosesNothing, d
<1>6. Passed(n, to, c, n) = SubSeq(Source, 1, q)
  BY <1>2, <1>4, <1>5
<1>7. \A i \in 1 .. n : i - 1 \in 0 .. n /\ i - 1 # n
  BY <1>1
<1>8. \A i \in 1 .. n : Passed(n, to, c, i - 1) = Passed(cur, token, c, i - 1)
  BY <1>4, <1>5, <1>7
<1>9. Stream(es, n, to, q, st, held, text, c)
  BY <1>2, <1>6, <1>8 DEF Stream, n
<1> QED
  BY <1>9 DEF Streams, n

\* What an edit may send or keep back.
LEMMA PendingIs ==
  ASSUME NEW e \in Edits, NEW held
  PROVE  /\ Pending(e, "idle", held) = <<>>
         /\ Pending(e, "opened", held) = <<Token("value", e.key, e.value)>>
         /\ Pending(e, "open", held) = <<Token("value", e.key, e.value),
                                         Token("close", e.key, Empty), held>>
         /\ Pending(e, "value", held) = <<Token("close", e.key, Empty), held>>
         /\ Pending(e, "close", held) = <<held>>
         /\ \A s, S : TextToken \cup {held} \subseteq S => Pending(e, s, held) \in Seq(S)
<1>1. /\ Token("close", e.key, Empty) \in TextToken
      /\ Token("value", e.key, e.value) \in TextToken
  BY TokenMade DEF Edits
<1>2. ASSUME NEW S, TextToken \cup {held} \subseteq S, NEW s
      PROVE  Pending(e, s, held) \in Seq(S)
  <2> DEFINE value == Token("value", e.key, e.value)
             close == Token("close", e.key, Empty)
  <2>1. value \in S /\ close \in S /\ held \in S
    BY <1>1, <1>2
  <2>2. \/ Pending(e, s, held) = <<>>
        \/ Pending(e, s, held) = <<value>>
        \/ Pending(e, s, held) = <<value, close, held>>
        \/ Pending(e, s, held) = <<close, held>>
        \/ Pending(e, s, held) = <<held>>
    BY DEF Pending
  <2> HIDE DEF value, close
  <2>3. /\ <<>> \in Seq(S) /\ <<value>> \in Seq(S) /\ <<value, close, held>> \in Seq(S)
        /\ <<close, held>> \in Seq(S) /\ <<held>> \in Seq(S)
    BY <2>1, EmptySeq
  <2> QED
    BY <2>2, <2>3
<1> QED
  BY <1>2 DEF Pending

\* An edit takes a token and sends what it makes of it, or sends what it kept.
Moves(es, cur, token, st, held, to, st2, held2) ==
    /\ \A j \in DOMAIN es : j # cur => st2[j] = st[j] /\ held2[j] = held[j]
    /\ Given(token) # <<>> => /\ token \in TextToken
                              /\ Pending(es[cur], st[cur], held[cur]) = <<>>
    /\ Given(to) \o Pending(es[cur], st2[cur], held2[cur])
          = IF Given(token) # <<>> THEN Sends(es[cur], token)
            ELSE Pending(es[cur], st[cur], held[cur])

\* That keeps the streams.
LEMMA StreamMoves ==
  ASSUME NEW es \in Seq(Edits), NEW cur \in DOMAIN es,
         NEW token \in TextToken \cup {NoToken, EOF},
         NEW p, NEW st, NEW held, NEW text, Streams(es, cur, token, p, st, held, text),
         NEW to \in TextToken \cup {NoToken, EOF}, NEW st2, NEW held2,
         Moves(es, cur, token, st, held, to, st2, held2)
  PROVE  Streams(es, Goes(cur, to), to, p, st2, held2, text)
<1>0. PICK c : Stream(es, cur, token, p, st, held, text, c)
  BY DEF Streams
<1>moves. /\ \A j \in DOMAIN es : j # cur => st2[j] = st[j] /\ held2[j] = held[j]
          /\ Given(token) # <<>> => /\ token \in TextToken
                                    /\ Pending(es[cur], st[cur], held[cur]) = <<>>
          /\ Given(to) \o Pending(es[cur], st2[cur], held2[cur])
                = IF Given(token) # <<>> THEN Sends(es[cur], token)
                  ELSE Pending(es[cur], st[cur], held[cur])
  BY DEF Moves
<1> DEFINE n == Len(es)  d == Taken(c, cur, token)  next == Goes(cur, to)
           before == Pending(es[cur], st[cur], held[cur])
           after == Pending(es[cur], st2[cur], held2[cur])
<1>1. /\ n \in Nat /\ cur \in 1 .. n /\ cur \in 0 .. n + 1 /\ n \in 0 .. n /\ 0 \in 0 .. n
      /\ cur - 1 \in 0 .. n /\ cur # 0 /\ n # cur - 1 /\ cur \in 0 .. n /\ DOMAIN es = 1 .. n
  OBVIOUS
<1>2. /\ c \in [0 .. n -> Seq(TextToken)] /\ c[0] = text
      /\ Passed(cur, token, c, n) = SubSeq(Source, 1, p)
      /\ \A i \in 1 .. n :
            Emitted(es[i], c[i], Passed(cur, token, c, i - 1) \o Pending(es[i], st[i], held[i]))
  BY <1>0 DEF Stream
<1>3. es[cur] \in Edits
  OBVIOUS
<1> HIDE DEF n, d, next, before, after
<1>4. LosesNothing(n, c, cur, token, to)
  BY <1>1, <1>2, PassedMoves
<1>5. /\ d \in [0 .. n -> Seq(TextToken)]
      /\ \A j \in 0 .. n : j # cur - 1 => Passed(next, to, d, j) = Passed(cur, token, c, j)
      /\ Passed(cur, token, c, cur - 1) = c[cur - 1]
      /\ Passed(next, to, d, cur - 1) = c[cur - 1] \o Given(to)
  BY <1>1, <1>4 DEF LosesNothing, d, next
<1>6. /\ \A j \in 0 .. n : j # cur => d[j] = c[j]
      /\ d[cur] = c[cur] \o Given(token)
  BY <1>1, <1>2 DEF Taken, d
<1>7. Passed(next, to, d, n) = SubSeq(Source, 1, p) /\ d[0] = text
  BY <1>1, <1>2, <1>5, <1>6
<1>8. ASSUME NEW i \in 1 .. n, i # cur
      PROVE  Emitted(es[i], d[i], Passed(next, to, d, i - 1) \o Pending(es[i], st2[i], held2[i]))
  <2>1. i - 1 \in 0 .. n /\ i - 1 # cur - 1 /\ i \in 0 .. n
    BY <1>1, <1>8
  <2>2. Passed(next, to, d, i - 1) = Passed(cur, token, c, i - 1) /\ d[i] = c[i]
    BY <1>5, <1>6, <1>8, <2>1
  <2>3. st2[i] = st[i] /\ held2[i] = held[i]
    BY <1>moves, <1>1, <1>8
  <2>4. Emitted(es[i], c[i], Passed(cur, token, c, i - 1) \o Pending(es[i], st[i], held[i]))
    BY <1>2
  <2> QED
    BY <2>2, <2>3, <2>4
<1>9. Emitted(es[cur], d[cur], Passed(next, to, d, cur - 1) \o after)
  <2> DEFINE a == c[cur]  b == c[cur - 1]
  <2>1. a \in Seq(TextToken) /\ b \in Seq(TextToken)
    BY <1>1, <1>2
  <2>2. Emitted(es[cur], a, b \o before)
    BY <1>1, <1>2, <1>5 DEF before
  <2>3. Passed(next, to, d, cur - 1) \o after = b \o (Given(to) \o after)
    <3> DEFINE S == TextToken \cup {held2[cur]}
    <3>1. Given(to) \in Seq(TextToken)
      BY GivenIs
    <3>2. \A s \in Seq(TextToken) : s \in Seq(S)
      OBVIOUS
    <3>3. after \in Seq(S)
      <4> HIDE DEF TextToken
      <4> QED
        BY <1>3, PendingIs DEF after
    <3> HIDE DEF S
    <3>4. b \in Seq(S) /\ Given(to) \in Seq(S)
      BY <2>1, <3>1, <3>2
    <3>5. \A x, y, z \in Seq(S) : (x \o y) \o z = x \o (y \o z)
      OBVIOUS
    <3>6. (b \o Given(to)) \o after = b \o (Given(to) \o after)
      BY <3>3, <3>4, <3>5
    <3> QED
      BY <1>5, <3>6
  <2> HIDE DEF a, b
  <2>4. CASE Given(token) # <<>>
    <3>1. token \in TextToken /\ before = <<>> /\ Given(to) \o after = Sends(es[cur], token)
      BY <1>moves, <2>4 DEF before, after
    <3>2. b \o before = b
      <4>1. ASSUME NEW s \in Seq(TextToken) PROVE s \o <<>> = s
        OBVIOUS
      <4> QED
        BY <2>1, <3>1, <4>1
    <3>3. Emitted(es[cur], Append(a, token), b \o Sends(es[cur], token))
      BY <1>3, <2>1, <2>2, <3>1, <3>2, EmittedNext
    <3>4. d[cur] = Append(a, token)
      <4>1. Given(token) = <<token>>
        BY <2>4, <3>1, GivenIs DEF Given
      <4>2. ASSUME NEW s \in Seq(TextToken), NEW t \in TextToken PROVE s \o <<t>> = Append(s, t)
        OBVIOUS
      <4>3. a \o <<token>> = Append(a, token)
        BY <2>1, <3>1, <4>2
      <4> QED
        BY <1>6, <4>1, <4>3 DEF a
    <3> QED
      BY <2>3, <3>1, <3>3, <3>4
  <2>5. CASE Given(token) = <<>>
    <3>1. Given(to) \o after = before
      BY <1>moves, <2>5 DEF before, after
    <3>2. d[cur] = a
      <4>1. ASSUME NEW s \in Seq(TextToken) PROVE s \o <<>> = s
        OBVIOUS
      <4>2. a \o <<>> = a
        BY <2>1, <4>1
      <4> QED
        BY <1>6, <2>5, <4>2 DEF a
    <3> QED
      BY <2>2, <2>3, <3>1, <3>2
  <2> QED
    BY <2>4, <2>5
<1>10. \A i \in 1 .. n :
          Emitted(es[i], d[i], Passed(next, to, d, i - 1) \o Pending(es[i], st2[i], held2[i]))
  <2> TAKE i \in 1 .. n
  <2>1. CASE i = cur
    BY <1>9, <2>1 DEF after
  <2> QED
    BY <1>8, <2>1
<1>11. Stream(es, next, to, p, st2, held2, text, d)
  BY <1>5, <1>7, <1>10 DEF Stream, n
<1> QED
  BY <1>11 DEF Streams, next

-----------------------------------------------------------------------------
(* mxml_write keeps the streams.                                           *)

\* Only an edit between the carrier and the text, or one at which the carrier
\* is empty, has more to send; after the last token none has.
Waiting ==
    \A i \in DOMAIN edits :
        i < curstate \/ (i = curstate /\ carrier # NoToken) \/ carrier = EOF
            => state[i] = "idle"

\* The inductive invariant.
WriteInv ==
    /\ FlattenTyped /\ Steps(edits)
    /\ status = "write" =>
          /\ Waiting
          /\ carrier = EOF => pos = Len(Source)
          /\ \A i \in DOMAIN edits :
                edits[i].op = "append" /\ state[i] # "idle" => held_token[i] \in TextToken
          /\ Streams(edits, curstate, carrier, pos, state, held_token, out)
    /\ status = "written" => Finished(edits, out)

\* What is on its way is a token of a text, or the mark after the last one.
LEMMA TokenUnderWay ==
  ASSUME edits \in Seq(Edits), NEW t \in Tokens
  PROVE  t \in TextToken \cup {NoToken, EOF}
<1>1. \A i \in DOMAIN edits : edits[i] \in Edits
  OBVIOUS
<1>2. \A i \in DOMAIN edits : edits[i].key \in Path /\ edits[i].value \in Nat \cup {Empty}
  BY <1>1 DEF Edits
<1>3. CASE t \in ToSet(Source)
  BY <1>3, SourceType
<1>4. CASE \E i \in DOMAIN edits : t \in {Token("open", edits[i].key, Empty),
                                          Token("close", edits[i].key, Empty),
                                          Token("value", edits[i].key, edits[i].value)}
  BY <1>2, <1>4, TokenMade
<1> QED
  BY <1>3, <1>4 DEF Tokens

\* The streams at the beginning of mxml_write are empty.
LEMMA StreamBegins ==
  ASSUME NEW es \in Seq(Edits), NEW st, NEW held, \A i \in DOMAIN es : st[i] = "idle"
  PROVE  Streams(es, 0, NoToken, 0, st, held, <<>>)
<1> DEFINE n == Len(es)  c == [j \in 0 .. n |-> <<>>]
<1>1. n \in Nat /\ 0 \in 0 .. n /\ n \in 0 .. n /\ DOMAIN es = 1 .. n
  OBVIOUS
<1>2. <<>> \in Seq(TextToken) /\ <<>> \o <<>> = <<>> /\ SubSeq(Source, 1, 0) = <<>>
  BY EmptySeq, SourceType
<1>3. c \in [0 .. n -> Seq(TextToken)] /\ \A j \in 0 .. n : c[j] = <<>>
  BY <1>2
<1> HIDE DEF c, n
<1>4. \A j \in 0 .. n : Passed(0, NoToken, c, j) = <<>>
  <2> TAKE j \in 0 .. n
  <2>1. c[j] = <<>> /\ Given(NoToken) = <<>>
    BY <1>3, GivenIs
  <2> QED
    BY <1>2, <2>1 DEF Passed
<1>5. ASSUME NEW i \in 1 .. n
      PROVE  Emitted(es[i], c[i], Passed(0, NoToken, c, i - 1) \o Pending(es[i], st[i], held[i]))
  <2>1. i \in 0 .. n /\ i - 1 \in 0 .. n /\ i \in DOMAIN es
    BY <1>1
  <2>2. Pending(es[i], st[i], held[i]) = <<>>
    BY <2>1 DEF Pending
  <2>3. c[i] = <<>> /\ Passed(0, NoToken, c, i - 1) = <<>>
    BY <1>3, <1>4, <2>1
  <2>4. Emitted(es[i], <<>>, <<>>)
    BY EmittedNone
  <2>5. <<>> \o <<>> = <<>>
    OBVIOUS
  <2> QED
    BY <2>2, <2>3, <2>4, <2>5, Zenon
<1>6. Stream(es, 0, NoToken, 0, st, held, <<>>, c)
  BY <1>1, <1>2, <1>3, <1>4, <1>5 DEF Stream, n
<1> QED
  BY <1>6 DEF Streams

\* Where nothing is held back the streams are what each edit makes of the next.
LEMMA StreamEnds ==
  ASSUME NEW es \in Seq(Edits), NEW st, NEW held, \A i \in DOMAIN es : st[i] = "idle",
         NEW text, Streams(es, 0, EOF, Len(Source), st, held, text)
  PROVE  Finished(es, text)
<1>0. PICK c : Stream(es, 0, EOF, Len(Source), st, held, text, c)
  BY DEF Streams
<1> DEFINE n == Len(es)
<1>1. n \in Nat /\ n \in 0 .. n /\ DOMAIN es = 1 .. n
  OBVIOUS
<1>2. /\ c \in [0 .. n -> Seq(TextToken)] /\ c[0] = text
      /\ Passed(0, EOF, c, n) = SubSeq(Source, 1, Len(Source))
      /\ \A i \in 1 .. n :
            Emitted(es[i], c[i], Passed(0, EOF, c, i - 1) \o Pending(es[i], st[i], held[i]))
  BY <1>0 DEF Stream
<1>3. SubSeq(Source, 1, Len(Source)) = Source
  BY SourceType
<1>4. ASSUME NEW s \in Seq(TextToken) PROVE s \o <<>> = s
  OBVIOUS
<1>5. ASSUME NEW j \in 0 .. n PROVE Passed(0, EOF, c, j) = c[j] /\ c[j] \o <<>> = c[j]
  <2>1. c[j] \in Seq(TextToken)
    BY <1>2
  <2>2. c[j] \o <<>> = c[j]
    BY <1>4, <2>1
  <2> QED
    BY <2>2, GivenIs DEF Passed
<1> HIDE DEF n
<1>6. ASSUME NEW i \in 1 .. n PROVE Emitted(es[i], c[i], c[i - 1])
  <2>1. i - 1 \in 0 .. n /\ i \in DOMAIN es
    BY <1>1
  <2>2. Pending(es[i], st[i], held[i]) = <<>>
    BY <2>1 DEF Pending
  <2>3. Passed(0, EOF, c, i - 1) \o Pending(es[i], st[i], held[i]) = c[i - 1]
    BY <1>5, <2>1, <2>2
  <2>4. Emitted(es[i], c[i], Passed(0, EOF, c, i - 1) \o Pending(es[i], st[i], held[i]))
    BY <1>2
  <2> QED
    BY <2>3, <2>4
<1>7. Chain(es, text, c)
  BY <1>1, <1>2, <1>3, <1>5, <1>6 DEF Chain, n
<1> QED
  BY <1>7 DEF Finished

\* What follows for the carrier at an edit.
LEMMA AtEdit ==
  ASSUME WriteInv, status = "write", curstate \in DOMAIN edits
  PROVE  /\ edits \in Seq(Edits) /\ This \in Edits
         /\ carrier \in TextToken \cup {NoToken, EOF}
         /\ carrier # NoToken => state[curstate] = "idle"
         /\ DOMAIN state = DOMAIN edits /\ DOMAIN held_token = DOMAIN edits
         /\ NoToken \notin TextToken /\ EOF \notin TextToken /\ EOF # NoToken
         /\ \A t \in TextToken : Given(t) = <<t>>
         /\ Given(NoToken) = <<>> /\ Given(EOF) = <<>>
<1>1. edits \in Seq(Edits) /\ FlattenInv /\ TypeOK
  BY DEF WriteInv, FlattenTyped, FlattenInv
<1>2. DOMAIN state = DOMAIN edits /\ DOMAIN held_token = DOMAIN edits /\ carrier \in Tokens
  BY <1>1 DEF TypeOK
<1>3. carrier \in TextToken \cup {NoToken, EOF}
  BY <1>1, <1>2, TokenUnderWay
<1>4. This \in Edits
  BY <1>1 DEF This
<1>5. carrier # NoToken => state[curstate] = "idle"
  BY DEF WriteInv, Waiting
<1>6. \A t \in TextToken : t.type \in {"open", "close", "value"}
  BY TokenIs
<1>7. EOF \notin TextToken
  BY <1>6, TokenAssumption
<1>8. NoToken \notin TextToken /\ EOF # NoToken
  BY TokenAssumption
<1>9. \A t \in TextToken : Given(t) = <<t>>
  BY <1>7, GivenIs
<1> QED
  BY <1>1, <1>2, <1>3, <1>4, <1>5, <1>7, <1>8, <1>9, GivenIs

\* An edit sends what it makes of the token it takes, or what it kept back.
LEMMA EditMoves ==
  ASSUME WriteInv, status = "write", curstate \in DOMAIN edits, FlattenTyped',
         NEW to \in TextToken \cup {NoToken, EOF}, Move(to),
         UNCHANGED <<edits, status, pos, out>>,
         \A j \in DOMAIN edits : j # curstate =>
             state'[j] = state[j] /\ held_token'[j] = held_token[j],
         to = NoToken => state'[curstate] = "idle",
         to = EOF => carrier = EOF /\ state'[curstate] = "idle",
         This.op = "append" /\ state'[curstate] # "idle" => held_token'[curstate] \in TextToken,
         Given(to) \o Pending(This, state'[curstate], held_token'[curstate])
            = IF carrier \in TextToken THEN Sends(This, carrier)
              ELSE Pending(This, state[curstate], held_token[curstate])
  PROVE  WriteInv'
<1>1. /\ edits \in Seq(Edits) /\ This \in Edits /\ DOMAIN edits = 1 .. Len(edits)
      /\ carrier \in TextToken \cup {NoToken, EOF}
      /\ carrier # NoToken => state[curstate] = "idle"
      /\ NoToken \notin TextToken /\ EOF \notin TextToken /\ EOF # NoToken
      /\ \A t \in TextToken : Given(t) = <<t>>
      /\ Given(NoToken) = <<>> /\ Given(EOF) = <<>>
  BY AtEdit
<1>2. /\ Steps(edits) /\ Waiting
      /\ carrier = EOF => pos = Len(Source)
      /\ \A i \in DOMAIN edits :
            edits[i].op = "append" /\ state[i] # "idle" => held_token[i] \in TextToken
  BY DEF WriteInv
<1>3. carrier' = to /\ curstate' = Goes(curstate, to) /\ curstate \in Nat
  BY <1>1 DEF Move, Goes
<1>4. Streams(edits, curstate', to, pos, state', held_token', out)
  <2>1. Streams(edits, curstate, carrier, pos, state, held_token, out)
    BY DEF WriteInv
  <2>2. Given(carrier) # <<>> <=> carrier \in TextToken
    <3>1. \A t : <<t>> # <<>>
      OBVIOUS
    <3> HIDE DEF TextToken
    <3> QED
      BY <1>1, <3>1
  <2>3. carrier \in TextToken => Pending(This, state[curstate], held_token[curstate]) = <<>>
    <3>1. carrier \in TextToken => state[curstate] = "idle"
      BY <1>1
    <3> QED
      BY <1>1, <3>1, PendingIs
  <2> DEFINE cur == curstate  token == carrier  p == pos  st == state  held == held_token
             text == out  st2 == state'  held2 == held_token'
  <2>4. Streams(edits, cur, token, p, st, held, text)
    BY <2>1
  <2>5. Moves(edits, cur, token, st, held, to, st2, held2)
    BY <2>2, <2>3 DEF Moves, This
  <2> HIDE DEF cur, token, p, st, held, text, st2, held2
  <2>6. cur \in DOMAIN edits /\ token \in TextToken \cup {NoToken, EOF}
    BY <1>1 DEF cur, token
  <2>7. Streams(edits, Goes(cur, to), to, p, st2, held2, text)
    <3>1. edits \in Seq(Edits) /\ to \in TextToken \cup {NoToken, EOF}
      BY <1>1
    <3> HIDE DEF TextToken
    <3> QED
      BY <2>4, <2>6, <2>5, <3>1, StreamMoves
  <2> QED
    BY <1>3, <2>7 DEF cur, p, st2, held2, text
<1>5. Waiting'
  <2> SUFFICES ASSUME NEW i \in DOMAIN edits,
                      i < curstate' \/ (i = curstate' /\ to # NoToken) \/ to = EOF
               PROVE  state'[i] = "idle"
    BY <1>3 DEF Waiting
  <2>0. i \in Nat /\ curstate \in Nat
    BY <1>1, <1>3
  <2>1. CASE i = curstate
    <3>1. to # NoToken => curstate' = curstate - 1
      BY <1>3 DEF Goes
    <3> QED
      BY <2>0, <2>1, <3>1
  <2>2. CASE i # curstate
    <3>1. i < curstate \/ carrier = EOF
      BY <1>3, <2>0, <2>2 DEF Goes
    <3>2. state[i] = "idle"
      BY <1>2, <3>1 DEF Waiting
    <3> QED
      BY <2>2, <3>2
  <2> QED
    BY <2>1, <2>2
<1>6. to = EOF => pos' = Len(Source)
  BY <1>2
<1>7. \A i \in DOMAIN edits :
         edits[i].op = "append" /\ state'[i] # "idle" => held_token'[i] \in TextToken
  BY <1>2 DEF This
<1> HIDE DEF TextToken
<1>8. edits' = edits /\ status' = "write" /\ out' = out /\ pos' = pos
  OBVIOUS
<1>9. Streams(edits', curstate', carrier', pos', state', held_token', out')
  BY <1>3, <1>4, <1>8
<1> QED
  BY <1>2, <1>3, <1>5, <1>6, <1>7, <1>8, <1>9 DEF WriteInv

\* One token after the other.
LEMMA PairIs ==
  ASSUME NEW S, NEW x \in S, NEW y \in S
  PROVE  <<x>> \o <<>> = <<x>> /\ <<x>> \o <<y>> = <<x, y>>
<1> DEFINE s == <<x>>  t == <<y>>  u == <<x, y>>
<1>1. /\ s \in Seq(S) /\ Len(s) = 1 /\ s[1] = x
      /\ t \in Seq(S) /\ Len(t) = 1 /\ t[1] = y
      /\ u \in Seq(S) /\ Len(u) = 2 /\ u[1] = x /\ u[2] = y
  OBVIOUS
<1> HIDE DEF s, t, u
<1>2. s \o <<>> = s
  BY <1>1
<1>3. /\ s \o t \in Seq(S) /\ Len(s \o t) = 2
      /\ \A i \in 1 .. 2 : (s \o t)[i] = IF i <= 1 THEN s[i] ELSE t[i - 1]
  BY <1>1, ConcatProperties
<1>4. \A i \in 1 .. 2 : (s \o t)[i] = u[i]
  <2> TAKE i \in 1 .. 2
  <2>1. i = 1 \/ (i = 2 /\ i - 1 = 1 /\ ~(i <= 1))
    OBVIOUS
  <2> QED
    BY <1>1, <1>3, <2>1
<1>5. s \o t = u
  BY <1>1, <1>3, <1>4, SeqEqual
<1> QED
  BY <1>2, <1>5 DEF s, t, u

\* The carrier at a deletion,
LEMMA DeleteWrites ==
  ASSUME WriteInv, status = "write", FlattenTyped', process_delete, edits' = edits
  PROVE  WriteInv'
<1>1. /\ curstate \in DOMAIN edits /\ This.op = "delete"
      /\ UNCHANGED <<edits, status, pos, state, held_token, out>>
  BY DEF process_delete, At, This
<1>2. /\ edits \in Seq(Edits) /\ This \in Edits
      /\ carrier \in TextToken \cup {NoToken, EOF}
      /\ NoToken \notin TextToken /\ EOF \notin TextToken /\ EOF # NoToken
      /\ \A t \in TextToken : Given(t) = <<t>>
      /\ Given(NoToken) = <<>> /\ Given(EOF) = <<>>
  BY <1>1, AtEdit
<1>3. state[curstate] = "idle" /\ Pending(This, state[curstate], held_token[curstate]) = <<>>
  <2>1. TypeOK
    BY DEF WriteInv, FlattenTyped, FlattenInv
  <2>2. state[curstate] = "idle"
    BY <1>1, <2>1 DEF TypeOK, This
  <2> QED
    BY <1>2, <2>2, PendingIs
<1> DEFINE to == IF carrier # NoToken /\ Removes(carrier, This.key) THEN NoToken ELSE carrier
<1>4. Move(to) /\ to \in TextToken \cup {NoToken, EOF}
  BY <1>2 DEF process_delete
<1>5. ~Removes(EOF, This.key)
  <2>1. This.key \in Path
    BY <1>2 DEF Edits
  <2>2. This.key \in Seq(STRING) /\ This.key # <<>>
    BY <2>1 DEF Path
  <2>3. EOF.key = <<>>
    BY TokenAssumption
  <2>4. <<>> \in Seq(STRING) /\ Len(<<>>) = 0
    BY EmptySeq
  <2>5. ~SelfOrChild(<<>>, This.key)
    <3> DEFINE k == This.key  none == <<>>
    <3>1. none \in Seq(STRING) /\ k \in Seq(STRING) /\ Len(k) > 0 /\ Len(none) = 0
      BY <2>2, <2>4
    <3> HIDE DEF k, none
    <3>2. ~(Len(k) <= Len(none))
      BY <3>1
    <3>3. ~SelfOrChild(none, k)
      BY <3>1, <3>2, PrefixIs
    <3> QED
      BY <3>3 DEF k, none
  <2> QED
    BY <2>3, <2>5 DEF Removes
<1>6. to = EOF => carrier = EOF
  BY <1>2
<1>7. Given(to) = IF carrier \in TextToken THEN Sends(This, carrier) ELSE <<>>
  <2>1. CASE carrier \in TextToken
    BY <1>1, <1>2, <2>1 DEF Sends, Removes
  <2>2. CASE carrier \in {NoToken, EOF}
    BY <1>2, <1>5, <2>2
  <2> QED
    BY <1>2, <2>1, <2>2
<1>8. Given(to) \o <<>> = Given(to)
  <2>1. Given(to) \in Seq(TextToken)
    BY <1>4, GivenIs
  <2>2. ASSUME NEW s \in Seq(TextToken) PROVE s \o <<>> = s
    OBVIOUS
  <2> QED
    BY <2>1, <2>2
<1> HIDE DEF to
<1>9. Given(to) \o Pending(This, state'[curstate], held_token'[curstate])
         = IF carrier \in TextToken THEN Sends(This, carrier)
           ELSE Pending(This, state[curstate], held_token[curstate])
  BY <1>1, <1>3, <1>7, <1>8
<1>10. state' = state /\ held_token' = held_token /\ state'[curstate] = "idle"
  BY <1>1, <1>3
<1> HIDE DEF WriteInv
<1> QED
  BY <1>1, <1>4, <1>6, <1>9, <1>10, EditMoves

\* at an update,
LEMMA SetWrites ==
  ASSUME WriteInv, status = "write", FlattenTyped', process_set, edits' = edits
  PROVE  WriteInv'
<1> DEFINE value == Token("value", This.key, This.value)
<1>1. /\ curstate \in DOMAIN edits /\ This.op = "set"
      /\ UNCHANGED <<edits, status, pos, held_token, out>>
  BY DEF process_set, At, This
<1>2. /\ edits \in Seq(Edits) /\ This \in Edits
      /\ carrier \in TextToken \cup {NoToken, EOF}
      /\ carrier # NoToken => state[curstate] = "idle"
      /\ DOMAIN state = DOMAIN edits
      /\ NoToken \notin TextToken /\ EOF \notin TextToken /\ EOF # NoToken
      /\ \A t \in TextToken : Given(t) = <<t>>
      /\ Given(NoToken) = <<>> /\ Given(EOF) = <<>>
  BY <1>1, AtEdit
<1>3. state[curstate] \in {"idle", "opened"}
  <2>1. TypeOK
    BY DEF WriteInv, FlattenTyped, FlattenInv
  <2> QED
    BY <1>1, <2>1 DEF TypeOK, This
<1>4. /\ \A h : Pending(This, "idle", h) = <<>> /\ Pending(This, "opened", h) = <<value>>
      /\ value \in TextToken
  BY <1>2, PendingIs, TokenMade DEF Edits
<1>5. EOF.type \notin {"open", "close", "value"}
  BY TokenAssumption
<1> HIDE DEF value
<1>6. \A t \in TextToken : <<t>> \o <<>> = <<t>> /\ <<t>> \o <<value>> = <<t, value>>
  BY <1>4, PairIs
<1>7. <<>> \o <<>> = <<>>
  OBVIOUS
<1> DEFINE Right(to) ==
        /\ Move(to) /\ to \in TextToken \cup {NoToken, EOF}
        /\ \A j \in DOMAIN edits : j # curstate => state'[j] = state[j]
        /\ to = NoToken => state'[curstate] = "idle"
        /\ to = EOF => carrier = EOF /\ state'[curstate] = "idle"
        /\ Given(to) \o Pending(This, state'[curstate], held_token'[curstate])
              = IF carrier \in TextToken THEN Sends(This, carrier)
                ELSE Pending(This, state[curstate], held_token[curstate])
<1>8. ASSUME NEW to, Right(to) PROVE WriteInv'
  <2>1. \A j \in DOMAIN edits : j # curstate =>
           state'[j] = state[j] /\ held_token'[j] = held_token[j]
    BY <1>1, <1>8
  <2>2. This.op # "append"
    BY <1>1
  <2> QED
    BY <1>1, <1>8, <2>1, <2>2, EditMoves
<1>9. CASE Is("open", This.key) /\ Become("opened") /\ Move(carrier)
  <2>1. carrier \in TextToken /\ state[curstate] = "idle"
    BY <1>2, <1>5, <1>9 DEF Is
  <2>2. Sends(This, carrier) = <<carrier, value>>
    BY <1>1, <1>9 DEF Is, Sends, value
  <2>3. state'[curstate] = "opened" /\ \A j \in DOMAIN edits : j # curstate => state'[j] = state[j]
    BY <1>1, <1>2, <1>9 DEF Become
  <2>4. Given(carrier) \o Pending(This, state'[curstate], held_token'[curstate])
          = <<carrier, value>>
    BY <1>2, <1>4, <1>6, <2>1, <2>3
  <2>5. Right(carrier)
    BY <1>2, <1>9, <2>1, <2>2, <2>3, <2>4
  <2> HIDE DEF Right
  <2> QED
    BY <1>8, <2>5
<1>10. CASE Is("value", This.key) /\ Move(NoToken) /\ UNCHANGED state
  <2>1. carrier \in TextToken /\ state[curstate] = "idle"
    BY <1>2, <1>5, <1>10 DEF Is
  <2>2. Sends(This, carrier) = <<>>
    BY <1>1, <1>10 DEF Is, Sends
  <2>3. Given(NoToken) \o Pending(This, state'[curstate], held_token'[curstate]) = <<>>
    BY <1>2, <1>4, <1>7, <1>10, <2>1
  <2>4. Right(NoToken)
    BY <1>2, <1>10, <2>1, <2>2, <2>3
  <2> HIDE DEF Right
  <2> QED
    BY <1>8, <2>4
<1>11. CASE carrier = NoToken /\ state[curstate] = "opened" /\ Become("idle") /\ Move(value)
  <2>1. state'[curstate] = "idle" /\ \A j \in DOMAIN edits : j # curstate => state'[j] = state[j]
    BY <1>1, <1>2, <1>11 DEF Become
  <2>2. Given(value) \o Pending(This, state'[curstate], held_token'[curstate]) = <<value>>
    BY <1>2, <1>4, <1>6, <2>1
  <2>3. Right(value)
    BY <1>2, <1>4, <1>11, <2>1, <2>2
  <2> HIDE DEF Right
  <2> QED
    BY <1>8, <2>3
<1>12. CASE /\ ~Is("open", This.key) /\ ~Is("value", This.key)
            /\ ~(carrier = NoToken /\ state[curstate] = "opened")
            /\ Move(carrier) /\ UNCHANGED state
  <2>1. state[curstate] = "idle"
    BY <1>2, <1>3, <1>12
  <2>2. Pending(This, state[curstate], held_token[curstate]) = <<>>
        /\ Pending(This, state'[curstate], held_token'[curstate]) = <<>>
    BY <1>4, <1>12, <2>1
  <2>3. Given(carrier) \o <<>>
          = IF carrier \in TextToken THEN Sends(This, carrier) ELSE <<>>
    <3>1. CASE carrier \in TextToken
      <4>1. Sends(This, carrier) = <<carrier>>
        BY <1>1, <1>2, <1>12, <3>1 DEF Is, Sends
      <4> QED
        BY <1>2, <1>6, <3>1, <4>1
    <3>2. CASE carrier \in {NoToken, EOF}
      BY <1>2, <1>7, <3>2
    <3> QED
      BY <1>2, <3>1, <3>2
  <2>4. Right(carrier)
    BY <1>2, <1>12, <2>1, <2>2, <2>3
  <2> HIDE DEF Right
  <2> QED
    BY <1>8, <2>4
<1> HIDE DEF Right
<1> QED
  BY <1>9, <1>10, <1>11, <1>12 DEF process_set, value

\* One token and two more,
LEMMA TripleIs ==
  ASSUME NEW S, NEW x \in S, NEW y \in S, NEW z \in S
  PROVE  <<x>> \o <<y, z>> = <<x, y, z>>
<1> DEFINE s == <<x>>  t == <<y, z>>  u == <<x, y, z>>
<1>1. /\ s \in Seq(S) /\ Len(s) = 1 /\ s[1] = x
      /\ t \in Seq(S) /\ Len(t) = 2 /\ t[1] = y /\ t[2] = z
      /\ u \in Seq(S) /\ Len(u) = 3 /\ u[1] = x /\ u[2] = y /\ u[3] = z
  OBVIOUS
<1> HIDE DEF s, t, u
<1>2. Len(s) + Len(t) = 3
  BY <1>1
<1>3. /\ s \o t \in Seq(S) /\ Len(s \o t) = Len(s) + Len(t)
      /\ \A i \in 1 .. Len(s) + Len(t) : (s \o t)[i] = IF i <= Len(s) THEN s[i] ELSE t[i - Len(s)]
  BY <1>1, ConcatProperties, Zenon
<1>4. \A i \in 1 .. 3 : (s \o t)[i] = u[i]
  <2> TAKE i \in 1 .. 3
  <2>1. i = 1 \/ (i = 2 /\ i - 1 = 1 /\ ~(i <= 1)) \/ (i = 3 /\ i - 1 = 2 /\ ~(i <= 1))
    OBVIOUS
  <2> QED
    BY <1>1, <1>2, <1>3, <2>1
<1>5. s \o t = u
  BY <1>1, <1>2, <1>3, <1>4, SeqEqual
<1> QED
  BY <1>5 DEF s, t, u

\* or three more.
LEMMA QuadrupleIs ==
  ASSUME NEW S, NEW x \in S, NEW y \in S, NEW z \in S, NEW w \in S
  PROVE  <<x>> \o <<y, z, w>> = <<x, y, z, w>>
<1> DEFINE s == <<x>>  t == <<y, z, w>>  u == <<x, y, z, w>>
<1>1. /\ s \in Seq(S) /\ Len(s) = 1 /\ s[1] = x
      /\ t \in Seq(S) /\ Len(t) = 3 /\ t[1] = y /\ t[2] = z /\ t[3] = w
      /\ u \in Seq(S) /\ Len(u) = 4 /\ u[1] = x /\ u[2] = y /\ u[3] = z /\ u[4] = w
  OBVIOUS
<1> HIDE DEF s, t, u
<1>2. Len(s) + Len(t) = 4
  BY <1>1
<1>3. /\ s \o t \in Seq(S) /\ Len(s \o t) = Len(s) + Len(t)
      /\ \A i \in 1 .. Len(s) + Len(t) : (s \o t)[i] = IF i <= Len(s) THEN s[i] ELSE t[i - Len(s)]
  BY <1>1, ConcatProperties, Zenon
<1>4. \A i \in 1 .. 4 : (s \o t)[i] = u[i]
  <2> TAKE i \in 1 .. 4
  <2>1. \/ i = 1 \/ (i = 2 /\ i - 1 = 1 /\ ~(i <= 1))
        \/ (i = 3 /\ i - 1 = 2 /\ ~(i <= 1)) \/ (i = 4 /\ i - 1 = 3 /\ ~(i <= 1))
    OBVIOUS
  <2> QED
    BY <1>1, <1>2, <1>3, <2>1
<1>5. s \o t = u
  BY <1>1, <1>2, <1>3, <1>4, SeqEqual
<1> QED
  BY <1>5 DEF s, t, u

\* at an insertion,
LEMMA AppendWrites ==
  ASSUME WriteInv, status = "write", FlattenTyped', process_append, edits' = edits
  PROVE  WriteInv'
<1> DEFINE open == Token("open", This.key, Empty)
           value == Token("value", This.key, This.value)
           close == Token("close", This.key, Empty)
           held == held_token[curstate]
           s == state[curstate]
<1>1. /\ curstate \in DOMAIN edits /\ This.op = "append"
      /\ UNCHANGED <<edits, status, pos, out>>
  BY DEF process_append, At, This
<1>2. /\ edits \in Seq(Edits) /\ This \in Edits
      /\ carrier \in TextToken \cup {NoToken, EOF}
      /\ carrier # NoToken => s = "idle"
      /\ DOMAIN state = DOMAIN edits /\ DOMAIN held_token = DOMAIN edits
      /\ NoToken \notin TextToken /\ EOF \notin TextToken /\ EOF # NoToken
      /\ \A t \in TextToken : Given(t) = <<t>>
      /\ Given(NoToken) = <<>> /\ Given(EOF) = <<>>
  BY <1>1, AtEdit
<1>3. /\ s \in {"idle", "open", "value", "close"}
      /\ s # "idle" => held \in TextToken
  <2>1. /\ state[curstate] \in {"idle", "opened", "open", "value", "close"}
        /\ edits[curstate].op = "append" => state[curstate] # "opened"
    BY <1>1 DEF WriteInv, FlattenTyped, FlattenInv
  <2>2. state[curstate] # "idle" => held_token[curstate] \in TextToken
    BY <1>1 DEF WriteInv, This
  <2> QED
    BY <1>1, <2>1, <2>2 DEF This
<1>4. /\ \A h : /\ Pending(This, "idle", h) = <<>>
                /\ Pending(This, "open", h) = <<value, close, h>>
                /\ Pending(This, "value", h) = <<close, h>>
                /\ Pending(This, "close", h) = <<h>>
      /\ open \in TextToken /\ value \in TextToken /\ close \in TextToken
  BY <1>2, PendingIs, TokenMade DEF Edits
<1>5. EOF.type \notin {"open", "close", "value"}
  BY TokenAssumption
<1> HIDE DEF open, value, close
<1>6. \A t \in TextToken :
         /\ <<t>> \o <<>> = <<t>> /\ <<close>> \o <<t>> = <<close, t>>
         /\ <<value>> \o <<close, t>> = <<value, close, t>>
         /\ <<open>> \o <<value, close, t>> = <<open, value, close, t>>
  <2> TAKE t \in TextToken
  <2>1. <<t>> \o <<>> = <<t>> /\ <<close>> \o <<t>> = <<close, t>>
    BY <1>4, PairIs
  <2>2. <<value>> \o <<close, t>> = <<value, close, t>>
    BY <1>4, TripleIs
  <2>3. <<open>> \o <<value, close, t>> = <<open, value, close, t>>
    BY <1>4, QuadrupleIs
  <2> QED
    BY <2>1, <2>2, <2>3
<1>7. <<>> \o <<>> = <<>>
  OBVIOUS
<1> DEFINE Right(to) ==
        /\ Move(to) /\ to \in TextToken \cup {NoToken, EOF}
        /\ \A j \in DOMAIN edits : j # curstate =>
              state'[j] = state[j] /\ held_token'[j] = held_token[j]
        /\ to = NoToken => state'[curstate] = "idle"
        /\ to = EOF => carrier = EOF /\ state'[curstate] = "idle"
        /\ state'[curstate] # "idle" => held_token'[curstate] \in TextToken
        /\ Given(to) \o Pending(This, state'[curstate], held_token'[curstate])
              = IF carrier \in TextToken THEN Sends(This, carrier)
                ELSE Pending(This, state[curstate], held_token[curstate])
<1>8. ASSUME NEW to, Right(to) PROVE WriteInv'
  BY <1>1, <1>8, EditMoves
<1>9. CASE Triggers /\ Trigger
  <2>1. carrier \in TextToken /\ s = "idle"
    BY <1>2, <1>5, <1>9 DEF Triggers, Is
  <2>2. Sends(This, carrier) = <<open, value, close, carrier>>
    BY <1>1, <1>9 DEF Triggers, Is, Sends, open, value, close
  <2>3. /\ held_token' = [held_token EXCEPT ![curstate] = carrier]
        /\ state' = [state EXCEPT ![curstate] = "open"] /\ Move(open)
    BY <1>9 DEF Trigger, Become, open
  <2>4. /\ state'[curstate] = "open" /\ held_token'[curstate] = carrier
        /\ \A j \in DOMAIN edits : j # curstate =>
              state'[j] = state[j] /\ held_token'[j] = held_token[j]
    BY <1>1, <1>2, <2>3
  <2>5. Given(open) \o Pending(This, state'[curstate], held_token'[curstate])
          = <<open, value, close, carrier>>
    BY <1>2, <1>4, <1>6, <2>1, <2>4
  <2>6. Right(open)
    BY <1>2, <1>4, <2>1, <2>2, <2>3, <2>4, <2>5
  <2> HIDE DEF Right
  <2> QED
    BY <1>8, <2>6
<1>10. CASE ~Triggers /\ carrier # NoToken /\ Move(carrier) /\ UNCHANGED <<state, held_token>>
  <2>1. s = "idle"
    BY <1>2, <1>10
  <2>2. Given(carrier) \o <<>>
          = IF carrier \in TextToken THEN Sends(This, carrier) ELSE <<>>
    <3>1. CASE carrier \in TextToken
      <4>1. Sends(This, carrier) = <<carrier>>
        BY <1>1, <1>2, <1>10, <3>1 DEF Triggers, Is, Sends
      <4> QED
        BY <1>2, <1>6, <3>1, <4>1
    <3>2. CASE carrier \in {NoToken, EOF}
      BY <1>2, <1>7, <3>2
    <3> QED
      BY <1>2, <3>1, <3>2
  <2>3. /\ Pending(This, state[curstate], held_token[curstate]) = <<>>
        /\ Pending(This, state'[curstate], held_token'[curstate]) = <<>>
    BY <1>4, <1>10, <2>1
  <2>4. Right(carrier)
    BY <1>2, <1>10, <2>1, <2>2, <2>3
  <2> HIDE DEF Right
  <2> QED
    BY <1>8, <2>4
<1>11. CASE carrier = NoToken /\ UNCHANGED held_token
  <2>1. carrier \notin TextToken
    BY <1>2, <1>11
  <2>2. held_token'[curstate] = held
    BY <1>11
  <2>3. ASSUME NEW n, Become(n)
        PROVE  state'[curstate] = n /\ \A j \in DOMAIN edits : j # curstate => state'[j] = state[j]
    BY <1>1, <1>2, <2>3 DEF Become
  <2>4. CASE s = "idle" /\ Move(NoToken) /\ UNCHANGED state
    <3>1. /\ Pending(This, state[curstate], held_token[curstate]) = <<>>
          /\ Pending(This, state'[curstate], held_token'[curstate]) = <<>>
      BY <1>4, <2>4
    <3>2. Right(NoToken)
      BY <1>2, <1>7, <1>11, <2>1, <2>4, <3>1
    <3> HIDE DEF Right
    <3> QED
      BY <1>8, <3>2
  <2>5. ASSUME NEW n \in {"idle", "value", "close"}, NEW to \in TextToken,
               s # "idle", Become(n), Move(to),
               <<to>> \o Pending(This, n, held) = Pending(This, s, held)
        PROVE  WriteInv'
    <3>1. Right(to)
      BY <1>2, <1>3, <1>11, <2>1, <2>2, <2>3, <2>5
    <3> HIDE DEF Right
    <3> QED
      BY <1>8, <3>1
  <2>6. CASE s = "open" /\ Become("value") /\ Move(value)
    <3>1. <<value>> \o Pending(This, "value", held) = Pending(This, s, held)
      BY <1>3, <1>4, <1>6, <2>6
    <3> QED
      BY <1>4, <2>5, <2>6, <3>1
  <2>7. CASE s = "value" /\ Become("close") /\ Move(close)
    <3>1. <<close>> \o Pending(This, "close", held) = Pending(This, s, held)
      BY <1>3, <1>4, <1>6, <2>7
    <3> QED
      BY <1>4, <2>5, <2>7, <3>1
  <2>8. CASE s = "close" /\ Become("idle") /\ Move(held)
    <3>1. <<held>> \o Pending(This, "idle", held) = Pending(This, s, held)
      BY <1>3, <1>4, <1>6, <2>8
    <3> QED
      BY <1>3, <2>5, <2>8, <3>1
  <2>9. \/ s = "idle" /\ Move(NoToken) /\ UNCHANGED state
        \/ s = "open" /\ Become("value") /\ Move(value)
        \/ s = "value" /\ Become("close") /\ Move(close)
        \/ s = "close" /\ Become("idle") /\ Move(held)
    BY <1>3, <1>11 DEF process_append, Triggers, Is, value, close
  <2> QED
    BY <2>4, <2>6, <2>7, <2>8, <2>9
<1> HIDE DEF Right
<1> QED
  BY <1>9, <1>10, <1>11 DEF process_append

\* One more token of a text.
LEMMA PrefixNext ==
  ASSUME NEW S, NEW s \in Seq(S), NEW n \in Nat, n + 1 \in 1 .. Len(s)
  PROVE  SubSeq(s, 1, n + 1) = SubSeq(s, 1, n) \o <<s[n + 1]>>
<1> DEFINE a == SubSeq(s, 1, n)  b == SubSeq(s, 1, n + 1)  t == <<s[n + 1]>>
<1>1. s[n + 1] \in S /\ n <= Len(s) /\ n + 1 <= Len(s) /\ n + 1 \in Nat
  OBVIOUS
<1>2. a \in Seq(S) /\ Len(a) = n /\ \A i \in 1 .. n : a[i] = s[i]
  BY <1>1
<1>3. b \in Seq(S) /\ Len(b) = n + 1 /\ \A i \in 1 .. n + 1 : b[i] = s[i]
  <2> DEFINE m == n + 1
  <2>1. m \in Nat /\ m <= Len(s)
    BY <1>1
  <2> HIDE DEF m
  <2>2. /\ SubSeq(s, 1, m) \in Seq(S) /\ Len(SubSeq(s, 1, m)) = m
        /\ \A i \in 1 .. m : SubSeq(s, 1, m)[i] = s[i]
    BY <2>1
  <2> QED
    BY <2>2 DEF m
<1>4. t \in Seq(S) /\ Len(t) = 1 /\ t[1] = s[n + 1]
  BY <1>1
<1> HIDE DEF a, b, t
<1>5. Len(a) + Len(t) = n + 1
  BY <1>2, <1>4
<1>6. /\ a \o t \in Seq(S) /\ Len(a \o t) = Len(a) + Len(t)
      /\ \A i \in 1 .. Len(a) + Len(t) : (a \o t)[i] = IF i <= Len(a) THEN a[i] ELSE t[i - Len(a)]
  BY <1>2, <1>4, ConcatProperties, Zenon
<1>7. \A i \in 1 .. n + 1 : b[i] = (a \o t)[i]
  <2> TAKE i \in 1 .. n + 1
  <2>1. i \in 1 .. n \/ (i = n + 1 /\ i - n = 1 /\ ~(i <= n))
    OBVIOUS
  <2> QED
    BY <1>2, <1>3, <1>4, <1>5, <1>6, <2>1
<1>8. b = a \o t
  BY <1>3, <1>5, <1>6, <1>7, SeqEqual
<1> QED
  BY <1>8 DEF a, b, t

\* at the writer,
LEMMA WriterWrites ==
  ASSUME WriteInv, status = "write", FlattenTyped', write_token, edits' = edits
  PROVE  WriteInv'
<1>1. /\ edits \in Seq(Edits) /\ carrier \in Tokens /\ Steps(edits) /\ Waiting /\ curstate = 0
      /\ carrier = EOF => pos = Len(Source)
      /\ \A i \in DOMAIN edits :
            edits[i].op = "append" /\ state[i] # "idle" => held_token[i] \in TextToken
      /\ Streams(edits, 0, carrier, pos, state, held_token, out)
  BY DEF WriteInv, FlattenTyped, FlattenInv, TypeOK, write_token
<1>2. /\ carrier \in TextToken \cup {NoToken, EOF} /\ NoToken # EOF
      /\ out \in Seq(Tokens)
  BY <1>1, TokenUnderWay, TokenAssumption DEF WriteInv, FlattenTyped, FlattenInv
<1>3. CASE carrier = EOF
  <2>1. status' = "written" /\ out' = out
    BY <1>3 DEF write_token, Stop
  <2>2. \A i \in DOMAIN edits : state[i] = "idle"
    BY <1>1, <1>3 DEF Waiting
  <2>3. Streams(edits, 0, EOF, Len(Source), state, held_token, out)
    BY <1>1, <1>3
  <2>4. Finished(edits, out)
    BY <1>1, <2>2, <2>3, StreamEnds
  <2>5. Finished(edits', out')
    BY <2>1, <2>4
  <2> QED
    BY <1>1, <2>1, <2>5 DEF WriteInv
<1>4. CASE carrier # EOF
  <2>1. /\ out' = IF carrier = NoToken THEN out ELSE Append(out, carrier)
        /\ carrier' = NoToken /\ curstate' = 1
        /\ UNCHANGED <<status, pos, state, held_token>>
    BY <1>1, <1>4 DEF write_token, Move
  <2>2. Streams(edits, 1, NoToken, pos, state, held_token, out \o Given(carrier))
    BY <1>1, <1>2, StreamWritten
  <2>3. out' = out \o Given(carrier)
    <3>1. ASSUME NEW S, NEW s \in Seq(S), NEW t \in S PROVE s \o <<t>> = Append(s, t) /\ s \o <<>> = s
      OBVIOUS
    <3> HIDE DEF Tokens
    <3>2. out \o <<carrier>> = Append(out, carrier) /\ out \o <<>> = out
      BY <1>1, <1>2, <3>1
    <3> QED
      BY <1>4, <2>1, <3>2 DEF Given
  <2>4. Streams(edits', curstate', carrier', pos', state', held_token', out')
    BY <2>1, <2>2, <2>3
  <2>5. Waiting'
    <3> SUFFICES ASSUME NEW i \in DOMAIN edits,
                        i < 1 \/ (i = 1 /\ NoToken # NoToken) \/ NoToken = EOF
                 PROVE  state'[i] = "idle"
      BY <2>1 DEF Waiting
    <3>1. i \in Nat /\ i >= 1
      BY <1>1
    <3> QED
      BY <1>2, <3>1
  <2>6. status' = "write" /\ carrier' # EOF
    BY <1>2, <2>1
  <2> QED
    BY <1>1, <2>1, <2>4, <2>5, <2>6 DEF WriteInv
<1> QED
  BY <1>3, <1>4

\* and at the text.
LEMMA TextWrites ==
  ASSUME WriteInv, status = "write", FlattenTyped', xml_tokenize, edits' = edits
  PROVE  WriteInv'
<1>1. /\ edits \in Seq(Edits) /\ carrier \in Tokens /\ Steps(edits) /\ Waiting
      /\ curstate = Len(edits) + 1 /\ pos \in 0 .. Len(Source)
      /\ \A i \in DOMAIN edits :
            edits[i].op = "append" /\ state[i] # "idle" => held_token[i] \in TextToken
      /\ Streams(edits, Len(edits) + 1, carrier, pos, state, held_token, out)
  BY DEF WriteInv, FlattenTyped, FlattenInv, TypeOK, xml_tokenize, Top
<1>2. carrier \in TextToken \cup {NoToken, EOF}
  BY <1>1, TokenUnderWay
<1>3. UNCHANGED <<status, state, held_token, out>>
  BY DEF xml_tokenize
<1>4. \A i \in DOMAIN edits : state[i] = "idle"
  <2> TAKE i \in DOMAIN edits
  <2>1. i < Len(edits) + 1
    BY <1>1
  <2> QED
    BY <1>1, <2>1 DEF Waiting
<1>5. ASSUME NEW to, to # NoToken, Move(to), to = EOF => pos' = Len(Source),
             SubSeq(Source, 1, pos') = SubSeq(Source, 1, pos) \o Given(to)
      PROVE  WriteInv'
  <2>1. carrier' = to /\ curstate' = Len(edits)
    BY <1>1, <1>5 DEF Move
  <2>2. Streams(edits, Len(edits), to, pos', state, held_token, out)
    <3> DEFINE q == pos'  p == pos
    <3>1. SubSeq(Source, 1, q) = SubSeq(Source, 1, p) \o Given(to)
      BY <1>5
    <3>2. Streams(edits, Len(edits) + 1, carrier, p, state, held_token, out)
      BY <1>1
    <3> HIDE DEF p, q
    <3>3. Streams(edits, Len(edits), to, q, state, held_token, out)
      BY <1>1, <1>2, <1>5, <3>1, <3>2, StreamRead
    <3> QED
      BY <3>3 DEF q
  <2>3. Streams(edits', curstate', carrier', pos', state', held_token', out')
    BY <1>3, <2>1, <2>2
  <2>4. Waiting'
    BY <1>3, <1>4 DEF Waiting
  <2>5. status' = "write"
    BY <1>3
  <2> QED
    BY <1>1, <1>3, <1>5, <2>1, <2>3, <2>4, <2>5 DEF WriteInv
<1>6. CASE pos = Len(Source)
  <2>1. Move(EOF) /\ pos' = pos
    BY <1>6 DEF xml_tokenize
  <2>2. EOF # NoToken /\ Given(EOF) = <<>>
    BY TokenAssumption, GivenIs
  <2>3. SubSeq(Source, 1, pos) \o <<>> = SubSeq(Source, 1, pos)
    <3>1. SubSeq(Source, 1, pos) = Source
      BY <1>6, SourceType
    <3>2. Source \o <<>> = Source
      BY SourceType
    <3> QED
      BY <3>1, <3>2
  <2> QED
    BY <1>5, <1>6, <2>1, <2>2, <2>3
<1>7. CASE pos # Len(Source)
  <2> DEFINE t == Source[pos + 1]
  <2>1. Move(t) /\ pos' = pos + 1
    BY <1>7 DEF xml_tokenize
  <2>2. pos \in Nat /\ pos + 1 \in 1 .. Len(Source) /\ pos + 1 \in DOMAIN Source
    <3>1. ASSUME NEW n \in Nat, NEW p \in 0 .. n, p # n PROVE p \in Nat /\ p + 1 \in 1 .. n
      BY <3>1
    <3>2. Len(Source) \in Nat /\ pos \in 0 .. Len(Source) /\ pos # Len(Source)
      BY <1>1, <1>7, SourceType
    <3>3. pos \in Nat /\ pos + 1 \in 1 .. Len(Source)
      BY <3>1, <3>2
    <3> QED
      BY <3>3, SourceType
  <2>3. t \in TextToken
    BY <2>2, SourceType
  <2>4. SubSeq(Source, 1, pos + 1) = SubSeq(Source, 1, pos) \o <<t>>
    BY <2>2, SourceType, PrefixNext
  <2>5. t # NoToken /\ t # EOF
    <3>1. t.type \in {"open", "close", "value"}
      BY <2>3, TokenIs
    <3> QED
      BY <2>3, <3>1, TokenAssumption
  <2>6. Given(t) = <<t>>
    BY <2>5 DEF Given
  <2> HIDE DEF t
  <2> QED
    BY <1>5, <2>1, <2>4, <2>5, <2>6
<1> QED
  BY <1>6, <1>7

\* Every step keeps the streams.
LEMMA WriteStep == ASSUME TagsApart, WriteInv, [FNext]_vars PROVE WriteInv'
<1>1. FlattenTyped' /\ edits \in Seq(Edits) /\ Steps(edits)
  BY FlattenStep DEF WriteInv, FlattenTyped
<1>2. CASE Editing
  <2>1. Steps(edits')
    BY <1>1, <1>2, ChangeSteps DEF Editing
  <2> QED
    BY <1>1, <1>2, <2>1 DEF Editing, WriteInv
<1>3. CASE make_editstates
  <2>1. /\ edits' = edits /\ status' = "write" /\ curstate' = 0 /\ carrier' = NoToken /\ pos' = 0
        /\ state' = Idle(edits) /\ out' = <<>>
    BY <1>3 DEF make_editstates
  <2>2. \A i \in DOMAIN edits : state'[i] = "idle"
    BY <2>1 DEF Idle
  <2>3. Streams(edits, 0, NoToken, 0, state', held_token', <<>>)
    <3> DEFINE st == state'  held == held_token'
    <3>1. \A i \in DOMAIN edits : st[i] = "idle"
      BY <2>2
    <3> HIDE DEF st, held
    <3>2. Streams(edits, 0, NoToken, 0, st, held, <<>>)
      BY <1>1, <3>1, StreamBegins
    <3> QED
      BY <3>2 DEF st, held
  <2>4. Streams(edits', curstate', carrier', pos', state', held_token', out')
    BY <2>1, <2>3
  <2>5. Waiting' /\ NoToken # EOF
    BY <2>1, <2>2, TokenAssumption DEF Waiting
  <2> QED
    BY <1>1, <2>1, <2>2, <2>4, <2>5 DEF WriteInv
<1>4. CASE process_token
  <2>1. status = "write" /\ edits' = edits
    BY <1>4 DEF process_token
  <2> QED
    BY <1>1, <1>4, <2>1, WriterWrites, TextWrites, DeleteWrites, SetWrites, AppendWrites
       DEF process_token
<1>5. CASE Failing
  <2>1. edits' = edits /\ status' = "failed"
    BY <1>5 DEF Failing, write_fails, Stop
  <2> QED
    BY <1>1, <2>1 DEF WriteInv
<1>6. CASE UNCHANGED vars
  BY <1>1, <1>6 DEF vars, writer, WriteInv, Waiting
<1> QED
  BY <1>2, <1>3, <1>4, <1>5, <1>6 DEF FNext

\* At the beginning no edit has been made.
LEMMA WriteInit == FInit => WriteInv
<1> SUFFICES ASSUME FInit PROVE WriteInv
  OBVIOUS
<1>1. edits = <<>> /\ status = "edit" /\ FlattenTyped
  BY FlattenInit DEF FInit, Init
<1>2. Steps(edits)
  BY <1>1, StepsNone
<1> QED
  BY <1>1, <1>2 DEF WriteInv

\* After any edits, in any order, which may have failed halfway, the text that
\* mxml_write leaves is a well formed text of the very document that mxml_get
\* shows, if the text that was parsed has no text of an element behind another
\* element in it and no element was appended at the top (mxml_flatten.c:13-41).
THEOREM WrittenCorrect ==
  ASSUME TagsApart, Unmixed(Source) PROVE FSpec => []WrittenIsDocument
<1>1. WriteInv /\ [FNext]_vars => WriteInv'
  BY WriteStep
<1>2. WriteInv => WrittenIsDocument
  BY FinishedWritten DEF WriteInv
<1> QED
  BY <1>1, <1>2, WriteInit, PTL DEF FSpec

\* Every element is found in the text that was written, with its value, and
\* nothing else is, whatever is in the cache (mxml_find.c:20-24).
THEOREM FoundCorrect ==
  ASSUME TagsApart, Unmixed(Source) PROVE FSpec => []FoundIsDocument
<1>1. WriteInv /\ [FNext]_vars => WriteInv'
  BY WriteStep
<1>2. WriteInv => FoundIsDocument
  BY FinishedWritten DEF WriteInv
<1> QED
  BY <1>1, <1>2, WriteInit, PTL DEF FSpec
=============================================================================
