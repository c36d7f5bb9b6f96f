---------------------------- MODULE SequenceLemmas ----------------------------
(***************************************************************************)
(* What the operators on sequences return, for sequences whose elements    *)
(* are of no set in particular.                                            *)
(***************************************************************************)
EXTENDS Sequencing, Integers, SequencesExt, SequenceTheorems, TLAPS

\* A sequence is a sequence of its own elements.
LEMMA SeqOfElements ==
  ASSUME NEW s, IsSeq(s)
  PROVE  /\ Len(s) \in Nat
         /\ DOMAIN s = 1 .. Len(s)
         /\ s \in Seq({s[i] : i \in 1 .. Len(s)})
<1> DEFINE S == {s[i] : i \in 1 .. Len(s)}
<1>1. Len(s) \in Nat /\ s = [i \in 1 .. Len(s) |-> s[i]]
  BY DEF IsSeq
<1>2. [i \in 1 .. Len(s) |-> s[i]] \in [1 .. Len(s) -> S]
  OBVIOUS
<1>3. s \in [1 .. Len(s) -> S] /\ DOMAIN s = 1 .. Len(s)
  BY <1>1, <1>2
<1>4. s \in UNION {[1 .. n -> S] : n \in Nat}
  BY <1>1, <1>3
<1> QED BY <1>1, <1>3, <1>4, SeqDef

LEMMA SeqIsSeq ==
  ASSUME NEW S, NEW s \in Seq(S)
  PROVE  IsSeq(s)
BY LenProperties DEF IsSeq

\* A function on 1 .. n is one.
LEMMA IsSeqOf ==
  ASSUME NEW s, NEW n \in Nat, DOMAIN s = 1 .. n, s = [i \in DOMAIN s |-> s[i]]
  PROVE  IsSeq(s) /\ Len(s) = n
<1> DEFINE S == {s[i] : i \in 1 .. n}
<1>1. s \in [1 .. n -> S]
  OBVIOUS
<1> HIDE DEF S
<1>2. s \in Seq(S) /\ Len(s) = n
  BY <1>1, IsASeq, LenProperties, SeqDef
<1> QED BY <1>2, SeqIsSeq

LEMMA EmptySeqOf ==
  ASSUME NEW s, IsSeq(s), Len(s) = 0 PROVE s = <<>>
<1>1. s \in Seq({s[i] : i \in 1 .. Len(s)})
  BY SeqOfElements
<1> HIDE DEF IsSeq
<1> QED BY <1>1, EmptySeq

LEMMA AppendToSeq ==
  ASSUME NEW s, NEW e, IsSeq(s)
  PROVE  /\ IsSeq(Append(s, e))
         /\ Len(Append(s, e)) = Len(s) + 1
         /\ \A i \in 1 .. Len(s) : Append(s, e)[i] = s[i]
         /\ Append(s, e)[Len(s) + 1] = e
<1> DEFINE S == {s[i] : i \in 1 .. Len(s)} \cup {e}
<1>1. s \in Seq(S)
  <2>1. s \in Seq({s[i] : i \in 1 .. Len(s)})
    BY SeqOfElements
  <2>2. {s[i] : i \in 1 .. Len(s)} \subseteq S
    OBVIOUS
  <2> HIDE DEF S
  <2> QED BY <2>1, <2>2, SeqMonotonic
<1>2. e \in S
  OBVIOUS
<1> HIDE DEF S
<1>3. Len(s) \in Nat
  BY SeqOfElements
<1>4. /\ Append(s, e) \in Seq(S)
      /\ Len(Append(s, e)) = Len(s) + 1
      /\ \A i \in 1 .. Len(s) : Append(s, e)[i] = s[i]
      /\ Append(s, e)[Len(s) + 1] = e
  BY <1>1, <1>2, AppendProperties
<1>5. IsSeq(Append(s, e))
  BY <1>4, SeqIsSeq
<1> QED BY <1>4, <1>5

LEMMA ConcatOfSeqs ==
  ASSUME NEW s, NEW t, IsSeq(s), IsSeq(t)
  PROVE  /\ IsSeq(s \o t) /\ Len(s \o t) = Len(s) + Len(t)
         /\ \A i \in 1 .. Len(s) : (s \o t)[i] = s[i]
         /\ \A i \in 1 .. Len(t) : (s \o t)[Len(s) + i] = t[i]
<1> DEFINE S == {s[i] : i \in 1 .. Len(s)}
           T == {t[i] : i \in 1 .. Len(t)}
<1>1. s \in Seq(S) /\ t \in Seq(T) /\ Len(s) \in Nat /\ Len(t) \in Nat
  BY SeqOfElements
<1>2. S \subseteq S \cup T /\ T \subseteq S \cup T
  OBVIOUS
<1> HIDE DEF S, T
<1>3. s \in Seq(S \cup T) /\ t \in Seq(S \cup T)
  BY <1>1, <1>2, SeqMonotonic
<1>4. /\ s \o t \in Seq(S \cup T) /\ Len(s \o t) = Len(s) + Len(t)
      /\ \A i \in 1 .. Len(s) + Len(t) :
           (s \o t)[i] = IF i <= Len(s) THEN s[i] ELSE t[i - Len(s)]
  BY <1>3, ConcatProperties
<1>5. \A i \in 1 .. Len(t) : (s \o t)[Len(s) + i] = t[i]
  <2> SUFFICES ASSUME NEW i \in 1 .. Len(t) PROVE (s \o t)[Len(s) + i] = t[i]
    OBVIOUS
  <2>1. /\ Len(s) + i \in 1 .. Len(s) + Len(t) /\ ~(Len(s) + i <= Len(s))
        /\ Len(s) + i - Len(s) = i
    BY <1>1
  <2> QED BY <1>4, <2>1
<1>6. \A i \in 1 .. Len(s) : (s \o t)[i] = s[i]
  BY <1>1, <1>4
<1>7. IsSeq(s \o t)
  BY <1>4, SeqIsSeq
<1> QED BY <1>4, <1>5, <1>6, <1>7

LEMMA TailOfSeq ==
  ASSUME NEW s, IsSeq(s), s # <<>>
  PROVE  /\ Len(s) \in Nat \ {0} /\ Head(s) = s[1]
         /\ IsSeq(Tail(s)) /\ Len(Tail(s)) = Len(s) - 1
         /\ \A i \in 1 .. Len(s) - 1 : Tail(s)[i] = s[i + 1]
<1> DEFINE S == {s[i] : i \in 1 .. Len(s)}
<1>1. s \in Seq(S) /\ Len(s) \in Nat
  BY SeqOfElements
<1> HIDE DEF S
<1>2. /\ Head(s) = s[1] /\ Tail(s) \in Seq(S) /\ Len(Tail(s)) = Len(s) - 1
      /\ \A i \in 1 .. Len(Tail(s)) : Tail(s)[i] = s[i + 1]
  BY <1>1, HeadTailProperties
<1>3. Len(s) # 0
  BY <1>1, EmptySeq
<1> QED BY <1>1, <1>2, <1>3, SeqIsSeq

LEMMA RemoveAtFromSeq ==
  ASSUME NEW s, IsSeq(s), NEW i \in 1 .. Len(s)
  PROVE  /\ IsSeq(RemoveAt(s, i))
         /\ Len(RemoveAt(s, i)) = Len(s) - 1
         /\ \A j \in 1 .. Len(s) - 1 :
              RemoveAt(s, i)[j] = IF j < i THEN s[j] ELSE s[j + 1]
<1> DEFINE S    == {s[j] : j \in 1 .. Len(s)}
           head == SubSeq(s, 1, i - 1)
           tail == SubSeq(s, i + 1, Len(s))
<1>1. Len(s) \in Nat
  BY SeqOfElements
<1>2. /\ head \in Seq(S) /\ Len(head) = i - 1
      /\ \A j \in 1 .. i - 1 : head[j] = s[j]
  <2>1. \A j \in 1 .. i - 1 : s[j] \in S
    BY <1>1
  <2> HIDE DEF S
  <2> QED BY <1>1, <2>1, SubSeqProperties
<1>3. /\ tail \in Seq(S) /\ Len(tail) = Len(s) - i
      /\ \A j \in 1 .. Len(s) - i : tail[j] = s[i + j]
  <2>1. \A j \in i + 1 .. Len(s) : s[j] \in S
    BY <1>1
  <2> HIDE DEF S
  <2> QED BY <1>1, <2>1, SubSeqProperties
<1> HIDE DEF S, head, tail
<1>4. /\ head \o tail \in Seq(S) /\ Len(head \o tail) = Len(s) - 1
      /\ \A j \in 1 .. Len(s) - 1 :
           (head \o tail)[j] = IF j < i THEN s[j] ELSE s[j + 1]
  <2>1. /\ head \o tail \in Seq(S)
        /\ Len(head \o tail) = Len(head) + Len(tail)
        /\ \A j \in 1 .. Len(head) + Len(tail) :
             (head \o tail)[j] = IF j <= Len(head) THEN head[j] ELSE tail[j - Len(head)]
    BY <1>2, <1>3, ConcatProperties
  <2>2. Len(head) + Len(tail) = Len(s) - 1
    BY <1>1, <1>2, <1>3
  <2>3. ASSUME NEW j \in 1 .. Len(s) - 1
        PROVE  (head \o tail)[j] = IF j < i THEN s[j] ELSE s[j + 1]
    <3>1. (head \o tail)[j] = IF j <= i - 1 THEN head[j] ELSE tail[j - (i - 1)]
      BY <1>2, <2>1, <2>2
    <3>2. CASE j <= i - 1
      <4>1. j \in 1 .. i - 1 /\ j < i
        BY <1>1, <3>2
      <4> QED BY <3>1, <3>2, <4>1, <1>2
    <3>3. CASE ~(j <= i - 1)
      <4>1. j - (i - 1) \in 1 .. Len(s) - i /\ i + (j - (i - 1)) = j + 1 /\ ~(j < i)
        BY <1>1, <3>3
      <4> QED BY <3>1, <3>3, <4>1, <1>3
    <3> QED BY <3>2, <3>3
  <2> QED BY <2>1, <2>2, <2>3
<1> QED BY <1>4, SeqIsSeq DEF RemoveAt, head, tail

LEMMA FrontOfSeq ==
  ASSUME NEW s, IsSeq(s), s # <<>>
  PROVE  /\ Len(s) \in Nat \ {0}
         /\ IsSeq(Front(s)) /\ Len(Front(s)) = Len(s) - 1
         /\ DOMAIN Front(s) = 1 .. Len(s) - 1
         /\ \A i \in 1 .. Len(s) - 1 : Front(s)[i] = s[i]
<1> DEFINE S == {s[i] : i \in 1 .. Len(s)}
<1>1. s \in Seq(S) /\ Len(s) \in Nat
  BY SeqOfElements
<1>2. \A i \in 1 .. Len(s) - 1 : s[i] \in S
  BY <1>1
<1> HIDE DEF S
<1>3. Len(s) \in Nat \ {0}
  BY <1>1, EmptySeq
<1>4. /\ Front(s) \in Seq(S) /\ Len(Front(s)) = Len(s) - 1
      /\ \A i \in 1 .. Len(s) - 1 : Front(s)[i] = s[i]
  <2> DEFINE n == Len(s) - 1
  <2>1. n \in Nat /\ 1 \in Int
    BY <1>3
  <2> HIDE DEF n
  <2>2. /\ SubSeq(s, 1, n) \in Seq(S)
        /\ Len(SubSeq(s, 1, n)) = IF 1 <= n THEN n - 1 + 1 ELSE 0
        /\ \A i \in 1 .. n - 1 + 1 : SubSeq(s, 1, n)[i] = s[1 + i - 1]
    BY <1>2, <2>1, SubSeqProperties DEF n
  <2>3. Len(SubSeq(s, 1, n)) = n /\ \A i \in 1 .. n : SubSeq(s, 1, n)[i] = s[i]
    BY <2>1, <2>2
  <2> QED BY <2>2, <2>3 DEF Front, n
<1> QED BY <1>3, <1>4, LenProperties, SeqIsSeq

------------------------------------------------------------------------------
(* Heads of a sequence.                                                    *)

LEMMA HeadOf ==
  ASSUME NEW q, IsSeq(q), NEW n \in 0 .. Len(q)
  PROVE  /\ IsSeq(SubSeq(q, 1, n)) /\ Len(SubSeq(q, 1, n)) = n
         /\ \A i \in 1 .. n : SubSeq(q, 1, n)[i] = q[i]
<1> DEFINE S == {q[i] : i \in 1 .. Len(q)}
<1>1. q \in Seq(S) /\ Len(q) \in Nat /\ n \in Nat /\ n <= Len(q)
  BY SeqOfElements
<1>2. \A i \in 1 .. n : q[i] \in S
  BY <1>1
<1> HIDE DEF S
<1>3. /\ SubSeq(q, 1, n) \in Seq(S)
      /\ Len(SubSeq(q, 1, n)) = IF 1 <= n THEN n - 1 + 1 ELSE 0
      /\ \A i \in 1 .. n - 1 + 1 : SubSeq(q, 1, n)[i] = q[1 + i - 1]
  BY <1>1, <1>2, SubSeqProperties
<1>4. Len(SubSeq(q, 1, n)) = n /\ \A i \in 1 .. n : SubSeq(q, 1, n)[i] = q[i]
  BY <1>1, <1>3
<1> QED BY <1>3, <1>4, SeqIsSeq

LEMMA SameSeq ==
  ASSUME NEW p, NEW q, IsSeq(p), IsSeq(q), Len(p) = Len(q),
         \A i \in 1 .. Len(q) : p[i] = q[i]
  PROVE  p = q
BY DEF IsSeq

LEMMA SameInterval ==
  ASSUME NEW a \in Nat, NEW b \in Nat, 1 .. a = 1 .. b PROVE a = b
<1>1. CASE a < b
  <2>1. b \in 1 .. b /\ b \notin 1 .. a
    BY <1>1
  <2> QED BY <2>1
<1>2. CASE b < a
  <2>1. a \in 1 .. a /\ a \notin 1 .. b
    BY <1>2
  <2> QED BY <2>1
<1> QED BY <1>1, <1>2

LEMMA HeadOfHead ==
  ASSUME NEW q, IsSeq(q), NEW n \in 0 .. Len(q), NEW m \in 0 .. n
  PROVE  SubSeq(SubSeq(q, 1, n), 1, m) = SubSeq(q, 1, m)
<1> DEFINE h == SubSeq(q, 1, n)
<1>1. Len(q) \in Nat /\ m \in 0 .. Len(q)
  BY SeqOfElements
<1>2. IsSeq(h) /\ Len(h) = n /\ \A i \in 1 .. n : h[i] = q[i]
  BY HeadOf
<1> HIDE DEF h
<1>3. /\ IsSeq(SubSeq(h, 1, m)) /\ Len(SubSeq(h, 1, m)) = m
      /\ \A i \in 1 .. m : SubSeq(h, 1, m)[i] = h[i]
  BY <1>2, HeadOf
<1>4. /\ IsSeq(SubSeq(q, 1, m)) /\ Len(SubSeq(q, 1, m)) = m
      /\ \A i \in 1 .. m : SubSeq(q, 1, m)[i] = q[i]
  BY <1>1, HeadOf
<1>5. \A i \in 1 .. m : SubSeq(h, 1, m)[i] = SubSeq(q, 1, m)[i]
  BY <1>1, <1>2, <1>3, <1>4
<1>6. SubSeq(h, 1, m) = SubSeq(q, 1, m)
  BY <1>3, <1>4, <1>5, SameSeq
<1> QED BY <1>6 DEF h

LEMMA WholeHead ==
  ASSUME NEW q, IsSeq(q) PROVE SubSeq(q, 1, Len(q)) = q
<1>1. Len(q) \in 0 .. Len(q)
  BY SeqOfElements
<1> QED BY <1>1, HeadOf, SameSeq

\* A prefix is a head.
LEMMA PrefixIsHead ==
  ASSUME NEW p, NEW q, IsSeq(p), IsSeq(q)
  PROVE  IsPrefix(p, q) <=> Len(p) <= Len(q) /\ p = SubSeq(q, 1, Len(p))
BY WholeHead DEF IsPrefix

LEMMA PrefixOfPrefix ==
  ASSUME NEW p, NEW q, NEW r, IsSeq(p), IsSeq(q), IsSeq(r), IsPrefix(p, q), IsPrefix(q, r)
  PROVE  IsPrefix(p, r)
<1>1. /\ Len(p) <= Len(q) /\ p = SubSeq(q, 1, Len(p))
      /\ Len(q) <= Len(r) /\ q = SubSeq(r, 1, Len(q))
  BY PrefixIsHead
<1>2. Len(p) \in Nat /\ Len(q) \in Nat /\ Len(r) \in Nat
  BY SeqOfElements
<1>3. SubSeq(SubSeq(r, 1, Len(q)), 1, Len(p)) = SubSeq(r, 1, Len(p))
  BY <1>1, <1>2, HeadOfHead
<1> QED BY <1>1, <1>2, <1>3, PrefixIsHead

\* Of two prefixes of one sequence, one is a prefix of the other.
LEMMA TwoPrefixes ==
  ASSUME NEW p, NEW q, NEW r, IsSeq(p), IsSeq(q), IsSeq(r), IsPrefix(p, r), IsPrefix(q, r)
  PROVE  IsPrefix(p, q) \/ IsPrefix(q, p)
<1>1. /\ Len(p) <= Len(r) /\ p = SubSeq(r, 1, Len(p))
      /\ Len(q) <= Len(r) /\ q = SubSeq(r, 1, Len(q))
  BY PrefixIsHead
<1>2. Len(p) \in Nat /\ Len(q) \in Nat /\ Len(r) \in Nat
  BY SeqOfElements
<1>3. CASE Len(p) <= Len(q)
  <2>1. SubSeq(SubSeq(r, 1, Len(q)), 1, Len(p)) = SubSeq(r, 1, Len(p))
    BY <1>1, <1>2, <1>3, HeadOfHead
  <2> QED BY <1>1, <1>3, <2>1, PrefixIsHead
<1>4. CASE Len(q) <= Len(p)
  <2>1. SubSeq(SubSeq(r, 1, Len(p)), 1, Len(q)) = SubSeq(r, 1, Len(q))
    BY <1>1, <1>2, <1>4, HeadOfHead
  <2> QED BY <1>1, <1>4, <2>1, PrefixIsHead
<1> QED BY <1>2, <1>3, <1>4
==============================================================================
