--------------------------- MODULE FrameSequences ---------------------------
(***************************************************************************)
(* Lemmas for the proofs about EncoderLane and GstRecorder: the queues of  *)
(* both hold items with a slot and a frame, in the order of their frames.  *)
(***************************************************************************)
EXTENDS Integers, Sequences, SequenceTheorems, TLAPS

----------------------------------------------------------------------------
(* Sequences of things with a frame number: items and chunks.              *)

Elements(q) == {q[i] : i \in 1 .. Len(q)}
FramesIn(q) == {q[i].frame : i \in 1 .. Len(q)}
\* The frames rise along q.
Rising(q) == \A i, j \in 1 .. Len(q) : i < j => q[i].frame < q[j].frame
RisingNumbers(q) == \A i, j \in 1 .. Len(q) : i < j => q[i] < q[j]
\* Every member of A is less than every member of B.
Below(A, B) == \A a \in A, b \in B : a < b

(* Append puts its element behind the others. *)
LEMMA Appended ==
  ASSUME NEW T, NEW q \in Seq(T), NEW x \in T
  PROVE  /\ Append(q, x) \in Seq(T) /\ Len(Append(q, x)) = Len(q) + 1 /\ Len(q) \in Nat
         /\ \A i \in 1 .. Len(q) + 1 : Append(q, x)[i] = IF i = Len(q) + 1 THEN x ELSE q[i]
         /\ Elements(Append(q, x)) = Elements(q) \cup {x}
         /\ FramesIn(Append(q, x)) = FramesIn(q) \cup {x.frame}
<1> DEFINE n == Len(q)
           r == Append(q, x)
<1>1. /\ r \in Seq(T) /\ Len(r) = n + 1 /\ n \in Nat
      /\ \A i \in 1 .. n : r[i] = q[i]
      /\ r[n + 1] = x
  BY AppendProperties, LenProperties
<1>2. 1 .. n + 1 = (1 .. n) \cup {n + 1} /\ n + 1 \notin 1 .. n
  BY <1>1
<1>3. \A i \in 1 .. n + 1 : r[i] = IF i = n + 1 THEN x ELSE q[i]
  BY <1>1, <1>2
<1> HIDE DEF r, n
<1>4. {r[i] : i \in 1 .. n + 1} = {q[i] : i \in 1 .. n} \cup {x}
  BY <1>1, <1>2
<1>5. {r[i].frame : i \in 1 .. n + 1} = {q[i].frame : i \in 1 .. n} \cup {x.frame}
  BY <1>1, <1>2
<1> QED BY <1>1, <1>3, <1>4, <1>5 DEF n, r, Elements, FramesIn

(* Taking the head off. *)
LEMMA HeadTaken ==
  ASSUME NEW T, NEW q \in Seq(T), q # <<>>
  PROVE  /\ Head(q) \in T /\ Head(q) = q[1] /\ Tail(q) \in Seq(T)
         /\ Len(q) \in Nat /\ Len(q) >= 1 /\ Len(Tail(q)) = Len(q) - 1
         /\ \A i \in 1 .. Len(q) - 1 : Tail(q)[i] = q[i + 1]
         /\ Elements(q) = Elements(Tail(q)) \cup {Head(q)}
         /\ FramesIn(q) = FramesIn(Tail(q)) \cup {Head(q).frame}
<1> DEFINE n == Len(q)
           r == Tail(q)
           x == Head(q)
<1>1. /\ x \in T /\ x = q[1] /\ r \in Seq(T) /\ n \in Nat /\ n >= 1 /\ Len(r) = n - 1
      /\ \A i \in 1 .. n - 1 : r[i] = q[i + 1]
  <2>1. n \in Nat /\ n # 0
    BY EmptySeq, LenProperties
  <2> QED BY <2>1, HeadTailProperties
<1> HIDE DEF r, n, x
<1>2. \A i \in 1 .. n : i = 1 \/ (i - 1 \in 1 .. n - 1 /\ (i - 1) + 1 = i)
  BY <1>1
<1>3. \A i \in 1 .. n - 1 : i + 1 \in 1 .. n
  BY <1>1
<1>4. 1 \in 1 .. n
  BY <1>1
<1>5. {q[i] : i \in 1 .. n} = {r[i] : i \in 1 .. n - 1} \cup {x}
  <2>1. ASSUME NEW i \in 1 .. n
        PROVE  q[i] \in {r[j] : j \in 1 .. n - 1} \cup {x}
    <3>1. CASE i = 1
      BY <1>1, <3>1
    <3>2. CASE i # 1
      <4>1. i - 1 \in 1 .. n - 1 /\ r[i - 1] = q[i]
        BY <1>1, <1>2, <3>2
      <4> QED BY <4>1
    <3> QED BY <3>1, <3>2
  <2>2. \A i \in 1 .. n - 1 : r[i] \in {q[j] : j \in 1 .. n}
    BY <1>1, <1>3
  <2>3. x \in {q[j] : j \in 1 .. n}
    BY <1>1, <1>4
  <2> QED BY <2>1, <2>2, <2>3
<1>6. {q[i].frame : i \in 1 .. n} = {r[i].frame : i \in 1 .. n - 1} \cup {x.frame}
  <2>1. ASSUME NEW i \in 1 .. n
        PROVE  q[i].frame \in {r[j].frame : j \in 1 .. n - 1} \cup {x.frame}
    <3>1. CASE i = 1
      BY <1>1, <3>1
    <3>2. CASE i # 1
      <4>1. i - 1 \in 1 .. n - 1 /\ r[i - 1] = q[i]
        BY <1>1, <1>2, <3>2
      <4> QED BY <4>1
    <3> QED BY <3>1, <3>2
  <2>2. \A i \in 1 .. n - 1 : r[i].frame \in {q[j].frame : j \in 1 .. n}
    BY <1>1, <1>3
  <2>3. x.frame \in {q[j].frame : j \in 1 .. n}
    BY <1>1, <1>4
  <2> QED BY <2>1, <2>2, <2>3
<1> QED BY <1>1, <1>5, <1>6 DEF n, r, x, Elements, FramesIn

(* A sequence stays in order when a later frame is appended... *)
LEMMA RisingAppend ==
  ASSUME NEW T, NEW q \in Seq(T), NEW x \in T,
         Rising(q), Below(FramesIn(q), {x.frame})
  PROVE  Rising(Append(q, x))
<1> DEFINE n == Len(q)
           r == Append(q, x)
<1>1. n \in Nat /\ Len(r) = n + 1
      /\ \A i \in 1 .. n + 1 : r[i] = IF i = n + 1 THEN x ELSE q[i]
  BY Appended
<1>2. \A i \in 1 .. n : q[i].frame < x.frame
  BY DEF Below, FramesIn
<1> HIDE DEF n, r
<1> SUFFICES ASSUME NEW i \in 1 .. n + 1, NEW j \in 1 .. n + 1, i < j
             PROVE  r[i].frame < r[j].frame
  BY <1>1 DEF Rising, r
<1>3. i \in 1 .. n
  BY <1>1
<1>4. CASE j = n + 1
  BY <1>1, <1>2, <1>3, <1>4
<1>5. CASE j # n + 1
  <2>1. j \in 1 .. n
    BY <1>1, <1>5
  <2>2. q[i].frame < q[j].frame
    BY <1>3, <2>1 DEF Rising, n
  <2> QED BY <1>1, <1>3, <1>5, <2>1, <2>2
<1> QED BY <1>4, <1>5

(* ... and when its head is taken, which comes before the rest.            *)
LEMMA RisingTail ==
  ASSUME NEW T, NEW q \in Seq(T), q # <<>>, Rising(q)
  PROVE  Rising(Tail(q)) /\ Below({Head(q).frame}, FramesIn(Tail(q)))
<1> DEFINE n == Len(q)
           r == Tail(q)
           x == Head(q)
<1>1. /\ n \in Nat /\ n >= 1 /\ Len(r) = n - 1 /\ x = q[1]
      /\ \A i \in 1 .. n - 1 : r[i] = q[i + 1]
  BY HeadTaken
<1>2. \A i, j \in 1 .. n : i < j => q[i].frame < q[j].frame
  BY DEF Rising
<1> HIDE DEF n, r, x
<1>3. ASSUME NEW i \in 1 .. n - 1, NEW j \in 1 .. n - 1, i < j
      PROVE  r[i].frame < r[j].frame
  <2>1. i + 1 \in 1 .. n /\ j + 1 \in 1 .. n /\ i + 1 < j + 1
    BY <1>1, <1>3
  <2> QED BY <1>1, <1>2, <2>1
<1>4. ASSUME NEW i \in 1 .. n - 1
      PROVE  x.frame < r[i].frame
  <2>1. 1 \in 1 .. n /\ i + 1 \in 1 .. n /\ 1 < i + 1
    BY <1>1
  <2> QED BY <1>1, <1>2, <2>1
<1> QED BY <1>1, <1>3, <1>4 DEF Rising, Below, FramesIn, r, x

(* The same of numbers. *)
LEMMA RisingNumbersAppend ==
  ASSUME NEW q \in Seq(Nat), NEW x \in Nat, RisingNumbers(q), Below(Elements(q), {x})
  PROVE  RisingNumbers(Append(q, x))
<1> DEFINE n == Len(q)
           r == Append(q, x)
<1>1. n \in Nat /\ Len(r) = n + 1
      /\ \A i \in 1 .. n + 1 : r[i] = IF i = n + 1 THEN x ELSE q[i]
  BY Appended
<1>2. \A i \in 1 .. n : q[i] < x
  BY DEF Below, Elements
<1> HIDE DEF n, r
<1> SUFFICES ASSUME NEW i \in 1 .. n + 1, NEW j \in 1 .. n + 1, i < j
             PROVE  r[i] < r[j]
  BY <1>1 DEF RisingNumbers, r
<1>3. i \in 1 .. n
  BY <1>1
<1>4. CASE j = n + 1
  BY <1>1, <1>2, <1>3, <1>4
<1>5. CASE j # n + 1
  <2>1. j \in 1 .. n
    BY <1>1, <1>5
  <2>2. q[i] < q[j]
    BY <1>3, <2>1 DEF RisingNumbers, n
  <2> QED BY <1>1, <1>3, <1>5, <2>1, <2>2
<1> QED BY <1>4, <1>5

(* The same of numbers. *)
LEMMA RisingNumbersTail ==
  ASSUME NEW q \in Seq(Nat), q # <<>>, RisingNumbers(q)
  PROVE  RisingNumbers(Tail(q)) /\ Below({Head(q)}, Elements(Tail(q)))
<1> DEFINE n == Len(q)
           r == Tail(q)
           x == Head(q)
<1>1. /\ n \in Nat /\ n >= 1 /\ Len(r) = n - 1 /\ x = q[1]
      /\ \A i \in 1 .. n - 1 : r[i] = q[i + 1]
  BY HeadTaken
<1>2. \A i, j \in 1 .. n : i < j => q[i] < q[j]
  BY DEF RisingNumbers
<1> HIDE DEF n, r, x
<1>3. ASSUME NEW i \in 1 .. n - 1, NEW j \in 1 .. n - 1, i < j
      PROVE  r[i] < r[j]
  <2>1. i + 1 \in 1 .. n /\ j + 1 \in 1 .. n /\ i + 1 < j + 1
    BY <1>1, <1>3
  <2> QED BY <1>1, <1>2, <2>1
<1>4. ASSUME NEW i \in 1 .. n - 1
      PROVE  x < r[i]
  <2>1. 1 \in 1 .. n /\ i + 1 \in 1 .. n /\ 1 < i + 1
    BY <1>1
  <2> QED BY <1>1, <1>2, <2>1
<1> QED BY <1>1, <1>3, <1>4 DEF RisingNumbers, Below, Elements, r, x

----------------------------------------------------------------------------
(* Queues one behind the other, as in HeldSlots.                           *)

\* No frame occurs twice in q.
Distinct(q) == \A i, j \in 1 .. Len(q) : i # j => q[i].frame # q[j].frame

(* Frames in order are different frames. *)
LEMMA RisingDistinct ==
  ASSUME NEW T, NEW q \in Seq(T), \A x \in T : x.frame \in Nat, Rising(q)
  PROVE  Distinct(q)
<1> DEFINE n == Len(q)
<1>1. n \in Nat /\ \A i \in 1 .. n : q[i] \in T
  BY LenProperties, ElementOfSeq
<1>2. \A i, j \in 1 .. n : i < j => q[i].frame < q[j].frame
  BY DEF Rising
<1> HIDE DEF n
<1>3. ASSUME NEW i \in 1 .. n, NEW j \in 1 .. n, i # j
      PROVE  q[i].frame # q[j].frame
  <2>1. q[i].frame \in Nat /\ q[j].frame \in Nat
    BY <1>1
  <2>2. i < j \/ j < i
    BY <1>1, <1>3
  <2> QED BY <1>2, <2>1, <2>2
<1> QED BY <1>3 DEF Distinct, n

(* Two queues one behind the other. *)
LEMMA Joined ==
  ASSUME NEW T, NEW s \in Seq(T), NEW t \in Seq(T)
  PROVE  /\ s \o t \in Seq(T)
         /\ Elements(s \o t) = Elements(s) \cup Elements(t)
         /\ FramesIn(s \o t) = FramesIn(s) \cup FramesIn(t)
         /\ Distinct(s) /\ Distinct(t) /\ FramesIn(s) \cap FramesIn(t) = {} => Distinct(s \o t)
<1> DEFINE m == Len(s)
           n == Len(t)
           r == s \o t
<1>1. /\ r \in Seq(T) /\ m \in Nat /\ n \in Nat /\ Len(r) = m + n
      /\ \A i \in 1 .. m + n : r[i] = IF i <= m THEN s[i] ELSE t[i - m]
  BY ConcatProperties, LenProperties
<1> HIDE DEF m, n, r
<1>2. ASSUME NEW i \in 1 .. m + n
      PROVE  \/ i \in 1 .. m /\ r[i] = s[i]
             \/ i - m \in 1 .. n /\ r[i] = t[i - m]
  BY <1>1
<1>3. \A i \in 1 .. m : i \in 1 .. m + n /\ r[i] = s[i]
  BY <1>1
<1>4. ASSUME NEW i \in 1 .. n
      PROVE  m + i \in 1 .. m + n /\ r[m + i] = t[i]
  <2>1. m + i \in 1 .. m + n /\ ~ (m + i <= m) /\ (m + i) - m = i
    BY <1>1
  <2> QED BY <1>1, <2>1
<1>5. {r[i] : i \in 1 .. m + n} = {s[i] : i \in 1 .. m} \cup {t[i] : i \in 1 .. n}
  <2>1. \A i \in 1 .. m + n : r[i] \in {s[j] : j \in 1 .. m} \cup {t[j] : j \in 1 .. n}
    BY <1>2
  <2>2. \A i \in 1 .. m : s[i] \in {r[j] : j \in 1 .. m + n}
    BY <1>3
  <2>3. \A i \in 1 .. n : t[i] \in {r[j] : j \in 1 .. m + n}
    BY <1>4
  <2> QED BY <2>1, <2>2, <2>3
<1>6. {r[i].frame : i \in 1 .. m + n} =
        {s[i].frame : i \in 1 .. m} \cup {t[i].frame : i \in 1 .. n}
  <2>1. \A i \in 1 .. m + n :
          r[i].frame \in {s[j].frame : j \in 1 .. m} \cup {t[j].frame : j \in 1 .. n}
    BY <1>2
  <2>2. \A i \in 1 .. m : s[i].frame \in {r[j].frame : j \in 1 .. m + n}
    BY <1>3
  <2>3. \A i \in 1 .. n : t[i].frame \in {r[j].frame : j \in 1 .. m + n}
    BY <1>4
  <2> QED BY <2>1, <2>2, <2>3
<1>7. ASSUME Distinct(s), Distinct(t), FramesIn(s) \cap FramesIn(t) = {},
             NEW i \in 1 .. m + n, NEW j \in 1 .. m + n, i # j
      PROVE  r[i].frame # r[j].frame
  <2>1. \A k \in 1 .. m : s[k].frame \in FramesIn(s)
    BY DEF FramesIn, m
  <2>2. \A k \in 1 .. n : t[k].frame \in FramesIn(t)
    BY DEF FramesIn, n
  <2>3. \A k, l \in 1 .. m : k # l => s[k].frame # s[l].frame
    BY <1>7 DEF Distinct, m
  <2>4. \A k, l \in 1 .. n : k # l => t[k].frame # t[l].frame
    BY <1>7 DEF Distinct, n
  <2>5. CASE i \in 1 .. m /\ j \in 1 .. m
    BY <1>3, <1>7, <2>3, <2>5
  <2>6. CASE i \in 1 .. m /\ j \notin 1 .. m
    <3>1. j - m \in 1 .. n /\ r[j] = t[j - m] /\ r[i] = s[i]
      BY <1>2, <1>3, <2>6
    <3> QED BY <1>7, <2>1, <2>2, <2>6, <3>1
  <2>7. CASE i \notin 1 .. m /\ j \in 1 .. m
    <3>1. i - m \in 1 .. n /\ r[i] = t[i - m] /\ r[j] = s[j]
      BY <1>2, <1>3, <2>7
    <3> QED BY <1>7, <2>1, <2>2, <2>7, <3>1
  <2>8. CASE i \notin 1 .. m /\ j \notin 1 .. m
    <3>1. /\ i - m \in 1 .. n /\ r[i] = t[i - m]
          /\ j - m \in 1 .. n /\ r[j] = t[j - m]
      BY <1>2, <2>8
    <3>2. i - m # j - m
      BY <1>1, <1>7
    <3> QED BY <2>4, <3>1, <3>2
  <2> QED BY <2>5, <2>6, <2>7, <2>8
<1> QED BY <1>1, <1>5, <1>6, <1>7 DEF Elements, FramesIn, Distinct, m, n, r

(* If different frames have different slots, the queue's slots are         *)
(* different.                                                              *)
LEMMA SlotsDistinct ==
  ASSUME NEW q, Distinct(q),
         \A x, y \in Elements(q) : x.slot = y.slot => x.frame = y.frame,
         NEW held, DOMAIN held = 1 .. Len(q),
         \A i \in 1 .. Len(q) : held[i] = q[i].slot
  PROVE  /\ \A i, j \in DOMAIN held : i # j => held[i] # held[j]
         /\ {held[i] : i \in DOMAIN held} = {x.slot : x \in Elements(q)}
<1>1. DOMAIN held = 1 .. Len(q) /\ \A i \in 1 .. Len(q) : held[i] = q[i].slot
  OBVIOUS
<1>2. \A i \in 1 .. Len(q) : q[i] \in Elements(q)
  BY DEF Elements
<1>3. \A i, j \in 1 .. Len(q) : i # j => held[i] # held[j]
  BY <1>1, <1>2 DEF Distinct
<1>4. {held[i] : i \in 1 .. Len(q)} = {x.slot : x \in Elements(q)}
  BY <1>1 DEF Elements
<1> QED BY <1>1, <1>3, <1>4

(* Queues with nothing in them, and with one item. *)
LEMMA EmptyQueue ==
  /\ Elements(<<>>) = {} /\ FramesIn(<<>>) = {}
  /\ Rising(<<>>) /\ RisingNumbers(<<>>) /\ Distinct(<<>>)
  /\ Len(<<>>) = 0
BY DEF Elements, FramesIn, Rising, RisingNumbers, Distinct

(* Queues with nothing in them, and with one item. *)
LEMMA SingleQueue ==
  ASSUME NEW T, NEW x \in T
  PROVE  /\ <<x>> \in Seq(T)
         /\ Elements(<<x>>) = {x} /\ FramesIn(<<x>>) = {x.frame}
         /\ Distinct(<<x>>)
<1>1. Len(<<x>>) = 1 /\ <<x>>[1] = x /\ 1 .. 1 = {1}
  OBVIOUS
<1> QED BY <1>1 DEF Elements, FramesIn, Distinct

----------------------------------------------------------------------------
(* What the serializer sees of the chunks.                                 *)

TagsOf(q) == [i \in 1 .. Len(q) |-> q[i].tag]

(* The tags of a sequence are a sequence, and so long. *)
LEMMA TagsAreSequence ==
  ASSUME NEW T, NEW S, NEW q \in Seq(T), \A x \in T : x.tag \in S
  PROVE  TagsOf(q) \in Seq(S) /\ Len(TagsOf(q)) = Len(q)
<1> DEFINE n == Len(q)
           r == TagsOf(q)
<1>1. n \in Nat /\ \A i \in 1 .. n : q[i].tag \in S
  BY LenProperties, ElementOfSeq
<1>2. r \in [1 .. n -> S] /\ DOMAIN r = 1 .. n
  BY <1>1 DEF TagsOf
<1> HIDE DEF n, r
<1>3. r \in Seq(S)
  BY <1>1, <1>2, SeqDef
<1>4. Len(r) \in Nat /\ DOMAIN r = 1 .. Len(r)
  BY <1>3, LenProperties
<1>5. Len(r) = n
  BY <1>1, <1>2, <1>4
<1> QED BY <1>3, <1>5 DEF n, r

(* One more chunk is one more tag. *)
LEMMA TagAppended ==
  ASSUME NEW T, NEW S, NEW q \in Seq(T), NEW x \in T, \A y \in T : y.tag \in S
  PROVE  TagsOf(Append(q, x)) = Append(TagsOf(q), x.tag)
<1> DEFINE n == Len(q)
           l == TagsOf(Append(q, x))
           r == Append(TagsOf(q), x.tag)
<1>1. /\ n \in Nat /\ Append(q, x) \in Seq(T) /\ Len(Append(q, x)) = n + 1
      /\ \A i \in 1 .. n + 1 : Append(q, x)[i] = IF i = n + 1 THEN x ELSE q[i]
  BY Appended
<1>2. TagsOf(q) \in Seq(S) /\ Len(TagsOf(q)) = n /\ l \in Seq(S) /\ Len(l) = n + 1
  BY <1>1, TagsAreSequence
<1>3. /\ r \in Seq(S) /\ Len(r) = n + 1
      /\ \A i \in 1 .. n + 1 : r[i] = IF i = n + 1 THEN x.tag ELSE TagsOf(q)[i]
  BY <1>2, Appended
<1>4. \A i \in 1 .. n + 1 : l[i] = Append(q, x)[i].tag
  BY <1>1 DEF TagsOf
<1>5. \A i \in 1 .. n : TagsOf(q)[i] = q[i].tag
  BY DEF TagsOf
<1> HIDE DEF n, l, r
<1>6. ASSUME NEW i \in 1 .. n + 1
      PROVE  l[i] = r[i]
  <2>1. CASE i = n + 1
    BY <1>1, <1>3, <1>4, <2>1
  <2>2. CASE i # n + 1
    <3>1. i \in 1 .. n
      BY <1>1, <2>2
    <3> QED BY <1>1, <1>3, <1>4, <1>5, <2>2, <3>1
  <2> QED BY <2>1, <2>2
<1>7. l = r
  BY <1>2, <1>3, <1>6, SeqEqual
<1> QED BY <1>7 DEF l, r
=============================================================================
