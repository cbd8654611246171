---------------------------- MODULE DecoderProofs ----------------------------
(***************************************************************************)
(* What is proved of the input decoder, for every sequence buffer that     *)
(* holds an introducer and whatever bytes arrive: a paste is reported as   *)
(* the text that was received, and a control sequence is reported whole or *)
(* not at all and spoils nothing that follows it; and of the mouse         *)
(* reports it decodes, that the buttons held follow from the events told.  *)
(***************************************************************************)
EXTENDS Decoder, Mouse, SequenceTheorems, WellFoundedInduction, TLAPS

-----------------------------------------------------------------------------
(* Induction over the length of a sequence: a set of numbers has a least.   *)
LEMMA Least == ASSUME NEW T \in SUBSET Nat, T # {} PROVE \E n \in T : \A m \in T : n <= m
<1>1. PICK n \in T : \A m \in T : ~(<<m, n>> \in OpToRel(<, Nat))
  BY NatLessThanWellFounded, WFMin
<1>2. \A m \in T : <<m, n>> \in OpToRel(<, Nat) <=> m < n
  BY DEF OpToRel
<1>3. \A m \in T : ~(m < n)
  BY <1>1, <1>2
<1>4. \A m \in T : n <= m
  BY <1>3
<1> QED
  BY <1>4

\* A set that has zero and with every number the next has all.
LEMMA Steps ==
  ASSUME NEW T, 0 \in T, \A n \in Nat : n \in T => n + 1 \in T PROVE \A n \in Nat : n \in T
<1> DEFINE U == {n \in Nat : n \notin T}
<1>1. SUFFICES ASSUME U # {} PROVE FALSE
  OBVIOUS
<1>2. PICK n \in U : \A m \in U : n <= m
  BY <1>1, Least
<1>3. n \in Nat /\ n # 0 /\ n - 1 \in Nat /\ n - 1 \notin U
  BY <1>2
<1>4. n - 1 \in T
  BY <1>3
<1>5. n \in T
  BY <1>3, <1>4
<1> QED
  BY <1>2, <1>5

-----------------------------------------------------------------------------
(* A sequence of sequences, end to end.                                     *)
Words == Bytes \cup {"char", "U+FFFD", "esc", "[", "201", "~", "lead", "cont", "escape", "up", "named",
                    "kitty", "sgr", "legacy", "y", "A", "x", "O"}
Texts == Seq(Words)
FlattensTo(f, s, k) == f = [i \in 1..k |-> IF i = 1 THEN s[i] ELSE f[i - 1] \o s[i]]
Flattens(f, s) == FlattensTo(f, s, Len(s))

\* The recursion has a solution.
LEMMA FlattenSolved == ASSUME NEW s \in Seq(Texts) PROVE \E f : Flattens(f, s)
<1> DEFINE T == {k \in Nat : \E f : FlattensTo(f, s, k)}
<1>1. 0 \in T
  <2>1. FlattensTo([i \in 1..0 |-> <<>>], s, 0)
    BY DEF FlattensTo
  <2> QED
    BY <2>1
<1>2. ASSUME NEW k \in Nat, k \in T PROVE k + 1 \in T
  <2>1. PICK f : FlattensTo(f, s, k)
    BY <1>2
  <2> DEFINE g == [i \in 1..(k + 1) |-> IF i <= k THEN f[i]
                                        ELSE IF i = 1 THEN s[i] ELSE f[i - 1] \o s[i]]
  <2>2. \A i \in 1..k : f[i] = IF i = 1 THEN s[i] ELSE f[i - 1] \o s[i]
    BY <2>1 DEF FlattensTo
  <2>3. \A i \in 1..(k + 1) : g[i] = IF i = 1 THEN s[i] ELSE g[i - 1] \o s[i]
    <3> SUFFICES ASSUME NEW i \in 1..(k + 1) PROVE g[i] = IF i = 1 THEN s[i] ELSE g[i - 1] \o s[i]
      OBVIOUS
    <3>1. i # 1 => i - 1 \in 1..k /\ g[i - 1] = f[i - 1]
      OBVIOUS
    <3>2. CASE i \in 1..k
      BY <2>2, <3>1, <3>2
    <3>3. CASE i = k + 1
      BY <3>1, <3>3
    <3> QED
      BY <3>2, <3>3
  <2>4. FlattensTo(g, s, k + 1)
    BY <2>3 DEF FlattensTo
  <2> HIDE DEF g
  <2>5. \E h : FlattensTo(h, s, k + 1)
    BY <2>4
  <2> QED
    BY <2>5
<1> HIDE DEF T
<1>3. \A k \in Nat : k \in T
  BY <1>1, <1>2, Steps
<1>4. Len(s) \in T
  BY <1>3
<1> QED
  BY <1>4 DEF T, Flattens

\* FlattenSeq takes its last value.
LEMMA FlattenTakes ==
  ASSUME NEW s \in Seq(Texts), s # <<>>
  PROVE  \E f : Flattens(f, s) /\ FlattenSeq(s) = f[Len(s)]
<1>1. Len(s) # 0
  OBVIOUS
<1>2. FlattenSeq(s) = (CHOOSE f : Flattens(f, s))[Len(s)]
  BY <1>1 DEF FlattenSeq, Flattens, FlattensTo
<1>3. Flattens(CHOOSE f : Flattens(f, s), s)
  BY FlattenSolved
<1> QED
  BY <1>2, <1>3

\* Its values are texts, and the same for sequences that begin the same.
LEMMA FlattenAgrees ==
  ASSUME NEW s \in Seq(Texts), NEW t \in Seq(Texts), NEW f, NEW g, Flattens(f, s), Flattens(g, t),
         Len(t) <= Len(s), \A i \in 1..Len(t) : s[i] = t[i]
  PROVE  \A i \in 1..Len(t) : f[i] = g[i] /\ f[i] \in Texts
<1> DEFINE Same(n) == n \in 1..Len(t) => f[n] = g[n] /\ f[n] \in Texts
           T == {n \in Nat : Same(n)}
<1>0. \A i \in 1..Len(s) : f[i] = IF i = 1 THEN s[i] ELSE f[i - 1] \o s[i]
  BY DEF Flattens, FlattensTo
<1>1. \A i \in 1..Len(t) : g[i] = IF i = 1 THEN t[i] ELSE g[i - 1] \o t[i]
  BY DEF Flattens, FlattensTo
<1>2. 0 \in T
  OBVIOUS
<1>3. ASSUME NEW n \in Nat, n \in T PROVE n + 1 \in T
  <2> SUFFICES ASSUME n + 1 \in 1..Len(t) PROVE f[n + 1] = g[n + 1] /\ f[n + 1] \in Texts
    OBVIOUS
  <2>1. s[n + 1] = t[n + 1] /\ s[n + 1] \in Texts /\ n + 1 \in 1..Len(s)
    OBVIOUS
  <2>2. CASE n = 0
    BY <1>0, <1>1, <2>1, <2>2
  <2>3. CASE n # 0
    <3>1. f[n] = g[n] /\ f[n] \in Texts
      BY <1>3, <2>3
    <3>0. (n + 1) - 1 = n /\ n + 1 # 1
      BY <2>3
    <3>2. f[n + 1] = f[n] \o s[n + 1]
      BY <1>0, <2>1, <3>0
    <3>3. g[n + 1] = g[n] \o t[n + 1]
      BY <1>1, <3>0
    <3> QED
      BY <2>1, <3>1, <3>2, <3>3 DEF Texts
  <2> QED
    BY <2>2, <2>3
<1> HIDE DEF T
<1>4. \A n \in Nat : n \in T
  BY <1>2, <1>3, Steps
<1>5. \A i \in 1..Len(t) : i \in Nat
  OBVIOUS
<1> QED
  BY <1>4, <1>5 DEF T

\* One more sequence goes to the end.
LEMMA FlattenLast ==
  ASSUME NEW s \in Seq(Texts), NEW t \in Seq(Texts), Len(s) = Len(t) + 1,
         \A i \in 1..Len(t) : s[i] = t[i]
  PROVE  FlattenSeq(s) = FlattenSeq(t) \o s[Len(s)]
<1>0. s # <<>> /\ Len(t) \in Nat /\ Len(s) \in 1..Len(s) /\ s[Len(s)] \in Texts
  OBVIOUS
<1>1. PICK f : Flattens(f, s) /\ FlattenSeq(s) = f[Len(s)]
  BY <1>0, FlattenTakes
<1>2. f[Len(s)] = IF Len(s) = 1 THEN s[Len(s)] ELSE f[Len(s) - 1] \o s[Len(s)]
  BY <1>0, <1>1 DEF Flattens, FlattensTo
<1>3. CASE t = <<>>
  <2>1. Len(s) = 1 /\ FlattenSeq(t) = <<>>
    BY <1>3 DEF FlattenSeq
  <2>2. <<>> \o s[Len(s)] = s[Len(s)]
    BY <1>0 DEF Texts
  <2> QED
    BY <1>1, <1>2, <2>1, <2>2
<1>4. CASE t # <<>>
  <2>1. PICK g : Flattens(g, t) /\ FlattenSeq(t) = g[Len(t)]
    BY <1>4, FlattenTakes
  <2>2. Len(t) \in 1..Len(t) /\ Len(s) # 1 /\ Len(s) - 1 = Len(t)
    BY <1>0, <1>4
  <2>3. f[Len(t)] = g[Len(t)]
    BY <1>0, <1>1, <2>1, <2>2, FlattenAgrees
  <2> QED
    BY <1>1, <1>2, <2>1, <2>2, <2>3
<1> QED
  BY <1>3, <1>4

\* A sequence of texts, end to end, is a text.
LEMMA FlattenType == ASSUME NEW s \in Seq(Texts) PROVE FlattenSeq(s) \in Texts
<1>1. CASE s = <<>>
  BY <1>1 DEF FlattenSeq, Texts
<1>2. CASE s # <<>>
  <2>1. PICK f : Flattens(f, s) /\ FlattenSeq(s) = f[Len(s)]
    BY <1>2, FlattenTakes
  <2>2. Len(s) \in 1..Len(s) /\ Len(s) <= Len(s)
    BY <1>2
  <2> QED
    BY <2>1, <2>2, FlattenAgrees
<1> QED
  BY <1>1, <1>2

-----------------------------------------------------------------------------
(* What a text says, byte by byte.                                          *)
Characters(bytes, over) == [n \in DOMAIN bytes |-> Character(bytes, n, over)]
\* Does a text end in half a character?  What is said when a byte follows, and at its end?
Half(bytes) == bytes # <<>> /\ bytes[Len(bytes)] = "lead"
Cut(half) == IF half THEN <<"U+FFFD">> ELSE <<>>
Says(half, b) ==
  IF half /\ b = "cont" THEN <<"char">>
  ELSE Cut(half) \o (IF b = "lead" THEN <<>> ELSE IF b = "cont" THEN <<"U+FFFD">> ELSE <<b>>)

\* A byte says a text, ...
LEMMA CharacterType ==
  ASSUME NEW bytes \in Texts, NEW over \in BOOLEAN, NEW n \in DOMAIN bytes
  PROVE  Character(bytes, n, over) \in Texts
<1>1. bytes[n] \in Words
  BY DEF Texts
<1>2. \A w \in Words : <<w>> \in Texts
  BY DEF Texts
<1>3. "char" \in Words /\ "U+FFFD" \in Words /\ <<>> \in Texts
  BY DEF Words, Texts
<1> QED
  BY <1>1, <1>2, <1>3 DEF Character

\* ... the bytes of a text say one each,
LEMMA CharactersType ==
  ASSUME NEW bytes \in Texts, NEW over \in BOOLEAN
  PROVE  Characters(bytes, over) \in Seq(Texts) /\ Len(Characters(bytes, over)) = Len(bytes)
<1>1. DOMAIN bytes = 1..Len(bytes) /\ Len(bytes) \in Nat
  BY DEF Texts
<1>2. \A n \in 1..Len(bytes) : Character(bytes, n, over) \in Texts
  BY <1>1, CharacterType
<1> QED
  BY <1>1, <1>2 DEF Characters

\* and so does a byte that follows.
LEMMA SaysType ==
  ASSUME NEW half \in BOOLEAN, NEW b \in Words PROVE Says(half, b) \in Texts /\ Cut(half) \in Texts
<1>1. <<b>> \in Texts /\ <<"char">> \in Texts /\ <<"U+FFFD">> \in Texts /\ <<>> \in Texts
  BY DEF Texts, Words
<1>2. \A s, t \in Texts : s \o t \in Texts
  BY DEF Texts
<1> QED
  BY <1>1, <1>2 DEF Says, Cut

\* What a text says is a text.
LEMMA TextType ==
  ASSUME NEW bytes \in Texts, NEW over \in BOOLEAN PROVE Text(bytes, over) \in Texts
<1>1. Text(bytes, over) = FlattenSeq(Characters(bytes, over))
  BY DEF Text, Characters
<1> QED
  BY <1>1, CharactersType, FlattenType

\* A text's last character comes after the others.
LEMMA TextLast ==
  ASSUME NEW bytes \in Texts, bytes # <<>>, NEW over \in BOOLEAN, NEW t \in Seq(Texts),
         Len(bytes) = Len(t) + 1, \A i \in 1..Len(t) : t[i] = Character(bytes, i, over)
  PROVE  Text(bytes, over) = FlattenSeq(t) \o Character(bytes, Len(bytes), over)
<1> DEFINE s == Characters(bytes, over)
<1>1. s \in Seq(Texts) /\ Len(s) = Len(bytes)
  BY CharactersType
<1>2. Text(bytes, over) = FlattenSeq(s)
  BY DEF Text, Characters
<1>3. DOMAIN bytes = 1..Len(bytes) /\ Len(bytes) \in DOMAIN bytes /\ Len(t) \in Nat
  BY DEF Texts
<1>4. \A i \in DOMAIN bytes : s[i] = Character(bytes, i, over)
  BY DEF Characters
<1>5. Len(s) = Len(t) + 1 /\ (\A i \in 1..Len(t) : s[i] = t[i])
      /\ s[Len(s)] = Character(bytes, Len(bytes), over)
  BY <1>1, <1>3, <1>4
<1> HIDE DEF s
<1> QED
  BY <1>1, <1>2, <1>5, FlattenLast

\* The characters before the last.
LEMMA Begun ==
  ASSUME NEW bytes \in Texts, bytes # <<>>, NEW over \in BOOLEAN
  PROVE  \E t \in Seq(Texts) : /\ Len(bytes) = Len(t) + 1
                               /\ \A i \in 1..Len(t) : t[i] = Character(bytes, i, over)
<1> DEFINE t == [i \in 1..(Len(bytes) - 1) |-> Character(bytes, i, over)]
<1>1. Len(bytes) \in Nat \ {0} /\ DOMAIN bytes = 1..Len(bytes)
  BY DEF Texts
<1>2. \A i \in 1..(Len(bytes) - 1) : Character(bytes, i, over) \in Texts
  BY <1>1, CharacterType
<1>3. t \in Seq(Texts) /\ Len(t) = Len(bytes) - 1
  BY <1>1, <1>2
<1>4. \A i \in 1..Len(t) : t[i] = Character(bytes, i, over)
  BY <1>3
<1>5. Len(bytes) = Len(t) + 1
  BY <1>1, <1>3
<1> HIDE DEF t
<1> QED
  BY <1>3, <1>4, <1>5

\* Texts one after the other.
LEMMA Joined == ASSUME NEW a \in Texts, NEW b \in Texts, NEW c \in Texts
                PROVE  (a \o b) \o c = a \o (b \o c)
  BY DEF Texts

\* The empty text.
LEMMA Nothing == ASSUME NEW a \in Texts PROVE <<>> \o a = a /\ a \o <<>> = a
  BY DEF Texts

\* Nothing says nothing.
LEMMA Empties == <<>> \in Texts /\ FlattenSeq(<<>>) = <<>> /\ \A over \in BOOLEAN : Text(<<>>, over) = <<>>
<1>1. <<>> \in Texts /\ FlattenSeq(<<>>) = <<>>
  BY DEF Texts, FlattenSeq
<1>2. ASSUME NEW over \in BOOLEAN PROVE Text(<<>>, over) = <<>>
  <2>1. <<>> \in Texts
    BY DEF Texts
  <2>2. Characters(<<>>, over) \in Seq(Texts) /\ Len(Characters(<<>>, over)) = Len(<<>>)
    BY <2>1, CharactersType
  <2>3. Characters(<<>>, over) = <<>>
    BY <2>2
  <2> QED
    BY <1>1, <2>3 DEF Text, Characters
<1> QED
  BY <1>1, <1>2

\* A text that is over says half a character as well.
LEMMA TextOver ==
  ASSUME NEW bytes \in Texts
  PROVE  Text(bytes, TRUE) = Text(bytes, FALSE) \o Cut(Half(bytes))
<1>1. CASE bytes = <<>>
  <2>1. Text(bytes, TRUE) = <<>> /\ Text(bytes, FALSE) = <<>> /\ ~Half(bytes)
    BY <1>1, Empties DEF Half
  <2>2. Cut(Half(bytes)) = <<>>
    BY <2>1 DEF Cut
  <2> QED
    BY <2>1, <2>2, Nothing, Empties
<1>2. CASE bytes # <<>>
  <2> DEFINE n == Len(bytes)
  <2>1. n \in DOMAIN bytes /\ n \in Nat /\ DOMAIN bytes = 1..n
    BY <1>2 DEF Texts
  <2>2. PICK t \in Seq(Texts) : n = Len(t) + 1 /\ \A i \in 1..Len(t) : t[i] = Character(bytes, i, FALSE)
    BY <1>2, Begun
  <2>3. \A i \in 1..Len(t) : Character(bytes, i, FALSE) = Character(bytes, i, TRUE)
    BY <2>1, <2>2 DEF Character
  <2>4. Text(bytes, FALSE) = FlattenSeq(t) \o Character(bytes, n, FALSE)
    BY <1>2, <2>2, TextLast
  <2>5. Text(bytes, TRUE) = FlattenSeq(t) \o Character(bytes, n, TRUE)
    BY <1>2, <2>2, <2>3, TextLast
  <2>6. Character(bytes, n, FALSE) \in Texts /\ Character(bytes, n, TRUE) \in Texts
        /\ FlattenSeq(t) \in Texts /\ Cut(Half(bytes)) \in Texts
    <3>1. Half(bytes) \in BOOLEAN /\ "lead" \in Words
      BY DEF Half, Words
    <3> QED
      BY <2>1, <2>2, <3>1, CharacterType, FlattenType, SaysType
  <2>7. Character(bytes, n, TRUE) = Character(bytes, n, FALSE) \o Cut(Half(bytes))
    <3>1. CASE Half(bytes)
      <4>1. Character(bytes, n, TRUE) = <<"U+FFFD">> /\ Character(bytes, n, FALSE) = <<>>
            /\ Cut(Half(bytes)) = <<"U+FFFD">>
        BY <2>1, <3>1 DEF Half, Character, Cut
      <4> QED
        BY <2>6, <4>1, Nothing
    <3>2. CASE ~Half(bytes)
      <4>1. Character(bytes, n, TRUE) = Character(bytes, n, FALSE) /\ Cut(Half(bytes)) = <<>>
        BY <1>2, <3>2 DEF Half, Character, Cut
      <4> QED
        BY <2>6, <4>1, Nothing
    <3> QED
      BY <3>1, <3>2
  <2> DEFINE u == Cut(Half(bytes))
             v == FlattenSeq(t)
             w == Character(bytes, n, FALSE)
  <2>8. u \in Texts /\ v \in Texts /\ w \in Texts
    BY <2>6
  <2>9. Text(bytes, TRUE) = v \o (w \o u) /\ Text(bytes, FALSE) = v \o w
    BY <2>4, <2>5, <2>7
  <2> HIDE DEF u, v, w
  <2>10. (v \o w) \o u = v \o (w \o u)
    BY <2>8, Joined
  <2> QED
    BY <2>9, <2>10 DEF u
<1> QED
  BY <1>1, <1>2

\* A byte's character depends on its neighbours, and on the end for the last.
LEMMA Neighbours ==
  ASSUME NEW bytes, NEW next, NEW n \in Nat, NEW over,
         n < Len(bytes), n < Len(next), bytes[n] = next[n], bytes[n + 1] = next[n + 1],
         n > 1 => bytes[n - 1] = next[n - 1]
  PROVE  Character(bytes, n, over) = Character(next, n, over)
  BY DEF Character

\* The next byte is said after a text, and completes or cuts its half character.
LEMMA TextGrows ==
  ASSUME NEW bytes \in Texts, NEW next \in Texts, NEW b \in Words, NEW n \in Nat,
         Len(bytes) = n, Len(next) = n + 1, next[n + 1] = b, \A i \in 1..n : next[i] = bytes[i]
  PROVE  Half(next) = (b = "lead") /\ Text(next, FALSE) = Text(bytes, FALSE) \o Says(Half(bytes), b)
<1> DEFINE e == Character(next, n + 1, FALSE)
<1>1. /\ DOMAIN bytes = 1..n /\ DOMAIN next = 1..(n + 1) /\ next # <<>> /\ (n + 1) - 1 = n
      /\ n + 1 \in DOMAIN next
  BY DEF Texts
<1>2. Half(next) = (b = "lead")
  BY <1>1 DEF Half
<1>3. Half(bytes) \in BOOLEAN /\ Says(Half(bytes), b) \in Texts /\ e \in Texts
  <2>1. Half(bytes) \in BOOLEAN
    BY DEF Half
  <2> QED
    BY <1>1, <2>1, SaysType, CharacterType
<1>4. ASSUME n = 0 PROVE e = Says(Half(bytes), b)
  <2>1. ~Half(bytes)
    BY <1>4 DEF Half
  <2>2. e = IF b = "lead" THEN <<>> ELSE IF b = "cont" THEN <<"U+FFFD">> ELSE <<b>>
    BY <1>1, <1>4 DEF Character
  <2>3. Says(Half(bytes), b) = <<>> \o e
    BY <2>1, <2>2 DEF Says, Cut
  <2> HIDE DEF e
  <2> QED
    BY <1>3, <2>3, Nothing
<1>5. CASE n = 0
  <2>1. bytes = <<>>
    BY <1>5
  <2>0. <<>> \in Seq(Texts)
    OBVIOUS
  <2>2. PICK t \in Seq(Texts) : t = <<>>
    BY <2>0
  <2>3. Len(next) = Len(t) + 1 /\ \A i \in 1..Len(t) : t[i] = Character(next, i, FALSE)
    BY <1>5, <2>2
  <2>4. Text(next, FALSE) = FlattenSeq(t) \o e
    BY <1>1, <1>5, <2>3, TextLast
  <2> HIDE DEF e
  <2> QED
    BY <1>2, <1>4, <1>5, <2>1, <2>2, <2>4, Empties
<1>6. CASE n # 0
  <2>1. n \in 1..n /\ n > 0 /\ bytes # <<>> /\ n \in DOMAIN bytes /\ n \in DOMAIN next /\ n - 1 \in Nat
    BY <1>1, <1>6
  <2>2. PICK t \in Seq(Texts) : n = Len(t) + 1 /\ \A i \in 1..Len(t) : t[i] = Character(bytes, i, FALSE)
    BY <2>1, Begun
  <2> DEFINE c == Character(bytes, n, FALSE)
             d == Character(next, n, FALSE)
             s == Append(t, d)
  <2>3. c \in Texts /\ d \in Texts /\ FlattenSeq(t) \in Texts
    BY <2>1, <2>2, CharacterType, FlattenType
  <2>4. \A i \in 1..Len(t) : Character(bytes, i, FALSE) = Character(next, i, FALSE)
    <3> SUFFICES ASSUME NEW i \in 1..Len(t)
                 PROVE  Character(bytes, i, FALSE) = Character(next, i, FALSE)
      OBVIOUS
    <3>1. Len(t) = n - 1
      BY <2>2
    <3>2. i \in Nat /\ i < n /\ i \in 1..n /\ i + 1 \in 1..n /\ (i > 1 => i - 1 \in 1..n)
      BY <3>1
    <3>3. bytes[i] = next[i] /\ bytes[i + 1] = next[i + 1] /\ (i > 1 => bytes[i - 1] = next[i - 1])
      BY <3>2
    <3>4. i < Len(bytes) /\ i < Len(next)
      BY <3>2
    <3> QED
      BY <3>2, <3>3, <3>4, Neighbours
  <2>5. Text(bytes, FALSE) = FlattenSeq(t) \o c
    BY <2>1, <2>2, TextLast
  <2>6. bytes[n] = next[n] /\ (n > 1 => bytes[n - 1] = next[n - 1])
    <3>1. n > 1 => n - 1 \in 1..n
      OBVIOUS
    <3> QED
      BY <2>1, <3>1
  <2>7. e = IF b = "lead" THEN <<>>
            ELSE IF b = "cont" THEN (IF bytes[n] = "lead" THEN <<>> ELSE <<"U+FFFD">>) ELSE <<b>>
    BY <1>1, <2>1, <2>6 DEF Character
  <2>8. d = IF bytes[n] = "lead" THEN (IF b = "cont" THEN <<"char">> ELSE <<"U+FFFD">>) ELSE c
    BY <1>1, <2>1, <2>6 DEF Character
  <2>9. bytes[n] = "lead" => c = <<>>
    BY <1>1, <2>1 DEF Character
  <2>10. Half(bytes) = (bytes[n] = "lead")
    BY <2>1 DEF Half
  <2>11. d \o e = c \o Says(Half(bytes), b)
    <3> HIDE DEF c, d, e
    <3>1. CASE bytes[n] = "lead" /\ b = "cont"
      <4>1. c = <<>> /\ d = <<"char">> /\ e = <<>> /\ Says(Half(bytes), b) = <<"char">>
        BY <2>7, <2>8, <2>9, <2>10, <3>1 DEF Says
      <4>2. d \o <<>> = d /\ <<>> \o d = d
        BY <2>3, Nothing
      <4> QED
        BY <4>1, <4>2
    <3>2. CASE bytes[n] = "lead" /\ b # "cont"
      <4>1. c = <<>> /\ d = <<"U+FFFD">> /\ Says(Half(bytes), b) = <<"U+FFFD">> \o e
        BY <2>7, <2>8, <2>9, <2>10, <3>2 DEF Says, Cut
      <4>2. <<>> \o Says(Half(bytes), b) = Says(Half(bytes), b)
        BY <1>3, Nothing
      <4> QED
        BY <4>1, <4>2
    <3>3. CASE bytes[n] # "lead"
      <4>1. d = c /\ Says(Half(bytes), b) = <<>> \o e
        BY <2>7, <2>8, <2>10, <3>3 DEF Says, Cut
      <4>2. <<>> \o e = e
        BY <1>3, Nothing
      <4> QED
        BY <4>1, <4>2
    <3> QED
      BY <3>1, <3>2, <3>3
  <2>12. s \in Seq(Texts) /\ Len(s) = n /\ s[Len(s)] = d /\ \A i \in 1..Len(t) : s[i] = t[i]
    <3> HIDE DEF d
    <3> QED
      BY <2>2, <2>3
  <2>13. Len(next) = Len(s) + 1 /\ \A i \in 1..Len(s) : s[i] = Character(next, i, FALSE)
    <3> SUFFICES ASSUME NEW i \in 1..n PROVE s[i] = Character(next, i, FALSE)
      BY <2>12
    <3>1. CASE i = n
      BY <2>12, <3>1
    <3>2. CASE i # n
      <4>1. i \in 1..Len(t)
        BY <2>2, <3>2
      <4> HIDE DEF s
      <4> QED
        BY <2>2, <2>4, <2>12, <4>1
    <3> QED
      BY <3>1, <3>2
  <2> HIDE DEF c, d, s
  <2>14. FlattenSeq(s) = FlattenSeq(t) \o d
    BY <2>2, <2>12, FlattenLast
  <2>15. Text(next, FALSE) = FlattenSeq(s) \o e
    BY <1>1, <2>12, <2>13, TextLast
  <2> HIDE DEF e
  <2> DEFINE u == Says(Half(bytes), b)
             v == FlattenSeq(t)
  <2>16. u \in Texts /\ v \in Texts /\ c \in Texts /\ d \in Texts /\ e \in Texts /\ d \o e = c \o u
    BY <1>3, <2>3, <2>11
  <2>17. Text(next, FALSE) = (v \o d) \o e /\ Text(bytes, FALSE) = v \o c
    BY <2>5, <2>14, <2>15
  <2> HIDE DEF u, v
  <2>18. (v \o d) \o e = v \o (d \o e)
    <3>1. v \in Texts /\ d \in Texts /\ e \in Texts
      BY <2>16
    <3> QED
      BY <3>1, Joined
  <2>19. (v \o c) \o u = v \o (c \o u)
    <3>1. v \in Texts /\ c \in Texts /\ u \in Texts
      BY <2>16
    <3> QED
      BY <3>1, Joined
  <2>20. Text(next, FALSE) = Text(bytes, FALSE) \o u
    BY <2>16, <2>17, <2>18, <2>19
  <2> QED
    BY <1>2, <2>20 DEF u
<1> QED
  BY <1>5, <1>6

\* The same, with the byte appended.
LEMMA TextNext ==
  ASSUME NEW bytes \in Texts, NEW b \in Words
  PROVE  /\ Append(bytes, b) \in Texts /\ Half(Append(bytes, b)) = (b = "lead")
         /\ Text(Append(bytes, b), FALSE) = Text(bytes, FALSE) \o Says(Half(bytes), b)
<1>1. PICK next : next = Append(bytes, b)
  OBVIOUS
<1>2. PICK n : n = Len(bytes)
  OBVIOUS
<1>3. /\ next \in Texts /\ n \in Nat /\ Len(next) = n + 1 /\ next[n + 1] = b
      /\ \A i \in 1..n : next[i] = bytes[i]
  BY <1>1, <1>2 DEF Texts
<1> QED
  BY <1>1, <1>2, <1>3, TextGrows

-----------------------------------------------------------------------------
(* Plain keys: the decoder's events and the text that they say.            *)
Told == {"tap", "key", "mouse", "report"} \X Words
Inputs == [sequence : Texts, discard : BOOLEAN, intermediate : BOOLEAN, legacy : 0..3,
           paste : BOOLEAN, ended : 0..3, utf8 : 0..1, out : Seq(Told)]
\* r is i but for its text: a plain key touches nothing else.
Plain(i, r) == /\ r \in Inputs
               /\ r.sequence = i.sequence /\ r.discard = i.discard /\ r.intermediate = i.intermediate
               /\ r.legacy = i.legacy /\ r.paste = i.paste /\ r.ended = i.ended

\* An event's text comes after that of the others.
LEMMA TapsNext ==
  ASSUME NEW all \in Seq(Told), NEW e \in Told
  PROVE  /\ Taps(all) \in Texts /\ Append(all, e) \in Seq(Told)
         /\ Taps(Append(all, e)) = Taps(all) \o <<e[2]>>
<1>1. /\ DOMAIN all = 1..Len(all) /\ Len(all) \in Nat /\ Append(all, e) \in Seq(Told)
      /\ DOMAIN Append(all, e) = 1..(Len(all) + 1)
      /\ Append(all, e)[Len(all) + 1] = e
      /\ \A n \in 1..Len(all) : Append(all, e)[n] = all[n] /\ all[n][2] \in Words
  BY DEF Told
<1>2. Taps(all) \in Texts /\ Len(Taps(all)) = Len(all)
      /\ \A n \in 1..Len(all) : Taps(all)[n] = all[n][2]
  BY <1>1 DEF Taps, Texts
<1>3. e[2] \in Words
  BY DEF Told
<1>4. /\ Taps(all) \o <<e[2]>> \in Texts /\ Len(Taps(all) \o <<e[2]>>) = Len(all) + 1
      /\ (Taps(all) \o <<e[2]>>)[Len(all) + 1] = e[2]
      /\ \A n \in 1..Len(all) : (Taps(all) \o <<e[2]>>)[n] = all[n][2]
  BY <1>1, <1>2, <1>3 DEF Texts
<1>5. Taps(Append(all, e)) = [n \in 1..(Len(all) + 1) |-> Append(all, e)[n][2]]
  BY <1>1 DEF Taps
<1>6. \A n \in 1..(Len(all) + 1) : Append(all, e)[n][2] = (Taps(all) \o <<e[2]>>)[n]
  BY <1>1, <1>4
<1>7. Taps(all) \o <<e[2]>> = [n \in 1..(Len(all) + 1) |-> (Taps(all) \o <<e[2]>>)[n]]
  BY <1>1, <1>4 DEF Texts
<1> QED
  BY <1>1, <1>2, <1>5, <1>6, <1>7

\* A plain key says one character, ...
LEMMA TapNext ==
  ASSUME NEW i \in Inputs, NEW w \in Words
  PROVE  Plain(i, Tap(i, w)) /\ Tap(i, w).utf8 = i.utf8 /\ Taps(Tap(i, w).out) = Taps(i.out) \o <<w>>
         /\ Tap(i, w).out # <<>> /\ Last(Tap(i, w).out) = <<"tap", w>>
<1>1. PICK e \in Told : e = <<"tap", w>>
  BY DEF Told
<1>2. i.out \in Seq(Told) /\ e[2] = w
  BY <1>1 DEF Inputs
<1>3. PICK all : all = Append(i.out, e)
  OBVIOUS
<1>4. all \in Seq(Told) /\ Taps(all) = Taps(i.out) \o <<w>>
  BY <1>2, <1>3, TapsNext
<1>5. all # <<>> /\ Last(all) = e
  BY <1>2, <1>3 DEF Last
<1>6. Tap(i, w) = [i EXCEPT !.out = all]
  BY <1>1, <1>3 DEF Tap, Report
<1>7. Tap(i, w).out = all
  BY <1>6 DEF Inputs
<1>8. Tap(i, w) \in Inputs /\ Tap(i, w).utf8 = i.utf8 /\ Plain(i, Tap(i, w))
  BY <1>4, <1>6 DEF Inputs, Plain
<1> QED
  BY <1>1, <1>4, <1>5, <1>7, <1>8

\* ... an unfinished character U+FFFD,
LEMMA CutNext ==
  ASSUME NEW i \in Inputs
  PROVE  Plain(i, Utf8Cut(i)) /\ Utf8Cut(i).utf8 = 0 /\ Taps(Utf8Cut(i).out) = Taps(i.out) \o Cut(i.utf8 = 1)
         /\ (i.utf8 = 0 => Utf8Cut(i) = i)
<1>1. CASE i.utf8 = 0
  <2>1. Utf8Cut(i) = i /\ Cut(i.utf8 = 1) = <<>>
    BY <1>1 DEF Utf8Cut, Cut
  <2>2. Taps(i.out) \o <<>> = Taps(i.out)
    <3>1. i.out \in Seq(Told) /\ <<"tap", "x">> \in Told
      BY DEF Inputs, Told, Words
    <3> QED
      BY <3>1, TapsNext, Nothing
  <2> QED
    BY <1>1, <2>1, <2>2 DEF Plain
<1>2. CASE i.utf8 # 0
  <2>1. PICK j : j = [i EXCEPT !.utf8 = 0]
    OBVIOUS
  <2>2. j \in Inputs /\ Plain(i, j) /\ j.utf8 = 0 /\ j.out = i.out /\ i.utf8 = 1
    BY <1>2, <2>1 DEF Inputs, Plain
  <2>3. Utf8Cut(i) = Tap(j, "U+FFFD") /\ Cut(i.utf8 = 1) = <<"U+FFFD">> /\ "U+FFFD" \in Words
    BY <1>2, <2>1, <2>2 DEF Utf8Cut, Cut, Words
  <2>4. Plain(j, Tap(j, "U+FFFD")) /\ Tap(j, "U+FFFD").utf8 = 0
        /\ Taps(Tap(j, "U+FFFD").out) = Taps(j.out) \o <<"U+FFFD">>
    BY <2>2, <2>3, TapNext
  <2> QED
    BY <1>2, <2>2, <2>3, <2>4 DEF Plain
<1> QED
  BY <1>1, <1>2

\* What a byte means outside sequences: it ends or begins a character.
LEMMA PlainKey ==
  ASSUME NEW i \in Inputs, NEW b \in Words
  PROVE  /\ Plain(i, handle_plain_key(i, b))
         /\ handle_plain_key(i, b).utf8 = IF b = "lead" THEN 1 ELSE 0
         /\ Taps(handle_plain_key(i, b).out) = Taps(i.out) \o Says(i.utf8 = 1, b)
<1>0. "U+FFFD" \in Words /\ "char" \in Words /\ i.utf8 \in {0, 1}
  BY DEF Words, Inputs
<1>1. CASE i.utf8 > 0 /\ b = "cont"
  <2>1. PICK j : j = [i EXCEPT !.utf8 = @ - 1]
    OBVIOUS
  <2>2. j \in Inputs /\ Plain(i, j) /\ j.utf8 = 0 /\ j.out = i.out /\ i.utf8 = 1
    BY <1>0, <1>1, <2>1 DEF Inputs, Plain
  <2>3. handle_plain_key(i, b) = Tap(j, "char") /\ Says(i.utf8 = 1, b) = <<"char">>
    BY <1>1, <2>1, <2>2 DEF handle_plain_key, Says
  <2>4. Plain(j, Tap(j, "char")) /\ Tap(j, "char").utf8 = 0
        /\ Taps(Tap(j, "char").out) = Taps(j.out) \o <<"char">>
    BY <1>0, <2>2, TapNext
  <2> QED
    BY <1>1, <2>2, <2>3, <2>4 DEF Plain
<1>2. CASE ~(i.utf8 > 0 /\ b = "cont")
  <2>1. PICK j : j = Utf8Cut(i)
    OBVIOUS
  <2>2. j \in Inputs /\ Plain(i, j) /\ j.utf8 = 0 /\ Taps(j.out) = Taps(i.out) \o Cut(i.utf8 = 1)
    BY <2>1, CutNext DEF Plain
  <2>3. Taps(i.out) \in Texts /\ Cut(i.utf8 = 1) \in Texts
    <3>1. i.out \in Seq(Told) /\ <<"tap", b>> \in Told
      BY DEF Inputs, Told
    <3>2. (i.utf8 = 1) \in BOOLEAN
      OBVIOUS
    <3> QED
      BY <3>1, <3>2, TapsNext, SaysType
  <2>4. Says(i.utf8 = 1, b) =
          Cut(i.utf8 = 1) \o (IF b = "lead" THEN <<>> ELSE IF b = "cont" THEN <<"U+FFFD">> ELSE <<b>>)
    BY <1>0, <1>2 DEF Says
  <2>5. ASSUME NEW w \in Words, handle_plain_key(i, b) = Tap(j, w), b # "lead",
               Says(i.utf8 = 1, b) = Cut(i.utf8 = 1) \o <<w>>
        PROVE  /\ Plain(i, handle_plain_key(i, b)) /\ handle_plain_key(i, b).utf8 = 0
               /\ Taps(handle_plain_key(i, b).out) = Taps(i.out) \o Says(i.utf8 = 1, b)
    <3>1. Plain(j, Tap(j, w)) /\ Tap(j, w).utf8 = 0 /\ Taps(Tap(j, w).out) = Taps(j.out) \o <<w>>
      BY <2>2, TapNext
    <3>2. <<w>> \in Texts
      BY DEF Texts
    <3>3. (Taps(i.out) \o Cut(i.utf8 = 1)) \o <<w>> = Taps(i.out) \o (Cut(i.utf8 = 1) \o <<w>>)
      BY <2>3, <3>2, Joined
    <3> QED
      BY <2>2, <2>5, <3>1, <3>3 DEF Plain
  <2>6. CASE b = "lead"
    <3>1. handle_plain_key(i, b) = [j EXCEPT !.utf8 = 1]
      BY <1>2, <2>1, <2>6 DEF handle_plain_key
    <3>2. Says(i.utf8 = 1, b) = Cut(i.utf8 = 1)
      BY <2>3, <2>4, <2>6, Nothing
    <3>3. Plain(i, [j EXCEPT !.utf8 = 1]) /\ [j EXCEPT !.utf8 = 1].utf8 = 1 /\ [j EXCEPT !.utf8 = 1].out = j.out
      BY <2>2 DEF Plain, Inputs
    <3> QED
      BY <2>2, <2>6, <3>1, <3>2, <3>3
  <2>7. CASE b = "cont"
    <3>1. handle_plain_key(i, b) = Tap(j, "U+FFFD") /\ b # "lead"
      BY <1>2, <2>1, <2>7 DEF handle_plain_key
    <3> QED
      BY <1>0, <2>4, <2>5, <2>7, <3>1
  <2>8. CASE b \notin {"lead", "cont"}
    <3>1. handle_plain_key(i, b) = Tap(j, b)
      BY <1>2, <2>1, <2>8 DEF handle_plain_key
    <3> QED
      BY <2>4, <2>5, <2>8, <3>1
  <2> QED
    BY <2>6, <2>7, <2>8
<1> QED
  BY <1>1, <1>2

-----------------------------------------------------------------------------
(* The bytes of a paste, a mismatched part of its end marker included.     *)
\* The text heard before this byte and in it is that of the bytes.
Reads(i, bytes, heard) == /\ i \in Inputs /\ bytes \in Texts /\ heard \in Texts
                          /\ (i.utf8 = 1) = Half(bytes)
                          /\ heard \o Taps(i.out) = Text(bytes, FALSE)

\* A byte that is fed to the decoder as a plain key is read.
LEMMA ReadsNext ==
  ASSUME NEW i, NEW bytes, NEW told, Reads(i, bytes, told), NEW b \in Words
  PROVE  Plain(i, handle_plain_key(i, b)) /\ Reads(handle_plain_key(i, b), Append(bytes, b), told)
<1> DEFINE r == handle_plain_key(i, b)
           s == Says(Half(bytes), b)
<1>0. i \in Inputs /\ bytes \in Texts /\ told \in Texts /\ (i.utf8 = 1) = Half(bytes)
  BY DEF Reads
<1>1. Plain(i, r) /\ r.utf8 = (IF b = "lead" THEN 1 ELSE 0) /\ Taps(r.out) = Taps(i.out) \o s
  BY <1>0, PlainKey
<1>2. /\ Append(bytes, b) \in Texts /\ Half(Append(bytes, b)) = (b = "lead")
      /\ Text(Append(bytes, b), FALSE) = Text(bytes, FALSE) \o s
  BY <1>0, TextNext
<1>3. s \in Texts /\ Taps(i.out) \in Texts
  <2>1. Half(bytes) \in BOOLEAN
    BY DEF Half
  <2>2. i.out \in Seq(Told) /\ <<"tap", b>> \in Told
    BY <1>0 DEF Inputs, Told
  <2> QED
    BY <2>1, <2>2, SaysType, TapsNext
<1> HIDE DEF r, s
<1>4. (told \o Taps(i.out)) \o s = told \o (Taps(i.out) \o s)
  BY <1>0, <1>3, Joined
<1>5. told \o Taps(r.out) = Text(Append(bytes, b), FALSE)
  BY <1>1, <1>2, <1>4 DEF Reads
<1>6. (r.utf8 = 1) = Half(Append(bytes, b)) /\ r \in Inputs
  BY <1>1, <1>2 DEF Plain
<1> QED
  BY <1>0, <1>1, <1>2, <1>5, <1>6 DEF Reads, r

\* The bytes of the end marker one after the other.
LEMMA Marked ==
  ASSUME NEW bytes \in Texts, NEW e \in 0..3
  PROVE  /\ bytes \o SubSeq(Marker, 1, e) \in Texts /\ bytes \o SubSeq(Marker, 1, 0) = bytes
         /\ Append(bytes \o SubSeq(Marker, 1, e), Marker[e + 1]) = bytes \o SubSeq(Marker, 1, e + 1)
         /\ Marker[e + 1] \in Words
<1>1. Marker \in Texts /\ Len(Marker) = 4 /\ Marker \in Seq(Words)
  BY DEF Marker, Words, Texts
<1>2. \A n \in 1..4 : Marker[n] \in Words
  BY DEF Marker, Words
<1>3. SubSeq(Marker, 1, 0) = <<>>
  BY SubSeqEmpty
<1>4. SubSeq(Marker, 1, e) \in Texts
  BY <1>2, SubSeqProperties DEF Texts
<1>5. SubSeq(Marker, 1, e + 1) = SubSeq(Marker, 1, e) \o <<Marker[e + 1]>>
  <2>1. e + 1 \in 1..Len(Marker) /\ 1 \in 1..Len(Marker) /\ e + 1 \in 1..Len(Marker) /\ (e + 1) - 1 = e
    BY <1>1
  <2> QED
    BY <1>1, <2>1, SubSeqRecursiveSecond
<1> DEFINE w == Marker[e + 1]
           m == SubSeq(Marker, 1, e)
<1>6. w \in Words /\ m \in Texts /\ SubSeq(Marker, 1, e + 1) = m \o <<w>>
  BY <1>2, <1>4, <1>5
<1> HIDE DEF w, m
<1>7. bytes \o m \in Texts /\ bytes \o (m \o <<w>>) = Append(bytes \o m, w)
  BY <1>6 DEF Texts
<1> QED
  BY <1>3, <1>6, <1>7, Nothing DEF w, m

\* The marker's first byte, and none of it.
LEMMA MarkerBegins ==
  ASSUME NEW bytes \in Texts
  PROVE  bytes \o SubSeq(Marker, 1, 0) = bytes /\ Append(bytes, "esc") = bytes \o SubSeq(Marker, 1, 1)
<1>1. PICK e \in 0..3 : e = 0
  OBVIOUS
<1>2. /\ Append(bytes \o SubSeq(Marker, 1, e), Marker[e + 1]) = bytes \o SubSeq(Marker, 1, e + 1)
      /\ bytes \o SubSeq(Marker, 1, 0) = bytes
  BY Marked
<1>3. Marker[e + 1] = "esc" /\ e + 1 = 1
  BY <1>1 DEF Marker
<1> QED
  BY <1>1, <1>2, <1>3

\* What a byte in a paste leaves alone.
Pasting(i, r) == /\ r.sequence = i.sequence /\ r.discard = i.discard /\ r.intermediate = i.intermediate
                 /\ r.legacy = i.legacy

\* The part of the marker that was held back is payload after all.
LEMMA Replayed ==
  ASSUME NEW i, NEW bytes, NEW told, Reads(i, bytes, told)
  PROVE  LET replayed(j, n) == IF n <= i.ended THEN handle_plain_key(j, Marker[n]) ELSE j
             r == [replayed(replayed(replayed(i, 1), 2), 3) EXCEPT !.ended = 0]
         IN /\ Reads(r, bytes \o SubSeq(Marker, 1, i.ended), told)
            /\ Pasting(i, r) /\ r.paste = i.paste /\ r.ended = 0
<1> DEFINE replayed(j, n) == IF n <= i.ended THEN handle_plain_key(j, Marker[n]) ELSE j
           part(n) == bytes \o SubSeq(Marker, 1, n)
<1>0. i \in Inputs /\ bytes \in Texts /\ i.ended \in 0..3
  BY DEF Reads, Inputs
<1>1. ASSUME NEW j, NEW n \in 0..2, n <= i.ended, Reads(j, part(n), told), Plain(i, j)
      PROVE  LET r == handle_plain_key(j, Marker[n + 1]) IN Reads(r, part(n + 1), told) /\ Plain(i, r)
  <2>1. Marker[n + 1] \in Words /\ Append(part(n), Marker[n + 1]) = part(n + 1)
    BY <1>0, Marked
  <2> HIDE DEF part
  <2>2. Plain(j, handle_plain_key(j, Marker[n + 1]))
        /\ Reads(handle_plain_key(j, Marker[n + 1]), Append(part(n), Marker[n + 1]), told)
    BY <1>1, <2>1, ReadsNext
  <2> QED
    BY <1>1, <2>1, <2>2 DEF Plain
<1>2. part(0) = bytes /\ Plain(i, i)
  BY <1>0, Marked DEF Plain
<1> DEFINE a == replayed(i, 1)
           b == replayed(a, 2)
           c == replayed(b, 3)
           r == [c EXCEPT !.ended = 0]
<1>3. Reads(c, part(i.ended), told) /\ Plain(i, c)
  <2> HIDE DEF part
  <2>1. CASE i.ended = 0
    <3>1. a = i /\ b = i /\ c = i
      BY <2>1
    <3> QED
      BY <1>2, <2>1, <3>1
  <2>2. CASE i.ended >= 1
    <3>1. a = handle_plain_key(i, Marker[0 + 1]) /\ 0 <= i.ended
      BY <1>0, <2>2
    <3>2. Reads(a, part(0 + 1), told) /\ Plain(i, a)
      <4> HIDE DEF a
      <4> QED
        BY <1>1, <1>2, <3>1
    <3>3. CASE i.ended = 1
      <4>1. b = a /\ c = a
        BY <3>3
      <4> QED
        BY <3>2, <3>3, <4>1
    <3>4. CASE i.ended >= 2
      <4>1. b = handle_plain_key(a, Marker[1 + 1]) /\ 1 <= i.ended
        BY <1>0, <3>4
      <4>2. Reads(b, part(1 + 1), told) /\ Plain(i, b)
        <5> HIDE DEF a, b
        <5> QED
          BY <1>1, <3>2, <4>1
      <4>3. CASE i.ended = 2
        <5>1. c = b
          BY <4>3
        <5> QED
          BY <4>2, <4>3, <5>1
      <4>4. CASE i.ended = 3
        <5>1. c = handle_plain_key(b, Marker[2 + 1]) /\ 2 <= i.ended
          BY <4>4
        <5>2. Reads(c, part(2 + 1), told) /\ Plain(i, c)
          <6> HIDE DEF b, c
          <6> QED
            BY <1>1, <4>2, <5>1
        <5> QED
          BY <4>4, <5>2
      <4> QED
        BY <1>0, <3>4, <4>3, <4>4
    <3> QED
      BY <1>0, <2>2, <3>3, <3>4
  <2> QED
    BY <1>0, <2>1, <2>2
<1>4. Reads(r, part(i.ended), told) /\ Pasting(i, r) /\ r.paste = i.paste /\ r.ended = 0
  <2> HIDE DEF c, part
  <2>1. c \in Inputs
    BY <1>3 DEF Reads
  <2>2. r \in Inputs /\ r.utf8 = c.utf8 /\ r.out = c.out /\ r.ended = 0 /\ r.paste = c.paste
        /\ Pasting(c, r)
    BY <2>1 DEF Inputs, Pasting
  <2> HIDE DEF r
  <2> QED
    BY <1>3, <2>2 DEF Reads, Pasting, Plain
<1> QED
  BY <1>4

\* How much of the marker has matched is a field of its own.
LEMMA EndedNext ==
  ASSUME NEW f \in Inputs, NEW e \in 0..3, NEW r, r = [f EXCEPT !.ended = e]
  PROVE  /\ r \in Inputs /\ r.utf8 = f.utf8 /\ r.out = f.out /\ r.ended = e /\ r.paste = f.paste
         /\ Pasting(f, r)
  BY DEF Inputs, Pasting

\* After a mismatch all of it is payload, but for an escape that may begin the marker.
Repaid(i, r, b, past, heard) ==
  /\ Pasting(i, r) /\ r.paste = i.paste
  /\ Reads(r, IF b = "esc" THEN past ELSE Append(past, b), heard)
  /\ r.ended = IF b = "esc" THEN 1 ELSE 0
LEMMA MismatchedReads ==
  ASSUME NEW i, NEW bytes, NEW told, Reads(i, bytes, told), NEW b \in Words,
         NEW r, r = Mismatched(i, b), NEW past, past = bytes \o SubSeq(Marker, 1, i.ended)
  PROVE  Repaid(i, r, b, past, told)
<1> DEFINE replayed(j, n) == IF n <= i.ended THEN handle_plain_key(j, Marker[n]) ELSE j
           f == [replayed(replayed(replayed(i, 1), 2), 3) EXCEPT !.ended = 0]
<1>1. Reads(f, past, told) /\ Pasting(i, f) /\ f.paste = i.paste /\ f.ended = 0
  BY Replayed
<1>2. r = IF b = "esc" THEN [f EXCEPT !.ended = 1] ELSE handle_plain_key(f, b)
  BY DEF Mismatched, Marker
<1> HIDE DEF f
<1>3. CASE b = "esc"
  <2>1. f \in Inputs
    BY <1>1 DEF Reads
  <2>2. r = [f EXCEPT !.ended = 1]
    BY <1>2, <1>3
  <2>3. r \in Inputs /\ r.utf8 = f.utf8 /\ r.out = f.out /\ r.ended = 1 /\ r.paste = f.paste
        /\ Pasting(f, r)
    BY <2>1, <2>2, EndedNext
  <2>4. Reads(r, past, told) /\ Pasting(i, r) /\ r.paste = i.paste
    BY <1>1, <2>3 DEF Reads, Pasting
  <2> QED
    BY <1>3, <2>3, <2>4 DEF Repaid
<1>4. CASE b # "esc"
  <2>1. r = handle_plain_key(f, b)
    BY <1>2, <1>4
  <2>2. Plain(f, r) /\ Reads(r, Append(past, b), told)
    BY <1>1, <2>1, ReadsNext
  <2>3. Pasting(i, r) /\ r.paste = i.paste /\ r.ended = 0
    BY <1>1, <2>2 DEF Plain, Pasting
  <2> QED
    BY <1>4, <2>2, <2>3 DEF Repaid
<1> QED
  BY <1>3, <1>4

-----------------------------------------------------------------------------
(* Control sequences: what can be under way in the decoder at once.        *)
\* A control sequence in the buffer excludes everything else that can be under way.
Shaped(i) ==
  /\ i \in Inputs /\ Len(i.sequence) <= Capacity
  /\ i.sequence # <<>> => i.sequence[1] = "esc" /\ i.utf8 = 0 /\ ~i.paste /\ i.legacy = 0
  /\ Len(i.sequence) >= 2 => i.sequence[2] \in {"[", "O"}
  /\ i.discard => Len(i.sequence) >= 2 /\ i.sequence[2] = "["
  /\ i.sequence # <<>> /\ ~i.discard => i.intermediate = Contains(i.sequence, "sp")
  /\ i.paste => i.legacy = 0 /\ ~i.intermediate
  /\ i.ended > 0 => i.paste

\* The byte goes to the buffer of a sequence that is whole so far.
Prolongs(i, b, n) ==
  /\ b # "esc" /\ i.sequence # <<>> /\ ~i.discard /\ n.sequence = Append(i.sequence, b)
  /\ Len(i.sequence) >= 2 => b \in Parameters \cup {"sp"} /\ (b = "sp" \/ ~i.intermediate)

\* What a byte outside a paste makes of the decoder.
Advances(i, b, n) ==
  /\ Shaped(n)
  /\ n.paste => n.utf8 = 0 /\ n.ended = 0
  /\ n.sequence # <<>> /\ ~n.discard => (b = "esc" /\ n.sequence = <<"esc">>) \/ Prolongs(i, b, n)
  /\ n.out # <<>> /\ Len(i.sequence) >= 2 /\ b \in Finals => ~i.discard

\* r is i with another event.
Reported(i, r) == Plain(i, r) /\ r.utf8 = i.utf8

\* An event goes to the end and leaves everything else alone.
LEMMA ReportNext ==
  ASSUME NEW i \in Inputs, NEW e \in Told PROVE Reported(i, Report(i, e)) /\ Last(Report(i, e).out) = e
         /\ Report(i, e).out # <<>>
<1>1. PICK all : all = Append(i.out, e)
  OBVIOUS
<1>2. i.out \in Seq(Told)
  BY DEF Inputs
<1>3. all \in Seq(Told) /\ all # <<>> /\ Last(all) = e
  BY <1>1, <1>2 DEF Last
<1>4. Report(i, e) = [i EXCEPT !.out = all]
  BY <1>1 DEF Report
<1> QED
  BY <1>3, <1>4 DEF Reported, Plain, Inputs

\* An event leaves a decoder in order.
LEMMA ReportedShape == ASSUME NEW i, NEW r, Shaped(i), Reported(i, r) PROVE Shaped(r)
  BY DEF Shaped, Reported, Plain

\* An escape that nothing continues is a key, and the buffer is empty again.
LEMMA EscapedNext ==
  ASSUME NEW i, Shaped(i), NEW b
  PROVE  LET j == Escaped(i, b)
         IN /\ Shaped(j) /\ j.paste = i.paste /\ j.legacy = i.legacy /\ j.utf8 = i.utf8
            /\ IF i.sequence = <<"esc">> /\ b \notin {"[", "O"} THEN j.sequence = <<>> ELSE j = i
<1>1. CASE i.sequence = <<"esc">> /\ b \notin {"[", "O"}
  <2>1. PICK k : k = [i EXCEPT !.sequence = <<>>]
    OBVIOUS
  <2>2. <<>> \in Texts /\ i \in Inputs /\ Len(<<>>) = 0 /\ Capacity \in Nat
    BY CapacityAssumption, Empties DEF Shaped
  <2>3. /\ k \in Inputs /\ k.sequence = <<>> /\ k.discard = i.discard /\ k.intermediate = i.intermediate
        /\ k.legacy = i.legacy /\ k.paste = i.paste /\ k.ended = i.ended /\ k.utf8 = i.utf8 /\ k.out = i.out
    BY <2>1, <2>2 DEF Inputs
  <2>4. Len(i.sequence) = 1
    BY <1>1
  <2>5. ~i.discard
    BY <2>4 DEF Shaped
  <2>6. Shaped(k)
    BY <2>2, <2>3, <2>5 DEF Shaped
  <2>7. Escaped(i, b) = Tap(k, "escape") /\ "escape" \in Words
    BY <1>1, <2>1 DEF Escaped, Words
  <2>8. Reported(k, Tap(k, "escape"))
    BY <2>3, <2>7, TapNext DEF Reported
  <2> QED
    BY <1>1, <2>3, <2>6, <2>7, <2>8, ReportedShape DEF Reported, Plain
<1>2. CASE ~(i.sequence = <<"esc">> /\ b \notin {"[", "O"})
  BY <1>2 DEF Escaped
<1> QED
  BY <1>1, <1>2

\* A byte of a legacy mouse report.
LEMMA LegacyNext ==
  ASSUME NEW i, Shaped(i), i.legacy > 0, NEW b
  PROVE  Advances(i, b, Legacy(i, b)) /\ ~Legacy(i, b).paste
<1>1. PICK j : j = [i EXCEPT !.legacy = @ - 1]
  OBVIOUS
<1>2. i.legacy \in 1..3 /\ i.legacy - 1 \in 0..3
  BY DEF Shaped, Inputs
<1>3. /\ j \in Inputs /\ j.sequence = i.sequence /\ j.discard = i.discard /\ j.intermediate = i.intermediate
      /\ j.legacy = i.legacy - 1 /\ j.paste = i.paste /\ j.ended = i.ended /\ j.utf8 = i.utf8 /\ j.out = i.out
  BY <1>1, <1>2 DEF Shaped, Inputs
<1>4. i.sequence = <<>> /\ ~i.paste
  BY DEF Shaped
<1>5. Shaped(j)
  BY <1>3, <1>4 DEF Shaped
<1>6. <<"mouse", "legacy">> \in Told
  BY DEF Told, Words
<1>7. Legacy(i, b) = j \/ Legacy(i, b) = Report(j, <<"mouse", "legacy">>)
  BY <1>1 DEF Legacy
<1>8. Shaped(Legacy(i, b)) /\ Legacy(i, b).sequence = <<>> /\ ~Legacy(i, b).paste
  BY <1>3, <1>4, <1>5, <1>6, <1>7, ReportNext, ReportedShape DEF Reported, Plain
<1>9. Len(i.sequence) = 0
  BY <1>4
<1> QED
  BY <1>8, <1>9 DEF Advances

\* An escape begins a sequence, whatever it interrupts.
LEMMA StartsNext ==
  ASSUME NEW i, Shaped(i), ~i.paste, i.legacy = 0
  PROVE  LET n == Starts(i)
         IN /\ Shaped(n) /\ n.sequence = <<"esc">> /\ ~n.discard /\ ~n.intermediate /\ ~n.paste
            /\ n.legacy = 0 /\ n.utf8 = 0
<1>1. PICK j : j = Utf8Cut(i)
  OBVIOUS
<1>2. j \in Inputs /\ ~j.paste /\ j.legacy = 0 /\ j.utf8 = 0 /\ j.ended = i.ended
  BY <1>1, CutNext DEF Shaped, Plain
<1>0. <<"esc">> \in Texts
  <2>1. "esc" \in Words
    BY DEF Words
  <2> QED
    BY <2>1 DEF Texts
<1>3. PICK s \in Texts : s = <<"esc">>
  BY <1>0
<1>4. Starts(i) = [j EXCEPT !.sequence = s, !.discard = FALSE, !.intermediate = FALSE]
  BY <1>1, <1>3 DEF Starts
<1>5. PICK n : n = Starts(i)
  OBVIOUS
<1>6. /\ n \in Inputs /\ n.sequence = s /\ ~n.discard /\ ~n.intermediate /\ ~n.paste
      /\ n.legacy = 0 /\ n.utf8 = 0 /\ n.ended = i.ended
  BY <1>2, <1>4, <1>5 DEF Inputs
<1>7. Len(s) = 1 /\ s[1] = "esc" /\ ~Contains(s, "sp")
  BY <1>3 DEF Contains
<1>8. Shaped(n)
  <2>1. n.intermediate = Contains(s, "sp")
    <3>1. Contains(s, "sp") \in BOOLEAN
      BY DEF Contains
    <3>2. n.intermediate \in BOOLEAN
      BY <1>6 DEF Inputs
    <3> QED
      BY <1>6, <1>7, <3>1, <3>2
  <2>2. i.ended = 0 /\ Capacity \in Nat /\ Capacity >= 2
    BY CapacityAssumption DEF Shaped, Inputs
  <2> QED
    BY <1>6, <1>7, <2>1, <2>2 DEF Shaped
<1> QED
  BY <1>3, <1>5, <1>6, <1>8

-----------------------------------------------------------------------------
(* A final byte.                                                           *)
\* A final byte reports, begins a paste or a legacy report, and keeps the decoder in order.
LEMMA FinalNext ==
  ASSUME NEW i, Shaped(i), Len(i.sequence) >= 2, ~i.discard, NEW b \in Words
  PROVE  LET r == Final(i, b)
         IN /\ r \in Inputs /\ r.sequence = i.sequence /\ r.utf8 = 0 /\ r.ended = 0
            /\ r.intermediate = i.intermediate /\ r.discard = i.discard
            /\ r.paste => r.legacy = 0 /\ ~r.intermediate
<1>0. i \in Inputs /\ i.sequence # <<>> /\ i.sequence \in Texts /\ Len(i.sequence) \in Nat
  BY DEF Shaped, Inputs, Texts
<1>A. PICK ps : ps = SubSeq(i.sequence, 3, Len(i.sequence))
  OBVIOUS
<1>1. i.utf8 = 0 /\ i.ended = 0 /\ ~i.paste /\ i.legacy = 0
  BY <1>0 DEF Shaped, Inputs
<1>2. PICK j : j = IF b = "y" THEN Report(i, <<"report", b>>) ELSE i
  OBVIOUS
<1>3. Reported(i, j)
  <2>1. <<"report", b>> \in Told
    BY DEF Told
  <2>2. Reported(i, i)
    BY <1>0 DEF Reported, Plain
  <2> QED
    BY <1>0, <1>2, <2>1, <2>2, ReportNext
<1>4. j \in Inputs
  BY <1>3 DEF Reported, Plain
<1>5. ASSUME NEW r, Reported(j, r)
      PROVE  /\ r \in Inputs /\ r.sequence = i.sequence /\ r.utf8 = 0 /\ r.ended = 0
             /\ r.intermediate = i.intermediate /\ r.discard = i.discard /\ ~r.paste
  BY <1>1, <1>3, <1>5 DEF Reported, Plain
<1>6. Reported(j, j)
  BY <1>4 DEF Reported, Plain
<1>7. ASSUME NEW e \in {<<"mouse", "sgr">>, <<"key", "kitty">>, <<"key", "up">>, <<"key", "named">>}
      PROVE  Reported(j, Report(j, e))
  <2>1. e \in Told
    BY DEF Told, Words
  <2> QED
    BY <1>4, <2>1, ReportNext
<1>8. ASSUME ps = <<"200">> PROVE ~i.intermediate
  <2>1. Len(i.sequence) = 3
    <3>1. \A k \in 3..Len(i.sequence) : i.sequence[k] \in Words
      BY <1>0 DEF Texts
    <3>2. Len(ps) = IF 3 <= Len(i.sequence) THEN Len(i.sequence) - 3 + 1 ELSE 0
      BY <1>0, <1>A, <3>1, SubSeqProperties
    <3>3. Len(ps) = 1
      BY <1>8
    <3>4. PICK l \in Nat : l = Len(i.sequence)
      BY <1>0
    <3>5. 1 = IF 3 <= l THEN l - 3 + 1 ELSE 0
      BY <3>2, <3>3, <3>4
    <3>6. l = 3
      BY <3>5
    <3> QED
      BY <3>4, <3>6
  <2>2. i.sequence[3] = "200"
    <3>1. \A k \in 3..Len(i.sequence) : i.sequence[k] \in Words
      BY <1>0 DEF Texts
    <3>2. \A k \in 1..(Len(i.sequence) - 3 + 1) : ps[k] = i.sequence[3 + k - 1]
      BY <1>0, <1>A, <3>1, SubSeqProperties
    <3>3. ps[1] = i.sequence[3 + 1 - 1]
      BY <2>1, <3>2
    <3> QED
      BY <1>8, <3>3
  <2>3. i.sequence[1] = "esc" /\ i.sequence[2] \in {"[", "O"}
    BY <1>0 DEF Shaped
  <2>4. ~Contains(i.sequence, "sp")
    <3>0. PICK l \in Nat : l = Len(i.sequence)
      BY <1>0
    <3>1. \A k \in 1..l : k = 1 \/ k = 2 \/ k = 3
      BY <2>1, <3>0
    <3> QED
      BY <2>2, <2>3, <3>0, <3>1 DEF Contains
  <2> QED
    BY <1>0, <2>4 DEF Shaped
<1>9. CASE b = "M" /\ ps = <<>>
  <2>1. Final(i, b) = [j EXCEPT !.legacy = 3]
    BY <1>A, <1>2, <1>9 DEF Final
  <2>2. PICK r : r = [j EXCEPT !.legacy = 3]
    OBVIOUS
  <2>3. /\ r \in Inputs /\ r.sequence = j.sequence /\ r.discard = j.discard /\ r.intermediate = j.intermediate
        /\ r.paste = j.paste /\ r.ended = j.ended /\ r.utf8 = j.utf8
    BY <1>4, <2>2 DEF Inputs
  <2> QED
    BY <1>1, <1>3, <2>1, <2>2, <2>3 DEF Reported, Plain
<1>10. CASE ~(b = "M" /\ ps = <<>>)
  <2>1. \/ Final(i, b) = j
        \/ \E e \in {<<"mouse", "sgr">>, <<"key", "kitty">>, <<"key", "up">>, <<"key", "named">>} :
             Final(i, b) = Report(j, e)
        \/ ps = <<"200">> /\ Final(i, b) = [j EXCEPT !.paste = TRUE]
    <3>1. CASE b = "M" /\ ps # <<>> /\ ps[1] = "<"
      <4>1. Final(i, b) = handle_sgr_mouse(j, ps)
        BY <1>A, <1>2, <1>10, <3>1 DEF Final
      <4> QED
        BY <4>1 DEF handle_sgr_mouse
    <3>2. CASE b = "u"
      <4>1. Final(i, b) = handle_kitty_key(j, ps)
        BY <1>A, <1>2, <1>10, <3>2 DEF Final
      <4> QED
        BY <4>1 DEF handle_kitty_key
    <3>3. CASE ~(b = "M" /\ ps # <<>> /\ ps[1] = "<") /\ b # "u"
      <4>1. Final(i, b) = handle_csi_key(j, ps, b)
        BY <1>A, <1>2, <1>10, <3>3 DEF Final
      <4> QED
        BY <4>1 DEF handle_csi_key
    <3> QED
      BY <3>1, <3>2, <3>3
  <2>2. CASE Final(i, b) = j
    BY <1>5, <1>6, <2>2
  <2>3. CASE \E e \in {<<"mouse", "sgr">>, <<"key", "kitty">>, <<"key", "up">>, <<"key", "named">>} :
               Final(i, b) = Report(j, e)
    <3>1. Reported(j, Final(i, b))
      BY <1>7, <2>3
    <3> QED
      BY <1>5, <3>1
  <2>4. CASE ps = <<"200">> /\ Final(i, b) = [j EXCEPT !.paste = TRUE]
    <3>1. PICK r : r = [j EXCEPT !.paste = TRUE]
      OBVIOUS
    <3>2. /\ r \in Inputs /\ r.sequence = j.sequence /\ r.discard = j.discard
          /\ r.intermediate = j.intermediate /\ r.legacy = j.legacy /\ r.ended = j.ended /\ r.utf8 = j.utf8
      BY <1>4, <3>1 DEF Inputs
    <3> QED
      BY <1>1, <1>3, <1>8, <2>4, <3>1, <3>2 DEF Reported, Plain
  <2> QED
    BY <2>1, <2>2, <2>3, <2>4
<1> QED
  BY <1>9, <1>10

-----------------------------------------------------------------------------
(* A byte of a sequence.                                                   *)
\* A sequence with another byte.
LEMMA ContainsNext ==
  ASSUME NEW s \in Texts, NEW b \in Words
  PROVE  /\ Append(s, b) \in Texts /\ Len(Append(s, b)) = Len(s) + 1
         /\ Append(s, b)[Len(s) + 1] = b /\ \A k \in 1..Len(s) : Append(s, b)[k] = s[k]
         /\ Contains(Append(s, b), "sp") = (Contains(s, "sp") \/ b = "sp")
<1>1. PICK t : t = Append(s, b)
  OBVIOUS
<1>2. PICK n \in Nat : n = Len(s)
  BY DEF Texts
<1>3. t \in Texts /\ Len(t) = n + 1 /\ t[n + 1] = b /\ \A k \in 1..n : t[k] = s[k]
  BY <1>1, <1>2 DEF Texts
<1>4. \A k \in 1..(n + 1) : k \in 1..n \/ k = n + 1
  OBVIOUS
<1>5. Contains(t, "sp") <=> (Contains(s, "sp") \/ b = "sp")
  BY <1>2, <1>3, <1>4 DEF Contains
<1>6. Contains(t, "sp") = (Contains(s, "sp") \/ b = "sp")
  <2>1. Contains(t, "sp") \in BOOLEAN /\ Contains(s, "sp") \in BOOLEAN
    BY DEF Contains
  <2> QED
    BY <1>5, <2>1
<1> QED
  BY <1>1, <1>2, <1>3, <1>6

\* A key outside sequences, or the one that an escape was before.
LEMMA KeyNext ==
  ASSUME NEW i, Shaped(i), Len(i.sequence) < 2, NEW j, Shaped(j), j.sequence = <<>>, ~j.paste, NEW b \in Words
  PROVE  Advances(i, b, handle_plain_key(j, b))
<1>1. PICK n : n = handle_plain_key(j, b)
  OBVIOUS
<1>2. Plain(j, n)
  BY <1>1, PlainKey DEF Shaped
<1>3. /\ n \in Inputs /\ n.sequence = <<>> /\ n.discard = j.discard /\ n.intermediate = j.intermediate
      /\ n.legacy = j.legacy /\ ~n.paste /\ n.ended = j.ended
  BY <1>2 DEF Plain
<1>4. Shaped(n)
  BY <1>3 DEF Shaped
<1>5. ~(Len(i.sequence) >= 2)
  <2>1. Len(i.sequence) \in Nat
    BY DEF Shaped, Inputs, Texts
  <2> QED
    BY <2>1
<1> QED
  BY <1>1, <1>3, <1>4, <1>5 DEF Advances

\* The introducer of a control sequence, or of an SS3 key.
LEMMA SecondNext ==
  ASSUME NEW i, Shaped(i), Len(i.sequence) = 1, NEW b \in {"[", "O"}
  PROVE  Advances(i, b, [i EXCEPT !.sequence = Append(@, b)])
<1>1. PICK s : s = Append(i.sequence, b)
  OBVIOUS
<1>2. PICK n : n = [i EXCEPT !.sequence = s]
  OBVIOUS
<1>3. b \in Words /\ i.sequence \in Texts /\ i.sequence # <<>> /\ i.sequence[1] = "esc" /\ b # "esc"
  <2>1. b \in Words /\ b # "esc"
    BY DEF Words
  <2>2. i.sequence \in Texts
    BY DEF Shaped, Inputs
  <2>3. i.sequence # <<>>
    OBVIOUS
  <2> QED
    BY <2>1, <2>2, <2>3 DEF Shaped
<1>4. /\ s \in Texts /\ Len(s) = 2 /\ s[1] = "esc" /\ s[2] = b
      /\ Contains(s, "sp") = (Contains(i.sequence, "sp") \/ b = "sp")
  BY <1>1, <1>3, ContainsNext
<1>5. /\ ~i.discard /\ ~i.paste /\ i.legacy = 0 /\ i.utf8 = 0 /\ i.ended = 0
      /\ i.intermediate = Contains(i.sequence, "sp")
  BY <1>3 DEF Shaped, Inputs
<1>6. /\ n \in Inputs /\ n.sequence = s /\ n.discard = i.discard /\ n.intermediate = i.intermediate
      /\ n.legacy = i.legacy /\ n.paste = i.paste /\ n.ended = i.ended /\ n.utf8 = i.utf8 /\ n.out = i.out
  BY <1>2, <1>4 DEF Shaped, Inputs
<1>7. n.intermediate = Contains(s, "sp")
  <2>1. b # "sp"
    OBVIOUS
  <2>2. Contains(i.sequence, "sp") \in BOOLEAN
    BY DEF Contains
  <2> QED
    BY <1>4, <1>5, <1>6, <2>1, <2>2
<1>8. Shaped(n)
  BY <1>4, <1>5, <1>6, <1>7, CapacityAssumption DEF Shaped
<1>9. Prolongs(i, b, n)
  BY <1>1, <1>3, <1>5, <1>6 DEF Prolongs
<1> QED
  BY <1>1, <1>2, <1>5, <1>6, <1>8, <1>9 DEF Advances

\* The end of a sequence.
LEMMA ClearsNext ==
  ASSUME NEW i, NEW r \in Inputs, NEW b, r.utf8 = 0, r.ended = 0, r.paste => r.legacy = 0 /\ ~r.intermediate,
         NEW n, n = [r EXCEPT !.sequence = <<>>, !.discard = FALSE],
         n.out # <<>> => ~i.discard
  PROVE  Advances(i, b, n)
<1>1. /\ n \in Inputs /\ n.sequence = <<>> /\ ~n.discard /\ n.intermediate = r.intermediate
      /\ n.legacy = r.legacy /\ n.paste = r.paste /\ n.ended = r.ended /\ n.utf8 = r.utf8
  BY Empties DEF Inputs
<1>2. Shaped(n)
  BY <1>1, CapacityAssumption DEF Shaped
<1> QED
  BY <1>1, <1>2 DEF Advances

\* A byte that spoils the sequence.
LEMMA SpoilsNext ==
  ASSUME NEW i, Shaped(i), NEW j, Shaped(j), Len(j.sequence) >= 2, j.sequence[2] = "[", NEW b, b \notin Finals,
         NEW n, n = [j EXCEPT !.discard = TRUE]
  PROVE  Advances(i, b, n)
<1>0. j.sequence # <<>>
  OBVIOUS
<1>1. /\ n \in Inputs /\ n.sequence = j.sequence /\ n.discard /\ n.intermediate = j.intermediate
      /\ n.legacy = j.legacy /\ n.paste = j.paste /\ n.ended = j.ended /\ n.utf8 = j.utf8
  BY DEF Shaped, Inputs
<1>2. Shaped(n)
  BY <1>1 DEF Shaped
<1> QED
  BY <1>0, <1>1, <1>2 DEF Advances, Shaped

\* A parameter or an intermediate byte.
LEMMA ParameterNext ==
  ASSUME NEW i, Shaped(i), Len(i.sequence) >= 2, i.sequence[2] = "[", NEW b \in Words,
         b \in Parameters \cup {"sp"}
  PROVE  Advances(i, b, Parameter(i, b))
<1>0. b \notin Finals /\ b # "esc" /\ i.sequence # <<>> /\ i.sequence \in Texts /\ i \in Inputs
  <2>1. b \notin Finals /\ b # "esc"
    BY DEF Finals, Parameters
  <2>2. i.sequence # <<>>
    OBVIOUS
  <2> QED
    BY <2>1, <2>2 DEF Shaped, Inputs
<1>1. PICK j : j = IF b = "sp" THEN [i EXCEPT !.intermediate = TRUE]
                   ELSE IF i.intermediate THEN [i EXCEPT !.discard = TRUE] ELSE i
  OBVIOUS
<1>2. PICK n : n = Parameter(i, b)
  OBVIOUS
<1>3. n = IF Len(j.sequence) < Capacity THEN [j EXCEPT !.sequence = Append(@, b)]
          ELSE [j EXCEPT !.discard = TRUE]
  BY <1>1, <1>2 DEF Parameter, Stores
<1>4. /\ j \in Inputs /\ j.sequence = i.sequence /\ j.legacy = i.legacy /\ j.paste = i.paste
      /\ j.ended = i.ended /\ j.utf8 = i.utf8
      /\ j.discard = (i.discard \/ (b # "sp" /\ i.intermediate))
      /\ j.intermediate = (i.intermediate \/ b = "sp")
  BY <1>0, <1>1 DEF Inputs
<1>5. /\ i.sequence[1] = "esc" /\ ~i.paste /\ i.legacy = 0 /\ i.utf8 = 0 /\ i.ended = 0
      /\ Len(i.sequence) <= Capacity /\ Len(i.sequence) \in Nat
      /\ (~i.discard => i.intermediate = Contains(i.sequence, "sp"))
  BY <1>0 DEF Shaped, Inputs, Texts
<1>6. CASE Len(j.sequence) < Capacity
  <2>1. PICK s : s = Append(i.sequence, b)
    OBVIOUS
  <2>2. /\ s \in Texts /\ Len(s) = Len(i.sequence) + 1 /\ s[1] = "esc" /\ s[2] = "["
        /\ Contains(s, "sp") = (Contains(i.sequence, "sp") \/ b = "sp")
    <3>1. 1 \in 1..Len(i.sequence) /\ 2 \in 1..Len(i.sequence)
      BY <1>5
    <3> QED
      BY <1>0, <1>5, <2>1, <3>1, ContainsNext
  <2>3. n = [j EXCEPT !.sequence = s]
    BY <1>3, <1>4, <1>6, <2>1
  <2>4. /\ n \in Inputs /\ n.sequence = s /\ n.discard = j.discard /\ n.intermediate = j.intermediate
        /\ n.legacy = j.legacy /\ n.paste = j.paste /\ n.ended = j.ended /\ n.utf8 = j.utf8
    BY <1>4, <2>2, <2>3 DEF Inputs
  <2>5. ~n.discard => n.intermediate = Contains(s, "sp")
    BY <1>4, <1>5, <2>2, <2>4
  <2>6. Len(s) <= Capacity /\ Len(s) >= 2
    BY <1>4, <1>5, <1>6, <2>2, CapacityAssumption
  <2>7. Shaped(n)
    BY <1>4, <1>5, <2>2, <2>4, <2>5, <2>6 DEF Shaped
  <2>8. ~n.discard => Prolongs(i, b, n)
    BY <1>0, <1>4, <2>1, <2>4 DEF Prolongs
  <2> QED
    BY <1>0, <1>2, <1>4, <1>5, <2>4, <2>7, <2>8 DEF Advances
<1>7. CASE ~(Len(j.sequence) < Capacity)
  <2>1. n = [j EXCEPT !.discard = TRUE]
    BY <1>3, <1>7
  <2>2. /\ n \in Inputs /\ n.sequence = j.sequence /\ n.discard /\ n.intermediate = j.intermediate
        /\ n.legacy = j.legacy /\ n.paste = j.paste /\ n.ended = j.ended /\ n.utf8 = j.utf8
    BY <1>4, <2>1 DEF Inputs
  <2>3. Shaped(n)
    BY <1>4, <1>5, <2>2 DEF Shaped
  <2> QED
    BY <1>0, <1>2, <1>4, <1>5, <2>2, <2>3 DEF Advances
<1> QED
  BY <1>6, <1>7

-----------------------------------------------------------------------------
(* A byte outside a paste.                                                 *)
\* Every byte outside a paste.
LEMMA FeedNext ==
  ASSUME NEW i, Shaped(i), i.out = <<>>, ~i.paste, NEW b \in Words
  PROVE  Advances(i, b, Feed(i, b)) /\ (i.legacy > 0 => ~Feed(i, b).paste)
<1>1. PICK j : j = Escaped(i, b)
  OBVIOUS
<1>2. /\ Shaped(j) /\ ~j.paste /\ j.legacy = i.legacy
      /\ IF i.sequence = <<"esc">> /\ b \notin {"[", "O"} THEN j.sequence = <<>> ELSE j = i
  BY <1>1, EscapedNext
<1>3. PICK s \in Texts : s = j.sequence
  BY <1>2 DEF Shaped, Inputs
<1>4. Len(s) \in Nat /\ i \in Inputs /\ j \in Inputs /\ i.legacy \in 0..3
  BY <1>2, <1>3 DEF Shaped, Inputs, Texts
<1>5. Feed(i, b) = IF i.legacy > 0 THEN Legacy(i, b)
                   ELSE IF b = "esc" THEN Starts(j)
                   ELSE IF Len(s) = 0 THEN handle_plain_key(j, b)
                   ELSE IF Len(s) = 1 THEN [j EXCEPT !.sequence = Append(@, b)]
                   ELSE IF s[2] = "O" THEN [handle_ss3_key(j, b) EXCEPT !.sequence = <<>>]
                   ELSE IF b \in Finals THEN [(IF j.discard THEN j ELSE Final(j, b))
                                                 EXCEPT !.sequence = <<>>, !.discard = FALSE]
                   ELSE IF b \in Parameters \cup {"sp"} THEN Parameter(j, b)
                   ELSE [j EXCEPT !.discard = TRUE]
  BY <1>1, <1>3 DEF Feed
<1>6. Len(s) = 0 => Len(i.sequence) < 2
  <2>1. ASSUME i.sequence = <<"esc">> PROVE Len(i.sequence) < 2
    BY <2>1
  <2>2. ASSUME Len(s) = 0, j = i PROVE Len(i.sequence) < 2
    BY <1>3, <2>2
  <2> QED
    BY <1>2, <2>1, <2>2
<1>7. Len(s) >= 1 => j = i
  <2>1. j.sequence = <<>> => Len(s) = 0
    BY <1>3
  <2> QED
    BY <1>2, <1>4, <2>1
<1>8. CASE i.legacy > 0
  BY <1>5, <1>8, LegacyNext
<1>9. CASE ~(i.legacy > 0) /\ b = "esc"
  <2>1. Feed(i, b) = Starts(j) /\ j.legacy = 0
    BY <1>2, <1>4, <1>5, <1>9
  <2>2. LET n == Starts(j)
        IN Shaped(n) /\ n.sequence = <<"esc">> /\ ~n.discard /\ ~n.intermediate /\ ~n.paste
           /\ n.legacy = 0 /\ n.utf8 = 0
    BY <1>2, <2>1, StartsNext
  <2>3. b \notin Finals
    BY <1>9 DEF Finals
  <2> QED
    BY <1>9, <2>1, <2>2, <2>3 DEF Advances
<1>10. CASE ~(i.legacy > 0) /\ b # "esc" /\ Len(s) = 0
  <2>1. j.sequence = <<>> /\ Feed(i, b) = handle_plain_key(j, b)
    BY <1>3, <1>5, <1>10
  <2> QED
    BY <1>2, <1>6, <1>10, <2>1, KeyNext
<1>11. CASE ~(i.legacy > 0) /\ b # "esc" /\ Len(s) = 1
  <2>1. j = i /\ Len(i.sequence) = 1 /\ Feed(i, b) = [i EXCEPT !.sequence = Append(@, b)]
    BY <1>3, <1>5, <1>7, <1>11
  <2>2. b \in {"[", "O"}
    <3>1. i.sequence = <<"esc">>
      <4>1. i.sequence \in Texts /\ i.sequence[1] = "esc"
        <5>1. i.sequence # <<>>
          BY <2>1
        <5> QED
          BY <5>1, <1>4 DEF Shaped, Inputs
      <4> QED
        BY <2>1, <4>1 DEF Texts
    <3>2. i.sequence # <<>>
      BY <2>1
    <3> QED
      BY <1>2, <2>1, <3>1, <3>2
  <2> QED
    BY <1>11, <2>1, <2>2, SecondNext
<1>12. CASE ~(i.legacy > 0) /\ b # "esc" /\ Len(s) >= 2
  <2>1. j = i /\ Len(i.sequence) >= 2 /\ i.sequence # <<>> /\ s = i.sequence /\ Len(s) # 0 /\ Len(s) # 1
    <3>1. j = i /\ s = i.sequence
      BY <1>3, <1>4, <1>7, <1>12
    <3>2. s # <<>>
      BY <1>12
    <3>3. Len(s) # 0 /\ Len(s) # 1
      BY <1>4, <1>12
    <3>4. Len(s) >= 2
      BY <1>12
    <3> HIDE <1>12
    <3> QED
      BY <3>1, <3>2, <3>3, <3>4
  <2>2. i.utf8 = 0 /\ i.ended = 0 /\ i.legacy = 0 /\ i.sequence[2] \in {"[", "O"}
        /\ (i.discard => i.sequence[2] = "[")
    BY <2>1, <1>4 DEF Shaped, Inputs
  <2>3. CASE s[2] = "O"
    <3>1. PICK r : r = handle_ss3_key(i, b)
      OBVIOUS
    <3>2. Feed(i, b) = [r EXCEPT !.sequence = <<>>]
      BY <1>5, <1>12, <2>1, <2>3, <3>1
    <3>3. Reported(i, r)
      <4>1. <<"key", "up">> \in Told
        BY DEF Told, Words
      <4>2. Reported(i, i)
        BY <1>4 DEF Reported, Plain
      <4> QED
        BY <1>4, <3>1, <4>1, <4>2, ReportNext DEF handle_ss3_key
    <3>4. ~i.discard
      BY <2>1, <2>2, <2>3
    <3>5. r \in Inputs /\ r.utf8 = 0 /\ r.ended = 0 /\ ~r.paste /\ r.discard = FALSE
      BY <2>2, <3>3, <3>4 DEF Reported, Plain, Inputs
    <3>6. Feed(i, b) = [r EXCEPT !.sequence = <<>>, !.discard = FALSE]
      BY <3>2, <3>5 DEF Inputs
    <3> QED
      BY <1>12, <3>4, <3>5, <3>6, ClearsNext
  <2>4. CASE s[2] # "O" /\ b \in Finals
    <3>1. PICK r : r = IF i.discard THEN i ELSE Final(i, b)
      OBVIOUS
    <3>2. PICK n : n = [r EXCEPT !.sequence = <<>>, !.discard = FALSE]
      OBVIOUS
    <3>3. Feed(i, b) = n
      BY <1>5, <1>12, <2>1, <2>4, <3>1, <3>2
    <3>4. r \in Inputs /\ r.utf8 = 0 /\ r.ended = 0 /\ (r.paste => r.legacy = 0 /\ ~r.intermediate)
      <4>1. CASE i.discard
        BY <1>4, <2>2, <3>1, <4>1
      <4>2. CASE ~i.discard
        BY <2>1, <3>1, <4>2, FinalNext
      <4> QED
        BY <4>1, <4>2
    <3>5. n.out # <<>> => ~i.discard
      BY <1>4, <3>1, <3>2 DEF Inputs
    <3> QED
      BY <1>12, <3>2, <3>3, <3>4, <3>5, ClearsNext
  <2>5. CASE s[2] # "O" /\ b \notin Finals /\ b \in Parameters \cup {"sp"}
    <3>1. Feed(i, b) = Parameter(i, b) /\ i.sequence[2] = "["
      BY <1>5, <1>12, <2>1, <2>2, <2>5
    <3> QED
      BY <1>12, <2>1, <2>5, <3>1, ParameterNext
  <2>6. CASE s[2] # "O" /\ b \notin Finals /\ b \notin Parameters \cup {"sp"}
    <3>1. Feed(i, b) = [i EXCEPT !.discard = TRUE] /\ i.sequence[2] = "["
      BY <1>5, <1>12, <2>1, <2>2, <2>6
    <3> QED
      BY <1>12, <2>1, <2>6, <3>1, SpoilsNext
  <2> QED
    BY <2>3, <2>4, <2>5, <2>6
<1>13. Len(s) = 0 \/ Len(s) = 1 \/ Len(s) >= 2
  <2>1. PICK l \in Nat : l = Len(s)
    BY <1>4
  <2>2. l = 0 \/ l = 1 \/ l >= 2
    OBVIOUS
  <2> QED
    BY <2>1, <2>2
<1> QED
  BY <1>8, <1>9, <1>10, <1>11, <1>12, <1>13

-----------------------------------------------------------------------------
(* The inductive invariant, and what a byte of a paste preserves of it.    *)
\* The text of a paste is what was received of it, but for a part of the marker;
\* a sequence that may still be reported is what arrived since its escape.
PasteFollows ==
  IF input.paste
  THEN \E bytes \in Texts : /\ received = bytes \o SubSeq(Marker, 1, input.ended)
                            /\ Reads(input, bytes, pasted)
  ELSE received = <<>> /\ pasted = <<>>
SequenceFollows == input.sequence # <<>> /\ ~input.discard => raw = input.sequence /\ ~damaged
DInv == /\ Shaped(input) /\ input.out = <<>> /\ literal = TRUE /\ whole = TRUE
        /\ PasteFollows /\ SequenceFollows

\* A decoder that tells nothing says nothing.
LEMMA NoTaps == Taps(<<>>) = <<>> /\ <<>> \in Seq(Told)
<1>1. Taps(<<>>) = [n \in 1..0 |-> <<>>[n][2]]
  BY DEF Taps
<1> QED
  BY <1>1

\* The next byte is fed to a decoder that has nothing to tell.
LEMMA Quiet ==
  ASSUME NEW n \in Inputs, NEW r, r = [n EXCEPT !.out = <<>>]
  PROVE  /\ r \in Inputs /\ r.out = <<>> /\ Plain(n, r) /\ r.utf8 = n.utf8
         /\ (Shaped(n) => Shaped(r))
         /\ \A bytes, heard : Reads(n, bytes, heard) => Reads(r, bytes, heard \o Taps(n.out))
<1>1. /\ r \in Inputs /\ r.out = <<>> /\ Plain(n, r) /\ r.utf8 = n.utf8
  BY NoTaps DEF Inputs, Plain
<1>2. Shaped(n) => Shaped(r)
  BY <1>1, ReportedShape DEF Reported
<1>3. ASSUME NEW bytes, NEW heard, Reads(n, bytes, heard) PROVE Reads(r, bytes, heard \o Taps(n.out))
  <2>1. Text(bytes, FALSE) \in Texts
    BY <1>3, TextType DEF Reads
  <2>2. (heard \o Taps(n.out)) \o Taps(r.out) = heard \o Taps(n.out)
    BY <1>1, <1>3, <2>1, NoTaps, Nothing DEF Reads
  <2> QED
    BY <1>1, <1>3, <2>1, <2>2 DEF Reads
<1> QED
  BY <1>1, <1>2, <1>3

\* The end of a paste.
LEMMA EndsNext ==
  ASSUME NEW i \in Inputs, NEW n, n = EndsPaste(i)
  PROVE  /\ n \in Inputs /\ Pasting(i, n) /\ n.ended = 0 /\ n.paste = FALSE /\ n.utf8 = 0
         /\ Taps(n.out) = Taps(i.out) \o Cut(i.utf8 = 1)
<1>1. PICK j : j = Utf8Cut(i)
  OBVIOUS
<1>2. Plain(i, j) /\ j.utf8 = 0 /\ Taps(j.out) = Taps(i.out) \o Cut(i.utf8 = 1)
  BY <1>1, CutNext
<1>3. PICK k : k = [j EXCEPT !.ended = 0]
  OBVIOUS
<1>4. k \in Inputs /\ k.ended = 0 /\ k.out = j.out /\ k.utf8 = j.utf8 /\ Pasting(j, k)
  BY <1>2, <1>3, EndedNext DEF Plain
<1>5. n = [k EXCEPT !.paste = FALSE]
  BY <1>1, <1>3 DEF EndsPaste
<1>6. n \in Inputs /\ n.ended = 0 /\ n.out = j.out /\ n.utf8 = j.utf8 /\ Pasting(j, n) /\ n.paste = FALSE
  BY <1>4, <1>5 DEF Inputs, Pasting
<1> QED
  BY <1>2, <1>6 DEF Plain, Pasting

\* A byte of a paste that does not go on with the marker.
LEMMA MismatchNext ==
  ASSUME NEW i, NEW bytes, NEW heard, Reads(i, bytes, heard), NEW b \in Words, b # Marker[i.ended + 1],
         NEW n, n = handle_paste_byte(i, b), NEW past, past = bytes \o SubSeq(Marker, 1, i.ended)
  PROVE  Repaid(i, n, b, past, heard)
<1>1. n = Mismatched(i, b)
  BY DEF handle_paste_byte
<1> QED
  BY <1>1, MismatchedReads

\* What a byte of a paste makes of the decoder and of the text.
Continues(n, text, bytes, heard) ==
  IF n.paste THEN \E past \in Texts : text = past \o SubSeq(Marker, 1, n.ended) /\ Reads(n, past, heard)
  ELSE /\ SubSeq(text, 1, Len(text) - Len(Marker)) = bytes
       /\ heard \o Taps(n.out) = Text(bytes, TRUE)
LEMMA PasteNext ==
  ASSUME NEW i, Shaped(i), i.out = <<>>, i.paste, NEW bytes \in Texts, NEW heard,
         Reads(i, bytes, heard), NEW b \in Words,
         NEW n, n = handle_paste_byte(i, b), NEW text, text = Append(bytes \o SubSeq(Marker, 1, i.ended), b)
  PROVE  Shaped(n) /\ n.sequence = <<>> /\ Continues(n, text, bytes, heard)
<1>7. PICK past : past = bytes \o SubSeq(Marker, 1, i.ended)
  OBVIOUS
<1>0. /\ i \in Inputs /\ i.ended \in 0..3 /\ i.sequence = <<>> /\ i.legacy = 0 /\ ~i.intermediate
      /\ ~i.discard /\ Len(<<>>) = 0 /\ Capacity \in Nat
  BY CapacityAssumption DEF Shaped, Inputs
<1>1. past \in Texts /\ Append(past, Marker[i.ended + 1]) = bytes \o SubSeq(Marker, 1, i.ended + 1)
  BY <1>0, <1>7, Marked
<1>2. ASSUME n \in Inputs, Pasting(i, n), n.paste \/ n.ended = 0 PROVE Shaped(n) /\ n.sequence = <<>>
  BY <1>0, <1>2 DEF Pasting, Shaped
<1>3. CASE b # Marker[i.ended + 1] /\ b = "esc"
  <2>2. Pasting(i, n) /\ n.paste /\ Reads(n, past, heard) /\ n.ended = 1
    <3>1. Repaid(i, n, b, past, heard)
      BY <1>3, <1>7, MismatchNext
    <3> QED
      BY <1>3, <3>1 DEF Repaid
  <2>3. Shaped(n) /\ n.sequence = <<>>
    BY <1>2, <2>2 DEF Reads
  <2>4. text = past \o SubSeq(Marker, 1, 1)
    BY <1>1, <1>3, <1>7, MarkerBegins
  <2> QED
    BY <1>1, <2>2, <2>3, <2>4 DEF Continues
<1>4. CASE b # Marker[i.ended + 1] /\ b # "esc"
  <2>2. Pasting(i, n) /\ n.paste /\ Reads(n, Append(past, b), heard) /\ n.ended = 0
    <3>1. Repaid(i, n, b, past, heard)
      BY <1>4, <1>7, MismatchNext
    <3> QED
      BY <1>4, <3>1 DEF Repaid
  <2>3. Shaped(n) /\ n.sequence = <<>>
    BY <1>2, <2>2 DEF Reads
  <2>4. text = Append(past, b) /\ text \in Texts
    BY <1>1, <1>7 DEF Texts
  <2>5. text = text \o SubSeq(Marker, 1, 0)
    BY <2>4, MarkerBegins
  <2> QED
    BY <2>2, <2>3, <2>4, <2>5 DEF Continues
<1>5. CASE b = Marker[i.ended + 1] /\ i.ended + 1 = 4
  <2>0. Len(Marker) = 4 /\ i.ended = 3
    BY <1>0, <1>5 DEF Marker
  <2>1. n = EndsPaste(i)
    BY <1>5, <2>0 DEF handle_paste_byte
  <2>5. /\ n \in Inputs /\ Pasting(i, n) /\ n.ended = 0 /\ n.paste = FALSE
        /\ Taps(n.out) = Taps(i.out) \o Cut(i.utf8 = 1)
    BY <1>0, <2>1, EndsNext
  <2>6. Shaped(n) /\ n.sequence = <<>>
    BY <1>2, <2>5
  <2>7. heard \o Taps(n.out) = Text(bytes, TRUE)
    <3>1. Taps(n.out) = Cut(Half(bytes))
      <4>1. Cut(Half(bytes)) \in Texts /\ (i.utf8 = 1) = Half(bytes)
        <5>1. Half(bytes) \in BOOLEAN
          BY DEF Half
        <5> QED
          BY <5>1, SaysType DEF Reads
      <4>2. <<>> \o Cut(Half(bytes)) = Cut(Half(bytes))
        BY <4>1, Nothing
      <4> QED
        BY <2>5, <4>1, <4>2, NoTaps
    <3>2. heard \o <<>> = Text(bytes, FALSE) /\ heard \o <<>> = heard
      BY NoTaps, Nothing DEF Reads
    <3> QED
      BY <3>1, <3>2, TextOver
  <2>8. SubSeq(text, 1, Len(text) - Len(Marker)) = bytes
    <3>1. text = bytes \o SubSeq(Marker, 1, 4)
      BY <1>1, <1>5, <1>7
    <3>8. Marker \in Seq(Words)
      BY DEF Marker, Words
    <3>2. PICK m \in Seq(Words) : m = Marker
      BY <3>8
    <3>3. text = bytes \o m /\ Len(m) = 4
      BY <2>0, <3>1, <3>2, SubSeqFull
    <3>4. PICK l \in Nat : l = Len(bytes)
      BY DEF Texts
    <3>5. Len(text) - Len(Marker) = l
      <4>1. Len(bytes \o m) = Len(bytes) + Len(m)
        BY DEF Texts
      <4> QED
        BY <2>0, <3>3, <3>4, <4>1
    <3>6. CASE l = 0
      <4>1. bytes = <<>>
        <5>1. bytes \in Seq(Words) /\ Len(bytes) = 0
          BY <3>4, <3>6 DEF Texts
        <5> QED
          BY <5>1
      <4>2. SubSeq(text, 1, l) = <<>>
        BY <3>6, SubSeqEmpty
      <4> QED
        BY <3>5, <4>1, <4>2
    <3>7. CASE l # 0
      <4>1. bytes \in Seq(Words) /\ 1 \in 1..Len(bytes) /\ l \in 1..Len(bytes)
        BY <3>4, <3>7 DEF Texts
      <4>2. SubSeq(bytes \o m, 1, l) = SubSeq(bytes, 1, l)
        BY <4>1, SubSeqOfConcat1
      <4>3. SubSeq(bytes, 1, l) = bytes
        BY <3>4, <4>1, SubSeqFull
      <4> QED
        BY <3>3, <3>5, <4>2, <4>3
    <3> QED
      BY <3>6, <3>7
  <2> QED
    BY <2>5, <2>6, <2>7, <2>8 DEF Continues
<1>6. CASE b = Marker[i.ended + 1] /\ i.ended + 1 # 4
  <2>0. Len(Marker) = 4 /\ i.ended + 1 \in 0..3
    BY <1>0, <1>6 DEF Marker
  <2>1. n = [i EXCEPT !.ended = @ + 1]
    BY <1>6, <2>0 DEF handle_paste_byte
  <2>2. /\ n \in Inputs /\ Pasting(i, n) /\ n.ended = i.ended + 1 /\ n.paste = i.paste
        /\ n.out = i.out /\ n.utf8 = i.utf8
    BY <1>0, <2>0, <2>1 DEF Inputs, Pasting
  <2>3. Shaped(n) /\ n.sequence = <<>>
    BY <1>2, <2>2
  <2>4. Reads(n, bytes, heard)
    BY <2>2 DEF Reads
  <2>5. text = bytes \o SubSeq(Marker, 1, n.ended)
    <3>1. text = Append(past, Marker[i.ended + 1])
      BY <1>6, <1>7
    <3> QED
      BY <1>1, <2>2, <3>1
  <2> QED
    BY <2>2, <2>3, <2>4, <2>5 DEF Continues
<1> QED
  BY <1>3, <1>4, <1>5, <1>6

-----------------------------------------------------------------------------
(* The invariant holds after every step.                                   *)
\* A byte of a paste.
LEMMA PasteStep == ASSUME DInv, input.paste, NEW b \in Bytes, Receive(b) PROVE DInv'
<1>1. PICK n : n = Feed(input, b)
  OBVIOUS
<1>2. PICK text : text = Append(received, b)
  OBVIOUS
<1>3. PICK bytes \in Texts : received = bytes \o SubSeq(Marker, 1, input.ended) /\ Reads(input, bytes, pasted)
  BY DEF DInv, PasteFollows
<1>4. n = handle_paste_byte(input, b) /\ b \in Words /\ Shaped(input) /\ input.out = <<>>
  BY <1>1 DEF Feed, Words, DInv
<1>5. Shaped(n) /\ n.sequence = <<>> /\ Continues(n, text, bytes, pasted)
  BY <1>2, <1>3, <1>4, PasteNext
<1>6. /\ input' = [n EXCEPT !.out = <<>>]
      /\ received' = (IF n.paste THEN text ELSE <<>>)
      /\ pasted' = (IF n.paste THEN pasted \o Taps(n.out) ELSE <<>>)
      /\ literal' = (literal /\ (~n.paste => pasted \o Taps(n.out) =
                                              Text(SubSeq(text, 1, Len(text) - Len(Marker)), TRUE)))
  BY <1>1, <1>2 DEF Receive
<1>7. whole' = TRUE
  <2>1. input.sequence = <<>> /\ whole = TRUE
    BY <1>4 DEF Shaped, DInv
  <2>2. ~(Len(input.sequence) >= 2)
    BY <2>1
  <2> QED
    BY <2>1, <2>2 DEF Receive
<1>8. /\ Shaped(input') /\ input'.out = <<>> /\ input'.sequence = <<>> /\ input'.paste = n.paste
      /\ input'.ended = n.ended
      /\ \A past, heard : Reads(n, past, heard) => Reads(input', past, heard \o Taps(n.out))
  <2>1. PICK r : r = input'
    OBVIOUS
  <2>2. n \in Inputs /\ r = [n EXCEPT !.out = <<>>]
    BY <1>5, <1>6, <2>1 DEF Shaped
  <2>3. /\ r \in Inputs /\ r.out = <<>> /\ Plain(n, r) /\ r.utf8 = n.utf8
        /\ (Shaped(n) => Shaped(r))
        /\ \A past, heard : Reads(n, past, heard) => Reads(r, past, heard \o Taps(n.out))
    BY <2>2, Quiet
  <2> QED
    BY <1>5, <2>1, <2>3 DEF Plain
<1>9. literal' = TRUE
  BY <1>5, <1>6 DEF DInv, Continues
<1>10. PasteFollows'
  <2>1. CASE n.paste
    <3>1. PICK past \in Texts : text = past \o SubSeq(Marker, 1, n.ended) /\ Reads(n, past, pasted)
      BY <1>5, <2>1 DEF Continues
    <3>2. received' = past \o SubSeq(Marker, 1, input'.ended) /\ Reads(input', past, pasted')
      BY <1>6, <1>8, <2>1, <3>1
    <3> QED
      BY <1>8, <2>1, <3>2 DEF PasteFollows, Reads
  <2>2. CASE ~n.paste
    BY <1>6, <1>8, <2>2 DEF PasteFollows
  <2> QED
    BY <2>1, <2>2
<1> QED
  BY <1>7, <1>8, <1>9, <1>10 DEF DInv, SequenceFollows

\* A byte of anything else.
LEMMA KeyStep == ASSUME DInv, ~input.paste, NEW b \in Bytes, Receive(b) PROVE DInv'
<1>1. PICK n : n = Feed(input, b)
  OBVIOUS
<1>2. /\ b \in Words /\ Shaped(input) /\ input.out = <<>> /\ literal = TRUE /\ whole = TRUE
      /\ received = <<>> /\ pasted = <<>>
  BY DEF Words, DInv, PasteFollows
<1>3. Advances(input, b, n)
  BY <1>1, <1>2, FeedNext
<1>4. /\ input' = [n EXCEPT !.out = <<>>] /\ received' = <<>> /\ pasted' = <<>> /\ literal' = literal
      /\ raw' = (IF b = "esc" THEN <<b>>
                 ELSE IF n.sequence = <<>> THEN <<>>
                 ELSE IF Len(raw) > Capacity THEN raw ELSE Append(raw, b))
      /\ damaged' = (b # "esc" /\ n.sequence # <<>> /\
                     (damaged \/ (Len(input.sequence) >= 2 /\ ~Inherent(b))))
      /\ whole' = (whole /\ (n.out # <<>> /\ Len(input.sequence) >= 2 /\ b \in Finals
                               => ~damaged /\ raw = input.sequence))
  <2>1. input' = [n EXCEPT !.out = <<>>] /\ received' = <<>> /\ pasted' = <<>>
    BY <1>1 DEF Receive
  <2>2. literal' = literal
    <3>1. literal' = (literal /\ (input.paste /\ ~n.paste =>
                       pasted \o Taps(n.out) =
                         Text(SubSeq(Append(received, b), 1, Len(Append(received, b)) - Len(Marker)), TRUE)))
      BY <1>1 DEF Receive
    <3> QED
      BY <1>2, <3>1
  <2>3. raw' = (IF b = "esc" THEN <<b>>
                ELSE IF n.sequence = <<>> THEN <<>>
                ELSE IF Len(raw) > Capacity THEN raw ELSE Append(raw, b))
    BY <1>1 DEF Receive
  <2>4. damaged' = (b # "esc" /\ n.sequence # <<>> /\
                     (damaged \/ (Len(input.sequence) >= 2 /\ ~Inherent(b))))
    BY <1>1 DEF Receive
  <2>5. whole' = (whole /\ (n.out # <<>> /\ Len(input.sequence) >= 2 /\ b \in Finals
                               => ~damaged /\ raw = input.sequence))
    BY <1>1 DEF Receive
  <2> QED
    BY <2>1, <2>2, <2>3, <2>4, <2>5
<1>5. /\ Shaped(input') /\ input'.out = <<>> /\ Plain(n, input') /\ input'.utf8 = n.utf8
  <2>1. PICK r : r = input'
    OBVIOUS
  <2>2. n \in Inputs /\ r = [n EXCEPT !.out = <<>>]
    BY <1>3, <1>4, <2>1 DEF Shaped, Advances
  <2>3. r \in Inputs /\ r.out = <<>> /\ Plain(n, r) /\ r.utf8 = n.utf8 /\ (Shaped(n) => Shaped(r))
    BY <2>2, Quiet
  <2> QED
    BY <1>3, <2>1, <2>3 DEF Advances
<1>6. whole' = TRUE
  <2>1. ASSUME n.out # <<>>, Len(input.sequence) >= 2, b \in Finals PROVE ~damaged /\ raw = input.sequence
    <3>1. ~input.discard
      BY <1>3, <2>1 DEF Advances
    <3>2. input.sequence # <<>>
      BY <2>1
    <3> QED
      BY <3>1, <3>2 DEF DInv, SequenceFollows
  <2> QED
    BY <1>2, <1>4, <2>1
<1>7. PasteFollows'
  <2>1. CASE n.paste
    <3>1. input'.paste /\ input'.ended = 0 /\ input'.utf8 = 0 /\ input' \in Inputs
      BY <1>3, <1>5, <2>1 DEF Advances, Plain
    <3>2. <<>> \in Texts /\ <<>> \o SubSeq(Marker, 1, 0) = <<>>
      BY Empties, MarkerBegins
    <3>3. Reads(input', <<>>, <<>>)
      <4>1. Taps(input'.out) = <<>> /\ Half(<<>>) = FALSE /\ Text(<<>>, FALSE) = <<>> /\ <<>> \o <<>> = <<>>
        BY <1>5, <3>2, NoTaps, Empties, Nothing DEF Half
      <4>2. (input'.utf8 = 1) = Half(<<>>)
        <5>1. PICK u : u = input'.utf8
          OBVIOUS
        <5>2. (u = 1) = FALSE
          BY <3>1, <5>1
        <5> QED
          BY <4>1, <5>1, <5>2
      <4>3. <<>> \o Taps(input'.out) = Text(<<>>, FALSE)
        BY <4>1
      <4> QED
        BY <3>1, <3>2, <4>2, <4>3 DEF Reads
    <3> QED
      BY <1>4, <3>1, <3>2, <3>3 DEF PasteFollows
  <2>2. CASE ~n.paste
    BY <1>4, <1>5, <2>2 DEF PasteFollows, Plain
  <2> QED
    BY <2>1, <2>2
<1>8. SequenceFollows'
  <2> SUFFICES ASSUME input'.sequence # <<>>, ~input'.discard PROVE raw' = input'.sequence /\ ~damaged'
    BY DEF SequenceFollows
  <2>1. n.sequence # <<>> /\ ~n.discard /\ input'.sequence = n.sequence
    BY <1>5 DEF Plain
  <2>2. CASE b = "esc" /\ n.sequence = <<"esc">>
    BY <1>4, <2>1, <2>2
  <2>3. CASE Prolongs(input, b, n)
    <3>1. /\ b # "esc" /\ input.sequence # <<>> /\ ~input.discard /\ n.sequence = Append(input.sequence, b)
          /\ (Len(input.sequence) >= 2 => b \in Parameters \cup {"sp"} /\ (b = "sp" \/ ~input.intermediate))
      BY <2>3 DEF Prolongs
    <3>2. raw = input.sequence /\ ~damaged
      BY <3>1 DEF DInv, SequenceFollows
    <3>3. ~(Len(raw) > Capacity)
      <4>1. Len(input.sequence) <= Capacity /\ Len(input.sequence) \in Nat /\ Capacity \in Nat
        BY <1>2, CapacityAssumption DEF Shaped, Inputs, Texts
      <4> QED
        BY <3>2, <4>1
    <3>4. raw' = n.sequence
      BY <1>4, <2>1, <3>1, <3>2, <3>3
    <3>5. Len(input.sequence) >= 2 => Inherent(b)
      <4>1. input.intermediate = Contains(input.sequence, "sp")
        BY <1>2, <3>1 DEF Shaped
      <4> QED
        BY <3>1, <3>2, <4>1 DEF Inherent
    <3> QED
      BY <1>4, <2>1, <3>2, <3>4, <3>5
  <2> QED
    BY <1>3, <2>1, <2>2, <2>3 DEF Advances
<1> QED
  BY <1>2, <1>4, <1>5, <1>6, <1>7, <1>8 DEF DInv

\* The timeout of an escape.
LEMMA TimeoutStep == ASSUME DInv, Timeout PROVE DInv'
<1>1. PICK n : n = Flush(input)
  OBVIOUS
<1>2. Shaped(input) /\ input.out = <<>> /\ input \in Inputs
  BY DEF DInv, Shaped
<1>3. PICK r : r = input'
  OBVIOUS
<1>4. r = [n EXCEPT !.out = <<>>]
  BY <1>1, <1>3 DEF Timeout
<1>5. CASE input.sequence = <<"esc">>
  <2>1. Len(input.sequence) = 1 /\ input.sequence # <<>>
    BY <1>5
  <2>2. ~input.paste /\ ~input.discard
    BY <1>2, <2>1 DEF Shaped
  <2>3. Shaped(n) /\ ~n.paste /\ n.sequence = <<>>
    <3>1. n = Escaped(input, "x")
      BY <1>1, <1>5 DEF Flush, Escaped
    <3> QED
      BY <1>2, <1>5, <2>2, <3>1, EscapedNext
  <2>4. Shaped(r) /\ r.out = <<>> /\ r.sequence = <<>> /\ ~r.paste
    <3>1. n \in Inputs
      BY <2>3 DEF Shaped
    <3>2. r.out = <<>> /\ Plain(n, r) /\ (Shaped(n) => Shaped(r))
      BY <1>4, <3>1, Quiet
    <3> QED
      BY <2>3, <3>2 DEF Plain
  <2>5. received' = <<>> /\ pasted' = <<>> /\ literal' = TRUE /\ whole' = TRUE
    BY <2>2 DEF Timeout, DInv, PasteFollows
  <2> QED
    BY <1>3, <2>4, <2>5 DEF DInv, PasteFollows, SequenceFollows
<1>6. CASE input.sequence # <<"esc">>
  <2>1. r = input
    BY <1>1, <1>2, <1>4, <1>6 DEF Flush, Inputs
  <2>2. input' = input
    BY <1>3, <2>1
  <2>3. input.sequence # <<>> => raw' = raw
    BY <2>2 DEF Timeout
  <2>4. PasteFollows'
    BY <2>2 DEF Timeout, DInv, PasteFollows
  <2>5. SequenceFollows'
    BY <2>2, <2>3 DEF Timeout, DInv, SequenceFollows
  <2>6. Shaped(input') /\ input'.out = <<>>
    BY <1>2, <2>2
  <2> QED
    BY <2>4, <2>5, <2>6 DEF Timeout, DInv
<1> QED
  BY <1>5, <1>6

\* Every step keeps the invariant, ...
LEMMA DStep == DInv /\ [DNext]_dvars => DInv'
<1> SUFFICES ASSUME DInv, [DNext]_dvars PROVE DInv'
  OBVIOUS
<1>1. CASE Timeout
  BY <1>1, TimeoutStep
<1>2. CASE \E b \in Bytes : Receive(b)
  <2>1. PICK b \in Bytes : Receive(b)
    BY <1>2
  <2> QED
    BY <2>1, PasteStep, KeyStep
<1>3. CASE UNCHANGED dvars
  BY <1>3 DEF dvars, DInv, PasteFollows, SequenceFollows, Inherent
<1> QED
  BY <1>1, <1>2, <1>3 DEF DNext

\* ... which holds at first.
LEMMA DStart == DInit => DInv
<1> SUFFICES ASSUME DInit PROVE DInv
  OBVIOUS
<1>1. PICK i : i = Ground
  OBVIOUS
<1>2. /\ i \in Inputs /\ i.sequence = <<>> /\ ~i.discard /\ i.legacy = 0 /\ ~i.paste /\ i.ended = 0
      /\ i.utf8 = 0 /\ i.out = <<>> /\ Len(<<>>) = 0
  BY <1>1, Empties, NoTaps DEF Ground, Inputs
<1>3. Shaped(i)
  BY <1>2, CapacityAssumption DEF Shaped
<1> QED
  BY <1>1, <1>2, <1>3 DEF DInit, DInv, PasteFollows, SequenceFollows

-----------------------------------------------------------------------------
(* What follows from the invariant.                                        *)
\* The buffer is never overrun, and the marker is matched in a paste only.
LEMMA TypesHold == DInv => DTypeOK
<1> SUFFICES ASSUME DInv PROVE DTypeOK
  OBVIOUS
<1>1. Shaped(input) /\ input \in Inputs /\ Len(Marker) = 4
  BY DEF DInv, Shaped, Marker
<1>2. input.paste => input.sequence = <<>> /\ input.legacy = 0
  BY <1>1 DEF Shaped
<1> QED
  BY <1>1, <1>2 DEF DTypeOK, Shaped, Inputs

\* The parts of a text that begins with another.
LEMMA Parts ==
  ASSUME NEW s \in Texts, NEW t \in Texts, NEW all, all = s \o t
  PROVE  LET n == Len(all) - Len(t) IN SubSeq(all, n + 1, Len(all)) = t /\ SubSeq(all, 1, n) = s
<1>1. PICK l \in Nat : l = Len(s)
  BY DEF Texts
<1>2. PICK m \in Nat : m = Len(t)
  BY DEF Texts
<1>3. Len(all) = l + m /\ Len(all) - Len(t) = l
  <2>1. Len(s \o t) = Len(s) + Len(t)
    BY DEF Texts
  <2>2. (l + m) - m = l
    OBVIOUS
  <2> QED
    BY <1>1, <1>2, <2>1, <2>2
<1>4. SubSeq(all, l + 1, l + m) = t
  <2>1. CASE m = 0
    <3>1. t \in Seq(Words) /\ Len(t) = 0
      BY <1>2, <2>1 DEF Texts
    <3>2. t = <<>>
      BY <3>1
    <3> QED
      BY <2>1, <3>2, SubSeqEmpty
  <2>2. CASE m # 0
    <3>1. l + 1 \in Len(s)+1 .. Len(s)+Len(t) /\ l + m \in Len(s)+1 .. Len(s)+Len(t)
      BY <1>1, <1>2, <2>2
    <3>2. SubSeq(s \o t, l + 1, l + m) = SubSeq(t, (l + 1) - Len(s), (l + m) - Len(s))
      BY <3>1, SubSeqOfConcat2 DEF Texts
    <3>3. (l + 1) - Len(s) = 1 /\ (l + m) - Len(s) = Len(t)
      BY <1>1, <1>2
    <3>4. SubSeq(t, 1, Len(t)) = t
      BY SubSeqFull DEF Texts
    <3> QED
      BY <3>2, <3>3, <3>4
  <2> QED
    BY <2>1, <2>2
<1>5. SubSeq(all, 1, l) = s
  <2>1. CASE l = 0
    <3>1. s \in Seq(Words) /\ Len(s) = 0
      BY <1>1, <2>1 DEF Texts
    <3>2. s = <<>>
      BY <3>1
    <3> QED
      BY <2>1, <3>2, SubSeqEmpty
  <2>2. CASE l # 0
    <3>1. 1 \in 1..Len(s) /\ l \in 1..Len(s)
      BY <1>1, <2>2
    <3>2. SubSeq(s \o t, 1, l) = SubSeq(s, 1, l)
      BY <3>1, SubSeqOfConcat1 DEF Texts
    <3>3. SubSeq(s, 1, l) = s
      BY <1>1, SubSeqFull DEF Texts
    <3> QED
      BY <3>2, <3>3
  <2> QED
    BY <2>1, <2>2
<1> QED
  BY <1>3, <1>4, <1>5

\* What was received is the text and the part of the marker; the former was reported.
LEMMA Literally == DInv => PasteLiteral
<1> SUFFICES ASSUME DInv, input.paste
             PROVE LET n == Len(received) - input.ended
                   IN /\ SubSeq(received, n + 1, Len(received)) = SubSeq(Marker, 1, input.ended)
                      /\ pasted = Text(SubSeq(received, 1, n), FALSE)
  BY DEF PasteLiteral, DInv
<1>1. PICK bytes \in Texts : received = bytes \o SubSeq(Marker, 1, input.ended) /\ Reads(input, bytes, pasted)
  BY DEF DInv, PasteFollows
<1>2. PICK e \in 0..3 : e = input.ended
  BY DEF DInv, Shaped, Inputs
<1>3. SubSeq(Marker, 1, e) \in Texts /\ Len(SubSeq(Marker, 1, e)) = e
  <2>1. Marker \in Seq(Words) /\ Len(Marker) = 4
    BY DEF Marker, Words
  <2>2. \A k \in 1..e : Marker[k] \in Words
    <3>1. Marker[1] \in Words /\ Marker[2] \in Words /\ Marker[3] \in Words
      BY DEF Marker, Words
    <3>2. \A k \in 1..e : k = 1 \/ k = 2 \/ k = 3
      OBVIOUS
    <3> QED
      BY <3>1, <3>2
  <2>3. SubSeq(Marker, 1, e) \in Seq(Words) /\ Len(SubSeq(Marker, 1, e)) = IF 1 <= e THEN e - 1 + 1 ELSE 0
    BY <2>2, SubSeqProperties
  <2>4. (IF 1 <= e THEN e - 1 + 1 ELSE 0) = e
    OBVIOUS
  <2> QED
    BY <2>3, <2>4 DEF Texts
<1>4. LET n == Len(received) - e
      IN SubSeq(received, n + 1, Len(received)) = SubSeq(Marker, 1, e) /\ SubSeq(received, 1, n) = bytes
  <2>1. PICK t \in Texts : t = SubSeq(Marker, 1, e)
    BY <1>3
  <2>2. received = bytes \o t /\ Len(t) = e
    BY <1>1, <1>2, <1>3, <2>1
  <2>3. LET n == Len(received) - Len(t)
        IN SubSeq(received, n + 1, Len(received)) = t /\ SubSeq(received, 1, n) = bytes
    BY <2>2, Parts
  <2> QED
    BY <2>1, <2>2, <2>3
<1>5. pasted = Text(bytes, FALSE)
  <2>1. pasted \o Taps(input.out) = Text(bytes, FALSE) /\ input.out = <<>> /\ pasted \in Texts
    BY <1>1 DEF Reads, DInv
  <2> QED
    BY <2>1, NoTaps, Nothing
<1> QED
  BY <1>2, <1>4, <1>5

\* The bytes of the end marker, one after the other.
LEMMA MarkerNext ==
  ASSUME NEW i \in Inputs, i.paste, NEW e \in 0..2, i.ended = e, NEW n, n = Feed(i, Marker[e + 1])
  PROVE  n \in Inputs /\ n.paste /\ n.ended = e + 1 /\ Pasting(i, n)
<1>1. e + 1 \in 1..3 /\ e + 1 # 4 /\ Len(Marker) = 4
  BY DEF Marker
<1>2. n = handle_paste_byte(i, Marker[e + 1])
  BY DEF Feed
<1>3. n = [i EXCEPT !.ended = @ + 1]
  BY <1>1, <1>2 DEF handle_paste_byte
<1> QED
  BY <1>1, <1>3 DEF Inputs, Pasting

\* The four bytes of the marker, whatever was matched before.
LEMMA MarkerEnds == DInv => PasteEnds
<1> SUFFICES ASSUME DInv, input.paste
             PROVE [Feed(Feed(Fed("esc", "["), "201"), "~") EXCEPT !.out = <<>>] = Ground
  BY DEF PasteEnds
<1>1. PICK n1 : n1 = Feed(input, "esc")
  OBVIOUS
<1>2. PICK n2 : n2 = Feed(n1, "[")
  OBVIOUS
<1>3. PICK n3 : n3 = Feed(n2, "201")
  OBVIOUS
<1>4. PICK n4 : n4 = Feed(n3, "~")
  OBVIOUS
<1>5. /\ input \in Inputs /\ input.sequence = <<>> /\ ~input.discard /\ ~input.intermediate /\ input.legacy = 0
      /\ input.ended \in 0..3
  <2>1. Shaped(input) /\ Len(<<>>) = 0
    BY DEF DInv
  <2>2. input.sequence = <<>>
    BY <2>1 DEF Shaped
  <2> QED
    BY <2>1, <2>2 DEF Shaped, Inputs
<1>6. Marker[1] = "esc" /\ Marker[2] = "[" /\ Marker[3] = "201" /\ Marker[4] = "~" /\ Len(Marker) = 4
  BY DEF Marker
<1>7. n1 \in Inputs /\ n1.paste /\ n1.ended = 1 /\ Pasting(input, n1)
  <2>1. CASE input.ended = 0
    <3>1. PICK e \in 0..2 : e = 0
      OBVIOUS
    <3>2. input.ended = e /\ n1 = Feed(input, Marker[e + 1]) /\ e + 1 = 1
      BY <1>1, <1>6, <2>1, <3>1
    <3>3. n1 \in Inputs /\ n1.paste /\ n1.ended = e + 1 /\ Pasting(input, n1)
      BY <1>5, <3>2, MarkerNext
    <3> QED
      BY <3>2, <3>3
  <2>2. CASE input.ended # 0
    <3>1. PICK bytes \in Texts : received = bytes \o SubSeq(Marker, 1, input.ended) /\ Reads(input, bytes, pasted)
      BY DEF DInv, PasteFollows
    <3>2. "esc" # Marker[input.ended + 1] /\ "esc" \in Words
      <4>1. input.ended = 1 \/ input.ended = 2 \/ input.ended = 3
        BY <1>5, <2>2
      <4>2. 1 + 1 = 2 /\ 2 + 1 = 3 /\ 3 + 1 = 4
        OBVIOUS
      <4> QED
        BY <1>6, <4>1, <4>2 DEF Words
    <3>3. n1 = handle_paste_byte(input, "esc")
      BY <1>1 DEF Feed
    <3>4. Repaid(input, n1, "esc", received, pasted)
      BY <3>1, <3>2, <3>3, MismatchNext
    <3> QED
      BY <3>4 DEF Repaid, Reads
  <2> QED
    BY <2>1, <2>2
<1>8. n2 \in Inputs /\ n2.paste /\ n2.ended = 2 /\ Pasting(n1, n2)
  <2>1. PICK e \in 0..2 : e = 1
    OBVIOUS
  <2>2. n1.ended = e /\ n2 = Feed(n1, Marker[e + 1]) /\ e + 1 = 2
    BY <1>2, <1>6, <1>7, <2>1
  <2>3. n2 \in Inputs /\ n2.paste /\ n2.ended = e + 1 /\ Pasting(n1, n2)
    BY <1>7, <2>2, MarkerNext
  <2> QED
    BY <2>2, <2>3
<1>9. n3 \in Inputs /\ n3.paste /\ n3.ended = 3 /\ Pasting(n2, n3)
  <2>1. PICK e \in 0..2 : e = 2
    OBVIOUS
  <2>2. n2.ended = e /\ n3 = Feed(n2, Marker[e + 1]) /\ e + 1 = 3
    BY <1>3, <1>6, <1>8, <2>1
  <2>3. n3 \in Inputs /\ n3.paste /\ n3.ended = e + 1 /\ Pasting(n2, n3)
    BY <1>8, <2>2, MarkerNext
  <2> QED
    BY <2>2, <2>3
<1>10. n4 = EndsPaste(n3)
  <2>1. n4 = handle_paste_byte(n3, "~")
    BY <1>4, <1>9 DEF Feed
  <2>2. Marker[n3.ended + 1] = "~" /\ n3.ended + 1 = Len(Marker)
    <3>1. n3.ended + 1 = 4
      BY <1>9
    <3> QED
      BY <1>6, <3>1
  <2> QED
    BY <2>1, <2>2 DEF handle_paste_byte
<1>11. n4 \in Inputs /\ Pasting(n3, n4) /\ n4.ended = 0 /\ n4.paste = FALSE /\ n4.utf8 = 0
  BY <1>9, <1>10, EndsNext
<1>12. /\ n4.sequence = <<>> /\ n4.discard = FALSE /\ n4.intermediate = FALSE /\ n4.legacy = 0
  BY <1>5, <1>7, <1>8, <1>9, <1>11 DEF Pasting, Inputs
<1>13. [n4 EXCEPT !.out = <<>>] = Ground
  <2>1. [n4 EXCEPT !.out = <<>>] =
          [sequence |-> n4.sequence, discard |-> n4.discard, intermediate |-> n4.intermediate,
           legacy |-> n4.legacy, paste |-> n4.paste, ended |-> n4.ended, utf8 |-> n4.utf8, out |-> <<>>]
    BY <1>11 DEF Inputs
  <2> QED
    BY <1>11, <1>12, <2>1 DEF Ground
<1> QED
  BY <1>1, <1>2, <1>3, <1>4, <1>13 DEF Fed

\* An escape, whatever it cuts short.
LEMMA EscapeNext ==
  ASSUME NEW i, Shaped(i), ~i.paste, i.legacy = 0, NEW n, n = Feed(i, "esc")
  PROVE  /\ n \in Inputs /\ n.sequence = <<"esc">> /\ ~n.discard /\ ~n.intermediate /\ ~n.paste
         /\ n.legacy = 0 /\ n.utf8 = 0
<1>1. PICK j : j = Escaped(i, "esc")
  OBVIOUS
<1>2. Shaped(j) /\ j.paste = i.paste /\ j.legacy = i.legacy
  BY <1>1, EscapedNext
<1>3. n = Starts(j)
  BY <1>1 DEF Feed
<1>4. LET m == Starts(j)
      IN /\ Shaped(m) /\ m.sequence = <<"esc">> /\ ~m.discard /\ ~m.intermediate /\ ~m.paste
         /\ m.legacy = 0 /\ m.utf8 = 0
  BY <1>2, StartsNext
<1> QED
  BY <1>3, <1>4 DEF Shaped

\* Escape, bracket and final, after whatever an escape may interrupt.
LEMMA ArrowFollows == DInv => Resynchronises
<1> SUFFICES ASSUME DInv, ~input.paste, input.legacy = 0
             PROVE LET after == Feed(Fed("esc", "["), "A")
                   IN after.sequence = <<>> /\ ~after.discard /\ after.out # <<>>
                      /\ Last(after.out) = <<"key", "up">>
  BY DEF Resynchronises
<1>1. PICK n1 : n1 = Feed(input, "esc")
  OBVIOUS
<1>2. PICK n2 : n2 = Feed(n1, "[")
  OBVIOUS
<1>3. PICK n3 : n3 = Feed(n2, "A")
  OBVIOUS
<1>4. /\ n1 \in Inputs /\ n1.sequence = <<"esc">> /\ ~n1.discard /\ ~n1.paste /\ n1.legacy = 0
  BY <1>1, EscapeNext DEF DInv
<1>0. <<"esc", "[">> \in Texts
  <2>1. "esc" \in Words /\ "[" \in Words
    BY DEF Words
  <2> QED
    BY <2>1 DEF Texts
<1>5. PICK s \in Texts : s = <<"esc", "[">>
  BY <1>0
<1>6. n2 = [n1 EXCEPT !.sequence = s]
  <2>1. Escaped(n1, "[") = n1
    BY <1>4 DEF Escaped
  <2>2. Len(n1.sequence) = 1 /\ Append(n1.sequence, "[") = s
    <3>1. PICK t \in Texts : t = n1.sequence
      BY <1>4 DEF Inputs
    <3>2. t \in Seq(Words) /\ s \in Seq(Words) /\ Len(t) = 1 /\ t[1] = "esc" /\ "[" \in Words
      BY <1>4, <3>1 DEF Texts, Words
    <3>3. Append(t, "[") \in Seq(Words) /\ Len(Append(t, "[")) = 2
          /\ Append(t, "[")[1] = "esc" /\ Append(t, "[")[2] = "["
      <4>1. PICK u : u = Append(t, "[")
        OBVIOUS
      <4>2. PICK b \in Words : b = "["
        BY <3>2
      <4>3. u \in Texts /\ Len(u) = Len(t) + 1 /\ u[Len(t) + 1] = b /\ \A k \in 1..Len(t) : u[k] = t[k]
        BY <4>1, <4>2, <3>1, ContainsNext
      <4>4. PICK l \in Nat : l = Len(t)
        BY <3>2
      <4>5. l = 1 /\ l + 1 = 2 /\ 1 \in 1..l
        BY <3>2, <4>4
      <4>6. Len(u) = 2 /\ u[2] = b /\ u[1] = t[1]
        BY <4>3, <4>4, <4>5
      <4> QED
        BY <3>2, <4>1, <4>2, <4>3, <4>6 DEF Texts
    <3>4. Len(s) = 2 /\ s[1] = "esc" /\ s[2] = "["
      BY <1>5
    <3>5. Append(t, "[") = s
      BY <3>2, <3>3, <3>4, SeqEqual
    <3> QED
      BY <3>1, <3>2, <3>5
  <2>3. Feed(n1, "[") = [n1 EXCEPT !.sequence = Append(@, "[")]
    <3>1. PICK l : l = Len(n1.sequence)
      OBVIOUS
    <3>2. l # 0 /\ l = 1 /\ ~(n1.legacy > 0)
      BY <1>4, <2>2, <3>1
    <3> QED
      BY <1>4, <2>1, <3>1, <3>2 DEF Feed
  <2> QED
    BY <1>2, <1>4, <2>2, <2>3
<1>7. n2 \in Inputs /\ n2.sequence = s /\ ~n2.discard /\ ~n2.paste /\ n2.legacy = 0
  BY <1>4, <1>6 DEF Inputs
<1>8. Len(s) = 2 /\ s[2] = "[" /\ s # <<"esc">> /\ SubSeq(s, 3, Len(s)) = <<>>
  <2>1. Len(s) = 2 /\ s[2] = "[" /\ s # <<"esc">>
    BY <1>5
  <2> QED
    BY <2>1, SubSeqEmpty
<1>9. Escaped(n2, "A") = n2
  BY <1>7, <1>8 DEF Escaped
<1>10. PICK r : r = Report(n2, <<"key", "up">>)
  OBVIOUS
<1>11. Final(n2, "A") = r
  <2>1. Final(n2, "A") = handle_csi_key(n2, <<>>, "A")
    BY <1>7, <1>8 DEF Final
  <2> QED
    BY <1>10, <2>1 DEF handle_csi_key
<1>12. n3 = [r EXCEPT !.sequence = <<>>, !.discard = FALSE]
  <2>1. Feed(n2, "A") = [(IF n2.discard THEN n2 ELSE Final(n2, "A")) EXCEPT !.sequence = <<>>, !.discard = FALSE]
    <3>1. Len(n2.sequence) = 2 /\ n2.sequence[2] # "O" /\ "A" \in Finals
      BY <1>7, <1>8 DEF Finals
    <3>2. PICK l : l = Len(n2.sequence)
      OBVIOUS
    <3>3. l # 0 /\ l # 1 /\ ~(n2.legacy > 0)
      BY <1>7, <3>1, <3>2
    <3> QED
      BY <1>7, <1>9, <3>1, <3>2, <3>3 DEF Feed
  <2> QED
    BY <1>3, <1>7, <1>11, <2>1
<1>13. r \in Inputs /\ r.out # <<>> /\ Last(r.out) = <<"key", "up">>
  <2>1. <<"key", "up">> \in Told
    BY DEF Told, Words
  <2> QED
    BY <1>7, <1>10, <2>1, ReportNext DEF Reported, Plain
<1>14. n3.sequence = <<>> /\ ~n3.discard /\ n3.out = r.out
  BY <1>12, <1>13 DEF Inputs
<1> QED
  BY <1>1, <1>2, <1>3, <1>13, <1>14 DEF Fed

\* The timeout and the next key find the same decoder.
LEMMA EscapeSame == DInv => EscapeOnce
<1> SUFFICES ASSUME DInv, ~input.paste, input.legacy = 0
             PROVE LET timed == Flush(Feed(input, "esc"))
                   IN /\ Fed("esc", "x").out = Feed(timed, "x").out
                      /\ timed.out = Fed("esc", "esc").out
  BY DEF EscapeOnce
<1>1. PICK n : n = Feed(input, "esc")
  OBVIOUS
<1>2. n \in Inputs /\ n.sequence = <<"esc">> /\ ~n.paste /\ n.legacy = 0 /\ n.utf8 = 0
  BY <1>1, EscapeNext DEF DInv
<1>3. PICK k : k = [n EXCEPT !.sequence = <<>>]
  OBVIOUS
<1>4. k \in Inputs /\ k.sequence = <<>> /\ ~k.paste /\ k.legacy = 0 /\ k.utf8 = 0
  BY <1>2, <1>3, Empties DEF Inputs
<1>5. PICK timed : timed = Tap(k, "escape")
  OBVIOUS
<1>6. timed \in Inputs /\ timed.sequence = <<>> /\ ~timed.paste /\ timed.legacy = 0 /\ timed.utf8 = 0
  <2>1. "escape" \in Words
    BY DEF Words
  <2> QED
    BY <1>4, <1>5, <2>1, TapNext DEF Plain
<1>7. Flush(n) = timed
  BY <1>2, <1>3, <1>5 DEF Flush
<1>8. \A b \in {"x", "esc"} : Escaped(n, b) = timed /\ Escaped(timed, b) = timed
  <2>1. <<>> # <<"esc">>
    OBVIOUS
  <2> QED
    BY <1>2, <1>3, <1>5, <1>6, <2>1 DEF Escaped
<1>9. Feed(n, "x") = handle_plain_key(timed, "x") /\ Feed(timed, "x") = handle_plain_key(timed, "x")
  <2>1. Len(timed.sequence) = 0
    BY <1>6
  <2> QED
    BY <1>2, <1>6, <1>8, <2>1 DEF Feed
<1>10. Feed(n, "esc").out = timed.out
  <2>1. Feed(n, "esc") = Starts(timed)
    BY <1>2, <1>8 DEF Feed
  <2>2. Utf8Cut(timed) = timed
    BY <1>6, CutNext
  <2> QED
    BY <1>6, <2>1, <2>2 DEF Starts, Inputs
<1> QED
  BY <1>1, <1>7, <1>9, <1>10 DEF Fed

\* Every paste is reported character by character as it was received, escapes and parts
\* of the end marker included, and the marker ends it whatever came before
\* (handle_paste_byte, src/src/input.c).
THEOREM PastesTheorem == DSpec => []PastesAreText
<1>1. DInv => PastesAreText
  BY Literally, MarkerEnds DEF PastesAreText
<1> QED
  BY <1>1, DStart, DStep, PTL DEF DSpec

\* Only whole, well-formed sequences are reported, the escape key once however its end is
\* told, and a key that follows a spoilt sequence is not lost (tigt_input_feed).
THEOREM SequencesTheorem == DSpec => []SequencesAreWhole
<1>1. DInv => SequencesAreWhole
  BY TypesHold, ArrowFollows, EscapeSame DEF SequencesAreWhole, WholeSequences, DInv
<1> QED
  BY <1>1, DStart, DStep, PTL DEF DSpec

-----------------------------------------------------------------------------
(* Mouse reports: the buttons that an application believes are held follow *)
(* from the events it got, whatever was reported, left out or negotiated.   *)
\* A mask is a set of buttons; a report's events and the buttons they leave held.
Kinds == {"move", "down", "up", "scroll", "leave"}
Masks == SUBSET Buttons
Events == Kinds \X (0..3) \X Masks
Outcomes == [held : Masks, out : Seq(Events)]

\* What an event may do to the mask it finds.
Changes(e, was) == CASE e[1] = "down" -> e[3] = was \cup {e[2]}
                     [] e[1] = "up" -> e[3] = was \ {e[2]}
                     [] e[1] = "move" -> e[3] = {} \/ was \subseteq e[3]
                     [] OTHER -> e[3] = was
Placed == {"down", "up", "scroll"}
Mask(told, was, n) == IF n > 1 THEN told[n - 1][3] ELSE was

\* The events of a report that found the mask `was', one after the other.
Chain(told, was) == \A n \in DOMAIN told :
                      /\ Changes(told[n], Mask(told, was, n))
                      /\ told[n][1] \in Placed => n > 1 /\ told[n - 1][1] = "move"
\* The mask they leave is the one that the decoder remembers.
Current(m, was) == m.held = IF m.out = <<>> THEN was ELSE m.out[Len(m.out)][3]
Follows(m, was) == m \in Outcomes /\ Chain(m.out, was) /\ Current(m, was)
\* The last event was the pointer's position.
Positioned(m) == m.out # <<>> /\ m.out[Len(m.out)][1] = "move"
With(m, e) == [held |-> e[3], out |-> Append(m.out, e)]

\* Two values at the end of a sequence are one after the other.
LEMMA AppendTwo ==
  ASSUME NEW S, NEW s \in Seq(S), NEW a \in S, NEW b \in S
  PROVE  s \o <<a, b>> = Append(Append(s, a), b)
<1>1. s \o <<a, b>> \in Seq(S) /\ Append(Append(s, a), b) \in Seq(S)
  OBVIOUS
<1>2. Len(s \o <<a, b>>) = Len(s) + 2 /\ Len(Append(Append(s, a), b)) = Len(s) + 2
  OBVIOUS
<1>3. \A n \in 1..(Len(s) + 2) : (s \o <<a, b>>)[n] = Append(Append(s, a), b)[n]
  OBVIOUS
<1> QED
  BY <1>1, <1>2, <1>3

-----------------------------------------------------------------------------
(* Events in order.                                                        *)

\* An event that changes the mask as it may and comes after its position goes on
\* with a report's events.
LEMMA EventFollows ==
  ASSUME NEW m, NEW was \in Masks, NEW e \in Events, Follows(m, was), Changes(e, m.held),
         e[1] \in Placed => Positioned(m)
  PROVE  Follows(With(m, e), was) /\ (e[1] = "move" => Positioned(With(m, e)))
<1> DEFINE told == m.out
           next == Append(told, e)
<1>1. m.held \in Masks /\ told \in Seq(Events)
  BY DEF Follows, Outcomes
<1>2. Len(told) \in Nat /\ Len(next) = Len(told) + 1 /\ DOMAIN told = 1..Len(told)
      /\ DOMAIN next = 1..(Len(told) + 1) /\ next \in Seq(Events) /\ next # <<>>
  BY <1>1
<1>3. next[Len(told) + 1] = e /\ \A n \in 1..Len(told) : next[n] = told[n]
  BY <1>1, <1>2
<1>4. With(m, e).held = e[3] /\ With(m, e).out = next /\ With(m, e) \in Outcomes
  BY <1>2 DEF With, Outcomes, Events
<1>5. Chain(told, was) /\ m.held = IF told = <<>> THEN was ELSE told[Len(told)][3]
  BY DEF Follows, Current
<1>6. told = <<>> <=> Len(told) = 0
  BY <1>1
<1>7. Mask(next, was, Len(told) + 1) = m.held
  BY <1>2, <1>3, <1>5, <1>6 DEF Mask
<1>8. ASSUME NEW n \in DOMAIN next
      PROVE  /\ Changes(next[n], Mask(next, was, n))
             /\ next[n][1] \in Placed => n > 1 /\ next[n - 1][1] = "move"
  <2>1. CASE n = Len(told) + 1
    <3>1. next[n] = e /\ Mask(next, was, n) = m.held
      BY <1>3, <1>7, <2>1
    <3>2. ASSUME e[1] \in Placed PROVE n > 1 /\ next[n - 1][1] = "move"
      <4>1. told # <<>> /\ told[Len(told)][1] = "move"
        BY <3>2 DEF Positioned
      <4>2. n - 1 = Len(told) /\ n > 1 /\ n - 1 \in 1..Len(told)
        BY <1>2, <1>6, <2>1, <4>1
      <4> QED
        BY <1>3, <4>1, <4>2
    <3> QED
      BY <3>1, <3>2
  <2>2. CASE n \in DOMAIN told
    <3>1. next[n] = told[n] /\ (n > 1 => next[n - 1] = told[n - 1])
      BY <1>2, <1>3, <2>2
    <3>2. Mask(next, was, n) = Mask(told, was, n)
      BY <3>1 DEF Mask
    <3> QED
      BY <1>5, <2>2, <3>1, <3>2 DEF Chain
  <2> QED
    BY <1>2, <2>1, <2>2
<1>9. Chain(next, was)
  BY <1>8 DEF Chain
<1>10. Current(With(m, e), was)
  BY <1>2, <1>3, <1>4 DEF Current
<1>11. e[1] = "move" => Positioned(With(m, e))
  BY <1>2, <1>3, <1>4 DEF Positioned
<1> QED
  BY <1>4, <1>9, <1>10, <1>11 DEF Follows

\* A motion that leaves a mask behind which has all of the buttons or none.
LEMMA MoveFollows ==
  ASSUME NEW m, NEW was \in Masks, NEW held \in Masks, Follows(m, was),
         held = {} \/ m.held \subseteq held
  PROVE  Follows(With(m, Move(held)), was) /\ Positioned(With(m, Move(held)))
<1> DEFINE e == Move(held)
<1>1. e \in Events /\ e[1] = "move" /\ e[3] = held
  BY DEF Move, Events, Kinds, NoButton
<1>2. Changes(e, m.held) /\ e[1] \notin Placed
  BY <1>1 DEF Changes, Placed
<1> QED
  BY <1>1, <1>2, EventFollows

-----------------------------------------------------------------------------
(* The decoder's operations.                                               *)

\* A button's press or release: its position, then itself.
LEMMA ButtonFollows ==
  ASSUME NEW m, NEW was \in Masks, NEW button \in 0..3, NEW release \in BOOLEAN, Follows(m, was),
         release \/ button \in Buttons
  PROVE  Follows(mouse_button(m, button, release), was)
<1> DEFINE held == IF release THEN m.held \ {button} ELSE m.held \cup (Buttons \cap {button})
           a == Move(m.held)
           e == <<IF release THEN "up" ELSE "down", button, held>>
           n == With(m, a)
<1>1. m.held \in Masks /\ m.out \in Seq(Events) /\ held \in Masks
  BY DEF Follows, Outcomes, Masks
<1>2. Follows(n, was) /\ Positioned(n)
  BY <1>1, MoveFollows
<1>3. a \in Events /\ a[3] = m.held
  BY <1>1 DEF Move, Events, Kinds, NoButton
<1>4. n.held = m.held /\ n.out = Append(m.out, a)
  BY <1>3 DEF With
<1>5. e \in Events /\ e[3] = held /\ e[2] = button /\ e[1] = IF release THEN "up" ELSE "down"
  BY <1>1 DEF Events, Kinds
<1>6. mouse_button(m, button, release) = [held |-> held, out |-> m.out \o <<a, e>>]
  BY DEF mouse_button
<1>7. m.out \o <<a, e>> = Append(Append(m.out, a), e)
  <2> HIDE DEF a, e
  <2> QED
    BY <1>1, <1>3, <1>5, AppendTwo
<1>8. mouse_button(m, button, release) = With(n, e)
  <2> HIDE DEF a, e, n, held
  <2> QED
    BY <1>4, <1>5, <1>6, <1>7 DEF With
<1>9. Changes(e, n.held)
  <2>1. CASE release
    BY <1>4, <1>5, <2>1 DEF Changes
  <2>2. CASE ~release
    <3>1. button \in Buttons /\ Buttons \cap {button} = {button}
      BY <2>2
    <3> QED
      BY <1>4, <1>5, <2>2, <3>1 DEF Changes
  <2> QED
    BY <2>1, <2>2
<1> HIDE DEF a, e, n, held
<1> QED
  BY <1>2, <1>5, <1>8, <1>9, EventFollows

\* It leaves the other buttons alone, and its own one held only if it was pressed.
LEMMA ButtonHolds ==
  ASSUME NEW m, NEW button, NEW release
  PROVE  mouse_button(m, button, release).held =
           IF release THEN m.held \ {button} ELSE m.held \cup (Buttons \cap {button})
  BY DEF mouse_button

\* A button's release that a legacy release stands for, if it was held.
LEMMA UpFollows ==
  ASSUME NEW m, NEW was \in Masks, NEW b \in Buttons, Follows(m, was)
  PROVE  Follows(Up(m, b), was)
<1>1. b \in 0..3
  BY DEF Buttons
<1> QED
  BY <1>1, ButtonFollows DEF Up

\* A legacy release of all buttons, or of none.
LEMMA LegacyFollows ==
  ASSUME NEW m, NEW was \in Masks, Follows(m, was)
  PROVE  Follows(LegacyRelease(m), was)
<1>1. CASE m.held = {}
  <2>1. NoButton \in 0..3
    BY DEF NoButton
  <2>2. Follows(mouse_button(m, NoButton, TRUE), was)
    BY <2>1, ButtonFollows
  <2> QED
    BY <1>1, <2>2 DEF LegacyRelease
<1>2. CASE m.held # {}
  <2>1. 0 \in Buttons /\ 1 \in Buttons /\ 2 \in Buttons
    BY DEF Buttons
  <2>2. Follows(Up(m, 0), was)
    BY <2>1, UpFollows
  <2>3. Follows(Up(Up(m, 0), 1), was)
    BY <2>1, <2>2, UpFollows
  <2>4. Follows(Up(Up(Up(m, 0), 1), 2), was)
    BY <2>1, <2>3, UpFollows
  <2> QED
    BY <1>2, <2>4 DEF LegacyRelease
<1> QED
  BY <1>1, <1>2

\* A well-placed report, in any mode but off.
LEMMA ApplyFollows ==
  ASSUME NEW m, NEW was \in Masks, NEW r \in Reports, NEW mode, Follows(m, was)
  PROVE  Follows(Apply(m, r, mode), was)
<1>1. r.wheel \in BOOLEAN /\ r.motion \in BOOLEAN /\ r.legacy \in BOOLEAN
      /\ r.release \in BOOLEAN /\ r.button \in 0..3
  BY DEF Reports
<1>2. m.held \in Masks /\ m.out \in Seq(Events) /\ m = [held |-> m.held, out |-> m.out]
  BY DEF Follows, Outcomes
<1>3. CASE r.wheel
  <2> DEFINE a == Move(m.held)
             e == <<"scroll", NoButton, m.held>>
             n == With(m, a)
  <2>1. Follows(n, was) /\ Positioned(n)
    BY <1>2, MoveFollows
  <2>2. a \in Events /\ a[3] = m.held
    BY <1>2 DEF Move, Events, Kinds, NoButton
  <2>3. e \in Events /\ e[3] = m.held /\ e[1] = "scroll"
    BY <1>2 DEF Events, Kinds, NoButton
  <2>4. n.held = m.held /\ n.out = Append(m.out, a)
    BY <2>2 DEF With
  <2>5. Apply(m, r, mode) = [held |-> m.held, out |-> m.out \o <<a, e>>]
    BY <1>2, <1>3 DEF Apply
  <2>6. m.out \o <<a, e>> = Append(Append(m.out, a), e)
    <3> HIDE DEF a, e
    <3> QED
      BY <1>2, <2>2, <2>3, AppendTwo
  <2>7. Changes(e, n.held)
    BY <2>3, <2>4 DEF Changes
  <2> HIDE DEF a, e, n
  <2>8. Apply(m, r, mode) = With(n, e)
    BY <2>3, <2>4, <2>5, <2>6 DEF With
  <2> QED
    BY <2>1, <2>3, <2>7, <2>8, EventFollows
<1>4. CASE ~r.wheel /\ r.motion
  <2> DEFINE held == Dragged(m, r.button)
  <2>1. held \in Masks /\ (held = {} \/ m.held \subseteq held)
    BY <1>1, <1>2 DEF Dragged, Masks, Buttons, NoButton
  <2>2. Apply(m, r, mode) = [held |-> held, out |-> Append(m.out, Move(held))]
    BY <1>4 DEF Apply
  <2> HIDE DEF held
  <2>3. Apply(m, r, mode) = With(m, Move(held))
    BY <2>2 DEF With, Move
  <2> QED
    BY <2>1, <2>3, MoveFollows
<1>5. CASE ~r.wheel /\ ~r.motion /\ r.legacy /\ r.button = NoButton
  BY <1>5, LegacyFollows DEF Apply
<1>6. CASE ~r.wheel /\ ~r.motion /\ ~(r.legacy /\ r.button = NoButton) /\ r.button < NoButton
  <2> DEFINE n == mouse_button(m, r.button, r.release)
  <2>1. r.button \in Buttons
    BY <1>1, <1>6 DEF NoButton, Buttons
  <2>2. Follows(n, was)
    BY <1>1, <2>1, ButtonFollows
  <2> HIDE DEF n
  <2>3. Follows(mouse_button(n, r.button, TRUE), was)
    BY <1>1, <2>2, ButtonFollows
  <2>4. Apply(m, r, mode) = Clicks(n, r.button, mode)
    BY <1>6 DEF Apply, n
  <2> QED
    BY <2>2, <2>3, <2>4 DEF Clicks
<1>7. CASE ~r.wheel /\ ~r.motion /\ ~(r.legacy /\ r.button = NoButton) /\ ~(r.button < NoButton)
  BY <1>7 DEF Apply
<1> QED
  BY <1>1, <1>3, <1>4, <1>5, <1>6, <1>7

-----------------------------------------------------------------------------
(* The specification.                                                      *)

\* What handle_mouse starts from and where it gets.
Start == [held |-> Kept, out |-> <<>>]
Done(r) == IF mouse_mode # "off" /\ Leaving(r, mouse_mode)
           THEN [Start EXCEPT !.out = <<<<"leave", NoButton, Kept>>>>]
           ELSE IF mouse_mode = "off" \/ Refused(r, mouse_mode) THEN Start
           ELSE Apply(Start, r, mouse_mode)

\* A report's events follow from the mask that the mode's change has left.
LEMMA DoneFollows ==
  ASSUME MTypeOK, NEW r \in Reports
  PROVE  Kept \in Masks /\ Follows(Done(r), Kept)
<1>1. Kept \in Masks
  BY DEF MTypeOK, Kept, Masks
<1>2. Start \in Outcomes /\ Start.held = Kept /\ Start.out = <<>>
  BY <1>1 DEF Start, Outcomes
<1>3. Follows(Start, Kept)
  BY <1>2 DEF Follows, Chain, Current
<1>4. CASE mouse_mode # "off" /\ Leaving(r, mouse_mode)
  <2> DEFINE e == <<"leave", NoButton, Kept>>
  <2>1. e \in Events /\ e[1] = "leave" /\ e[3] = Kept
    BY <1>1 DEF Events, Kinds, NoButton
  <2>2. Changes(e, Start.held) /\ e[1] \notin Placed
    BY <1>2, <2>1 DEF Changes, Placed
  <2>3. Done(r) = [held |-> Kept, out |-> <<e>>]
    BY <1>4 DEF Done, Start
  <2> HIDE DEF e
  <2>4. Append(<<>>, e) = <<e>>
    OBVIOUS
  <2>5. Done(r) = With(Start, e)
    BY <1>2, <2>1, <2>3, <2>4 DEF With
  <2> QED
    BY <1>1, <1>3, <2>1, <2>2, <2>5, EventFollows
<1>5. CASE ~(mouse_mode # "off" /\ Leaving(r, mouse_mode))
           /\ (mouse_mode = "off" \/ Refused(r, mouse_mode))
  BY <1>1, <1>3, <1>5 DEF Done
<1>6. CASE ~(mouse_mode # "off" /\ Leaving(r, mouse_mode))
           /\ ~(mouse_mode = "off" \/ Refused(r, mouse_mode))
  <2>1. Follows(Apply(Start, r, mouse_mode), Kept)
    BY <1>1, <1>3, ApplyFollows
  <2> QED
    BY <1>1, <1>6, <2>1 DEF Done
<1> QED
  BY <1>4, <1>5, <1>6

\* Without releases, no button is left held: a mode starts with none, and X10 reports
\* a click, press and release, or turns the wheel.
LEMMA DoneHoldsNothing ==
  ASSUME MTypeOK, X10HoldsNothing, NEW r \in Reports, mouse_mode \in {"x10", "off"}
  PROVE  Done(r).held = {}
<1>1. Kept = {}
  BY DEF Kept, X10HoldsNothing
<1>2. Start.held = {}
  BY <1>1 DEF Start
<1>3. ~Leaving(r, mouse_mode)
  BY DEF Leaving
<1>4. CASE mouse_mode = "off" \/ Refused(r, mouse_mode)
  BY <1>2, <1>3, <1>4 DEF Done
<1>5. CASE ~(mouse_mode = "off" \/ Refused(r, mouse_mode))
  <2>1. mouse_mode = "x10" /\ ~r.motion /\ ~r.release
        /\ (r.wheel \/ r.button # NoButton) /\ r.button \in 0..3 /\ r.wheel \in BOOLEAN
    BY <1>5 DEF Refused, Reports
  <2>2. Done(r) = Apply(Start, r, "x10")
    BY <1>3, <1>5, <2>1 DEF Done
  <2>3. CASE r.wheel
    BY <1>2, <2>2, <2>3 DEF Apply, Start
  <2>4. CASE ~r.wheel
    <3> DEFINE n == mouse_button(Start, r.button, r.release)
    <3>1. r.button # NoButton /\ r.button < NoButton
      BY <2>1, <2>4 DEF NoButton
    <3>2. Done(r) = mouse_button(n, r.button, TRUE)
      BY <2>1, <2>2, <2>4, <3>1 DEF Apply, Clicks
    <3>3. n.held \subseteq {r.button}
      <4>1. n.held = IF r.release THEN Start.held \ {r.button}
                     ELSE Start.held \cup (Buttons \cap {r.button})
        BY ButtonHolds
      <4> QED
        BY <1>2, <4>1
    <3>4. Done(r).held = n.held \ {r.button}
      <4> HIDE DEF n
      <4> QED
        BY <3>2, ButtonHolds
    <3> QED
      BY <3>3, <3>4
  <2> QED
    BY <2>1, <2>3, <2>4
<1> QED
  BY <1>4, <1>5

\* A report keeps the promise.
LEMMA ReportFollows ==
  ASSUME ButtonsFollow, NEW r \in Reports, handle_mouse(r)
  PROVE  ButtonsFollow'
<1> DEFINE m == Done(r)
<1>1. Kept \in Masks /\ m \in Outcomes /\ Chain(m.out, Kept)
  BY DoneFollows DEF ButtonsFollow, Follows
<1>2. applied_mouse_mode' = mouse_mode /\ mouse_buttons' = m.held /\ out' = m.out
      /\ before' = mouse_buttons /\ afresh' = (mouse_mode # applied_mouse_mode)
      /\ mouse_mode' = mouse_mode
  BY DEF handle_mouse, Done, Start
<1>3. MTypeOK
  BY DEF ButtonsFollow
<1> HIDE DEF m
<1>4. m.held \in Masks /\ m.out \in Seq(Events)
  BY <1>1 DEF Outcomes
<1>5. \A n \in DOMAIN m.out : m.out[n] \in Events
  BY <1>4
<1>6. \A e \in Events : e[2] \in Buttons \cup {NoButton} /\ e[3] \subseteq Buttons
  BY DEF Events, Masks, Buttons, NoButton
<1>7. MTypeOK'
  BY <1>2, <1>3, <1>4, <1>5, <1>6 DEF MTypeOK, Masks
<1>8. PositionFirst'
  BY <1>1, <1>2 DEF PositionFirst, Chain, Placed
<1>9. MaskFollowsEvents'
  <2>1. Kept = IF afresh' THEN {} ELSE before'
    BY <1>2 DEF Kept
  <2>2. \A n \in DOMAIN m.out : MaskBefore(n)' = Mask(m.out, Kept, n)
    BY <1>2, <2>1 DEF MaskBefore, Mask
  <2> QED
    BY <1>1, <1>2, <2>2 DEF MaskFollowsEvents, Chain, Changes
<1>10. X10HoldsNothing'
  BY <1>2, <1>3, DoneHoldsNothing DEF X10HoldsNothing, ButtonsFollow, m
<1> QED
  BY <1>7, <1>8, <1>9, <1>10 DEF ButtonsFollow

\* A new mode waits for the next report.
LEMMA ModeFollows ==
  ASSUME ButtonsFollow, NEW mode \in Modes, set_mouse_mode(mode)
  PROVE  ButtonsFollow'
<1>1. UNCHANGED <<applied_mouse_mode, mouse_buttons, out, before, afresh>> /\ mouse_mode' \in Modes
  BY DEF set_mouse_mode
<1>2. MTypeOK'
  BY <1>1 DEF ButtonsFollow, MTypeOK
<1>3. PositionFirst' /\ X10HoldsNothing'
  BY <1>1 DEF ButtonsFollow, PositionFirst, X10HoldsNothing
<1>4. MaskFollowsEvents'
  BY <1>1 DEF ButtonsFollow, MaskFollowsEvents, MaskBefore
<1> QED
  BY <1>2, <1>3, <1>4 DEF ButtonsFollow

\* Whatever the reports and modes, the buttons an application believes are held follow
\* from its events, and without releases none is (src/input.h:22).
THEOREM ButtonsTheorem == MSpec => []ButtonsFollow
<1>1. MInit => ButtonsFollow
  BY DEF MInit, ButtonsFollow, MTypeOK, PositionFirst, MaskFollowsEvents, X10HoldsNothing, Modes
<1>2. ButtonsFollow /\ [MNext]_mvars => ButtonsFollow'
  <2> SUFFICES ASSUME ButtonsFollow, [MNext]_mvars PROVE ButtonsFollow'
    OBVIOUS
  <2>1. CASE \E r \in Reports : handle_mouse(r)
    BY <2>1, ReportFollows
  <2>2. CASE \E mode \in Modes : set_mouse_mode(mode)
    BY <2>2, ModeFollows
  <2>3. CASE UNCHANGED mvars
    <3>1. UNCHANGED <<mouse_mode, applied_mouse_mode, mouse_buttons, out, before, afresh>>
      BY <2>3 DEF mvars
    <3>2. \A n : MaskBefore(n)' = MaskBefore(n)
      BY <3>1 DEF MaskBefore
    <3> QED
      BY <3>1, <3>2 DEF ButtonsFollow, MTypeOK, PositionFirst, MaskFollowsEvents, X10HoldsNothing
  <2> QED
    BY <2>1, <2>2, <2>3 DEF MNext
<1> QED
  BY <1>1, <1>2, PTL DEF MSpec
=============================================================================
