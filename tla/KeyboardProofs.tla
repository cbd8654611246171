--------------------------- MODULE KeyboardProofs ---------------------------
(***************************************************************************)
(* What is proved of the PC keyboard mapper, for every finite set of keys  *)
(* and every set of modifiers: the guest is told exactly of the keys that  *)
(* the host's sources hold, and no position stays down with no key of the  *)
(* host held.                                                              *)
(***************************************************************************)
EXTENDS Keyboard, SequenceTheorems, FiniteSetTheorems, WellFoundedInduction, TLAPS

-----------------------------------------------------------------------------
(* Transitions one after the other.                                        *)
\* The guest's keys and what is told of them.
Listed == {Modifiers[k] : k \in DOMAIN Modifiers} \cup {Named[k] : k \in DOMAIN Named}
          \cup {Position[k] : k \in DOMAIN Position}
          \cup {Navigation[k][1] : k \in DOMAIN Navigation}
          \cup {Navigation[k][2] : k \in DOMAIN Navigation}
Rights == {"R_CTRL", "R_ALT"}
Common == {"L_SHIFT", "R_SHIFT", "CTRL", "ALT", "SCROLL", "NUMLOCK", "PAUSE", "KP_5", "SYSRQ",
           "PRINT", "KP_INS", "SPACE", "C", "KP_STAR"}
Ids == Listed \cup Rights \cup Common
Transitions == Ids \X {"make", "break", "none"}

\* A key is down if it was and is not broken, or made and not broken later.
LEMMA InDown ==
  ASSUME NEW out \in Seq(Transitions), NEW n \in 0..Len(out), NEW was, NEW id
  PROVE  id \in Down(out, n, was) <=>
           \/ id \in was /\ ~Broken(out, id, 0, n)
           \/ \E m \in 1..n : out[m] = <<id, "make">> /\ ~Broken(out, id, m, n)
<1>1. \A m \in 1..n : out[m] = <<out[m][1], out[m][2]>>
  BY DEF Transitions
<1>2. \A m \in 1..n : out[m] = <<id, "make">> <=> out[m][1] = id /\ out[m][2] = "make"
  BY <1>1
<1> QED
  BY <1>2 DEF Down

\* The transitions of two sequences, one after the other.
BreaksOf(all, a, b, l, n, id) ==
  /\ \A m \in 0..l : Broken(all, id, m, l + n) <=> Broken(a, id, m, l) \/ Broken(b, id, 0, n)
  /\ \A m \in 0..n : Broken(all, id, l + m, l + n) <=> Broken(b, id, m, n)
LEMMA BrokenLater ==
  ASSUME NEW a \in Seq(Transitions), NEW b \in Seq(Transitions), NEW all, all = a \o b,
         NEW l, l = Len(a), NEW n \in 0..Len(b), NEW id
  PROVE  BreaksOf(all, a, b, l, n, id)
<1>1. l \in Nat /\ n \in Nat /\ Len(b) \in Nat
  OBVIOUS
<1>2. \A i \in 1..l : all[i] = a[i]
  OBVIOUS
<1>3. \A i \in 1..n : all[l + i] = b[i]
  <2> SUFFICES ASSUME NEW i \in 1..n PROVE all[l + i] = b[i]
    OBVIOUS
  <2>1. l + i \in 1..(Len(a) + Len(b)) /\ ~(l + i <= l) /\ (l + i) - l = i
    BY <1>1
  <2>2. (a \o b)[l + i] = IF l + i <= Len(a) THEN a[l + i] ELSE b[l + i - Len(a)]
    BY <2>1, ConcatProperties
  <2> QED
    BY <2>1, <2>2
<1>4. ASSUME NEW m \in 0..l
      PROVE  Broken(all, id, m, l + n) <=> Broken(a, id, m, l) \/ Broken(b, id, 0, n)
  <2>1. ASSUME NEW i \in (m + 1)..(l + n), all[i] = <<id, "break">>
        PROVE  Broken(a, id, m, l) \/ Broken(b, id, 0, n)
    <3>1. CASE i <= l
      <4>1. i \in (m + 1)..l /\ i \in 1..l
        BY <1>1, <3>1
      <4> QED
        BY <1>2, <2>1, <4>1 DEF Broken
    <3>2. CASE ~(i <= l)
      <4>1. PICK k : k = i - l
        OBVIOUS
      <4>2. k \in 1..n /\ l + k = i /\ k \in (0 + 1)..n
        BY <1>1, <3>2, <4>1
      <4>3. b[k] = <<id, "break">>
        BY <1>3, <2>1, <4>2
      <4> QED
        BY <4>2, <4>3 DEF Broken
    <3> QED
      BY <3>1, <3>2
  <2>2. ASSUME NEW i \in (m + 1)..l, a[i] = <<id, "break">> PROVE Broken(all, id, m, l + n)
    <3>1. i \in 1..l /\ i \in (m + 1)..(l + n)
      BY <1>1
    <3> QED
      BY <1>2, <2>2, <3>1 DEF Broken
  <2>3. ASSUME NEW i \in (0 + 1)..n, b[i] = <<id, "break">> PROVE Broken(all, id, m, l + n)
    <3>1. i \in 1..n /\ l + i \in (m + 1)..(l + n)
      BY <1>1
    <3>2. all[l + i] = <<id, "break">>
      BY <1>3, <2>3, <3>1
    <3> QED
      BY <3>1, <3>2 DEF Broken
  <2> QED
    BY <2>1, <2>2, <2>3 DEF Broken
<1>5. ASSUME NEW m \in 0..n PROVE Broken(all, id, l + m, l + n) <=> Broken(b, id, m, n)
  <2>1. ASSUME NEW i \in (l + m + 1)..(l + n), all[i] = <<id, "break">> PROVE Broken(b, id, m, n)
    <3>1. PICK k : k = i - l
      OBVIOUS
    <3>2. k \in 1..n /\ l + k = i /\ k \in (m + 1)..n
      BY <1>1, <3>1
    <3>3. b[k] = <<id, "break">>
      BY <1>3, <2>1, <3>2
    <3> QED
      BY <3>2, <3>3 DEF Broken
  <2>2. ASSUME NEW i \in (m + 1)..n, b[i] = <<id, "break">> PROVE Broken(all, id, l + m, l + n)
    <3>1. i \in 1..n /\ l + i \in (l + m + 1)..(l + n)
      BY <1>1
    <3>2. all[l + i] = <<id, "break">>
      BY <1>3, <2>2, <3>1
    <3> QED
      BY <3>1, <3>2 DEF Broken
  <2> QED
    BY <2>1, <2>2 DEF Broken
<1> QED
  BY <1>4, <1>5 DEF BreaksOf

\* What is down in the course of the second one, and in the course of the first.
Continued(all, a, b, n, was) == Down(all, Len(a) + n, was) = Down(b, n, Down(a, Len(a), was))
Unmoved(all, a, n, was) == Down(all, n, was) = Down(a, n, was)
LEMMA DownLater ==
  ASSUME NEW a \in Seq(Transitions), NEW b \in Seq(Transitions), NEW all, all = a \o b,
         NEW n \in 0..Len(b), NEW was
  PROVE  Continued(all, a, b, n, was)
<1> SUFFICES ASSUME NEW id
             PROVE  id \in Down(all, Len(a) + n, was) <=> id \in Down(b, n, Down(a, Len(a), was))
  BY DEF Continued
<1>1. PICK l \in Nat : l = Len(a)
  OBVIOUS
<1>2. /\ all \in Seq(Transitions) /\ l + n \in 0..Len(all) /\ l \in 0..Len(a) /\ n \in Nat
  BY <1>1
<1>3. \A m \in 1..l : all[m] = a[m]
  BY <1>1
<1>4. \A m \in 1..n : all[l + m] = b[m]
  <2> SUFFICES ASSUME NEW m \in 1..n PROVE all[l + m] = b[m]
    OBVIOUS
  <2>1. l + m \in 1..(Len(a) + Len(b)) /\ ~(l + m <= l) /\ (l + m) - l = m
    BY <1>1
  <2>2. (a \o b)[l + m] = IF l + m <= Len(a) THEN a[l + m] ELSE b[l + m - Len(a)]
    BY <2>1, ConcatProperties
  <2> QED
    BY <1>1, <2>1, <2>2
<1>5. /\ \A m \in 0..l : Broken(all, id, m, l + n) <=> Broken(a, id, m, l) \/ Broken(b, id, 0, n)
      /\ \A m \in 0..n : Broken(all, id, l + m, l + n) <=> Broken(b, id, m, n)
  <2>1. BreaksOf(all, a, b, l, n, id)
    BY <1>1, BrokenLater
  <2> QED
    BY <2>1 DEF BreaksOf
<1>6. id \in Down(all, l + n, was) <=>
        \/ id \in was /\ ~Broken(all, id, 0, l + n)
        \/ \E m \in 1..(l + n) : all[m] = <<id, "make">> /\ ~Broken(all, id, m, l + n)
  BY <1>2, InDown
<1>7. id \in Down(a, l, was) <=>
        \/ id \in was /\ ~Broken(a, id, 0, l)
        \/ \E m \in 1..l : a[m] = <<id, "make">> /\ ~Broken(a, id, m, l)
  BY <1>2, InDown
<1>8. id \in Down(b, n, Down(a, l, was)) <=>
        \/ id \in Down(a, l, was) /\ ~Broken(b, id, 0, n)
        \/ \E m \in 1..n : b[m] = <<id, "make">> /\ ~Broken(b, id, m, n)
  BY InDown
<1>9. ASSUME NEW m \in 1..(l + n), all[m] = <<id, "make">>, ~Broken(all, id, m, l + n)
      PROVE  id \in Down(b, n, Down(a, l, was))
  <2>1. CASE m <= l
    <3>1. m \in 1..l /\ m \in 0..l
      BY <2>1
    <3> QED
      BY <1>3, <1>5, <1>7, <1>8, <1>9, <3>1
  <2>2. CASE ~(m <= l)
    <3>1. PICK k : k = m - l
      OBVIOUS
    <3>2. k \in 1..n /\ k \in 0..n /\ l + k = m
      BY <1>2, <2>2, <3>1
    <3> QED
      BY <1>4, <1>5, <1>8, <1>9, <3>2
  <2> QED
    BY <2>1, <2>2
<1>10. ASSUME NEW m \in 1..n, b[m] = <<id, "make">>, ~Broken(b, id, m, n)
       PROVE  id \in Down(all, l + n, was)
  <2>1. l + m \in 1..(l + n) /\ m \in 0..n
    BY <1>2
  <2> QED
    BY <1>4, <1>5, <1>6, <1>10, <2>1
<1>11. ASSUME NEW m \in 1..l, a[m] = <<id, "make">>, ~Broken(a, id, m, l), ~Broken(b, id, 0, n)
       PROVE  id \in Down(all, l + n, was)
  <2>1. m \in 1..(l + n) /\ m \in 0..l
    BY <1>2
  <2> QED
    BY <1>3, <1>5, <1>6, <1>11, <2>1
<1>12. 0 \in 0..l
  OBVIOUS
<1> QED
  BY <1>1, <1>5, <1>6, <1>7, <1>8, <1>9, <1>10, <1>11, <1>12

\* What is down in the course of the first sequence is so in the course of both.
LEMMA DownSooner ==
  ASSUME NEW a \in Seq(Transitions), NEW b \in Seq(Transitions), NEW all, all = a \o b,
         NEW n \in 0..Len(a), NEW was
  PROVE  Unmoved(all, a, n, was)
<1>1. \A i \in 1..n : all[i] = a[i]
  OBVIOUS
<1>2. n \in Nat
  OBVIOUS
<1>4. ASSUME NEW id, NEW m \in 0..n PROVE Broken(all, id, m, n) <=> Broken(a, id, m, n)
  <2>1. \A i \in (m + 1)..n : i \in 1..n
    BY <1>2
  <2> QED
    BY <1>1, <2>1 DEF Broken
<1>5. \A m \in 1..n : m \in 0..n
  OBVIOUS
<1>6. 0 \in 0..n
  BY <1>2
<1>7. \A m \in 1..n : /\ all[m] = a[m]
                      /\ Broken(all, all[m][1], m, n) <=> Broken(a, a[m][1], m, n)
  BY <1>1, <1>4, <1>5
<1>8. \A id \in was : Broken(all, id, 0, n) <=> Broken(a, id, 0, n)
  BY <1>4, <1>6
<1>9. Down(all, n, was) = Down(a, n, was)
  BY <1>7, <1>8 DEF Down
<1> QED
  BY <1>9 DEF Unmoved

\* Proper transitions that take the guest's keys from one set to another.
Tells(out, was, now) == /\ out \in Seq(Transitions)
                        /\ Alternates(out, was, FALSE) /\ Down(out, Len(out), was) = now

\* No transition tells nothing, ...
LEMMA TellsNothing == ASSUME NEW was PROVE Tells(<<>>, was, was)
<1>1. <<>> \in Seq(Transitions) /\ Len(<<>>) = 0 /\ DOMAIN <<>> = 1..0
  OBVIOUS
<1>2. \A id : ~Broken(<<>>, id, 0, 0)
  BY DEF Broken
<1>3. Down(<<>>, 0, was) = was
  BY <1>2 DEF Down
<1>4. Alternates(<<>>, was, FALSE)
  BY <1>1 DEF Alternates
<1> QED
  BY <1>1, <1>3, <1>4 DEF Tells

\* ... and transitions that follow others tell what they told and more.
LEMMA TellsMore ==
  ASSUME NEW a, NEW b, NEW x, NEW y, NEW z, Tells(a, x, y), Tells(b, y, z)
  PROVE  Tells(a \o b, x, z)
<1>1. a \in Seq(Transitions) /\ b \in Seq(Transitions)
  BY DEF Tells
<1>2. PICK all \in Seq(Transitions) : all = a \o b
  <2>1. a \o b \in Seq(Transitions)
    BY <1>1, ConcatProperties
  <2> QED
    BY <2>1
<1>3. PICK l \in Nat : l = Len(a)
  BY <1>1
<1>4. PICK n \in Nat : n = Len(b)
  BY <1>1
<1>5. Len(all) = l + n /\ DOMAIN all = 1..(l + n) /\ DOMAIN a = 1..l /\ DOMAIN b = 1..n
  BY <1>1, <1>2, <1>3, <1>4
<1>6. Down(a, l, x) = y /\ Down(b, n, y) = z
  BY <1>3, <1>4 DEF Tells
<1>7. \A k \in 0..n : Down(all, l + k, x) = Down(b, k, y)
  <2> SUFFICES ASSUME NEW k \in 0..n PROVE Down(all, l + k, x) = Down(b, k, y)
    OBVIOUS
  <2>1. k \in 0..Len(b)
    BY <1>4
  <2>2. Continued(all, a, b, k, x)
    BY <1>1, <1>2, <2>1, DownLater
  <2> QED
    BY <1>3, <1>6, <2>2 DEF Continued
<1>8. Down(all, l + n, x) = z
  <2>1. n \in 0..n
    OBVIOUS
  <2> QED
    BY <1>6, <1>7, <2>1
<1>9. ASSUME NEW i \in 1..(l + n), all[i][2] # "none"
      PROVE  (all[i][1] \in Down(all, i - 1, x)) <=> (all[i][2] = "break")
  <2>1. CASE i <= l
    <3>1. i \in 1..l /\ i - 1 \in 0..l /\ all[i] = a[i]
      BY <1>1, <1>2, <1>3, <2>1
    <3>2. Down(all, i - 1, x) = Down(a, i - 1, x)
      <4>1. i - 1 \in 0..Len(a)
        BY <1>3, <3>1
      <4>2. Unmoved(all, a, i - 1, x)
        BY <1>1, <1>2, <4>1, DownSooner
      <4> QED
        BY <4>2 DEF Unmoved
    <3>3. (a[i][1] \in Down(a, i - 1, x)) <=> (a[i][2] = "break")
      BY <1>5, <1>9, <3>1 DEF Tells, Alternates
    <3> QED
      BY <3>1, <3>2, <3>3
  <2>2. CASE ~(i <= l)
    <3>1. PICK k : k = i - l
      OBVIOUS
    <3>2. k \in 1..n /\ k - 1 \in 0..n /\ l + (k - 1) = i - 1 /\ i - l = k
          /\ i \in 1..(Len(a) + Len(b))
      BY <1>3, <1>4, <2>2, <3>1
    <3>3. all[i] = b[k]
      <4>1. (a \o b)[i] = IF i <= Len(a) THEN a[i] ELSE b[i - Len(a)]
        BY <1>1, <3>2, ConcatProperties
      <4> QED
        BY <1>2, <1>3, <2>2, <3>2, <4>1
    <3>4. Down(all, i - 1, x) = Down(b, k - 1, y)
      BY <1>7, <3>2
    <3>5. (b[k][1] \in Down(b, k - 1, y)) <=> (b[k][2] = "break")
      BY <1>5, <1>9, <3>2, <3>3 DEF Tells, Alternates
    <3> QED
      BY <3>3, <3>4, <3>5
  <2> QED
    BY <2>1, <2>2
<1>10. Alternates(all, x, FALSE)
  BY <1>5, <1>9 DEF Alternates
<1> QED
  BY <1>2, <1>5, <1>8, <1>10 DEF Tells

\* One transition for every key.
LEMMA EmitType ==
  ASSUME NEW ids \in Seq(Ids), NEW told, NEW what \in {"make", "break"}
  PROVE  /\ Emit(ids, told, what) \in Seq(Transitions) /\ Len(Emit(ids, told, what)) = Len(ids)
         /\ \A i \in 1..Len(ids) :
              Emit(ids, told, what)[i] = <<ids[i], IF ids[i] \in told THEN what ELSE "none">>
<1>1. DOMAIN ids = 1..Len(ids) /\ Len(ids) \in Nat
  OBVIOUS
<1>2. \A i \in 1..Len(ids) : <<ids[i], IF ids[i] \in told THEN what ELSE "none">> \in Transitions
  BY <1>1 DEF Transitions
<1>3. PICK out : out = [i \in 1..Len(ids) |-> <<ids[i], IF ids[i] \in told THEN what ELSE "none">>]
  OBVIOUS
<1>4. out \in Seq(Transitions) /\ Len(out) = Len(ids)
  BY <1>1, <1>2, <1>3
<1>5. Emit(ids, told, what) = out
  BY <1>1, <1>3 DEF Emit
<1> QED
  BY <1>3, <1>4, <1>5

\* Breaks of keys that are down take them away, ...
LEMMA TellsBreaks ==
  ASSUME NEW ids \in Seq(Ids), IsInjective(ids), NEW told, told \subseteq ToSet(ids),
         NEW was, told \subseteq was
  PROVE  Tells(Emit(ids, told, "break"), was, was \ told)
<1>1. PICK out : out = Emit(ids, told, "break")
  OBVIOUS
<1>2. PICK l \in Nat : l = Len(ids)
  OBVIOUS
<1>3. /\ out \in Seq(Transitions) /\ Len(out) = l
      /\ \A i \in 1..l : out[i] = <<ids[i], IF ids[i] \in told THEN "break" ELSE "none">>
  BY <1>1, <1>2, EmitType
<1>4. DOMAIN ids = 1..l /\ DOMAIN out = 1..l
  BY <1>2, <1>3
<1>5. ASSUME NEW n \in 0..l, NEW id
      PROVE  id \in Down(out, n, was) <=>
               id \in was /\ \A i \in 1..n : ids[i] = id => id \notin told
  <2>1. \A i \in 1..n : i \in 1..l /\ out[i] # <<id, "make">>
    BY <1>3
  <2>2. Broken(out, id, 0, n) <=> \E i \in 1..n : ids[i] = id /\ id \in told
    <3>1. \A i \in 1..n : out[i] = <<id, "break">> <=> ids[i] = id /\ id \in told
      BY <1>3, <2>1
    <3>2. (0 + 1)..n = 1..n
      OBVIOUS
    <3> QED
      BY <3>1, <3>2 DEF Broken
  <2> QED
    BY <1>3, <2>1, <2>2, InDown
<1>6. Down(out, l, was) = was \ told
  <2>1. \A id \in told : \E i \in 1..l : ids[i] = id
    BY <1>4 DEF ToSet
  <2>2. l \in 0..l
    OBVIOUS
  <2>3. \A id : id \in Down(out, l, was) <=> id \in was /\ id \notin told
    BY <1>5, <2>1, <2>2
  <2> QED
    BY <2>3
<1>7. ASSUME NEW i \in 1..l, out[i][2] # "none"
      PROVE  out[i][1] \in Down(out, i - 1, was) /\ out[i][2] = "break"
  <2>1. out[i] = <<ids[i], "break">> /\ ids[i] \in told
    BY <1>3, <1>7
  <2>2. i - 1 \in 0..l /\ \A k \in 1..(i - 1) : k \in 1..l /\ k # i
    OBVIOUS
  <2>3. \A k \in 1..(i - 1) : ids[k] # ids[i]
    BY <1>4, <2>2 DEF IsInjective
  <2>4. ids[i] \in Down(out, i - 1, was)
    BY <1>5, <2>1, <2>2, <2>3
  <2> QED
    BY <2>1, <2>4
<1>8. Alternates(out, was, FALSE)
  BY <1>4, <1>7 DEF Alternates
<1> QED
  BY <1>1, <1>3, <1>6, <1>8 DEF Tells

\* ... and makes of keys that are up add them: in any order, since the keys of a chord differ.
LEMMA TellsMakes ==
  ASSUME NEW ids \in Seq(Ids), IsInjective(ids), NEW told, told \subseteq ToSet(ids),
         NEW was, told \cap was = {}
  PROVE  Tells(Emit(ids, told, "make"), was, was \cup told)
<1>1. PICK out : out = Emit(ids, told, "make")
  OBVIOUS
<1>2. PICK l \in Nat : l = Len(ids)
  OBVIOUS
<1>3. /\ out \in Seq(Transitions) /\ Len(out) = l
      /\ \A i \in 1..l : out[i] = <<ids[i], IF ids[i] \in told THEN "make" ELSE "none">>
  BY <1>1, <1>2, EmitType
<1>4. DOMAIN ids = 1..l /\ DOMAIN out = 1..l
  BY <1>2, <1>3
<1>5. ASSUME NEW n \in 0..l, NEW id
      PROVE  id \in Down(out, n, was) <=> id \in was \/ \E i \in 1..n : ids[i] = id /\ id \in told
  <2>1. \A i \in 1..n : i \in 1..l
    OBVIOUS
  <2>2. \A m \in 0..n : ~Broken(out, id, m, n)
    <3>1. ASSUME NEW m \in 0..n, NEW i \in (m + 1)..n PROVE out[i] # <<id, "break">>
      <4>1. i \in 1..l
        OBVIOUS
      <4> QED
        BY <1>3, <4>1
    <3> QED
      BY <3>1 DEF Broken
  <2>3. \A i \in 1..n : i \in 0..n /\ (out[i] = <<id, "make">> <=> ids[i] = id /\ id \in told)
    BY <1>3, <2>1
  <2>4. 0 \in 0..n
    OBVIOUS
  <2> QED
    BY <1>3, <2>2, <2>3, <2>4, InDown
<1>6. Down(out, l, was) = was \cup told
  <2>1. \A id \in told : \E i \in 1..l : ids[i] = id
    BY <1>4 DEF ToSet
  <2>2. l \in 0..l
    OBVIOUS
  <2>3. \A id : id \in Down(out, l, was) <=> id \in was \/ id \in told
    BY <1>5, <2>1, <2>2
  <2> QED
    BY <2>3
<1>7. ASSUME NEW i \in 1..l, out[i][2] # "none"
      PROVE  out[i][1] \notin Down(out, i - 1, was) /\ out[i][2] = "make"
  <2>1. out[i] = <<ids[i], "make">> /\ ids[i] \in told
    BY <1>3, <1>7
  <2>2. i - 1 \in 0..l /\ \A k \in 1..(i - 1) : k \in 1..l /\ k # i
    OBVIOUS
  <2>3. \A k \in 1..(i - 1) : ids[k] # ids[i]
    BY <1>4, <2>2 DEF IsInjective
  <2>4. ids[i] \notin Down(out, i - 1, was)
    BY <1>5, <2>1, <2>2, <2>3
  <2> QED
    BY <2>1, <2>4
<1>8. Alternates(out, was, FALSE)
  BY <1>4, <1>7 DEF Alternates
<1> QED
  BY <1>1, <1>3, <1>6, <1>8 DEF Tells

\* A key whose position is down is down itself, whatever the transitions were.
LEMMA PlacesFollow ==
  ASSUME NEW out \in Seq(Transitions), NEW was, NEW places,
         \A p \in places : \E id \in was : PositionOf(id) = p
  PROVE  \A p \in Down(Placed(out), Len(out), places) :
           \E id \in Down(out, Len(out), was) : PositionOf(id) = p
<1>1. PICK l \in Nat : l = Len(out)
  OBVIOUS
<1>2. PICK told : told = Placed(out)
  OBVIOUS
<1>3. /\ DOMAIN out = 1..l /\ \A i \in 1..l : out[i] \in Transitions
      /\ \A i \in 1..l : told[i] = <<PositionOf(out[i][1]), out[i][2]>>
  BY <1>1, <1>2 DEF Placed
<1>4. ASSUME NEW id, NEW m \in 0..l, Broken(out, id, m, l) PROVE Broken(told, PositionOf(id), m, l)
  <2>1. PICK i \in (m + 1)..l : out[i] = <<id, "break">>
    BY <1>4 DEF Broken
  <2>2. i \in 1..l
    OBVIOUS
  <2>3. told[i] = <<PositionOf(id), "break">>
    BY <1>3, <2>1, <2>2
  <2> QED
    BY <2>3 DEF Broken
<1>5. ASSUME NEW p \in places, ~Broken(told, p, 0, l)
      PROVE  \E id \in Down(out, l, was) : PositionOf(id) = p
  <2>1. PICK id \in was : PositionOf(id) = p
    OBVIOUS
  <2>2. 0 \in 0..l
    OBVIOUS
  <2>3. ~Broken(out, id, 0, l)
    BY <1>4, <1>5, <2>1, <2>2
  <2>4. id \in Down(out, l, was)
    BY <2>3 DEF Down
  <2> QED
    BY <2>1, <2>4
<1>6. ASSUME NEW i \in 1..l, told[i][2] = "make", ~Broken(told, told[i][1], i, l)
      PROVE  \E id \in Down(out, l, was) : PositionOf(id) = told[i][1]
  <2>1. i \in 0..l /\ told[i][1] = PositionOf(out[i][1]) /\ out[i][2] = "make"
    BY <1>3, <1>6
  <2>2. ~Broken(out, out[i][1], i, l)
    BY <1>4, <1>6, <2>1
  <2>3. out[i][1] \in Down(out, l, was)
    BY <2>1, <2>2 DEF Down
  <2> QED
    BY <2>1, <2>3
<1>7. \A p \in Down(told, l, places) : \E id \in Down(out, l, was) : PositionOf(id) = p
  BY <1>5, <1>6 DEF Down
<1> QED
  BY <1>1, <1>2, <1>7

-----------------------------------------------------------------------------
(* Mappings: the keys of a chord differ.                                   *)
Chords == {c \in Seq(Ids) : IsInjective(c)}
Lefts == {c \in Chords : ToSet(c) \cap Rights = {}}

\* The guest keys of the tables are no right-hand modifiers but where a modifier is mapped.
LEMMA LeftIds ==
  /\ \A k \in DOMAIN Named : Named[k] \in Ids \ Rights
  /\ \A k \in DOMAIN Position : Position[k] \in Ids \ Rights
  /\ \A k \in DOMAIN Navigation :
       Navigation[k][1] \in Ids \ Rights /\ Navigation[k][2] \in Ids \ Rights
  /\ \A id \in Common : id \in Ids \ Rights
<1>1. \A k \in DOMAIN Named : Named[k] \in Listed /\ Named[k] \notin Rights
  <2>1. \A k \in DOMAIN Named : Named[k] \in Listed
    BY DEF Listed
  <2>2. \A k \in DOMAIN Named : Named[k] \notin Rights
    BY DEF Named, Rights
  <2> QED
    BY <2>1, <2>2
<1>2. \A k \in DOMAIN Position : Position[k] \in Listed /\ Position[k] \notin Rights
  <2>1. \A k \in DOMAIN Position : Position[k] \in Listed
    BY DEF Listed
  <2>2. \A k \in DOMAIN Position : Position[k] \notin Rights
    BY DEF Position, Rights
  <2> QED
    BY <2>1, <2>2
<1>3. \A k \in DOMAIN Navigation :
        {Navigation[k][1], Navigation[k][2]} \subseteq Listed \ Rights
  <2>1. \A k \in DOMAIN Navigation : Navigation[k][1] \in Listed /\ Navigation[k][2] \in Listed
    BY DEF Listed
  <2>2. \A k \in DOMAIN Navigation :
          Navigation[k][1] \notin Rights /\ Navigation[k][2] \notin Rights
    BY DEF Navigation, Rights
  <2> QED
    BY <2>1, <2>2
<1>4. \A id \in Common : id \notin Rights
  BY DEF Rights, Common
<1> QED
  BY <1>1, <1>2, <1>3, <1>4 DEF Ids

\* One key and two keys as a chord.
LEMMA One == ASSUME NEW a \in Ids \ Rights PROVE <<a>> \in Lefts
<1>1. <<a>> \in Seq(Ids) /\ Len(<<a>>) = 1 /\ <<a>>[1] = a /\ DOMAIN <<a>> = 1..1
  OBVIOUS
<1>2. ToSet(<<a>>) = {a} /\ IsInjective(<<a>>)
  BY <1>1 DEF ToSet, IsInjective
<1> QED
  BY <1>1, <1>2 DEF Lefts, Chords
LEMMA Two == ASSUME NEW a \in Ids \ Rights, NEW b \in Ids \ Rights, a # b PROVE <<a, b>> \in Lefts
<1>1. <<a, b>> \in Seq(Ids) /\ Len(<<a, b>>) = 2 /\ DOMAIN <<a, b>> = 1..2
      /\ <<a, b>>[1] = a /\ <<a, b>>[2] = b
  OBVIOUS
<1>2. \A i \in 1..2 : i = 1 \/ i = 2
  OBVIOUS
<1>3. ToSet(<<a, b>>) = {a, b} 
  BY <1>1, <1>2 DEF ToSet
<1>4. IsInjective(<<a, b>>)
  BY <1>1, <1>2 DEF IsInjective
<1> QED
  BY <1>1, <1>3, <1>4 DEF Lefts, Chords
LEMMA None == <<>> \in Lefts
<1>1. <<>> \in Seq(Ids) /\ DOMAIN <<>> = {}
  OBVIOUS
<1>2. ToSet(<<>>) = {} /\ IsInjective(<<>>)
  BY <1>1 DEF ToSet, IsInjective
<1> QED
  BY <1>1, <1>2 DEF Lefts, Chords

\* So are the chords of the Command layer, of a key and of a command.
LEMMA CommandLefts == \A k \in DOMAIN Command : Command[k] \in Lefts
<1> DEFINE L == Lefts
<1>1. <<"KP_5">> \in L /\ <<"KP_STAR">> \in L /\ <<"NUMLOCK">> \in L /\ <<"CTRL", "C">> \in L
  BY LeftIds, One, Two DEF Common
<1> HIDE DEF L
<1>2. \A k \in DOMAIN Command : Command[k] \in L
  BY <1>1 DEF Command
<1> QED
  BY <1>2 DEF L

LEMMA ChordLefts == ASSUME NEW k, ~IsModifier(k), NEW mods PROVE Chord(k, mods) \in Lefts
<1> DEFINE L == Lefts
<1>1. <<>> \in L /\ <<"KP_INS">> \in L /\ <<"PAUSE">> \in L /\ <<"CTRL", "NUMLOCK">> \in L
      /\ <<"CTRL", "SCROLL">> \in L /\ <<"CTRL", "SPACE">> \in L
  BY LeftIds, One, Two, None DEF Common
<1>2. \A x \in DOMAIN Navigation : <<Navigation[x][1]>> \in L /\ <<Navigation[x][2]>> \in L
  BY LeftIds, One
<1>3. \A x \in DOMAIN Position : <<Position[x]>> \in L
  BY LeftIds, One
<1>4. \A x \in DOMAIN Named : <<Named[x]>> \in L
  BY LeftIds, One
<1>5. \A x \in DOMAIN Command : Command[x] \in L
  BY CommandLefts
<1> HIDE DEF L
<1>6. Chord(k, mods) \in L
  BY <1>1, <1>2, <1>3, <1>4, <1>5 DEF Chord
<1> QED
  BY <1>6 DEF L

LEMMA CommandMappingLefts == ASSUME NEW k, NEW mods PROVE command_mapping(k, mods) \in Lefts
<1> DEFINE L == Lefts
<1>1. <<>> \in L /\ <<"SCROLL">> \in L /\ <<"PAUSE">> \in L /\ <<"CTRL", "NUMLOCK">> \in L
      /\ <<"NUMLOCK">> \in L
      /\ <<"CTRL", "SCROLL">> \in L /\ <<"KP_5">> \in L /\ <<"SYSRQ">> \in L /\ <<"PRINT">> \in L
  BY LeftIds, One, Two, None DEF Common
<1> HIDE DEF L
<1>6. command_mapping(k, mods) \in L
  BY <1>1 DEF command_mapping
<1> QED
  BY <1>6 DEF L

\* A key in front of a chord that does not have it.
LEMMA Ahead ==
  ASSUME NEW c \in Lefts, NEW id \in Ids \ Rights, id \notin ToSet(c)
  PROVE  <<id>> \o c \in Lefts /\ ToSet(<<id>> \o c) = ToSet(c) \cup {id}
<1>1. c \in Seq(Ids) /\ IsInjective(c) /\ ToSet(c) \cap Rights = {}
  BY DEF Lefts, Chords
<1>2. PICK l \in Nat : l = Len(c)
  BY <1>1
<1>3. PICK d \in Seq(Ids) : d = <<id>> \o c
  <2>1. <<id>> \o c \in Seq(Ids)
    BY <1>1, ConcatProperties
  <2> QED
    BY <2>1
<1>4. DOMAIN c = 1..l /\ DOMAIN d = 1..(l + 1) /\ d[1] = id /\ \A i \in 2..(l + 1) : d[i] = c[i - 1]
  BY <1>1, <1>2, <1>3
<1>5. \A i \in 1..(l + 1) : i = 1 \/ (i \in 2..(l + 1) /\ i - 1 \in 1..l)
  BY <1>2
<1>6. \A i \in 1..l : i + 1 \in 2..(l + 1) /\ (i + 1) - 1 = i
  BY <1>2
<1>7. ToSet(d) = ToSet(c) \cup {id}
  <2>1. \A i \in 1..l : c[i] = d[i + 1] /\ i + 1 \in 1..(l + 1)
    BY <1>2, <1>4, <1>6
  <2>2. 1 \in 1..(l + 1)
    BY <1>2
  <2>3. ASSUME NEW i \in 1..(l + 1) PROVE d[i] \in ToSet(c) \cup {id}
    <3>1. CASE i = 1
      BY <1>4, <3>1
    <3>2. CASE i \in 2..(l + 1) /\ i - 1 \in 1..l
      BY <1>4, <3>2 DEF ToSet
    <3> QED
      BY <1>5, <3>1, <3>2
  <2>4. ToSet(d) \subseteq ToSet(c) \cup {id}
    BY <1>4, <2>3 DEF ToSet
  <2>5. ASSUME NEW x \in ToSet(c) PROVE x \in ToSet(d)
    <3>1. PICK i \in 1..l : x = c[i]
      BY <1>4 DEF ToSet
    <3>2. x = d[i + 1] /\ i + 1 \in DOMAIN d
      BY <1>4, <2>1, <3>1
    <3> QED
      BY <3>2 DEF ToSet
  <2>6. id \in ToSet(d)
    BY <1>4, <2>2 DEF ToSet
  <2> QED
    BY <2>4, <2>5, <2>6
<1>8. IsInjective(d)
  <2>1. ASSUME NEW i \in 2..(l + 1) PROVE i - 1 \in 1..l /\ d[i] = c[i - 1] /\ d[i] # id
    <3>1. i - 1 \in 1..l /\ d[i] = c[i - 1]
      BY <1>2, <1>4
    <3>2. c[i - 1] \in ToSet(c)
      BY <1>4, <3>1 DEF ToSet
    <3> QED
      BY <3>1, <3>2
  <2>2. ASSUME NEW i \in 2..(l + 1), NEW j \in 2..(l + 1), d[i] = d[j] PROVE i = j
    <3>1. i - 1 \in 1..l /\ j - 1 \in 1..l /\ c[i - 1] = c[j - 1]
      BY <2>1, <2>2
    <3>2. i - 1 = j - 1
      BY <1>1, <1>4, <3>1 DEF IsInjective
    <3> QED
      BY <1>2, <3>2
  <2>3. \A i, j \in 1..(l + 1) : d[i] = d[j] => i = j
    BY <1>4, <1>5, <2>1, <2>2
  <2> QED
    BY <1>4, <2>3 DEF IsInjective
<1> QED
  BY <1>1, <1>3, <1>7, <1>8 DEF Lefts, Chords

\* A modifier in front of a chord whose own keys do not have it; `rest' are the keys
\* that are in front already.
Missing(id, active, chord) == IF active /\ id \notin ToSet(chord) THEN <<id>> ELSE <<>>
Goes(chord, id, active, c, rest) ==
  /\ Missing(id, active, chord) \in Seq(Ids) /\ Missing(id, active, chord) \o c \in Lefts
  /\ ToSet(Missing(id, active, chord) \o c) \subseteq ToSet(chord) \cup rest \cup {id}
LEMMA MissingAhead ==
  ASSUME NEW id \in Ids \ Rights, NEW active, NEW chord, NEW c \in Lefts, NEW rest,
         ToSet(c) \subseteq ToSet(chord) \cup rest, id \notin rest
  PROVE  Goes(chord, id, active, c, rest)
<1>1. c \in Seq(Ids) /\ <<id>> \in Seq(Ids)
  BY DEF Lefts, Chords
<1>2. <<>> \o c = c
  BY <1>1
<1>3. CASE active /\ id \notin ToSet(chord)
  <2>1. Missing(id, active, chord) = <<id>> /\ id \notin ToSet(c)
    BY <1>3 DEF Missing
  <2> QED
    BY <1>1, <2>1, Ahead DEF Goes
<1>4. CASE ~(active /\ id \notin ToSet(chord))
  <2>1. Missing(id, active, chord) = <<>>
    BY <1>4 DEF Missing
  <2>2. <<>> \in Seq(Ids)
    OBVIOUS
  <2> QED
    BY <1>2, <2>1, <2>2 DEF Goes
<1> QED
  BY <1>3, <1>4

\* The modifiers that a chord lacks go in front of it.
LEMMA SimulatedLefts ==
  ASSUME NEW k, NEW mods, NEW chord \in Lefts
  PROVE  Simulated(k, mods, chord) \o chord \in Lefts
<1>1. PICK shift :
        shift = IF k = "F13" THEN "shift" \notin mods ELSE "shift" \in mods \/ k \in Shifted
  OBVIOUS
<1>2. PICK a : a = Missing("L_SHIFT", shift, chord)
  OBVIOUS
<1>3. PICK b : b = Missing("CTRL", "control" \in mods, chord)
  OBVIOUS
<1>4. PICK c : c = Missing("ALT", "alt" \in mods, chord)
  OBVIOUS
<1>5. Simulated(k, mods, chord) = a \o b \o c
  BY <1>1, <1>2, <1>3, <1>4 DEF Simulated, Missing
<1>6. chord \in Seq(Ids) /\ "L_SHIFT" \in Ids \ Rights /\ "CTRL" \in Ids \ Rights
      /\ "ALT" \in Ids \ Rights
  BY LeftIds DEF Lefts, Chords, Common
<1>7. c \o chord \in Lefts /\ ToSet(c \o chord) \subseteq ToSet(chord) \cup {"ALT"}
      /\ c \in Seq(Ids)
  <2>1. ToSet(chord) \subseteq ToSet(chord) \cup {} /\ "ALT" \notin {}
    OBVIOUS
  <2>2. Goes(chord, "ALT", "alt" \in mods, chord, {})
    BY <1>6, <2>1, MissingAhead
  <2> QED
    BY <1>4, <2>2 DEF Goes
<1>8. b \o (c \o chord) \in Lefts /\ b \in Seq(Ids)
      /\ ToSet(b \o (c \o chord)) \subseteq ToSet(chord) \cup {"ALT", "CTRL"}
  <2>1. "CTRL" \notin {"ALT"}
    OBVIOUS
  <2>2. Goes(chord, "CTRL", "control" \in mods, c \o chord, {"ALT"})
    BY <1>6, <1>7, <2>1, MissingAhead
  <2> QED
    BY <1>3, <2>2 DEF Goes
<1>9. a \o (b \o (c \o chord)) \in Lefts /\ a \in Seq(Ids)
  <2>1. "L_SHIFT" \notin {"ALT", "CTRL"}
    OBVIOUS
  <2>2. Goes(chord, "L_SHIFT", shift, b \o (c \o chord), {"ALT", "CTRL"})
    BY <1>6, <1>8, <2>1, MissingAhead
  <2> QED
    BY <1>2, <2>2 DEF Goes
<1>10. (a \o b \o c) \o chord = a \o (b \o (c \o chord))
  <2>1. a \in Seq(Ids) /\ b \in Seq(Ids) /\ c \in Seq(Ids) /\ chord \in Seq(Ids)
    BY <1>6, <1>7, <1>8, <1>9
  <2>2. a \o b \in Seq(Ids) /\ c \o chord \in Seq(Ids)
    BY <2>1, ConcatProperties
  <2>3. ((a \o b) \o c) \o chord = (a \o b) \o (c \o chord)
    BY <2>1, <2>2, ConcatAssociative
  <2>4. PICK u \in Seq(Ids) : u = c \o chord
    BY <2>2
  <2>5. (a \o b) \o u = a \o (b \o u)
    BY <2>1, ConcatAssociative
  <2> QED
    BY <2>3, <2>4, <2>5
<1> QED
  BY <1>5, <1>9, <1>10

\* The keys of a mapping differ, and only a modifier's mapping has a right-hand one, ...
LEMMA MapKey ==
  ASSUME NEW k, NEW mods
  PROVE  /\ map_key(k, mods) \in Chords
         /\ ~IsModifier(k) => map_key(k, mods) \in Lefts
<1>1. command_mapping(k, mods) \in Lefts
  BY CommandMappingLefts
<1>2. CASE ~IsModifier(k)
  <2>1. Chord(k, mods) \in Lefts /\ Simulated(k, mods, Chord(k, mods)) \o Chord(k, mods) \in Lefts
    BY <1>2, ChordLefts, SimulatedLefts
  <2>2. map_key(k, mods) \in Lefts
    BY <1>1, <2>1 DEF map_key
  <2> QED
    BY <2>2 DEF Lefts
<1>3. CASE IsModifier(k)
  <2>1. Modifiers[k] \in Ids
    BY <1>3 DEF IsModifier, Listed, Ids
  <2>2. <<Modifiers[k]>> \in Chords
    <3>1. PICK a \in Ids : a = Modifiers[k]
      BY <2>1
    <3>2. <<a>> \in Seq(Ids) /\ Len(<<a>>) = 1 /\ <<a>>[1] = a /\ DOMAIN <<a>> = 1..1
      OBVIOUS
    <3> QED
      BY <3>1, <3>2 DEF Chords, IsInjective
  <2>3. Chord(k, mods) \in {<<>>, <<Modifiers[k]>>}
    <3>1. /\ k \notin DOMAIN Navigation /\ k \notin CharKeys /\ k \notin DOMAIN Named
          /\ k \notin {"enter", "pause", "F15", "null"}
      BY <1>3 DEF IsModifier, Modifiers, Navigation, CharKeys, Position, Named
    <3> QED
      BY <1>3, <3>1 DEF Chord
  <2>4. <<>> \in Chords
    BY None DEF Lefts
  <2>5. map_key(k, mods) \in Chords
    BY <1>1, <1>3, <2>2, <2>3, <2>4 DEF map_key, Lefts
  <2> QED
    BY <1>3, <2>5
<1> QED
  BY <1>2, <1>3

\* ... so that a right-hand modifier that is reused is not in the chord twice.
LEMMA ReusedChord ==
  ASSUME NEW m, NEW k, NEW ids \in Chords, ~IsModifier(k) => ids \in Lefts
  PROVE  Reused(m, k, ids) \in Chords
<1>1. ids \in Seq(Ids) /\ IsInjective(ids)
  BY DEF Chords
<1>2. PICK l \in Nat : l = Len(ids) /\ DOMAIN ids = 1..l
  BY <1>1
<1>3. PICK r : r = Reused(m, k, ids)
  OBVIOUS
<1>4. /\ DOMAIN r = 1..l
      /\ \A i \in 1..l : \/ r[i] = ids[i]
                         \/ ~IsModifier(k) /\ ids[i] = "CTRL" /\ r[i] = "R_CTRL"
                         \/ ~IsModifier(k) /\ ids[i] = "ALT" /\ r[i] = "R_ALT"
  BY <1>2, <1>3 DEF Reused
<1>5. r \in Seq(Ids)
  <2>1. r = [i \in 1..l |-> r[i]]
    BY <1>2, <1>3 DEF Reused
  <2>2. \A i \in 1..l : r[i] \in Ids
    BY <1>1, <1>2, <1>4 DEF Ids, Rights
  <2> QED
    BY <2>1, <2>2
<1>6. IsInjective(r)
  <2>1. ~IsModifier(k) => \A i \in 1..l : ids[i] \notin Rights
    BY <1>2 DEF Lefts, ToSet
  <2>2. \A i, j \in 1..l : r[i] = r[j] => ids[i] = ids[j]
    BY <1>4, <2>1 DEF Rights
  <2> QED
    BY <1>1, <1>2, <1>4, <2>2 DEF IsInjective
<1> QED
  BY <1>3, <1>5, <1>6 DEF Chords

\* What a source may hold.
Holds == [keys : Chords, command : BOOLEAN, suppress : BOOLEAN]
LEMMA MappingHolds ==
  ASSUME NEW m, NEW k, NEW mods
  PROVE  /\ Mapping(m, k, mods) \in Holds
         /\ Mapping(m, k, mods).suppress => source_id(k) = "F13"
<1>1. Reused(m, k, map_key(k, mods)) \in Chords
  BY MapKey, ReusedChord
<1>2. k = "F13" => source_id(k) = "F13"
  BY DEF source_id, Position
<1> QED
  BY <1>1, <1>2 DEF Mapping, Holds

-----------------------------------------------------------------------------
(* The mapper's books.                                                     *)
Holders(m, id) == {s \in DOMAIN m.held : id \in ToSet(m.held[s].keys)}
Suppress(m) == \E s \in DOMAIN m.held : m.held[s].suppress
\* The mapper's books: what its counts say of what its sources hold.
Kept(m) ==
  /\ DOMAIN m.held \subseteq Sources
  /\ \A s \in DOMAIN m.held : m.held[s] \in Holds /\ (m.held[s].suppress => s = "F13")
  /\ DOMAIN m.counts \subseteq Ids /\ \A id \in DOMAIN m.counts : m.counts[id] # 0
  /\ \A id \in Ids : CountOf(m, id) = Cardinality(Holders(m, id))
  /\ m.suppressions = IF Suppress(m) THEN 1 ELSE 0

\* There are finitely many sources, and of them those that hold a key.
LEMMA SourcesFinite == IsFiniteSet(Sources)
<1>1. [k \in Keys |-> source_id(k)] \in Surjection(Keys, Sources)
  BY DEF Surjection, Sources
<1> QED
  BY <1>1, KeysAssumption, FS_Surjection

LEMMA Finite ==
  ASSUME NEW m, Kept(m), NEW id
  PROVE  IsFiniteSet(Holders(m, id)) /\ Cardinality(Holders(m, id)) \in Nat
<1>1. Holders(m, id) \in SUBSET Sources
  BY DEF Kept, Holders
<1>2. IsFiniteSet(Holders(m, id))
  BY <1>1, SourcesFinite, FS_Subset
<1> QED
  BY <1>2, FS_CardinalityType

\* The keys that a source holds.
LEMMA HoldsKeys ==
  ASSUME NEW h \in Holds
  PROVE  h.keys \in Seq(Ids) /\ IsInjective(h.keys) /\ ToSet(h.keys) \subseteq Ids
         /\ h.suppress \in BOOLEAN
  BY DEF Holds, Chords, ToSet

\* A source that lets go, and one that takes hold.
LEMMA BooksLess ==
  ASSUME NEW m, Kept(m), NEW s \in DOMAIN m.held, NEW n,
         n.held = [x \in DOMAIN m.held \ {s} |-> m.held[x]],
         n.counts = Uncounted(m, ToSet(m.held[s].keys)),
         n.suppressions = m.suppressions - (IF m.held[s].suppress THEN 1 ELSE 0)
  PROVE  /\ Kept(n)
         /\ ToSet(m.held[s].keys) \subseteq DOMAIN m.counts
         /\ DOMAIN n.counts = DOMAIN m.counts \ {id \in ToSet(m.held[s].keys) : LastHolder(m, id)}
<1> DEFINE keys == ToSet(m.held[s].keys)
           left(id) == CountOf(m, id) - (IF id \in keys THEN 1 ELSE 0)
<1>1. m.held[s] \in Holds /\ keys \subseteq Ids /\ m.held[s].suppress \in BOOLEAN
  BY HoldsKeys DEF Kept
<1>2. \A id \in Ids : /\ IsFiniteSet(Holders(m, id)) /\ CountOf(m, id) \in Nat
                      /\ CountOf(m, id) = Cardinality(Holders(m, id))
  BY Finite DEF Kept
<1>3. \A id : Holders(n, id) = Holders(m, id) \ {s} /\ (s \in Holders(m, id) <=> id \in keys)
  BY DEF Holders
<1>4. ASSUME NEW id \in Ids PROVE Cardinality(Holders(n, id)) = left(id) /\ left(id) \in Nat
  <2>1. /\ IsFiniteSet(Holders(n, id))
        /\ Cardinality(Holders(n, id)) = IF id \in keys THEN CountOf(m, id) - 1 ELSE CountOf(m, id)
    BY <1>2, <1>3, FS_RemoveElement
  <2>2. Cardinality(Holders(n, id)) \in Nat
    BY <2>1, FS_CardinalityType
  <2> QED
    BY <1>2, <2>1, <2>2
<1>5. \A id \in Ids : left(id) > 0 => id \in DOMAIN m.counts
  BY <1>2, <1>4 DEF CountOf
<1>6. DOMAIN m.counts \subseteq Ids
  BY DEF Kept
<1>7. /\ DOMAIN n.counts = {i \in DOMAIN m.counts : left(i) > 0}
      /\ \A id \in DOMAIN n.counts : n.counts[id] = left(id)
  BY DEF Uncounted
<1> HIDE DEF left, keys
<1>8. \A id \in Ids : CountOf(n, id) = left(id)
  BY <1>4, <1>5, <1>6, <1>7 DEF CountOf
<1>9. \A id \in Ids : CountOf(n, id) = Cardinality(Holders(n, id))
  BY <1>4, <1>8
<1>10. DOMAIN n.counts \subseteq Ids /\ \A id \in DOMAIN n.counts : n.counts[id] # 0
  BY <1>6, <1>7
<1>11. /\ DOMAIN n.held \subseteq Sources
       /\ \A x \in DOMAIN n.held : n.held[x] \in Holds /\ (n.held[x].suppress => x = "F13")
  BY DEF Kept
<1>12. n.suppressions = IF Suppress(n) THEN 1 ELSE 0
  <2>1. m.suppressions = IF Suppress(m) THEN 1 ELSE 0
    BY DEF Kept
  <2>2. CASE m.held[s].suppress
    <3>1. s = "F13" /\ Suppress(m)
      BY <2>2 DEF Kept, Suppress
    <3>2. ~Suppress(n)
      BY <1>11, <3>1 DEF Suppress
    <3> QED
      BY <2>1, <2>2, <3>1, <3>2
  <2>3. CASE ~m.held[s].suppress
    <3>1. Suppress(n) <=> Suppress(m)
      BY <2>3 DEF Suppress
    <3> QED
      BY <2>1, <2>3, <3>1
  <2> QED
    BY <2>2, <2>3
<1>13. Kept(n)
  BY <1>9, <1>10, <1>11, <1>12 DEF Kept
<1>14. keys \subseteq DOMAIN m.counts
  <2> SUFFICES ASSUME NEW id \in keys PROVE id \in DOMAIN m.counts
    OBVIOUS
  <2>1. left(id) = CountOf(m, id) - 1 /\ left(id) \in Nat /\ CountOf(m, id) \in Nat
    BY <1>1, <1>2, <1>4 DEF left
  <2>2. CountOf(m, id) # 0
    BY <2>1
  <2> QED
    BY <2>2 DEF CountOf
<1>15. \A id \in DOMAIN m.counts : CountOf(m, id) # 0 /\ CountOf(m, id) \in Nat
  BY <1>2, <1>6 DEF Kept, CountOf
<1>16. \A id \in DOMAIN m.counts : left(id) > 0 <=> ~(id \in keys /\ LastHolder(m, id))
  BY <1>15 DEF left, LastHolder
<1>17. DOMAIN n.counts = DOMAIN m.counts \ {id \in keys : LastHolder(m, id)}
  BY <1>7, <1>16
<1> QED
  BY <1>13, <1>14, <1>17 DEF keys

LEMMA BooksMore ==
  ASSUME NEW m, Kept(m), NEW s \in Sources, s \notin DOMAIN m.held,
         NEW h \in Holds, h.suppress => s = "F13",
         NEW n, n.held = [x \in DOMAIN m.held \cup {s} |-> IF x = s THEN h ELSE m.held[x]],
         n.counts = Counted(m, ToSet(h.keys)),
         n.suppressions = m.suppressions + (IF h.suppress THEN 1 ELSE 0)
  PROVE  /\ Kept(n)
         /\ DOMAIN n.counts = DOMAIN m.counts \cup ToSet(h.keys)
         /\ h.suppress => m.suppressions = 0
<1> DEFINE keys == ToSet(h.keys)
           more(id) == CountOf(m, id) + (IF id \in keys THEN 1 ELSE 0)
<1>1. keys \subseteq Ids /\ h.suppress \in BOOLEAN
  BY HoldsKeys
<1>2. \A id \in Ids : /\ IsFiniteSet(Holders(m, id)) /\ CountOf(m, id) \in Nat
                      /\ CountOf(m, id) = Cardinality(Holders(m, id))
  BY Finite DEF Kept
<1>3. \A id :
        /\ Holders(n, id) = (IF id \in keys THEN Holders(m, id) \cup {s} ELSE Holders(m, id))
        /\ s \notin Holders(m, id)
  BY DEF Holders
<1>4. ASSUME NEW id \in Ids PROVE Cardinality(Holders(n, id)) = more(id)
  <2>1. CASE id \in keys
    BY <1>2, <1>3, <2>1, FS_AddElement
  <2>2. CASE id \notin keys
    BY <1>2, <1>3, <2>2
  <2> QED
    BY <2>1, <2>2
<1>5. DOMAIN m.counts \subseteq Ids
  BY DEF Kept
<1>6. /\ DOMAIN n.counts = DOMAIN m.counts \cup keys
      /\ \A id \in DOMAIN n.counts : n.counts[id] = more(id)
  BY DEF Counted
<1> HIDE DEF more, keys
<1>7. \A id \in Ids : id \notin DOMAIN n.counts => more(id) = 0
  BY <1>6 DEF more, CountOf
<1>8. \A id \in Ids : CountOf(n, id) = Cardinality(Holders(n, id))
  BY <1>4, <1>6, <1>7 DEF CountOf
<1>9. DOMAIN n.counts \subseteq Ids /\ \A id \in DOMAIN n.counts : n.counts[id] # 0
  <2>1. \A id \in DOMAIN m.counts : CountOf(m, id) # 0
    BY DEF Kept, CountOf
  <2>2. \A id \in DOMAIN n.counts : more(id) # 0
    BY <1>1, <1>2, <1>5, <1>6, <2>1 DEF more
  <2> QED
    BY <1>1, <1>5, <1>6, <2>2
<1>10. /\ DOMAIN n.held \subseteq Sources
       /\ \A x \in DOMAIN n.held : n.held[x] \in Holds /\ (n.held[x].suppress => x = "F13")
  BY DEF Kept
<1>11. m.suppressions = IF Suppress(m) THEN 1 ELSE 0
  BY DEF Kept
<1>12. h.suppress => ~Suppress(m)
  BY DEF Kept, Suppress
<1>13. Suppress(n) <=> Suppress(m) \/ h.suppress
  BY DEF Suppress
<1>14. n.suppressions = (IF Suppress(n) THEN 1 ELSE 0) /\ (h.suppress => m.suppressions = 0)
  BY <1>1, <1>11, <1>12, <1>13
<1> QED
  BY <1>6, <1>8, <1>9, <1>10, <1>14 DEF Kept, keys

-----------------------------------------------------------------------------
(* A source that is released, and one that is pressed.                     *)
\* What a mapper shows the guest, and one whose transitions have told the guest so.
Shown(m) == DOMAIN m.counts \ (IF m.suppressions > 0 THEN Shifts ELSE {})
Follows(m, was) == Kept(m) /\ Tells(m.out, was, Shown(m))

\* The shifts are hidden from the guest, and shown again.
LEMMA ShiftsTold ==
  ASSUME NEW m, NEW was
  PROVE  /\ was = DOMAIN m.counts => Tells(shift_transitions(m, "break"), was, was \ Shifts)
         /\ was = DOMAIN m.counts \ Shifts =>
              Tells(shift_transitions(m, "make"), was, DOMAIN m.counts)
<1>1. PICK ids : ids = <<"L_SHIFT", "R_SHIFT">>
  OBVIOUS
<1>2. ids \in Lefts
  BY <1>1, Two, LeftIds DEF Common
<1>3. ids \in Seq(Ids) /\ IsInjective(ids)
  BY <1>2 DEF Lefts, Chords
<1>4. DOMAIN ids = 1..2 /\ ids[1] = "L_SHIFT" /\ ids[2] = "R_SHIFT"
      /\ \A i \in 1..2 : i = 1 \/ i = 2
  BY <1>1
<1>5. ToSet(ids) = Shifts
  BY <1>4 DEF ToSet, Shifts
<1>6. PICK told : told = DOMAIN m.counts \cap Shifts
  OBVIOUS
<1>7. \A what : shift_transitions(m, what) = Emit(ids, told, what)
  <2>1. \A i \in DOMAIN ids : ids[i] \in DOMAIN m.counts <=> ids[i] \in told
    BY <1>4, <1>6 DEF Shifts
  <2> QED
    BY <1>1, <2>1 DEF shift_transitions, Emit
<1>8. ASSUME was = DOMAIN m.counts PROVE Tells(shift_transitions(m, "break"), was, was \ Shifts)
  <2>1. told \subseteq ToSet(ids) /\ told \subseteq was /\ was \ told = was \ Shifts
    BY <1>5, <1>6, <1>8
  <2>2. Tells(Emit(ids, told, "break"), was, was \ told)
    BY <1>3, <2>1, TellsBreaks
  <2> QED
    BY <1>7, <2>1, <2>2
<1>9. ASSUME was = DOMAIN m.counts \ Shifts
      PROVE  Tells(shift_transitions(m, "make"), was, DOMAIN m.counts)
  <2>1. told \subseteq ToSet(ids) /\ told \cap was = {} /\ was \cup told = DOMAIN m.counts
    BY <1>5, <1>6, <1>9
  <2>2. Tells(Emit(ids, told, "make"), was, was \cup told)
    BY <1>3, <2>1, TellsMakes
  <2> QED
    BY <1>7, <2>1, <2>2
<1> QED
  BY <1>8, <1>9

\* A source that is released, held or not, leaves the books kept and the guest told, ...
LEMMA ReleaseFollows ==
  ASSUME NEW m, NEW was, Follows(m, was), NEW s
  PROVE  /\ Follows(release_source(m, s), was)
         /\ DOMAIN release_source(m, s).held = DOMAIN m.held \ {s}
         /\ \A x \in DOMAIN m.held \ {s} : release_source(m, s).held[x] = m.held[x]
<1> DEFINE h == m.held[s]
           keys == ToSet(h.keys)
           gone == {id \in keys : LastHolder(m, id) /\ Visible(id, m.suppressions)}
           told == Emit(h.keys, gone, "break")
           counts_ == Uncounted(m, keys)
           left == m.suppressions - (IF h.suppress THEN 1 ELSE 0)
           n == [held |-> [x \in DOMAIN m.held \ {s} |-> m.held[x]], counts |-> counts_,
                 suppressions |-> left, out |-> m.out \o told]
           back == shift_transitions(n, "make")
           w == Told(n, back)
<1>1. Kept(m) /\ Tells(m.out, was, Shown(m))
  BY DEF Follows
<1>3. CASE s \notin DOMAIN m.held
  <2>1. release_source(m, s) = m
    BY <1>3 DEF release_source
  <2> QED
    BY <1>3, <2>1
<1>4. CASE s \in DOMAIN m.held
  <2>1. release_source(m, s) = IF h.suppress /\ left = 0 THEN w ELSE n
    BY <1>4 DEF release_source
  <2>2. /\ Kept(n) /\ keys \subseteq DOMAIN m.counts
        /\ DOMAIN n.counts = DOMAIN m.counts \ {id \in keys : LastHolder(m, id)}
    <3>1. /\ n.held = [x \in DOMAIN m.held \ {s} |-> m.held[x]]
          /\ n.counts = Uncounted(m, ToSet(m.held[s].keys))
          /\ n.suppressions = m.suppressions - (IF m.held[s].suppress THEN 1 ELSE 0)
      OBVIOUS
    <3> HIDE DEF n
    <3> QED
      BY <1>1, <1>4, <3>1, BooksLess
  <2>3. h \in Holds /\ h.keys \in Seq(Ids) /\ IsInjective(h.keys) /\ h.suppress \in BOOLEAN
    BY <1>1, <1>4, HoldsKeys DEF Kept
  <2>4. m.suppressions \in 0..1 /\ (h.suppress => m.suppressions = 1)
    BY <1>1, <1>4 DEF Kept, Suppress
  <2>5. gone \subseteq keys /\ gone \subseteq Shown(m)
    BY <2>2, <2>4 DEF Shown, Visible
  <2>6. Tells(told, Shown(m), Shown(m) \ gone)
    BY <2>3, <2>5, TellsBreaks
  <2>7. Tells(m.out \o told, was, Shown(m) \ gone)
    BY <1>1, <2>6, TellsMore
  <2>8. Shown(m) \ gone = DOMAIN n.counts \ (IF m.suppressions > 0 THEN Shifts ELSE {})
    BY <2>2, <2>4 DEF Shown, Visible
  <2>9. /\ DOMAIN n.held = DOMAIN m.held \ {s}
        /\ \A x \in DOMAIN m.held \ {s} : n.held[x] = m.held[x]
        /\ w.held = n.held /\ w.counts = n.counts /\ w.suppressions = left /\ w.out = n.out \o back
    BY DEF Told
  <2>10. CASE h.suppress
    <3>1. left = 0 /\ m.suppressions = 1
      BY <2>4, <2>10
    <3>2. Tells(n.out, was, DOMAIN n.counts \ Shifts)
      BY <2>7, <2>8, <3>1
    <3>3. Tells(back, DOMAIN n.counts \ Shifts, DOMAIN n.counts)
      BY ShiftsTold
    <3>4. Tells(w.out, was, DOMAIN n.counts)
      <4>1. Tells(n.out \o back, was, DOMAIN n.counts)
        BY <3>2, <3>3, TellsMore
      <4> HIDE DEF w, n, back
      <4> QED
        BY <2>9, <4>1
    <3>5. DOMAIN n.counts = Shown(w)
      <4>1. w.counts = n.counts /\ w.suppressions = 0
        BY <2>9, <3>1
      <4> HIDE DEF w, n
      <4> QED
        BY <4>1 DEF Shown
    <3>6. Kept(w)
      <4>1. w.held = n.held /\ w.counts = n.counts /\ w.suppressions = n.suppressions
        BY <2>9
      <4> HIDE DEF w, n
      <4> QED
        BY <2>2, <4>1 DEF Kept, CountOf, Holders, Suppress
    <3>7. Follows(w, was)
      BY <3>4, <3>5, <3>6 DEF Follows
    <3> QED
      BY <2>1, <2>9, <2>10, <3>1, <3>7
  <2>11. CASE ~h.suppress
    <3>1. left = m.suppressions
      BY <2>4, <2>11
    <3>2. Shown(n) = DOMAIN n.counts \ (IF m.suppressions > 0 THEN Shifts ELSE {})
      BY <3>1 DEF Shown
    <3>3. Follows(n, was)
      BY <2>2, <2>7, <2>8, <3>2 DEF Follows
    <3> QED
      BY <2>1, <2>9, <2>11, <3>3
  <2> QED
    BY <2>10, <2>11
<1> QED
  BY <1>3, <1>4

\* ... and so does one that is pressed, whatever it held before.
LEMMA PressFollows ==
  ASSUME NEW m, NEW was, Follows(m, was), NEW s \in Sources, NEW h \in Holds,
         h.suppress => s = "F13"
  PROVE  /\ Follows(press(m, s, h), was)
         /\ DOMAIN press(m, s, h).held = DOMAIN m.held \cup {s}
<1>1. PICK r : r = release_source(m, s)
  OBVIOUS
<1>2. Kept(r) /\ Tells(r.out, was, Shown(r)) /\ DOMAIN r.held = DOMAIN m.held \ {s}
  BY <1>1, ReleaseFollows DEF Follows
<1>3. r.suppressions \in 0..1 /\ s \notin DOMAIN r.held
  BY <1>2 DEF Kept
<1>4. h.keys \in Seq(Ids) /\ IsInjective(h.keys) /\ h.suppress \in BOOLEAN
  BY HoldsKeys
<1> DEFINE more == IF h.suppress THEN 1 ELSE 0
           keys == ToSet(h.keys)
<1>5. PICK first : first = IF h.suppress /\ r.suppressions = 0
                            THEN r.out \o shift_transitions(r, "break") ELSE r.out
  OBVIOUS
<1>6. PICK hidden : hidden = r.suppressions + more
  OBVIOUS
<1>7. PICK made : made = {id \in keys : CountOf(r, id) = 0 /\ Visible(id, hidden)}
  OBVIOUS
<1>8. PICK n : n = [held |-> [x \in DOMAIN r.held \cup {s} |-> IF x = s THEN h ELSE r.held[x]],
                    counts |-> Counted(r, keys), suppressions |-> hidden,
                    out |-> first \o Emit(h.keys, made, "make")]
  OBVIOUS
<1>9. press(m, s, h) = n
  <2>1. Told(r, shift_transitions(r, "break")).out = r.out \o shift_transitions(r, "break")
    BY DEF Told
  <2> QED
    BY <1>1, <1>5, <1>6, <1>7, <1>8, <2>1 DEF press
<1>10. Kept(n) /\ DOMAIN n.counts = DOMAIN r.counts \cup keys /\ (h.suppress => r.suppressions = 0)
  <2>1. /\ n.held = [x \in DOMAIN r.held \cup {s} |-> IF x = s THEN h ELSE r.held[x]]
        /\ n.counts = Counted(r, keys) /\ n.suppressions = r.suppressions + more
    BY <1>6, <1>8
  <2> QED
    BY <1>2, <1>3, <2>1, BooksMore
<1>11. hidden = (IF h.suppress THEN 1 ELSE r.suppressions) /\ hidden \in 0..1
       /\ n.suppressions = hidden
  BY <1>3, <1>4, <1>6, <1>8, <1>10
<1>12. PICK shown : shown = DOMAIN r.counts \ (IF hidden > 0 THEN Shifts ELSE {})
  OBVIOUS
<1>13. Tells(first, was, shown)
  <2>1. CASE h.suppress
    <3>1. r.suppressions = 0 /\ hidden = 1
      BY <1>10, <1>11, <2>1
    <3>2. Shown(r) = DOMAIN r.counts /\ shown = DOMAIN r.counts \ Shifts
      BY <1>12, <3>1 DEF Shown
    <3>3. Tells(shift_transitions(r, "break"), Shown(r), shown)
      BY <3>2, ShiftsTold
    <3> QED
      BY <1>2, <1>5, <2>1, <3>1, <3>3, TellsMore
  <2>2. CASE ~h.suppress
    <3>1. shown = Shown(r) /\ first = r.out
      BY <1>5, <1>11, <1>12, <2>2 DEF Shown
    <3> QED
      BY <1>2, <3>1
  <2> QED
    BY <2>1, <2>2
<1>14. \A id \in keys : CountOf(r, id) = 0 <=> id \notin DOMAIN r.counts
  BY <1>2 DEF Kept, CountOf
<1>15. made \subseteq keys /\ made \cap shown = {} /\ shown \cup made = Shown(n)
  BY <1>7, <1>10, <1>11, <1>12, <1>14 DEF Shown, Visible
<1>16. Tells(Emit(h.keys, made, "make"), shown, shown \cup made)
  BY <1>4, <1>15, TellsMakes
<1>17. Tells(first \o Emit(h.keys, made, "make"), was, shown \cup made)
  BY <1>13, <1>16, TellsMore
<1>18. Tells(n.out, was, Shown(n))
  BY <1>8, <1>15, <1>17
<1>19. DOMAIN n.held = DOMAIN m.held \cup {s}
  BY <1>2, <1>8
<1> QED
  BY <1>9, <1>10, <1>18, <1>19 DEF Follows

-----------------------------------------------------------------------------
(* A walk over sources.                                                    *)
\* A set of numbers has a least, ...
LEMMA Least == ASSUME NEW T \in SUBSET Nat, T # {} PROVE \E n \in T : \A m \in T : n <= m
<1>1. PICK n \in T : \A m \in T : ~(<<m, n>> \in OpToRel(<, Nat))
  BY NatLessThanWellFounded, WFMin
<1>2. \A m \in T : <<m, n>> \in OpToRel(<, Nat) <=> m < n
  BY DEF OpToRel
<1>3. \A m \in T : ~(m < n)
  BY <1>1, <1>2
<1>4. \A m \in T : n <= m
  BY <1>3
<1> QED
  BY <1>4

\* ... and a set that has zero and with every number the next has all.
LEMMA Steps ==
  ASSUME NEW T, 0 \in T, \A n \in Nat : n \in T => n + 1 \in T PROVE \A n \in Nat : n \in T
<1> DEFINE U == {n \in Nat : n \notin T}
<1>1. SUFFICES ASSUME U # {} PROVE FALSE
  OBVIOUS
<1>2. PICK n \in U : \A m \in U : n <= m
  BY <1>1, Least
<1>3. n \in Nat /\ n # 0 /\ n - 1 \in Nat /\ n - 1 \notin U
  BY <1>2
<1>4. n - 1 \in T
  BY <1>3
<1>5. n \in T
  BY <1>3, <1>4
<1> QED
  BY <1>2, <1>5

\* The mappers of a walk over an order, one source after the other.
Walk(f, m, order, k) ==
  f = [n \in 0..k |-> IF n = 0 THEN m ELSE release_source(f[n - 1], order[n])]

\* The recursion has a solution.
LEMMA WalkSolved == ASSUME NEW m, NEW order, NEW l \in Nat PROVE \E f : Walk(f, m, order, l)
<1> DEFINE T == {k \in Nat : \E f : Walk(f, m, order, k)}
<1>1. 0 \in T
  <2>1. Walk([n \in 0..0 |-> m], m, order, 0)
    BY DEF Walk
  <2> QED
    BY <2>1
<1>2. ASSUME NEW k \in Nat, k \in T PROVE k + 1 \in T
  <2>1. PICK f : Walk(f, m, order, k)
    BY <1>2
  <2>2. PICK last : last = release_source(f[k], order[k + 1])
    OBVIOUS
  <2>3. PICK g : g = [n \in 0..(k + 1) |-> IF n <= k THEN f[n] ELSE last]
    OBVIOUS
  <2>4. \A n \in 0..k : f[n] = IF n = 0 THEN m ELSE release_source(f[n - 1], order[n])
    BY <2>1 DEF Walk
  <2>5. ASSUME NEW n \in 0..(k + 1)
        PROVE  g[n] = IF n = 0 THEN m ELSE release_source(g[n - 1], order[n])
    <3>1. CASE n = 0
      <4>1. n \in 0..k /\ g[n] = f[n]
        BY <2>3, <3>1
      <4> QED
        BY <2>4, <3>1, <4>1
    <3>2. CASE n # 0 /\ n \in 0..k
      <4>1. n - 1 \in 0..(k + 1) /\ n - 1 <= k /\ n <= k
        BY <3>2
      <4>2. g[n] = f[n] /\ g[n - 1] = f[n - 1]
        BY <2>3, <4>1
      <4> QED
        BY <2>4, <3>2, <4>2
    <3>3. CASE n = k + 1
      <4>1. n - 1 = k /\ n # 0 /\ ~(n <= k) /\ k \in 0..(k + 1)
        BY <3>3
      <4>2. g[n] = last /\ g[n - 1] = f[k]
        BY <2>3, <4>1
      <4> QED
        BY <2>2, <3>3, <4>1, <4>2
    <3> QED
      BY <3>1, <3>2, <3>3
  <2>6. Walk(g, m, order, k + 1)
    <3>1. g = [n \in 0..(k + 1) |-> g[n]]
      BY <2>3
    <3> QED
      BY <2>5, <3>1 DEF Walk
  <2> QED
    BY <2>6
<1> HIDE DEF T
<1>3. l \in T
  BY <1>1, <1>2, Steps
<1> QED
  BY <1>3 DEF T

\* However many sources a walk releases, the mapper's books are kept and the guest is told.
LEMMA WalkFollows ==
  ASSUME NEW m, NEW was, Follows(m, was), NEW order,
         order = [i \in 1..Len(order) |-> order[i]], Len(order) \in Nat
  PROVE  /\ Follows(ReleaseSources(m, order), was)
         /\ DOMAIN ReleaseSources(m, order).held = DOMAIN m.held \ {order[i] : i \in 1..Len(order)}
<1>1. PICK l \in Nat : l = Len(order)
  OBVIOUS
<1>2. PICK f : f = CHOOSE g : Walk(g, m, order, l)
  OBVIOUS
<1>3. ReleaseSources(m, order) = f[l]
  BY <1>1, <1>2 DEF ReleaseSources, Walk
<1>4. \A n \in 0..l : f[n] = IF n = 0 THEN m ELSE release_source(f[n - 1], order[n])
  <2>1. Walk(f, m, order, l)
    BY <1>2, WalkSolved
  <2> QED
    BY <2>1 DEF Walk
<1> DEFINE Good(n) == n <= l => /\ Follows(f[n], was)
                                /\ DOMAIN f[n].held = DOMAIN m.held \ {order[i] : i \in 1..n}
           T == {n \in Nat : Good(n)}
<1>5. 0 \in T
  <2>1. f[0] = m
    BY <1>4
  <2>2. DOMAIN m.held = DOMAIN m.held \ {order[i] : i \in 1..0}
    OBVIOUS
  <2> QED
    BY <2>1, <2>2
<1>6. ASSUME NEW n \in Nat, n \in T PROVE n + 1 \in T
  <2> SUFFICES ASSUME n + 1 <= l PROVE Good(n + 1)
    OBVIOUS
  <2>1. Follows(f[n], was) /\ DOMAIN f[n].held = DOMAIN m.held \ {order[i] : i \in 1..n}
    BY <1>6
  <2>2. n + 1 \in 0..l /\ n + 1 # 0 /\ (n + 1) - 1 = n
    OBVIOUS
  <2>3. f[n + 1] = release_source(f[n], order[n + 1])
    BY <1>4, <2>2
  <2>4. Follows(f[n + 1], was) /\ DOMAIN f[n + 1].held = DOMAIN f[n].held \ {order[n + 1]}
    BY <2>1, <2>3, ReleaseFollows
  <2>5. {order[i] : i \in 1..(n + 1)} = {order[i] : i \in 1..n} \cup {order[n + 1]}
    <3>1. 1..(n + 1) = 1..n \cup {n + 1}
      OBVIOUS
    <3> QED
      BY <3>1
  <2> QED
    BY <2>1, <2>4, <2>5
<1> HIDE DEF T
<1>7. l \in T
  BY <1>5, <1>6, Steps
<1> QED
  BY <1>1, <1>3, <1>7 DEF T

\* Every order of a set has all of it.
LEMMA Ordered ==
  ASSUME NEW S, IsFiniteSet(S), NEW order \in SetToSeqs(S)
  PROVE  /\ order = [i \in 1..Len(order) |-> order[i]] /\ Len(order) \in Nat
         /\ {order[i] : i \in 1..Len(order)} = S
<1>1. PICK n \in Nat : n = Cardinality(S)
  BY FS_CardinalityType
<1>2. order \in [1..n -> S] /\ \A i, j \in 1..n : i # j => order[i] # order[j]
  BY <1>1 DEF SetToSeqs
<1>3. order \in Seq(S) /\ Len(order) = n
  BY <1>2
<1>4. order \in Injection(1..n, S)
  BY <1>2 DEF Injection, IsInjective
<1>5. Cardinality(1..n) = n
  BY FS_Interval
<1>6. order \in Surjection(1..n, S)
  BY <1>1, <1>4, <1>5, FS_Injection
<1> QED
  BY <1>2, <1>3, <1>6 DEF Surjection

-----------------------------------------------------------------------------
(* The mapper's steps.                                                     *)
\* The inductive invariant: the books are kept, and the guest has been told of what they show.
KeptInv == /\ Kept(Mapper) /\ guest = Shown(Mapper) /\ proper = TRUE
           /\ host \subseteq {HostKey(k) : k \in Keys}
\* The reports of a host key have one source, whichever character it sends.
OneSource == \A k, l \in Keys : HostKey(k) = HostKey(l) => source_id(k) = source_id(l)
HostInv == /\ \A p \in positions : \E id \in guest : PositionOf(id) = p
           /\ OneSource =>
                DOMAIN held \subseteq {source_id(k) : k \in {x \in Keys : HostKey(x) \in host}}

\* The books are those of the mapper, whatever it has told.
LEMMA KeptFields ==
  ASSUME NEW m, NEW n, Kept(m), n.held = m.held, n.counts = m.counts,
         n.suppressions = m.suppressions
  PROVE  Kept(n) /\ Shown(n) = Shown(m)
  BY DEF Kept, CountOf, Holders, Suppress, Shown

\* Every operation starts with a guest that has been told so far.
LEMMA MapperFollows == KeptInv => Follows(Mapper, guest)
<1> SUFFICES ASSUME KeptInv PROVE Follows(Mapper, guest)
  OBVIOUS
<1>1. Mapper.out = <<>> /\ Kept(Mapper) /\ guest = Shown(Mapper)
  BY DEF Mapper, KeptInv
<1>2. Tells(<<>>, guest, guest)
  BY TellsNothing
<1> QED
  BY <1>1, <1>2 DEF Follows

\* An operation that has told the guest so keeps the invariant, ...
LEMMA AfterKept ==
  ASSUME KeptInv, NEW m, Follows(m, guest), After(m, FALSE),
         host' \subseteq {HostKey(k) : k \in Keys}
  PROVE  KeptInv' /\ DOMAIN held' = DOMAIN m.held
<1>1. Kept(m) /\ m.out \in Seq(Transitions) /\ Alternates(m.out, guest, FALSE)
      /\ Down(m.out, Len(m.out), guest) = Shown(m)
  BY DEF Follows, Tells
<1>2. held' = m.held /\ counts' = m.counts /\ shift_suppressions' = m.suppressions
      /\ guest' = Shown(m) /\ proper' = (proper /\ Alternates(m.out, guest, FALSE))
  BY <1>1 DEF After
<1>3. PICK n : n = [held |-> held', counts |-> counts',
                     suppressions |-> shift_suppressions', out |-> <<>>]
  OBVIOUS
<1>4. n.held = m.held /\ n.counts = m.counts /\ n.suppressions = m.suppressions
  BY <1>2, <1>3
<1>5. Kept(n) /\ guest' = Shown(n)
  BY <1>1, <1>2, <1>4, KeptFields
<1>6. Mapper' = n
  BY <1>3 DEF Mapper
<1>7. proper' = TRUE
  BY <1>1, <1>2 DEF KeptInv
<1> QED
  BY <1>2, <1>5, <1>6, <1>7 DEF KeptInv
\* ... and the guest's positions are still those of its keys.
LEMMA AfterPlaced ==
  ASSUME NEW m, m.out \in Seq(Transitions), NEW repeats, After(m, repeats),
         \A p \in positions : \E id \in guest : PositionOf(id) = p
  PROVE  (\A p \in positions : \E id \in guest : PositionOf(id) = p)'
<1>1. /\ guest' = Down(m.out, Len(m.out), guest)
      /\ positions' = Down(Placed(m.out), Len(m.out), positions) /\ model' = model
  BY DEF After
<1>2. \A p \in Down(Placed(m.out), Len(m.out), positions) :
        \E id \in Down(m.out, Len(m.out), guest) : PositionOf(id) = p
  BY PlacesFollow
<1>3. \A p \in positions' : \E id \in guest' : PositionOf(id) = p
  BY <1>1, <1>2
<1>4. \A id : PositionOf(id)' = PositionOf(id)
  BY <1>1 DEF PositionOf
<1> QED
  BY <1>3, <1>4

\* A press keeps the invariant, ...
LEMMA PressKeeps ==
  ASSUME KeptInv, NEW k \in Keys, NEW mods \in SUBSET Mods, Press(k, mods)
  PROVE  KeptInv' /\ (HostInv => HostInv')
<1>1. PICK m : m = press(Mapper, source_id(k), Mapping(Mapper, k, mods))
  OBVIOUS
<1>2. After(m, FALSE) /\ host' = host \cup {HostKey(k)}
  BY <1>1 DEF Press
<1>3. Mapping(Mapper, k, mods) \in Holds
      /\ (Mapping(Mapper, k, mods).suppress => source_id(k) = "F13") /\ source_id(k) \in Sources
  BY MappingHolds DEF Sources
<1>4. Follows(m, guest) /\ DOMAIN m.held = DOMAIN held \cup {source_id(k)}
  <2>1. Follows(Mapper, guest) /\ DOMAIN Mapper.held = DOMAIN held
    BY MapperFollows DEF Mapper
  <2> QED
    BY <1>1, <1>3, <2>1, PressFollows
<1>5. host' \subseteq {HostKey(x) : x \in Keys}
  BY <1>2 DEF KeptInv
<1>6. KeptInv' /\ DOMAIN held' = DOMAIN m.held
  BY <1>2, <1>4, <1>5, AfterKept
<1>7. ASSUME HostInv PROVE HostInv'
  <2>1. (\A p \in positions : \E id \in guest : PositionOf(id) = p)'
    <3>1. m.out \in Seq(Transitions)
      BY <1>4 DEF Follows, Tells
    <3> QED
      BY <1>2, <1>7, <3>1, AfterPlaced DEF HostInv
  <2>2. OneSource =>
          DOMAIN held' \subseteq {source_id(l) : l \in {x \in Keys : HostKey(x) \in host'}}
    BY <1>2, <1>4, <1>6, <1>7 DEF HostInv
  <2> QED
    BY <2>1, <2>2 DEF HostInv
<1> QED
  BY <1>6, <1>7

\* The sources that hold keys are finitely many.
LEMMA SourcesOf == KeptInv => /\ DOMAIN held \subseteq Sources /\ IsFiniteSet(DOMAIN held)
<1> SUFFICES ASSUME KeptInv PROVE DOMAIN held \subseteq Sources /\ IsFiniteSet(DOMAIN held)
  OBVIOUS
<1>1. DOMAIN held \subseteq Sources
  BY DEF KeptInv, Kept, Mapper
<1> QED
  BY <1>1, SourcesFinite, FS_Subset

\* ... a release does, with the Command layer's sources in any order, ...
LEMMA ReleaseKeeps ==
  ASSUME KeptInv, NEW k \in Keys, Release(k)
  PROVE  KeptInv' /\ (HostInv => HostInv')
<1>1. PICK r : r = release_source(Mapper, source_id(k))
  OBVIOUS
<1>2. PICK S : S = IF k \in {"lsuper", "rsuper"} THEN CommandSources(r) ELSE {}
  OBVIOUS
<1>3. PICK order \in SetToSeqs(S) : After(ReleaseSources(r, order), FALSE)
  BY <1>1, <1>2 DEF Release
<1>4. host' = host \ {HostKey(k)}
  BY DEF Release
<1>5. Follows(r, guest) /\ DOMAIN r.held = DOMAIN held \ {source_id(k)}
  <2>1. Follows(Mapper, guest) /\ DOMAIN Mapper.held = DOMAIN held
    BY MapperFollows DEF Mapper
  <2> QED
    BY <1>1, <2>1, ReleaseFollows
<1>6. IsFiniteSet(S)
  <2>1. S \in SUBSET DOMAIN held
    BY <1>2, <1>5 DEF CommandSources
  <2> QED
    BY <2>1, SourcesOf, FS_Subset
<1>7. PICK m : m = ReleaseSources(r, order)
  OBVIOUS
<1>8. Follows(m, guest) /\ DOMAIN m.held \subseteq DOMAIN held \ {source_id(k)}
  BY <1>5, <1>6, <1>7, Ordered, WalkFollows
<1>9. KeptInv' /\ DOMAIN held' = DOMAIN m.held
  <2>1. host' \subseteq {HostKey(x) : x \in Keys}
    BY <1>4 DEF KeptInv
  <2> QED
    BY <1>3, <1>7, <1>8, <2>1, AfterKept
<1>10. ASSUME HostInv PROVE HostInv'
  <2>1. (\A p \in positions : \E id \in guest : PositionOf(id) = p)'
    <3>1. m.out \in Seq(Transitions)
      BY <1>8 DEF Follows, Tells
    <3> QED
      BY <1>3, <1>7, <1>10, <3>1, AfterPlaced DEF HostInv
  <2>2. ASSUME OneSource, NEW s \in DOMAIN held'
        PROVE  s \in {source_id(l) : l \in {x \in Keys : HostKey(x) \in host'}}
    <3>1. s \in DOMAIN held /\ s # source_id(k)
      BY <1>8, <1>9
    <3>2. PICK l \in Keys : HostKey(l) \in host /\ s = source_id(l)
      BY <1>10, <2>2, <3>1 DEF HostInv
    <3>3. HostKey(l) # HostKey(k)
      BY <2>2, <3>1, <3>2 DEF OneSource
    <3> QED
      BY <1>4, <3>2, <3>3
  <2> QED
    BY <2>1, <2>2 DEF HostInv
<1> QED
  BY <1>9, <1>10

\* ... and a loss of focus.
LEMMA ReleaseAllKeeps == ASSUME KeptInv, ReleaseAll PROVE KeptInv' /\ (HostInv => HostInv')
<1>1. PICK order \in SetToSeqs(DOMAIN held) : After(ReleaseSources(Mapper, order), FALSE)
  BY DEF ReleaseAll
<1>2. host' = {}
  BY DEF ReleaseAll
<1>3. PICK m : m = ReleaseSources(Mapper, order)
  OBVIOUS
<1>4. Follows(m, guest) /\ DOMAIN m.held = {}
  <2>1. Follows(Mapper, guest) /\ DOMAIN Mapper.held = DOMAIN held
    BY MapperFollows DEF Mapper
  <2> QED
    BY <1>3, <2>1, SourcesOf, Ordered, WalkFollows
<1>5. KeptInv' /\ DOMAIN held' = DOMAIN m.held
  BY <1>1, <1>2, <1>3, <1>4, AfterKept
<1>6. ASSUME HostInv PROVE HostInv'
  <2>1. (\A p \in positions : \E id \in guest : PositionOf(id) = p)'
    <3>1. m.out \in Seq(Transitions)
      BY <1>4 DEF Follows, Tells
    <3> QED
      BY <1>1, <1>3, <1>6, <3>1, AfterPlaced DEF HostInv
  <2>2. DOMAIN held' = {}
    BY <1>4, <1>5
  <2> QED
    BY <2>1, <2>2 DEF HostInv
<1> QED
  BY <1>5, <1>6

\* A repeat makes a key that is down, and no other.
LEMMA RepeatKeeps ==
  ASSUME KeptInv, NEW k \in Keys, Repeat(k)
  PROVE  KeptInv' /\ (HostInv => HostInv')
<1> DEFINE s == source_id(k)
<1>1. PICK m : m = Told(Mapper, RepeatEvents(k))
  OBVIOUS
<1>2. After(m, TRUE) /\ host' = host
  BY <1>1 DEF Repeat
<1>3. RepeatEvents(k) = <<>> \/ \E id \in guest \cap Ids : RepeatEvents(k) = << <<id, "make">> >>
  <2>1. CASE s \in DOMAIN held /\ held[s].keys # <<>> /\ Last(held[s].keys) \notin Unrepeated
    <3>1. held[s] \in Holds
      BY <2>1 DEF KeptInv, Kept, Mapper
    <3>2. PICK ids \in Seq(Ids) : ids = held[s].keys
      BY <3>1, HoldsKeys
    <3>3. Last(ids) \in ToSet(ids) /\ Last(ids) \in Ids
      <4>1. Len(ids) \in DOMAIN ids
        BY <2>1, <3>2
      <4> QED
        BY <4>1 DEF Last, ToSet
    <3>4. PICK id \in Ids : id = Last(ids)
      BY <3>3
    <3>5. s \in Holders(Mapper, id)
      BY <2>1, <3>2, <3>3, <3>4 DEF Holders, Mapper
    <3>6. CountOf(Mapper, id) # 0
      <4>1. Kept(Mapper) /\ CountOf(Mapper, id) = Cardinality(Holders(Mapper, id))
        BY DEF KeptInv, Kept
      <4> QED
        BY <3>5, <4>1, Finite, FS_EmptySet
    <3>7. id \in DOMAIN Mapper.counts /\ id \notin Shifts
      BY <2>1, <3>2, <3>4, <3>6 DEF CountOf, Unrepeated
    <3>8. id \in guest
      BY <3>7 DEF KeptInv, Shown
    <3> QED
      BY <2>1, <3>2, <3>4, <3>8 DEF RepeatEvents
  <2>2. CASE ~(s \in DOMAIN held /\ held[s].keys # <<>> /\ Last(held[s].keys) \notin Unrepeated)
    BY <2>2 DEF RepeatEvents
  <2> QED
    BY <2>1, <2>2
<1>4. m.held = held /\ m.counts = counts /\ m.suppressions = shift_suppressions
      /\ m.out = <<>> \o RepeatEvents(k)
  BY <1>1 DEF Told, Mapper
<1>5. m.out \in Seq(Transitions) /\ Down(m.out, Len(m.out), guest) = guest
      /\ Alternates(m.out, guest, TRUE)
  <2>1. CASE RepeatEvents(k) = <<>>
    <3>1. m.out = <<>>
      BY <1>4, <2>1
    <3>2. Tells(<<>>, guest, guest)
      BY TellsNothing
    <3>3. Alternates(<<>>, guest, TRUE)
      BY DEF Alternates
    <3> QED
      BY <3>1, <3>2, <3>3 DEF Tells
  <2>2. ASSUME NEW id \in guest \cap Ids, RepeatEvents(k) = << <<id, "make">> >>
        PROVE  m.out \in Seq(Transitions) /\ Down(m.out, Len(m.out), guest) = guest
               /\ Alternates(m.out, guest, TRUE)
    <3>1. PICK out : out = << <<id, "make">> >>
      OBVIOUS
    <3>2. out \in Seq(Transitions) /\ Len(out) = 1 /\ DOMAIN out = 1..1 /\ out[1] = <<id, "make">>
      BY <3>1 DEF Transitions
    <3>3. m.out = out
      BY <1>4, <2>2, <3>1, <3>2
    <3>4. \A x : \A n \in 0..1 : x \in Down(out, n, guest) <=> x \in guest
      <4> SUFFICES ASSUME NEW x, NEW n \in 0..1 PROVE x \in Down(out, n, guest) <=> x \in guest
        OBVIOUS
      <4>1. \A l \in 0..1 : ~Broken(out, x, l, n)
        BY <3>2 DEF Broken
      <4>2. \A l \in 1..n : l = 1 /\ l \in 0..1 /\ 0 \in 0..1
        OBVIOUS
      <4>3. n \in 0..Len(out)
        BY <3>2
      <4>4. x \in Down(out, n, guest) <=>
              \/ x \in guest /\ ~Broken(out, x, 0, n)
              \/ \E l \in 1..n : out[l] = <<x, "make">> /\ ~Broken(out, x, l, n)
        BY <3>2, <4>3, InDown
      <4> QED
        BY <3>2, <4>1, <4>2, <4>4
    <3>5. Down(out, Len(out), guest) = guest
      <4>1. 1 \in 0..1
        OBVIOUS
      <4>2. \A x : x \in Down(out, 1, guest) <=> x \in guest
        BY <3>4, <4>1
      <4>3. Down(out, 1, guest) = guest
        BY <4>2
      <4> QED
        BY <3>2, <4>3
    <3>6. Alternates(out, guest, TRUE)
      BY <3>2, <3>4 DEF Alternates
    <3> QED
      BY <3>2, <3>3, <3>5, <3>6
  <2> QED
    BY <1>3, <2>1, <2>2
<1>6. /\ held' = held /\ counts' = counts /\ shift_suppressions' = shift_suppressions
      /\ guest' = guest /\ proper' = TRUE
  BY <1>2, <1>4, <1>5 DEF After, KeptInv
<1>7. KeptInv'
  BY <1>2, <1>6 DEF KeptInv, Kept, Mapper, Shown, CountOf, Holders, Suppress
<1>8. ASSUME HostInv PROVE HostInv'
  <2>1. (\A p \in positions : \E id \in guest : PositionOf(id) = p)'
    BY <1>2, <1>5, <1>8, AfterPlaced DEF HostInv
  <2> QED
    BY <1>2, <1>6, <1>8, <2>1 DEF HostInv
<1> QED
  BY <1>7, <1>8

\* The invariant holds of a new mapper, every step keeps it, ...
LEMMA KeyboardInit == KInit => KeptInv /\ HostInv
<1> SUFFICES ASSUME KInit PROVE KeptInv /\ HostInv
  OBVIOUS
<1>1. held = <<>> /\ counts = <<>> /\ shift_suppressions = 0 /\ host = {}
      /\ guest = {} /\ positions = {} /\ proper = TRUE
  BY DEF KInit
<1>2. DOMAIN <<>> = {}
  OBVIOUS
<1>3. DOMAIN Mapper.held = {} /\ DOMAIN Mapper.counts = {} /\ Mapper.suppressions = 0
  BY <1>1, <1>2 DEF Mapper
<1>4. Kept(Mapper)
  <2>1. \A id : Holders(Mapper, id) = {} /\ CountOf(Mapper, id) = 0
    BY <1>3 DEF Holders, CountOf
  <2>2. ~Suppress(Mapper)
    BY <1>3 DEF Suppress
  <2> QED
    BY <1>3, <2>1, <2>2, FS_EmptySet DEF Kept
<1>5. guest = Shown(Mapper)
  BY <1>1, <1>3 DEF Shown
<1> QED
  BY <1>1, <1>2, <1>4, <1>5 DEF KeptInv, HostInv

LEMMA KeyboardNext == KeptInv /\ [KNext]_kvars => KeptInv' /\ (HostInv => HostInv')
<1> SUFFICES ASSUME KeptInv, [KNext]_kvars PROVE KeptInv' /\ (HostInv => HostInv')
  OBVIOUS
<1>1. ASSUME NEW k \in Keys, NEW mods \in SUBSET Mods, Press(k, mods)
      PROVE  KeptInv' /\ (HostInv => HostInv')
  BY <1>1, PressKeeps
<1>2. ASSUME NEW k \in Keys, Release(k) PROVE KeptInv' /\ (HostInv => HostInv')
  BY <1>2, ReleaseKeeps
<1>3. ASSUME NEW k \in Keys, Repeat(k) PROVE KeptInv' /\ (HostInv => HostInv')
  BY <1>3, RepeatKeeps
<1>4. CASE ReleaseAll
  BY <1>4, ReleaseAllKeeps
<1>5. CASE UNCHANGED kvars
  <2>1. KeptInv'
    BY <1>5 DEF kvars, KeptInv, Kept, Mapper, Shown, CountOf, Holders, Suppress
  <2>2. HostInv => HostInv'
    BY <1>5 DEF kvars, HostInv, PositionOf
  <2> QED
    BY <2>1, <2>2
<1> QED
  BY <1>1, <1>2, <1>3, <1>4, <1>5 DEF KNext

\* ... and it says what the properties do.
LEMMA KeptHolds == KeptInv => HeldInGuest
<1> SUFFICES ASSUME KeptInv PROVE HeldInGuest
  OBVIOUS
<1>1. Kept(Mapper) /\ Mapper.held = held /\ Mapper.counts = counts
      /\ Mapper.suppressions = shift_suppressions
  BY DEF KeptInv, Mapper
<1>2. \A id : Holders(Mapper, id) = {s \in DOMAIN held : id \in ToSet(held[s].keys)}
  BY <1>1 DEF Holders
<1>3. /\ DOMAIN held \subseteq Sources
      /\ \A s \in DOMAIN held : /\ ToSet(held[s].keys) \subseteq Ids /\ IsInjective(held[s].keys)
                               /\ held[s].suppress \in BOOLEAN /\ (held[s].suppress => s = "F13")
  BY <1>1, HoldsKeys DEF Kept
<1>4. ASSUME NEW id \in DOMAIN counts
      PROVE  /\ counts[id] = Cardinality({s \in DOMAIN held : id \in ToSet(held[s].keys)})
             /\ counts[id] \in 1..Cardinality(Sources)
  <2>1. id \in Ids /\ counts[id] # 0 /\ counts[id] = Cardinality(Holders(Mapper, id))
    BY <1>1 DEF Kept, CountOf
  <2>2. Holders(Mapper, id) \in SUBSET Sources
    BY <1>2, <1>3
  <2>3. counts[id] \in Nat /\ counts[id] <= Cardinality(Sources) /\ Cardinality(Sources) \in Nat
    BY <1>1, <2>1, <2>2, Finite, SourcesFinite, FS_Subset, FS_CardinalityType
  <2>4. PICK S : S = {s \in DOMAIN held : id \in ToSet(held[s].keys)}
    OBVIOUS
  <2>5. Holders(Mapper, id) = S
    BY <1>2, <2>4
  <2>6. counts[id] = Cardinality(S)
    BY <2>1, <2>5
  <2>7. counts[id] \in 1..Cardinality(Sources)
    BY <2>1, <2>3
  <2> QED
    BY <2>4, <2>6, <2>7
<1>5. ASSUME NEW s \in DOMAIN held, NEW id \in ToSet(held[s].keys) PROVE id \in DOMAIN counts
  <2>1. id \in Ids /\ s \in Holders(Mapper, id)
    BY <1>2, <1>3
  <2>2. Cardinality(Holders(Mapper, id)) # 0
    BY <1>1, <2>1, Finite, FS_EmptySet
  <2> QED
    BY <1>1, <2>1, <2>2 DEF Kept, CountOf
<1>6. shift_suppressions = Cardinality({s \in DOMAIN held : held[s].suppress})
      /\ shift_suppressions \in 0..1
  <2> DEFINE S == {s \in DOMAIN held : held[s].suppress}
  <2>1. shift_suppressions = IF Suppress(Mapper) THEN 1 ELSE 0
    BY <1>1 DEF Kept
  <2>2. CASE Suppress(Mapper)
    <3>1. S = {"F13"}
      BY <1>1, <1>3, <2>2 DEF Suppress
    <3> HIDE DEF S
    <3>2. shift_suppressions = Cardinality(S) /\ shift_suppressions \in 0..1
      BY <2>1, <2>2, <3>1, FS_Singleton
    <3> QED
      BY <3>2 DEF S
  <2>3. CASE ~Suppress(Mapper)
    <3>1. S = {}
      BY <1>1, <1>3, <2>3 DEF Suppress
    <3> HIDE DEF S
    <3>2. shift_suppressions = Cardinality(S) /\ shift_suppressions \in 0..1
      BY <2>1, <2>3, <3>1, FS_EmptySet
    <3> QED
      BY <3>2 DEF S
  <2> QED
    BY <2>2, <2>3
<1>7. KTypeOK
  BY <1>3, <1>4, <1>6 DEF KTypeOK, KeptInv
<1>8. CountsAreHolders
  BY <1>4, <1>5, <1>6 DEF CountsAreHolders
<1>9. GuestFollows /\ TransitionsAlternate
  BY <1>1 DEF GuestFollows, TransitionsAlternate, KeptInv, Shown
<1> QED
  BY <1>7, <1>8, <1>9 DEF HeldInGuest

LEMMA NothingStuck == KeptInv /\ HostInv /\ OneSource => NoStuckPosition
<1> SUFFICES ASSUME KeptInv, HostInv, OneSource PROVE NoStuckPosition
  OBVIOUS
<1>1. CountsAreHolders /\ GuestFollows
  BY KeptHolds DEF HeldInGuest
<1>2. KTypeOK /\ IsFiniteSet(DOMAIN held)
  BY KeptHolds, SourcesOf DEF HeldInGuest
<1>3. ASSUME NEW p \in positions
      PROVE  \E s \in DOMAIN held : p \in {PositionOf(id) : id \in ToSet(held[s].keys)}
  <2>1. PICK id \in guest : PositionOf(id) = p
    BY DEF HostInv
  <2>2. id \in DOMAIN counts
    BY <1>1 DEF GuestFollows
  <2>3. PICK S : S = {s \in DOMAIN held : id \in ToSet(held[s].keys)}
    OBVIOUS
  <2>4. Cardinality(S) # 0 /\ S \in SUBSET DOMAIN held
    BY <1>1, <1>2, <2>2, <2>3 DEF CountsAreHolders, KTypeOK
  <2>5. S # {}
    BY <2>4, FS_EmptySet
  <2> QED
    BY <2>1, <2>3, <2>5
<1>4. ASSUME host = {} PROVE positions = {}
  <2>1. DOMAIN held = {}
    BY <1>4 DEF HostInv
  <2> QED
    BY <1>3, <2>1
<1> QED
  BY <1>3, <1>4 DEF NoStuckPosition

\* HeldInGuest: the guest is told, in makes and breaks that alternate, exactly of the keys that
\* the host's sources hold, each counted by its holders (keyboard/src/lib.rs:221-367).
THEOREM HeldTheorem == KSpec => []HeldInGuest
<1>1. KInit => KeptInv
  BY KeyboardInit
<1>2. KeptInv /\ [KNext]_kvars => KeptInv'
  BY KeyboardNext
<1>3. KeptInv => HeldInGuest
  BY KeptHolds
<1> QED
  BY <1>1, <1>2, <1>3, PTL DEF KSpec

\* NoStuckPosition, where the reports of a host key have one source: the code's have, but for
\* the shifted digits, which share the unknown characters' (keyboard/src/lib.rs:577).
THEOREM PositionsTheorem == ASSUME OneSource PROVE KSpec => []NoStuckPosition
<1> DEFINE Inv == KeptInv /\ HostInv
<1>1. KInit => Inv
  BY KeyboardInit
<1>2. Inv /\ [KNext]_kvars => Inv'
  BY KeyboardNext
<1>3. Inv => NoStuckPosition
  BY NothingStuck
<1> QED
  BY <1>1, <1>2, <1>3, PTL DEF KSpec
=============================================================================
