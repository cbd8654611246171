-------------------------- MODULE GuestKeysProofs --------------------------
(***************************************************************************)
(* The keys that the guest holds, for any keys, queue, batch and record    *)
(* sizes and any person: the session's record never overflows and is empty *)
(* once the worker has ended; no key stays pressed whose release was read; *)
(* a gesture ends on the side where it began.                              *)
(***************************************************************************)
EXTENDS GuestKeys, SequenceTheorems, FiniteSetTheorems, TLAPS

\* The record fits because it is a finite set; the filter decides about an event
\* only while one is in hand.
RecordInv ==
  /\ TypeOK /\ IsFiniteSet(held_keys) /\ StoppedHoldsNothing
  /\ at = "decide" => batch # <<>>

\* The keys' names are different.
LEMMA KeyNames == Control \in Keys /\ Quote \in Keys /\ None \notin Keys /\ Chars \subseteq Keys
BY KeysAssumption DEF Keys, Chars

\* What a gesture's decision does to the history and the batch.
LEMMA GoesTypes ==
  ASSUME TypeOK, batch # <<>>, NEW e, e = Head(batch), NEW to \in Fates,
         NEW destination \in {"guest", "host", "nowhere"}, Goes(e, to, destination)
  PROVE  /\ batch' \in Seq(Events) /\ fate' \in [Keys -> Fates]
         /\ outcome' \in [fate : Fates, to : {"guest", "host", "nowhere"}]
<1>1. e \in Events /\ Tail(batch) \in Seq(Events)
  BY HeadTailProperties DEF TypeOK
<1>2. e.key \in Keys /\ fate[e.key] \in Fates
  BY <1>1 DEF Events, TypeOK
<1>3. Gesture(e, to) \in Fates
  BY <1>2 DEF Gesture
<1>4. "up" \in Fates
  BY DEF Fates
<1>. QED
  BY <1>1, <1>2, <1>3, <1>4 DEF Goes, TypeOK

\* The record takes a key only if it has room for it.
LEMMA RecordFits ==
  ASSUME TypeOK, IsFiniteSet(held_keys), batch # <<>>, NEW e, e = Head(batch), NEW to \in Fates,
         ToGuest(e, to)
  PROVE  held_keys' \subseteq Keys /\ IsFiniteSet(held_keys') /\ Cardinality(held_keys') <= HeldMax
<1>1. e \in Events
  BY HeadTailProperties DEF TypeOK
<1>2. e.key \in Keys
  BY <1>1 DEF Events
<1>3. Cardinality(held_keys) \in Nat /\ Cardinality(held_keys) <= HeldMax /\ HeldMax \in Nat
  BY FS_CardinalityType, BoundsAssumption DEF TypeOK
<1>4. CASE held_keys' = held_keys
  BY <1>3, <1>4 DEF TypeOK
<1>5. CASE held_keys' = held_keys \ {e.key}
  <2>1. /\ IsFiniteSet(held_keys \ {e.key}) /\ Cardinality(held_keys \ {e.key}) \in Nat
        /\ Cardinality(held_keys \ {e.key}) <= Cardinality(held_keys)
    BY FS_Subset, FS_CardinalityType
  <2>. QED
    BY <1>3, <1>5, <2>1 DEF TypeOK
<1>6. CASE held_keys' = held_keys \cup {e.key} /\ e.key \notin held_keys /\ ~Full(e)
           /\ e.kind # "release"
  <2>1. Cardinality(held_keys) # HeldMax
    BY <1>6 DEF Full
  <2>2. /\ IsFiniteSet(held_keys \cup {e.key})
        /\ Cardinality(held_keys \cup {e.key}) = Cardinality(held_keys) + 1
    BY <1>6, FS_AddElement
  <2>. QED
    BY <1>2, <1>3, <1>6, <2>1, <2>2 DEF TypeOK
<1>7. CASE held_keys' = held_keys \cup {e.key} /\ e.key \in held_keys
  <2>1. held_keys' = held_keys
    BY <1>7
  <2>. QED
    BY <1>4, <2>1
<1>. QED
  BY <1>4, <1>5, <1>6, <1>7 DEF ToGuest

\* One event through the filter.
LEMMA FilterTypes ==
  ASSUME RecordInv, FilterInput
  PROVE  RecordInv'
<1> DEFINE e == Head(batch)
<1>0. TypeOK /\ IsFiniteSet(held_keys) /\ at = "decide" /\ batch # <<>>
  BY DEF RecordInv, FilterInput
<1>1. e \in Events
  BY <1>0, HeadTailProperties DEF TypeOK
<1>2. e.key \in Keys /\ (e.key \in HostKeys \/ e.key \notin HostKeys)
  BY <1>1 DEF Events
<1>3. /\ UNCHANGED <<down, typed, blocked, disabled, current, running>> /\ odd' \subseteq Oddities
  BY <1>0 DEF FilterInput, TypeOK, Oddities, host, ends
<1>4. filter' \in [literal : BOOLEAN, quoted : Keys \cup {None}, prefix : BOOLEAN,
                   suppressed : SUBSET HostKeys]
  <2>0. filter \in [literal : BOOLEAN, quoted : Keys \cup {None}, prefix : BOOLEAN,
                    suppressed : SUBSET HostKeys]
    BY <1>0 DEF TypeOK
  <2>1. \/ filter' = filter
        \/ filter' = [filter EXCEPT !.quoted = None]
        \/ filter' = [filter EXCEPT !.prefix = FALSE]
        \/ filter' = [filter EXCEPT !.literal = FALSE, !.quoted = e.key]
        \/ filter' = [filter EXCEPT !.literal = TRUE, !.prefix = TRUE]
        \/ filter' = [filter EXCEPT !.suppressed = @ \ {e.key}]
        \/ filter' = [filter EXCEPT !.suppressed = @ \cup {e.key}] /\ HostKey(e)
    BY DEF FilterInput, Decide
  <2>2. HostKey(e) => e.key \in HostKeys
    BY DEF HostKey
  <2>. QED
    BY <1>2, <2>0, <2>1, <2>2
<1>5. /\ at' \in {"feed", "signal"}
      /\ \E to \in Fates :
           \/ ToGuest(e, to)
           \/ \E destination \in {"host", "nowhere"} :
                Goes(e, to, destination) /\ UNCHANGED held_keys
  BY DEF FilterInput, Decide, Consumed, ToGuest, Fates
<1>6. PICK to \in Fates :
        \/ ToGuest(e, to)
        \/ \E destination \in {"host", "nowhere"} :
             Goes(e, to, destination) /\ UNCHANGED held_keys
  BY <1>5
<1>7. \E destination \in {"guest", "host", "nowhere"} : Goes(e, to, destination)
  BY <1>6 DEF ToGuest
<1>8. held_keys' \subseteq Keys /\ IsFiniteSet(held_keys') /\ Cardinality(held_keys') <= HeldMax
  <2>1. CASE ToGuest(e, to)
    BY <1>0, <2>1, RecordFits
  <2>2. CASE held_keys' = held_keys
    BY <1>0, <2>2 DEF TypeOK
  <2>. QED
    BY <1>6, <2>1, <2>2
<1>9. /\ batch' \in Seq(Events) /\ fate' \in [Keys -> Fates]
      /\ outcome' \in [fate : Fates, to : {"guest", "host", "nowhere"}]
  BY <1>0, <1>7, GoesTypes
<1>. QED
  BY <1>0, <1>3, <1>4, <1>5, <1>8, <1>9 DEF RecordInv, TypeOK, StoppedHoldsNothing

\* A key that is pressed, repeated or let go leaves the record alone.
LEMMA TypingTypes ==
  ASSUME RecordInv, NEW kind \in {"press", "repeat", "release"}, NEW k \in Keys,
         Typing(kind, k), down' \subseteq Keys
  PROVE  RecordInv'
<1>0. TypeOK
  BY DEF RecordInv
<1>1. typed' \in Seq(Events)
  <2>1. [kind |-> kind, key |-> k, control |-> Control \in down] \in Events
    BY DEF Events
  <2>. QED
    BY <1>0, <2>1, AppendProperties DEF Typing, TypeOK
<1>2. odd' \subseteq Oddities
  BY <1>0 DEF Typing, TypeOK, Oddities
<1>. QED
  BY <1>0, <1>1, <1>2 DEF RecordInv, TypeOK, StoppedHoldsNothing, Typing, ends, worker

\* A read takes a prefix of what waits.
LEMMA ReadTypes ==
  ASSUME RecordInv, ReadEvents
  PROVE  RecordInv'
<1>0. TypeOK
  BY DEF RecordInv
<1> DEFINE n == IF Len(typed) < BatchSize THEN Len(typed) ELSE BatchSize
<1>1. n \in 1 .. Len(typed) /\ Len(typed) \in Nat
  <2>1. Len(typed) \in Nat /\ Len(typed) # 0
    BY <1>0, EmptySeq, LenProperties DEF ReadEvents, TypeOK
  <2>. QED
    BY <2>1, BoundsAssumption
<1>2. batch' \in Seq(Events) /\ typed' \in Seq(Events)
  <2>0. typed \in Seq(Events) /\ batch' = SubSeq(typed, 1, n)
        /\ typed' = SubSeq(typed, n + 1, Len(typed))
    BY <1>0 DEF ReadEvents, TypeOK
  <2>1. \A i \in 1 .. n : i \in 1 .. Len(typed)
    BY <1>1
  <2>2. \A i \in n + 1 .. Len(typed) : i \in 1 .. Len(typed)
    BY <1>1
  <2>. QED
    BY <1>1, <2>0, <2>1, <2>2, SubSeqProperties
<1>. QED
  BY <1>0, <1>2 DEF RecordInv, TypeOK, StoppedHoldsNothing, ReadEvents, ends, ghosts

\* A new generation makes the gestures that go on old ones.
LEMMA EpochTypes ==
  ASSUME RecordInv, FilterEpoch
  PROVE  RecordInv'
<1>0. TypeOK
  BY DEF RecordInv
<1>1. fate' \in [Keys -> Fates]
  BY <1>0 DEF FilterEpoch, TypeOK, Fates
<1>2. filter' \in [literal : BOOLEAN, quoted : Keys \cup {None}, prefix : BOOLEAN,
                   suppressed : SUBSET HostKeys]
  BY <1>0 DEF FilterEpoch, TypeOK, NoFilter
<1>3. outcome' \in [fate : Fates, to : {"guest", "host", "nowhere"}]
  BY DEF FilterEpoch, NoOutcome, Fates
<1>4. current' \subseteq {"worker", "filter"}
  BY <1>0 DEF FilterEpoch, TypeOK
<1>. QED
  BY <1>0, <1>1, <1>2, <1>3, <1>4
     DEF RecordInv, TypeOK, StoppedHoldsNothing, FilterEpoch, host

\* The record starts empty.
LEMMA RecordInit == Init => RecordInv
<1> SUFFICES ASSUME Init PROVE RecordInv
  OBVIOUS
<1>1. held_keys = {} /\ IsFiniteSet(held_keys) /\ Cardinality(held_keys) = 0
  BY FS_EmptySet DEF Init
<1>2. HeldMax \in Nat
  BY BoundsAssumption
<1>3. typed \in Seq(Events) /\ batch \in Seq(Events)
  BY DEF Init
<1>4. /\ filter \in [literal : BOOLEAN, quoted : Keys \cup {None}, prefix : BOOLEAN,
                      suppressed : SUBSET HostKeys]
      /\ outcome \in [fate : Fates, to : {"guest", "host", "nowhere"}]
      /\ fate \in [Keys -> Fates]
  BY DEF Init, NoFilter, NoOutcome, Fates
<1>5. /\ down \subseteq Keys /\ current \subseteq {"worker", "filter"} /\ odd \subseteq Oddities
      /\ {blocked, disabled, running} \subseteq BOOLEAN /\ at = "top"
  BY DEF Init
<1>6. held_keys \subseteq Keys /\ Cardinality(held_keys) <= HeldMax
  BY <1>1, <1>2
<1>. QED
  BY <1>1, <1>3, <1>4, <1>5, <1>6 DEF RecordInv, TypeOK, StoppedHoldsNothing

\* What the record needs of a step that neither types, reads nor filters.
LEMMA OtherSteps ==
  ASSUME RecordInv,
         UNCHANGED <<down, typed, filter, fate, odd>>,
         batch' = batch, at' # "decide",
         held_keys' = held_keys \/ held_keys' = {},
         at' = "stopped" => at = "stopped" \/ held_keys' = {},
         {blocked', disabled', running'} \subseteq BOOLEAN,
         at' \in {"stopped", "top", "ending", "renew", "ready", "feed", "decide", "signal"},
         current' \subseteq {"worker", "filter"},
         outcome' = outcome \/ outcome' = NoOutcome
  PROVE  RecordInv'
<1>1. IsFiniteSet({}) /\ Cardinality({}) = 0 /\ HeldMax \in Nat
  BY FS_EmptySet, BoundsAssumption
<1>2. held_keys' \subseteq Keys /\ Cardinality(held_keys') <= HeldMax /\ IsFiniteSet(held_keys')
  <2>1. CASE held_keys' = {}
    <3>1. Cardinality(held_keys') = 0 /\ IsFiniteSet(held_keys')
      BY <1>1, <2>1
    <3>. QED
      BY <1>1, <2>1, <3>1
  <2>2. CASE held_keys' = held_keys
    BY <2>2 DEF RecordInv, TypeOK
  <2>. QED
    BY <2>1, <2>2
<1>3. outcome' \in [fate : Fates, to : {"guest", "host", "nowhere"}]
  BY DEF RecordInv, TypeOK, NoOutcome, Fates
<1>. QED
  BY <1>2, <1>3 DEF RecordInv, TypeOK, StoppedHoldsNothing

\* No step of the person, the terminal's owner or the worker breaks the record.
LEMMA RecordStep == RecordInv /\ [Next]_vars => RecordInv'
<1> SUFFICES ASSUME RecordInv, [Next]_vars PROVE RecordInv'
  OBVIOUS
<1>0. TypeOK
  BY DEF RecordInv
<1>1. ASSUME NEW k \in Keys, Press(k) \/ Repeat(k) \/ LetGo(k) PROVE RecordInv'
  <2>1. down' \subseteq Keys
    BY <1>0, <1>1 DEF Press, Repeat, LetGo, TypeOK
  <2>. QED
    BY <1>1, <2>1, TypingTypes DEF Press, Repeat, LetGo
<1>2. CASE at # "decide" /\ (Released \/ Restored \/ Disable \/ Stop \/ Start)
  BY <1>0, <1>2, OtherSteps
     DEF Released, Restored, Disable, Stop, Start, NewGeneration, host, ends, worker, ghosts, TypeOK
<1>3. CASE at = "decide" /\ (Released \/ Restored \/ Disable \/ Stop)
  BY <1>0, <1>3
     DEF Released, Restored, Disable, Stop, NewGeneration, host, ends, worker, ghosts,
         RecordInv, TypeOK, StoppedHoldsNothing
<1>4. CASE Exit \/ Renew \/ Renewed \/ Go \/ EndsItself \/ Idle
  BY <1>0, <1>4, OtherSteps
     DEF Exit, Renew, Renewed, Go, EndsItself, Idle, ReleaseGuestKeys, host, ends, ghosts, TypeOK
<1>5. CASE Fed \/ HostSignal
  BY <1>0, <1>5, OtherSteps DEF Fed, HostSignal, NewGeneration, host, ends, ghosts, TypeOK
<1>6. CASE ReadEvents
  BY <1>6, ReadTypes
<1>7. CASE FilterEpoch
  BY <1>7, EpochTypes
<1>8. CASE FilterInput
  BY <1>8, FilterTypes
<1>9. CASE UNCHANGED vars
  BY <1>0, <1>9
     DEF vars, host, ends, worker, ghosts, RecordInv, TypeOK, StoppedHoldsNothing
<1>10. at = "decide" => ~Start
  BY DEF Start
<1>. QED
  BY <1>1, <1>2, <1>3, <1>4, <1>5, <1>6, <1>7, <1>8, <1>9, <1>10 DEF Next, WorkerStep

\* The record of the keys that the guest holds never exceeds its capacity, though
\* presses and repeats keep coming, and a worker that has ended holds nothing
\* (add_held_key, remove_held_key and release_guest_keys, src/tigt.c 826-870).
THEOREM RecordTheorem == Spec => []RecordIsKept
<1>1. RecordInv => RecordIsKept
  BY DEF RecordInv, RecordIsKept
<1>. QED
  BY <1>1, RecordInit, RecordStep, PTL DEF Spec
-----------------------------------------------------------------------------
(***************************************************************************)
(* What was typed and not yet fed.  As long as every key is read, and Ctrl *)
(* changes only between gestures, an event tells whether the key's next    *)
(* one goes on with the gesture, and with what Ctrl.                       *)
(***************************************************************************)
Stream == batch \o typed

\* The first event of k after the n-th is one of E; where none has been typed, b holds.
First(s, n, k, j) == j > n /\ s[j].key = k /\ \A m \in DOMAIN s : n < m /\ m < j => s[m].key # k
Answers(s, n, k, E, b) ==
  /\ \A j \in DOMAIN s : First(s, n, k, j) => s[j] \in E
  /\ (\A j \in DOMAIN s : j > n => s[j].key # k) => b

Presses  == {e \in Events : e.kind = "press"}
Goings(c) == {e \in Events : e.kind # "press" /\ (e.control <=> c)}
\* What follows the n-th event is a new gesture of k, or goes on with one, with Ctrl as c says.
Begins(s, n, k)       == Answers(s, n, k, Presses, k \notin down)
Continues(s, n, k, c) == Answers(s, n, k, Goings(c), k \in down /\ (Control \in down <=> c))

Unmixed == odd \cap {"unseen", "mixed"} = {}
StreamInv ==
  /\ at \in {"feed", "decide", "signal"} \/ batch = <<>>
  /\ "unseen" \notin odd =>
       /\ \A n \in DOMAIN Stream : Stream[n].kind = "release" => Begins(Stream, n, Stream[n].key)
       /\ \A k \in Keys : fate[k] = "up" => Begins(Stream, 0, k)
  /\ Unmixed =>
       \A n \in DOMAIN Stream : Stream[n].kind # "release" /\ Stream[n].key \in Chars =>
         Continues(Stream, n, Stream[n].key, Stream[n].control)

\* A worker whose generation is the current one decides with the current filter's state.
Served == "worker" \in current /\ ~disabled
Chords == HostKeys \cup {Quote}
HeldInv ==
  /\ at \in {"renew", "stopped"} => held_keys = {}
  /\ at \in {"feed", "decide", "signal"} /\ blocked => "worker" \notin current
  /\ at = "decide" /\ Served => "filter" \in current
  /\ Served /\ "filter" \notin current => held_keys = {}
  /\ Served /\ odd = {} =>
       \A k \in held_keys : /\ fate[k] # "up"
                            /\ k \in Chords => filter.quoted = k \/ Continues(Stream, 0, k, FALSE)

\* A host gesture's signal takes the filter's epoch with it.
Expired == at = "signal" \/ (at # "decide" /\ "filter" \notin current)
SidesInv ==
  /\ at = "signal" /\ blocked => "filter" \notin current
  /\ filter.suppressed # {} => Expired
  /\ Unmixed =>
       \A k \in Keys : fate[k] = "host" =>
         \/ Expired
         \/ /\ k = Quote /\ filter.quoted # Quote /\ (filter.prefix \/ ~filter.literal)
            /\ Continues(Stream, 0, k, TRUE)
  /\ "overlap" \notin odd => \A k \in Keys : fate[k] = "quoted" => filter.quoted = k
KeysInv == RecordInv /\ StreamInv /\ HeldInv /\ SidesInv /\ GesturesKeepSides

\* What was answered stays so when one more event of what goes on is typed.
LEMMA AnswersTyped ==
  ASSUME NEW S, NEW s \in Seq(S), NEW n \in Nat, n <= Len(s), NEW k, NEW E, NEW b, NEW c,
         NEW e \in S, Answers(s, n, k, E, b),
         e.key = k /\ b => e \in E, e.key # k /\ b => c
  PROVE  Answers(Append(s, e), n, k, E, c)
<1> DEFINE t == Append(s, e)
<1>0. Len(s) \in Nat /\ DOMAIN s = 1 .. Len(s)
  OBVIOUS
<1>1. /\ DOMAIN t = 1 .. Len(s) + 1 /\ t[Len(s) + 1] = e
      /\ \A i \in 1 .. Len(s) : t[i] = s[i]
  BY AppendProperties
<1> HIDE DEF t
<1>2. ASSUME NEW j \in DOMAIN t, First(t, n, k, j) PROVE t[j] \in E
  <2>1. CASE j \in 1 .. Len(s)
    <3>1. First(s, n, k, j)
      BY <1>0, <1>1, <1>2, <2>1 DEF First
    <3>. QED
      BY <1>0, <1>1, <2>1, <3>1 DEF Answers
  <2>2. CASE j = Len(s) + 1
    <3>1. \A m \in DOMAIN s : m > n => s[m].key # k
      BY <1>0, <1>1, <1>2, <2>2 DEF First
    <3>2. b
      BY <3>1 DEF Answers
    <3>. QED
      BY <1>1, <1>2, <2>2, <3>2 DEF First
  <2>. QED
    BY <1>0, <1>1, <2>1, <2>2
<1>3. ASSUME \A j \in DOMAIN t : j > n => t[j].key # k PROVE c
  <2>1. \A m \in DOMAIN s : m > n => s[m].key # k
    BY <1>0, <1>1, <1>3
  <2>2. b
    BY <2>1 DEF Answers
  <2>3. e.key # k
    BY <1>0, <1>1, <1>3
  <2>. QED
    BY <2>2, <2>3
<1>. QED
  BY <1>2, <1>3 DEF Answers, t

\* Nothing follows the last event.
LEMMA AnswersLast ==
  ASSUME NEW S, NEW s \in Seq(S), NEW k, NEW E, NEW b, b
  PROVE  Answers(s, Len(s), k, E, b)
<1>1. \A j \in DOMAIN s : ~(j > Len(s))
  OBVIOUS
<1>. QED
  BY <1>1 DEF Answers, First

\* The first event leaves the stream: what followed it follows nothing now.
LEMMA AnswersFed ==
  ASSUME NEW S, NEW s \in Seq(S), s # <<>>, NEW n \in Nat, NEW k, NEW E, NEW b,
         Answers(s, n + 1, k, E, b)
  PROVE  Answers(Tail(s), n, k, E, b)
<1> DEFINE t == Tail(s)
<1>0. Len(s) \in Nat /\ DOMAIN s = 1 .. Len(s) /\ Len(s) # 0
  BY EmptySeq
<1>1. DOMAIN t = 1 .. Len(s) - 1 /\ \A i \in 1 .. Len(s) - 1 : t[i] = s[i + 1]
  BY <1>0, HeadTailProperties
<1> HIDE DEF t
<1>4. \A m \in DOMAIN s : m > n + 1 => m - 1 \in DOMAIN t /\ s[m] = t[m - 1]
  <2> SUFFICES ASSUME NEW m \in DOMAIN s, m > n + 1
               PROVE  m - 1 \in DOMAIN t /\ s[m] = t[m - 1]
    OBVIOUS
  <2>1. m - 1 \in 1 .. Len(s) - 1 /\ (m - 1) + 1 = m
    BY <1>0
  <2>. QED
    BY <1>1, <2>1
<1>2. ASSUME NEW j \in DOMAIN t, First(t, n, k, j) PROVE t[j] \in E
  <2>1. j \in Nat /\ j + 1 \in DOMAIN s /\ t[j] = s[j + 1] /\ j > n /\ t[j].key = k
    BY <1>0, <1>1, <1>2 DEF First
  <2>2. \A m \in DOMAIN s : n + 1 < m /\ m < j + 1 => s[m].key # k
    <3> SUFFICES ASSUME NEW m \in DOMAIN s, n + 1 < m, m < j + 1 PROVE s[m].key # k
      OBVIOUS
    <3>1. m \in Nat /\ m > n + 1
      BY <1>0
    <3>2. m - 1 \in DOMAIN t /\ s[m] = t[m - 1] /\ n < m - 1 /\ m - 1 < j
      BY <1>4, <2>1, <3>1
    <3>. QED
      BY <1>2, <3>2 DEF First
  <2>3. First(s, n + 1, k, j + 1)
    BY <2>1, <2>2 DEF First
  <2>. QED
    BY <2>1, <2>3 DEF Answers
<1>3. ASSUME \A j \in DOMAIN t : j > n => t[j].key # k PROVE b
  <2>1. \A m \in DOMAIN s : m > n + 1 => s[m].key # k
    <3> SUFFICES ASSUME NEW m \in DOMAIN s, m > n + 1 PROVE s[m].key # k
      OBVIOUS
    <3>1. m - 1 \in DOMAIN t /\ s[m] = t[m - 1] /\ m - 1 > n
      BY <1>0, <1>4
    <3>. QED
      BY <1>3, <3>1
  <2>. QED
    BY <2>1 DEF Answers
<1>. QED
  BY <1>2, <1>3 DEF Answers, t

\* The first event answers for its key, and tells nothing of another.
LEMMA AnswersFirst ==
  ASSUME NEW S, NEW s \in Seq(S), s # <<>>, NEW k, NEW E, NEW b, Answers(s, 0, k, E, b)
  PROVE  /\ s[1].key = k => s[1] \in E
         /\ s[1].key # k => Answers(Tail(s), 0, k, E, b)
<1>0. Len(s) \in Nat /\ DOMAIN s = 1 .. Len(s) /\ Len(s) # 0 /\ 1 \in DOMAIN s
  BY EmptySeq
<1>1. ASSUME s[1].key = k PROVE s[1] \in E
  <2>1. First(s, 0, k, 1)
    BY <1>0, <1>1 DEF First
  <2>. QED
    BY <1>0, <2>1 DEF Answers
<1>2. ASSUME s[1].key # k PROVE Answers(s, 1, k, E, b)
  <2>1. \A j \in DOMAIN s : First(s, 1, k, j) => First(s, 0, k, j)
    <3> SUFFICES ASSUME NEW j \in DOMAIN s, First(s, 1, k, j) PROVE First(s, 0, k, j)
      OBVIOUS
    <3>1. \A m \in DOMAIN s : m = 1 \/ m > 1
      BY <1>0
    <3>. QED
      BY <1>0, <1>2, <3>1 DEF First
  <2>2. (\A j \in DOMAIN s : j > 1 => s[j].key # k) => \A j \in DOMAIN s : j > 0 => s[j].key # k
    <3>1. \A m \in DOMAIN s : m = 1 \/ m > 1
      BY <1>0
    <3>. QED
      BY <1>2, <3>1
  <2>. QED
    BY <2>1, <2>2 DEF Answers
<1>3. ASSUME s[1].key # k PROVE Answers(Tail(s), 0, k, E, b)
  <2>1. Answers(s, 0 + 1, k, E, b) /\ 0 \in Nat
    BY <1>2, <1>3
  <2> HIDE DEF Answers
  <2>. QED
    BY <2>1, AnswersFed
<1>. QED
  BY <1>1, <1>3

\* The stream's first event is the one in hand.
LEMMA StreamShape ==
  ASSUME TypeOK
  PROVE  /\ Stream \in Seq(Events)
         /\ batch # <<>> => /\ Stream # <<>> /\ Stream[1] = Head(batch)
                            /\ Tail(Stream) = Tail(batch) \o typed
<1>0. batch \in Seq(Events) /\ typed \in Seq(Events)
  BY DEF TypeOK
<1>1. Stream \in Seq(Events)
  BY <1>0, ConcatProperties DEF Stream
<1>2. ASSUME batch # <<>>
      PROVE  Stream # <<>> /\ Stream[1] = Head(batch) /\ Tail(Stream) = Tail(batch) \o typed
  BY <1>0, <1>2 DEF Stream
<1>. QED
  BY <1>1, <1>2

\* What a key does to the stream, unless nobody reads it.
TypedEvent(kind, k) == [kind |-> kind, key |-> k, control |-> Control \in down]
Types(kind, k) ==
  \/ kind = "press" /\ k \notin down /\ down' = down \cup {k}
  \/ kind = "repeat" /\ k \in down \ {Control} /\ down' = down
  \/ kind = "release" /\ k \in down /\ down' = down \ {k}

\* An event that is read joins the stream at its end.
LEMMA TypedStream ==
  ASSUME TypeOK, NEW kind \in {"press", "repeat", "release"}, NEW k \in Keys,
         Typing(kind, k), "unseen" \notin odd'
  PROVE  /\ TypedEvent(kind, k) \in Events
         /\ Stream' = Append(Stream, TypedEvent(kind, k))
<1>1. TypedEvent(kind, k) \in Events
  BY DEF TypedEvent, Events
<1>2. typed' = Append(typed, TypedEvent(kind, k)) /\ batch' = batch
  BY DEF Typing, TypedEvent, worker
<1>3. \A e \in Events : batch \o Append(typed, e) = Append(batch \o typed, e)
  <2> SUFFICES ASSUME NEW e \in Events PROVE batch \o Append(typed, e) = Append(batch \o typed, e)
    OBVIOUS
  <2>0. batch \in Seq(Events) /\ typed \in Seq(Events) /\ <<e>> \in Seq(Events)
    BY DEF TypeOK
  <2>1. Append(typed, e) = typed \o <<e>> /\ batch \o typed \in Seq(Events)
    BY <2>0, AppendIsConcat, ConcatProperties
  <2>2. Append(batch \o typed, e) = (batch \o typed) \o <<e>>
    BY <2>1, AppendIsConcat
  <2>. QED
    BY <2>0, <2>1, <2>2, ConcatAssociative
<1>. QED
  BY <1>1, <1>2, <1>3 DEF Stream

\* What goes on with a character's gesture still does after one more key, as long as
\* Ctrl does not change during it; and so does what is a new gesture.
LEMMA TypedContinues ==
  ASSUME TypeOK, NEW kind \in {"press", "repeat", "release"}, NEW k \in Keys,
         Typing(kind, k), Types(kind, k), odd' \cap {"unseen", "mixed"} = {},
         NEW n \in Nat, n <= Len(Stream), NEW q \in Chars, NEW c \in BOOLEAN,
         Continues(Stream, n, q, c)
  PROVE  Continues(Stream, n, q, c)'
<1> DEFINE e == TypedEvent(kind, k)
<1>1. e \in Events /\ Stream \in Seq(Events) /\ Stream' = Append(Stream, e)
  BY StreamShape, TypedStream
<1>2. e.key = k /\ e.kind = kind /\ (e.control <=> Control \in down)
  BY DEF TypedEvent
<1>3. Control \notin Chars /\ Chars \subseteq Keys
  BY KeysAssumption DEF Chars, Keys, Control, Quote
<1>4. k = Control => down \cap Chars = {}
  BY DEF Typing
<1> DEFINE b == q \in down /\ (Control \in down <=> c)
<1> DEFINE b2 == q \in down' /\ (Control \in down' <=> c)
<1>5. e.key = q /\ b => e \in Goings(c)
  <2> SUFFICES ASSUME e.key = q, b PROVE e \in Goings(c)
    OBVIOUS
  <2>1. kind # "press"
    BY <1>2 DEF Types
  <2>2. e.control <=> c
    BY <1>2
  <2> HIDE DEF e
  <2>. QED
    BY <1>1, <1>2, <2>1, <2>2 DEF Goings
<1>6. e.key # q /\ b => b2
  BY <1>2, <1>3, <1>4 DEF Types
<1>7. Answers(Stream, n, q, Goings(c), b)
  BY DEF Continues
<1> HIDE DEF e, b, b2
<1>8. Answers(Append(Stream, e), n, q, Goings(c), b2)
  BY <1>1, <1>5, <1>6, <1>7, AnswersTyped
<1>9. Answers(Stream', n, q, Goings(c), b2)
  BY <1>1, <1>8
<1>. QED
  BY <1>9 DEF Continues, b2

\* What is a new gesture still is after one more key, whatever Ctrl does.
LEMMA TypedBegins ==
  ASSUME TypeOK, NEW kind \in {"press", "repeat", "release"}, NEW k \in Keys,
         Typing(kind, k), Types(kind, k), "unseen" \notin odd',
         NEW n \in Nat, n <= Len(Stream), NEW q \in Keys, Begins(Stream, n, q)
  PROVE  Begins(Stream, n, q)'
<1> DEFINE e == TypedEvent(kind, k)
<1>1. e \in Events /\ Stream \in Seq(Events) /\ Stream' = Append(Stream, e)
  BY StreamShape, TypedStream
<1>2. e.key = k /\ e.kind = kind
  BY DEF TypedEvent
<1> DEFINE b == q \notin down
<1> DEFINE b2 == q \notin down'
<1> HIDE DEF e
<1>5. e.key = q /\ b => e \in Presses
  BY <1>1, <1>2 DEF Types, Presses
<1>6. e.key # q /\ b => b2
  BY <1>2 DEF Types
<1>7. Answers(Stream, n, q, Presses, b)
  BY DEF Begins
<1> HIDE DEF b, b2
<1>8. Answers(Append(Stream, e), n, q, Presses, b2)
  BY <1>1, <1>5, <1>6, <1>7, AnswersTyped
<1>9. Answers(Stream', n, q, Presses, b2)
  BY <1>1, <1>8
<1>. QED
  BY <1>9 DEF Begins, b2

\* Typing keeps what the stream tells.
LEMMA TypingStream ==
  ASSUME RecordInv, StreamInv, NEW kind \in {"press", "repeat", "release"}, NEW k \in Keys,
         Typing(kind, k), Types(kind, k)
  PROVE  StreamInv'
<1> DEFINE e == TypedEvent(kind, k)
<1> HIDE DEF e
<1>0. TypeOK /\ Stream \in Seq(Events) /\ Len(Stream) \in Nat
  <2>1. TypeOK
    BY DEF RecordInv
  <2>2. Stream \in Seq(Events)
    BY <2>1, StreamShape
  <2>. QED
    BY <2>1, <2>2
<1>1. /\ UNCHANGED <<at, batch, fate>>
      /\ "unseen" \notin odd' => "unseen" \notin odd
      /\ Unmixed' => Unmixed /\ "unseen" \notin odd'
  BY DEF Typing, worker, Unmixed
<1>2. ASSUME "unseen" \notin odd'
      PROVE  /\ e \in Events /\ Stream' = Append(Stream, e)
             /\ DOMAIN Stream' = 1 .. Len(Stream) + 1
             /\ \A i \in 1 .. Len(Stream) : i \in DOMAIN Stream /\ Stream'[i] = Stream[i]
             /\ Stream'[Len(Stream) + 1] = e
             /\ Stream' \in Seq(Events) /\ Len(Stream') = Len(Stream) + 1
  <2>1. e \in Events /\ Stream' = Append(Stream, e)
    BY <1>0, <1>2, TypedStream DEF e
  <2>2. /\ Stream' \in Seq(Events) /\ Len(Stream') = Len(Stream) + 1
        /\ \A i \in 1 .. Len(Stream) : Stream'[i] = Stream[i]
        /\ Stream'[Len(Stream) + 1] = e
    BY <1>0, <2>1, AppendProperties
  <2>3. /\ DOMAIN Stream' = 1 .. Len(Stream) + 1
        /\ \A i \in 1 .. Len(Stream) : i \in DOMAIN Stream
    BY <1>0, <2>2, LenProperties
  <2>. QED
    BY <2>1, <2>2, <2>3
<1>3. e.key = k /\ e.kind = kind /\ (e.control <=> Control \in down) /\ e.control \in BOOLEAN
  <2>1. e.key = k /\ e.kind = kind /\ e.control = (Control \in down)
    BY DEF TypedEvent, e
  <2>2. (Control \in down) \in BOOLEAN
    OBVIOUS
  <2>. QED
    BY <2>1, <2>2
<1>4. ASSUME "unseen" \notin odd', NEW n \in DOMAIN Stream', Stream'[n].kind = "release"
      PROVE  Begins(Stream, n, Stream[n].key)'
  <2>1. CASE n \in 1 .. Len(Stream)
    <3>1. n \in DOMAIN Stream /\ Stream'[n] = Stream[n] /\ n \in Nat /\ n <= Len(Stream)
      BY <1>0, <1>2, <1>4, <2>1
    <3>2. Stream[n] \in Events /\ Stream[n].key \in Keys
      <4>1. Stream[n] \in Events
        BY <1>0, <3>1, ElementOfSeq
      <4>. QED
        BY <4>1 DEF Events
    <3>3. Begins(Stream, n, Stream[n].key)
      BY <1>1, <1>4, <3>1 DEF StreamInv
    <3>5. PICK q \in Keys : Begins(Stream, n, q) /\ q = Stream'[n].key
      BY <3>1, <3>2, <3>3
    <3>6. Begins(Stream, n, q)'
      BY <1>0, <1>4, <3>1, <3>5, TypedBegins
    <3>. QED
      BY <3>5, <3>6 DEF Begins
  <2>2. CASE n = Len(Stream) + 1
    <3>1. Stream'[n] = e /\ n = Len(Stream') /\ Stream' \in Seq(Events)
      BY <1>0, <1>2, <1>4, <2>2
    <3>2. k \notin down'
      BY <1>3, <1>4, <3>1 DEF Types
    <3>3. Answers(Stream', Len(Stream'), k, Presses, k \notin down')
      BY <3>1, <3>2, AnswersLast
    <3>4. Stream'[n].key = k
      BY <1>3, <3>1
    <3>5. Answers(Stream', n, Stream'[n].key, Presses, Stream'[n].key \notin down')
      BY <3>1, <3>3, <3>4
    <3>. QED
      BY <3>5 DEF Begins
  <2>. QED
    BY <1>0, <1>2, <1>4, <2>1, <2>2
<1>5. ASSUME "unseen" \notin odd', NEW q \in Keys, fate'[q] = "up"
      PROVE  Begins(Stream, 0, q)'
  <2>1. Begins(Stream, 0, q) /\ 0 \in Nat /\ 0 <= Len(Stream)
    BY <1>0, <1>1, <1>5 DEF StreamInv
  <2>. QED
    BY <1>0, <1>5, <2>1, TypedBegins
<1>6. ASSUME Unmixed', NEW n \in DOMAIN Stream', Stream'[n].kind # "release",
             Stream'[n].key \in Chars
      PROVE  Continues(Stream, n, Stream[n].key, Stream[n].control)'
  <2>0. "unseen" \notin odd' /\ Unmixed /\ odd' \cap {"unseen", "mixed"} = {}
    BY <1>1, <1>6 DEF Unmixed
  <2>1. CASE n \in 1 .. Len(Stream)
    <3>1. n \in DOMAIN Stream /\ Stream'[n] = Stream[n] /\ n \in Nat /\ n <= Len(Stream)
      BY <1>0, <1>2, <2>0, <2>1
    <3>2. Stream[n].control \in BOOLEAN
      <4>1. Stream[n] \in Events
        BY <1>0, <3>1, ElementOfSeq
      <4>. QED
        BY <4>1 DEF Events
    <3>3. Continues(Stream, n, Stream[n].key, Stream[n].control)
      BY <1>6, <2>0, <3>1 DEF StreamInv
    <3>5. PICK q \in Chars, c \in BOOLEAN :
            Continues(Stream, n, q, c) /\ q = Stream'[n].key /\ c = Stream'[n].control
      BY <1>6, <3>1, <3>2, <3>3
    <3>6. Continues(Stream, n, q, c)'
      BY <1>0, <2>0, <3>1, <3>5, TypedContinues
    <3>. QED
      BY <3>5, <3>6 DEF Continues
  <2>2. CASE n = Len(Stream) + 1
    <3>1. Stream'[n] = e /\ n = Len(Stream') /\ Stream' \in Seq(Events)
      BY <1>0, <1>2, <2>0, <2>2
    <3>2. k \in down' /\ k # Control
      BY <1>3, <1>6, <3>1, KeysAssumption DEF Types, Chars, Quote, Control
    <3>3. Control \in down' <=> e.control
      BY <1>3, <3>2 DEF Types
    <3>4. PICK c \in BOOLEAN : c = e.control
      BY <1>3
    <3>5. k \in down' /\ (Control \in down' <=> c)
      BY <3>2, <3>3, <3>4
    <3>6. Answers(Stream', Len(Stream'), k, Goings(c), k \in down' /\ (Control \in down' <=> c))
      BY <3>1, <3>5, AnswersLast
    <3>7. Continues(Stream, n, k, c)'
      BY <3>1, <3>6 DEF Continues
    <3>8. Stream'[n].key = k /\ Stream'[n].control = c
      BY <1>3, <3>1, <3>4
    <3>. QED
      BY <3>7, <3>8 DEF Continues
  <2>. QED
    BY <1>0, <1>2, <2>0, <2>1, <2>2
<1>7. (at \in {"feed", "decide", "signal"} \/ batch = <<>>)'
  BY <1>1 DEF StreamInv
<1>. QED
  BY <1>4, <1>5, <1>6, <1>7 DEF StreamInv

\* When an event leaves the stream, what came after it comes first.
LEMMA FedShape ==
  ASSUME TypeOK, batch # <<>>, batch' = Tail(batch), typed' = typed
  PROVE  /\ Stream \in Seq(Events) /\ Stream # <<>> /\ Stream[1] = Head(batch)
         /\ Stream' = Tail(Stream) /\ Head(batch) \in Events
         /\ DOMAIN Stream' = 1 .. Len(Stream) - 1
         /\ \A i \in DOMAIN Stream' : /\ i \in Nat /\ i + 1 \in DOMAIN Stream
                                      /\ Stream'[i] = Stream[i + 1]
<1>1. /\ Stream \in Seq(Events) /\ Stream # <<>> /\ Stream[1] = Head(batch)
      /\ Stream' = Tail(Stream)
  <2>1. Tail(Stream) = Tail(batch) \o typed
    BY StreamShape
  <2>2. Stream' = Tail(batch) \o typed
    BY DEF Stream
  <2>. QED
    BY <2>1, <2>2, StreamShape
<1>2. Head(batch) \in Events
  BY HeadTailProperties DEF TypeOK
<1>3. Len(Stream) \in Nat /\ Len(Stream) # 0 /\ DOMAIN Stream = 1 .. Len(Stream)
  BY <1>1, EmptySeq, LenProperties
<1>4. /\ Stream' \in Seq(Events) /\ Len(Stream') = Len(Stream) - 1
      /\ \A i \in 1 .. Len(Stream') : Stream'[i] = Stream[i + 1]
  BY <1>1, HeadTailProperties
<1>5. DOMAIN Stream' = 1 .. Len(Stream) - 1
  BY <1>4, LenProperties
<1>. QED
  BY <1>1, <1>2, <1>3, <1>4, <1>5

\* What goes on after an event goes on first once the event left; the event itself goes
\* on with its own key's gesture.
LEMMA FedContinues ==
  ASSUME TypeOK, batch # <<>>, batch' = Tail(batch), typed' = typed, down' = down,
         NEW q, NEW c \in BOOLEAN
  PROVE  /\ \A n \in Nat : Continues(Stream, n + 1, q, c) => Continues(Stream, n, q, c)'
         /\ Continues(Stream, 0, q, c) =>
              /\ Head(batch).key = q => Head(batch) \in Goings(c)
              /\ Head(batch).key # q => Continues(Stream, 0, q, c)'
<1> DEFINE b == q \in down /\ (Control \in down <=> c)
<1>0. /\ Stream \in Seq(Events) /\ Stream # <<>> /\ Stream[1] = Head(batch)
      /\ Stream' = Tail(Stream)
  BY FedShape
<1>1. \A n \in Nat : Continues(Stream, n, q, c) <=> Answers(Stream, n, q, Goings(c), b)
  BY DEF Continues
<1>2. \A n \in Nat : Continues(Stream, n, q, c)' <=> Answers(Tail(Stream), n, q, Goings(c), b)
  BY <1>0 DEF Continues
<1> HIDE DEF b
<1>3. ASSUME NEW n \in Nat, Continues(Stream, n + 1, q, c) PROVE Continues(Stream, n, q, c)'
  <2>1. Answers(Stream, n + 1, q, Goings(c), b)
    BY <1>1, <1>3
  <2>2. Answers(Tail(Stream), n, q, Goings(c), b)
    BY <1>0, <2>1, AnswersFed
  <2>. QED
    BY <1>2, <2>2
<1>4. ASSUME Continues(Stream, 0, q, c)
      PROVE  /\ Head(batch).key = q => Head(batch) \in Goings(c)
             /\ Head(batch).key # q => Continues(Stream, 0, q, c)'
  <2>1. Answers(Stream, 0, q, Goings(c), b)
    BY <1>1, <1>4
  <2>2. /\ Stream[1].key = q => Stream[1] \in Goings(c)
        /\ Stream[1].key # q => Answers(Tail(Stream), 0, q, Goings(c), b)
    BY <1>0, <2>1, AnswersFirst
  <2>. QED
    BY <1>0, <1>2, <2>2
<1>. QED
  BY <1>3, <1>4

\* So does what begins a gesture.
LEMMA FedBegins ==
  ASSUME TypeOK, batch # <<>>, batch' = Tail(batch), typed' = typed, down' = down, NEW q
  PROVE  /\ \A n \in Nat : Begins(Stream, n + 1, q) => Begins(Stream, n, q)'
         /\ Begins(Stream, 0, q) =>
              /\ Head(batch).key = q => Head(batch) \in Presses
              /\ Head(batch).key # q => Begins(Stream, 0, q)'
<1> DEFINE b == q \notin down
<1>0. /\ Stream \in Seq(Events) /\ Stream # <<>> /\ Stream[1] = Head(batch)
      /\ Stream' = Tail(Stream)
  BY FedShape
<1>1. \A n \in Nat : Begins(Stream, n, q) <=> Answers(Stream, n, q, Presses, b)
  BY DEF Begins
<1>2. \A n \in Nat : Begins(Stream, n, q)' <=> Answers(Tail(Stream), n, q, Presses, b)
  BY <1>0 DEF Begins
<1> HIDE DEF b
<1>3. ASSUME NEW n \in Nat, Begins(Stream, n + 1, q) PROVE Begins(Stream, n, q)'
  <2>1. Answers(Stream, n + 1, q, Presses, b)
    BY <1>1, <1>3
  <2>2. Answers(Tail(Stream), n, q, Presses, b)
    BY <1>0, <2>1, AnswersFed
  <2>. QED
    BY <1>2, <2>2
<1>4. ASSUME Begins(Stream, 0, q)
      PROVE  /\ Head(batch).key = q => Head(batch) \in Presses
             /\ Head(batch).key # q => Begins(Stream, 0, q)'
  <2>1. Answers(Stream, 0, q, Presses, b)
    BY <1>1, <1>4
  <2>2. /\ Stream[1].key = q => Stream[1] \in Presses
        /\ Stream[1].key # q => Answers(Tail(Stream), 0, q, Presses, b)
    BY <1>0, <2>1, AnswersFirst
  <2>. QED
    BY <1>0, <1>2, <2>2
<1>. QED
  BY <1>3, <1>4

\* What the filter does with the event in hand, whatever it decides.
LEMMA Feeds ==
  ASSUME RecordInv, FilterInput
  PROVE  /\ TypeOK /\ batch # <<>> /\ batch' = Tail(batch) /\ UNCHANGED <<typed, down, current>>
         /\ UNCHANGED <<blocked, disabled>> /\ at = "decide" /\ at' \in {"feed", "signal"}
         /\ odd \subseteq odd' /\ odd' \subseteq odd \cup {"overlap"}
         /\ Head(batch) \in Events /\ Head(batch).key \in Keys
         /\ \A q \in Keys : fate'[q] = "up" =>
              \/ fate[q] = "up" /\ Head(batch).key # q
              \/ Head(batch).kind = "release" /\ Head(batch).key = q
<1> DEFINE e == Head(batch)
<1>0. TypeOK /\ batch # <<>> /\ at = "decide"
  BY DEF RecordInv, FilterInput
<1>1. PICK to \in {"old", "host", "guest", "quoted"}, destination \in {"guest", "host", "nowhere"} :
        Goes(e, to, destination) /\ at' \in {"feed", "signal"}
  BY DEF FilterInput, Decide, Consumed, ToGuest
<1>2. e \in Events
  BY <1>0, HeadTailProperties DEF TypeOK
<1>3. e.key \in Keys
  BY <1>2 DEF Events
<1>4. ASSUME NEW q \in Keys, fate'[q] = "up"
      PROVE  (fate[q] = "up" /\ e.key # q) \/ (e.kind = "release" /\ e.key = q)
  <2>1. fate' = [fate EXCEPT ![e.key] = IF e.kind = "release" THEN "up" ELSE Gesture(e, to)]
    BY <1>1 DEF Goes
  <2>2. Gesture(e, to) # "up"
    BY DEF Gesture
  <2> HIDE DEF e
  <2>. QED
    BY <1>0, <1>3, <1>4, <2>1, <2>2 DEF TypeOK
<1>. QED
  BY <1>0, <1>1, <1>2, <1>3, <1>4 DEF FilterInput, Goes, host, ends

\* The filter keeps what the stream tells.
LEMMA FilterStream ==
  ASSUME RecordInv, StreamInv, FilterInput
  PROVE  StreamInv'
<1>0. /\ TypeOK /\ batch # <<>> /\ batch' = Tail(batch) /\ UNCHANGED <<typed, down>>
      /\ at' \in {"feed", "signal"}
      /\ "unseen" \notin odd' => "unseen" \notin odd
      /\ Unmixed' => Unmixed
  BY Feeds DEF Unmixed
<1>1. \A i \in DOMAIN Stream' : /\ i \in Nat /\ i + 1 \in DOMAIN Stream
                                /\ Stream'[i] = Stream[i + 1]
  BY <1>0, FedShape
<1>2. Stream \in Seq(Events) /\ Stream # <<>> /\ Stream[1] = Head(batch) /\ 1 \in DOMAIN Stream
  <2>1. Stream \in Seq(Events) /\ Stream # <<>> /\ Stream[1] = Head(batch)
    BY <1>0, FedShape
  <2>2. Len(Stream) \in Nat /\ Len(Stream) # 0 /\ DOMAIN Stream = 1 .. Len(Stream)
    BY <2>1, EmptySeq, LenProperties
  <2>. QED
    BY <2>1, <2>2
<1>3. ASSUME "unseen" \notin odd', NEW n \in DOMAIN Stream', Stream'[n].kind = "release"
      PROVE  Begins(Stream, n, Stream[n].key)'
  <2>1. n \in Nat /\ n + 1 \in DOMAIN Stream /\ Stream'[n] = Stream[n + 1]
    BY <1>1, <1>3
  <2>2. PICK q : q = Stream[n + 1].key
    OBVIOUS
  <2>3. Begins(Stream, n + 1, q)
    BY <1>0, <1>3, <2>1, <2>2 DEF StreamInv
  <2>4. Begins(Stream, n, q)'
    BY <1>0, <2>1, <2>3, FedBegins
  <2>. QED
    BY <2>1, <2>2, <2>4 DEF Begins
<1>4. ASSUME "unseen" \notin odd', NEW q \in Keys, fate'[q] = "up"
      PROVE  Begins(Stream, 0, q)'
  <2>1. CASE fate[q] = "up" /\ Head(batch).key # q
    <3>1. Begins(Stream, 0, q)
      BY <1>0, <1>4, <2>1 DEF StreamInv
    <3>. QED
      BY <1>0, <2>1, <3>1, FedBegins
  <2>2. CASE Head(batch).kind = "release" /\ Head(batch).key = q
    <3>1. Begins(Stream, 1, q)
      BY <1>0, <1>2, <1>4, <2>2 DEF StreamInv
    <3>2. 1 = 0 + 1 /\ 0 \in Nat
      OBVIOUS
    <3>3. Begins(Stream, 0 + 1, q)
      BY <3>1, <3>2
    <3>. QED
      BY <1>0, <3>2, <3>3, FedBegins
  <2>. QED
    BY <1>4, <2>1, <2>2, Feeds
<1>5. ASSUME Unmixed', NEW n \in DOMAIN Stream', Stream'[n].kind # "release",
             Stream'[n].key \in Chars
      PROVE  Continues(Stream, n, Stream[n].key, Stream[n].control)'
  <2>1. n \in Nat /\ n + 1 \in DOMAIN Stream /\ Stream'[n] = Stream[n + 1]
    BY <1>1, <1>5
  <2>0. Stream[n + 1].control \in BOOLEAN
    <3>1. Stream[n + 1] \in Events
      BY <1>2, <2>1, ElementOfSeq
    <3>. QED
      BY <3>1 DEF Events
  <2>2. PICK q : q = Stream[n + 1].key
    OBVIOUS
  <2>3. PICK c \in BOOLEAN : c = Stream[n + 1].control
    BY <2>0
  <2>4. Continues(Stream, n + 1, q, c)
    BY <1>0, <1>5, <2>1, <2>2, <2>3 DEF StreamInv
  <2>5. Continues(Stream, n, q, c)'
    BY <1>0, <2>1, <2>4, FedContinues
  <2>. QED
    BY <2>1, <2>2, <2>3, <2>5 DEF Continues
<1>. QED
  BY <1>0, <1>3, <1>4, <1>5 DEF StreamInv

\* A read moves events within the stream.
LEMMA ReadStream ==
  ASSUME RecordInv, StreamInv, ReadEvents
  PROVE  Stream' = Stream
<1> DEFINE n == IF Len(typed) < BatchSize THEN Len(typed) ELSE BatchSize
<1>0. TypeOK /\ batch = <<>> /\ typed \in Seq(Events) /\ typed # <<>>
  BY DEF RecordInv, StreamInv, ReadEvents, TypeOK
<1>1. Len(typed) \in Nat /\ Len(typed) # 0 /\ n \in 1 - 1 .. Len(typed)
      /\ 1 \in 1 .. Len(typed) + 1 /\ Len(typed) \in n .. Len(typed)
  <2>1. Len(typed) \in Nat /\ Len(typed) # 0
    BY <1>0, EmptySeq, LenProperties
  <2>. QED
    BY <2>1, BoundsAssumption
<1>2. batch' = SubSeq(typed, 1, n) /\ typed' = SubSeq(typed, n + 1, Len(typed))
  BY DEF ReadEvents
<1> HIDE DEF n
<1>3. SubSeq(typed, 1, n) \o SubSeq(typed, n + 1, Len(typed)) = SubSeq(typed, 1, Len(typed))
  BY <1>0, <1>1, ConcatAdjacentSubSeq
<1>4. SubSeq(typed, 1, Len(typed)) = typed
  BY <1>0, SubSeqFull
<1>5. <<>> \o typed = typed
  BY <1>0, ConcatEmptySeq
<1>. QED
  BY <1>0, <1>2, <1>3, <1>4, <1>5 DEF Stream

\* What neither types nor feeds keeps what the stream tells.
LEMMA StreamStays ==
  ASSUME StreamInv, Stream' = Stream, down' = down, odd' = odd,
         \A k \in Keys : fate'[k] = "up" => fate[k] = "up",
         at' \in {"feed", "decide", "signal"} \/ batch' = <<>>
  PROVE  StreamInv'
<1>3. Unmixed' <=> Unmixed
  BY DEF Unmixed
<1>4. "unseen" \notin odd' =>
       /\ \A n \in DOMAIN Stream' : Stream'[n].kind = "release" =>
            Answers(Stream', n, Stream'[n].key, Presses, Stream'[n].key \notin down')
       /\ \A k \in Keys : fate'[k] = "up" => Answers(Stream', 0, k, Presses, k \notin down')
  BY DEF StreamInv, Begins
<1>5. Unmixed' =>
       \A n \in DOMAIN Stream' : Stream'[n].kind # "release" /\ Stream'[n].key \in Chars =>
         Answers(Stream', n, Stream'[n].key, Goings(Stream'[n].control),
                 Stream'[n].key \in down' /\ (Control \in down' <=> Stream'[n].control))
  BY <1>3 DEF StreamInv, Continues
<1>. QED
  BY <1>4, <1>5 DEF StreamInv, Begins, Continues

\* A step that neither types nor feeds leaves the held keys' promise, or releases them.
LEMMA QuietHeld ==
  ASSUME HeldInv, Stream' = Stream, UNCHANGED <<down, filter, fate, odd>>,
         held_keys' \subseteq held_keys, Served' => Served \/ held_keys' = {}
  PROVE  (Served /\ odd = {} =>
            \A k \in held_keys : /\ fate[k] # "up"
                                 /\ k \in Chords => filter.quoted = k \/ Continues(Stream, 0, k, FALSE))'
BY DEF HeldInv, Continues

\* Nor does it change where a gesture went, as long as what has expired stays so.
LEMMA QuietSides ==
  ASSUME SidesInv, Stream' = Stream, UNCHANGED <<down, filter, fate, odd>>,
         Expired => Expired', (at = "signal" /\ blocked => "filter" \notin current)'
  PROVE  SidesInv'
BY DEF SidesInv, Continues, Unmixed

\* A key that is typed changes neither.
LEMMA TypingKeys ==
  ASSUME KeysInv, NEW kind \in {"press", "repeat", "release"}, NEW k \in Keys,
         Typing(kind, k), Types(kind, k)
  PROVE  HeldInv' /\ SidesInv' /\ GesturesKeepSides'
<1>0. /\ TypeOK /\ HeldInv /\ SidesInv /\ GesturesKeepSides
      /\ Stream \in Seq(Events) /\ 0 <= Len(Stream) /\ 0 \in Nat
  <2>1. TypeOK /\ HeldInv /\ SidesInv /\ GesturesKeepSides
    BY DEF KeysInv, RecordInv
  <2>2. Stream \in Seq(Events)
    BY <2>1, StreamShape
  <2>. QED
    BY <2>1, <2>2
<1>1. /\ UNCHANGED <<blocked, disabled, current, running, at, batch, filter, held_keys, fate, outcome>>
      /\ odd \subseteq odd'
  BY DEF Typing, ends, worker
<1>2. Chords \subseteq Chars /\ Quote \in Chars
  BY DEF Chords, Chars
<1>3. ASSUME Unmixed', NEW q \in Chars, NEW c \in BOOLEAN, Continues(Stream, 0, q, c)
      PROVE  Continues(Stream, 0, q, c)'
  BY <1>0, <1>3, TypedContinues DEF Unmixed
<1>4. HeldInv'
  <2>1. ASSUME Served', odd' = {}, NEW q \in held_keys'
        PROVE  /\ fate'[q] # "up"
               /\ q \in Chords => filter'.quoted = q \/ Continues(Stream, 0, q, FALSE)'
    <3>1. Served /\ odd = {} /\ q \in held_keys /\ Unmixed'
      BY <1>1, <2>1 DEF Served, Unmixed
    <3>2. /\ fate[q] # "up"
          /\ q \in Chords => filter.quoted = q \/ Continues(Stream, 0, q, FALSE)
      BY <1>0, <3>1 DEF HeldInv
    <3>. QED
      BY <1>1, <1>2, <1>3, <3>1, <3>2
  <2>. QED
    BY <1>0, <1>1, <2>1 DEF HeldInv, Served
<1>5. SidesInv'
  <2>1. ASSUME Unmixed', NEW q \in Keys, fate'[q] = "host"
        PROVE  \/ Expired'
               \/ /\ q = Quote /\ filter'.quoted # Quote /\ (filter'.prefix \/ ~filter'.literal)
                  /\ Continues(Stream, 0, q, TRUE)'
    <3>1. Unmixed
      BY <1>1, <2>1 DEF Unmixed
    <3>2. \/ Expired
          \/ /\ q = Quote /\ filter.quoted # Quote /\ (filter.prefix \/ ~filter.literal)
             /\ Continues(Stream, 0, q, TRUE)
      BY <1>0, <1>1, <2>1, <3>1 DEF SidesInv
    <3>. QED
      BY <1>1, <1>2, <1>3, <2>1, <3>2 DEF Expired
  <2>2. "overlap" \notin odd' => \A q \in Keys : fate'[q] = "quoted" => filter'.quoted = q
    BY <1>0, <1>1 DEF SidesInv
  <2>3. /\ at' = "signal" /\ blocked' => "filter" \notin current'
        /\ filter'.suppressed # {} => Expired'
    BY <1>0, <1>1 DEF SidesInv, Expired
  <2>. QED
    BY <2>1, <2>2, <2>3 DEF SidesInv
<1>6. GesturesKeepSides'
  BY <1>0, <1>1 DEF GesturesKeepSides, HostStaysHost, QuotedGoesToGuest
<1>. QED
  BY <1>4, <1>5, <1>6

\* The filter's own epoch: gestures and what was quoted are forgotten with it.
LEMMA EpochKeys ==
  ASSUME KeysInv, FilterEpoch
  PROVE  StreamInv' /\ HeldInv' /\ SidesInv' /\ GesturesKeepSides'
<1>0. TypeOK /\ StreamInv /\ HeldInv /\ SidesInv /\ GesturesKeepSides
  BY DEF KeysInv, RecordInv
<1>1. /\ UNCHANGED <<down, typed, blocked, disabled, running, batch, held_keys, odd>>
      /\ at = "feed" /\ at' = "decide" /\ current' = current \cup {"filter"}
      /\ outcome' = NoOutcome /\ Stream' = Stream
  BY DEF FilterEpoch, host, Stream
<1>2. \A k \in Keys : /\ fate'[k] = "up" <=> fate[k] = "up"
                      /\ fate'[k] \in {fate[k], "old"}
  BY <1>0 DEF FilterEpoch, TypeOK
<1>3. StreamInv'
  BY <1>0, <1>1, <1>2, StreamStays
<1>4. CASE "filter" \in current
  <2>1. filter' = filter /\ fate' = fate /\ current' = current
    BY <1>1, <1>4 DEF FilterEpoch
  <2>2. ~Expired /\ ~Expired' /\ filter.suppressed = {}
    BY <1>0, <1>1, <1>4 DEF Expired, SidesInv
  <2>3. Served' <=> Served
    BY <1>1, <2>1 DEF Served
  <2>4. HeldInv'
    BY <1>0, <1>1, <1>4, <2>1, <2>3 DEF HeldInv, Continues
  <2>5. SidesInv'
    BY <1>0, <1>1, <2>1, <2>2 DEF SidesInv, Continues, Unmixed
  <2>. QED
    BY <1>1, <1>3, <2>4, <2>5 DEF GesturesKeepSides, HostStaysHost, QuotedGoesToGuest, NoOutcome
<1>5. CASE "filter" \notin current
  <2>1. filter' = NoFilter /\ \A k \in Keys : fate'[k] \in {"up", "old"}
    BY <1>0, <1>5 DEF FilterEpoch, TypeOK
  <2>2. Served' => held_keys' = {}
    BY <1>0, <1>1, <1>5 DEF Served, HeldInv
  <2>4. HeldInv'
    BY <1>0, <1>1, <2>2 DEF HeldInv
  <2>5. SidesInv'
    BY <1>1, <2>1 DEF SidesInv, NoFilter
  <2>. QED
    BY <1>1, <1>3, <2>4, <2>5 DEF GesturesKeepSides, HostStaysHost, QuotedGoesToGuest, NoOutcome
<1>. QED
  BY <1>4, <1>5

\* The event in hand is of the gesture that its key's events go on with.
LEMMA InHand ==
  ASSUME KeysInv, FilterInput, NEW e, e = Head(batch)
  PROVE  /\ e \in Events /\ e.key \in Keys /\ e.control \in BOOLEAN
         /\ e.kind \in {"press", "repeat", "release"}
         /\ Decide(e) /\ filter.suppressed = {} /\ ~Expired
         /\ "unseen" \notin odd /\ fate[e.key] = "up" => e.kind = "press"
         /\ Unmixed => \A q \in Keys, c \in BOOLEAN :
              Continues(Stream, 0, q, c) =>
                /\ e.key # q => Continues(Stream, 0, q, c)'
                /\ e.key = q => e.kind # "press" /\ (e.control <=> c)
         /\ Unmixed /\ e.key \in Chars /\ e.kind # "release" =>
              Continues(Stream, 0, e.key, e.control)'
<1>0. TypeOK /\ StreamInv /\ HeldInv /\ SidesInv /\ RecordInv
  BY DEF KeysInv, RecordInv
<1>1. /\ batch # <<>> /\ batch' = Tail(batch) /\ UNCHANGED <<typed, down>> /\ at = "decide"
      /\ e \in Events
  BY <1>0, Feeds
<1>2. /\ e.key \in Keys /\ e.control \in BOOLEAN /\ e.kind \in {"press", "repeat", "release"}
  BY <1>1 DEF Events
<1>3. Decide(e)
  BY DEF FilterInput
<1>4. filter.suppressed = {} /\ ~Expired
  BY <1>0, <1>1 DEF SidesInv, Expired
<1>5. ASSUME "unseen" \notin odd, fate[e.key] = "up" PROVE e.kind = "press"
  <2>1. Begins(Stream, 0, e.key)
    BY <1>0, <1>2, <1>5 DEF StreamInv
  <2>2. e \in Presses
    BY <1>0, <1>1, <2>1, FedBegins
  <2>. QED
    BY <2>2 DEF Presses
<1>6. ASSUME Unmixed, NEW q \in Keys, NEW c \in BOOLEAN, Continues(Stream, 0, q, c)
      PROVE  /\ e.key # q => Continues(Stream, 0, q, c)'
             /\ e.key = q => e.kind # "press" /\ (e.control <=> c)
  <2>1. /\ Head(batch).key = q => Head(batch) \in Goings(c)
        /\ Head(batch).key # q => Continues(Stream, 0, q, c)'
    BY <1>0, <1>1, <1>6, FedContinues
  <2>. QED
    BY <2>1 DEF Goings
<1>7. ASSUME Unmixed, e.key \in Chars, e.kind # "release"
      PROVE  Continues(Stream, 0, e.key, e.control)'
  <2>1. Stream \in Seq(Events) /\ Stream # <<>> /\ Stream[1] = e /\ 1 \in DOMAIN Stream
    <3>1. Stream \in Seq(Events) /\ Stream # <<>> /\ Stream[1] = e
      BY <1>0, <1>1, FedShape
    <3>2. Len(Stream) \in Nat /\ Len(Stream) # 0 /\ DOMAIN Stream = 1 .. Len(Stream)
      BY <3>1, EmptySeq, LenProperties
    <3>. QED
      BY <3>1, <3>2
  <2>2. Continues(Stream, 1, e.key, e.control)
    BY <1>0, <1>7, <2>1 DEF StreamInv
  <2>3. 1 = 0 + 1 /\ 0 \in Nat
    OBVIOUS
  <2>4. Continues(Stream, 0 + 1, e.key, e.control)
    BY <2>2, <2>3
  <2>. QED
    BY <1>0, <1>1, <1>2, <2>3, <2>4, FedContinues
<1>. QED
  BY <1>1, <1>2, <1>3, <1>4, <1>5, <1>6, <1>7

\* The nine things that the filter can do with an event, and what each leaves of its state.
Keeps(fields) ==
  /\ "literal" \in fields => (filter'.literal <=> filter.literal)
  /\ "quoted" \in fields => filter'.quoted = filter.quoted
  /\ "prefix" \in fields => (filter'.prefix <=> filter.prefix)
  /\ "suppressed" \in fields => filter'.suppressed = filter.suppressed
Loses(e) ==
  /\ disabled \/ blocked
  /\ Goes(e, "old", "nowhere") /\ UNCHANGED <<filter, held_keys>> /\ at' = "feed"
QuotesOn(e) ==
  /\ Quoting(e) /\ ToGuest(e, "quoted") /\ Keeps({"literal", "prefix", "suppressed"})
  /\ filter'.quoted = IF e.kind = "release" THEN None ELSE filter.quoted
TakesPrefix(e) ==
  /\ ~Quoting(e) /\ Prefixed(e) /\ Consumed(e, "host")
  /\ Keeps({"literal", "quoted", "suppressed"}) /\ (e.kind # "release" => filter' = filter)
StartsQuote(e) ==
  /\ ~Quoting(e) /\ ~Prefixed(e) /\ Quotes(e) /\ ToGuest(e, "quoted")
  /\ filter'.quoted = e.key /\ ~filter'.literal /\ Keeps({"prefix", "suppressed"})
TakesQuote(e) ==
  /\ ~Quoting(e) /\ ~Prefixed(e) /\ ~Quotes(e) /\ QuoteKey(e) /\ Consumed(e, "host")
  /\ Keeps({"quoted", "suppressed"})
  /\ IF e.kind = "press" THEN filter'.prefix ELSE filter' = filter
EndsHost(e) ==
  /\ ~Quoting(e) /\ HostKey(e) /\ e.kind = "release" /\ Consumed(e, "host")
  /\ Keeps({"literal", "quoted", "prefix"}) /\ filter'.suppressed = filter.suppressed \ {e.key}
RepeatsHost(e) ==
  /\ ~Quoting(e) /\ HostKey(e) /\ e.kind # "release"
  /\ e.kind = "repeat" \/ e.key \in filter.suppressed
  /\ Consumed(e, "host") /\ filter' = filter
Signals(e) ==
  /\ ~Quoting(e) /\ HostKey(e) /\ e.kind = "press" /\ Goes(e, "host", "host") /\ UNCHANGED held_keys
  /\ Keeps({"literal", "quoted", "prefix"}) /\ at' = "signal" /\ ~blocked
Passes(e) ==
  /\ ~Quoting(e) /\ ~QuoteKey(e) /\ ~HostKey(e) /\ ToGuest(e, "guest") /\ filter' = filter

\* The filter's decision is one of them.
LEMMA Decisions ==
  ASSUME TypeOK, NEW e \in Events, Decide(e)
  PROVE  \/ Loses(e) \/ QuotesOn(e) \/ TakesPrefix(e) \/ StartsQuote(e) \/ TakesQuote(e)
         \/ EndsHost(e) \/ RepeatsHost(e) \/ Signals(e) \/ Passes(e)
<1>0. /\ filter \in [literal : BOOLEAN, quoted : Keys \cup {None}, prefix : BOOLEAN,
                     suppressed : SUBSET HostKeys]
      /\ e.kind \in {"press", "repeat", "release"}
  BY DEF TypeOK, Events
<1>1. CASE disabled \/ blocked
  BY <1>1 DEF Decide, Loses
<1>2. CASE ~disabled /\ ~blocked /\ Quoting(e)
  <2>1. ToGuest(e, "quoted")
    BY <1>2 DEF Decide
  <2>2. filter' = IF e.kind = "release" THEN [filter EXCEPT !.quoted = None] ELSE filter
    BY <1>2 DEF Decide, EndsQuote
  <2>3. Keeps({"literal", "prefix", "suppressed"})
    BY <1>0, <2>2 DEF Keeps
  <2>4. filter'.quoted = IF e.kind = "release" THEN None ELSE filter.quoted
    BY <1>0, <2>2
  <2>. QED
    BY <1>2, <2>1, <2>3, <2>4 DEF QuotesOn
<1>3. CASE ~disabled /\ ~blocked /\ ~Quoting(e)
  <2>1. CASE Prefixed(e)
    <3>1. Consumed(e, "host")
      BY <1>3, <2>1 DEF Decide
    <3>2. filter' = IF e.kind = "release" THEN [filter EXCEPT !.prefix = FALSE] ELSE filter
      BY <1>3, <2>1 DEF Decide
    <3>3. Keeps({"literal", "quoted", "suppressed"})
      BY <1>0, <3>2 DEF Keeps
    <3>. QED
      BY <1>3, <2>1, <3>1, <3>2, <3>3 DEF TakesPrefix
  <2>2. CASE ~Prefixed(e) /\ Quotes(e)
    <3>1. ToGuest(e, "quoted") /\ filter' = [filter EXCEPT !.literal = FALSE, !.quoted = e.key]
      BY <1>3, <2>2 DEF Decide
    <3>2. filter'.quoted = e.key /\ ~filter'.literal /\ Keeps({"prefix", "suppressed"})
      BY <1>0, <3>1 DEF Keeps
    <3>. QED
      BY <1>3, <2>2, <3>1, <3>2 DEF StartsQuote
  <2>3. CASE ~Prefixed(e) /\ ~Quotes(e) /\ QuoteKey(e)
    <3>0. ~HostKey(e)
      BY <2>3, KeysAssumption DEF QuoteKey, HostKey
    <3>1. Consumed(e, "host")
      BY <1>3, <2>3, <3>0 DEF Decide
    <3>2. /\ e.kind = "press" => filter' = [filter EXCEPT !.literal = TRUE, !.prefix = TRUE]
          /\ e.kind # "press" => filter' = filter
      BY <1>3, <2>3, <3>0 DEF Decide
    <3>3. Keeps({"quoted", "suppressed"}) /\ (e.kind = "press" => filter'.prefix)
      BY <1>0, <3>2 DEF Keeps
    <3>. QED
      BY <1>3, <2>3, <3>1, <3>2, <3>3 DEF TakesQuote
  <2>4. CASE ~Prefixed(e) /\ ~Quotes(e) /\ ~QuoteKey(e) /\ HostKey(e)
    <3>1. CASE e.kind = "release"
      <4>1. Consumed(e, "host") /\ filter' = [filter EXCEPT !.suppressed = @ \ {e.key}]
        BY <1>3, <2>4, <3>1 DEF Decide
      <4>2. /\ Keeps({"literal", "quoted", "prefix"})
            /\ filter'.suppressed = filter.suppressed \ {e.key}
        BY <1>0, <4>1 DEF Keeps
      <4>. QED
        BY <1>3, <2>4, <3>1, <4>1, <4>2 DEF EndsHost
    <3>2. CASE e.kind # "release" /\ (e.kind = "repeat" \/ e.key \in filter.suppressed)
      BY <1>3, <2>4, <3>2 DEF Decide, RepeatsHost
    <3>3. CASE e.kind = "press" /\ e.key \notin filter.suppressed
      <4>1. /\ Goes(e, "host", "host") /\ at' = "signal" /\ UNCHANGED held_keys
            /\ filter' = [filter EXCEPT !.suppressed = @ \cup {e.key}]
        BY <1>3, <2>4, <3>3 DEF Decide
      <4>2. Keeps({"literal", "quoted", "prefix"})
        BY <1>0, <4>1 DEF Keeps
      <4>. QED
        BY <1>3, <2>4, <3>3, <4>1, <4>2 DEF Signals
    <3>. QED
      BY <1>0, <3>1, <3>2, <3>3
  <2>5. CASE ~Prefixed(e) /\ ~Quotes(e) /\ ~QuoteKey(e) /\ ~HostKey(e)
    BY <1>3, <2>5 DEF Decide, Passes
  <2>. QED
    BY <2>1, <2>2, <2>3, <2>4, <2>5
<1>. QED
  BY <1>1, <1>2, <1>3

\* Where an event's gesture went, after it.
LEMMA GoesFate ==
  ASSUME TypeOK, NEW e \in Events, NEW to, NEW destination, Goes(e, to, destination)
  PROVE  /\ \A q \in Keys : q # e.key => fate'[q] = fate[q]
         /\ e.kind = "release" => fate'[e.key] = "up"
         /\ e.kind # "release" => fate'[e.key] = outcome'.fate
         /\ e.kind = "press" \/ fate[e.key] = "up" => outcome'.fate = to
         /\ e.kind # "press" /\ fate[e.key] # "up" => outcome'.fate = fate[e.key]
         /\ outcome'.to = destination
<1>1. e.key \in Keys
  BY DEF Events
<1>2. /\ fate' = [fate EXCEPT ![e.key] = IF e.kind = "release" THEN "up" ELSE Gesture(e, to)]
      /\ outcome' = [fate |-> Gesture(e, to), to |-> destination]
  BY DEF Goes
<1>3. outcome'.fate = Gesture(e, to) /\ outcome'.to = destination
  BY <1>2
<1>4. /\ \A q \in Keys : q # e.key => fate'[q] = fate[q]
      /\ fate'[e.key] = IF e.kind = "release" THEN "up" ELSE Gesture(e, to)
  BY <1>1, <1>2 DEF TypeOK
<1>. QED
  BY <1>3, <1>4 DEF Gesture

\* While a current worker decides, the terminal is its own, and a held key's release finds it.
LEMMA FilterHeld ==
  ASSUME KeysInv, FilterInput
  PROVE  HeldInv'
<1>e. PICK e : e = Head(batch)
  OBVIOUS
<1>0. TypeOK /\ HeldInv /\ RecordInv
  BY DEF KeysInv, RecordInv
<1>1. /\ UNCHANGED <<blocked, disabled, current>> /\ at = "decide" /\ at' \in {"feed", "signal"}
      /\ odd \subseteq odd'
  BY <1>0, Feeds
<1>2. Served' => Served /\ "filter" \in current /\ ~blocked /\ ~disabled
  BY <1>0, <1>1 DEF HeldInv, Served
<1>3. /\ e \in Events /\ e.key \in Keys /\ e.control \in BOOLEAN
      /\ e.kind \in {"press", "repeat", "release"} /\ Decide(e)
      /\ Unmixed => \A q \in Keys, c \in BOOLEAN :
           Continues(Stream, 0, q, c) =>
             /\ e.key # q => Continues(Stream, 0, q, c)'
             /\ e.key = q => e.kind # "press" /\ (e.control <=> c)
      /\ Unmixed /\ e.key \in Chars /\ e.kind # "release" =>
           Continues(Stream, 0, e.key, e.control)'
  BY <1>e, InHand
<1>4. ASSUME Served', odd' = {}, NEW q \in held_keys'
      PROVE  /\ fate'[q] # "up"
             /\ q \in Chords => filter'.quoted = q \/ Continues(Stream, 0, q, FALSE)'
  <2>0. /\ Served /\ odd = {} /\ Unmixed /\ ~blocked /\ ~disabled
        /\ \A k \in held_keys : /\ k \in Keys /\ fate[k] # "up"
                                /\ k \in Chords => filter.quoted = k \/ Continues(Stream, 0, k, FALSE)
    BY <1>0, <1>1, <1>2, <1>4 DEF HeldInv, Unmixed, TypeOK
  <2>1. Chords \subseteq Chars /\ Control \notin Chars /\ None \notin Keys /\ Chars \subseteq Keys
    BY KeysAssumption DEF Chords, Chars, Keys, Control, Quote
  <2>2. "overlap" \notin odd'
    BY <1>4
  <2>3. filter'.quoted = filter.quoted \/ None \in {filter.quoted, filter'.quoted}
    BY <2>2 DEF FilterInput
  <2>4. /\ Loses(e) \/ QuotesOn(e) \/ TakesPrefix(e) \/ StartsQuote(e) \/ TakesQuote(e)
           \/ EndsHost(e) \/ RepeatsHost(e) \/ Signals(e) \/ Passes(e)
        /\ ~Loses(e)
    BY <1>0, <1>3, <2>0, Decisions DEF Loses
  <2>5. \/ ToGuest(e, "quoted") /\ (e.kind # "release" => filter'.quoted = e.key)
        \/ ToGuest(e, "guest") /\ ~Quoting(e) /\ ~QuoteKey(e) /\ ~HostKey(e) /\ filter' = filter
        \/ Goes(e, "host", "host") /\ UNCHANGED held_keys /\ ~Quoting(e) /\ (QuoteKey(e) \/ HostKey(e))
           /\ filter'.quoted = filter.quoted
    BY <2>4
       DEF QuotesOn, TakesPrefix, StartsQuote, TakesQuote, EndsHost, RepeatsHost, Signals, Passes,
           Quoting, Prefixed, Consumed, Keeps
  <2>6. PICK to \in {"quoted", "guest", "host"}, destination \in {"guest", "host", "nowhere"} :
          Goes(e, to, destination)
    BY <2>5 DEF ToGuest
  <2>7. /\ \A k \in Keys : k # e.key => fate'[k] = fate[k]
        /\ e.kind # "release" => fate'[e.key] = outcome'.fate
        /\ e.kind = "press" \/ fate[e.key] = "up" => outcome'.fate = to
        /\ e.kind # "press" /\ fate[e.key] # "up" => outcome'.fate = fate[e.key]
    BY <1>0, <1>3, <2>6, GoesFate
  <2>8. ASSUME q # e.key
        PROVE  /\ fate'[q] # "up"
               /\ q \in Chords => filter'.quoted = q \/ Continues(Stream, 0, q, FALSE)'
    <3>1. q \in held_keys
      BY <1>4, <2>5, <2>8 DEF ToGuest
    <3>2. q \in Keys /\ fate'[q] = fate[q] /\ fate[q] # "up"
      BY <2>0, <2>7, <2>8, <3>1
    <3>3. CASE q \in Chords /\ filter.quoted = q
      <4>1. filter'.quoted \in {filter.quoted, None} /\ ~Quoting(e)
        BY <2>1, <2>3, <2>8, <3>2, <3>3 DEF Quoting
      <4>2. filter'.quoted # None
        BY <1>3, <2>1, <2>4, <3>2, <3>3, <4>1
           DEF QuotesOn, TakesPrefix, StartsQuote, TakesQuote, EndsHost, RepeatsHost, Signals,
               Passes, Keeps
      <4>. QED
        BY <3>2, <3>3, <4>1, <4>2
    <3>4. CASE q \in Chords /\ Continues(Stream, 0, q, FALSE)
      <4>1. Continues(Stream, 0, q, FALSE)'
        BY <1>3, <2>0, <2>8, <3>2, <3>4
      <4>. QED
        BY <3>2, <4>1
    <3>. QED
      BY <2>0, <3>1, <3>2, <3>3, <3>4
  <2>9. ASSUME q = e.key
        PROVE  /\ fate'[q] # "up"
               /\ q \in Chords => filter'.quoted = q \/ Continues(Stream, 0, q, FALSE)'
    <3>1. CASE ToGuest(e, "quoted") /\ (e.kind # "release" => filter'.quoted = e.key)
      <4>1. e.kind # "release"
        BY <1>4, <2>9, <3>1 DEF ToGuest
      <4>2. Goes(e, "quoted", IF Full(e) THEN "nowhere" ELSE "guest")
        BY <3>1 DEF ToGuest
      <4>3. fate'[e.key] # "up"
        BY <1>0, <1>3, <4>1, <4>2, GoesFate
      <4>. QED
        BY <2>9, <3>1, <4>1, <4>3
    <3>2. CASE ToGuest(e, "guest") /\ ~Quoting(e) /\ ~QuoteKey(e) /\ ~HostKey(e) /\ filter' = filter
      <4>1. e.kind # "release"
        BY <1>4, <2>9, <3>2 DEF ToGuest
      <4>2. Goes(e, "guest", IF Full(e) THEN "nowhere" ELSE "guest")
        BY <3>2 DEF ToGuest
      <4>3. fate'[e.key] # "up"
        BY <1>0, <1>3, <4>1, <4>2, GoesFate
      <4>4. e.key \in Chords => e.key \in Chars /\ ~e.control
        BY <2>1, <3>2 DEF QuoteKey, HostKey, WithControl, Chords
      <4>5. ASSUME e.key \in Chords PROVE Continues(Stream, 0, e.key, FALSE)'
        <5>1. Continues(Stream, 0, e.key, e.control)' /\ e.control = FALSE
          BY <1>3, <2>0, <4>1, <4>4, <4>5
        <5>. QED
          BY <5>1 DEF Continues
      <4>. QED
        BY <2>9, <4>3, <4>5
    <3>3. CASE Goes(e, "host", "host") /\ UNCHANGED held_keys /\ ~Quoting(e)
               /\ (QuoteKey(e) \/ HostKey(e))
      <4>1. q \in held_keys /\ q \in Chords /\ e.control
        BY <1>4, <2>9, <3>3 DEF QuoteKey, HostKey, WithControl, Chords
      <4>2. filter.quoted # q
        BY <2>9, <3>3 DEF Quoting
      <4>3. q \in Keys /\ Continues(Stream, 0, q, FALSE)
        BY <2>0, <4>1, <4>2
      <4>4. FALSE
        BY <1>3, <2>0, <2>9, <4>1, <4>3
      <4>. QED
        BY <4>4
    <3>. QED
      BY <2>5, <3>1, <3>2, <3>3
  <2>. QED
    BY <2>8, <2>9
<1>5. /\ (at \in {"renew", "stopped"} => held_keys = {})'
      /\ (at \in {"feed", "decide", "signal"} /\ blocked => "worker" \notin current)'
      /\ (at = "decide" /\ Served => "filter" \in current)'
      /\ (Served /\ "filter" \notin current => held_keys = {})'
  BY <1>0, <1>1, <1>2 DEF HeldInv
<1>. QED
  BY <1>4, <1>5 DEF HeldInv

\* A gesture's repeats and releases follow its press.
LEMMA FilterSides ==
  ASSUME KeysInv, FilterInput
  PROVE  SidesInv' /\ GesturesKeepSides'
<1>e. PICK e : e = Head(batch)
  OBVIOUS
<1>0. TypeOK /\ SidesInv /\ RecordInv
  BY DEF KeysInv, RecordInv
<1>1. /\ UNCHANGED <<blocked, disabled, current>> /\ at = "decide" /\ at' \in {"feed", "signal"}
      /\ odd \subseteq odd' /\ odd' \subseteq odd \cup {"overlap"}
  BY <1>0, Feeds
<1>2. /\ e \in Events /\ e.key \in Keys /\ e.control \in BOOLEAN
      /\ e.kind \in {"press", "repeat", "release"} /\ Decide(e)
      /\ filter.suppressed = {} /\ ~Expired
      /\ "unseen" \notin odd /\ fate[e.key] = "up" => e.kind = "press"
      /\ Unmixed => \A q \in Keys, c \in BOOLEAN :
           Continues(Stream, 0, q, c) =>
             /\ e.key # q => Continues(Stream, 0, q, c)'
             /\ e.key = q => e.kind # "press" /\ (e.control <=> c)
      /\ Unmixed /\ e.key \in Chars /\ e.kind # "release" =>
           Continues(Stream, 0, e.key, e.control)'
  BY <1>e, InHand
<1>3. /\ Control \notin Chars /\ None \notin Keys /\ Quote \in Chars /\ Quote \in Keys
      /\ Quote \notin HostKeys
  BY KeysAssumption DEF Chars, Keys, Control, Quote
<1>4. \/ Loses(e) \/ QuotesOn(e) \/ TakesPrefix(e) \/ StartsQuote(e) \/ TakesQuote(e)
      \/ EndsHost(e) \/ RepeatsHost(e) \/ Signals(e) \/ Passes(e)
  BY <1>0, <1>2, Decisions
<1>5. "overlap" \notin odd' => filter'.quoted = filter.quoted \/ None \in {filter.quoted, filter'.quoted}
  BY DEF FilterInput
<1>6. Unmixed' <=> Unmixed
  BY <1>1 DEF Unmixed
<1>7. /\ Unmixed => \A k \in Keys : fate[k] = "host" =>
           /\ k = Quote /\ filter.quoted # Quote /\ (filter.prefix \/ ~filter.literal)
           /\ Continues(Stream, 0, k, TRUE)
      /\ "overlap" \notin odd => \A k \in Keys : fate[k] = "quoted" => filter.quoted = k
  BY <1>0, <1>2 DEF SidesInv
<1>8. Unmixed /\ fate[e.key] = "host" =>
        /\ e.key = Quote /\ filter.quoted # Quote /\ (filter.prefix \/ ~filter.literal)
        /\ e.kind # "press" /\ e.control
  BY <1>2, <1>7
\* Each decision's fate and destination.
<1> DEFINE Went(to, where) ==
      /\ \A q \in Keys : q # e.key => fate'[q] = fate[q]
      /\ e.kind = "release" => fate'[e.key] = "up"
      /\ e.kind # "release" => fate'[e.key] = outcome'.fate
      /\ e.kind = "press" \/ fate[e.key] = "up" => outcome'.fate = to
      /\ e.kind # "press" /\ fate[e.key] # "up" => outcome'.fate = fate[e.key]
      /\ outcome'.to \in where
<1>9. /\ Loses(e) => Went("old", {"nowhere"})
      /\ QuotesOn(e) \/ StartsQuote(e) => Went("quoted", {"guest", "nowhere"})
      /\ Passes(e) => Went("guest", {"guest", "nowhere"})
      /\ TakesPrefix(e) \/ TakesQuote(e) \/ EndsHost(e) \/ RepeatsHost(e) \/ Signals(e) =>
           Went("host", {"host"})
  <2>1. \A to, destination : Goes(e, to, destination) => Went(to, {destination})
    BY <1>0, <1>2, GoesFate
  <2>2. /\ Loses(e) => Goes(e, "old", "nowhere")
        /\ TakesPrefix(e) \/ TakesQuote(e) \/ EndsHost(e) \/ RepeatsHost(e) \/ Signals(e) =>
             Goes(e, "host", "host")
    BY DEF Loses, TakesPrefix, TakesQuote, EndsHost, RepeatsHost, Signals, Consumed
  <2>3. /\ QuotesOn(e) \/ StartsQuote(e) => \E d \in {"guest", "nowhere"} : Goes(e, "quoted", d)
        /\ Passes(e) => \E d \in {"guest", "nowhere"} : Goes(e, "guest", d)
    BY DEF QuotesOn, StartsQuote, Passes, ToGuest
  <2>. QED
    BY <2>1, <2>2, <2>3
<1>10. ASSUME Unmixed', NEW q \in Keys, fate'[q] = "host"
       PROVE  \/ Expired'
              \/ /\ q = Quote /\ filter'.quoted # Quote /\ (filter'.prefix \/ ~filter'.literal)
                 /\ Continues(Stream, 0, q, TRUE)'
  <2>1. CASE q # e.key
    <3>1. /\ fate[q] = "host" /\ q = Quote /\ filter.quoted # Quote
          /\ filter.prefix \/ ~filter.literal
          /\ Continues(Stream, 0, q, TRUE)
      BY <1>4, <1>6, <1>7, <1>9, <1>10, <2>1
    <3>2. Continues(Stream, 0, q, TRUE)'
      BY <1>2, <1>6, <1>10, <2>1, <3>1
    <3>3. filter'.quoted # Quote /\ (filter'.prefix \/ ~filter'.literal)
      BY <1>3, <1>4, <2>1, <3>1
         DEF Loses, QuotesOn, TakesPrefix, StartsQuote, TakesQuote, EndsHost, RepeatsHost, Signals,
             Passes, Keeps, Prefixed, QuoteKey
    <3>. QED
      BY <3>1, <3>2, <3>3
  <2>2. CASE q = e.key
    <3>0. Unmixed /\ e.kind # "release" /\ outcome'.fate = "host"
      BY <1>4, <1>6, <1>9, <1>10, <2>2
    <3>1. \/ Expired'
          \/ /\ e.key = Quote /\ e.control /\ filter'.quoted # Quote
             /\ filter'.prefix \/ ~filter'.literal
      <4>1. CASE Loses(e)
        BY <1>8, <1>9, <3>0, <4>1 DEF Loses
      <4>2. CASE QuotesOn(e)
        BY <1>8, <1>9, <3>0, <4>2 DEF QuotesOn, Quoting
      <4>3. CASE TakesPrefix(e)
        BY <3>0, <4>3 DEF TakesPrefix, Prefixed, QuoteKey, WithControl, Quoting
      <4>4. CASE StartsQuote(e)
        BY <1>2, <1>3, <1>8, <1>9, <3>0, <4>4 DEF StartsQuote, Prefixed, QuoteKey, WithControl, Quotes
      <4>5. CASE TakesQuote(e)
        BY <3>0, <4>5 DEF TakesQuote, QuoteKey, WithControl, Quoting, Quotes, Keeps
      <4>6. CASE RepeatsHost(e)
        BY <1>2, <1>3, <1>8, <1>9, <3>0, <4>6 DEF RepeatsHost, HostKey, Unmixed
      <4>7. CASE Signals(e)
        BY <4>7 DEF Signals, Expired
      <4>8. CASE Passes(e)
        BY <1>3, <1>8, <1>9, <3>0, <4>8 DEF Passes, QuoteKey, WithControl
      <4>9. ~EndsHost(e)
        BY <3>0 DEF EndsHost
      <4>. QED
        BY <1>4, <4>1, <4>2, <4>3, <4>4, <4>5, <4>6, <4>7, <4>8, <4>9
    <3>2. CASE /\ e.key = Quote /\ e.control /\ filter'.quoted # Quote
               /\ filter'.prefix \/ ~filter'.literal
      <4>1. Continues(Stream, 0, e.key, e.control)' /\ e.control = TRUE
        BY <1>2, <1>3, <3>0, <3>2
      <4>. QED
        BY <2>2, <3>2, <4>1 DEF Continues
    <3>. QED
      BY <3>1, <3>2
  <2>. QED
    BY <2>1, <2>2
<1>11. ASSUME "overlap" \notin odd', NEW q \in Keys, fate'[q] = "quoted"
       PROVE  filter'.quoted = q
  <2>0. /\ "overlap" \notin odd /\ \A k \in Keys : fate[k] = "quoted" => filter.quoted = k
        /\ filter'.quoted = filter.quoted \/ None \in {filter.quoted, filter'.quoted}
    BY <1>1, <1>5, <1>7, <1>11
  <2>1. CASE q # e.key
    <3>1. filter.quoted = q
      BY <1>4, <1>9, <1>11, <2>0, <2>1
    <3>. QED
      BY <1>2, <1>3, <1>4, <2>0, <2>1, <3>1
         DEF Loses, QuotesOn, TakesPrefix, StartsQuote, TakesQuote, EndsHost, RepeatsHost, Signals,
             Passes, Keeps, Quoting
  <2>2. CASE q = e.key
    <3>1. e.kind # "release" /\ outcome'.fate = "quoted"
      BY <1>4, <1>9, <1>11, <2>2
    <3>2. fate[e.key] = "quoted" => Quoting(e)
      BY <1>2, <2>0 DEF Quoting
    <3>3. ~(TakesPrefix(e) \/ TakesQuote(e) \/ EndsHost(e) \/ RepeatsHost(e) \/ Signals(e))
      <4>1. TakesPrefix(e) \/ TakesQuote(e) \/ EndsHost(e) \/ RepeatsHost(e) \/ Signals(e) =>
              ~Quoting(e)
        BY DEF TakesPrefix, TakesQuote, EndsHost, RepeatsHost, Signals
      <4>. QED
        BY <1>9, <3>1, <3>2, <4>1
    <3>4. ~Passes(e)
      BY <1>9, <3>1, <3>2 DEF Passes
    <3>5. CASE Loses(e)
      <4>1. fate[e.key] = "quoted"
        BY <1>9, <3>1, <3>5
      <4>. QED
        BY <2>2, <3>2, <3>5, <4>1 DEF Loses, Quoting
    <3>6. CASE QuotesOn(e) \/ StartsQuote(e)
      BY <2>2, <3>1, <3>6 DEF QuotesOn, StartsQuote, Quoting
    <3>. QED
      BY <1>4, <3>3, <3>4, <3>5, <3>6
  <2>. QED
    BY <2>1, <2>2
<1>12. /\ at' = "signal" /\ blocked' => "filter" \notin current'
       /\ filter'.suppressed # {} => Expired'
  <2>1. CASE Signals(e)
    BY <1>1, <2>1 DEF Signals, Expired
  <2>2. CASE Loses(e) \/ QuotesOn(e) \/ TakesPrefix(e) \/ StartsQuote(e) \/ TakesQuote(e)
             \/ EndsHost(e) \/ RepeatsHost(e) \/ Passes(e)
    <3>1. at' = "feed"
      BY <2>2 DEF Loses, QuotesOn, TakesPrefix, StartsQuote, TakesQuote, EndsHost, RepeatsHost,
                  Passes, ToGuest, Consumed
    <3>2. filter'.suppressed = {}
      BY <1>2, <2>2 DEF Loses, QuotesOn, TakesPrefix, StartsQuote, TakesQuote, EndsHost,
                        RepeatsHost, Passes, Keeps
    <3>. QED
      BY <3>1, <3>2
  <2>. QED
    BY <1>4, <2>1, <2>2
<1>13. SidesInv'
  BY <1>10, <1>11, <1>12 DEF SidesInv
<1>14. HostStaysHost'
  <2> SUFFICES ASSUME Unmixed, outcome'.fate = "host", outcome'.to = "guest" PROVE FALSE
    BY <1>6 DEF HostStaysHost, Unmixed
  <2>1. \/ QuotesOn(e) /\ Went("quoted", {"guest", "nowhere"})
        \/ StartsQuote(e) /\ Went("quoted", {"guest", "nowhere"})
        \/ Passes(e) /\ Went("guest", {"guest", "nowhere"})
    BY <1>4, <1>9
  <2>2. fate[e.key] = "host"
    BY <2>1
  <2>3. /\ e.key = Quote /\ filter.quoted # Quote /\ (filter.prefix \/ ~filter.literal)
        /\ e.kind # "press" /\ e.control
    BY <1>8, <2>2
  <2>. QED
    BY <1>3, <2>1, <2>3
       DEF QuotesOn, StartsQuote, Passes, Quoting, Prefixed, Quotes, QuoteKey, WithControl
<1>15. QuotedGoesToGuest'
  <2> SUFFICES ASSUME odd' \cap {"unseen", "overlap"} = {}, outcome'.fate = "quoted",
                      outcome'.to = "host"
               PROVE  FALSE
    BY DEF QuotedGoesToGuest
  <2>1. /\ TakesPrefix(e) \/ TakesQuote(e) \/ EndsHost(e) \/ RepeatsHost(e) \/ Signals(e)
        /\ Went("host", {"host"})
    BY <1>4, <1>9
  <2>2. fate[e.key] = "quoted" /\ "overlap" \notin odd
    BY <1>1, <2>1
  <2>3. filter.quoted = e.key
    BY <1>2, <1>7, <2>2
  <2>. QED
    BY <2>1, <2>3 DEF TakesPrefix, TakesQuote, EndsHost, RepeatsHost, Signals, Quoting
<1>. QED
  BY <1>13, <1>14, <1>15 DEF GesturesKeepSides

\* Nothing has been typed, nothing is held.
LEMMA KeysInit == Init => KeysInv
<1> SUFFICES ASSUME Init PROVE KeysInv
  OBVIOUS
<1>1. RecordInv
  BY RecordInit
<1>2. Stream = <<>> /\ DOMAIN Stream = {} /\ down = {}
  BY DEF Init, Stream
<1>3. \A k \in Keys : Begins(Stream, 0, k)
  BY <1>2 DEF Begins, Answers
<1>4. StreamInv
  BY <1>2, <1>3 DEF Init, StreamInv
<1>5. HeldInv
  BY DEF Init, HeldInv, NoFilter
<1>6. SidesInv
  BY DEF Init, SidesInv, NoFilter
<1>7. GesturesKeepSides
  BY DEF Init, GesturesKeepSides, HostStaysHost, QuotedGoesToGuest, NoOutcome
<1>. QED
  BY <1>1, <1>4, <1>5, <1>6, <1>7 DEF KeysInv

\* The terminal's owner and the worker between reads: nothing is typed, fed or decided.
LEMMA QuietStep ==
  ASSUME KeysInv,
         \/ Released \/ Restored \/ Disable \/ Stop \/ Start \/ Exit \/ Renew \/ Renewed \/ Go
         \/ EndsItself \/ Idle \/ ReadEvents \/ Fed \/ HostSignal \/ UNCHANGED vars
  PROVE  StreamInv' /\ HeldInv' /\ SidesInv' /\ GesturesKeepSides'
<1>0. TypeOK /\ RecordInv /\ StreamInv /\ HeldInv /\ SidesInv /\ GesturesKeepSides
  BY DEF KeysInv, RecordInv
<1>1. UNCHANGED <<down, filter, fate, odd>>
  BY DEF Released, Restored, Disable, Stop, Start, Exit, Renew, Renewed, Go, EndsItself, Idle,
         ReadEvents, Fed, HostSignal, vars, host, ghosts
<1>2. Stream' = Stream /\ (at' \in {"feed", "decide", "signal"} \/ batch' = <<>>)
  <2>1. CASE ReadEvents
    BY <1>0, <2>1, ReadStream DEF ReadEvents
  <2>2. CASE ~ReadEvents
    BY <1>0, <2>2
       DEF Released, Restored, Disable, Stop, Start, Exit, Renew, Renewed, Go, EndsItself, Idle,
           Fed, HostSignal, vars, host, worker, Stream, StreamInv
  <2>. QED
    BY <2>1, <2>2
<1>3. StreamInv'
  BY <1>0, <1>1, <1>2, StreamStays
<1>4. held_keys' \subseteq held_keys /\ (Served' => Served \/ held_keys' = {})
  BY <1>0
     DEF Released, Restored, Disable, Stop, Start, Exit, Renew, Renewed, Go, EndsItself, Idle,
         ReadEvents, Fed, HostSignal, vars, ends, NewGeneration, ReleaseGuestKeys, Served, HeldInv
<1>5. (Served /\ odd = {} =>
         \A k \in held_keys : /\ fate[k] # "up"
                              /\ k \in Chords => filter.quoted = k \/ Continues(Stream, 0, k, FALSE))'
  BY <1>0, <1>1, <1>2, <1>4, QuietHeld
<1>6. /\ (at \in {"renew", "stopped"} => held_keys = {})'
      /\ (at \in {"feed", "decide", "signal"} /\ blocked => "worker" \notin current)'
      /\ (at = "decide" /\ Served => "filter" \in current)'
      /\ (Served /\ "filter" \notin current => held_keys = {})'
  BY <1>0
     DEF Released, Restored, Disable, Stop, Start, Exit, Renew, Renewed, Go, EndsItself, Idle,
         ReadEvents, Fed, HostSignal, vars, ends, worker, NewGeneration, ReleaseGuestKeys, Served,
         HeldInv
<1>7. HeldInv'
  BY <1>5, <1>6 DEF HeldInv
<1>8. (Expired => Expired') /\ (at = "signal" /\ blocked => "filter" \notin current)'
  BY <1>0
     DEF Released, Restored, Disable, Stop, Start, Exit, Renew, Renewed, Go, EndsItself, Idle,
         ReadEvents, Fed, HostSignal, vars, ends, worker, NewGeneration, Expired, SidesInv
<1>9. SidesInv'
  BY <1>0, <1>1, <1>2, <1>8, QuietSides
<1>10. odd' = odd /\ outcome' \in {outcome, NoOutcome}
  BY DEF Released, Restored, Disable, Stop, Start, Exit, Renew, Renewed, Go, EndsItself, Idle,
         ReadEvents, Fed, HostSignal, vars, ghosts
<1>11. GesturesKeepSides'
  BY <1>0, <1>10 DEF GesturesKeepSides, HostStaysHost, QuotedGoesToGuest, NoOutcome
<1>. QED
  BY <1>3, <1>7, <1>9, <1>11

\* The person, the terminal's owner and the worker, in any order.
LEMMA KeysStep == KeysInv /\ [Next]_vars => KeysInv'
<1> SUFFICES ASSUME KeysInv, [Next]_vars PROVE KeysInv'
  OBVIOUS
<1>0. RecordInv /\ StreamInv
  BY DEF KeysInv
<1>1. RecordInv'
  BY <1>0, RecordStep
<1>2. StreamInv' /\ HeldInv' /\ SidesInv' /\ GesturesKeepSides'
  <2>1. ASSUME NEW k \in Keys, Press(k) \/ Repeat(k) \/ LetGo(k)
        PROVE  StreamInv' /\ HeldInv' /\ SidesInv' /\ GesturesKeepSides'
    <3>1. PICK kind \in {"press", "repeat", "release"} : Typing(kind, k) /\ Types(kind, k)
      BY <2>1 DEF Press, Repeat, LetGo, Types
    <3>. QED
      BY <1>0, <3>1, TypingStream, TypingKeys
  <2>2. CASE FilterEpoch
    BY <2>2, EpochKeys
  <2>3. CASE FilterInput
    BY <1>0, <2>3, FilterStream, FilterHeld, FilterSides
  <2>4. CASE \/ Released \/ Restored \/ Disable \/ Stop \/ Start \/ Exit \/ Renew \/ Renewed \/ Go
             \/ EndsItself \/ Idle \/ ReadEvents \/ Fed \/ HostSignal \/ UNCHANGED vars
    BY <2>4, QuietStep
  <2>. QED
    BY <2>1, <2>2, <2>3, <2>4 DEF Next, WorkerStep
<1>. QED
  BY <1>1, <1>2 DEF KeysInv

\* A worker that is ready to read, with no epoch to serve, has left no key pressed in
\* the guest whose release was read: whatever was quoted, consumed, or dropped while
\* the terminal was away, for any keys and any number of events in the queue, the read
\* and the record (tigt_terminal_filter_input, src/terminal.c 449-529, and the record of
\* src/tigt.c 826-870), as long as Ctrl goes up last and everything is read.
THEOREM StuckTheorem == Spec => []NoStuckKey
<1>1. KeysInv => NoStuckKey
  BY DEF KeysInv, HeldInv, Served, NoStuckKey
<1>. QED
  BY <1>1, KeysInit, KeysStep, PTL DEF Spec

\* A gesture that began as the host's gives the guest nothing as long as Ctrl goes up
\* last, and one that was quoted gives the host nothing until a second one is quoted
\* during it; both where the press was read.  The filter looks at each event's own
\* modifiers and keeps one quoted key only (tigt_terminal_filter_input).
THEOREM SidesTheorem == Spec => []GesturesKeepSides
<1>1. KeysInv => GesturesKeepSides
  BY DEF KeysInv
<1>. QED
  BY <1>1, KeysInit, KeysStep, PTL DEF Spec
=============================================================================
