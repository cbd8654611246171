------------------------------ MODULE Keyboard ------------------------------
(***************************************************************************)
(* The PC keyboard mapper: host key events to make and break transitions   *)
(* of guest keys.  A host source holds the chord it was mapped to; guest   *)
(* keys are counted by the sources that hold them, and a bare-asterisk     *)
(* chord (Shift+F13) hides the shifts from the guest while it is held.     *)
(*                                                                         *)
(* A host key is named by what the transport reports of it.  Each branch   *)
(* of the mapping keeps one or two of the keys that take it; scan-code     *)
(* bytes are left out, but not which guest keys share a position.          *)
(***************************************************************************)
EXTENDS Naturals, FiniteSets, SequencesExt

CONSTANTS Keys,         \* the reports a run may see
          Mods          \* the modifiers they may carry
ASSUME KeysAssumption == IsFiniteSet(Keys)

VARIABLES model,        \* "XT" or "AT"
          held,         \* source |-> [keys, command, suppress]
          counts,       \* guest key |-> how many sources hold it, if any
          shift_suppressions,
          host,         \* history: the host's keys that are down,
          guest,        \* the guest's keys that are down,
          positions,    \* and its positions,
          proper        \* as long as every transition was one
kvars == <<model, held, counts, shift_suppressions, host, guest, positions, proper>>

-----------------------------------------------------------------------------
(* Names.                                                                  *)
Shifts == {"L_SHIFT", "R_SHIFT"}
Position == [a |-> "A", A |-> "A", c |-> "C", five |-> "5", eight |-> "8", star |-> "8",
             one |-> "1", exclam |-> "1", grave |-> "GRAVE", tilde |-> "GRAVE", backslash |-> "BACKSLASH",
             space |-> "SPACE", tab |-> "TAB"]
CharKeys == DOMAIN Position \cup {"umlaut"}
Shifted == {"A", "star", "exclam", "tilde"}
Modifiers == [lshift |-> "L_SHIFT", rshift |-> "R_SHIFT", lctrl |-> "CTRL", lalt |-> "ALT",
              rctrl |-> "R_CTRL", ralt |-> "R_ALT", lsuper |-> "", rsuper |-> ""]
Named == [backspace |-> "BACKSPACE", enter |-> "ENTER", esc |-> "ESC", F1 |-> "F1",
          printscreen |-> "PRINT", scrolllock |-> "SCROLL", numlock |-> "NUMLOCK",
          begin |-> "KP_5", F13 |-> "KP_STAR", F14 |-> "SCROLL", F16 |-> "CAPS",
          F19 |-> "KP_STAR"]
Navigation == [left |-> <<"LEFT", "KP_4">>, delete |-> <<"DELETE", "KP_DEL">>]
IsModifier(k) == k \in DOMAIN Modifiers
Command == [five |-> <<"KP_5">>, eight |-> <<"KP_STAR">>, star |-> <<"KP_STAR">>,
            backslash |-> <<"NUMLOCK">>, c |-> <<"CTRL", "C">>]

(* source_id: press and release match by it.  The shifted digits have no   *)
(* case of their own and fall in with the unknown characters and Tab.      *)
source_id_cased(k) == IF k = "A" THEN "UPPER" ELSE k   \* the shifted letter is another key
source_id(k) == IF k \in {"exclam", "star", "tab", "umlaut"} THEN "OTHER_CHARACTER"
                ELSE IF k = "null" THEN "SPACE"
                ELSE IF k \in DOMAIN Position THEN Position[k] ELSE k

(* The host's key itself: it may report one character when it goes down    *)
(* and, Shift having changed, the other when it comes up.                  *)
HostKey(k) == IF k \in DOMAIN Position THEN Position[k] ELSE k

(* Guest keys at one position: the XT's Print Screen is its keypad's star. *)
PositionOf(id) == IF model = "XT" /\ id = "PRINT" THEN "KP_STAR" ELSE id

-----------------------------------------------------------------------------
(* The mapping of one report.                                              *)
command_mapping(k, mods) ==
  LET both == {"control", "shift"} \subseteq mods
      all == both /\ "alt" \in mods
  IN CASE k = "backspace" -> IF both THEN <<"CTRL", "SCROLL">> ELSE <<"SCROLL">>
       [] k = "backslash" -> IF ~both THEN <<"NUMLOCK">>
                             ELSE IF model = "AT" THEN <<"PAUSE">> ELSE <<"CTRL", "NUMLOCK">>
       [] k = "five" /\ all -> <<"KP_5">>
       [] k \in {"grave", "tilde"} /\ all /\ model = "AT" -> <<"SYSRQ">>
       [] k = "star" \/ (k = "eight" /\ "shift" \in mods) -> <<"PRINT">>
       [] OTHER -> <<>>

Chord(k, mods) ==
  LET super == "super" \in mods
  IN CASE IsModifier(k) -> IF Modifiers[k] = "" \/ (model = "XT" /\ k \in {"rctrl", "ralt"})
                           THEN <<>> ELSE <<Modifiers[k]>>
       [] k = "enter" /\ super -> <<"KP_INS">>
       [] k \in DOMAIN Navigation ->
            <<IF model = "AT" /\ ~super THEN Navigation[k][1] ELSE Navigation[k][2]>>
       [] k = "pause" -> IF model = "AT" THEN <<"PAUSE">> ELSE <<"CTRL", "NUMLOCK">>
       [] k = "F15" -> <<"CTRL", IF "control" \in mods THEN "SCROLL" ELSE "NUMLOCK">>
       [] k = "null" -> <<"CTRL", "SPACE">>
       [] k \in CharKeys -> IF super THEN IF k \in DOMAIN Command THEN Command[k] ELSE <<>>
                            ELSE IF k \in DOMAIN Position THEN <<Position[k]>> ELSE <<>>
       [] k \in DOMAIN Named -> <<Named[k]>>
       [] OTHER -> <<>>

(* prepend_simulated_modifiers: F13 turns the meaning of Shift around.     *)
Simulated(k, mods, chord) ==
  LET shift == IF k = "F13" THEN "shift" \notin mods ELSE "shift" \in mods \/ k \in Shifted
      missing(id, active) == IF active /\ id \notin ToSet(chord) THEN <<id>> ELSE <<>>
  IN missing("L_SHIFT", shift) \o missing("CTRL", "control" \in mods) \o missing("ALT", "alt" \in mods)

map_key(k, mods) ==
  LET command == IF "super" \in mods THEN command_mapping(k, mods) ELSE <<>>
      chord == Chord(k, mods)
  IN IF command # <<>> THEN command
     ELSE IF chord = <<>> \/ IsModifier(k) THEN chord
     ELSE Simulated(k, mods, chord) \o chord

-----------------------------------------------------------------------------
(* The mapper, as a record that the operations take and return, with the   *)
(* transitions they emit: <<guest key, "make" or "break">>, and "none" for *)
(* a key that is gone through and emits nothing.                           *)
Mapper == [held |-> held, counts |-> counts, suppressions |-> shift_suppressions, out |-> <<>>]
CountOf(m, id) == IF id \in DOMAIN m.counts THEN m.counts[id] ELSE 0
Emit(ids, told, what) == [i \in DOMAIN ids |-> <<ids[i], IF ids[i] \in told THEN what ELSE "none">>]
Told(m, out) == [held |-> m.held, counts |-> m.counts, suppressions |-> m.suppressions,
                 out |-> m.out \o out]
Visible(id, suppressions) == suppressions = 0 \/ id \notin Shifts
shift_transitions(m, what) == Emit(<<"L_SHIFT", "R_SHIFT">>, DOMAIN m.counts, what)

Uncounted(m, ids) ==
  LET left(id) == CountOf(m, id) - (IF id \in ids THEN 1 ELSE 0)
  IN [id \in {i \in DOMAIN m.counts : left(i) > 0} |-> left(id)]
Counted(m, ids) ==
  [id \in DOMAIN m.counts \cup ids |-> CountOf(m, id) + (IF id \in ids THEN 1 ELSE 0)]

AnyHolder(m, id) == TRUE               \* a shared key is broken with its first holder
LastHolder(m, id) == CountOf(m, id) = 1
release_source(m, s) ==
  IF s \notin DOMAIN m.held THEN m
  ELSE LET h == m.held[s]
           gone == {id \in ToSet(h.keys) : LastHolder(m, id) /\ Visible(id, m.suppressions)}
           n == [held |-> [x \in DOMAIN m.held \ {s} |-> m.held[x]],
                 counts |-> Uncounted(m, ToSet(h.keys)),
                 suppressions |-> m.suppressions - (IF h.suppress THEN 1 ELSE 0),
                 out |-> m.out \o Emit(h.keys, gone, "break")]
       IN IF h.suppress /\ n.suppressions = 0 THEN Told(n, shift_transitions(n, "make")) ELSE n

(* The order in which a hash map is walked: any. *)
ReleaseSources(m, order) ==
  LET released[n \in 0..Len(order)] ==
        IF n = 0 THEN m ELSE release_source(released[n - 1], order[n])
  IN released[Len(order)]

press(m, s, h) ==
  LET r == release_source(m, s)
      q == IF h.suppress /\ r.suppressions = 0 THEN Told(r, shift_transitions(r, "break")) ELSE r
      suppressions == r.suppressions + (IF h.suppress THEN 1 ELSE 0)
      made == {id \in ToSet(h.keys) : CountOf(r, id) = 0 /\ Visible(id, suppressions)}
  IN [held |-> [x \in DOMAIN r.held \cup {s} |-> IF x = s THEN h ELSE r.held[x]],
      counts |-> Counted(r, ToSet(h.keys)),
      suppressions |-> suppressions,
      out |-> q.out \o Emit(h.keys, made, "make")]

(* Implicit modifiers reuse a right-hand one that is already held. *)
Reused(m, k, ids) ==
  [i \in DOMAIN ids |->
     CASE ~IsModifier(k) /\ ids[i] = "CTRL" /\ CountOf(m, "CTRL") = 0 /\ CountOf(m, "R_CTRL") > 0
            -> "R_CTRL"
       [] ~IsModifier(k) /\ ids[i] = "ALT" /\ CountOf(m, "ALT") = 0 /\ CountOf(m, "R_ALT") > 0
            -> "R_ALT"
       [] OTHER -> ids[i]]

Mapping(m, k, mods) ==
  LET keys == Reused(m, k, map_key(k, mods))
  IN [keys |-> keys,
      command |-> "super" \in mods /\ keys # <<>> /\ ~IsModifier(k),
      suppress |-> k = "F13" /\ "shift" \in mods]

CommandSources(m) == {s \in DOMAIN m.held : m.held[s].command}

Unrepeated == Shifts \cup {"CTRL", "ALT", "R_CTRL", "R_ALT", "CAPS", "NUMLOCK", "SCROLL", "PRINT",
                           "PAUSE", "SYSRQ"}

-----------------------------------------------------------------------------
(* What is down after n transitions, by the last one of each key.          *)
Broken(out, id, m, n) == \E l \in (m + 1)..n : out[l] = <<id, "break">>
Down(out, n, was) ==
  {id \in was : ~Broken(out, id, 0, n)} \cup
  {out[i][1] : i \in {m \in 1..n : out[m][2] = "make" /\ ~Broken(out, out[m][1], m, n)}}
Placed(out) == [i \in DOMAIN out |-> <<PositionOf(out[i][1]), out[i][2]>>]
(* No key is made that is down, but by a repeat, and none broken that is up. *)
Alternates(out, was, repeats) ==
  \A i \in DOMAIN out : out[i][2] # "none" =>
    ((out[i][1] \in Down(out, i - 1, was)) <=> (out[i][2] = "break" \/ repeats))

After(m, repeats) ==
  /\ held' = m.held /\ counts' = m.counts /\ shift_suppressions' = m.suppressions
  /\ guest' = Down(m.out, Len(m.out), guest)
  /\ positions' = Down(Placed(m.out), Len(m.out), positions)
  /\ proper' = (proper /\ Alternates(m.out, guest, repeats))
  /\ UNCHANGED model

(* handle: the host presses a key, or reports it pressed again.            *)
Press(k, mods) == /\ After(press(Mapper, source_id(k), Mapping(Mapper, k, mods)), FALSE)
                  /\ host' = host \cup {HostKey(k)}

Release(k) ==
  /\ HostKey(k) \in host
  /\ host' = host \ {HostKey(k)}
  /\ LET r == release_source(Mapper, source_id(k))
     IN \E order \in SetToSeqs(IF k \in {"lsuper", "rsuper"} THEN CommandSources(r) ELSE {}) :
          After(ReleaseSources(r, order), FALSE)

RepeatEvents(k) ==
  LET s == source_id(k)
  IN IF s \in DOMAIN held /\ held[s].keys # <<>> /\ Last(held[s].keys) \notin Unrepeated
     THEN << <<Last(held[s].keys), "make">> >> ELSE <<>>
Repeat(k) == /\ After(Told(Mapper, RepeatEvents(k)), TRUE)
             /\ UNCHANGED host

(* release_all: focus is lost, or the session's generation changed.        *)
ReleaseAll == /\ \E order \in SetToSeqs(DOMAIN held) :
                   After(ReleaseSources(Mapper, order), FALSE)
              /\ host' = {}

KInit == /\ model \in {"XT", "AT"}
         /\ held = <<>> /\ counts = <<>> /\ shift_suppressions = 0
         /\ host = {} /\ guest = {} /\ positions = {} /\ proper = TRUE

KNext == \/ \E k \in Keys : \/ \E mods \in SUBSET Mods : Press(k, mods)
                            \/ Release(k)
                            \/ Repeat(k)
         \/ ReleaseAll
KSpec == KInit /\ [][KNext]_kvars

-----------------------------------------------------------------------------
(* The types of the state.                                                 *)
Sources == {source_id(k) : k \in Keys}
KTypeOK ==
  /\ DOMAIN held \subseteq Sources /\ shift_suppressions \in 0..1
  /\ \A s \in DOMAIN held : IsInjective(held[s].keys)
  /\ \A id \in DOMAIN counts : counts[id] \in 1..Cardinality(Sources)
  /\ host \subseteq {HostKey(k) : k \in Keys}

(* A guest key is counted once for every source that holds it, whatever    *)
(* was pressed again under other modifiers, released or lost in between.   *)
CountsAreHolders ==
  /\ \A id \in DOMAIN counts :
       counts[id] = Cardinality({s \in DOMAIN held : id \in ToSet(held[s].keys)})
  /\ \A s \in DOMAIN held : ToSet(held[s].keys) \subseteq DOMAIN counts
  /\ shift_suppressions = Cardinality({s \in DOMAIN held : held[s].suppress})

(* The keys that are down in the guest are those some source holds, but    *)
(* for the shifts while a bare-asterisk chord hides them: shared modifiers *)
(* survive their first holder and come back after the chord                *)
(* (docs/reference.md:447).                                                *)
GuestFollows == guest = DOMAIN counts \ (IF shift_suppressions > 0 THEN Shifts ELSE {})

(* A position that is down in the guest belongs to a key that some source  *)
(* holds; with no key of the host down, none is down in the guest.  Keys   *)
(* leaves out the shifted digits and symbols, where it is false: if Shift  *)
(* goes up first, the release is another source's and the position stays.  *)
NoStuckPosition ==
  /\ \A p \in positions : \E s \in DOMAIN held : p \in {PositionOf(id) : id \in ToSet(held[s].keys)}
  /\ host = {} => positions = {}

(* Makes and breaks alternate at the guest but for repeats, and a repeat   *)
(* makes no key that a release has broken ("cannot resurrect released      *)
(* keys", keyboard/tests/public_api.rs:107).                               *)
TransitionsAlternate == proper

(* What the guest holds is what the host's sources hold, count by count    *)
(* and transition by transition.                                           *)
HeldInGuest == KTypeOK /\ CountsAreHolders /\ GuestFollows /\ TransitionsAlternate
=============================================================================
