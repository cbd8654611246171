------------------------------ MODULE Decoder ------------------------------
(***************************************************************************)
(* The input decoder: terminal bytes, in fragments and with timeouts in    *)
(* between, to keys, pasted text and reports.                              *)
(*                                                                         *)
(* A byte is named by what the decoder tells apart: "esc", "[" and "O";    *)
(* "200", "201" and "n" for parameters, a run of digits being one of them; *)
(* "<" a private parameter and "sp" an intermediate byte; "~", "A", "u",   *)
(* "M" and "y" finals; "x" another printable, "ctl" a control byte, "lead" *)
(* and "cont" the two bytes of a UTF-8 character.                          *)
(***************************************************************************)
EXTENDS Naturals, SequencesExt

CONSTANTS Bytes,        \* those a run may see
          Capacity,     \* of the sequence buffer, without its terminator
          MaxPaste      \* bound on the bytes of one paste

\* The buffer holds the introducer of a control sequence.
ASSUME CapacityAssumption == Capacity \in Nat /\ Capacity >= 2

VARIABLES input,        \* sequence, discard_sequence, csi_intermediate,
                        \* legacy_remaining, paste, paste_end_length, utf8_remaining
          received,     \* history: the bytes of this paste,
          pasted,       \* the characters reported of it,
          literal,      \* as long as every paste was reported as it was
          raw,          \* history: the bytes since the last escape (saturated),
          damaged,      \* one of them does not belong to a sequence,
          whole         \* as long as only whole sequences were reported
dvars == <<input, received, pasted, literal, raw, damaged, whole>>

Parameters == {"200", "201", "n", "<"}
Marker == <<"esc", "[", "201", "~">>
Finals == {"[", "O", "~", "A", "u", "M", "y", "x"}

Ground == [sequence |-> <<>>, discard |-> FALSE, intermediate |-> FALSE, legacy |-> 0,
           paste |-> FALSE, ended |-> 0, utf8 |-> 0, out |-> <<>>]

-----------------------------------------------------------------------------
Report(i, e) == [i EXCEPT !.out = Append(@, e)]
Tap(i, b) == Report(i, <<"tap", b>>)
(* An unfinished UTF-8 character is reported as U+FFFD. *)
Utf8Cut(i) == IF i.utf8 = 0 THEN i ELSE Tap([i EXCEPT !.utf8 = 0], "U+FFFD")

handle_plain_key(i, b) ==
  IF i.utf8 > 0 /\ b = "cont"
  THEN LET j == [i EXCEPT !.utf8 = @ - 1]
       IN IF j.utf8 = 0 THEN Tap(j, "char") ELSE j
  ELSE LET j == Utf8Cut(i)
       IN CASE b = "lead" -> [j EXCEPT !.utf8 = 1]
            [] b = "cont" -> Tap(j, "U+FFFD")
            [] OTHER -> Tap(j, b)

MismatchedForgets(i, b) ==             \* the partial marker is dropped
  IF b = Marker[1] THEN [i EXCEPT !.ended = 1] ELSE handle_plain_key([i EXCEPT !.ended = 0], b)

(* A partial end marker is payload unless all of it matches.               *)
Mismatched(i, b) ==
  LET replayed(j, n) == IF n <= i.ended THEN handle_plain_key(j, Marker[n]) ELSE j
      flushed == [replayed(replayed(replayed(i, 1), 2), 3) EXCEPT !.ended = 0]
  IN IF b = Marker[1] THEN [flushed EXCEPT !.ended = 1] ELSE handle_plain_key(flushed, b)

EndsPaste(i) == [Utf8Cut(i) EXCEPT !.ended = 0, !.paste = FALSE]

handle_paste_byte(i, b) ==
  IF b # Marker[i.ended + 1] THEN Mismatched(i, b)
  ELSE IF i.ended + 1 = Len(Marker) THEN EndsPaste(i)
  ELSE [i EXCEPT !.ended = @ + 1]

-----------------------------------------------------------------------------
(* Control sequences.  Malformed parameters report nothing.                *)
Number(ps) == Len(ps) = 1 /\ ps[1] \in {"n", "200", "201"}
handle_csi_key(i, ps, final) ==
  CASE final = "A" /\ (ps = <<>> \/ Number(ps)) -> Report(i, <<"key", "up">>)
    [] final = "~" /\ ps = <<"n">> -> Report(i, <<"key", "named">>)
    [] final = "~" /\ ps = <<"200">> -> [i EXCEPT !.paste = TRUE]
    [] OTHER -> i
handle_kitty_key(i, ps) == IF Number(ps) THEN Report(i, <<"key", "kitty">>) ELSE i
handle_sgr_mouse(i, ps) == IF ps = <<"<", "n">> THEN Report(i, <<"mouse", "sgr">>) ELSE i
handle_ss3_key(i, b) == IF b = "A" THEN Report(i, <<"key", "up">>) ELSE i

Final(i, b) ==
  LET ps == SubSeq(i.sequence, 3, Len(i.sequence))
      j == IF b = "y" THEN Report(i, <<"report", b>>) ELSE i
  IN CASE b = "M" /\ ps = <<>> -> [j EXCEPT !.legacy = 3]
       [] b = "M" /\ ps # <<>> /\ ps[1] = "<" -> handle_sgr_mouse(j, ps)
       [] b = "u" -> handle_kitty_key(j, ps)
       [] OTHER -> handle_csi_key(j, ps, b)

Stores(i, b) ==
  IF Len(i.sequence) < Capacity THEN [i EXCEPT !.sequence = Append(@, b)]
  ELSE [i EXCEPT !.discard = TRUE]

(* An intermediate byte is stored; a parameter after one spoils the rest.  *)
Parameter(i, b) ==
  Stores(IF b = "sp" THEN [i EXCEPT !.intermediate = TRUE]
         ELSE IF i.intermediate THEN [i EXCEPT !.discard = TRUE] ELSE i, b)

(* An escape key is one that neither "[" nor "O" follows. *)
Escaped(i, b) == IF i.sequence = <<"esc">> /\ b \notin {"[", "O"}
                 THEN Tap([i EXCEPT !.sequence = <<>>], "escape") ELSE i

StartsStale(i) == [Utf8Cut(i) EXCEPT !.sequence = <<"esc">>]
Starts(i) == [Utf8Cut(i) EXCEPT !.sequence = <<"esc">>, !.discard = FALSE, !.intermediate = FALSE]

Legacy(i, b) ==
  LET j == [i EXCEPT !.legacy = @ - 1]
  IN IF j.legacy = 0 THEN Report(j, <<"mouse", "legacy">>) ELSE j

(* tigt_input_feed, a byte. *)
Feed(before, b) ==
  LET i == Escaped(before, b)
      s == i.sequence
  IN IF before.paste THEN handle_paste_byte(before, b)
     ELSE IF before.legacy > 0 THEN Legacy(before, b)
     ELSE IF b = "esc" THEN Starts(i)
     ELSE IF Len(s) = 0 THEN handle_plain_key(i, b)
     ELSE IF Len(s) = 1 THEN [i EXCEPT !.sequence = Append(@, b)]
     ELSE IF s[2] = "O" THEN [handle_ss3_key(i, b) EXCEPT !.sequence = <<>>]
     ELSE IF b \in Finals THEN [(IF i.discard THEN i ELSE Final(i, b))
                                   EXCEPT !.sequence = <<>>, !.discard = FALSE]
     ELSE IF b \in Parameters \cup {"sp"} THEN Parameter(i, b)
     ELSE [i EXCEPT !.discard = TRUE]

Flush(i) == IF i.sequence = <<"esc">> THEN Tap([i EXCEPT !.sequence = <<>>], "escape") ELSE i

-----------------------------------------------------------------------------
(* What a text says, byte by byte; its last one may be half a character.   *)
Character(bytes, n, over) ==
  CASE bytes[n] = "lead" -> IF n < Len(bytes) THEN IF bytes[n + 1] = "cont" THEN <<"char">> ELSE <<"U+FFFD">>
                            ELSE IF over THEN <<"U+FFFD">> ELSE <<>>
    [] bytes[n] = "cont" -> IF n > 1 /\ bytes[n - 1] = "lead" THEN <<>> ELSE <<"U+FFFD">>
    [] OTHER -> <<bytes[n]>>
Text(bytes, over) == FlattenSeq([n \in DOMAIN bytes |-> Character(bytes, n, over)])
Taps(out) == [n \in DOMAIN out |-> out[n][2]]

Inherent(b) == b \in Parameters \cup {"sp"} /\ (b = "sp" \/ ~Contains(raw, "sp"))
Receive(b) ==
  LET n == Feed(input, b)
      text == Append(received, b)
      payload == SubSeq(text, 1, Len(text) - Len(Marker))
      ending == input.paste /\ ~n.paste
      reported == n.out # <<>> /\ Len(input.sequence) >= 2 /\ b \in Finals
  IN /\ ~(input.paste /\ Len(received) = MaxPaste)
     /\ input' = [n EXCEPT !.out = <<>>]
     /\ received' = IF input.paste /\ n.paste THEN text ELSE <<>>
     /\ pasted' = IF input.paste /\ n.paste THEN pasted \o Taps(n.out) ELSE <<>>
     /\ literal' = (literal /\ (ending => pasted \o Taps(n.out) = Text(payload, TRUE)))
     /\ raw' = IF b = "esc" THEN <<b>>
               ELSE IF n.sequence = <<>> THEN <<>>
               ELSE IF Len(raw) > Capacity THEN raw ELSE Append(raw, b)
     /\ damaged' = (b # "esc" /\ n.sequence # <<>> /\
                    (damaged \/ (Len(input.sequence) >= 2 /\ ~Inherent(b))))
     /\ whole' = (whole /\ (reported => ~damaged /\ raw = input.sequence))

Timeout == /\ input' = [Flush(input) EXCEPT !.out = <<>>]
           /\ raw' = IF input'.sequence = <<>> THEN <<>> ELSE raw
           /\ UNCHANGED <<received, pasted, literal, damaged, whole>>

DInit == /\ input = Ground
         /\ received = <<>> /\ pasted = <<>> /\ literal = TRUE
         /\ raw = <<>> /\ damaged = FALSE /\ whole = TRUE
DNext == Timeout \/ \E b \in Bytes : Receive(b)
DSpec == DInit /\ [][DNext]_dvars

-----------------------------------------------------------------------------
(* The types of the state; the sequence buffer is never overrun.           *)
DTypeOK == /\ Len(input.sequence) <= Capacity
           /\ input.legacy \in 0..3 /\ input.utf8 \in 0..1
           /\ input.ended \in 0..(Len(Marker) - 1) /\ (input.ended > 0 => input.paste)
           /\ input.paste => input.sequence = <<>> /\ input.legacy = 0

(* A paste is reported character by character as it was received, escapes  *)
(* and parts of the end marker included, and without the marker            *)
(* (docs/reference.md:404).                                                *)
PasteLiteral ==
  /\ literal
  /\ input.paste =>
       LET n == Len(received) - input.ended
       IN /\ SubSeq(received, n + 1, Len(received)) = SubSeq(Marker, 1, input.ended)
          /\ pasted = Text(SubSeq(received, 1, n), FALSE)

(* The end marker ends a paste whatever came before it, a part of the      *)
(* marker included, and leaves the decoder ready for keys.                 *)
Fed(a, b) == Feed(Feed(input, a), b)
PasteEnds ==
  input.paste => [Feed(Feed(Fed("esc", "["), "201"), "~") EXCEPT !.out = <<>>] = Ground

(* Whatever was fed, an arrow key that follows is reported, once and last, *)
(* and leaves the decoder ready: a malformed, cut or overlong sequence     *)
(* costs nothing but itself.                                               *)
Resynchronises ==
  ~input.paste /\ input.legacy = 0 =>
    LET after == Feed(Fed("esc", "["), "A")
    IN after.sequence = <<>> /\ ~after.discard /\ after.out # <<>>
       /\ Last(after.out) = <<"key", "up">>

(* The escape key is reported once, and the same, whether the next key or  *)
(* the timeout tells that no sequence follows.                             *)
EscapeOnce ==
  ~input.paste /\ input.legacy = 0 =>
    LET timed == Flush(Feed(input, "esc"))
    IN /\ Fed("esc", "x").out = Feed(timed, "x").out
       /\ timed.out = Fed("esc", "esc").out

(* Only whole, well-formed sequences are reported: none that had a control *)
(* byte, a parameter after an intermediate byte or more than fits.         *)
WholeSequences == whole

(* A paste is exactly its text: literal, and over when its marker says so. *)
PastesAreText == PasteLiteral /\ PasteEnds

(* Key sequences are whole or nothing, and none spoils what follows it.    *)
SequencesAreWhole == DTypeOK /\ WholeSequences /\ EscapeOnce /\ Resynchronises
=============================================================================
