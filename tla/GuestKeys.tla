------------------------------ MODULE GuestKeys ------------------------------
(***************************************************************************)
(* The host-key filter (src/terminal.c, 449-529) and the keys that the     *)
(* guest holds (src/tigt.c, 826-870, 970-1037): a raw terminal reports     *)
(* presses, repeats and releases; the input worker reads them in batches,  *)
(* the filter keeps host gestures, Ctrl+V quotes the next gesture, and a   *)
(* new generation forgets gestures and releases what the guest holds.      *)
(*                                                                         *)
(* The terminal may be released, restored and disabled between any two     *)
(* steps of the worker; its generation is abstracted to the set of those   *)
(* whose cached value is the current one.                                  *)
(***************************************************************************)
EXTENDS Naturals, Sequences, FiniteSets

CONSTANTS
  Plain,       \* ordinary keys
  HostKeys,    \* keys that signal with Ctrl: c, \, z
  MaxTyped,    \* events that wait to be read
  BatchSize,   \* events that one read can return (128 bytes)
  HeldMax,     \* capacity of held_keys (256)
  MaxOdd,      \* kinds of oddities that the person and the terminal combine
  Releases     \* may the terminal be released or disabled, the worker end?

Control == "ctrl"
Quote   == "v"
Chars   == Plain \cup HostKeys \cup {Quote}
Keys    == Chars \cup {Control}
None    == "none"

ASSUME KeysAssumption ==
  /\ Control \notin Plain \cup HostKeys /\ Quote \notin Plain \cup HostKeys
  /\ Plain \cap HostKeys = {} /\ None \notin Keys
ASSUME BoundsAssumption ==
  /\ {MaxTyped, BatchSize, HeldMax} \subseteq Nat \ {0} /\ MaxOdd \in Nat
  /\ Releases \in BOOLEAN

VARIABLES
  down,                   \* the keys that are physically down
  typed,                  \* events in the terminal's queue
  blocked, disabled,      \* released; input_disabled
  running, at, batch,     \* input_running, the worker's place, its unfed events
  current,                \* whose cached generation is current: "worker", "filter"
  filter,                 \* literal_next, quoted_key, prefix_down, suppressed
  held_keys,              \* what the guest holds
  fate,                   \* history: where a key's current gesture went
  odd,                    \* history: what no promise covers has happened (Oddities)
  outcome                 \* history: the fate of the gesture of the last event, where it went

host   == <<down, typed>>
ends   == <<blocked, disabled, current>>
worker == <<running, at, batch>>
ghosts == <<fate, odd, outcome>>
vars   == <<host, ends, worker, filter, held_keys, ghosts>>

NoOutcome == [fate |-> "up", to |-> "nowhere"]
NoFilter  == [literal |-> FALSE, quoted |-> None, prefix |-> FALSE, suppressed |-> {}]

-----------------------------------------------------------------------------
(* The keyboard                                                              *)
Typing(kind, k) ==
  /\ Len(typed) < MaxTyped
  /\ typed' = IF blocked \/ disabled THEN typed
              ELSE Append(typed, [kind |-> kind, key |-> k, control |-> Control \in down])
  /\ odd' = odd \cup {o \in {"unseen"} : blocked \/ disabled}
                 \cup {o \in {"mixed"} : k = Control /\ down \cap Chars # {}}
  /\ Cardinality(odd') <= MaxOdd
  /\ UNCHANGED <<ends, worker, filter, held_keys, fate, outcome>>

Press(k)  == k \notin down /\ down' = down \cup {k} /\ Typing("press", k)
Repeat(k) == k \in down \ {Control} /\ UNCHANGED down /\ Typing("repeat", k)
LetGo(k)  == k \in down /\ down' = down \ {k} /\ Typing("release", k)

-----------------------------------------------------------------------------
(* The terminal's owner and its signals                                      *)
NewGeneration == current' = {}

Released ==
  /\ Releases /\ ~blocked /\ blocked' = TRUE /\ NewGeneration
  /\ UNCHANGED <<host, disabled, worker, filter, held_keys, ghosts>>
Restored ==
  /\ blocked /\ blocked' = FALSE /\ NewGeneration
  /\ UNCHANGED <<host, disabled, worker, filter, held_keys, ghosts>>

\* tigt_terminal_disable_input() gives the filter an epoch of its own; the session
\* stops its worker for that, and for other reasons (stop_input_worker()).
Disable ==
  /\ Releases /\ running /\ ~disabled
  /\ disabled' = TRUE /\ current' = current \ {"filter"}
  /\ UNCHANGED <<host, blocked, worker, filter, held_keys, ghosts>>
Stop ==
  /\ Releases /\ running /\ running' = FALSE
  /\ UNCHANGED <<host, ends, at, batch, filter, held_keys, ghosts>>

\* start_input_worker(), after set_input_mode() enabled the input again.
Start ==
  /\ at = "stopped" /\ ~running /\ ~blocked
  /\ running' = TRUE /\ at' = "top" /\ disabled' = FALSE /\ current' = current \cup {"worker"}
  /\ UNCHANGED <<host, blocked, batch, filter, held_keys, ghosts>>

-----------------------------------------------------------------------------
(* input_main()                                                              *)
KeepGuestKeys    == UNCHANGED held_keys                \* a slip: they stay held
ReleaseGuestKeys == held_keys' = {}                   \* release_guest_keys()

ExitHolding ==                                         \* a slip: no release at the end
  /\ at = "ending" \/ (at = "top" /\ ~running)
  /\ at' = "stopped"
  /\ UNCHANGED <<host, ends, running, batch, filter, held_keys, ghosts>>
\* The loop's head: end, or serve a new generation, or go on.
Exit ==
  /\ at = "ending" \/ (at = "top" /\ ~running)
  /\ at' = "stopped" /\ ReleaseGuestKeys
  /\ UNCHANGED <<host, ends, running, batch, filter, ghosts>>
Renew ==
  /\ at = "top" /\ running /\ "worker" \notin current
  /\ ReleaseGuestKeys /\ at' = "renew"
  /\ UNCHANGED <<host, ends, running, batch, filter, ghosts>>
Renewed ==
  /\ at = "renew" /\ at' = "ready" /\ current' = current \cup {"worker"}
  /\ UNCHANGED <<host, blocked, disabled, running, batch, filter, held_keys, ghosts>>
Go ==
  /\ at = "top" /\ running /\ "worker" \in current /\ at' = "ready"
  /\ UNCHANGED <<host, ends, running, batch, filter, held_keys, ghosts>>

\* End of input, a failed read, or no memory for the new decoder: the loop ends.
EndsItself ==
  /\ Releases /\ (at = "renew" \/ (at = "ready" /\ ~blocked /\ ~disabled))
  /\ at' = "ending"
  /\ UNCHANGED <<host, ends, running, batch, filter, held_keys, ghosts>>

\* Nothing to read, or not now; otherwise one read, admitted by the gate.
Idle ==
  /\ at = "ready" /\ (blocked \/ disabled \/ typed = <<>> \/ ~running) /\ at' = "top"
  /\ UNCHANGED <<host, ends, running, batch, filter, held_keys, ghosts>>
ReadEvents ==
  /\ at = "ready" /\ ~blocked /\ ~disabled /\ running /\ typed # <<>>
  /\ LET n == IF Len(typed) < BatchSize THEN Len(typed) ELSE BatchSize
     IN  batch' = SubSeq(typed, 1, n) /\ typed' = SubSeq(typed, n + 1, Len(typed))
  /\ at' = "feed"
  /\ UNCHANGED <<down, ends, running, filter, held_keys, ghosts>>

-----------------------------------------------------------------------------
(* tigt_terminal_filter_input(), terminal_input()                            *)

\* A new generation discards the filter's bookkeeping.
FilterEpoch ==
  /\ at = "feed" /\ batch # <<>> /\ at' = "decide"
  /\ current' = current \cup {"filter"}
  /\ filter' = IF "filter" \in current THEN filter ELSE NoFilter
  /\ fate' = IF "filter" \in current THEN fate
             ELSE [k \in DOMAIN fate |-> IF fate[k] = "up" THEN "up" ELSE "old"]
  /\ outcome' = NoOutcome
  /\ UNCHANGED <<host, blocked, disabled, running, batch, held_keys, odd>>
Fed ==
  /\ at = "feed" /\ batch = <<>> /\ at' = "top" /\ outcome' = NoOutcome
  /\ UNCHANGED <<host, ends, running, batch, filter, held_keys, fate, odd>>

\* Where an event goes: the guest, the host, or nowhere.  The first event that
\* the filter sees of a gesture decides its fate.
Gesture(e, to) == IF e.kind = "press" \/ fate[e.key] = "up" THEN to ELSE fate[e.key]
Goes(e, to, destination) ==
  /\ outcome' = [fate |-> Gesture(e, to), to |-> destination]
  /\ fate' = [fate EXCEPT ![e.key] = IF e.kind = "release" THEN "up" ELSE Gesture(e, to)]
  /\ batch' = Tail(batch)

\* on_input(), and the session's record of what the guest holds: a full record
\* drops the event.
Full(e)  == e.kind # "release" /\ e.key \notin held_keys /\ Cardinality(held_keys) = HeldMax
ToGuest(e, to) ==
  /\ Goes(e, to, IF Full(e) THEN "nowhere" ELSE "guest") /\ at' = "feed"
  /\ held_keys' = IF e.kind = "release" THEN held_keys \ {e.key}
                  ELSE IF Full(e) THEN held_keys ELSE held_keys \cup {e.key}
Consumed(e, to) == Goes(e, to, "host") /\ UNCHANGED held_keys /\ at' = "feed"

\* The filter's cases, in the order of the code.
Quoting(e)     == filter.quoted = e.key
WithControl(e) == e.control /\ e.key # Control
QuoteKey(e)    == WithControl(e) /\ e.key = Quote
NotPrefixed(e) == FALSE                                \* a slip: the prefix's own repeats
Prefixed(e)    == QuoteKey(e) /\ filter.prefix /\ e.kind # "press"
Quotes(e)      == filter.literal /\ e.kind # "release" /\ e.key # Control
HostKey(e)     == WithControl(e) /\ e.key \in HostKeys

AnyKind(kind)  == TRUE                                 \* a slip: a repeat ends the quote
EndsQuote(kind) == kind = "release"

Decide(e) ==
  \/ /\ disabled \/ blocked
     /\ Goes(e, "old", "nowhere") /\ at' = "feed" /\ UNCHANGED <<filter, held_keys>>
  \/ /\ ~disabled /\ ~blocked /\ Quoting(e)
     /\ filter' = IF EndsQuote(e.kind) THEN [filter EXCEPT !.quoted = None] ELSE filter
     /\ ToGuest(e, "quoted")
  \/ /\ ~disabled /\ ~blocked /\ ~Quoting(e)
     /\ \/ /\ Prefixed(e) /\ Consumed(e, "host")
           /\ filter' = IF e.kind = "release" THEN [filter EXCEPT !.prefix = FALSE] ELSE filter
        \/ /\ ~Prefixed(e) /\ Quotes(e)
           /\ filter' = [filter EXCEPT !.literal = FALSE, !.quoted = e.key]
           /\ ToGuest(e, "quoted")
        \/ /\ ~Prefixed(e) /\ ~Quotes(e) /\ QuoteKey(e) /\ Consumed(e, "host")
           /\ filter' = IF e.kind = "press" THEN [filter EXCEPT !.literal = TRUE, !.prefix = TRUE]
                                            ELSE filter
        \/ /\ ~Prefixed(e) /\ ~Quotes(e) /\ HostKey(e)
           /\ \/ /\ e.kind = "release" /\ Consumed(e, "host")
                 /\ filter' = [filter EXCEPT !.suppressed = @ \ {e.key}]
              \/ /\ e.kind # "release" /\ (e.kind = "repeat" \/ e.key \in filter.suppressed)
                 /\ Consumed(e, "host") /\ UNCHANGED filter
              \/ /\ e.kind = "press" /\ e.key \notin filter.suppressed
                 /\ filter' = [filter EXCEPT !.suppressed = @ \cup {e.key}]
                 /\ Goes(e, "host", "host") /\ at' = "signal" /\ UNCHANGED held_keys
        \/ /\ ~Prefixed(e) /\ ~Quotes(e) /\ ~QuoteKey(e) /\ ~HostKey(e)
           /\ ToGuest(e, "guest") /\ UNCHANGED filter

FilterInput ==
  /\ at = "decide" /\ Decide(Head(batch))
  /\ odd' = odd \cup {o \in {"overlap"} :
                        filter'.quoted # filter.quoted /\ None \notin {filter.quoted, filter'.quoted}}
  /\ UNCHANGED <<host, ends, running>>

\* The terminal is released under the gate before the process signals itself.
HostSignal ==
  /\ at = "signal" /\ at' = "feed" /\ blocked' = TRUE
  /\ IF blocked THEN UNCHANGED current ELSE NewGeneration
  /\ UNCHANGED <<host, disabled, running, batch, filter, held_keys, ghosts>>

-----------------------------------------------------------------------------
Init ==
  /\ down = {} /\ typed = <<>> /\ blocked = FALSE /\ disabled = FALSE
  /\ running = TRUE /\ at = "top" /\ batch = <<>> /\ current = {"worker"}
  /\ filter = NoFilter /\ held_keys = {}
  /\ fate = [k \in Keys |-> "up"] /\ odd = {}
  /\ outcome = NoOutcome

WorkerStep ==
  \/ Exit \/ Renew \/ Renewed \/ Go \/ EndsItself \/ Idle \/ ReadEvents
  \/ FilterEpoch \/ Fed \/ FilterInput \/ HostSignal
Next ==
  \/ \E k \in Keys : Press(k) \/ Repeat(k) \/ LetGo(k)
  \/ Released \/ Restored \/ Disable \/ Stop \/ Start \/ WorkerStep

Spec     == Init /\ [][Next]_vars
FairSpec == Spec /\ WF_vars(WorkerStep)

-----------------------------------------------------------------------------
(* What the guest is promised                                                *)
Events == [kind : {"press", "repeat", "release"}, key : Keys, control : BOOLEAN]
\* A key was typed that nobody read (TCSANOW keeps what was typed before);
\* Ctrl changed while a character's key was down; a second gesture was quoted
\* while the first was going on.
Oddities == {"unseen", "mixed", "overlap"}
Fates  == {"up", "old", "guest", "host", "quoted"}

\* Every variable has its type, and what the guest holds fits the session's record.
TypeOK ==
  /\ down \subseteq Keys /\ typed \in Seq(Events) /\ batch \in Seq(Events)
  /\ {blocked, disabled, running} \subseteq BOOLEAN
  /\ at \in {"stopped", "top", "ending", "renew", "ready", "feed", "decide", "signal"}
  /\ current \subseteq {"worker", "filter"}
  /\ filter \in [literal : BOOLEAN, quoted : Keys \cup {None}, prefix : BOOLEAN,
                 suppressed : SUBSET HostKeys]
  /\ held_keys \subseteq Keys /\ Cardinality(held_keys) <= HeldMax
  /\ fate \in [Keys -> Fates] /\ odd \subseteq Oddities
  /\ outcome \in [fate : Fates, to : {"guest", "host", "nowhere"}]

\* When the worker is ready to read, with no epoch to serve, the guest holds no
\* key whose release was already read: neither a quoted nor a consumed release,
\* nor one that the filter dropped while the terminal was released, leaves a key
\* stuck.  This is for hands that let go of a character before Ctrl, quote one
\* gesture at a time, and are always read.
NoStuckKey ==
  at = "ready" /\ "worker" \in current /\ ~blocked /\ ~disabled /\ odd = {} =>
    \A k \in held_keys : fate[k] # "up"

\* A worker that has ended leaves the guest no key pressed.
StoppedHoldsNothing == at = "stopped" => held_keys = {}

\* Repeats and releases of a consumed host gesture are no guest input, as long
\* as Ctrl goes up last.  (The filter looks at each event's own modifiers.)
HostStaysHost ==
  odd \cap {"unseen", "mixed"} = {} /\ outcome.fate = "host" => outcome.to # "guest"

\* A quoted gesture's press, repeats and release go to the guest whatever Ctrl
\* does meanwhile, until a second gesture is quoted during the first.
QuotedGoesToGuest ==
  odd \cap {"unseen", "overlap"} = {} /\ outcome.fate = "quoted" => outcome.to # "host"

\* Whatever the guest holds when the generation changes is released to it.
EpochReleases == ("worker" \notin current /\ held_keys # {}) ~> (held_keys = {})

\* A gesture that began on one side ends there: host gestures consumed by the
\* filter give the guest nothing as long as Ctrl goes up last, quoted ones give
\* the host nothing until a second is quoted; both if their press was read.
GesturesKeepSides == HostStaysHost /\ QuotedGoesToGuest

\* The session's record of the keys the guest holds never overflows and is empty
\* once the worker has ended.
RecordIsKept == TypeOK /\ StoppedHoldsNothing
=============================================================================
