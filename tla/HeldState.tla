------------------------------ MODULE HeldState ------------------------------
(***************************************************************************)
(* The table of presses one sender owns: struct HeldState of               *)
(* protocol/src/realtime_input.rs, used on both ends of the input lane.    *)
(* The BTreeMap<Press, u64> is a total function from presses to sequence   *)
(* numbers in which 0 stands for "not in the map": sequence numbers start  *)
(* at 1, because a lease starts with high_water 0 and only admits larger   *)
(* numbers.                                                                *)
(***************************************************************************)
EXTENDS Naturals, FiniteSets

CONSTANTS
  Key,       \* ordinary keys (key codes up to 0x7e that are not modifiers)
  Button,    \* mouse buttons 0..2
  Shift, Control, Option, Command,   \* the four momentary modifier bits
  MaxHeld    \* MAX_HELD

Modifier == {Shift, Control, Option, Command}
Press == Key \cup Button \cup Modifier

ASSUME PressAssumption ==
  /\ Key \cap Button = {}
  /\ (Key \cup Button) \cap Modifier = {}
  /\ IsFiniteSet(Key) /\ IsFiniteSet(Button)
ASSUME MaxHeldAssumption == MaxHeld \in Nat \ {0}

Held == [Press -> Nat]
Empty == [p \in Press |-> 0]
Down(held) == {p \in Press : held[p] # 0}
Modifiers(held) == Down(held) \cap Modifier

-----------------------------------------------------------------------------
(* Input events, reduced to what the table and the native side tell apart. *)
(* Unsupported key codes, buttons and touches are dropped by event() and   *)
(* have no counterpart here; Caps Lock is masked out of every modifier set.*)

\* InputEvent::Key, which states the modifiers of its chord.
KeyEvents == [kind : {"key"}, press : Key \cup Modifier,
              down : BOOLEAN, mods : SUBSET Modifier]
\* MouseDown/MouseUp and the legacy KeyDown/KeyUp, which state no chord.
PlainEvents == [kind : {"plain"}, press : Press, down : BOOLEAN]
\* InputEvent::ModifiersChanged.
ModsEvents == [kind : {"mods"}, mods : SUBSET Modifier]
\* Mouse motion and scrolling.
MotionEvents == [kind : {"motion"}]
Events == KeyEvents \cup PlainEvents \cup ModsEvents \cup MotionEvents

\* The event names a key, a button or a modifier key.
NamesPress(ev) == ev.kind \in {"key", "plain"}
\* A press or release of a modifier key is rewritten to ModifiersChanged.
IsModifierKey(ev) == NamesPress(ev) /\ ev.press \in Modifier
\* The event carries a whole modifier mask after that rewriting.
SetsModifiers(ev) == ev.kind = "mods" \/ IsModifierKey(ev)
Mask(held, ev) ==
  IF ev.kind = "mods" THEN ev.mods
  ELSE IF ev.down THEN Modifiers(held) \cup {ev.press}
  ELSE Modifiers(held) \ {ev.press}

-----------------------------------------------------------------------------
\* HeldState::transition: whether the table changes, and to what.
CanTransition(held, p, down) ==
  IF down THEN held[p] = 0 /\ Cardinality(Down(held)) < MaxHeld
          ELSE held[p] # 0
Transition(held, p, down, s) ==
  IF CanTransition(held, p, down)
  THEN [held EXCEPT ![p] = IF down THEN s ELSE 0]
  ELSE held

\* The loop over the four bits; a bit that finds the table full stays up.
SetModifiers(held, mask, s) ==
  LET h1 == Transition(held, Shift, Shift \in mask, s)
      h2 == Transition(h1, Control, Control \in mask, s)
      h3 == Transition(h2, Option, Option \in mask, s)
  IN  Transition(h3, Command, Command \in mask, s)

\* Whether HeldState::event returns Some.
EventValid(held, ev) ==
  CASE ev.kind \in {"mods", "motion"} -> TRUE
    [] IsModifierKey(ev) -> (held[ev.press] # 0) # ev.down
    [] OTHER -> CanTransition(held, ev.press, ev.down)

\* The table after HeldState::event.
EventHeld(held, ev, s) ==
  IF ~EventValid(held, ev) \/ ev.kind = "motion" THEN held
  ELSE IF SetsModifiers(ev) THEN SetModifiers(held, Mask(held, ev), s)
  ELSE Transition(held, ev.press, ev.down, s)

\* The event HeldState::event returns, with the modifiers it now owns.
EventSent(ev, after) ==
  IF SetsModifiers(ev) THEN [kind |-> "mods", mods |-> Modifiers(after)]
  ELSE IF NamesPress(ev) /\ ev.press \in Key
  THEN [kind |-> "key", press |-> ev.press, down |-> ev.down,
        mods |-> Modifiers(after)]
  ELSE ev

\* The table after release_missing: an entry survives only if the snapshot
\* names the same press with the same sequence number.
ReleaseMissing(held, snapshot) ==
  [p \in Press |-> IF snapshot[p] = held[p] THEN held[p] ELSE 0]

-----------------------------------------------------------------------------
(* What the events handed to the native side do to the set of presses that *)
(* are physically down (LinuxUinputInjector). "set": the event carries the *)
(* modifier mask to establish; "mask": a key-up, which may only remove     *)
(* modifiers; "keep": buttons and motion.                                  *)

Outs == [down : SUBSET Press, up : SUBSET Press, mods : SUBSET Modifier,
         how : {"set", "mask", "keep"}]
NoOut == [down |-> {}, up |-> {}, mods |-> {}, how |-> "none"]

\* The event HeldState::event returns; "after" is the table it left behind.
EventOut(ev, after) ==
  [down |-> IF NamesPress(ev) /\ ~IsModifierKey(ev) /\ ev.down
            THEN {ev.press} ELSE {},
   up   |-> IF NamesPress(ev) /\ ~IsModifierKey(ev) /\ ~ev.down
            THEN {ev.press} ELSE {},
   mods |-> Modifiers(after),
   how  |-> IF SetsModifiers(ev) THEN "set"
            ELSE IF NamesPress(ev) /\ ev.press \in Key
                 THEN IF ev.down THEN "set" ELSE "mask"
            ELSE "keep"]

\* LinuxUinputInjector::inject_before. A press that is already in the wanted
\* position is not written again.
NativeAfter(native, out) ==
  (((native \ Modifier) \cup out.down) \ out.up)
    \cup (CASE out.how = "set"  -> out.mods
            [] out.how = "mask" -> native \cap out.mods
            [] OTHER -> native \cap Modifier)

-----------------------------------------------------------------------------
(* The events one packet hands to the native side: key and button releases *)
(* in any order, then at most one last event. A single event is a batch of *)
(* its own; the batch of release_missing carries in its key-ups the        *)
(* modifiers held before, because the map lists keys before modifiers.     *)

Batches == [ups : SUBSET Press, mods : SUBSET Modifier,
            last : Outs \cup {NoOut}]
NoBatch == [ups |-> {}, mods |-> {}, last |-> NoOut]

EventBatch(ev, after) ==
  [ups |-> {}, mods |-> {}, last |-> EventOut(ev, after)]
\* Mutant: the modifiers' own release is forgotten.
ReleaseKeysOnly(before, after) ==
  [ups |-> (Down(before) \ Down(after)) \ Modifier, mods |-> Modifiers(before),
   last |-> NoOut]
ReleaseBatch(before, after) ==
  LET gone == Down(before) \ Down(after) IN
  [ups |-> gone \ Modifier, mods |-> Modifiers(before),
   last |-> IF gone \cap Modifier = {} THEN NoOut
            ELSE [down |-> {}, up |-> {}, mods |-> Modifiers(after),
                  how |-> "set"]]

BatchDone(batch) == batch.ups = {} /\ batch.last = NoOut
\* The events that may be injected next, and what is left after each.
NextOuts(batch) ==
  IF batch.ups # {}
  THEN { [down |-> {}, up |-> {p}, mods |-> batch.mods,
          how |-> IF p \in Key THEN "mask" ELSE "keep"] : p \in batch.ups }
  ELSE {batch.last} \ {NoOut}
BatchRest(batch, out) ==
  IF batch.ups # {} THEN [batch EXCEPT !.ups = @ \ out.up]
  ELSE [batch EXCEPT !.last = NoOut]

\* What the whole batch leaves down.
BatchNative(native, batch) ==
  LET rest == native \ batch.ups IN
  IF batch.last = NoOut THEN rest ELSE NativeAfter(rest, batch.last)
=============================================================================
