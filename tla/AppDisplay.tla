------------------------------ MODULE AppDisplay ------------------------------
(***************************************************************************)
(* The display and the keyboard of an application, as app-runtime gives    *)
(* them to it (app-runtime/src/display.c): frames go to the compositor in  *)
(* two shared buffers, keys come through a bounded queue.  The runtime     *)
(* reads the events of the compositor only while the application waits.    *)
(*                                                                         *)
(* `rt' is the runtime; `wl' is the compositor as far as its client sees   *)
(* it: the requests it has not read, the events it has sent and the        *)
(* runtime has not read, the buffer it draws from, and the keyboard.  A    *)
(* frame gives every row of the screen the number of the call that painted *)
(* it.  The keyboard is built in: a seat that loses it is left out.        *)
(***************************************************************************)
EXTENDS Integers, Sequences, FiniteSets, SequencesExt

CONSTANTS
    DisplayHeight,      \* CP0_DISPLAY_HEIGHT, in rows
    StatusRows,         \* CP0_STANDARD_CONTENT_OFFSET_Y
    Damages,            \* sets of damage rectangles <<y, height>> an application passes
    MaxDamage,          \* CP0_MAX_DAMAGE_RECTS
    QueueCapacity,      \* CP0_INPUT_QUEUE_CAPACITY
    Budgets             \* how many <<frames, strokes or changes of focus>> a behaviour has

DisplayConstants ==
    /\ StatusRows < DisplayHeight
    /\ \A d \in Damages : \A r \in d : r[1] \in Nat /\ r[2] \in Nat

VARIABLES
    rt, wl,
    accepted,           \* history: the frame of each row of the content
    answered,           \* history: the last key the application was given
    left                \* what is left of the budget

vars == <<rt, wl, accepted, answered, left>>

Rows == 0 .. DisplayHeight - 1
Buffers == {1, 2}
Modifier == [lshift |-> "shift", rshift |-> "shift", lctrl |-> "control"]
Keys == DOMAIN Modifier \cup {"x"}
ModifiersOf(keys) == {Modifier[k] : k \in keys \cap DOMAIN Modifier}

NoKeys == [queue |-> <<>>, overflowed |-> FALSE, held |-> {}, depressed |-> FALSE,
           focused |-> FALSE, missed |-> {}]
Blank == [r \in Rows |-> 0]

\* After cp0_display_initialize, for a standard and for an immersive application.
Init ==
    /\ \E offset \in {0, StatusRows} :
         rt = [offset |-> offset, shadow |-> Blank, first_frame |-> TRUE, ready |-> TRUE,
               pixels |-> [b \in Buffers |-> Blank], busy |-> {}, failed |-> FALSE,
               keyboard |-> NoKeys]
    /\ wl = [requests |-> <<>>, events |-> <<>>, current |-> 0, frame |-> Blank, damage |-> {},
             picture |-> Blank, keys |-> {}, focus |-> FALSE, number |-> 0, session |-> 0]
    /\ accepted = [r \in 0 .. DisplayHeight - rt.offset - 1 |-> 0]
    /\ answered = [session |-> 0, number |-> 0, told |-> {}, gap |-> {}]
    /\ left \in Budgets

-------------------------------------------------------------------------------
(* Frames.                                                                 *)

ContentHeight == DisplayHeight - rt.offset

decode_damage(damage) ==
    /\ Cardinality(damage) <= MaxDamage
    /\ \A r \in damage : r[2] # 0 /\ r[1] + r[2] <= ContentHeight

RowsOf(damage, offset) == UNION {offset + r[1] .. offset + r[1] + r[2] - 1 : r \in damage}

\* cp0_display_present_rgb565 where it answers 0, or where the flush finds
\* the connection broken; else it changes nothing.  A painted row holds the
\* number of the call.  What it dispatches first is empty: the wait before it
\* has handled all that it read.
Present(damage) ==
    LET b == Min(Buffers \ rt.busy)
        full == rt.first_frame \/ damage = {}
        painted == IF full THEN {<<0, ContentHeight>>} ELSE damage
        number == left[1]
        fresh == \A c \in DOMAIN accepted : accepted[c] = 0
        shown == IF fresh \/ damage = {} THEN DOMAIN accepted ELSE RowsOf(damage, 0)
        shadow == [r \in Rows |-> IF r \in RowsOf(painted, rt.offset) THEN number ELSE rt.shadow[r]]
        commit == [buffer |-> b, frame |-> shadow,
                   damage |-> IF full THEN Rows ELSE RowsOf(damage, rt.offset)]
        committed == [rt EXCEPT !.shadow = shadow, !.pixels[b] = shadow, !.busy = @ \cup {b},
                                !.first_frame = FALSE, !.ready = FALSE]
    IN /\ ~rt.failed /\ decode_damage(damage)
       /\ Buffers \ rt.busy # {} /\ rt.ready
       /\ \/ /\ rt' = committed
             /\ wl' = [wl EXCEPT !.requests = Append(@, commit)]
             /\ accepted' = [c \in DOMAIN accepted |->
                               IF c \in shown THEN number ELSE accepted[c]]
          \/ /\ rt' = [committed EXCEPT !.failed = TRUE]
             /\ UNCHANGED <<wl, accepted>>
       /\ UNCHANGED answered

\* CP0_MIN_FRAME_INTERVAL_NS have passed since the last commit.
cp0_frame_pacer_ready ==
    /\ ~rt.ready
    /\ rt' = [rt EXCEPT !.ready = TRUE]
    /\ UNCHANGED <<wl, accepted, answered, left>>

-------------------------------------------------------------------------------
(* Events.                                                                 *)

cp0_keyboard_state_set_key(held, e) ==
    IF e.key \notin DOMAIN Modifier THEN held
    ELSE IF e.pressed THEN held \cup {e.key} ELSE held \ {e.key}

cp0_keyboard_state_modifiers(keyboard) ==
    ModifiersOf(keyboard.held) \cup (IF keyboard.depressed THEN {"shift"} ELSE {})

cp0_input_queue_push(keyboard, e) ==
    IF Len(keyboard.queue) = QueueCapacity
    THEN [keyboard EXCEPT !.overflowed = TRUE, !.missed = @ \cup {e.number}]
    ELSE [keyboard EXCEPT !.queue =
            Append(@, [key |-> e.key, modifiers |-> cp0_keyboard_state_modifiers(keyboard),
                       number |-> e.number, session |-> e.session, truly |-> e.truly])]

handle_keyboard_enter(keys) ==
    [NoKeys EXCEPT !.held = keys \cap DOMAIN Modifier, !.focused = TRUE]

\* The click of a key that was queued is the broker's affair.
handle_keyboard_key(keyboard, e) ==
    IF ~keyboard.focused THEN keyboard
    ELSE cp0_input_queue_push(
           [keyboard EXCEPT !.held = cp0_keyboard_state_set_key(@, e)], e)

Handle(r, e) ==
    CASE e.kind = "release" -> [r EXCEPT !.busy = @ \ {e.buffer}]
      [] e.kind = "enter" -> [r EXCEPT !.keyboard = handle_keyboard_enter(e.keys)]
      [] e.kind = "leave" -> [r EXCEPT !.keyboard = NoKeys]
      [] e.kind = "key" -> [r EXCEPT !.keyboard = handle_keyboard_key(@, e)]
      [] e.kind = "modifiers" -> [r EXCEPT !.keyboard.depressed = e.shift]
      [] e.kind = "close" -> [r EXCEPT !.failed = TRUE]

\* cp0_display_wait: what has come until the time is up is read and handled.
Waited(n) == FoldLeft(Handle, rt, SubSeq(wl.events, 1, n))

Received(n) ==
    wl' = [wl EXCEPT !.events = SubSeq(@, n + 1, Len(@))]

cp0_display_wait ==
    /\ ~rt.failed
    /\ \E n \in 1 .. Len(wl.events) : Received(n) /\ rt' = Waited(n)
    /\ UNCHANGED <<accepted, answered, left>>

\* The answer to a poll from the queue: an overflow first, then a key.
Answer(r) ==
    LET keyboard == r.keyboard
        e == Head(keyboard.queue)
        before == IF e.session = answered.session THEN answered.number ELSE 0
        told == IF e.session = answered.session THEN answered.told ELSE {}
    IN IF keyboard.overflowed
       THEN /\ rt' = [r EXCEPT !.keyboard.overflowed = FALSE]
            /\ answered' = [session |-> Last(keyboard.queue).session,
                            number |-> IF Last(keyboard.queue).session = answered.session
                                       THEN answered.number ELSE 0,
                            told |-> keyboard.missed, gap |-> {}]
       ELSE IF keyboard.queue # <<>>
       THEN /\ rt' = [r EXCEPT !.keyboard.queue = Tail(@)]
            /\ answered' = [session |-> e.session, number |-> e.number, told |-> told,
                            gap |-> before + 1 .. e.number - 1]
       ELSE rt' = r /\ UNCHANGED answered

cp0_display_poll_key_event ==
    LET waits == ~rt.keyboard.overflowed /\ rt.keyboard.queue = <<>>
    IN /\ ~rt.failed
       /\ \E n \in IF waits THEN 1 .. Len(wl.events) ELSE {0} :
            /\ Received(n)
            /\ IF Waited(n).failed THEN rt' = Waited(n) /\ UNCHANGED answered
               ELSE Answer(Waited(n))
       /\ UNCHANGED <<accepted, left>>

-------------------------------------------------------------------------------
(* The compositor.                                                         *)

Send(w, events) == [w EXCEPT !.events = @ \o events]

\* A commit replaces the buffer that is drawn from, which goes back.
ReadCommit ==
    LET c == Head(wl.requests)
        freed == IF wl.current \in {0, c.buffer} THEN <<>>
                 ELSE <<[kind |-> "release", buffer |-> wl.current]>>
    IN /\ wl.requests # <<>>
       /\ wl' = Send([wl EXCEPT !.requests = Tail(@), !.current = c.buffer, !.frame = c.frame,
                                !.damage = @ \cup c.damage], freed)
       /\ UNCHANGED <<rt, accepted, answered, left>>

\* It reads the damaged rows from the shared memory, whatever is there now.
Repaint ==
    /\ wl.damage # {} /\ wl.current # 0
    /\ wl' = [wl EXCEPT !.damage = {},
                        !.picture = [r \in Rows |-> IF r \in wl.damage
                                                    THEN rt.pixels[wl.current][r] ELSE @[r]]]
    /\ UNCHANGED <<rt, accepted, answered, left>>

\* A renderer that has made a copy gives the buffer back at once.
GiveBack ==
    /\ wl.damage = {} /\ wl.current # 0
    /\ wl' = Send([wl EXCEPT !.current = 0], <<[kind |-> "release", buffer |-> wl.current]>>)
    /\ UNCHANGED <<rt, accepted, answered, left>>

ModifiersEvent(keys) == [kind |-> "modifiers", shift |-> "shift" \in ModifiersOf(keys)]

\* A key goes down or up; the focused client hears of it.
Stroke(k) ==
    LET keys == IF k \in wl.keys THEN wl.keys \ {k} ELSE wl.keys \cup {k}
        event == [kind |-> "key", key |-> k, pressed |-> k \in keys, number |-> wl.number + 1,
                  session |-> wl.session, truly |-> ModifiersOf(keys)]
        known == [wl EXCEPT !.keys = keys]
    IN wl' = IF ~wl.focus THEN known
             ELSE Send([known EXCEPT !.number = @ + 1],
                       IF k \in DOMAIN Modifier THEN <<event, ModifiersEvent(keys)>> ELSE <<event>>)

Focus ==
    wl' = IF wl.focus THEN Send([wl EXCEPT !.focus = FALSE], <<[kind |-> "leave"]>>)
          ELSE Send([wl EXCEPT !.focus = TRUE, !.number = 0, !.session = @ + 1],
                    <<[kind |-> "enter", keys |-> wl.keys], ModifiersEvent(wl.keys)>>)

Close == wl' = Send(wl, <<[kind |-> "close"]>>)

-------------------------------------------------------------------------------
Application ==
    /\ left[1] > 0 /\ left' = [left EXCEPT ![1] = @ - 1]
    /\ \E damage \in Damages : Present(damage)

User ==
    /\ left[2] > 0 /\ left' = [left EXCEPT ![2] = @ - 1]
    /\ (\E k \in Keys : Stroke(k)) \/ Focus \/ Close
    /\ UNCHANGED <<rt, accepted, answered>>

Next ==
    \/ Application \/ User \/ cp0_frame_pacer_ready
    \/ cp0_display_wait \/ cp0_display_poll_key_event
    \/ ReadCommit \/ Repaint \/ GiveBack

Spec == Init /\ [][Next]_vars

-------------------------------------------------------------------------------
(* Properties.                                                             *)

TypeOK ==
    /\ rt.busy \subseteq Buffers /\ rt.keyboard.held \subseteq DOMAIN Modifier
    /\ wl.current \in Buffers \cup {0} /\ wl.damage \subseteq Rows
    /\ left \in Nat \X Nat

\* A frame the compositor may still read is not painted over: each buffer
\* it holds, or will hold, has what was committed with it.
FramesStay ==
    /\ \A i \in DOMAIN wl.requests : rt.pixels[wl.requests[i].buffer] = wl.requests[i].frame
    /\ wl.current # 0 => rt.pixels[wl.current] = wl.frame

\* A buffer in use is in one place, from which it comes back: no buffer is
\* lost, so an application that waits can always present again.
BuffersReturn ==
    ~rt.failed => \A b \in Buffers :
        (IF b \in rt.busy THEN 1 ELSE 0) =
            Cardinality({i \in DOMAIN wl.requests : wl.requests[i].buffer = b})
          + Cardinality({i \in DOMAIN wl.events : wl.events[i].kind = "release" /\ wl.events[i].buffer = b})
          + (IF wl.current = b THEN 1 ELSE 0)

\* When everything has been drawn, the screen shows each row of the content as
\* it was last accepted (the first frame whole, whatever its damage), at its place below the status bar, and no other row.
ScreenShowsAccepted ==
    wl.requests = <<>> /\ wl.damage = {} =>
        wl.picture = [r \in Rows |-> IF r < rt.offset THEN 0 ELSE accepted[r - rt.offset]]

\* The application hears only keys of the focus it has, with the modifiers
\* that were down at the key, also after an overflow or a change of focus with
\* a modifier held; without the focus nothing is left to hear.
KeysOfThisFocus ==
    LET keyboard == rt.keyboard
        queue == keyboard.queue
    IN /\ \A i \in DOMAIN queue :
            /\ queue[i].key \notin DOMAIN Modifier => queue[i].modifiers = queue[i].truly
            /\ \A j \in 1 .. i : /\ queue[j].session = queue[i].session
                                 /\ i # j => queue[j].number < queue[i].number
       /\ ~keyboard.focused => queue = <<>> /\ cp0_keyboard_state_modifiers(keyboard) = {}

\* A key that is missing between two that the application was given was
\* reported as an overflow before.
GapsAreReported == answered.gap \subseteq answered.told

\* The runtime never paints over what the compositor reads and gets its buffers
\* back, the screen shows the accepted frames, and the application hears the
\* keys of its focus with their modifiers and of every gap.
DisplaySound ==
    TypeOK /\ FramesStay /\ BuffersReturn /\ ScreenShowsAccepted /\ KeysOfThisFocus /\ GapsAreReported
===============================================================================
