---------------------------- MODULE CompositorKeys ----------------------------
(***************************************************************************)
(* The keys, the sleep and the backlight of the compositor's policy        *)
(* module: the ESC gesture (esc-gesture.c), the key that wakes the display *)
(* (wake-key.c), the backlight (backlight-state.c) and the handlers of     *)
(* cardputerzero-policy.c that join them.  `c' is the state of the process *)
(* and of Weston's keyboard; brightness and saved_state are the files, the *)
(* one in sysfs and the other in /run, that outlive it.                    *)
(*                                                                         *)
(* Of Weston: a pressed key is in the keyboard's array, and has woken the  *)
(* display, before a grab or a binding sees it; a released key may wake it *)
(* too; a held key keeps the display from becoming idle; and a popup's     *)
(* grab begins where no grab is.  Of the Shell: it asks for sleep when a   *)
(* key that it was given chose so, and the request is read within the      *)
(* shortest idle timeout.                                                  *)
(***************************************************************************)
EXTENDS Naturals, FiniteSets

CONSTANTS
    Keys,       \* with "esc" among them; the others go to the application
    LongPress,  \* CP0_ESC_LONG_PRESS_MSEC in polls of the timer
    Levels,     \* what displayd writes
    Half,       \* the brightness when none was saved
    MaxKeys,    \* key presses
    MaxFaults   \* failed writes, crashes and stops

KeysConstants ==
    /\ "esc" \in Keys /\ LongPress \in Nat \ {0}
    /\ Levels \cup {Half} \subseteq Nat \ {0} /\ MaxKeys \in Nat /\ MaxFaults \in Nat

VARIABLES c, brightness, saved_state, unblanked, pressed, faults

vars == <<c, brightness, saved_state, unblanked, pressed, faults>>

NoKey == "none"

\* `waker' is the held key that woke the display, `leaked' whether somebody
\* else saw it, `answers' the actions of the ESC key since it went down.
wet_module_init ==
    [up |-> TRUE, shell |-> FALSE, held |-> {}, grab |-> "default", asleep |-> FALSE,
     wake_key |-> [armed |-> FALSE, captured |-> FALSE, key |-> NoKey],
     esc_gesture |-> [active |-> FALSE, polls |-> 0], esc_timer |-> FALSE,
     backlight |-> [sleeping |-> FALSE, saved |-> 0],
     asked |-> FALSE, waker |-> NoKey, leaked |-> FALSE, answers |-> 0, dark |-> FALSE]

Init ==
    /\ c = [wet_module_init EXCEPT !.shell = TRUE]
    /\ brightness \in Levels /\ saved_state = 0 /\ unblanked = TRUE
    /\ pressed = 0 /\ faults = 0

------------------------------------------------------------------------------
(* The handlers, on the state of the process.                              *)

cp0_wake_key_cancel(s) ==
    [s EXCEPT !.wake_key = [armed |-> FALSE, captured |-> FALSE, key |-> NoKey]]

cp0_esc_gesture_cancel(s) == [s EXCEPT !.esc_gesture.active = FALSE]

finish_wake_key_grab(s) ==
    cp0_wake_key_cancel([s EXCEPT !.grab = IF @ = "wake" THEN "default" ELSE @])

can_arm_wake_key_grab(s) == IF s.wake_key.armed THEN s.grab = "wake" ELSE s.grab = "default"

arm_wake_key_grab(s) ==
    IF s.wake_key.armed THEN s
    ELSE [s EXCEPT !.grab = "wake",
                   !.wake_key = [armed |-> TRUE, captured |-> FALSE, key |-> NoKey]]

wake_key_grab_key(s, key, down) ==
    CASE ~s.wake_key.captured /\ down ->
            [s EXCEPT !.wake_key.captured = TRUE, !.wake_key.key = key]
      [] s.wake_key.captured /\ ~down /\ s.wake_key.key = key -> finish_wake_key_grab(s)
      [] OTHER -> s

\* The binding of the ESC key begins the gesture, if the Shell is there;
\* every other key without a grab is the application's.
cp0_esc_gesture_press(s) ==
    [s EXCEPT !.esc_timer = TRUE,
              !.answers = IF s.esc_gesture.active THEN @ ELSE 0,
              !.esc_gesture = IF @.active THEN @ ELSE [active |-> TRUE, polls |-> 0]]

Deliver(s, key, down) ==
    CASE s.grab = "wake" -> wake_key_grab_key(s, key, down)
      [] s.grab = "default" /\ down /\ key = "esc" /\ s.shell ->
            [cp0_esc_gesture_press(s) EXCEPT !.leaked = @ \/ key = s.waker]
      [] OTHER -> [s EXCEPT !.leaked = @ \/ key = s.waker]

\* A wake whose write fails leaves the backlight off and marked for the next.
compositor_woke(s, key, written) ==
    LET keyboard_wake == s.wake_key.armed /\ s.grab = "wake" /\ s.held # {}
        fails == s.backlight.sleeping /\ ~written
        lit == [s EXCEPT !.asleep = FALSE, !.backlight.sleeping = @ /\ ~written,
                         !.waker = key, !.dark = fails]
        calm == cp0_esc_gesture_cancel(lit)
    IN IF ~keyboard_wake /\ s.wake_key.armed THEN finish_wake_key_grab(calm) ELSE calm

RestoredBrightness(s, written) ==
    IF s.backlight.sleeping /\ written THEN s.backlight.saved ELSE brightness

cp0_esc_gesture_poll(s) ==
    LET polls == s.esc_gesture.polls + 1
        over == [s EXCEPT !.esc_timer = FALSE, !.esc_gesture.active = FALSE, !.answers = @ + 1]
    IN CASE ~s.esc_gesture.active -> [s EXCEPT !.esc_timer = FALSE]
         [] s.esc_gesture.active /\ "esc" \notin s.held -> over
         [] s.esc_gesture.active /\ "esc" \in s.held /\ polls >= LongPress -> over
         [] OTHER -> [s EXCEPT !.esc_gesture.polls = polls]

------------------------------------------------------------------------------
Fault(written) == faults' = IF written THEN faults ELSE faults + 1
MayFail == IF faults < MaxFaults THEN BOOLEAN ELSE {TRUE}

\* notify_key of Weston: the array, the wake, then the grab or the binding.
KeyDown(key) ==
    /\ c.up /\ key \notin c.held /\ pressed < MaxKeys
    /\ \E written \in MayFail :
          LET s == [c EXCEPT !.held = @ \cup {key}]
          IN IF c.asleep
             THEN /\ c' = Deliver(compositor_woke(s, key, written), key, TRUE)
                  /\ brightness' = RestoredBrightness(c, written) /\ Fault(written)
             ELSE c' = Deliver(s, key, TRUE) /\ written /\ UNCHANGED <<brightness, faults>>
    /\ pressed' = pressed + 1
    /\ UNCHANGED <<saved_state, unblanked>>

KeyUp(key) ==
    /\ c.up /\ key \in c.held
    /\ \E written \in MayFail, wakes \in BOOLEAN :
          LET s == [c EXCEPT !.held = @ \ {key}]
              awake == IF wakes THEN compositor_woke(s, c.waker, written) ELSE s
              seen == Deliver(awake, key, FALSE)
          IN /\ wakes => c.asleep
             /\ written \/ (wakes /\ c.backlight.sleeping)
             /\ c' = [seen EXCEPT !.waker = IF @ = key THEN NoKey ELSE @]
             /\ brightness' = IF wakes THEN RestoredBrightness(c, written) ELSE brightness
             /\ Fault(written)
    /\ UNCHANGED <<saved_state, unblanked, pressed>>

\* Another input device wakes the display.
OtherWake ==
    /\ c.up /\ c.asleep
    /\ \E written \in MayFail :
          /\ c' = compositor_woke(c, NoKey, written)
          /\ brightness' = RestoredBrightness(c, written) /\ Fault(written)
    /\ UNCHANGED <<saved_state, unblanked, pressed>>

\* The display goes off even when the backlight does not.
put_display_to_sleep ==
    LET s == [arm_wake_key_grab(c) EXCEPT !.asleep = TRUE, !.asked = FALSE]
    IN \/ /\ c.backlight.sleeping \/ brightness = 0
          /\ c' = s /\ UNCHANGED <<brightness, saved_state, faults>>
       \/ /\ ~c.backlight.sleeping /\ brightness > 0
          /\ c' = [s EXCEPT !.backlight = [sleeping |-> TRUE, saved |-> brightness]]
          /\ brightness' = 0 /\ saved_state' = brightness /\ UNCHANGED faults
       \/ /\ ~c.backlight.sleeping /\ brightness > 0 /\ faults < MaxFaults
          /\ c' = s /\ faults' = faults + 1
          /\ saved_state' \in {saved_state, brightness} /\ UNCHANGED brightness

\* The Shell asks, or the idle timeout passes with no key held; the display
\* stays on while some other grab has the keyboard.
DisplaySleeps ==
    /\ c.up /\ ~c.asleep
    /\ c.asked \/ c.held = {}
    /\ IF can_arm_wake_key_grab(c) THEN put_display_to_sleep
       ELSE c' = [c EXCEPT !.asked = FALSE] /\ UNCHANGED <<brightness, saved_state, faults>>
    /\ UNCHANGED <<unblanked, pressed>>

\* The key that the Shell has just been given ends the power dialog.
ShellAsksForSleep ==
    /\ c.up /\ c.shell /\ ~c.asked /\ c.grab = "default" /\ ~c.asleep /\ c.held \ {"esc"} # {}
    /\ c' = [c EXCEPT !.asked = TRUE]
    /\ UNCHANGED <<brightness, saved_state, unblanked, pressed, faults>>

esc_gesture_timer ==
    /\ c.up /\ c.esc_timer
    /\ c' = IF c.shell THEN cp0_esc_gesture_poll(c)
            ELSE cp0_esc_gesture_cancel([c EXCEPT !.esc_timer = FALSE])
    /\ UNCHANGED <<brightness, saved_state, unblanked, pressed, faults>>

ShellComesOrGoes ==
    /\ c.up
    /\ c' = IF c.shell THEN cp0_esc_gesture_cancel([c EXCEPT !.shell = FALSE, !.asked = FALSE])
            ELSE [c EXCEPT !.shell = TRUE]
    /\ UNCHANGED <<brightness, saved_state, unblanked, pressed, faults>>

\* A popup of an application takes the keyboard and gives it back.
PopupGrab ==
    /\ c.up /\ c.grab \in {"default", "other"} /\ ~c.asleep
    /\ c' = [c EXCEPT !.grab = IF @ = "default" THEN "other" ELSE "default"]
    /\ UNCHANGED <<brightness, saved_state, unblanked, pressed, faults>>

\* displayd writes the same file, for a request it got a moment ago.
DisplaydWrites ==
    /\ brightness' \in Levels \ {brightness}
    /\ UNCHANGED <<c, saved_state, unblanked, pressed, faults>>

\* policy_destroyed lights the display when the compositor is stopped; a crash
\* leaves it as it is.
CompositorEnds ==
    /\ c.up /\ faults < MaxFaults /\ faults' = faults + 1
    /\ c' = [wet_module_init EXCEPT !.up = FALSE]
    /\ unblanked' = FALSE
    /\ brightness' \in {brightness, RestoredBrightness(c, TRUE)}
    /\ UNCHANGED <<saved_state, pressed>>

Restart ==
    /\ ~c.up /\ c' = wet_module_init
    /\ UNCHANGED <<brightness, saved_state, unblanked, pressed, faults>>

\* unblank-display.sh, after each start of the compositor.
unblank_display ==
    /\ c.up /\ ~unblanked /\ unblanked' = TRUE
    /\ brightness' = CASE brightness > 0 -> brightness
                       [] brightness = 0 /\ saved_state > 0 -> saved_state
                       [] OTHER -> Half
    /\ UNCHANGED <<c, saved_state, pressed, faults>>

Next ==
    \/ \E key \in Keys : KeyDown(key) \/ KeyUp(key)
    \/ OtherWake \/ ShellAsksForSleep \/ DisplaySleeps \/ esc_gesture_timer \/ ShellComesOrGoes
    \/ PopupGrab \/ DisplaydWrites \/ CompositorEnds \/ Restart \/ unblank_display

Spec == Init /\ [][Next]_vars
------------------------------------------------------------------------------
TypeOK ==
    /\ c.held \subseteq Keys /\ c.waker \in Keys \cup {NoKey}
    /\ c.grab \in {"default", "wake", "other"}
    /\ c.wake_key.key \in Keys \cup {NoKey} /\ c.esc_gesture.polls \in 0..LongPress
    /\ {brightness, saved_state, c.backlight.saved} \subseteq Levels \cup {0, Half}
    /\ pressed \in 0..MaxKeys /\ faults \in 0..MaxFaults

\* Neither the press nor the release of the key that wakes the display reaches
\* a binding or an application: as long as the display sleeps the grab is in
\* place, and the grab is there exactly while the wake key is awaited or held.
WakeKeyConsumed ==
    /\ ~c.leaked
    /\ c.asleep => c.grab = "wake"
    /\ (c.grab = "wake") = c.wake_key.armed

\* One press of ESC is one Back or one Home, and a gesture that has begun has
\* its timer.
OneActionPerPress == c.answers \in {0, 1} /\ (c.esc_gesture.active => c.esc_timer)

\* A display that is on is lit, also after a crash in its sleep, unless the
\* write that should have lit it failed, and then the next wake tries again;
\* and while the backlight is off its brightness is where the script that
\* follows a crash looks for it.
Lit ==
    /\ c.up /\ unblanked /\ ~c.asleep =>
          IF c.dark THEN c.backlight.sleeping /\ c.backlight.saved > 0 ELSE brightness > 0
    /\ c.backlight.sleeping => c.asleep \/ c.dark
    /\ c.backlight.sleeping => saved_state = c.backlight.saved

\* The key that wakes the display does nothing else, one press of ESC is one
\* action, and a display that is on is lit, through sleep, idle and crashes.
KeysSound == TypeOK /\ WakeKeyConsumed /\ OneActionPerPress /\ Lit
==============================================================================
