--------------------------- MODULE CompositorScene ---------------------------
(***************************************************************************)
(* What is on the screen: the compositor's policy module                   *)
(* (compositor-policy/cardputerzero-policy.c) and the overlay modes of the *)
(* System Shell (system-shell/src/main.c), two processes that exchange     *)
(* requests and events over one Wayland connection.  The policy keeps a    *)
(* watch on every surface, gives applications their tokens, and moves      *)
(* views between layers; the Shell remembers the mode it interrupted while *)
(* a prompt, a banner, the power dialog or a volume overlay is shown.      *)
(*                                                                         *)
(* Each process is one record; `sent' is what it has written and the other *)
(* has not read.  Child surfaces follow their root and are left out, and   *)
(* so is the keyboard focus, which the desktop shell of Weston moves too.  *)
(* Document prompts and screenshots, which interrupt a mode as permission  *)
(* prompts and volume keys do, are left out as well.                       *)
(***************************************************************************)
EXTENDS Naturals, SequencesExt

CONSTANTS
    Apps,        \* one surface each
    Standard,    \* the applications whose title asks for the status strip
    TokenSpace,  \* tokens are numbers below it
    MaxEvents    \* how often applications, keys, timers and appd act

SceneConstants ==
    /\ Standard \subseteq Apps
    /\ TokenSpace \in Nat /\ TokenSpace > Cardinality(Apps) + 3
    /\ MaxEvents \in Nat

VARIABLES policy, shell, happened

vars == <<policy, shell, happened>>

NoSurface == "none"
ShellSurface == "shell"
SplashSurface == "splash"
Modes == {"full", "status", "hidden", "notification"}

------------------------------------------------------------------------------
(* The policy module.                                                      *)

first_mapped_view(p, s) == s \in DOMAIN p.watch /\ p.watch[s].mapped

Send(p, event) == IF p.bound THEN [p EXCEPT !.sent = Append(@, event)] ELSE p

Layer(p, s) ==
    CASE s = p.trusted -> IF p.overlay_mode # "hidden" THEN "trusted" ELSE "hidden"
      [] s = p.splash /\ s # p.trusted ->
            IF first_mapped_view(p, p.trusted) THEN "hidden" ELSE "splash"
      [] OTHER -> IF p.overlay_mode # "full" /\ s = p.active THEN "app" ELSE "hidden"

reassert_layers(p) ==
    [p EXCEPT !.watch = [s \in DOMAIN @ |->
        IF @[s].mapped THEN [@[s] EXCEPT !.layer = Layer(p, s)] ELSE @[s]]]

set_overlay_mode(p, mode) == reassert_layers([p EXCEPT !.overlay_mode = mode])

schedule_reassert(p) == [p EXCEPT !.reassert_idle = TRUE]

\* The next number that is neither zero nor some surface's.
allocate_app_token(p) ==
    LET used == {p.watch[s].token : s \in DOMAIN p.watch} \cup {0}
        steps == {k \in 1..TokenSpace : (p.next_app_token + k) % TokenSpace \notin used}
    IN (p.next_app_token + Min(steps)) % TokenSpace

announce_app(p, s) ==
    IF p.watch[s].announced \/ ~p.bound \/ s \in {p.trusted, p.splash} \/ ~p.watch[s].mapped
    THEN p
    ELSE LET fresh == p.watch[s].token = 0
             token == IF fresh THEN allocate_app_token(p) ELSE p.watch[s].token
         IN Send([p EXCEPT !.watch[s].announced = TRUE, !.watch[s].token = token,
                           !.next_app_token = IF fresh THEN token ELSE @],
                 [kind |-> "app_added", token |-> token, app |-> s])

announce_apps(p) == FoldSet(LAMBDA s, q : announce_app(q, s), p, DOMAIN p.watch)

withdraw_app(p, s) ==
    IF ~p.watch[s].announced THEN p
    ELSE [Send(p, [kind |-> "app_removed", token |-> p.watch[s].token])
              EXCEPT !.watch[s].announced = FALSE, !.watch[s].token = 0]

ShowHome(p) ==
    Send(set_overlay_mode([p EXCEPT !.active = NoSurface], "full"),
         [kind |-> "action", action |-> "home"])

surface_created(p, s) ==
    [p EXCEPT !.watch = [x \in DOMAIN @ \cup {s} |->
        IF x = s THEN [mapped |-> FALSE, announced |-> FALSE, token |-> 0, layer |-> "none"]
        ELSE @[x]]]

\* An unmapped application treated as one that was never in front.
Fault_surface_committed(p, s, mapped) ==
    LET drawn == [p EXCEPT !.watch[s].mapped = mapped,
                           !.watch[s].layer = IF mapped THEN "desktop" ELSE "none",
                           !.splash = IF @ = NoSurface /\ s = SplashSurface THEN s ELSE @]
    IN schedule_reassert(
          CASE s \in {drawn.trusted, drawn.splash} -> drawn
            [] s \notin {drawn.trusted, drawn.splash} /\ mapped -> announce_app(drawn, s)
            [] OTHER -> withdraw_app(drawn, s))

\* The desktop shell of Weston puts a new view on a layer of its own.
surface_committed(p, s, mapped) ==
    LET layer == CASE ~mapped -> "none"
                   [] mapped /\ p.watch[s].mapped -> p.watch[s].layer
                   [] OTHER -> "desktop"
        drawn == [p EXCEPT !.watch[s].mapped = mapped, !.watch[s].layer = layer,
                           !.splash = IF @ = NoSurface /\ s = SplashSurface THEN s ELSE @]
        lost == IF drawn.active = s THEN ShowHome(drawn) ELSE drawn
    IN schedule_reassert(
          CASE s \in {drawn.trusted, drawn.splash} -> drawn
            [] s \notin {drawn.trusted, drawn.splash} /\ mapped -> announce_app(drawn, s)
            [] OTHER -> IF drawn.watch[s].announced THEN withdraw_app(lost, s) ELSE drawn)

surface_destroyed(p, s) ==
    LET withdrawn == withdraw_app(p, s)
        rest == [withdrawn EXCEPT
                    !.trusted = IF @ = s THEN NoSurface ELSE @,
                    !.overlay_mode = IF p.trusted = s THEN "full" ELSE @,
                    !.splash = IF @ = s THEN NoSurface ELSE @,
                    !.watch = [x \in DOMAIN @ \ {s} |-> @[x]]]
    IN IF p.active = s THEN ShowHome(rest) ELSE schedule_reassert(rest)

shell_resource_destroyed(p) ==
    schedule_reassert(
        [p EXCEPT !.bound = FALSE, !.sent = <<>>, !.overlay_mode = "full",
                  !.watch = [s \in DOMAIN @ |-> [@[s] EXCEPT !.announced = FALSE]]])

\* A client that is gone, or that was sent an error, loses all its resources.
Disconnect(p) ==
    LET q == shell_resource_destroyed(p)
    IN IF ShellSurface \in DOMAIN q.watch THEN surface_destroyed(q, ShellSurface) ELSE q

bind_system_shell(p) == announce_apps([p EXCEPT !.bound = TRUE])

shell_register_surface(p) ==
    IF p.trusted # NoSurface THEN Disconnect(p)
    ELSE announce_apps(schedule_reassert(
            withdraw_app([p EXCEPT !.trusted = ShellSurface, !.overlay_mode = "full"],
                         ShellSurface)))

shell_set_overlay_mode(p, mode) ==
    IF mode # "full" /\ p.active = NoSurface THEN Disconnect(p) ELSE set_overlay_mode(p, mode)

shell_activate_app(p, token) ==
    LET hit == {s \in DOMAIN p.watch :
                    p.watch[s].announced /\ p.watch[s].token = token /\ p.watch[s].mapped}
    IN IF hit = {} THEN Send(p, [kind |-> "activation_failed", token |-> token])
       ELSE LET s == CHOOSE x \in hit : TRUE
            IN set_overlay_mode([p EXCEPT !.active = s],
                                IF s \in Standard THEN "status" ELSE "hidden")

cp0_overlay_transient_target(mode) == IF mode = "full" THEN "full" ELSE "notification"

\* Home, Back, Tasks and Power bring the Shell up before they are delivered;
\* "volume" stands for every key that is answered with a short overlay, and
\* "home" for Tasks, which opens another page.
dispatch_system_action(p, action) ==
    Send(set_overlay_mode(p, IF action = "volume"
                             THEN cp0_overlay_transient_target(p.overlay_mode) ELSE "full"),
         [kind |-> "action", action |-> action])

------------------------------------------------------------------------------
(* The System Shell.                                                       *)

Ask(sh, request) == [sh EXCEPT !.sent = Append(@, request)]
SetMode(sh, mode) ==
    Ask([sh EXCEPT !.overlay_mode = mode, !.unsaid = FALSE],
        [kind |-> "set_overlay_mode", mode |-> mode])

cancel_notification(sh, restore_mode) ==
    LET cleared == [sh EXCEPT !.banner = FALSE]
    IN CASE ~sh.banner -> sh
         [] sh.banner /\ restore_mode /\ sh.overlay_mode = "notification" ->
                SetMode(cleared, sh.notification_restore_mode)
         [] OTHER -> cleared

cancel_system_action(sh, restore_mode) ==
    LET cleared == [sh EXCEPT !.transient = FALSE]
    IN CASE ~sh.transient -> sh
         [] sh.transient /\ restore_mode /\ sh.overlay_mode = "notification" ->
                SetMode(cleared, sh.system_action_restore_mode)
         [] OTHER -> cleared

ClosePrompt(sh) == SetMode([sh EXCEPT !.prompt = FALSE], sh.interrupted_overlay_mode)

\* The dialogs of cp0_ui_handle_action: a prompt takes Back as a refusal, which
\* appd may not have taken, and nothing else; Home closes the power dialog,
\* Back goes where it came from.
handle_ui_action(sh, action, taken) ==
    CASE action = "volume" -> [sh EXCEPT !.transient = TRUE]
      [] action # "volume" /\ sh.prompt -> IF action = "back" /\ taken THEN ClosePrompt(sh) ELSE sh
      [] action = "home" /\ ~sh.prompt -> [sh EXCEPT !.power_dialog = FALSE]
      [] action = "power" /\ ~sh.prompt -> [sh EXCEPT !.power_dialog = TRUE]
      [] OTHER -> IF sh.power_dialog
                  THEN SetMode([sh EXCEPT !.power_dialog = FALSE], sh.power_restore_mode)
                  ELSE sh

handle_system_action(sh, action, taken) ==
    LET quiet == cancel_notification(sh, TRUE)
        calm == cancel_system_action(quiet, FALSE)
        base == IF quiet.transient THEN quiet.system_action_restore_mode ELSE quiet.overlay_mode
    IN handle_ui_action(
          CASE action = "volume" ->
                  SetMode([calm EXCEPT !.system_action_restore_mode = base],
                          cp0_overlay_transient_target(base))
            [] action = "power" /\ ~sh.power_dialog ->
                  SetMode([calm EXCEPT !.power_restore_mode = calm.overlay_mode], "full")
            [] OTHER -> SetMode(calm, "full"),
          action, taken)

handle_app_added(sh, token, app) == [sh EXCEPT !.apps = @ \cup {<<token, app>>}]

forget_surface(sh, token) == [sh EXCEPT !.apps = {a \in @ : a[1] # token}]

\* A withdrawal ends the banner; the Shell takes the screen to be its own and
\* does not say so to the policy, which `unsaid' remembers.
handle_app_removed(sh, token) ==
    forget_surface(IF sh.banner
                   THEN [cancel_notification(sh, FALSE) EXCEPT !.overlay_mode = "full",
                                                               !.unsaid = TRUE]
                   ELSE sh,
                   token)

handle_activation_failed(sh, token, retry) ==
    SetMode([forget_surface(sh, token) EXCEPT !.pending_activation = retry], "full")

activate_surface(sh, token, app) ==
    Ask([sh EXCEPT !.overlay_mode = IF app \in Standard THEN "status" ELSE "hidden",
                   !.unsaid = FALSE],
        [kind |-> "activate_app", token |-> token])

StartedShell ==
    [up |-> TRUE, ended_by |-> "nobody", overlay_mode |-> "full", prompt |-> FALSE,
     banner |-> FALSE, power_dialog |-> FALSE, transient |-> FALSE, interrupted_overlay_mode |-> "full",
     notification_restore_mode |-> "full", system_action_restore_mode |-> "full",
     power_restore_mode |-> "full", pending_activation |-> NoSurface, apps |-> {}, unsaid |-> FALSE,
     sent |-> <<[kind |-> "register_surface"]>>]

EndedShell(by) == [StartedShell EXCEPT !.up = FALSE, !.sent = <<>>, !.ended_by = by]

------------------------------------------------------------------------------
wet_module_init ==
    [watch |-> <<>>, bound |-> FALSE, trusted |-> NoSurface, splash |-> NoSurface,
     active |-> NoSurface, overlay_mode |-> "full", reassert_idle |-> FALSE,
     next_app_token |-> 0, sent |-> <<>>]

Committed(p, s) == surface_committed(surface_created(p, s), s, TRUE)

\* The device has started, with its splash still there, and one application
\* has drawn its first frame; the two connections are quiet.
InitWith(a) ==
    LET splash == Committed(wet_module_init, SplashSurface)
        bound == shell_register_surface(bind_system_shell(surface_created(splash, ShellSurface)))
        drawn == Committed(surface_committed(bound, ShellSurface, TRUE), a)
    IN /\ policy = [reassert_layers(drawn) EXCEPT !.reassert_idle = FALSE, !.sent = <<>>]
       /\ shell = [handle_app_added(StartedShell, drawn.watch[a].token, a) EXCEPT !.sent = <<>>]
       /\ happened = 0

Init == \E a \in Apps : InitWith(a)

Happens == happened < MaxEvents /\ happened' = happened + 1

\* The splash ends when it likes.
SplashEnds ==
    /\ SplashSurface \in DOMAIN policy.watch
    /\ policy' = surface_destroyed(policy, SplashSurface)
    /\ UNCHANGED <<shell, happened>>

\* Nothing looks at a surface between its creation and its first commit.
AppCommits(a, mapped) ==
    /\ first_mapped_view(policy, a) # mapped /\ Happens
    /\ policy' = surface_committed(IF a \in DOMAIN policy.watch THEN policy
                                   ELSE surface_created(policy, a), a, mapped)
    /\ UNCHANGED shell

AppExits(a) ==
    /\ a \in DOMAIN policy.watch /\ Happens
    /\ policy' = surface_destroyed(policy, a)
    /\ UNCHANGED shell

ReassertIdle ==
    /\ policy.reassert_idle
    /\ policy' = reassert_layers(announce_apps([policy EXCEPT !.reassert_idle = FALSE]))
    /\ UNCHANGED <<shell, happened>>

SystemKey(action) ==
    /\ policy.bound /\ policy.trusted # NoSurface /\ Happens
    /\ policy' = dispatch_system_action(policy, action)
    /\ UNCHANGED shell

\* systemd starts the Shell again whenever it ends.
ShellStarts ==
    /\ ~shell.up
    /\ policy' = bind_system_shell(surface_created(policy, ShellSurface))
    /\ shell' = StartedShell
    /\ UNCHANGED happened

ShellDraws ==
    /\ policy.trusted = ShellSurface /\ ~first_mapped_view(policy, ShellSurface)
    /\ policy' = surface_committed(policy, ShellSurface, TRUE)
    /\ UNCHANGED <<shell, happened>>

ShellEnds ==
    /\ shell.up /\ Happens
    /\ policy' = Disconnect(policy)
    /\ shell' = EndedShell("itself")

Served(p, r) ==
    CASE r.kind = "register_surface" -> shell_register_surface(p)
      [] r.kind = "set_overlay_mode" -> shell_set_overlay_mode(p, r.mode)
      [] r.kind = "activate_app" -> shell_activate_app(p, r.token)

\* A request the policy takes for a violation of the protocol ends the Shell.
PolicyServes ==
    /\ shell.sent # <<>>
    /\ policy' = Served(policy, Head(shell.sent))
    /\ shell' = IF policy'.bound THEN [shell EXCEPT !.sent = Tail(@)]
                ELSE EndedShell("protocol error")
    /\ UNCHANGED happened

\* After a failed activation the Shell tries again if appd still has the
\* application in the foreground.
ShellReads ==
    /\ policy.sent # <<>>
    /\ policy' = [policy EXCEPT !.sent = Tail(@)]
    /\ LET e == Head(policy.sent)
       IN \/ e.kind = "app_added" /\ shell' = handle_app_added(shell, e.token, e.app)
          \/ e.kind = "app_removed" /\ shell' = handle_app_removed(shell, e.token)
          \/ /\ e.kind = "action"
             /\ \E taken \in BOOLEAN : shell' = handle_system_action(shell, e.action, taken)
          \/ /\ e.kind = "activation_failed"
             /\ \E retry \in {NoSurface} \cup {x[2] : x \in {y \in shell.apps : y[1] = e.token}} :
                    shell' = handle_activation_failed(shell, e.token, retry)
    /\ UNCHANGED happened

\* The owner opens an application from the full Shell: at once if it has a
\* surface, and otherwise when it gets one.
Open(a) ==
    /\ shell.up /\ shell.overlay_mode = "full" /\ ~shell.prompt /\ ~shell.power_dialog /\ Happens
    /\ LET known == {x \in shell.apps : x[2] = a}
       IN \/ \E x \in known : shell' = activate_surface(shell, x[1], a)
          \/ known = {} /\ shell' = [shell EXCEPT !.pending_activation = a]
    /\ UNCHANGED policy

maybe_activate_pending_task ==
    /\ \E x \in shell.apps :
          /\ x[2] = shell.pending_activation
          /\ shell' = activate_surface([shell EXCEPT !.pending_activation = NoSurface], x[1], x[2])
    /\ UNCHANGED <<policy, happened>>

\* appd has a prompt, perhaps another one than the Shell shows.
poll_permission_prompt ==
    /\ shell.up /\ Happens
    /\ LET calm == cancel_system_action(cancel_notification(shell, TRUE), TRUE)
       IN \/ shell' = SetMode([calm EXCEPT !.prompt = TRUE, !.power_dialog = FALSE,
                                  !.interrupted_overlay_mode = calm.overlay_mode], "full")
          \/ shell.prompt /\ shell' = ClosePrompt(shell)
    /\ UNCHANGED policy

poll_notification ==
    /\ shell.up /\ Happens
    /\ ~shell.prompt /\ ~shell.power_dialog /\ ~shell.banner /\ ~shell.transient
    /\ LET shown == [shell EXCEPT !.banner = TRUE, !.notification_restore_mode = shell.overlay_mode]
       IN shell' = IF shell.overlay_mode \in {"status", "hidden"}
                   THEN SetMode(shown, "notification") ELSE shown
    /\ UNCHANGED policy

update_notification_timer ==
    /\ shell.banner
    /\ shell' = cancel_notification(shell, TRUE)
    /\ UNCHANGED <<policy, happened>>

cp0_ui_tick ==
    /\ shell.transient
    /\ LET over == [shell EXCEPT !.transient = FALSE]
       IN shell' = IF shell.overlay_mode = "notification" /\ ~shell.banner
                   THEN SetMode(over, shell.system_action_restore_mode) ELSE over
    /\ UNCHANGED <<policy, happened>>

Next ==
    \/ SplashEnds \/ ReassertIdle
    \/ \E a \in Apps : AppExits(a) \/ Open(a)
    \/ \E a \in Apps, mapped \in BOOLEAN : AppCommits(a, mapped)
    \/ \E action \in {"home", "back", "power", "volume"} : SystemKey(action)
    \/ ShellStarts \/ ShellDraws \/ ShellEnds \/ PolicyServes \/ ShellReads
    \/ maybe_activate_pending_task \/ poll_permission_prompt \/ poll_notification
    \/ update_notification_timer \/ cp0_ui_tick

Spec == Init /\ [][Next]_vars
------------------------------------------------------------------------------
TypeOK ==
    /\ DOMAIN policy.watch \subseteq Apps \cup {ShellSurface, SplashSurface}
    /\ \A s \in DOMAIN policy.watch :
          policy.watch[s] \in [mapped : BOOLEAN, announced : BOOLEAN, token : 0..(TokenSpace - 1),
                               layer : {"none", "desktop", "trusted", "splash", "app", "hidden"}]
    /\ policy.active \in Apps \cup {NoSurface}
    /\ policy.overlay_mode \in Modes /\ shell.overlay_mode \in Modes
    /\ happened \in 0..MaxEvents

\* Once the event loop has been idle every view is on the layer of its role:
\* at most one application is to be seen, and none under the full Shell or
\* when the Shell is gone.  The screen is never without a picture: the Shell
\* makes room only for an application that is drawn.
Arranged ==
    /\ policy.reassert_idle \/ \A s \in DOMAIN policy.watch :
          policy.watch[s].mapped => policy.watch[s].layer = Layer(policy, s)
    /\ ~policy.bound => policy.overlay_mode = "full"
    /\ policy.overlay_mode # "full" => first_mapped_view(policy, policy.active)

\* Tokens tell surfaces apart, only applications that can be shown have been
\* announced, and what the Shell will know once it has read its events is
\* exactly the announced applications.
Told ==
    LET Known(apps, e) == CASE e.kind = "app_added" -> apps \cup {<<e.token, e.app>>}
                            [] e.kind \in {"app_removed", "activation_failed"} ->
                                  {a \in apps : a[1] # e.token}
                            [] OTHER -> apps
        announced == {s \in DOMAIN policy.watch : policy.watch[s].announced}
    IN /\ \A s, t \in DOMAIN policy.watch :
             policy.watch[s].token = policy.watch[t].token => s = t \/ policy.watch[s].token = 0
       /\ \A s \in announced :
             s \in Apps /\ policy.watch[s].mapped /\ policy.watch[s].token # 0
       /\ policy.bound =>
             FoldLeft(Known, shell.apps, policy.sent)
                = {<<policy.watch[s].token, s>> : s \in announced}

\* When each has read what the other wrote, the Shell draws for the mode the
\* policy is in, a withdrawal under a banner excepted.
ModesAgree ==
    policy.bound /\ policy.sent = <<>> /\ shell.sent = <<>> /\ ~shell.unsaid
        => shell.overlay_mode = policy.overlay_mode

\* An application that ends while the Shell is activating it costs the Shell
\* a row of its list and not its connection (docs/PHASE2C-WINDOW-SWITCHING.md).
\* Does not hold: see the run shell_activation_race.
ShellStaysConnected == shell.ended_by # "protocol error"

\* When the policy and the Shell have heard each other out they agree on mode
\* and applications, the layers show what the mode says, and a mode that is not
\* full has an application behind it (arrange, set_overlay_mode, unmap).
SceneSound == TypeOK /\ ModesAgree /\ Arranged /\ Told
==============================================================================
