----------------------------- MODULE Provisioning -----------------------------
(***************************************************************************)
(* First-boot setup and owner maintenance: cp0-provisiond, a daemon with   *)
(* one thread that serves one command of the system shell at a time, and   *)
(* the systemd units that start sshd from the files it leaves.             *)
(*                                                                         *)
(* A command is a sequence of durable writes, each atomic (temporary file, *)
(* fsync, rename, directory fsync), and the power can go between any two   *)
(* of them.  A write can also fail, before the rename or after it.  What a *)
(* command does after a failed write - undo, carry on, give up - is part   *)
(* of the write, in its field `fail'.                                      *)
(***************************************************************************)
EXTENDS Naturals, Sequences

CONSTANTS
    Owners,         \* user names the owner may choose
    Regions,        \* locale, country, time zone and host name, as one value
    Passwords,
    None

VARIABLES
    disk,           \* the durable files, by name
    sshd,           \* ssh.service is running
    refresh,        \* the path unit has seen a change it has not handled
    job,            \* the command being served
    consent         \* the owner asked for the SSH shell and has not withdrawn it

vars == <<disk, sshd, refresh, job, consent>>

Phases == <<"unprovisioned", "owner", "password-ready", "network", "remote-access", "review",
            "committing", "complete", "repair-required">>
Rank(phase) == CHOOSE i \in DOMAIN Phases : Phases[i] = phase
AtLeast(s, phase) == Rank(s.phase) >= Rank(phase)

\* A group file: who it belongs to and whether the owner is in cp0-ssh.
Membership == [name : Owners \cup {None}, member : BOOLEAN]

State == [phase : {Phases[i] : i \in DOMAIN Phases}, region : Regions \cup {None},
          owner : Owners \cup {None}, password : BOOLEAN, network : BOOLEAN, ssh : BOOLEAN]

Write(file, to) == [file |-> file, to |-> to, fail |-> <<>>]
OrElse(write, steps) == [write EXCEPT !.fail = steps]

Idle == [todo |-> <<>>, failed |-> FALSE, final |-> FALSE, asks |-> "nothing"]

Init ==
    /\ disk = [state |-> [phase |-> "unprovisioned", region |-> None, owner |-> None,
                          password |-> FALSE, network |-> FALSE, ssh |-> FALSE],
               passwd |-> None,
               shadow |-> [name |-> None, hash |-> None],
               group |-> [name |-> None, member |-> FALSE],
               gshadow |-> [name |-> None, member |-> FALSE],
               region |-> None,
               ssh_marker |-> FALSE, complete |-> FALSE, developer |-> FALSE]
    /\ sshd = FALSE /\ refresh = FALSE /\ consent = FALSE
    /\ job = Idle

----------------------------------------------------------------------------
(* What the daemon makes of the files it finds                             *)

\* The identity files agree with the state document.
verify(d) ==
    LET s == d.state
        is(member) == d.group = [name |-> s.owner, member |-> member] /\ d.gshadow = d.group
    IN  IF s.owner = None
        THEN ~AtLeast(s, "password-ready")
        ELSE /\ d.passwd = s.owner
             /\ s.password => d.shadow.name = s.owner /\ d.shadow.hash \in Passwords
             /\ CASE ~s.ssh                     -> is(FALSE)
                  [] s.ssh /\ s.phase = "review" -> is(FALSE) \/ is(TRUE)
                  [] OTHER                       -> is(AtLeast(s, "committing"))

status(d) ==
    LET s == d.state
        matches == s.ssh = d.ssh_marker
        phase == CASE ~verify(d)                                          -> "repair-required"
                   [] verify(d) /\ s.phase = "committing" ->
                        IF d.complete /\ matches THEN "complete"
                        ELSE IF ~d.complete THEN "review" ELSE "repair-required"
                   [] verify(d) /\ s.phase = "complete" ->
                        IF ~d.complete THEN "review"
                        ELSE IF matches THEN "complete" ELSE "repair-required"
                   [] OTHER -> IF d.complete THEN "repair-required" ELSE s.phase
    IN  [s EXCEPT !.phase = phase]

\* status() saves what it recovered, and only that.
Recovery(d) ==
    LET s == status(d)
    IN  IF s.phase \notin {d.state.phase, "repair-required"} THEN <<Write("state", s)>> ELSE <<>>

----------------------------------------------------------------------------
(* The writes of the commands, for the recovered state s                   *)

save(s) == <<Write("state", s)>>
configure_ssh(enabled) == <<Write("ssh_marker", enabled)>>
activate_ssh(enabled) == <<Write("sshd", enabled)>>
set_ssh_membership(s, enabled) ==
    LET to == [name |-> s.owner, member |-> enabled]
    IN  <<Write("group", to), Write("gshadow", to)>>
apply_region(s) == <<Write("region", s.region)>>

create_locked_owner(owner) ==
    <<Write("passwd", owner),
      Write("shadow", [name |-> owner, hash |-> "locked"]),
      Write("group", [name |-> owner, member |-> FALSE]),
      Write("gshadow", [name |-> owner, member |-> FALSE])>>

\* ensure_empty_or_owner_file
MayOwn(owner) == disk.passwd \in {None, owner}

\* Every write of `steps' falls back to `fail'.
Each(steps, fail) == [i \in DOMAIN steps |-> OrElse(steps[i], fail)]

\* Undoing ignores its own failures; a membership half undone is left there.
Undo(s, previous, withSshd) ==
    LET stop == IF withSshd THEN activate_ssh(previous) ELSE <<>>
        marker == Each(configure_ssh(previous), stop) \o stop
    IN  IF withSshd THEN Each(set_ssh_membership(s, previous), marker) \o marker ELSE marker

change_completed_ssh(s, enabled) ==
    IF s.ssh = enabled
    THEN configure_ssh(enabled) \o set_ssh_membership(s, enabled) \o activate_ssh(enabled)
    ELSE configure_ssh(enabled)
         \o Each(set_ssh_membership(s, enabled), Undo(s, s.ssh, FALSE))
         \o Each(activate_ssh(enabled), Undo(s, s.ssh, TRUE))
         \o Each(save([s EXCEPT !.ssh = enabled]), Undo(s, s.ssh, TRUE))

\* Fault: the completion marker is written before Committing is recorded.
Fault_CommitOrder(s) ==
    LET done == save([s EXCEPT !.phase = "complete"])
    IN  apply_region(s) \o configure_ssh(s.ssh) \o set_ssh_membership(s, s.ssh)
        \o <<Write("complete", TRUE)>>
        \o save([s EXCEPT !.phase = "committing"])
        \o Each(activate_ssh(s.ssh), done) \o done

CommitSteps(s) ==
    LET done == save([s EXCEPT !.phase = "complete"])
    IN  apply_region(s) \o configure_ssh(s.ssh) \o set_ssh_membership(s, s.ssh)
        \o save([s EXCEPT !.phase = "committing"])
        \o <<Write("complete", TRUE)>>
        \o Each(activate_ssh(s.ssh), done) \o done

----------------------------------------------------------------------------
(* The commands                                                            *)

\* A command starts from the recovered state; it is refused when there is
\* something to repair, and a refused command has still saved the recovery.
Serve(steps, asks) ==
    LET todo == Recovery(disk) \o steps
    IN  /\ job.todo = <<>> /\ todo # <<>>
        /\ job' = [Idle EXCEPT !.todo = todo, !.asks = asks]
        /\ UNCHANGED <<disk, sshd, refresh>>

GetStatus == Serve(<<>>, "nothing") /\ UNCHANGED consent

SetRegion(region) ==
    LET s == status(disk)
        new == [s EXCEPT !.region = region, !.phase = "owner"]
    IN  /\ ~AtLeast(s, "password-ready") /\ s.region # region
        /\ Serve(apply_region(new) \o save(new), "nothing")
        /\ UNCHANGED consent

SetOwner(owner) ==
    LET s == status(disk)
    IN  /\ s.phase = "owner" /\ s.owner \in {None, owner} /\ MayOwn(owner)
        /\ Serve(create_locked_owner(owner)
                   \o save([s EXCEPT !.owner = owner, !.phase = "password-ready"]), "nothing")
        /\ UNCHANGED consent

SetPassword(password) ==
    LET s == status(disk)
    IN  /\ s.phase = "password-ready" /\ disk.passwd = s.owner
        /\ Serve(<<Write("shadow", [name |-> s.owner, hash |-> password])>>
                   \o save([s EXCEPT !.password = TRUE, !.phase = "network"]), "nothing")
        /\ UNCHANGED consent

\* ConnectWifi, UseEthernet and UseOffline; after setup only ConnectWifi.
ChooseNetwork ==
    LET s == status(disk)
        chosen == [s EXCEPT !.network = TRUE]
    IN  /\ AtLeast(s, "network") /\ s.phase # "repair-required"
        /\ Serve(save(IF s.phase = "complete" THEN chosen
                      ELSE [chosen EXCEPT !.phase = "remote-access"]), "nothing")
        /\ UNCHANGED consent

SetSshEnabled(enabled) ==
    LET s == status(disk)
    IN  /\ AtLeast(s, "remote-access") /\ s.phase # "repair-required"
        /\ Serve(IF s.phase = "complete" THEN change_completed_ssh(s, enabled)
                 ELSE save([s EXCEPT !.ssh = enabled, !.phase = "review"]),
                 IF enabled THEN "ssh" ELSE "no ssh")
        /\ consent' = (consent \/ enabled)

Commit ==
    LET s == status(disk)
    IN  /\ s.phase = "review"
        /\ Serve(CommitSteps(s), "nothing")
        /\ UNCHANGED consent

\* change_password: the old password is checked before anything is written.
ChangePassword(old, new) ==
    LET s == status(disk)
    IN  /\ s.phase = "complete" /\ disk.shadow = [name |-> s.owner, hash |-> old]
        /\ Serve(<<Write("shadow", [name |-> s.owner, hash |-> new])>>, "nothing")
        /\ UNCHANGED consent

----------------------------------------------------------------------------
(* A write of the command being served                                     *)

\* The gate of ssh.service, in terms of the files it tests.
access_allowed(d) == d.complete /\ (d.ssh_marker \/ d.developer)

\* The path unit watches the directories of these files.
Watched == {"state", "ssh_marker", "complete", "developer"}

\* Removing a marker that is not there cannot fail.
CanFail(w) == ~(w.file = "ssh_marker" /\ ~w.to /\ ~disk.ssh_marker)

\* The job after a write: the next one, or, after a failure, what the write
\* falls back to.  A command that failed looks at the status once more.
After(w, ok, d) ==
    LET rest == IF ok THEN Tail(job.todo) ELSE w.fail
        failed == job.failed \/ ~ok
        again == failed /\ ~job.final /\ rest = <<>>
        todo == IF again THEN Recovery(d) ELSE rest
    IN  IF todo = <<>> THEN Idle
        ELSE [job EXCEPT !.todo = todo, !.failed = failed, !.final = job.final \/ again]

\* One write: done, failed with nothing written, or failed once written (a
\* regional setting, which is several files, is then half applied).
Step(ok, effect) ==
    LET w == Head(job.todo)
        to == IF w.file = "region" /\ ~ok THEN "mixed" ELSE w.to
        d == IF effect /\ w.file # "sshd" THEN [disk EXCEPT ![w.file] = to] ELSE disk
    IN  /\ job.todo # <<>>
        /\ ok => effect
        /\ ok \/ CanFail(w)
        /\ disk' = d
        /\ sshd' = IF effect /\ w.file = "sshd" THEN w.to /\ access_allowed(disk) ELSE sshd
        /\ refresh' = (refresh \/ (effect /\ w.file \in Watched))
        /\ job' = After(w, ok, d)
        /\ consent' = (consent /\ ~(job.asks = "no ssh" /\ job' = Idle /\ ok /\ ~job.failed))

\* The daemon is killed, and started again by its socket.
Killed ==
    /\ job.todo # <<>>
    /\ job' = Idle
    /\ UNCHANGED <<disk, sshd, refresh, consent>>

\* Power is lost and comes back: the generator decides whether sshd starts,
\* and apply_boot_configuration runs before the shell can send a command.
Reboot ==
    LET s == status(disk)
        apply == IF s.phase = "complete" THEN apply_region(s) \o configure_ssh(s.ssh) ELSE <<>>
    IN  /\ job' = [Idle EXCEPT !.todo = IF disk.complete THEN Recovery(disk) \o apply ELSE <<>>]
        /\ sshd' = access_allowed(disk)
        /\ refresh' = FALSE
        /\ UNCHANGED <<disk, consent>>

\* cardputerzero-ssh-access.path; starting sshd may fail.
RefreshAccess ==
    /\ refresh
    /\ refresh' = FALSE
    /\ sshd' \in {FALSE, access_allowed(disk)}
    /\ UNCHANGED <<disk, job, consent>>

\* The owner switches Developer Mode in the shell; appd keeps the marker.
SetDeveloperMode ==
    /\ disk.complete
    /\ disk' = [disk EXCEPT !.developer = ~@]
    /\ refresh' = TRUE
    /\ UNCHANGED <<sshd, job, consent>>

Next ==
    \/ GetStatus
    \/ \E region \in Regions : SetRegion(region)
    \/ \E owner \in Owners : SetOwner(owner)
    \/ \E password \in Passwords : SetPassword(password)
    \/ ChooseNetwork
    \/ \E enabled \in BOOLEAN : SetSshEnabled(enabled)
    \/ Commit
    \/ \E old, new \in Passwords : ChangePassword(old, new)
    \/ \E ok, effect \in BOOLEAN : Step(ok, effect)
    \/ Killed
    \/ Reboot
    \/ RefreshAccess
    \/ SetDeveloperMode

Spec == Init /\ [][Next]_vars

----------------------------------------------------------------------------
(* Properties                                                              *)

TypeOK ==
    /\ disk.state \in State
    /\ disk.passwd \in Owners \cup {None}
    /\ disk.shadow \in [name : Owners \cup {None}, hash : Passwords \cup {None, "locked"}]
    /\ disk.group \in Membership /\ disk.gshadow \in Membership
    /\ disk.region \in Regions \cup {None, "mixed"}
    /\ \A f \in {"ssh_marker", "complete", "developer"} : disk[f] \in BOOLEAN
    /\ sshd \in BOOLEAN /\ refresh \in BOOLEAN /\ consent \in BOOLEAN
    /\ job.failed \in BOOLEAN /\ job.final \in BOOLEAN

\* Wherever the power goes, the files never name two owners: a setup that is
\* taken up again with another name is refused (create_locked_owner).
OneOwner ==
    \A a, b \in {disk.state.owner, disk.passwd, disk.shadow.name, disk.group.name,
                 disk.gshadow.name} \ {None} : a = b

\* A password the state document records is never lost again.
PasswordKept == disk.state.password => disk.shadow.hash \in Passwords

\* The completion marker opens Home: it is there only when every page was
\* answered, and the region in force is not one the owner gave up.
CompleteIsWhole ==
    disk.complete => /\ disk.state.phase \in {"committing", "complete"}
                     /\ disk.state.password /\ disk.state.network
                     /\ disk.region \in {disk.state.region, "mixed"}

\* Once Committing is recorded every crash point leads on: to Complete when
\* the completion marker was written, to Review when it was not.
CommittingRecovers ==
    disk.state.phase = "committing" =>
        status(disk).phase = IF disk.complete THEN "complete" ELSE "review"

\* sshd runs only on a completed device, and only because the owner asked for
\* the SSH shell and has not since been told it is off, or switched Developer
\* Mode on; the path unit may still owe a stop.
RemoteAccessConsented ==
    /\ sshd => disk.complete /\ (refresh \/ consent \/ disk.developer)
    /\ disk.complete /\ disk.ssh_marker => consent

\* What setup and the SSH switch leave behind at every crash point and every
\* failed write.
SetupSound ==
    /\ TypeOK
    /\ OneOwner /\ PasswordKept /\ CompleteIsWhole /\ CommittingRecovers /\ RemoteAccessConsented

\* docs/FIRST-BOOT-PROVISIONING.md: Review accepts a membership that an earlier
\* commit left behind, so that a failed commit can be retried and is not taken
\* for identity corruption.
CommitRetryable ==
    job.todo = <<>> /\ ~disk.complete => status(disk).phase # "repair-required"

===============================================================================
