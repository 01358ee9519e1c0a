----------------------------- MODULE StorePortal -----------------------------
(***************************************************************************)
(* Signing in to the developer portal: accounts, the identities of outside *)
(* providers linked to them, browser sessions, and the OIDC transactions   *)
(* that carry a login, a step-up or the linking of a further identity to   *)
(* the provider and back.  A callback reads its transaction, talks to the  *)
(* provider outside any database transaction, and commits later; several   *)
(* callbacks of one transaction can be on their way.  Each database        *)
(* transaction is SERIALIZABLE and is one step here, with the triggers it  *)
(* fires.  An account is named by its verified e-mail address, a link by   *)
(* the identity it links, a deadline by whether it has passed.             *)
(***************************************************************************)
EXTENDS Naturals, FiniteSets

CONSTANTS
    Accounts, Identities, Sessions, Transactions,
    EmailOf,            \* the account an identity's e-mail address stands for
    MaxLinks,           \* active links of an account
    MaxExchanging,      \* bound: callbacks on their way at once
    None

VARIABLES
    account,            \* each account: "none", "active" or "disabled"
    link,               \* of each identity: the account and the link's state
    session, oidc,
    exchanging          \* callbacks back from the provider, not yet committed

vars == <<account, link, session, oidc, exchanging>>

Init ==
    /\ account = [a \in Accounts |-> "none"]
    /\ link = [i \in Identities |-> [account |-> None, state |-> "none"]]
    /\ session = [s \in Sessions |-> [state |-> "none", account |-> None, link |-> None,
                                      lapsed |-> FALSE, fresh |-> FALSE, by |-> None]]
    /\ oidc = [t \in Transactions |-> [state |-> "none", intent |-> None,
                                       session |-> None, lapsed |-> FALSE]]
    /\ exchanging = {}

ActiveLinks(a) == {i \in Identities : link[i] = [account |-> a, state |-> "active"]}

\* ensure_active_session: an active session past a deadline is marked expired.
Usable(s) == session[s].state = "active" /\ ~session[s].lapsed
Overdue(s) == session[s].state = "active" /\ session[s].lapsed

Ended(ss, to) == [s \in Sessions |-> IF s \in ss /\ session[s].state = "active"
                                     THEN [session[s] EXCEPT !.state = to] ELSE session[s]]

\* The trigger on a session that ends: its pending transactions expire.
expire_oidc_transactions_for_ended_session(o, ss) ==
    [t \in Transactions |->
        IF o[t].state = "pending" /\ o[t].session \in ss /\ session[o[t].session].state = "active"
        THEN [o[t] EXCEPT !.state = "expired"] ELSE o[t]]

expire_oidc_transactions(o) ==
    [t \in Transactions |-> IF o[t].state = "pending" /\ o[t].lapsed
                            THEN [o[t] EXCEPT !.state = "expired"] ELSE o[t]]

End(ss, to) ==
    /\ session' = Ended(ss, to)
    /\ oidc' = expire_oidc_transactions_for_ended_session(oidc, ss)

----------------------------------------------------------------------------
(* Starting a transaction                                                  *)

Pending(intent, s) == [state |-> "pending", intent |-> intent, session |-> s, lapsed |-> FALSE]

begin_login(t) ==
    /\ oidc[t].state = "none"
    /\ oidc' = [expire_oidc_transactions(oidc) EXCEPT ![t] = Pending("login", None)]
    /\ UNCHANGED <<account, link, session, exchanging>>

\* A repeated request with the same key finds its pending transaction again.
begin_step_up(s, t) ==
    /\ oidc[t].state = "none" /\ Usable(s)
    /\ oidc' = [expire_oidc_transactions(oidc) EXCEPT ![t] = Pending("step-up", s)]
    /\ UNCHANGED <<account, link, session, exchanging>>

begin_step_up_expired(s) ==
    /\ Overdue(s)
    /\ session' = Ended({s}, "expired")
    /\ oidc' = expire_oidc_transactions_for_ended_session(expire_oidc_transactions(oidc), {s})
    /\ UNCHANGED <<account, link, exchanging>>

begin_identity_link(s, t) ==
    /\ oidc[t].state = "none" /\ Usable(s)
    /\ account[session[s].account] = "active"
    /\ Cardinality(ActiveLinks(session[s].account)) < MaxLinks
    /\ oidc' = [expire_oidc_transactions(oidc) EXCEPT ![t] = Pending("link", s)]
    /\ UNCHANGED <<account, link, session, exchanging>>

----------------------------------------------------------------------------
(* The callback                                                            *)

\* The provider vouches for identity i.
Exchange(t, i) ==
    /\ oidc[t].state = "pending" /\ ~oidc[t].lapsed
    /\ Cardinality(exchanging) < MaxExchanging
    /\ exchanging' = exchanging \union {[txn |-> t, identity |-> i]}
    /\ UNCHANGED <<account, link, session, oidc>>

\* The provider refuses, or the e-mail address is unverified.  The exchange
\* started while the transaction was pending; another callback may have
\* finished it since.
terminally_expire_oidc(t) ==
    /\ oidc[t].state = "pending"
    /\ oidc' = [oidc EXCEPT ![t].state = "expired"]
    /\ UNCHANGED <<account, link, session, exchanging>>

\* Fault: the transaction is not looked at again after the exchange.
Fault_Open(t) == oidc[t].state # "none"

\* The transaction as complete_callback reads it again under its lock.
Open(t) == oidc[t].state = "pending" /\ ~oidc[t].lapsed

\* The session that asked is revoked and a new one takes its place.
Rotated(c) == IF oidc[c.txn].session = None THEN session
                 ELSE Ended({oidc[c.txn].session}, "revoked")

\* The transaction is consumed, the session that asked gives way to session s.
Complete(c, s, a, i, fresh) ==
    /\ session[s].state = "none"
    /\ session' = [Rotated(c) EXCEPT ![s] =
                        [state |-> "active", account |-> a, link |-> i, lapsed |-> FALSE,
                         fresh |-> fresh, by |-> c.txn]]
    /\ oidc' = expire_oidc_transactions_for_ended_session(
                    [oidc EXCEPT ![c.txn].state = "consumed"], {oidc[c.txn].session} \ {None})
    /\ exchanging' = exchanging \ {c}

CompleteLogin(c, s) ==
    LET i == c.identity
        a == IF link[i].state = "none" THEN EmailOf[i] ELSE link[i].account
    IN  /\ Open(c.txn) /\ oidc[c.txn].intent = "login"
        /\ \/ link[i].state = "active" /\ account[a] = "active"
              /\ UNCHANGED <<account, link>>
           \/ link[i].state = "none" /\ account[a] = "none"
              /\ account' = [account EXCEPT ![a] = "active"]
              /\ link' = [link EXCEPT ![i] = [account |-> a, state |-> "active"]]
        /\ \E fresh \in BOOLEAN : Complete(c, s, a, i, fresh)

\* Step-up: the same identity, with a second factor of the last 300 seconds.
CompleteStepUp(c, s) ==
    LET old == oidc[c.txn].session
    IN  /\ Open(c.txn) /\ oidc[c.txn].intent = "step-up"
        /\ Usable(old) /\ session[old].link = c.identity
        /\ Complete(c, s, session[old].account, session[old].link, TRUE)
        /\ UNCHANGED <<account, link>>

CompleteStepUpExpired(c) ==
    /\ Open(c.txn) /\ oidc[c.txn].intent = "step-up"
    /\ Overdue(oidc[c.txn].session)
    /\ End({oidc[c.txn].session}, "expired")
    /\ exchanging' = exchanging \ {c}
    /\ UNCHANGED <<account, link>>

complete_identity_link_callback(c, s) ==
    LET old == oidc[c.txn].session
        a == session[old].account
    IN  /\ Open(c.txn) /\ oidc[c.txn].intent = "link"
        /\ Usable(old) /\ link[c.identity].state = "none" /\ account[a] = "active"
        /\ Cardinality(ActiveLinks(a)) < MaxLinks
        /\ link' = [link EXCEPT ![c.identity] = [account |-> a, state |-> "active"]]
        /\ \E fresh \in BOOLEAN : Complete(c, s, a, c.identity, fresh)
        /\ UNCHANGED account

\* The commit is refused or fails; nothing of it stays.
Refused(c) ==
    /\ exchanging' = exchanging \ {c}
    /\ UNCHANGED <<account, link, session, oidc>>

complete_callback(c) ==
    \/ \E s \in Sessions : \/ CompleteLogin(c, s) \/ CompleteStepUp(c, s)
                           \/ complete_identity_link_callback(c, s)
    \/ CompleteStepUpExpired(c)
    \/ Refused(c)

----------------------------------------------------------------------------
(* Sessions and links                                                      *)

\* Reading an overdue session marks it; reading a live one moves its deadline.
get_session(s) ==
    /\ Overdue(s) /\ End({s}, "expired")
    /\ UNCHANGED <<account, link, exchanging>>

logout(s) ==
    /\ session[s].state = "active" /\ End({s}, "revoked")
    /\ UNCHANGED <<account, link, exchanging>>

SessionsOn(i) == {s \in Sessions : session[s].link = i}

\* The trigger on the link revokes the sessions signed in through it.
remove_identity_link(s, i) ==
    /\ Usable(s) /\ session[s].fresh
    /\ account[session[s].account] = "active"
    /\ i \in ActiveLinks(session[s].account)
    /\ Cardinality(ActiveLinks(session[s].account)) > 1
    /\ link' = [link EXCEPT ![i].state = "revoked"]
    /\ End(SessionsOn(i), "revoked")
    /\ UNCHANGED <<account, exchanging>>

\* No code of the repository disables an account; the trigger that revokes its
\* sessions is there for whoever does.
DisableAccount(a) ==
    /\ account[a] = "active"
    /\ account' = [account EXCEPT ![a] = "disabled"]
    /\ End({s \in Sessions : session[s].account = a}, "revoked")
    /\ UNCHANGED <<link, exchanging>>

\* Time: the idle or absolute deadline of a session, the age of its second
\* factor, the deadline of a transaction.
SessionDeadline(s) ==
    /\ Usable(s)
    /\ session' = [session EXCEPT ![s].lapsed = TRUE, ![s].fresh = FALSE]
    /\ UNCHANGED <<account, link, oidc, exchanging>>

FactorAges(s) ==
    /\ Usable(s) /\ session[s].fresh
    /\ session' = [session EXCEPT ![s].fresh = FALSE]
    /\ UNCHANGED <<account, link, oidc, exchanging>>

TransactionDeadline(t) ==
    /\ oidc[t].state = "pending" /\ ~oidc[t].lapsed
    /\ oidc' = [oidc EXCEPT ![t].lapsed = TRUE]
    /\ UNCHANGED <<account, link, session, exchanging>>

Next ==
    \/ \E t \in Transactions :
        \/ begin_login(t) \/ terminally_expire_oidc(t) \/ TransactionDeadline(t)
        \/ \E s \in Sessions : begin_step_up(s, t) \/ begin_identity_link(s, t)
        \/ \E i \in Identities : Exchange(t, i)
    \/ \E c \in exchanging : complete_callback(c)
    \/ \E s \in Sessions :
        \/ begin_step_up_expired(s) \/ get_session(s) \/ logout(s)
        \/ SessionDeadline(s) \/ FactorAges(s)
        \/ \E i \in Identities : remove_identity_link(s, i)
    \/ \E a \in Accounts : DisableAccount(a)

Spec == Init /\ [][Next]_vars

----------------------------------------------------------------------------
(* Properties                                                              *)

TypeOK ==
    /\ account \in [Accounts -> {"none", "active", "disabled"}]
    /\ link \in [Identities -> [account : Accounts \union {None},
                                state : {"none", "active", "revoked"}]]
    /\ session \in [Sessions -> [state : {"none", "active", "revoked", "expired"},
                                 account : Accounts \union {None},
                                 link : Identities \union {None}, lapsed : BOOLEAN,
                                 fresh : BOOLEAN, by : Transactions \union {None}]]
    /\ oidc \in [Transactions -> [state : {"none", "pending", "consumed", "expired"},
                                  intent : {"login", "step-up", "link", None},
                                  session : Sessions \union {None}, lapsed : BOOLEAN]]
    /\ exchanging \subseteq [txn : Transactions, identity : Identities]

\* A session that still works belongs to an active account and was signed in
\* through a link of that account that is still active: removing a link or
\* disabling an account leaves no session behind, not even one whose callback
\* was on its way (portal_sessions_identity_binding and the two triggers that
\* revoke sessions).
SessionsAreBacked ==
    \A s \in Sessions : session[s].state = "active" =>
        /\ account[session[s].account] = "active"
        /\ link[session[s].link] = [account |-> session[s].account, state |-> "active"]

\* An account keeps between one and MaxLinks ways to sign in, whatever links
\* are being added and removed by sessions of it at the same time.
AccountsStayReachable ==
    \A a \in Accounts : account[a] # "none" => Cardinality(ActiveLinks(a)) \in 1..MaxLinks

\* A transaction makes exactly one session, when it is consumed; callbacks
\* that raced for it make none.
OneSessionPerTransaction ==
    \A t \in Transactions :
        Cardinality({s \in Sessions : session[s].by = t})
            = (IF oidc[t].state = "consumed" THEN 1 ELSE 0)

\* A transaction waits only for a session that still works, so a step-up or a
\* link cannot come back to a browser that has been signed out since.
TransactionsFollowSession ==
    \A t \in Transactions :
        oidc[t].state = "pending" /\ oidc[t].session # None
            => session[oidc[t].session].state = "active"

\* A session that a step-up or a link made carries on the account that asked
\* for it, and the session that asked is over.
RotationKeepsAccount ==
    \A s \in Sessions :
        session[s].by # None /\ oidc[session[s].by].session # None
            => LET old == oidc[session[s].by].session
               IN  old # s /\ session[old].account = session[s].account
                   /\ session[old].state \in {"revoked", "expired"}

\* Signing in and linking identities: sessions rest on live links, an account
\* stays reachable, and a transaction gives one session, however callbacks,
\* rotations and removals interleave.
PortalSound ==
    /\ TypeOK /\ SessionsAreBacked /\ AccountsStayReachable /\ OneSessionPerTransaction
    /\ TransactionsFollowSession /\ RotationKeepsAccount

------------------------------------------------------------------------------
(***************************************************************************)
(* A developer team: its members, the invitations that bring new ones in   *)
(* and the worker that mails them, the access tokens of its members, and   *)
(* the device codes with which a command-line client obtains a token.      *)
(* Invitations go through portal sessions, changes of membership through   *)
(* access tokens of the control server; both work on the same rows, and a  *)
(* membership that is lost takes sessions and tokens with it.  The mailer  *)
(* is called between two database transactions.                            *)
(***************************************************************************)

CONSTANTS
    Founder,            \* the account of the team's first owner
    Invitations, Tokens, Codes,
    MaxTeam,            \* members and pending invitations of a team
    MaxAttempts,        \* MAX_ATTEMPTS to mail an invitation
    MaxCodes            \* MAX_ACTIVE_DEVICE_AUTHORIZATIONS

VARIABLES
    member,             \* each account's membership of the team
    invitation,
    mailing,            \* leases whose mail is on its way
    token,
    code                \* device authorizations

teams_vars == <<account, link, session, oidc, exchanging, member, invitation, mailing, token, code>>

TeamUnchanged == UNCHANGED <<member, invitation, mailing, token, code>>
PortalUnchanged == UNCHANGED <<account, link, session, oidc, exchanging>>

InvitedRoles == {"developer", "viewer"}
Roles == InvitedRoles \union {"owner"}

ActiveOwners == {a \in Accounts : member[a].state = "active" /\ member[a].role = "owner"}
Live(a) == member[a].state \in {"active", "suspended"}
Awaited == {v \in Invitations : invitation[v].state = "pending"}

TeamEmpty ==
    /\ member = [a \in Accounts |->
                    IF a = Founder THEN [state |-> "active", role |-> "owner", two_factor |-> TRUE]
                                   ELSE [state |-> "none", role |-> None, two_factor |-> FALSE]]
    /\ invitation = [v \in Invitations |->
                        [state |-> "none", email |-> None, role |-> None, lapsed |-> FALSE,
                         delivery |-> "none", attempts |-> 0, expired_lease |-> FALSE,
                         mailed |-> FALSE]]
    /\ mailing = {}
    /\ token = [k \in Tokens |-> [state |-> "none", member |-> None, scope |-> None,
                                  role |-> None, code |-> None]]
    /\ code = [q \in Codes |-> [state |-> "none", member |-> None, lapsed |-> FALSE]]

----------------------------------------------------------------------------
(* Invitations                                                             *)

\* A session of an active owner with a second factor, enrolled and fresh.
require_owner(s) ==
    /\ Usable(s) /\ session[s].fresh
    /\ session[s].account \in ActiveOwners /\ member[session[s].account].two_factor

create_invitation(s, v, a, role) ==
    /\ require_owner(s)
    /\ invitation[v].state = "none"
    /\ member[a].state = "none"
    /\ \A w \in Awaited : invitation[w].email # a
    /\ Cardinality({b \in Accounts : Live(b)}) + Cardinality(Awaited) < MaxTeam
    /\ invitation' = [invitation EXCEPT ![v] =
                        [@ EXCEPT !.state = "pending", !.email = a, !.role = role,
                                  !.delivery = "pending"]]
    /\ UNCHANGED <<member, mailing, token, code>> /\ PortalUnchanged

\* An invitation that is decided takes its mail off the queue.
cancel_delivery(v, to) ==
    [invitation EXCEPT ![v].state = to,
                       ![v].delivery = IF @ \in {"pending", "leased"} THEN "cancelled" ELSE @]

cancel_invitation(s, v) ==
    /\ require_owner(s)
    /\ invitation[v].state = "pending" /\ ~invitation[v].lapsed
    /\ invitation' = cancel_delivery(v, "cancelled")
    /\ UNCHANGED <<member, mailing, token, code>> /\ PortalUnchanged

\* The session that accepts gives way to session s2, with the age of its
\* second factor.
rotate_session(s, s2) ==
    /\ session[s2].state = "none"
    /\ session' = [Ended({s}, "revoked") EXCEPT ![s2] =
                        [session[s] EXCEPT !.lapsed = FALSE, !.by = None]]
    /\ oidc' = expire_oidc_transactions_for_ended_session(oidc, {s})

accept_invitation(s, v, s2) ==
    /\ Usable(s)
    /\ invitation[v].state = "pending" /\ ~invitation[v].lapsed
    /\ invitation[v].email = session[s].account
    /\ member[session[s].account].state = "none"
    /\ member' = [member EXCEPT ![session[s].account] =
                    [state |-> "active", role |-> invitation[v].role, two_factor |-> FALSE]]
    /\ invitation' = cancel_delivery(v, "accepted")
    /\ rotate_session(s, s2)
    /\ UNCHANGED <<mailing, token, code, account, link, exchanging>>

----------------------------------------------------------------------------
(* The worker that mails invitations                                       *)

expire_one(v) ==
    /\ invitation[v].state = "pending" /\ invitation[v].lapsed
    /\ invitation' = cancel_delivery(v, "expired")
    /\ UNCHANGED <<member, mailing, token, code>> /\ PortalUnchanged

lease(v) ==
    /\ invitation[v].state = "pending" /\ ~invitation[v].lapsed
    /\ \/ invitation[v].delivery = "pending"
       \/ invitation[v].delivery = "leased" /\ invitation[v].expired_lease
    /\ invitation[v].attempts < MaxAttempts
    /\ invitation' = [invitation EXCEPT ![v].delivery = "leased", ![v].attempts = @ + 1,
                                        ![v].expired_lease = FALSE]
    /\ mailing' = mailing \union {[of |-> v, attempt |-> invitation[v].attempts + 1]}
    /\ UNCHANGED <<member, token, code>> /\ PortalUnchanged

\* The mailer's answer; its effect on the delivery only if the lease is still
\* this one.
finish(m, answer) ==
    LET v == m.of
        held == invitation[v].delivery = "leased" /\ invitation[v].attempts = m.attempt
        to == CASE answer = "ok" -> "delivered"
                [] answer = "transient" /\ m.attempt < MaxAttempts -> "pending"
                [] OTHER -> "failed"
    IN  /\ mailing' = mailing \ {m}
        /\ invitation' = [invitation EXCEPT
                            ![v].mailed = @ \/ answer = "ok",
                            ![v].delivery = IF held THEN to ELSE @]
        /\ UNCHANGED <<member, token, code>> /\ PortalUnchanged

\* The worker dies, with or without having mailed.
WorkerDies(m) ==
    /\ mailing' = mailing \ {m}
    /\ \E sent \in BOOLEAN : invitation' = [invitation EXCEPT ![m.of].mailed = @ \/ sent]
    /\ UNCHANGED <<member, token, code>> /\ PortalUnchanged

LeaseDeadline(v) ==
    /\ invitation[v].delivery = "leased" /\ ~invitation[v].expired_lease
    /\ invitation' = [invitation EXCEPT ![v].expired_lease = TRUE]
    /\ UNCHANGED <<member, mailing, token, code>> /\ PortalUnchanged

InvitationDeadline(v) ==
    /\ invitation[v].state = "pending" /\ ~invitation[v].lapsed
    /\ invitation' = [invitation EXCEPT ![v].lapsed = TRUE]
    /\ UNCHANGED <<member, mailing, token, code>> /\ PortalUnchanged

----------------------------------------------------------------------------
(* Membership                                                              *)

\* A live token: not revoked, not past its deadline, its member active.
authenticate(k) == token[k].state = "live" /\ member[token[k].member].state = "active"

\* The actor is an owner with a second factor; a token with this scope counts
\* as past its deadline once its own second factor is older than 300 seconds.
require_team_write(k) ==
    /\ authenticate(k) /\ token[k].scope = "teams"
    /\ token[k].member \in ActiveOwners /\ member[token[k].member].two_factor

Revoked(a) == [k \in Tokens |-> IF token[k].state = "live" /\ token[k].member = a
                                THEN [token[k] EXCEPT !.state = "revoked"] ELSE token[k]]

NotLastOwner(a) == a \in ActiveOwners => Cardinality(ActiveOwners) > 1

set_team_member_role(k, a, role) ==
    /\ require_team_write(k)
    /\ member[a].state = "active" /\ member[a].role # role /\ NotLastOwner(a)
    /\ member' = [member EXCEPT ![a].role = role]
    /\ token' = Revoked(a)
    /\ UNCHANGED <<invitation, mailing, code>> /\ PortalUnchanged

\* The trigger on a membership that is no longer active.
revoke_portal_sessions_for_membership_loss(a) ==
    LET lost == IF member[a].state = "active"
                THEN {s \in Sessions : session[s].account = a} ELSE {}
    IN  End(lost, "revoked") /\ UNCHANGED <<account, link, exchanging>>

remove_team_member(k, a) ==
    /\ require_team_write(k)
    /\ Live(a) /\ NotLastOwner(a)
    /\ member' = [member EXCEPT ![a].state = "removed"]
    /\ token' = Revoked(a)
    /\ revoke_portal_sessions_for_membership_loss(a)
    /\ UNCHANGED <<invitation, mailing, code>>

\* Suspend and Restore.
set_team_member_state(k, a) ==
    /\ require_team_write(k)
    /\ \/ member[a].state = "active" /\ NotLastOwner(a)
          /\ member' = [member EXCEPT ![a].state = "suspended"]
       \/ member[a].state = "suspended"
          /\ member' = [member EXCEPT ![a].state = "active"]
    /\ token' = Revoked(a)
    /\ revoke_portal_sessions_for_membership_loss(a)
    /\ UNCHANGED <<invitation, mailing, code>>

\* Enrolling a second factor, and the first tokens of a member, are the
\* business of no code in the repository.
EnableTwoFactor(a) ==
    /\ member[a].state = "active" /\ ~member[a].two_factor
    /\ member' = [member EXCEPT ![a].two_factor = TRUE]
    /\ UNCHANGED <<invitation, mailing, token, code>> /\ PortalUnchanged

IssueToken(k, a, scope) ==
    /\ token[k].state = "none" /\ member[a].state = "active"
    /\ token' = [token EXCEPT ![k] = [state |-> "live", member |-> a, scope |-> scope,
                                      role |-> member[a].role, code |-> None]]
    /\ UNCHANGED <<member, invitation, mailing, code>> /\ PortalUnchanged

TokenDeadline(k) ==
    /\ token[k].state = "live"
    /\ token' = [token EXCEPT ![k].state = "lapsed"]
    /\ UNCHANGED <<member, invitation, mailing, code>> /\ PortalUnchanged

----------------------------------------------------------------------------
(* Device codes                                                            *)

create_device_authorization(q) ==
    /\ code[q].state = "none"
    /\ Cardinality({r \in Codes : code[r].state = "pending" /\ ~code[r].lapsed}) < MaxCodes
    /\ code' = [code EXCEPT ![q].state = "pending"]
    /\ UNCHANGED <<member, invitation, mailing, token>> /\ PortalUnchanged

MaySubmit(a) == member[a].state = "active" /\ member[a].role \in {"owner", "developer"}
                /\ member[a].two_factor

decide_device_authorization(k, q) ==
    /\ authenticate(k) /\ token[k].scope = "submit" /\ MaySubmit(token[k].member)
    /\ code[q].state = "pending" /\ ~code[q].lapsed
    /\ \E decision \in {"approved", "denied"} :
            code' = [code EXCEPT ![q].state = decision, ![q].member = token[k].member]
    /\ UNCHANGED <<member, invitation, mailing, token>> /\ PortalUnchanged

\* Fault: the approval is taken for the membership.
Fault_exchange_device_authorization(q, k) ==
    /\ code[q].state = "approved" /\ ~code[q].lapsed
    /\ token[k].state = "none"
    /\ token' = [token EXCEPT ![k] = [state |-> "live", member |-> code[q].member,
                                      scope |-> "submit", role |-> member[code[q].member].role,
                                      code |-> q]]
    /\ code' = [code EXCEPT ![q].state = "consumed"]
    /\ UNCHANGED <<member, invitation, mailing>> /\ PortalUnchanged

\* Polling a pending code only moves its next poll; an approved one is
\* exchanged for a token if its member may submit still.
exchange_device_authorization(q, k) ==
    /\ code[q].state = "approved" /\ ~code[q].lapsed
    /\ MaySubmit(code[q].member)
    /\ token[k].state = "none"
    /\ token' = [token EXCEPT ![k] = [state |-> "live", member |-> code[q].member,
                                      scope |-> "submit", role |-> member[code[q].member].role,
                                      code |-> q]]
    /\ code' = [code EXCEPT ![q].state = "consumed"]
    /\ UNCHANGED <<member, invitation, mailing>> /\ PortalUnchanged

CodeDeadline(q) ==
    /\ code[q].state \in {"pending", "approved"} /\ ~code[q].lapsed
    /\ code' = [code EXCEPT ![q].lapsed = TRUE]
    /\ UNCHANGED <<member, invitation, mailing, token>> /\ PortalUnchanged

----------------------------------------------------------------------------
TeamsInit == Init /\ TeamEmpty

InvitationSteps ==
    \/ \E v \in Invitations :
        \/ expire_one(v) \/ lease(v) \/ LeaseDeadline(v) \/ InvitationDeadline(v)
        \/ \E s \in Sessions :
            \/ cancel_invitation(s, v)
            \/ \E a \in Accounts, role \in InvitedRoles : create_invitation(s, v, a, role)
            \/ \E s2 \in Sessions : accept_invitation(s, v, s2)
    \/ \E m \in mailing :
        \/ WorkerDies(m)
        \/ \E answer \in {"ok", "transient", "permanent"} : finish(m, answer)

MembershipSteps ==
    \/ \E a \in Accounts :
        \/ EnableTwoFactor(a)
        \/ \E k \in Tokens :
            \/ remove_team_member(k, a) \/ set_team_member_state(k, a)
            \/ \E role \in Roles : set_team_member_role(k, a, role)
            \/ \E scope \in {"submit", "teams"} : IssueToken(k, a, scope)
    \/ \E k \in Tokens : TokenDeadline(k)

DeviceSteps ==
    \E q \in Codes :
        \/ create_device_authorization(q) \/ CodeDeadline(q)
        \/ \E k \in Tokens : decide_device_authorization(k, q) \/ exchange_device_authorization(q, k)

TeamsNext ==
    \/ Next /\ TeamUnchanged
    \/ InvitationSteps \/ MembershipSteps \/ DeviceSteps

TeamsSpec == TeamsInit /\ [][TeamsNext]_teams_vars

----------------------------------------------------------------------------
(* Properties                                                              *)

TeamsTypeOK ==
    /\ member \in [Accounts -> [state : {"none", "active", "suspended", "removed"},
                                role : Roles \union {None}, two_factor : BOOLEAN]]
    /\ invitation \in [Invitations ->
            [state : {"none", "pending", "accepted", "cancelled", "expired"},
             email : Accounts \union {None}, role : InvitedRoles \union {None},
             lapsed : BOOLEAN,
             delivery : {"none", "pending", "leased", "delivered", "cancelled", "failed"},
             attempts : 0..MaxAttempts, expired_lease : BOOLEAN, mailed : BOOLEAN]]
    /\ mailing \subseteq [of : Invitations, attempt : 1..MaxAttempts]
    /\ token \in [Tokens -> [state : {"none", "live", "revoked", "lapsed"},
                             member : Accounts \union {None},
                             scope : {"submit", "teams", None},
                             role : Roles \union {None}, code : Codes \union {None}]]
    /\ code \in [Codes -> [state : {"none", "pending", "approved", "denied", "consumed"},
                           member : Accounts \union {None}, lapsed : BOOLEAN]]

\* Owners demote, suspend and remove each other, and themselves, at the same
\* time; an active owner always remains.
OwnerRemains == ActiveOwners # {}

\* A token that still works was issued to a member who has been active in the
\* same role ever since: suspending, removing or changing the role of a member
\* leaves no token, and a code approved before is not exchanged after.
TokensFollowMembership ==
    \A k \in Tokens : token[k].state = "live" =>
        member[token[k].member].state = "active" /\ token[k].role = member[token[k].member].role

\* A device code yields one token, for the member who approved it.
OneTokenPerCode ==
    \A q \in Codes :
        LET issued == {k \in Tokens : token[k].code = q}
        IN  /\ Cardinality(issued) = (IF code[q].state = "consumed" THEN 1 ELSE 0)
            /\ \A k \in issued : token[k].member = code[q].member

\* Whoever is a member came in through exactly one accepted invitation for
\* their own address, or founded the team, and at most one is ever pending.
OneWayIn ==
    \A a \in Accounts :
        LET of(st) == {v \in Invitations : invitation[v].email = a /\ invitation[v].state = st}
        IN  /\ Cardinality(of("accepted"))
                 = (IF member[a].state # "none" /\ a # Founder THEN 1 ELSE 0)
            /\ Cardinality(of("pending")) <= (IF member[a].state = "none" THEN 1 ELSE 0)

\* An invitation waits in the mail queue only while it can still be accepted
\* or is about to be expired, and counts as delivered only if the mailer took
\* it: a worker whose lease was taken over does not speak for the new holder.
MailFollowsInvitation ==
    \A v \in Invitations :
        /\ invitation[v].delivery \in {"pending", "leased"} => invitation[v].state = "pending"
        /\ invitation[v].delivery = "delivered" => invitation[v].mailed

\* Members and pending invitations together never exceed the team's limit,
\* also when acceptances, removals and new invitations interleave.
TeamCapacity == Cardinality({a \in Accounts : Live(a)}) + Cardinality(Awaited) <= MaxTeam

\* A team keeps an owner and its limit; tokens, device codes, invitations and
\* their mail follow the membership they rest on.
TeamsSound ==
    /\ TeamsTypeOK /\ OwnerRemains /\ TokensFollowMembership /\ OneTokenPerCode /\ OneWayIn
    /\ MailFollowsInvitation /\ TeamCapacity
==============================================================================
