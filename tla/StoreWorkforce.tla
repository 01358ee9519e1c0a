----------------------------- MODULE StoreWorkforce -----------------------------
(***************************************************************************)
(* Signing in as a reviewer or an operator of the store, and the control   *)
(* tokens of at most 300 seconds that a browser session of theirs is given.*)
(* A login goes to the provider and back like a login of the developer     *)
(* portal, for one of two audiences; sessions and tokens belong to the     *)
(* audience and, through the identity link, to one principal.  Each        *)
(* database transaction is SERIALIZABLE and is one step here, with the     *)
(* triggers it fires.  A link is named by the identity it links, a token   *)
(* by the session and the idempotency key it was issued under, a deadline  *)
(* by whether it has passed.                                               *)
(***************************************************************************)
EXTENDS Naturals, FiniteSets

CONSTANTS
    Principals, Identities, Sessions, Transactions, Keys,
    KindOf,             \* the audience a principal may sign in to
    PrincipalOf,        \* the principal an identity's link is made for
    MaxExchanging,      \* bound: callbacks on their way at once
    None

VARIABLES
    principal, link, session, oidc, exchanging,
    token               \* of each session and key: the token's scope and state

vars == <<principal, link, session, oidc, exchanging, token>>

Audiences == {"review", "operations"}
Scopes == {"store.review", "store.editorial", "store.moderation"}

\* One active link per principal (workforce_identity_links_active_*).
LinkInit ==
    /\ link \in [Identities -> {"none", "active"}]
    /\ \A i, j \in Identities : i # j /\ PrincipalOf[i] = PrincipalOf[j]
            => ~(link[i] = "active" /\ link[j] = "active")

Init ==
    /\ principal = [p \in Principals |-> [state |-> "active", two_factor |-> TRUE, admin |-> FALSE]]
    /\ LinkInit
    /\ session = [s \in Sessions |-> [state |-> "none", link |-> None, audience |-> None,
                                      lapsed |-> FALSE, by |-> None]]
    /\ oidc = [t \in Transactions |-> [state |-> "none", audience |-> None, lapsed |-> FALSE]]
    /\ exchanging = {}
    /\ token = [s \in Sessions |-> [k \in Keys |-> [state |-> "none", scope |-> None]]]

\* A session ends, and the trigger on it revokes its tokens.
Ended(ss, to) == [s \in Sessions |-> IF s \in ss /\ session[s].state = "active"
                                     THEN [session[s] EXCEPT !.state = to] ELSE session[s]]

\* Fault: the tokens outlive the session.
Fault_revoke_workforce_tokens_for_session(ss) == token

revoke_workforce_tokens_for_session(ss) ==
    [s \in Sessions |-> [k \in Keys |->
        IF s \in ss /\ session[s].state = "active" /\ token[s][k].state # "none"
        THEN [token[s][k] EXCEPT !.state = "revoked"] ELSE token[s][k]]]

End(ss, to) ==
    /\ session' = Ended(ss, to)
    /\ token' = revoke_workforce_tokens_for_session(ss)

----------------------------------------------------------------------------
(* Login                                                                   *)

expire_oidc_transactions ==
    [t \in Transactions |-> IF oidc[t].state = "pending" /\ oidc[t].lapsed
                            THEN [oidc[t] EXCEPT !.state = "expired"] ELSE oidc[t]]

begin_login(t, audience) ==
    /\ oidc[t].state = "none"
    /\ oidc' = [expire_oidc_transactions EXCEPT ![t] =
                    [state |-> "pending", audience |-> audience, lapsed |-> FALSE]]
    /\ UNCHANGED <<principal, link, session, exchanging, token>>

Open(t, audience) ==
    oidc[t].state = "pending" /\ ~oidc[t].lapsed /\ oidc[t].audience = audience

\* A callback of the audience's origin is back from the provider, which
\* vouches for identity i and a second factor of the last 300 seconds.
Exchange(t, audience, i) ==
    /\ Open(t, audience)
    /\ Cardinality(exchanging) < MaxExchanging
    /\ exchanging' = exchanging \union {[txn |-> t, audience |-> audience, identity |-> i]}
    /\ UNCHANGED <<principal, link, session, oidc, token>>

\* The provider refuses the code, or the e-mail address is unverified.
terminally_expire_oidc(t) ==
    /\ oidc[t].state = "pending"
    /\ oidc' = [oidc EXCEPT ![t].state = "expired"]
    /\ UNCHANGED <<principal, link, session, exchanging, token>>

Available(p) == principal[p].state = "active" /\ principal[p].two_factor

complete_callback(c, s) ==
    LET p == PrincipalOf[c.identity]
    IN  /\ session[s].state = "none"
        /\ Open(c.txn, c.audience)
        /\ link[c.identity] = "active" /\ KindOf[p] = c.audience /\ Available(p)
        /\ oidc' = [oidc EXCEPT ![c.txn].state = "consumed"]
        /\ session' = [session EXCEPT ![s] =
                          [state |-> "active", link |-> c.identity, audience |-> c.audience,
                           lapsed |-> FALSE, by |-> c.txn]]
        /\ exchanging' = exchanging \ {c}
        /\ UNCHANGED <<principal, link, token>>

\* The commit is refused or fails.
Refused(c) ==
    /\ exchanging' = exchanging \ {c}
    /\ UNCHANGED <<principal, link, session, oidc, token>>

----------------------------------------------------------------------------
(* Sessions and tokens                                                     *)

Unavailable(s) == link[session[s].link] # "active" \/ ~Available(PrincipalOf[session[s].link])

Usable(s, audience) ==
    /\ session[s].state = "active" /\ session[s].audience = audience
    /\ ~session[s].lapsed /\ ~Unavailable(s)

\* Whatever the request, a session found overdue or without its principal ends
\* and the request is refused; session_response does no more than that, or
\* moves the idle deadline.
ensure_active_session(s, audience) ==
    /\ session[s].state = "active" /\ session[s].audience = audience
    /\ session[s].lapsed \/ Unavailable(s)
    /\ End({s}, IF session[s].lapsed THEN "expired" ELSE "revoked")
    /\ UNCHANGED <<principal, link, oidc, exchanging>>

allowed_scopes(s) ==
    CASE session[s].audience = "review" -> {"store.review"}
      [] principal[PrincipalOf[session[s].link]].admin -> {"store.editorial", "store.moderation"}
      [] OTHER -> {"store.editorial"}

\* A key that has a token gives the same one again while it lives, and is
\* refused for another scope.
issue_token(s, audience, k, scope) ==
    /\ Usable(s, audience) /\ scope \in allowed_scopes(s)
    /\ token[s][k].state = "none"
    /\ token' = [token EXCEPT ![s][k] = [state |-> "live", scope |-> scope]]
    /\ UNCHANGED <<principal, link, session, oidc, exchanging>>

logout(s, audience) ==
    /\ Usable(s, audience) /\ End({s}, "revoked")
    /\ UNCHANGED <<principal, link, oidc, exchanging>>

----------------------------------------------------------------------------
(* Administration, outside the code of the repository, and time            *)

CreateLink(i) ==
    /\ link[i] = "none"
    /\ \A j \in Identities : PrincipalOf[j] = PrincipalOf[i] => link[j] # "active"
    /\ link' = [link EXCEPT ![i] = "active"]
    /\ UNCHANGED <<principal, session, oidc, exchanging, token>>

\* revoke_workforce_sessions_for_link
RevokeLink(i) ==
    /\ link[i] = "active"
    /\ link' = [link EXCEPT ![i] = "revoked"]
    /\ End({s \in Sessions : session[s].link = i}, "revoked")
    /\ UNCHANGED <<principal, oidc, exchanging>>

\* revoke_workforce_sessions_for_principal
Suspend(p) ==
    /\ principal[p].state = "active"
    /\ principal' = [principal EXCEPT ![p].state = "suspended"]
    /\ End({s \in Sessions : session[s].link # None /\ PrincipalOf[session[s].link] = p}, "revoked")
    /\ UNCHANGED <<link, oidc, exchanging>>

\* Reinstating a principal, and changing an operator's role or anyone's second
\* factor, fires nothing.
ChangePrincipal(p) ==
    /\ \E b \in BOOLEAN : \/ KindOf[p] = "operations" /\ principal' = [principal EXCEPT ![p].admin = b]
                          \/ principal' = [principal EXCEPT ![p].two_factor = b]
                          \/ principal' = [principal EXCEPT ![p].state = "active"]
    /\ UNCHANGED <<link, session, oidc, exchanging, token>>

\* issue_token caps a token's deadline by the deadlines of its session, which
\* only move later: a session's deadline is never reached before its tokens'.
SessionDeadline(s) ==
    /\ session[s].state = "active" /\ ~session[s].lapsed
    /\ session' = [session EXCEPT ![s].lapsed = TRUE]
    /\ token' = [token EXCEPT ![s] = [k \in Keys |->
                    IF token[s][k].state = "live" THEN [token[s][k] EXCEPT !.state = "expired"]
                    ELSE token[s][k]]]
    /\ UNCHANGED <<principal, link, oidc, exchanging>>

TokenDeadline(s, k) ==
    /\ token[s][k].state = "live"
    /\ token' = [token EXCEPT ![s][k].state = "expired"]
    /\ UNCHANGED <<principal, link, session, oidc, exchanging>>

TransactionDeadline(t) ==
    /\ oidc[t].state = "pending" /\ ~oidc[t].lapsed
    /\ oidc' = [oidc EXCEPT ![t].lapsed = TRUE]
    /\ UNCHANGED <<principal, link, session, exchanging, token>>

Next ==
    \/ \E t \in Transactions :
        \/ terminally_expire_oidc(t) \/ TransactionDeadline(t)
        \/ \E a \in Audiences : \/ begin_login(t, a)
                                \/ \E i \in Identities : Exchange(t, a, i)
    \/ \E c \in exchanging : Refused(c) \/ \E s \in Sessions : complete_callback(c, s)
    \/ \E s \in Sessions, a \in Audiences :
        \/ ensure_active_session(s, a) \/ logout(s, a)
        \/ \E k \in Keys, scope \in Scopes : issue_token(s, a, k, scope)
    \/ \E s \in Sessions : SessionDeadline(s) \/ \E k \in Keys : TokenDeadline(s, k)
    \/ \E i \in Identities : CreateLink(i) \/ RevokeLink(i)
    \/ \E p \in Principals : Suspend(p) \/ ChangePrincipal(p)

Spec == Init /\ [][Next]_vars

----------------------------------------------------------------------------
(* Properties                                                              *)

TypeOK ==
    /\ principal \in [Principals -> [state : {"active", "suspended"}, two_factor : BOOLEAN,
                                     admin : BOOLEAN]]
    /\ link \in [Identities -> {"none", "active", "revoked"}]
    /\ session \in [Sessions -> [state : {"none", "active", "revoked", "expired"},
                                 link : Identities \union {None},
                                 audience : Audiences \union {None},
                                 lapsed : BOOLEAN, by : Transactions \union {None}]]
    /\ oidc \in [Transactions -> [state : {"none", "pending", "consumed", "expired"},
                                  audience : Audiences \union {None}, lapsed : BOOLEAN]]
    /\ exchanging \subseteq [txn : Transactions, audience : Audiences, identity : Identities]
    /\ token \in [Sessions -> [Keys -> [state : {"none", "live", "expired", "revoked"},
                                        scope : Scopes \union {None}]]]

\* A token the control server would still accept hangs on a session that has
\* neither ended nor run out, through a link that is active, of a principal who
\* is not suspended: whoever loses the one loses the other in the same
\* transaction, also when the token was issued while they were losing it.
TokensAreBacked ==
    \A s \in Sessions, k \in Keys : token[s][k].state = "live" =>
        /\ session[s].state = "active" /\ ~session[s].lapsed
        /\ link[session[s].link] = "active"
        /\ principal[PrincipalOf[session[s].link]].state = "active"

\* A reviewer never holds an operator's token nor an operator a reviewer's: the
\* kind of principal, the session's audience and the token's scope agree.
AudiencesAreKeptApart ==
    \A s \in Sessions : session[s].state # "none" =>
        /\ KindOf[PrincipalOf[session[s].link]] = session[s].audience
        /\ oidc[session[s].by].audience = session[s].audience
        /\ \A k \in Keys : token[s][k].state # "none" =>
              (token[s][k].scope = "store.review" <=> session[s].audience = "review")

\* A login makes one session however many callbacks of it race.
OneSessionPerLogin ==
    \A t \in Transactions : Cardinality({s \in Sessions : session[s].by = t})
                                = (IF oidc[t].state = "consumed" THEN 1 ELSE 0)

\* A principal signs in through one identity at a time.
OneIdentityPerPrincipal ==
    \A s1, s2 \in Sessions :
        session[s1].state = "active" /\ session[s2].state = "active"
            /\ PrincipalOf[session[s1].link] = PrincipalOf[session[s2].link]
        => session[s1].link = session[s2].link

\* Control tokens rest on a live session of their own audience and identity,
\* although suspension and revocation race login and issuance.
WorkforceSound ==
    /\ TypeOK /\ TokensAreBacked /\ AudiencesAreKeptApart /\ OneSessionPerLogin
    /\ OneIdentityPerPrincipal
================================================================================
