----------------------------- MODULE MCStorePeople -----------------------------
(***************************************************************************)
(* The people of the store on small instances: developers signing in to    *)
(* the portal, their team, reviewers and operators signing in, and the     *)
(* moderation of content.  They are checked apart, in behaviours of their  *)
(* own; the variable `scenario' says which.                                *)
(*   portal      two accounts and three identities, either nobody signed   *)
(*               in yet, or two browsers signed in to one account          *)
(*   mail        an owner, somebody to invite, and the mail worker         *)
(*   invitations the same with two invitations and no worker               *)
(*   devices     an owner, a developer, their tokens and a device code     *)
(*   workforce   a reviewer, and an operator with two identities           *)
(*   moderation  two reports and five requests                             *)
(***************************************************************************)
EXTENDS Naturals, FiniteSets, TLC

CONSTANTS
    a1, a2, i1, i2, i3, x1, x2, x3, x4, y1, y2, y3, z1, z2, None,
    MaxExchanging, MaxLinks, MaxTeam, MaxAttempts, MaxUntriaged

VARIABLES
    scenario,
    account, link, session, oidc, exchanging,
    member, invitation, mailing, token, code,
    principal,
    report, notice, appeal, request, recorded

portalVars == <<account, link, session, oidc, exchanging>>
teamVars == <<member, invitation, mailing, token, code>>
workforceVars == <<principal, link, session, oidc, exchanging, token>>
moderationVars == <<report, notice, appeal, request, recorded>>
mcvars == <<scenario, portalVars, teamVars, principal, moderationVars>>

Accounts == {a1, a2}
EmailOf == i1 :> a1 @@ i2 :> a1 @@ i3 :> a2
TeamEmailOf == i1 :> a1 @@ i2 :> a2

Portal == INSTANCE StorePortal
    WITH Identities <- {i1, i2, i3}, Sessions <- {x1, x2, y1, y2}, Transactions <- {z1, z2},
         Founder <- a1, Invitations <- {}, Tokens <- {}, Codes <- {}, MaxAttempts <- 0,
         MaxCodes <- 0
Mail == INSTANCE StorePortal
    WITH Identities <- {i1, i2}, EmailOf <- TeamEmailOf, Sessions <- {x1, x2, x3},
         Transactions <- {}, Founder <- a1, Invitations <- {x1}, Tokens <- {}, Codes <- {},
         MaxCodes <- 0
Invite == INSTANCE StorePortal
    WITH Identities <- {i1, i2}, EmailOf <- TeamEmailOf, Sessions <- {x1, x2, x3},
         Transactions <- {}, Founder <- a1, Invitations <- {y1, y2}, Tokens <- {}, Codes <- {},
         MaxAttempts <- 0, MaxCodes <- 0
Devices == INSTANCE StorePortal
    WITH Identities <- {i1, i2}, EmailOf <- TeamEmailOf, Sessions <- {x2}, Transactions <- {},
         Founder <- a1, Invitations <- {x1}, Tokens <- {y1, y2, y3}, Codes <- {x4},
         MaxCodes <- 1
Workforce == INSTANCE StoreWorkforce
    WITH Principals <- {a1, a2}, Identities <- {i1, i2, i3}, Sessions <- {y1, y2},
         Transactions <- {z1, z2}, Keys <- {x1},
         KindOf <- (a1 :> "review" @@ a2 :> "operations"),
         PrincipalOf <- (i1 :> a1 @@ i2 :> a2 @@ i3 :> a2)
Moderation == INSTANCE StoreModeration
    WITH Reports <- {a1, a2}, Keys <- {z1, z2, y1, y2, y3}, MAX_UNTRIAGED_REPORTS <- MaxUntriaged

----------------------------------------------------------------------------
NoSession == [state |-> "none", account |-> None, link |-> None, lapsed |-> FALSE,
              fresh |-> FALSE, by |-> None]
SignedIn(a, i) == [state |-> "active", account |-> a, link |-> i, lapsed |-> FALSE,
                   fresh |-> TRUE, by |-> None]

\* An account with one identity, signed in from two browsers.
TwoBrowsers ==
    /\ account = [a \in Accounts |-> IF a = a1 THEN "active" ELSE "none"]
    /\ link = [i \in {i1, i2, i3} |-> IF i = i1 THEN [account |-> a1, state |-> "active"]
                                                ELSE [account |-> None, state |-> "none"]]
    /\ session = [s \in {x1, x2, y1, y2} |-> IF s \in {x1, x2} THEN SignedIn(a1, i1) ELSE NoSession]
    /\ oidc = [t \in {z1, z2} |-> [state |-> "none", intent |-> None, session |-> None,
                                   lapsed |-> FALSE]]
    /\ exchanging = {}

\* Two accounts, each signed in as far as there are sessions.
Signed(sessions) ==
    /\ account = [a \in Accounts |-> "active"]
    /\ link = [i \in {i1, i2} |-> [account |-> TeamEmailOf[i], state |-> "active"]]
    /\ session = [s \in sessions |-> CASE s = x1 -> SignedIn(a1, i1)
                                       [] s = x2 -> SignedIn(a2, i2)
                                       [] OTHER -> NoSession]
    /\ oidc = <<>> /\ exchanging = {}

\* The second account has become a developer of the team through an invitation.
TwoMembers ==
    /\ member = [a \in Accounts |-> [state |-> "active", two_factor |-> a = a1,
                                     role |-> IF a = a1 THEN "owner" ELSE "developer"]]
    /\ invitation = [v \in {x1} |-> [state |-> "accepted", email |-> a2, role |-> "developer",
                                     lapsed |-> FALSE, delivery |-> "delivered", attempts |-> 1,
                                     expired_lease |-> FALSE, mailed |-> TRUE]]
    /\ mailing = {}
    /\ token = [k \in {y1, y2, y3} |-> [state |-> "none", member |-> None, scope |-> None,
                                        role |-> None, code |-> None]]
    /\ code = [q \in {x4} |-> [state |-> "none", member |-> None, lapsed |-> FALSE]]

\* What a scenario does not use.
PortalOff == account = 0 /\ link = 0 /\ session = 0 /\ oidc = 0 /\ exchanging = 0
TeamOff == member = 0 /\ invitation = 0 /\ mailing = 0 /\ token = 0 /\ code = 0
ModerationOff == report = 0 /\ notice = 0 /\ appeal = 0 /\ request = 0 /\ recorded = 0

MCInit ==
    \/ /\ scenario = "portal" /\ (Portal!Init \/ TwoBrowsers)
       /\ TeamOff /\ principal = 0 /\ ModerationOff
    \/ /\ scenario = "mail" /\ Signed({x1, x2, x3}) /\ Mail!TeamEmpty
       /\ principal = 0 /\ ModerationOff
    \/ /\ scenario = "invitations" /\ Signed({x1, x2, x3}) /\ Invite!TeamEmpty
       /\ principal = 0 /\ ModerationOff
    \/ /\ scenario = "devices" /\ Signed({x2}) /\ TwoMembers
       /\ principal = 0 /\ ModerationOff
    \/ /\ scenario = "workforce" /\ Workforce!Init
       /\ link = [i \in {i1, i2, i3} |-> IF i = i3 THEN "none" ELSE "active"]
       /\ account = 0 /\ member = 0 /\ invitation = 0 /\ mailing = 0 /\ code = 0 /\ ModerationOff
    \/ /\ scenario = "moderation" /\ Moderation!Init
       /\ PortalOff /\ TeamOff /\ principal = 0

MCNext ==
    /\ \/ scenario = "portal" /\ Portal!Next
          /\ UNCHANGED <<teamVars, principal, moderationVars>>
       \/ scenario = "mail" /\ Mail!TeamsNext /\ UNCHANGED <<principal, moderationVars>>
       \/ scenario = "invitations" /\ Invite!TeamsNext /\ UNCHANGED <<principal, moderationVars>>
       \/ scenario = "devices" /\ (Devices!MembershipSteps \/ Devices!DeviceSteps)
          /\ UNCHANGED <<principal, moderationVars>>
       \/ scenario = "workforce" /\ Workforce!Next
          /\ UNCHANGED <<account, member, invitation, mailing, code, moderationVars>>
       \/ scenario = "moderation" /\ Moderation!Next
          /\ UNCHANGED <<portalVars, teamVars, principal>>
    /\ UNCHANGED scenario

MCSpec == MCInit /\ [][MCNext]_mcvars

Symmetry == {f @@ g : f \in Permutations({y1, y2, y3}), g \in Permutations({z1, z2})}

----------------------------------------------------------------------------
(* The properties of the instances; each is about its own scenarios.       *)

\* Portal sessions, links and OIDC transactions fit together, whatever
\* callbacks, removals and logouts race.
PortalSound ==
    CASE scenario = "portal"      -> Portal!PortalSound
      [] scenario = "mail"        -> Mail!PortalSound
      [] scenario = "invitations" -> Invite!PortalSound
      [] scenario = "devices"     -> Devices!PortalSound
      [] OTHER                    -> TRUE

\* A team keeps an owner and its limit, its tokens and device codes follow
\* membership, its members came in by one invitation each.
TeamsSound ==
    CASE scenario = "mail"        -> Mail!TeamsSound
      [] scenario = "invitations" -> Invite!TeamsSound
      [] scenario = "devices"     -> Devices!TeamsSound
      [] OTHER                    -> TRUE

\* Control tokens of reviewers and operators hang on live sessions of the
\* right audience.
WorkforceSound == scenario = "workforce" => Workforce!WorkforceSound

\* A report, its notice and its appeal agree, and an answered request stands.
ModerationSound == scenario = "moderation" => Moderation!ModerationSound
================================================================================
