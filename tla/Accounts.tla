------------------------------ MODULE Accounts ------------------------------
(***************************************************************************)
(* One member's password and sessions (app/routers/auth.py,                 *)
(* app/api/routes/auth.py, app/deps.py), the throttle on signing in          *)
(* (hit_rate_limit of app/services/antiabuse.py), and the roles, tiers and    *)
(* grants of all members (app/routers/admin.py, app/api/routes/community.py, *)
(* app/services/bootstrap.py).                                             *)
(*                                                                         *)
(* Each handler is a request of module Requests, and a request that raises    *)
(* an error writes nothing, its rate-limit hit included.  A hit is an upsert: *)
(* it holds the counter's row until the request ends, so requests that hit    *)
(* one counter follow each other.  Passwords are numbered as they are chosen. *)
(* Fingerprints, the audit log and the og mark of a profile are left out.    *)
(***************************************************************************)
EXTENDS Requests

CONSTANTS
    Tokens,     \* sessions of the member that can be started
    Limit,      \* sign-ins per window
    Windows,    \* bound: windows of the throttle
    MaxWord,    \* bound: passwords ever chosen
    People      \* members whose roles are changed

ASSUME AccountsAssumption ==
    /\ Limit \in Nat /\ MaxWord \in Nat \ {0} /\ Windows \subseteq Nat /\ 1 \in Windows
    /\ Unique = {"handle"} /\ Booked = {"passed"}

VARIABLE
    window      \* the current window of the throttle

vars == <<requestVars, window>>

-----------------------------------------------------------------------------
(* Rows of the sessions, users and rate_limits tables.                     *)

TokenStates == {"none", "live", "revoked", "expired"}

\* users.password_hash: which password, and whether under older parameters.
Hash == [word : 0..MaxWord, stale : BOOLEAN]

\* club_officer and placement_cell are to this module as moderator.
ROLES == {"moderator", "admin"}
Roles == ROLES \cup {"super_admin"}
Grants == {"none", "live", "expired"}

\* History: the password a session was started with; the last password the
\* member changed to, and the session that did it; the sign-ins let through.
Tables ==
    [handle : [{"handle"} -> {"none", "taken"}],
     user   : [{"hash"} -> Hash],
     token  : [Tokens -> TokenStates],
     began  : [Tokens -> 0..MaxWord],
     change : [{"last"} -> [word : 0..MaxWord, keep : Tokens \cup {"none"}]],
     count  : [Windows -> Nat],
     passed : [Windows -> Nat],
     roles  : [People -> SUBSET Roles],
     tier   : [People -> {0, 2, 3}],
     grant  : [People -> Grants],
     seeded : [{"bootstrap"} -> {"no", "unfounded", "founded"}]]

TypeOK ==
    /\ db \in Tables
    /\ ChangesTyped /\ overlapped \in BOOLEAN
    /\ window \in Windows

Init ==
    /\ db = [handle |-> [h \in {"handle"} |-> "none"],
             user   |-> [h \in {"hash"} |-> [word |-> 0, stale |-> FALSE]],
             token  |-> [t \in Tokens |-> "none"],
             began  |-> [t \in Tokens |-> 0],
             change |-> [c \in {"last"} |-> [word |-> 0, keep |-> "none"]],
             count  |-> [w \in Windows |-> 0],
             passed |-> [w \in Windows |-> 0],
             roles  |-> [p \in People |-> {}],
             tier   |-> [p \in People |-> 0],
             grant  |-> [p \in People |-> "none"],
             seeded |-> [b \in {"bootstrap"} |-> "no"]]
    /\ session = [s \in Sessions |-> {}]
    /\ overlapped = FALSE
    /\ window = 1

-----------------------------------------------------------------------------
(* Sessions and passwords.                                                 *)

Word == db.user["hash"].word

\* The session a cookie or a bearer header names, if it may be used.
Usable(t) == db.token[t] = "live"

FreshTokens == {t \in Tokens : db.token[t] = "none" /\ Writing("token", t) = {}}

\* start_session; the device's fingerprint is left out.
Started(d, t) == [d EXCEPT !.token[t] = "live", !.began[t] = d.user["hash"].word]

Signup(s) ==
    /\ db.handle["handle"] = "none"
    /\ \E t \in FreshTokens :
           Begin(s, Started([db EXCEPT !.handle["handle"] = "taken", !.user["hash"].word = 1], t))

SignupByApi(s) == Signup(s)

\* Mutant: the counter is read when another request's hit is still open.
HitWithoutWaiting == db.count[window] < Limit

\* The upsert waits for the row; counting the hit, the limit is not exceeded.
Hit == Writing("count", window) = {} /\ db.count[window] < Limit

OverLimit == Writing("count", window) = {} /\ db.count[window] >= Limit

Counted == [db EXCEPT !.count[window] = @ + 1, !.passed[window] = @ + 1]

\* A hash under older parameters is replaced by one of the same password.
Login(s) ==
    /\ Word > 0 /\ Hit
    /\ \E t \in FreshTokens : Begin(s, [Started(Counted, t) EXCEPT !.user["hash"].stale = FALSE])

LoginByApi(s) == Login(s)

\* The form answers with a page and so commits its hit; the JSON route raises.
FailedLogin(s) == Hit /\ Begin(s, Counted)

\* The form's hits go on past the limit.
RefusedLogin(s) ==
    /\ OverLimit /\ db.count[window] <= Limit
    /\ Begin(s, [db EXCEPT !.count[window] = @ + 1])

Logout(s, t) == Usable(t) /\ Begin(s, [db EXCEPT !.token[t] = "revoked"])

LogoutByApi(s, t) == Logout(s, t)

RevokeSession(s, t, other) ==
    /\ Usable(t) /\ db.token[other] # "none"
    /\ Begin(s, [db EXCEPT !.token[other] = "revoked"])

RevokeByApi(s, t, other) == RevokeSession(s, t, other)

Chosen(d) == [d EXCEPT !.user["hash"] = [word |-> Word + 1, stale |-> FALSE]]

\* Mutant: every session goes on.
NoneEnded(d, t) == d

OthersEnded(d, t) ==
    [d EXCEPT !.token = [o \in Tokens |-> IF o # t /\ @[o] \in {"live", "expired"} THEN "revoked" ELSE @[o]]]

ChangePassword(s, t) ==
    /\ Usable(t) /\ Word < MaxWord
    /\ Begin(s, [OthersEnded(Chosen(db), t) EXCEPT !.change["last"] = [word |-> Word + 1, keep |-> t]])

ChangeByApi(s, t) == ChangePassword(s, t)

\* By an administrator, at a desk: no session ends.
ResetPassword(s) == 0 < Word /\ Word < MaxWord /\ Begin(s, Chosen(db))

-----------------------------------------------------------------------------
(* Time passes, and releases come.                                         *)

Expire(t) ==
    /\ db.token[t] = "live"
    /\ db' = [db EXCEPT !.token[t] = "expired"]
    /\ UNCHANGED <<session, overlapped, window>>

NextWindow ==
    /\ window + 1 \in Windows
    /\ window' = window + 1
    /\ UNCHANGED requestVars

\* A release hashes passwords with other parameters.
Release ==
    /\ Word > 0 /\ ~db.user["hash"].stale /\ Open = {}
    /\ db' = [db EXCEPT !.user["hash"].stale = TRUE]
    /\ UNCHANGED <<session, overlapped, window>>

-----------------------------------------------------------------------------
(* Roles.                                                                  *)

IsAdmin(p) == {"admin", "super_admin"} \cap db.roles[p] # {}

CanAdminister(p) ==
    \/ "super_admin" \in db.roles[p]
    \/ "admin" \in db.roles[p] /\ db.grant[p] = "live"

\* Once, before requests come: whoever has signed up is made a moderator, those
\* who bear the configured name administrators; there may be none of that name.
Bootstrap ==
    /\ db.seeded["bootstrap"] = "no" /\ Open = {}
    /\ \E users \in SUBSET People : \E founders \in SUBSET users :
           db' = [db EXCEPT !.seeded["bootstrap"] = IF founders = {} THEN "unfounded" ELSE "founded",
                            !.roles = [p \in People |->
                                @[p] \cup (IF p \in users THEN {"moderator"} ELSE {})
                                     \cup (IF p \in founders THEN {"admin", "super_admin"} ELSE {})]]
    /\ UNCHANGED <<session, overlapped, window>>

\* Mutant: an administrator can strip himself.
AnyRoles(p, target, roles) == TRUE

MaySet(p, target, roles) == target = p => "admin" \in roles

\* Mutant: whoever loses the last role loses a tier.
TierLost(tier, roles) == IF roles = {} THEN tier - 1 ELSE tier

TierFor(tier, roles) ==
    CASE roles # {} /\ tier = 2 -> 3
      [] roles = {} /\ tier = 3 -> 2
      [] OTHER -> tier

\* The form knows four roles, and drops any other the member has.
SetRoles(s, p, target, roles) ==
    /\ IsAdmin(p)
    /\ MaySet(p, target, roles)
    /\ Begin(s, [db EXCEPT !.roles[target] = roles, !.tier[target] = TierFor(@, roles)])

\* The JSON routes look at tier 2 and the grant, and leave the tier alone.
SetModerator(s, p, target) ==
    /\ db.tier[p] >= 2 /\ CanAdminister(p)
    /\ \E roles \in {db.roles[target] \cup {"moderator"}, db.roles[target] \ {"moderator"}} :
           Begin(s, [db EXCEPT !.roles[target] = roles])

GrantAdmin(s, p, target) ==
    /\ db.tier[p] >= 2 /\ "super_admin" \in db.roles[p]
    /\ Begin(s, [db EXCEPT !.roles[target] = @ \cup {"admin"}, !.grant[target] = "live"])

\* The role stays.
GrantExpires(p) ==
    /\ db.grant[p] = "live"
    /\ db' = [db EXCEPT !.grant[p] = "expired"]
    /\ UNCHANGED <<session, overlapped, window>>

\* A decision on an identity card (module Verification).
Verify(s, p) == db.tier[p] = 0 /\ Begin(s, [db EXCEPT !.tier[p] = 2])

-----------------------------------------------------------------------------
Member(s) ==
    \/ Signup(s) \/ SignupByApi(s) \/ Login(s) \/ LoginByApi(s) \/ FailedLogin(s) \/ RefusedLogin(s)
    \/ \E t \in Tokens :
           \/ Logout(s, t) \/ LogoutByApi(s, t) \/ ChangePassword(s, t) \/ ChangeByApi(s, t)
           \/ \E o \in Tokens : RevokeSession(s, t, o) \/ RevokeByApi(s, t, o)
    \/ ResetPassword(s)

Administration(s) ==
    \/ \E p, q \in People : \/ \E roles \in SUBSET ROLES : SetRoles(s, p, q, roles)
                            \/ SetModerator(s, p, q) \/ GrantAdmin(s, p, q)
    \/ \E p \in People : Verify(s, p)

Next ==
    \/ /\ \E s \in Sessions : Member(s) \/ Administration(s) \/ Commit(s) \/ Rollback(s)
       /\ UNCHANGED window
    \/ \E t \in Tokens : Expire(t)
    \/ \E p \in People : GrantExpires(p)
    \/ NextWindow \/ Release \/ Bootstrap

Spec == Init /\ [][Next]_vars

-----------------------------------------------------------------------------
(* Properties.                                                             *)

\* "Changing a password ends every other session, which is the whole point"
\* (change_password): what can still be used was started with that password or
\* a later one, or is the session that changed it.  A login that overlaps the
\* change can break this, one after another they cannot.
ChangeEndsSessions ==
    ~overlapped =>
        \A t \in Tokens : Usable(t) =>
            db.began[t] >= db.change["last"].word \/ t = db.change["last"].keep

\* "Throttle by identifier and by address" (login): in no window are more
\* passwords compared by requests that commit than the limit, however the
\* requests overlap and whichever of them are rolled back.
Throttled == \A w \in Windows : db.passed[w] <= Limit

\* "You cannot remove your own admin role" (set_roles): once the bootstrap made an
\* administrator, whatever administrators do to each other, one after another,
\* there is one left, and whoever is a super administrator is an administrator.
AnAdminRemains ==
    ~overlapped =>
        /\ db.seeded["bootstrap"] = "founded" => \E p \in People : "admin" \in db.roles[p]
        /\ \A p \in People : "super_admin" \in db.roles[p] => "admin" \in db.roles[p]
=============================================================================
