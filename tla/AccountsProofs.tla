--------------------------- MODULE AccountsProofs ---------------------------
(***************************************************************************)
(* For any number of requests open at once, members, sessions and windows:  *)
(* the throttle lets no more sign-ins through than its limit, whatever       *)
(* overlaps; and as long as no two requests overlap, a change of password    *)
(* ends the other sessions and an administrator remains.                     *)
(*                                                                         *)
(* The throttle.  A session that counts a hit holds the counter's row (Hit   *)
(* waits for it), so what it read there is what the row still holds, and two *)
(* such sessions never overlap.  A sign-in that is let through counts one     *)
(* hit as well, and both are written or neither: the sign-ins of a window    *)
(* are at most its hits, and the last of them was let through below the      *)
(* limit.                                                                   *)
(*                                                                         *)
(* The other two.  Each handler makes good tables of good ones (Sound), so   *)
(* the database is good, and so is what the open session will make of it.     *)
(* A session of the member may expire under an open request: its row is       *)
(* then written over, or no longer live (ExpireKeeps).                       *)
(***************************************************************************)
EXTENDS Accounts, RequestsProofs

\* Of the roles tables d holds.
Roled(d) ==
    /\ \A p \in People : "super_admin" \in d["roles"][p] => "admin" \in d["roles"][p]
    /\ d["seeded"]["bootstrap"] = "founded" => \E p \in People : "admin" \in d["roles"][p]

\* Of the password and the sessions: nobody signs in before the account is
\* there, and nothing but the last change ends a session.
Worded(d) ==
    /\ d["change"]["last"].word <= d["user"]["hash"].word
    /\ d["handle"]["handle"] = "none" =>
           d["user"]["hash"].word = 0 /\ \A t \in Tokens : d["token"][t] # "live"
    /\ \A t \in Tokens : d["token"][t] = "live" =>
           d["began"][t] >= d["change"]["last"].word \/ t = d["change"]["last"].keep

TypedInv ==
    /\ SessionsTyped
    /\ db \in Tables
    /\ \A s \in Sessions : \A c \in session[s] : Typed(c, Tables)
    /\ overlapped \in BOOLEAN /\ window \in Windows

\* As long as no two requests have overlapped, the database and what the one
\* open session will make of it are such tables.
SerialInv ==
    /\ Alone
    /\ ~overlapped =>
           /\ Roled(db) /\ Worded(db)
           /\ \A s \in Open : Roled(After(s)) /\ Worded(After(s))

TablesKept ==
    /\ {"count", "passed"} \subseteq DOMAIN db
    /\ db["count"] \in [Windows -> Nat]
    /\ db["passed"] \in [Windows -> Nat]
    /\ session = [s \in Sessions |-> session[s]]
    /\ window \in Windows

\* The row of a hit under way holds what the session read.
HitsAreFresh ==
    \A s \in Sessions : \A c \in session[s] : c[1] = "count" =>
        c[2] \in Windows /\ c[3] = db["count"][c[2]] /\ c[4] = c[3] + 1

HitsExclude ==
    \A s, r \in Sessions : s # r =>
        \A c \in session[s], d \in session[r] : ~(c[1] = "count" /\ d[1] = "count" /\ c[2] = d[2])

\* Who is let through counts a hit, below the limit.
PassesAreHits ==
    \A s \in Sessions : \A c \in session[s] : c[1] = "passed" =>
        /\ c[2] \in Windows /\ c[3] \in Nat /\ c[4] = c[3] + 1
        /\ db["count"][c[2]] < Limit
        /\ \E d \in session[s] : d[1] = "count" /\ d[2] = c[2]

PassedWereCounted == \A w \in Windows : db["passed"][w] <= db["count"][w]

ThrottleInv ==
    /\ TablesKept
    /\ HitsAreFresh
    /\ HitsExclude
    /\ PassesAreHits
    /\ PassedWereCounted
    /\ Throttled

IInv == TypedInv /\ ThrottleInv /\ SerialInv

-----------------------------------------------------------------------------
(* The throttle.                                                           *)

\* A request begins: what it will write of the throttle is nothing, or a hit on
\* a row nobody holds, with or without a sign-in let through.
LEMMA BeginKeeps ==
    ASSUME ThrottleInv, NEW s \in Sessions, NEW STATE result, Begin(s, result), UNCHANGED window,
           \/ result["count"] = db["count"] /\ result["passed"] = db["passed"]
           \/ /\ result["count"] = [db["count"] EXCEPT ![window] = @ + 1]
              /\ Writing("count", window) = {}
              /\ \/ result["passed"] = db["passed"]
                 \/ /\ result["passed"] = [db["passed"] EXCEPT ![window] = @ + 1]
                    /\ db["count"][window] < Limit
    PROVE  ThrottleInv'
<1>1. /\ session' = [session EXCEPT ![s] = Changes(result)]
      /\ db' = db /\ window' = window
  BY DEF Begin
<1>2. /\ session'[s] = Changes(result)
      /\ \A r \in Sessions : r # s => session'[r] = session[r]
  BY <1>1 DEF ThrottleInv, TablesKept
<1>3. TablesKept'
  BY <1>1 DEF ThrottleInv, TablesKept
<1>5. ASSUME NEW c \in Changes(result), c[1] = "count"
      PROVE  /\ c[2] = window /\ c[3] = db["count"][window] /\ c[4] = c[3] + 1
             /\ Writing("count", window) = {}
  <2>1. c[2] \in Windows /\ c[3] = db["count"][c[2]] /\ c[4] = result["count"][c[2]] /\ c[3] # c[4]
    BY <1>5, ChangesAre DEF ThrottleInv, TablesKept
  <2> QED BY <2>1 DEF ThrottleInv, TablesKept
<1>6. HitsAreFresh'
  BY <1>1, <1>2, <1>5 DEF ThrottleInv, HitsAreFresh, TablesKept
<1>7. ASSUME Writing("count", window) = {}, NEW r \in Sessions, r # s, NEW d \in session[r]
      PROVE  ~(d[1] = "count" /\ d[2] = window)
  BY <1>7 DEF Writing, Open
<1>8. HitsExclude'
  BY <1>2, <1>5, <1>7 DEF ThrottleInv, HitsExclude
<1>9. ASSUME NEW c \in Changes(result), c[1] = "passed"
      PROVE  /\ c[2] \in Windows /\ c[3] \in Nat /\ c[4] = c[3] + 1
             /\ db["count"][c[2]] < Limit
             /\ \E d \in Changes(result) : d[1] = "count" /\ d[2] = c[2]
  <2>1. c[2] \in Windows /\ c[3] = db["passed"][c[2]] /\ c[4] = result["passed"][c[2]] /\ c[3] # c[4]
    BY <1>9, ChangesAre DEF ThrottleInv, TablesKept
  <2>2. /\ result["passed"] = [db["passed"] EXCEPT ![window] = @ + 1]
        /\ result["count"] = [db["count"] EXCEPT ![window] = @ + 1]
        /\ db["count"][window] < Limit
    BY <2>1
  <2>3. c[2] = window /\ c[3] \in Nat /\ c[4] = c[3] + 1
    BY <2>1, <2>2 DEF ThrottleInv, TablesKept
  <2>4. result["count"][window] # db["count"][window]
    BY <2>2 DEF ThrottleInv, TablesKept
  <2>5. <<"count", window, db["count"][window], result["count"][window]>> \in Changes(result)
    <3>1. "count" \in DOMAIN db /\ window \in DOMAIN db["count"]
      BY DEF ThrottleInv, TablesKept
    <3> QED BY <2>4, <3>1, ChangesHold
  <2> QED BY <2>1, <2>2, <2>3, <2>5
<1>10. PassesAreHits'
  BY <1>1, <1>2, <1>9 DEF ThrottleInv, PassesAreHits
<1>11. PassedWereCounted' /\ Throttled'
  BY <1>1 DEF ThrottleInv, PassedWereCounted, Throttled
<1> QED BY <1>3, <1>6, <1>8, <1>10, <1>11 DEF ThrottleInv

LEMMA RollbackKeeps ==
    ASSUME ThrottleInv, NEW s \in Sessions, Rollback(s), UNCHANGED window
    PROVE  ThrottleInv'
<1>1. /\ session'[s] = {}
      /\ \A r \in Sessions : r # s => session'[r] = session[r]
      /\ session' = [session EXCEPT ![s] = {}]
      /\ db' = db /\ window' = window
  BY DEF Rollback, ThrottleInv, TablesKept
<1>2. TablesKept'
  BY <1>1 DEF ThrottleInv, TablesKept
<1>3. HitsAreFresh' /\ HitsExclude' /\ PassesAreHits'
  BY <1>1 DEF ThrottleInv, HitsAreFresh, HitsExclude, PassesAreHits
<1> QED BY <1>1, <1>2, <1>3 DEF ThrottleInv, PassedWereCounted, Throttled

\* A commit writes its hit, if it has one, and the sign-in that goes with it.
LEMMA CommitKeeps ==
    ASSUME ThrottleInv, NEW s \in Sessions, Commit(s), UNCHANGED window
    PROVE  ThrottleInv'
<1>1. /\ db' = Flush(session[s])
      /\ session' = [session EXCEPT ![s] = {}]
      /\ window' = window
  BY DEF Commit
<1>2. /\ session'[s] = {}
      /\ \A r \in Sessions : r # s => session'[r] = session[r]
  BY <1>1 DEF ThrottleInv, TablesKept
<1>3. Booked = {"passed"}
  BY AccountsAssumption
<1>4. ASSUME NEW w \in Windows
      PROVE  db'["count"][w] = IF Own(s, "count", w) # {}
                               THEN db["count"][w] + 1 ELSE db["count"][w]
  <2>1. "count" \in DOMAIN db /\ w \in DOMAIN db["count"]
    BY DEF ThrottleInv, TablesKept
  <2>2. CASE Own(s, "count", w) # {}
    <3>0. PICK c \in Own(s, "count", w) : db'["count"][w] = Written(db["count"][w], c)
      BY <2>1, <2>2, CommitAt
    <3>1. c \in session[s] /\ c[1] = "count" /\ c[2] = w
      BY <3>0 DEF Own
    <3>2. Written(db["count"][w], c) = c[4]
      BY <1>3, <3>1 DEF Written
    <3>3. c[4] = db["count"][w] + 1
      BY <3>1 DEF ThrottleInv, HitsAreFresh
    <3> QED BY <2>2, <3>0, <3>2, <3>3
  <2>3. CASE Own(s, "count", w) = {}
    BY <2>1, <2>3, CommitAt
  <2> QED BY <2>2, <2>3
<1>5. ASSUME NEW w \in Windows
      PROVE  db'["passed"][w] = IF Own(s, "passed", w) # {}
                                THEN db["passed"][w] + 1 ELSE db["passed"][w]
  <2>1. "passed" \in DOMAIN db /\ w \in DOMAIN db["passed"]
    BY DEF ThrottleInv, TablesKept
  <2>2. CASE Own(s, "passed", w) # {}
    <3>0. PICK c \in Own(s, "passed", w) : db'["passed"][w] = Written(db["passed"][w], c)
      BY <2>1, <2>2, CommitAt
    <3>1. c \in session[s] /\ c[1] = "passed" /\ c[2] = w
      BY <3>0 DEF Own
    <3>2. Written(db["passed"][w], c) = db["passed"][w] + c[4] - c[3]
      BY <1>3, <3>1 DEF Written
    <3>3. c[3] \in Nat /\ c[4] = c[3] + 1
      BY <3>1 DEF ThrottleInv, PassesAreHits
    <3>4. db["passed"][w] \in Nat
      BY DEF ThrottleInv, TablesKept
    <3> QED BY <2>2, <3>0, <3>2, <3>3, <3>4
  <2>3. CASE Own(s, "passed", w) = {}
    BY <2>1, <2>3, CommitAt
  <2> QED BY <2>2, <2>3
<1>6. TablesKept'
  <2>1. /\ DOMAIN db' = DOMAIN db
        /\ db'["count"] = [w \in Windows |-> db'["count"][w]]
        /\ db'["passed"] = [w \in Windows |-> db'["passed"][w]]
    <3>1. /\ {"count", "passed"} \subseteq DOMAIN db
          /\ DOMAIN db["count"] = Windows /\ DOMAIN db["passed"] = Windows
          /\ window \in Windows
      BY DEF ThrottleInv, TablesKept
    <3> QED BY <3>1, CommitAt
  <2>2. db'["count"] \in [Windows -> Nat]
    BY <1>4, <2>1 DEF ThrottleInv, TablesKept
  <2>3. db'["passed"] \in [Windows -> Nat]
    BY <1>5, <2>1 DEF ThrottleInv, TablesKept
  <2> QED BY <1>1, <2>1, <2>2, <2>3 DEF ThrottleInv, TablesKept
<1>7. HitsExclude'
  BY <1>2 DEF ThrottleInv, HitsExclude
<1>8. ASSUME NEW r \in Sessions, r # s, NEW d \in session[r], d[1] = "count"
      PROVE  d[2] \in Windows /\ db'["count"][d[2]] = db["count"][d[2]]
  <2>1. d[2] \in Windows
    BY <1>8 DEF ThrottleInv, HitsAreFresh
  <2>2. Own(s, "count", d[2]) = {}
    BY <1>8 DEF ThrottleInv, HitsExclude, Own
  <2> QED BY <1>4, <2>1, <2>2
<1>9. HitsAreFresh'
  <2>1. ASSUME NEW r \in Sessions, NEW d \in session'[r], d[1] = "count"
        PROVE  d[2] \in Windows /\ d[3] = db'["count"][d[2]] /\ d[4] = d[3] + 1
    <3>1. r # s /\ d \in session[r]
      BY <1>2, <2>1
    <3> QED BY <1>8, <2>1, <3>1 DEF ThrottleInv, HitsAreFresh
  <2> QED BY <2>1 DEF HitsAreFresh
<1>10. PassesAreHits'
  <2>1. ASSUME NEW r \in Sessions, NEW c \in session'[r], c[1] = "passed"
        PROVE  /\ c[2] \in Windows /\ c[3] \in Nat /\ c[4] = c[3] + 1
               /\ db'["count"][c[2]] < Limit
               /\ \E d \in session'[r] : d[1] = "count" /\ d[2] = c[2]
    <3>1. r # s /\ session'[r] = session[r]
      BY <1>2, <2>1
    <3>2. /\ c[2] \in Windows /\ c[3] \in Nat /\ c[4] = c[3] + 1
          /\ db["count"][c[2]] < Limit
          /\ \E d \in session[r] : d[1] = "count" /\ d[2] = c[2]
      BY <2>1, <3>1 DEF ThrottleInv, PassesAreHits
    <3>3. db'["count"][c[2]] = db["count"][c[2]]
      BY <1>8, <3>1, <3>2
    <3> QED BY <3>1, <3>2, <3>3
  <2> QED BY <2>1 DEF PassesAreHits
<1>11. ASSUME NEW w \in Windows
       PROVE  db'["passed"][w] <= db'["count"][w] /\ db'["passed"][w] <= Limit
  <2>1. /\ db["passed"][w] <= db["count"][w] /\ db["passed"][w] <= Limit
        /\ db["passed"][w] \in Nat /\ db["count"][w] \in Nat /\ Limit \in Nat
    BY AccountsAssumption DEF ThrottleInv, PassedWereCounted, Throttled, TablesKept
  <2>2. CASE Own(s, "passed", w) # {}
    <3>1. db["count"][w] < Limit /\ Own(s, "count", w) # {}
      BY <2>2 DEF ThrottleInv, PassesAreHits, Own
    <3> QED BY <1>4, <1>5, <2>1, <2>2, <3>1
  <2>3. CASE Own(s, "passed", w) = {}
    BY <1>4, <1>5, <2>1, <2>3
  <2> QED BY <2>2, <2>3
<1> QED BY <1>6, <1>7, <1>9, <1>10, <1>11 DEF ThrottleInv, PassedWereCounted, Throttled

-----------------------------------------------------------------------------
(* The handlers.                                                           *)

\* A handler that has nothing to do with the throttle.
LEMMA QuietKeeps ==
    ASSUME ThrottleInv, NEW s \in Sessions, NEW STATE result, Begin(s, result), UNCHANGED window,
           result["count"] = db["count"], result["passed"] = db["passed"]
    PROVE  ThrottleInv'
  BY BeginKeeps

LEMMA CountedHits ==
    ASSUME ThrottleInv
    PROVE  /\ Counted["count"] = [db["count"] EXCEPT ![window] = @ + 1]
           /\ Counted["passed"] = [db["passed"] EXCEPT ![window] = @ + 1]
  BY DEF ThrottleInv, TablesKept, Counted

LEMMA SignInKeeps ==
    ASSUME ThrottleInv, NEW s \in Sessions, UNCHANGED window,
           Login(s) \/ FailedLogin(s) \/ RefusedLogin(s)
    PROVE  ThrottleInv'
<1>1. CASE Login(s)
  <2>1. PICK t \in FreshTokens :
            Begin(s, [Started(Counted, t) EXCEPT !.user["hash"].stale = FALSE])
    BY <1>1 DEF Login
  <2> DEFINE result == [Started(Counted, t) EXCEPT !.user["hash"].stale = FALSE]
  <2>2. result["count"] = Counted["count"] /\ result["passed"] = Counted["passed"]
    BY DEF Started
  <2>3. Writing("count", window) = {} /\ db["count"][window] < Limit
    BY <1>1 DEF Login, Hit
  <2> HIDE DEF result
  <2>4. Begin(s, result)
    BY <2>1 DEF result
  <2> QED BY <2>2, <2>3, <2>4, CountedHits, BeginKeeps
<1>2. CASE FailedLogin(s)
  <2>1. Begin(s, Counted) /\ Writing("count", window) = {} /\ db["count"][window] < Limit
    BY <1>2 DEF FailedLogin, Hit
  <2> QED BY <2>1, CountedHits, BeginKeeps
<1>3. CASE RefusedLogin(s)
  <2> DEFINE result == [db EXCEPT !.count[window] = @ + 1]
  <2>1. Begin(s, result) /\ Writing("count", window) = {}
    BY <1>3 DEF RefusedLogin, OverLimit
  <2>2. /\ result["count"] = [db["count"] EXCEPT ![window] = @ + 1]
        /\ result["passed"] = db["passed"]
    BY DEF ThrottleInv, TablesKept
  <2> HIDE DEF result
  <2> QED BY <2>1, <2>2, BeginKeeps
<1> QED BY <1>1, <1>2, <1>3

LEMMA MemberKeeps ==
    ASSUME ThrottleInv, NEW s \in Sessions, Member(s), UNCHANGED window
    PROVE  ThrottleInv'
<1>1. CASE Signup(s) \/ SignupByApi(s)
  <2>1. PICK t \in FreshTokens :
            Begin(s, Started([db EXCEPT !.handle["handle"] = "taken", !.user["hash"].word = 1], t))
    BY <1>1 DEF Signup, SignupByApi
  <2> DEFINE result == Started([db EXCEPT !.handle["handle"] = "taken", !.user["hash"].word = 1], t)
  <2>2. result["count"] = db["count"] /\ result["passed"] = db["passed"]
    BY DEF Started
  <2> HIDE DEF result
  <2>3. Begin(s, result)
    BY <2>1 DEF result
  <2> QED BY <2>2, <2>3, QuietKeeps
<1>2. CASE Login(s) \/ LoginByApi(s) \/ FailedLogin(s) \/ RefusedLogin(s)
  BY <1>2, SignInKeeps DEF LoginByApi
<1>3. ASSUME NEW t \in Tokens, Begin(s, [db EXCEPT !.token[t] = "revoked"])
      PROVE  ThrottleInv'
  <2> DEFINE result == [db EXCEPT !.token[t] = "revoked"]
  <2>1. result["count"] = db["count"] /\ result["passed"] = db["passed"]
    OBVIOUS
  <2>2. Begin(s, result)
    BY <1>3
  <2> HIDE DEF result
  <2> QED BY <2>1, <2>2, QuietKeeps
<1>4. ASSUME NEW t \in Tokens, ChangePassword(s, t)
      PROVE  ThrottleInv'
  <2> DEFINE result == [OthersEnded(Chosen(db), t) EXCEPT
                            !.change["last"] = [word |-> Word + 1, keep |-> t]]
  <2>1. result["count"] = db["count"] /\ result["passed"] = db["passed"]
    BY DEF OthersEnded, Chosen
  <2>2. Begin(s, result)
    BY <1>4 DEF ChangePassword
  <2> HIDE DEF result
  <2> QED BY <2>1, <2>2, QuietKeeps
<1>5. CASE ResetPassword(s)
  <2>1. Chosen(db)["count"] = db["count"] /\ Chosen(db)["passed"] = db["passed"]
    BY DEF Chosen
  <2>2. Begin(s, Chosen(db))
    BY <1>5 DEF ResetPassword
  <2> QED BY <2>1, <2>2, QuietKeeps
<1> QED BY <1>1, <1>2, <1>3, <1>4, <1>5
        DEF Member, Logout, LogoutByApi, ChangeByApi, RevokeSession, RevokeByApi

LEMMA AdministrationKeeps ==
    ASSUME ThrottleInv, NEW s \in Sessions, Administration(s), UNCHANGED window
    PROVE  ThrottleInv'
<1>1. ASSUME NEW p \in People, NEW q \in People, NEW roles \in SUBSET ROLES, SetRoles(s, p, q, roles)
      PROVE  ThrottleInv'
  <2> DEFINE result == [db EXCEPT !.roles[q] = roles, !.tier[q] = TierFor(@, roles)]
  <2>1. result["count"] = db["count"] /\ result["passed"] = db["passed"]
    OBVIOUS
  <2>2. Begin(s, result)
    BY <1>1 DEF SetRoles
  <2> HIDE DEF result
  <2> QED BY <2>1, <2>2, QuietKeeps
<1>2. ASSUME NEW p \in People, NEW q \in People, SetModerator(s, p, q)
      PROVE  ThrottleInv'
  <2>1. CASE Begin(s, [db EXCEPT !.roles[q] = db.roles[q] \cup {"moderator"}])
    <3> DEFINE result == [db EXCEPT !.roles[q] = db.roles[q] \cup {"moderator"}]
    <3>1. result["count"] = db["count"] /\ result["passed"] = db["passed"]
      OBVIOUS
    <3>2. Begin(s, result)
      BY <2>1
    <3> HIDE DEF result
    <3> QED BY <3>1, <3>2, QuietKeeps
  <2>2. CASE Begin(s, [db EXCEPT !.roles[q] = db.roles[q] \ {"moderator"}])
    <3> DEFINE result == [db EXCEPT !.roles[q] = db.roles[q] \ {"moderator"}]
    <3>1. result["count"] = db["count"] /\ result["passed"] = db["passed"]
      OBVIOUS
    <3>2. Begin(s, result)
      BY <2>2
    <3> HIDE DEF result
    <3> QED BY <3>1, <3>2, QuietKeeps
  <2> QED BY <1>2, <2>1, <2>2 DEF SetModerator
<1>3. ASSUME NEW p \in People, NEW q \in People, GrantAdmin(s, p, q)
      PROVE  ThrottleInv'
  <2> DEFINE result == [db EXCEPT !.roles[q] = @ \cup {"admin"}, !.grant[q] = "live"]
  <2>1. result["count"] = db["count"] /\ result["passed"] = db["passed"]
    OBVIOUS
  <2>2. Begin(s, result)
    BY <1>3 DEF GrantAdmin
  <2> HIDE DEF result
  <2> QED BY <2>1, <2>2, QuietKeeps
<1>4. ASSUME NEW p \in People, Verify(s, p)
      PROVE  ThrottleInv'
  <2> DEFINE result == [db EXCEPT !.tier[p] = 2]
  <2>1. result["count"] = db["count"] /\ result["passed"] = db["passed"]
    OBVIOUS
  <2>2. Begin(s, result)
    BY <1>4 DEF Verify
  <2> HIDE DEF result
  <2> QED BY <2>1, <2>2, QuietKeeps
<1> QED BY <1>1, <1>2, <1>3, <1>4 DEF Administration

\* Time, releases and the bootstrap write other tables.
ThrottleLeft ==
    /\ UNCHANGED session /\ DOMAIN db' = DOMAIN db /\ window' \in Windows
    /\ db'["count"] = db["count"] /\ db'["passed"] = db["passed"]

LEMMA OutsideKeeps ==
    ASSUME ThrottleInv, ThrottleLeft
    PROVE  ThrottleInv'
<1> USE DEF ThrottleLeft
<1>1. TablesKept' /\ HitsExclude'
  BY DEF ThrottleInv, TablesKept, HitsExclude
<1>2. HitsAreFresh' /\ PassesAreHits'
  BY DEF ThrottleInv, HitsAreFresh, PassesAreHits
<1>3. PassedWereCounted' /\ Throttled'
  BY DEF ThrottleInv, PassedWereCounted, Throttled
<1> QED BY <1>1, <1>2, <1>3 DEF ThrottleInv

LEMMA ClockKeeps ==
    ASSUME ThrottleInv, NextWindow \/ Release \/ Bootstrap \/ (\E t \in Tokens : Expire(t))
                 \/ (\E p \in People : GrantExpires(p))
    PROVE  ThrottleInv'
<1>1. ThrottleLeft
  <2> USE DEF ThrottleLeft
  <2>1. window \in Windows
    BY DEF ThrottleInv, TablesKept
  <2>2. CASE NextWindow
    BY <2>2 DEF NextWindow, requestVars
  <2>3. CASE Release
    BY <2>1, <2>3 DEF Release
  <2>4. CASE Bootstrap
    <3>1. PICK seeded, roles : db' = [db EXCEPT !["seeded"] = seeded, !["roles"] = roles]
      <4>1. PICK users \in SUBSET People : \E founders \in SUBSET users :
                db' = [db EXCEPT !.seeded["bootstrap"] = IF founders = {} THEN "unfounded" ELSE "founded",
                                 !.roles = [p \in People |->
                                     @[p] \cup (IF p \in users THEN {"moderator"} ELSE {})
                                          \cup (IF p \in founders THEN {"admin", "super_admin"} ELSE {})]]
        BY <2>4, Zenon DEF Bootstrap
      <4> QED BY <4>1
    <3>2. UNCHANGED <<session, overlapped, window>>
      BY <2>4 DEF Bootstrap
    <3>3. {"count", "passed"} \subseteq DOMAIN db
      BY DEF ThrottleInv, TablesKept
    <3> QED BY <2>1, <3>1, <3>2, <3>3
  <2>5. ASSUME NEW t \in Tokens, Expire(t)
        PROVE  ThrottleLeft
    BY <2>1, <2>5 DEF Expire
  <2>6. ASSUME NEW p \in People, GrantExpires(p)
        PROVE  ThrottleLeft
    BY <2>1, <2>6 DEF GrantExpires
  <2> QED BY <2>2, <2>3, <2>4, <2>5, <2>6
<1> QED BY <1>1, OutsideKeeps

LEMMA ThrottleInit == Init => ThrottleInv
<1> SUFFICES ASSUME Init PROVE ThrottleInv
  OBVIOUS
<1>1. /\ {"count", "passed"} \subseteq DOMAIN db
      /\ db["count"] = [w \in Windows |-> 0] /\ db["passed"] = [w \in Windows |-> 0]
      /\ session = [s \in Sessions |-> {}] /\ window = 1
  BY DEF Init
<1>2. 1 \in Windows /\ Limit \in Nat
  BY AccountsAssumption
<1> QED BY <1>1, <1>2 DEF ThrottleInv, TablesKept, HitsAreFresh, HitsExclude, PassesAreHits,
                          PassedWereCounted, Throttled

LEMMA ThrottleNext == ThrottleInv /\ [Next]_vars => ThrottleInv'
<1> SUFFICES ASSUME ThrottleInv, [Next]_vars PROVE ThrottleInv'
  OBVIOUS
<1>1. ASSUME NEW s \in Sessions, UNCHANGED window,
             Member(s) \/ Administration(s) \/ Commit(s) \/ Rollback(s)
      PROVE  ThrottleInv'
  BY <1>1, MemberKeeps, AdministrationKeeps, CommitKeeps, RollbackKeeps
<1>2. CASE UNCHANGED vars
  BY <1>2, OutsideKeeps DEF vars, requestVars, ThrottleInv, TablesKept, ThrottleLeft
<1> QED BY <1>1, <1>2, ClockKeeps DEF Next

-----------------------------------------------------------------------------
(* Sessions and passwords.                                                 *)

\* What a handler makes of such tables is such tables.
Sound(s) ==
    \E result \in Tables :
        /\ Begin(s, result)
        /\ Roled(db) => Roled(result)
        /\ Worded(db) => Worded(result)

\* A session that is started has the password of the day.
LEMMA StartedSound ==
    ASSUME NEW STATE d, d \in Tables, NEW t \in Tokens
    PROVE  /\ Started(d, t) \in Tables
           /\ Started(d, t)["roles"] = d["roles"] /\ Started(d, t)["seeded"] = d["seeded"]
           /\ Started(d, t)["handle"] = d["handle"] /\ Started(d, t)["user"] = d["user"]
           /\ Started(d, t)["change"] = d["change"]
           /\ Started(d, t)["token"] = [d["token"] EXCEPT ![t] = "live"]
           /\ Started(d, t)["began"] = [d["began"] EXCEPT ![t] = d["user"]["hash"].word]
  BY DEF Tables, TokenStates, Started, Hash

LEMMA SignupSound ==
    ASSUME db \in Tables, NEW s \in Sessions, Signup(s)
    PROVE  Sound(s)
<1> DEFINE taken == [db EXCEPT !.handle["handle"] = "taken", !.user["hash"].word = 1]
<1>1. PICK t \in Tokens : Begin(s, Started(taken, t))
  BY DEF Signup, FreshTokens
<1>2. db["handle"]["handle"] = "none"
  BY DEF Signup
<1>3. taken \in Tables
  <2>1. [db["user"]["hash"] EXCEPT !.word = 1] \in Hash
    BY AccountsAssumption DEF Tables, Hash
  <2> QED BY <2>1 DEF Tables
<1>4. /\ taken["roles"] = db["roles"] /\ taken["seeded"] = db["seeded"]
      /\ taken["handle"]["handle"] = "taken"
      /\ taken["user"]["hash"].word = 1 /\ taken["change"] = db["change"]
      /\ taken["token"] = db["token"] /\ taken["began"] = db["began"]
  BY DEF Tables, Hash
<1> HIDE DEF taken
<1> DEFINE result == Started(taken, t)
<1>5. /\ result \in Tables
      /\ result["roles"] = db["roles"] /\ result["seeded"] = db["seeded"]
      /\ result["handle"]["handle"] = "taken"
      /\ result["user"]["hash"].word = 1 /\ result["change"] = db["change"]
      /\ result["token"] = [db["token"] EXCEPT ![t] = "live"]
      /\ result["began"] = [db["began"] EXCEPT ![t] = 1]
  <2>1. /\ result \in Tables
        /\ result["roles"] = taken["roles"] /\ result["seeded"] = taken["seeded"]
        /\ result["handle"] = taken["handle"] /\ result["user"] = taken["user"]
        /\ result["change"] = taken["change"]
        /\ result["token"] = [taken["token"] EXCEPT ![t] = "live"]
        /\ result["began"] = [taken["began"] EXCEPT ![t] = taken["user"]["hash"].word]
    BY <1>3, StartedSound
  <2> QED BY <1>4, <2>1
<1>6. Begin(s, result)
  BY <1>1
<1> HIDE DEF result
<1>7. Roled(db) => Roled(result)
  BY <1>5 DEF Roled
<1>8. Worded(db) => Worded(result)
  BY <1>2, <1>5 DEF Worded, Tables
<1> QED BY <1>5, <1>6, <1>7, <1>8 DEF Sound

\* Tables of the throttle are no concern of either.
LEMMA CountedSound ==
    ASSUME db \in Tables, window \in Windows
    PROVE  /\ Counted \in Tables
           /\ \A t \in {"roles", "seeded", "handle", "user", "change", "token", "began"} :
                  Counted[t] = db[t]
<1> DEFINE count == [db["count"] EXCEPT ![window] = @ + 1]
           passed == [db["passed"] EXCEPT ![window] = @ + 1]
<1>1. Counted = [db EXCEPT !["count"] = count, !["passed"] = passed]
  BY DEF Counted, Tables
<1>2. count \in [Windows -> Nat] /\ passed \in [Windows -> Nat]
  BY DEF Tables
<1> HIDE DEF count, passed
<1>3. Counted \in Tables
  BY <1>1, <1>2 DEF Tables
<1> QED BY <1>1, <1>3 DEF Tables

LEMMA LoginSound ==
    ASSUME db \in Tables, window \in Windows, NEW s \in Sessions, Login(s)
    PROVE  Sound(s)
<1>1. PICK t \in Tokens : Begin(s, [Started(Counted, t) EXCEPT !.user["hash"].stale = FALSE])
  BY DEF Login, FreshTokens
<1>2. db["user"]["hash"].word > 0
  BY DEF Login, Word
<1> DEFINE begun == Started(Counted, t)
<1>3. /\ begun \in Tables
      /\ begun["roles"] = Counted["roles"] /\ begun["seeded"] = Counted["seeded"]
      /\ begun["handle"] = Counted["handle"] /\ begun["user"] = Counted["user"]
      /\ begun["change"] = Counted["change"]
      /\ begun["token"] = [Counted["token"] EXCEPT ![t] = "live"]
      /\ begun["began"] = [Counted["began"] EXCEPT ![t] = Counted["user"]["hash"].word]
  BY CountedSound, StartedSound
<1> DEFINE result == [begun EXCEPT !.user["hash"].stale = FALSE]
<1>4. Begin(s, result)
  BY <1>1
<1> HIDE DEF begun
<1>5. /\ result \in Tables
      /\ result["roles"] = begun["roles"] /\ result["seeded"] = begun["seeded"]
      /\ result["handle"] = begun["handle"] /\ result["change"] = begun["change"]
      /\ result["token"] = begun["token"] /\ result["began"] = begun["began"]
      /\ result["user"]["hash"].word = begun["user"]["hash"].word
  <2> DEFINE hash == [begun["user"]["hash"] EXCEPT !.stale = FALSE]
  <2>1. begun["user"]["hash"] \in Hash
    BY <1>3 DEF Tables
  <2>2. hash \in Hash /\ hash.word = begun["user"]["hash"].word
    BY <2>1 DEF Hash
  <2>3. result = [begun EXCEPT !["user"] = [@ EXCEPT !["hash"] = hash]]
    BY <1>3 DEF Tables
  <2> HIDE DEF hash, result
  <2> QED BY <1>3, <2>2, <2>3 DEF Tables
<1> HIDE DEF result
<1>6. Roled(db) => Roled(result)
  BY <1>3, <1>5, CountedSound DEF Roled
<1>7. /\ result["handle"] = db["handle"] /\ result["change"] = db["change"]
      /\ result["token"] = [db["token"] EXCEPT ![t] = "live"]
      /\ result["began"] = [db["began"] EXCEPT ![t] = db["user"]["hash"].word]
      /\ result["user"]["hash"].word = db["user"]["hash"].word
  BY <1>3, <1>5, CountedSound
<1>8. Worded(db) => Worded(result)
  BY <1>2, <1>7 DEF Worded, Tables
<1> QED BY <1>4, <1>5, <1>6, <1>8 DEF Sound

LEMMA FailedSound ==
    ASSUME db \in Tables, window \in Windows, NEW s \in Sessions, FailedLogin(s) \/ RefusedLogin(s)
    PROVE  Sound(s)
<1>1. CASE FailedLogin(s)
  <2>1. Begin(s, Counted)
    BY <1>1 DEF FailedLogin
  <2>2. (Roled(db) => Roled(Counted)) /\ (Worded(db) => Worded(Counted))
    BY CountedSound DEF Roled, Worded
  <2> QED BY <2>1, <2>2, CountedSound DEF Sound
<1>2. CASE RefusedLogin(s)
  <2> DEFINE result == [db EXCEPT !.count[window] = @ + 1]
  <2>1. Begin(s, result)
    BY <1>2 DEF RefusedLogin
  <2>2. /\ result \in Tables
        /\ \A t \in {"roles", "seeded", "handle", "user", "change", "token", "began"} :
               result[t] = db[t]
    BY SMTT(30) DEF Tables
  <2> HIDE DEF result
  <2>3. (Roled(db) => Roled(result)) /\ (Worded(db) => Worded(result))
    BY <2>2 DEF Roled, Worded
  <2> QED BY <2>1, <2>2, <2>3 DEF Sound
<1> QED BY <1>1, <1>2

\* A session that is ended.
LEMMA RevokeSound ==
    ASSUME db \in Tables, NEW s \in Sessions, NEW t \in Tokens,
           Begin(s, [db EXCEPT !.token[t] = "revoked"])
    PROVE  Sound(s)
<1> DEFINE result == [db EXCEPT !.token[t] = "revoked"]
<1>1. Begin(s, result)
  OBVIOUS
<1>2. /\ result \in Tables
      /\ \A u \in {"roles", "seeded", "handle", "user", "change", "began"} : result[u] = db[u]
      /\ result["token"] = [db["token"] EXCEPT ![t] = "revoked"]
  BY DEF Tables, TokenStates
<1> HIDE DEF result
<1>3. (Roled(db) => Roled(result)) /\ (Worded(db) => Worded(result))
  BY <1>2 DEF Roled, Worded, Tables
<1> QED BY <1>1, <1>2, <1>3 DEF Sound

\* The member's change of password ends every session but his own.
LEMMA ChangeSound ==
    ASSUME db \in Tables, NEW s \in Sessions, NEW t \in Tokens, ChangePassword(s, t)
    PROVE  Sound(s)
<1> DEFINE result == [OthersEnded(Chosen(db), t) EXCEPT
                          !.change["last"] = [word |-> Word + 1, keep |-> t]]
<1>1. Begin(s, result) /\ db["token"][t] = "live" /\ db["user"]["hash"].word < MaxWord
  BY DEF ChangePassword, Usable, Word
<1>2. /\ result \in Tables
      /\ \A u \in {"roles", "seeded", "handle", "began"} : result[u] = db[u]
      /\ result["user"]["hash"].word = db["user"]["hash"].word + 1
      /\ result["change"]["last"] = [word |-> db["user"]["hash"].word + 1, keep |-> t]
      /\ result["token"] = [o \in Tokens |->
             IF o # t /\ db["token"][o] \in {"live", "expired"} THEN "revoked" ELSE db["token"][o]]
  <2> DEFINE hash == [word |-> Word + 1, stale |-> FALSE]
             last == [word |-> Word + 1, keep |-> t]
             token == [o \in Tokens |->
                 IF o # t /\ db["token"][o] \in {"live", "expired"} THEN "revoked" ELSE db["token"][o]]
  <2>1. result = [db EXCEPT !["user"] = [@ EXCEPT !["hash"] = hash],
                            !["token"] = token,
                            !["change"] = [@ EXCEPT !["last"] = last]]
    BY DEF OthersEnded, Chosen, Tables
  <2>2. hash \in Hash /\ last \in [word : 0..MaxWord, keep : Tokens \cup {"none"}]
    BY <1>1, AccountsAssumption DEF Hash, Tables, Word
  <2>3. token \in [Tokens -> TokenStates]
    BY DEF Tables, TokenStates
  <2>4. hash.word = db["user"]["hash"].word + 1 /\ last = [word |-> db["user"]["hash"].word + 1, keep |-> t]
    BY DEF Word
  <2> HIDE DEF result, hash, last, token
  <2>5. result \in Tables
    BY <2>1, <2>2, <2>3 DEF Tables
  <2>6. /\ \A u \in {"roles", "seeded", "handle", "began"} : result[u] = db[u]
        /\ result["user"]["hash"] = hash /\ result["change"]["last"] = last
        /\ result["token"] = token
    BY <2>1 DEF Tables
  <2> QED BY <2>4, <2>5, <2>6 DEF token
<1> HIDE DEF result
<1>3. Roled(db) => Roled(result)
  BY <1>2 DEF Roled
<1>4. Worded(db) => Worded(result)
  BY <1>1, <1>2 DEF Worded, Tables, Hash
<1> QED BY <1>1, <1>2, <1>3, <1>4 DEF Sound

LEMMA ResetSound ==
    ASSUME db \in Tables, NEW s \in Sessions, ResetPassword(s)
    PROVE  Sound(s)
<1>1. Begin(s, Chosen(db)) /\ 0 < db["user"]["hash"].word /\ db["user"]["hash"].word < MaxWord
  BY DEF ResetPassword, Word
<1> DEFINE result == Chosen(db)
<1>2. /\ result \in Tables
      /\ \A u \in {"roles", "seeded", "handle", "began", "change", "token"} : result[u] = db[u]
      /\ result["user"]["hash"].word = db["user"]["hash"].word + 1
  <2> DEFINE hash == [word |-> Word + 1, stale |-> FALSE]
  <2>1. hash \in Hash /\ hash.word = db["user"]["hash"].word + 1
    BY <1>1, AccountsAssumption DEF Hash, Tables, Word
  <2>2. result = [db EXCEPT !["user"] = [@ EXCEPT !["hash"] = hash]]
    BY DEF Chosen, Tables
  <2> HIDE DEF hash, result
  <2> QED BY <2>1, <2>2 DEF Tables
<1> HIDE DEF result
<1>3. (Roled(db) => Roled(result)) /\ (Worded(db) => Worded(result))
  BY <1>1, <1>2 DEF Roled, Worded, Tables, Hash
<1>4. Begin(s, result)
  BY <1>1 DEF result
<1> QED BY <1>2, <1>3, <1>4 DEF Sound

-----------------------------------------------------------------------------
(* Roles.                                                                  *)

\* A handler that only changes rows of the roles, tiers and grants.
LEMMA RolesSound ==
    ASSUME db \in Tables, NEW s \in Sessions, NEW roles \in [People -> SUBSET Roles],
           NEW tier \in [People -> {0, 2, 3}], NEW grant \in [People -> Grants],
           Begin(s, [db EXCEPT !["roles"] = roles, !["tier"] = tier, !["grant"] = grant]),
           Roled(db) => /\ \A p \in People : "super_admin" \in roles[p] => "admin" \in roles[p]
                        /\ db["seeded"]["bootstrap"] = "founded" => \E p \in People : "admin" \in roles[p]
    PROVE  Sound(s)
<1> DEFINE result == [db EXCEPT !["roles"] = roles, !["tier"] = tier, !["grant"] = grant]
<1>1. Begin(s, result)
  OBVIOUS
<1>2. /\ result \in Tables
      /\ result["roles"] = roles /\ result["seeded"] = db["seeded"]
      /\ \A u \in {"handle", "user", "change", "token", "began"} : result[u] = db[u]
  BY DEF Tables
<1> HIDE DEF result
<1>3. (Roled(db) => Roled(result)) /\ (Worded(db) => Worded(result))
  BY <1>2 DEF Roled, Worded
<1> QED BY <1>1, <1>2, <1>3 DEF Sound

\* An administrator leaves himself the role, and leaves it to himself.
LEMMA SetRolesSound ==
    ASSUME db \in Tables, NEW s \in Sessions, NEW p \in People, NEW q \in People,
           NEW roles \in SUBSET ROLES, SetRoles(s, p, q, roles)
    PROVE  Sound(s)
<1> DEFINE given == [db["roles"] EXCEPT ![q] = roles]
           tier == [db["tier"] EXCEPT ![q] = TierFor(@, roles)]
           grant == db["grant"]
<1>1. /\ {"admin", "super_admin"} \cap db["roles"][p] # {}
      /\ q = p => "admin" \in roles
  BY DEF SetRoles, IsAdmin, MaySet
<1>2. [db EXCEPT !.roles[q] = roles, !.tier[q] = TierFor(@, roles)]
        = [db EXCEPT !["roles"] = given, !["tier"] = tier, !["grant"] = grant]
  BY DEF Tables
<1>3. /\ given \in [People -> SUBSET Roles] /\ grant \in [People -> Grants]
      /\ "super_admin" \notin roles
  BY DEF Tables, ROLES, Roles
<1>4. tier \in [People -> {0, 2, 3}]
  <2>1. db["tier"] \in [People -> {0, 2, 3}]
    BY DEF Tables
  <2>2. TierFor(db["tier"][q], roles) \in {0, 2, 3}
    BY <2>1 DEF TierFor
  <2> QED BY <2>1, <2>2
<1>5. Roled(db) => /\ \A r \in People : "super_admin" \in given[r] => "admin" \in given[r]
                   /\ \E r \in People : "admin" \in given[r]
  BY <1>1, <1>3 DEF Roled, Tables
<1>6. Begin(s, [db EXCEPT !["roles"] = given, !["tier"] = tier, !["grant"] = grant])
  BY <1>2 DEF SetRoles
<1> HIDE DEF given, tier, grant
<1> QED BY <1>3, <1>4, <1>5, <1>6, RolesSound

LEMMA SetModeratorSound ==
    ASSUME db \in Tables, NEW s \in Sessions, NEW p \in People, NEW q \in People,
           SetModerator(s, p, q)
    PROVE  Sound(s)
<1>1. ASSUME NEW roles \in SUBSET Roles, Begin(s, [db EXCEPT !.roles[q] = roles]),
             \A role \in {"admin", "super_admin"} : role \in roles <=> role \in db["roles"][q]
      PROVE  Sound(s)
  <2> DEFINE given == [db["roles"] EXCEPT ![q] = roles]
             tier == db["tier"]
             grant == db["grant"]
  <2>1. [db EXCEPT !.roles[q] = roles]
          = [db EXCEPT !["roles"] = given, !["tier"] = tier, !["grant"] = grant]
    BY DEF Tables
  <2>2. /\ given \in [People -> SUBSET Roles] /\ grant \in [People -> Grants]
        /\ tier \in [People -> {0, 2, 3}]
    BY DEF Tables
  <2>3. Roled(db) => /\ \A r \in People : "super_admin" \in given[r] => "admin" \in given[r]
                     /\ db["seeded"]["bootstrap"] = "founded" => \E r \in People : "admin" \in given[r]
    BY <1>1 DEF Roled, Tables
  <2>4. Begin(s, [db EXCEPT !["roles"] = given, !["tier"] = tier, !["grant"] = grant])
    BY <1>1, <2>1
  <2> HIDE DEF given, tier, grant
  <2> QED BY <2>2, <2>3, <2>4, RolesSound
<1>2. PICK roles \in {db["roles"][q] \cup {"moderator"}, db["roles"][q] \ {"moderator"}} :
          Begin(s, [db EXCEPT !.roles[q] = roles])
  BY DEF SetModerator
<1>3. roles \in SUBSET Roles
  BY <1>2 DEF Tables, Roles, ROLES
<1>4. \A role \in {"admin", "super_admin"} : role \in roles <=> role \in db["roles"][q]
  BY <1>2
<1> QED BY <1>1, <1>2, <1>3, <1>4

LEMMA GrantAdminSound ==
    ASSUME db \in Tables, NEW s \in Sessions, NEW p \in People, NEW q \in People,
           GrantAdmin(s, p, q)
    PROVE  Sound(s)
<1> DEFINE given == [db["roles"] EXCEPT ![q] = @ \cup {"admin"}]
           tier == db["tier"]
           grant == [db["grant"] EXCEPT ![q] = "live"]
<1>1. [db EXCEPT !.roles[q] = @ \cup {"admin"}, !.grant[q] = "live"]
        = [db EXCEPT !["roles"] = given, !["tier"] = tier, !["grant"] = grant]
  BY DEF Tables
<1>2. /\ given \in [People -> SUBSET Roles] /\ grant \in [People -> Grants]
      /\ tier \in [People -> {0, 2, 3}]
  BY DEF Tables, Roles, ROLES, Grants
<1>3. Roled(db) => /\ \A r \in People : "super_admin" \in given[r] => "admin" \in given[r]
                   /\ db["seeded"]["bootstrap"] = "founded" => \E r \in People : "admin" \in given[r]
  BY DEF Roled, Tables
<1>4. Begin(s, [db EXCEPT !["roles"] = given, !["tier"] = tier, !["grant"] = grant])
  BY <1>1 DEF GrantAdmin
<1> HIDE DEF given, tier, grant
<1> QED BY <1>2, <1>3, <1>4, RolesSound

LEMMA VerifySound ==
    ASSUME db \in Tables, NEW s \in Sessions, NEW p \in People, Verify(s, p)
    PROVE  Sound(s)
<1> DEFINE given == db["roles"]
           tier == [db["tier"] EXCEPT ![p] = 2]
           grant == db["grant"]
<1>1. [db EXCEPT !.tier[p] = 2]
        = [db EXCEPT !["roles"] = given, !["tier"] = tier, !["grant"] = grant]
  BY DEF Tables
<1>2. /\ given \in [People -> SUBSET Roles] /\ grant \in [People -> Grants]
      /\ tier \in [People -> {0, 2, 3}]
  BY DEF Tables
<1>3. Begin(s, [db EXCEPT !["roles"] = given, !["tier"] = tier, !["grant"] = grant])
  BY <1>1 DEF Verify
<1>4. Roled(db) => /\ \A r \in People : "super_admin" \in given[r] => "admin" \in given[r]
                   /\ db["seeded"]["bootstrap"] = "founded" => \E r \in People : "admin" \in given[r]
  BY DEF Roled
<1> HIDE DEF given, tier, grant
<1> QED BY <1>2, <1>3, <1>4, RolesSound

\* Every handler.
LEMMA HandlersSound ==
    ASSUME db \in Tables, window \in Windows, NEW s \in Sessions, Member(s) \/ Administration(s)
    PROVE  Sound(s)
<1>1. CASE Member(s)
  <2>1. ASSUME NEW t \in Tokens, Logout(s, t) PROVE Sound(s)
    BY <2>1, RevokeSound DEF Logout
  <2>2. ASSUME NEW t \in Tokens, NEW o \in Tokens, RevokeSession(s, t, o) PROVE Sound(s)
    BY <2>2, RevokeSound DEF RevokeSession
  <2> QED BY <1>1, <2>1, <2>2, SignupSound, LoginSound, FailedSound, ChangeSound, ResetSound
          DEF Member, SignupByApi, LoginByApi, LogoutByApi, RevokeByApi, ChangeByApi
<1>2. CASE Administration(s)
  BY <1>2, SetRolesSound, SetModeratorSound, GrantAdminSound, VerifySound DEF Administration
<1> QED BY <1>1, <1>2

-----------------------------------------------------------------------------
(* The steps, as to types and to requests one after another.               *)

LEMMA TablesShaped ==
    ASSUME NEW d \in Tables, db \in Tables
    PROVE  Shaped(d) /\ \A w \in Windows : d["passed"][w] \in Int
  BY DEF Tables, Shaped

LEMMA BeginsKeep ==
    ASSUME TypedInv, SerialInv, NEW s \in Sessions, Sound(s), UNCHANGED window
    PROVE  TypedInv' /\ SerialInv'
<1>1. PICK result \in Tables : /\ Begin(s, result)
                               /\ Roled(db) => Roled(result)
                               /\ Worded(db) => Worded(result)
  BY DEF Sound
<1>2. SessionsTyped /\ Alone /\ db \in Tables
  BY DEF TypedInv, SerialInv
<1>3. Shaped(db) /\ Shaped(result)
  BY <1>2, TablesShaped DEF Tables, Shaped
<1>4. \A t \in Booked \cap DOMAIN db : \A k \in DOMAIN db[t] : db[t][k] \in Int /\ result[t][k] \in Int
  <2>1. Booked = {"passed"} /\ DOMAIN db["passed"] = Windows
    BY <1>2, AccountsAssumption DEF Tables
  <2> QED BY <1>2, <2>1, TablesShaped DEF Tables
<1>5. /\ SessionsTyped' /\ Alone'
      /\ db' = db
      /\ session'[s] = Changes(result)
      /\ \A r \in Sessions : r # s => session'[r] = session[r]
      /\ ~overlapped' => ~overlapped /\ Open = {}
      /\ ~overlapped' => \A r \in Open' : r = s /\ After(r)' = result
  BY <1>1, <1>2, <1>3, <1>4, AloneBegins
<1>6. TypedInv'
  <2>1. \A c \in Changes(result) : Typed(c, Tables)
    BY <1>2, ChangesTypedAt
  <2>2. ASSUME NEW r \in Sessions, NEW c \in session'[r] PROVE Typed(c, Tables)
    BY <1>5, <2>1, <2>2 DEF TypedInv
  <2>3. \A r \in Sessions : \A c \in session'[r] : Typed(c, Tables)'
    BY <1>5, <2>2 DEF Typed
  <2>4. overlapped' \in BOOLEAN
    BY <1>1 DEF Begin, TypedInv
  <2> QED BY <1>2, <1>5, <2>3, <2>4 DEF TypedInv
<1>7. SerialInv'
  <2>1. ~overlapped' => /\ Roled(db) /\ Worded(db) /\ Roled(result) /\ Worded(result)
    BY <1>1, <1>5 DEF SerialInv
  <2>2. ~overlapped' => \A r \in Open' : (Roled(After(r)) /\ Worded(After(r)))'
    BY <1>5, <2>1 DEF Roled, Worded
  <2>3. ~overlapped' => (Roled(db) /\ Worded(db))'
    BY <1>5, <2>1 DEF Roled, Worded
  <2> QED BY <1>5, <2>2, <2>3 DEF SerialInv
<1> QED BY <1>6, <1>7

\* A commit writes values of their columns' types; for the throttle's see above.
LEMMA CommitsTyped ==
    ASSUME TypedInv, ThrottleInv', NEW s \in Sessions, Commit(s), UNCHANGED window
    PROVE  TypedInv'
<1>1. /\ session'[s] = {} /\ SessionsTyped'
      /\ \A r \in Sessions : r # s => session'[r] = session[r]
      /\ overlapped' = overlapped
  BY DEF Commit, TypedInv, SessionsTyped
<1>2. Shaped(db') /\ DOMAIN db' = DOMAIN db /\ \A t \in DOMAIN db : DOMAIN db'[t] = DOMAIN db[t]
  BY Committed
<1>3. /\ db' = [t \in DOMAIN db |-> db'[t]]
      /\ \A t \in DOMAIN db : db'[t] = [k \in DOMAIN db[t] |-> db'[t][k]]
  BY <1>2 DEF Shaped
<1>4. /\ db \in Tables /\ Booked = {"passed"} /\ \A c \in session[s] : Typed(c, Tables)
      /\ DOMAIN db = {"handle", "user", "token", "began", "change", "count", "passed", "roles",
                      "tier", "grant", "seeded"}
  BY AccountsAssumption DEF TypedInv, Tables
<1>5. db'["count"] \in [Windows -> Nat] /\ db'["passed"] \in [Windows -> Nat]
  BY DEF ThrottleInv, TablesKept
<1>6. db'["handle"] \in [{"handle"} -> {"none", "taken"}]
  <2>1. "handle" \in DOMAIN db \ Booked
    BY <1>4
  <2>2. \A e \in Tables : e["handle"] \in [{"handle"} -> {"none", "taken"}]
    BY DEF Tables
  <2> QED BY <1>4, <2>1, <2>2, CommitTable, Zenon
<1>7. db'["user"] \in [{"hash"} -> Hash]
  <2>1. "user" \in DOMAIN db \ Booked
    BY <1>4
  <2>2. \A e \in Tables : e["user"] \in [{"hash"} -> Hash]
    BY DEF Tables
  <2> QED BY <1>4, <2>1, <2>2, CommitTable, Zenon
<1>8. db'["token"] \in [Tokens -> TokenStates]
  <2>1. "token" \in DOMAIN db \ Booked
    BY <1>4
  <2>2. \A e \in Tables : e["token"] \in [Tokens -> TokenStates]
    BY DEF Tables
  <2> QED BY <1>4, <2>1, <2>2, CommitTable, Zenon
<1>9. db'["began"] \in [Tokens -> 0..MaxWord]
  <2>1. "began" \in DOMAIN db \ Booked
    BY <1>4
  <2>2. \A e \in Tables : e["began"] \in [Tokens -> 0..MaxWord]
    BY DEF Tables
  <2> QED BY <1>4, <2>1, <2>2, CommitTable, Zenon
<1>10. db'["change"] \in [{"last"} -> [word : 0..MaxWord, keep : Tokens \cup {"none"}]]
  <2> DEFINE values == [word : 0..MaxWord, keep : Tokens \cup {"none"}]
  <2>1. "change" \in DOMAIN db \ Booked
    BY <1>4
  <2>2. \A e \in Tables : e["change"] \in [{"last"} -> values]
    BY DEF Tables
  <2> HIDE DEF values
  <2>3. db'["change"] \in [{"last"} -> values]
    BY <1>4, <2>1, <2>2, CommitTable, Zenon
  <2> QED BY <2>3 DEF values
<1>11. db'["roles"] \in [People -> SUBSET Roles]
  <2>1. "roles" \in DOMAIN db \ Booked
    BY <1>4
  <2>2. \A e \in Tables : e["roles"] \in [People -> SUBSET Roles]
    BY DEF Tables
  <2> QED BY <1>4, <2>1, <2>2, CommitTable, Zenon
<1>12. db'["tier"] \in [People -> {0, 2, 3}]
  <2> DEFINE values == {0, 2, 3}
  <2>1. "tier" \in DOMAIN db \ Booked
    BY <1>4
  <2>2. \A e \in Tables : e["tier"] \in [People -> values]
    BY DEF Tables
  <2> HIDE DEF values
  <2>3. db'["tier"] \in [People -> values]
    BY <1>4, <2>1, <2>2, CommitTable, Zenon
  <2> QED BY <2>3 DEF values
<1>13. db'["grant"] \in [People -> Grants]
  <2>1. "grant" \in DOMAIN db \ Booked
    BY <1>4
  <2>2. \A e \in Tables : e["grant"] \in [People -> Grants]
    BY DEF Tables
  <2> QED BY <1>4, <2>1, <2>2, CommitTable, Zenon
<1>14. db'["seeded"] \in [{"bootstrap"} -> {"no", "unfounded", "founded"}]
  <2> DEFINE values == {"no", "unfounded", "founded"}
  <2>1. "seeded" \in DOMAIN db \ Booked
    BY <1>4
  <2>2. \A e \in Tables : e["seeded"] \in [{"bootstrap"} -> values]
    BY DEF Tables
  <2> HIDE DEF values
  <2>3. db'["seeded"] \in [{"bootstrap"} -> values]
    BY <1>4, <2>1, <2>2, CommitTable, Zenon
  <2> QED BY <2>3 DEF values
<1>15. db' \in Tables
  BY <1>3, <1>4, <1>5, <1>6, <1>7, <1>8, <1>9, <1>10, <1>11, <1>12, <1>13, <1>14 DEF Tables
<1>16. \A r \in Sessions : \A c \in session'[r] : Typed(c, Tables)'
  BY <1>1, <1>2 DEF TypedInv, Typed
<1> QED BY <1>1, <1>15, <1>16 DEF TypedInv

LEMMA EndsKeep ==
    ASSUME TypedInv, SerialInv, NEW s \in Sessions, Commit(s) \/ Rollback(s)
    PROVE  SerialInv'
<1>1. /\ Alone' /\ overlapped' = overlapped /\ (~overlapped' => Open' = {})
  BY AloneEnds DEF TypedInv, SerialInv
<1>2. CASE Commit(s)
  <2>1. s \in Open /\ db' = After(s)
    BY <1>2, Committed
  <2>2. ~overlapped => Roled(After(s)) /\ Worded(After(s))
    BY <2>1 DEF SerialInv
  <2>3. ~overlapped => (Roled(db) /\ Worded(db))'
    BY <2>1, <2>2 DEF Roled, Worded
  <2> QED BY <1>1, <2>3 DEF SerialInv
<1>3. CASE Rollback(s)
  <2>1. db' = db
    BY <1>3 DEF Rollback
  <2>2. ~overlapped => (Roled(db) /\ Worded(db))'
    BY <2>1 DEF Roled, Worded, SerialInv
  <2> QED BY <1>1, <2>2 DEF SerialInv
<1> QED BY <1>2, <1>3

LEMMA RollbacksTyped ==
    ASSUME TypedInv, NEW s \in Sessions, Rollback(s), UNCHANGED window
    PROVE  TypedInv'
<1>1. /\ session'[s] = {} /\ SessionsTyped'
      /\ \A r \in Sessions : r # s => session'[r] = session[r]
      /\ overlapped' = overlapped /\ db' = db
  BY DEF Rollback, TypedInv, SessionsTyped
<1> QED BY <1>1 DEF TypedInv, Typed

\* A step outside the sessions leaves the rows there are.
RowsKept ==
    /\ UNCHANGED <<session, overlapped>>
    /\ DOMAIN db' = DOMAIN db /\ \A t \in DOMAIN db : DOMAIN db'[t] = DOMAIN db[t]

LEMMA OutsideTyped ==
    ASSUME TypedInv, RowsKept, db' \in Tables, window' \in Windows
    PROVE  TypedInv'
<1>1. \A r \in Sessions : \A c \in session'[r] : Typed(c, Tables)'
  BY DEF TypedInv, RowsKept, Typed
<1> QED BY <1>1 DEF TypedInv, RowsKept, SessionsTyped

\* What an open session will make of it stays good when a session of the
\* member expires: the row is written over, or no longer live.
LEMMA ExpireKeeps ==
    ASSUME TypedInv, SerialInv, NEW t \in Tokens, Expire(t)
    PROVE  TypedInv' /\ SerialInv'
<1>1. db \in Tables /\ window \in Windows
  BY DEF TypedInv
<1>2. /\ UNCHANGED <<session, overlapped, window>>
      /\ db["token"][t] = "live" /\ db' = [db EXCEPT !.token[t] = "expired"]
  BY DEF Expire
<1>3. db' \in Tables
  BY <1>1, <1>2 DEF Tables, TokenStates
<1>4. /\ RowsKept
      /\ {"handle", "user", "change", "began", "roles", "seeded", "token"} \subseteq DOMAIN db
      /\ \A u \in {"handle", "user", "change", "began", "roles", "seeded"} : db'[u] = db[u]
      /\ DOMAIN db["token"] = Tokens
      /\ \A o \in Tokens : db'["token"][o] = "live" => db["token"][o] = "live"
  BY <1>1, <1>2 DEF RowsKept, Tables
<1>5. TypedInv'
  BY <1>1, <1>2, <1>3, <1>4, OutsideTyped
<1>6. ASSUME Roled(db), Worded(db) PROVE Roled(db') /\ Worded(db')
  BY <1>4, <1>6 DEF Roled, Worded
<1>7. ASSUME NEW r \in Open, Roled(After(r)), Worded(After(r))
      PROVE  (Roled(After(r)) /\ Worded(After(r)))'
  <2>1. \A u \in {"handle", "user", "change", "began", "roles", "seeded"} :
            After(r)'[u] = After(r)[u]
    BY <1>2, <1>4, AfterTable DEF Open, RowsKept
  <2>2. ASSUME NEW o \in Tokens, After(r)'["token"][o] = "live"
        PROVE  After(r)["token"][o] = "live"
    <3>1. "token" \in DOMAIN db \ Booked
      BY <1>4, AccountsAssumption
    <3>2. \/ After(r)'["token"][o] = After(r)["token"][o]
          \/ After(r)'["token"][o] = db'["token"][o] /\ After(r)["token"][o] = db["token"][o]
      BY <1>2, <1>4, <3>1, AfterRow DEF Open, RowsKept
    <3> QED BY <1>4, <2>2, <3>2
  <2>3. Roled(After(r)')
    BY <1>7, <2>1 DEF Roled
  <2>4. Worded(After(r)')
    BY <1>7, <2>1, <2>2 DEF Worded
  <2> QED BY <2>3, <2>4 DEF Roled, Worded
<1>8. Open' = Open
  BY <1>2 DEF Open
<1>9. ~overlapped' => (Roled(db) /\ Worded(db))' /\ \A r \in Open' : (Roled(After(r)) /\ Worded(After(r)))'
  BY <1>2, <1>6, <1>7, <1>8 DEF SerialInv, Roled, Worded
<1> QED BY <1>2, <1>5, <1>8, <1>9 DEF SerialInv, Alone

\* Other steps outside the sessions touch no table of the two, or find no
\* session open.
LEMMA ClockTyped ==
    ASSUME TypedInv, SerialInv, NextWindow \/ Release \/ Bootstrap \/ (\E p \in People : GrantExpires(p))
    PROVE  TypedInv' /\ SerialInv'
<1>1. db \in Tables /\ window \in Windows
  BY DEF TypedInv
<1>2. CASE NextWindow
  <2>1. UNCHANGED requestVars /\ window' \in Windows
    BY <1>2 DEF NextWindow
  <2>2. TypedInv'
    BY <1>1, <2>1, OutsideTyped DEF requestVars, RowsKept
  <2>3. SerialInv'
    <3>1. UNCHANGED <<db, session, overlapped>> /\ Open' = Open
      BY <2>1 DEF requestVars, Open
    <3>2. \A r \in Open : After(r)' = After(r)
      BY <3>1, AfterSame DEF Open
    <3> QED BY <3>1, <3>2 DEF SerialInv, Alone, Roled, Worded
  <2> QED BY <2>2, <2>3
<1>3. CASE Release
  <2>1. /\ UNCHANGED <<session, overlapped, window>> /\ Open = {}
        /\ db' = [db EXCEPT !.user["hash"].stale = TRUE]
    BY <1>3 DEF Release
  <2> DEFINE hash == [db["user"]["hash"] EXCEPT !.stale = TRUE]
  <2>2. db' = [db EXCEPT !["user"] = [@ EXCEPT !["hash"] = hash]]
    BY <1>1, <2>1 DEF Tables
  <2>3. hash \in Hash /\ hash.word = db["user"]["hash"].word
    <3>1. db["user"]["hash"] \in Hash
      BY <1>1 DEF Tables
    <3> QED BY <3>1 DEF Hash
  <2> HIDE DEF hash
  <2>4. /\ db' \in Tables /\ RowsKept
        /\ db'["user"]["hash"].word = db["user"]["hash"].word
        /\ \A u \in {"handle", "token", "change", "began", "roles", "seeded"} : db'[u] = db[u]
    <3>1. db' \in Tables
      BY <1>1, <2>2, <2>3 DEF Tables
    <3>2. RowsKept
      BY <1>1, <2>1, <2>2 DEF Tables, RowsKept
    <3>3. \A u \in {"handle", "token", "change", "began", "roles", "seeded"} : db'[u] = db[u]
      BY <1>1, <2>2 DEF Tables
    <3>4. db'["user"]["hash"] = hash
      BY <1>1, <2>2 DEF Tables
    <3> QED BY <2>3, <3>1, <3>2, <3>3, <3>4
  <2>5. TypedInv'
    BY <1>1, <2>1, <2>4, OutsideTyped
  <2>6. ~overlapped' => (Roled(db) /\ Worded(db))'
    BY <2>1, <2>4 DEF SerialInv, Roled, Worded
  <2>7. Open' = {}
    BY <2>1 DEF Open
  <2> QED BY <2>5, <2>6, <2>7 DEF SerialInv, Alone
<1>4. CASE Bootstrap
  <2>0. PICK users \in SUBSET People : \E founders \in SUBSET users :
            db' = [db EXCEPT !.seeded["bootstrap"] = IF founders = {} THEN "unfounded" ELSE "founded",
                             !.roles = [p \in People |->
                                 @[p] \cup (IF p \in users THEN {"moderator"} ELSE {})
                                      \cup (IF p \in founders THEN {"admin", "super_admin"} ELSE {})]]
    BY <1>4, Zenon DEF Bootstrap
  <2>8. PICK founders \in SUBSET users :
            db' = [db EXCEPT !.seeded["bootstrap"] = IF founders = {} THEN "unfounded" ELSE "founded",
                             !.roles = [p \in People |->
                                 @[p] \cup (IF p \in users THEN {"moderator"} ELSE {})
                                      \cup (IF p \in founders THEN {"admin", "super_admin"} ELSE {})]]
    BY <2>0, Zenon
  <2> DEFINE given == [p \in People |-> db["roles"][p]
                           \cup (IF p \in users THEN {"moderator"} ELSE {})
                           \cup (IF p \in founders THEN {"admin", "super_admin"} ELSE {})]
             seeded == [db["seeded"] EXCEPT !["bootstrap"] = IF founders = {} THEN "unfounded" ELSE "founded"]
  <2>1. /\ UNCHANGED <<session, overlapped, window>> /\ Open = {}
        /\ db' = [db EXCEPT !["seeded"] = seeded, !["roles"] = given]
    BY <1>1, <1>4, <2>8 DEF Bootstrap, Tables
  <2>2. given \in [People -> SUBSET Roles] /\ seeded \in [{"bootstrap"} -> {"no", "unfounded", "founded"}]
    BY <1>1 DEF Tables, Roles, ROLES
  <2>3. /\ ~overlapped => \A p \in People : "super_admin" \in given[p] => "admin" \in given[p]
        /\ seeded["bootstrap"] = "founded" => \E p \in People : "admin" \in given[p]
    <3>1. \A p \in People : p \in founders => "admin" \in given[p]
      OBVIOUS
    <3>2. ~overlapped => \A p \in People : "super_admin" \in given[p] => "admin" \in given[p]
      BY <3>1 DEF SerialInv, Roled
    <3>3. seeded["bootstrap"] = "founded" => founders # {}
      BY <1>1 DEF Tables
    <3> HIDE DEF given, seeded
    <3> QED BY <3>1, <3>2, <3>3
  <2> HIDE DEF given, seeded
  <2>4. /\ db' \in Tables /\ RowsKept /\ db'["roles"] = given /\ db'["seeded"] = seeded
        /\ \A u \in {"handle", "user", "token", "change", "began"} : db'[u] = db[u]
    BY <1>1, <2>1, <2>2 DEF Tables, RowsKept
  <2>5. TypedInv'
    BY <1>1, <2>1, <2>4, OutsideTyped
  <2>6. ~overlapped' => (Roled(db) /\ Worded(db))'
    BY <2>1, <2>3, <2>4 DEF SerialInv, Roled, Worded
  <2>7. Open' = {}
    BY <2>1 DEF Open
  <2> QED BY <2>5, <2>6, <2>7 DEF SerialInv, Alone
<1>5. ASSUME NEW p \in People, GrantExpires(p)
      PROVE  TypedInv' /\ SerialInv'
  <2>1. /\ UNCHANGED <<session, overlapped, window>>
        /\ db' = [db EXCEPT !.grant[p] = "expired"]
    BY <1>5 DEF GrantExpires
  <2>2. db' \in Tables
    BY <1>1, <2>1 DEF Tables, Grants
  <2>3. /\ RowsKept
        /\ {"handle", "user", "change", "token", "began", "roles", "seeded"} \subseteq DOMAIN db
        /\ \A u \in {"handle", "user", "change", "token", "began", "roles", "seeded"} : db'[u] = db[u]
    BY <1>1, <2>1 DEF Tables, RowsKept
  <2>4. TypedInv'
    BY <1>1, <2>1, <2>2, <2>3, OutsideTyped
  <2>5. ASSUME NEW r \in Open
        PROVE  \A u \in {"handle", "user", "change", "token", "began", "roles", "seeded"} :
                   After(r)'[u] = After(r)[u]
    BY <2>1, <2>3, AfterTable DEF Open, RowsKept
  <2>6. Open' = Open
    BY <2>1 DEF Open
  <2>7. ~overlapped' => (Roled(db) /\ Worded(db))'
    BY <2>1, <2>3 DEF SerialInv, Roled, Worded
  <2>8. ~overlapped' => \A r \in Open' : (Roled(After(r)) /\ Worded(After(r)))'
    BY <2>1, <2>5, <2>6 DEF SerialInv, Roled, Worded
  <2> QED BY <2>1, <2>4, <2>6, <2>7, <2>8 DEF SerialInv, Alone
<1> QED BY <1>2, <1>3, <1>4, <1>5

-----------------------------------------------------------------------------
LEMMA TypedInit == Init => TypedInv /\ SerialInv
<1> SUFFICES ASSUME Init PROVE TypedInv /\ SerialInv
  OBVIOUS
<1>1. /\ session = [s \in Sessions |-> {}] /\ window = 1 /\ overlapped = FALSE
      /\ db["change"]["last"].word = 0 /\ db["user"]["hash"].word = 0
      /\ db["token"] = [t \in Tokens |-> "none"]
      /\ db["roles"] = [p \in People |-> {}] /\ db["seeded"]["bootstrap"] = "no"
  BY DEF Init
<1>2. db \in Tables
  BY AccountsAssumption DEF Init, Tables, TokenStates, Hash, Roles, ROLES, Grants
<1>3. TypedInv
  BY <1>1, <1>2, AccountsAssumption DEF TypedInv, SessionsTyped
<1>4. Open = {}
  BY <1>1 DEF Open
<1>5. Roled(db) /\ Worded(db)
  BY <1>1 DEF Roled, Worded
<1> QED BY <1>3, <1>4, <1>5 DEF SerialInv, Alone

LEMMA TypedNext == IInv /\ ThrottleInv' /\ [Next]_vars => TypedInv' /\ SerialInv'
<1> SUFFICES ASSUME TypedInv, SerialInv, ThrottleInv', [Next]_vars PROVE TypedInv' /\ SerialInv'
  BY DEF IInv
<1>1. ASSUME NEW s \in Sessions, UNCHANGED window, Member(s) \/ Administration(s)
      PROVE  TypedInv' /\ SerialInv'
  BY <1>1, HandlersSound, BeginsKeep DEF TypedInv
<1>2. ASSUME NEW s \in Sessions, UNCHANGED window, Commit(s) \/ Rollback(s)
      PROVE  TypedInv' /\ SerialInv'
  BY <1>2, CommitsTyped, RollbacksTyped, EndsKeep
<1>3. CASE UNCHANGED vars
  <2>1. UNCHANGED <<db, session, overlapped, window>> /\ Open' = Open
    BY <1>3 DEF vars, requestVars, Open
  <2>2. \A r \in Open : After(r)' = After(r)
    BY <2>1, AfterSame DEF Open
  <2>3. TypedInv'
    BY <2>1, OutsideTyped DEF RowsKept, TypedInv
  <2>4. SerialInv'
    BY <2>1, <2>2 DEF SerialInv, Alone, Roled, Worded
  <2> QED BY <2>3, <2>4
<1> QED BY <1>1, <1>2, <1>3, ExpireKeeps, ClockTyped DEF Next

LEMMA AccountsInvariant == Spec => []IInv
<1>1. Init => IInv
  BY ThrottleInit, TypedInit DEF IInv
<1>2. IInv /\ [Next]_vars => IInv'
  BY ThrottleNext, TypedNext DEF IInv
<1> QED BY <1>1, <1>2, PTL DEF Spec

\* Every table keeps its columns' types, and so does what is still to be
\* written, whatever overlaps.
THEOREM AccountsTyped == Spec => []TypeOK
<1>1. IInv => TypeOK
  BY DEF IInv, TypedInv, TypeOK, ChangesTyped, Typed
<1> QED BY <1>1, AccountsInvariant, PTL

\* "Throttle by identifier and by address" (auth.py, login): no window has more
\* passwords compared by requests that commit than the limit, for any number of
\* requests open at once and any of them rolled back.
THEOREM ThrottleHolds == Spec => []Throttled
<1>1. IInv => Throttled
  BY DEF IInv, ThrottleInv
<1> QED BY <1>1, AccountsInvariant, PTL

\* "Changing a password ends every other session" (auth.py, change_password):
\* for any number of sessions and changes, resets and sign-ins in between.
THEOREM ChangeEndsOthers == Spec => []ChangeEndsSessions
<1>1. IInv => ChangeEndsSessions
  BY DEF IInv, SerialInv, Worded, ChangeEndsSessions, Usable
<1> QED BY <1>1, AccountsInvariant, PTL

\* "You cannot remove your own admin role" (admin.py, set_roles): that is enough
\* for an administrator to remain, among any number of them.
THEOREM AdminRemains == Spec => []AnAdminRemains
<1>1. IInv => AnAdminRemains
  BY DEF IInv, SerialInv, Roled, AnAdminRemains
<1> QED BY <1>1, AccountsInvariant, PTL
=============================================================================
