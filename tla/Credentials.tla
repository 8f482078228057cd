----------------------------- MODULE Credentials ------------------------------
(***************************************************************************)
(* What lets somebody act as an account, and what takes it away again:     *)
(* sessions, API keys, the OAuth grants in flight (authorization codes and *)
(* device codes), the access tokens they are exchanged for, and the bot    *)
(* that carries a connected tool.  src/db/queries/users.rs,                *)
(* src/api/auth.rs, src/oauth.rs and PreparedApiKey of src/auth.rs.        *)
(*                                                                         *)
(* A request is checked when it arrives, works without a lock (Argon2 runs *)
(* off the writer), and commits in one transaction; any number of other    *)
(* transactions commit in between.  An account has at most one bot here:   *)
(* (owner, tool) is unique, and the tools of an account do not interact.   *)
(***************************************************************************)
EXTENDS Naturals, FiniteSets

CONSTANTS
    Humans,         \* accounts
    Nobody,         \* no account
    Sessions,       \* rows the sessions table may hold
    Codes,          \* authorization codes that may be issued
    Devices,        \* device codes that may be requested
    Names,          \* names of API keys (unique in the table)
    MaxLockdowns,   \* bound: lockdowns of one account
    MaxRequests     \* bound: requests in flight at once

ASSUME CredentialsAssumption ==
    /\ Nobody \notin Humans
    /\ Codes \cap Devices = {}
    /\ MaxLockdowns \in Nat /\ MaxRequests \in Nat

Grants == Codes \cup Devices

VARIABLES
    active,     \* users.is_active, of the humans
    bot,        \* the account's tool has a bot user
    password,   \* version of users.password_hash
    session,    \* whose, proved by which password, recent enough to grant
    key,        \* api_keys by name; `to` is the human or the bot
    grant,      \* oauth_codes and oauth_device_codes
    token,      \* oauth_tokens, by the grant each was exchanged for
    requests,   \* checked on arrival, not committed yet
    era,        \* history: lockdowns of each account so far
    minted      \* history: tokens handed out for each grant

accounts == <<active, bot, password>>
credentials == <<session, key, grant, token>>
vars == <<accounts, credentials, requests, era, minted>>

(* Each credential also records the era of the session it descends from.   *)
Session == [of : Humans \cup {Nobody}, era : Nat, password : Nat, fresh : BOOLEAN]
Key == [state : {"none", "live", "revoked"}, of : Humans \cup {Nobody}, to : {"self", "bot"}, era : Nat]
Grant == [state : {"none", "pending", "open", "spent", "denied", "gone"}, of : Humans \cup {Nobody}, era : Nat]
Token == [state : {"none", "live", "expired", "revoked"}, of : Humans \cup {Nobody}, era : Nat]
Kinds == {"login", "refresh", "password", "approve", "key", "tool"}
Request == [kind : Kinds, of : Humans, session : Sessions \cup {Nobody}, password : Nat]

TypeOK ==
    /\ active \in [Humans -> BOOLEAN]
    /\ bot \in [Humans -> BOOLEAN]
    /\ password \in [Humans -> Nat]
    /\ session \in [Sessions -> Session]
    /\ key \in [Names -> Key]
    /\ grant \in [Grants -> Grant]
    /\ token \in [Grants -> Token]
    /\ requests \subseteq Request
    /\ era \in [Humans -> Nat]
    /\ minted \in [Grants -> Nat]

-----------------------------------------------------------------------------
NoSession == [of |-> Nobody, era |-> 0, password |-> 0, fresh |-> FALSE]
NoKey == [state |-> "none", of |-> Nobody, to |-> "self", era |-> 0]
NoGrant == [state |-> "none", of |-> Nobody, era |-> 0]
NoToken == [state |-> "none", of |-> Nobody, era |-> 0]

(* A credential that no longer counts keeps only what a later check reads. *)
Moved(g, state) == [state |-> state, of |-> grant[g].of, era |-> 0]
RevokedKey(n) == [state |-> "revoked", of |-> key[n].of, to |-> key[n].to, era |-> 0]
ExpiredToken(g) == [state |-> "expired", of |-> token[g].of, era |-> 0]
RevokedToken(g) == [state |-> "revoked", of |-> token[g].of, era |-> 0]

(* Mutant: a status that no statement knows.                               *)
RefusedStatus(g) == Moved(g, "revoked")

(* Every terminal state a grant is put in: a burnt code is a used one, an  *)
(* approved device is denied.                                              *)
Burnt(g) == IF g \in Codes THEN Moved(g, "spent") ELSE Moved(g, "denied")

(* validate_session.                                                       *)
ValidSession(s, h) == session[s].of = h /\ active[h]

(* Mutant: the session seen when the request arrived is good enough.       *)
SeenOnArrival(r) == TRUE

(* revalidate_recent_session and recent_approver, the first statement of   *)
(* every transaction that grants something.                                *)
RecentSession(r) == ValidSession(r.session, r.of) /\ session[r.session].fresh

(* bot_is_connected: an expired token still counts.                        *)
BotIsConnected(h) ==
    \/ \E n \in Names : key[n].of = h /\ key[n].to = "bot" /\ key[n].state = "live"
    \/ \E g \in Grants : token[g].of = h /\ token[g].state \in {"live", "expired"}

-----------------------------------------------------------------------------
(* Requests arrive.                                                        *)
Arrive(r) ==
    /\ Cardinality(requests) < MaxRequests
    /\ requests' = requests \cup {r}
    /\ UNCHANGED <<accounts, credentials, era, minted>>

(* The password was verified against the hash read a moment ago.  A        *)
(* refresh presents its session too; a change needs any live credential.   *)
PasswordVerified ==
    \E h \in Humans, s \in Sessions :
        /\ active[h]
        /\ \/ Arrive([kind |-> "login", of |-> h, session |-> Nobody, password |-> password[h]])
           \/ Arrive([kind |-> "password", of |-> h, session |-> Nobody, password |-> password[h]])
           \/ /\ ValidSession(s, h)
              /\ Arrive([kind |-> "refresh", of |-> h, session |-> s, password |-> password[h]])

(* A granting request presents a live session.                             *)
GrantAsked ==
    \E h \in Humans, s \in Sessions, kind \in {"approve", "key", "tool"} :
        /\ ValidSession(s, h)
        /\ Arrive([kind |-> kind, of |-> h, session |-> s, password |-> 0])

Answer(r, kind) == r \in requests /\ r.kind = kind /\ requests' = requests \ {r}

(* A check in the transaction failed; nothing is written.                  *)
Refused ==
    /\ \E r \in requests : requests' = requests \ {r}
    /\ UNCHANGED <<accounts, credentials, era, minted>>

-----------------------------------------------------------------------------
(* Sessions.  A token is drawn at random: no request presents a new one.   *)
Free(s, r) == \A q \in requests \ {r} : q.session # s
NewSession(h, e, p) == [of |-> h, era |-> e, password |-> p, fresh |-> TRUE]

(* Mutant: the password that was verified may have been replaced since.    *)
VerifiedOnce(r) == active[r.of]

(* finalize_login: live, and the stored hash is still the verified one.    *)
StillCorrect(r) == active[r.of] /\ password[r.of] = r.password

AuthLogin(r, s) ==
    /\ Answer(r, "login")
    /\ StillCorrect(r)
    /\ session[s].of = Nobody /\ Free(s, r)
    /\ session' = [session EXCEPT ![s] = NewSession(r.of, era[r.of], r.password)]
    /\ UNCHANGED <<accounts, key, grant, token, era, minted>>

(* refresh_session: the presented session is replaced by a recent one.     *)
RefreshSession(r) ==
    /\ Answer(r, "refresh")
    /\ ValidSession(r.session, r.of) /\ Free(r.session, r)
    /\ StillCorrect(r)
    /\ session' = [session EXCEPT ![r.session] = NewSession(r.of, era[r.of], r.password)]
    /\ UNCHANGED <<accounts, key, grant, token, era, minted>>

(* Logout, or the session expires.                                         *)
DeleteSession(s) ==
    /\ session[s].of # Nobody
    /\ session' = [session EXCEPT ![s] = NoSession]
    /\ UNCHANGED <<accounts, key, grant, token, requests, era, minted>>

(* A quarter of an hour passes: the session may no longer grant.           *)
SessionAges(s) ==
    /\ session[s].fresh
    /\ session' = [session EXCEPT ![s] =
          [of |-> session[s].of, era |-> session[s].era, password |-> session[s].password, fresh |-> FALSE]]
    /\ UNCHANGED <<accounts, key, grant, token, requests, era, minted>>

-----------------------------------------------------------------------------
(* Account recovery.                                                       *)

(* lock_down_account: everything the human and the bot hold.               *)
LockedSessions(h) == [s \in Sessions |-> IF session[s].of = h THEN NoSession ELSE session[s]]
LockedKeys(h) ==
    [n \in Names |-> IF key[n].of = h /\ key[n].state = "live" THEN RevokedKey(n) ELSE key[n]]
LockedTokens(h) ==
    [g \in Grants |->
        IF token[g].of = h /\ token[g].state \in {"live", "expired"} THEN RevokedToken(g) ELSE token[g]]

(* Mutant: the approvals in flight are forgotten.                          *)
StoredOnly(h) == grant

LockedGrants(h) ==
    [g \in Grants |-> IF grant[g].of = h /\ grant[g].state = "open" THEN Burnt(g) ELSE grant[g]]

LockDown(h) ==
    /\ era[h] < MaxLockdowns
    /\ era' = [era EXCEPT ![h] = era[h] + 1]
    /\ key' = LockedKeys(h)
    /\ token' = LockedTokens(h)
    /\ grant' = LockedGrants(h)
    /\ UNCHANGED <<active, bot, minted>>

(* Sign out everywhere.                                                    *)
RevokeAllSessions(h) ==
    /\ LockDown(h)
    /\ session' = LockedSessions(h)
    /\ UNCHANGED <<password, requests>>

(* `lific user set-password`: a new hash and the lockdown in one savepoint.*)
SetPassword(h) ==
    /\ LockDown(h)
    /\ session' = LockedSessions(h)
    /\ password' = [password EXCEPT ![h] = password[h] + 1]
    /\ UNCHANGED requests

(* change_password: the lockdown, then one session for this browser.       *)
ChangePassword(r, s) ==
    /\ Answer(r, "password")
    /\ StillCorrect(r)
    /\ LockDown(r.of)
    /\ session[s].of \in {Nobody, r.of} /\ Free(s, r)
    /\ session' = [LockedSessions(r.of) EXCEPT ![s] = NewSession(r.of, era[r.of] + 1, password[r.of] + 1)]
    /\ password' = [password EXCEPT ![r.of] = password[r.of] + 1]

(* set_active(false): the human's own credentials go, the bot's stay and   *)
(* are dead while the owner is.                                            *)
Deactivate(h) ==
    /\ active[h]
    /\ active' = [active EXCEPT ![h] = FALSE]
    /\ session' = LockedSessions(h)
    /\ key' = [n \in Names |->
          IF key[n].of = h /\ key[n].to = "self" /\ key[n].state = "live" THEN RevokedKey(n) ELSE key[n]]
    /\ UNCHANGED <<bot, password, grant, token, requests, era, minted>>

(* set_active(true).                                                       *)
Reactivate(h) ==
    /\ ~active[h]
    /\ active' = [active EXCEPT ![h] = TRUE]
    /\ UNCHANGED <<bot, password, credentials, requests, era, minted>>

-----------------------------------------------------------------------------
(* API keys.                                                               *)

(* Mutant: ON CONFLICT(name) DO UPDATE with no WHERE.                      *)
AnyRow(n, h, to) == TRUE

(* PreparedApiKey::insert: the name is free, or its revoked row belongs to *)
(* the same owner.                                                         *)
NameIsFree(n, h, to) ==
    key[n].state = "none" \/ (key[n].state = "revoked" /\ key[n].of = h /\ key[n].to = to)

InsertKey(n, h, to, e) ==
    /\ NameIsFree(n, h, to)
    /\ key' = [key EXCEPT ![n] = [state |-> "live", of |-> h, to |-> to, era |-> e]]

CreateKey(r, n) ==
    /\ Answer(r, "key")
    /\ RecentSession(r)
    /\ InsertKey(n, r.of, "self", session[r.session].era)
    /\ UNCHANGED <<accounts, session, grant, token, era, minted>>

(* create_bot: ensure_bot, then a key unless the tool is connected.        *)
CreateBot(r, n) ==
    /\ Answer(r, "tool")
    /\ RecentSession(r)
    /\ ~BotIsConnected(r.of)
    /\ bot' = [bot EXCEPT ![r.of] = TRUE]
    /\ InsertKey(n, r.of, "bot", session[r.session].era)
    /\ UNCHANGED <<active, password, session, grant, token, era, minted>>

RevokeUserKey(n) ==
    /\ key[n].state = "live"
    /\ key' = [key EXCEPT ![n] = RevokedKey(n)]
    /\ UNCHANGED <<accounts, session, grant, token, requests, era, minted>>

(* disconnect_bot, by its owner or an admin.                               *)
DisconnectBot(h) ==
    /\ bot[h]
    /\ key' = [n \in Names |->
          IF key[n].of = h /\ key[n].to = "bot" /\ key[n].state = "live" THEN RevokedKey(n) ELSE key[n]]
    /\ token' = LockedTokens(h)
    /\ grant' = LockedGrants(h)
    /\ UNCHANGED <<accounts, session, requests, era, minted>>

(* Mutant: the grants in flight are left to be exchanged.                  *)
KeepsGrants(g, h) == FALSE

(* A code or device bound to the bot; a denied device also names whoever   *)
(* refused it, and nothing reads it again.                                 *)
BoundToBot(g, h) == grant[g].of = h /\ grant[g].state \in {"open", "spent"}

(* delete_bot: the identity and every row that names it.                   *)
DeleteBot(h) ==
    /\ bot[h]
    /\ bot' = [bot EXCEPT ![h] = FALSE]
    /\ key' = [n \in Names |-> IF key[n].of = h /\ key[n].to = "bot" THEN NoKey ELSE key[n]]
    /\ token' = [g \in Grants |-> IF token[g].of = h THEN NoToken ELSE token[g]]
    /\ grant' = [g \in Grants |-> IF BoundToBot(g, h) THEN Moved(g, "gone") ELSE grant[g]]
    /\ UNCHANGED <<active, password, session, requests, era, minted>>

-----------------------------------------------------------------------------
(* OAuth grants.                                                           *)

(* device_authorization.                                                   *)
DeviceAuthorization(d) ==
    /\ grant[d].state = "none"
    /\ grant' = [grant EXCEPT ![d] = Moved(d, "pending")]
    /\ UNCHANGED <<accounts, session, key, token, requests, era, minted>>

Approved(r, g) == [state |-> "open", of |-> r.of, era |-> session[r.session].era]

(* authorize_approve: the bot and the code in one transaction.             *)
AuthorizeApprove(r, c) ==
    /\ Answer(r, "approve")
    /\ RecentSession(r)
    /\ grant[c].state = "none"
    /\ bot' = [bot EXCEPT ![r.of] = TRUE]
    /\ grant' = [grant EXCEPT ![c] = Approved(r, c)]
    /\ UNCHANGED <<active, password, session, key, token, era, minted>>

(* device_approve: only a pending, unexpired code changes hands.           *)
DeviceApprove(r, d) ==
    /\ Answer(r, "approve")
    /\ RecentSession(r)
    /\ grant[d].state = "pending"
    /\ bot' = [bot EXCEPT ![r.of] = TRUE]
    /\ grant' = [grant EXCEPT ![d] = Approved(r, d)]
    /\ UNCHANGED <<active, password, session, key, token, era, minted>>

(* Denying takes a live session, not a recent one.                         *)
DeviceDeny(r, d) ==
    /\ Answer(r, "approve")
    /\ ValidSession(r.session, r.of)
    /\ grant[d].state = "pending"
    /\ grant' = [grant EXCEPT ![d] = Moved(d, "denied")]
    /\ UNCHANGED <<accounts, session, key, token, era, minted>>

(* No statement matches an expired code; a device code's row is deleted by *)
(* the poll that finds it expired, or by the next device_authorization.    *)
GrantExpires(g) ==
    /\ grant[g].state \in {"pending", "open", "denied"}
    /\ grant' = [grant EXCEPT ![g] = Moved(g, "gone")]
    /\ UNCHANGED <<accounts, session, key, token, requests, era, minted>>

(* Mutant: the code is looked up, not burnt.                               *)
NotBurnt(g) == grant[g]

Consumed(g) == Moved(g, "spent")

(* token_exchange and device_token_exchange: the grant is open, the bot it *)
(* names still exists and its owner is active; burn it and store the token.*)
TokenExchange(g) ==
    /\ grant[g].state = "open"
    /\ bot[grant[g].of] /\ active[grant[g].of]
    /\ grant' = [grant EXCEPT ![g] = Consumed(g)]
    /\ token' = [token EXCEPT ![g] = [state |-> "live", of |-> grant[g].of, era |-> grant[g].era]]
    /\ minted' = [minted EXCEPT ![g] = minted[g] + 1]
    /\ UNCHANGED <<accounts, session, key, requests, era>>

RevokeToken(g) ==
    /\ token[g].state \in {"live", "expired"}
    /\ token' = [token EXCEPT ![g] = RevokedToken(g)]
    /\ UNCHANGED <<accounts, session, key, grant, requests, era, minted>>

TokenExpires(g) ==
    /\ token[g].state = "live"
    /\ token' = [token EXCEPT ![g] = ExpiredToken(g)]
    /\ UNCHANGED <<accounts, session, key, grant, requests, era, minted>>

-----------------------------------------------------------------------------
Init ==
    /\ active = [h \in Humans |-> TRUE]
    /\ bot = [h \in Humans |-> FALSE]
    /\ password = [h \in Humans |-> 0]
    /\ session = [s \in Sessions |-> NoSession]
    /\ key = [n \in Names |-> NoKey]
    /\ grant = [g \in Grants |-> NoGrant]
    /\ token = [g \in Grants |-> NoToken]
    /\ requests = {}
    /\ era = [h \in Humans |-> 0]
    /\ minted = [g \in Grants |-> 0]

SessionStep ==
    \/ \E r \in requests, s \in Sessions : AuthLogin(r, s) \/ ChangePassword(r, s)
    \/ \E r \in requests : RefreshSession(r)
    \/ \E s \in Sessions : DeleteSession(s) \/ SessionAges(s)

AccountStep ==
    \E h \in Humans : RevokeAllSessions(h) \/ SetPassword(h) \/ Deactivate(h) \/ Reactivate(h)

ToolStep ==
    \/ \E r \in requests, n \in Names : CreateKey(r, n) \/ CreateBot(r, n)
    \/ \E n \in Names : RevokeUserKey(n)
    \/ \E h \in Humans : DisconnectBot(h) \/ DeleteBot(h)

GrantStep ==
    \/ \E r \in requests, c \in Codes : AuthorizeApprove(r, c)
    \/ \E r \in requests, d \in Devices : DeviceApprove(r, d) \/ DeviceDeny(r, d)
    \/ \E d \in Devices : DeviceAuthorization(d)
    \/ \E g \in Grants : GrantExpires(g) \/ TokenExchange(g) \/ RevokeToken(g) \/ TokenExpires(g)

Next ==
    \/ PasswordVerified \/ GrantAsked \/ Refused
    \/ SessionStep \/ AccountStep \/ ToolStep \/ GrantStep

Spec == Init /\ [][Next]_vars

-----------------------------------------------------------------------------
(* After a recovery nothing that was authorized before it works, and       *)
(* nothing it missed comes to life later: every live credential of an      *)
(* account, a code or an approved device still to be exchanged included,   *)
(* descends from a session opened since the account's last lockdown.       *)
LockdownSevers ==
    /\ \A s \in Sessions : session[s].of # Nobody => session[s].era = era[session[s].of]
    /\ \A n \in Names : key[n].state = "live" => key[n].era = era[key[n].of]
    /\ \A g \in Grants :
          /\ grant[g].state = "open" => grant[g].era = era[grant[g].of]
          /\ token[g].state = "live" => token[g].era = era[token[g].of]

(* A login that was verifying the old password while it was changed gets   *)
(* no session: every session was opened with the password in force.        *)
SessionsKnowThePassword ==
    \A s \in Sessions : session[s].of # Nobody => session[s].password = password[session[s].of]

(* A code or an approval is worth one token, whatever polls and replays.   *)
OneTokenPerGrant == \A g \in Grants : minted[g] <= 1

(* A deactivated human holds nothing to come back with, also when a login  *)
(* or a grant was on its way when the account was switched off.            *)
DeactivatedHoldsNothing ==
    \A h \in Humans : ~active[h] =>
        /\ \A s \in Sessions : session[s].of # h
        /\ \A n \in Names : key[n].of = h /\ key[n].to = "self" => key[n].state # "live"

(* No credential names a bot that is gone.                                 *)
NoOrphanCredential ==
    /\ \A n \in Names : key[n].state = "live" /\ key[n].to = "bot" => bot[key[n].of]
    /\ \A g \in Grants :
          /\ grant[g].state = "open" => bot[grant[g].of]
          /\ token[g].state = "live" => bot[token[g].of]

(* Nothing outlives the account that it acts for, human or bot.            *)
AccountsCarryTheirCredentials == DeactivatedHoldsNothing /\ NoOrphanCredential

(* What was revoked, burnt or denied stays so: a key's name is reusable,   *)
(* the key of a revoked row is not, and no grant opens twice.              *)
RevokedStaysRevoked ==
    [][/\ \A g \in Grants :
            /\ token[g].state = "revoked" => token'[g].state \in {"revoked", "none"}
            /\ grant[g].state \in {"spent", "denied", "gone"} => grant'[g].state # "open"
       /\ \A n \in Names :
            key[n].state = "live" /\ key'[n].state = "live" => key'[n] = key[n]]_vars

-----------------------------------------------------------------------------
(* Who holds what, as the promise sees it.                                 *)
Enabled == {h \in Humans : active[h]}
Opened == [s \in Sessions |-> [of |-> session[s].of, since |-> session[s].era]]
Keys == [n \in Names |-> IF key[n].state = "live" THEN key[n].of ELSE Nobody]
Approvals == [g \in Grants |-> IF grant[g].state = "open" THEN grant[g].of ELSE Nobody]
Tokens == [g \in Grants |-> IF token[g].state = "live" THEN token[g].of ELSE Nobody]
Ended == {g \in Grants : grant[g].state \in {"spent", "denied", "gone"}}

Promise == INSTANCE Authority
           WITH Accounts <- Humans, Slots <- Sessions,
                enabled <- Enabled, recoveries <- era, opened <- Opened,
                keys <- Keys, approvals <- Approvals, tokens <- Tokens, ended <- Ended

(* Whatever was checked early and committed late, nobody comes to act as   *)
(* an account but by its password, by a session that is open at the very   *)
(* moment, or by an approval that this uses up; and what a recovery, a     *)
(* deactivation or a revocation takes away is gone for good.               *)
AuthorityIsEarned == Promise!Spec
===============================================================================
