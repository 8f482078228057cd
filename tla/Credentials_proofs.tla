-------------------------- MODULE Credentials_proofs --------------------------
(***************************************************************************)
(* The credentials of every number of accounts, sessions, grants and keys, *)
(* with any number of requests in flight.                                  *)
(*                                                                         *)
(* The argument: a request carries nothing of the account but what the     *)
(* transaction checks again, so whatever a step makes live descends from a *)
(* session that is live at that step.  OneTokenPerGrant needs one more     *)
(* fact, that no token was handed out for a grant that can still open.     *)
(* With that invariant each step is shown to be one of Authority.          *)
(***************************************************************************)
EXTENDS Credentials, TLAPS

(* Only a spent grant, or one that went after it was, has given a token.   *)
UnspentIsUnminted ==
    \A g \in Grants :
        /\ minted[g] \in 0..1
        /\ grant[g].state \in {"none", "pending", "open"} => minted[g] = 0

(* A row that is not a live credential names no one by accident: what      *)
(* holds of live rows is about accounts.                                   *)
LiveHasOwner ==
    /\ \A n \in Names : key[n].state # "none" => key[n].of \in Humans
    /\ \A g \in Grants :
          /\ grant[g].state \in {"open", "spent"} => grant[g].of \in Humans
          /\ token[g].state # "none" => token[g].of \in Humans

(* A request that grants something presents a session.                     *)
AskersPresentOne ==
    \A r \in requests : r.kind \in {"refresh", "approve", "key", "tool"} => r.session \in Sessions

IInv ==
    /\ TypeOK /\ LiveHasOwner /\ AskersPresentOne
    /\ LockdownSevers /\ SessionsKnowThePassword
    /\ UnspentIsUnminted
    /\ DeactivatedHoldsNothing /\ NoOrphanCredential

LEMMA Initially ==
    ASSUME Init
    PROVE  IInv
BY CredentialsAssumption DEF Init, IInv, TypeOK, LiveHasOwner, AskersPresentOne, LockdownSevers, SessionsKnowThePassword,
    UnspentIsUnminted, DeactivatedHoldsNothing, NoOrphanCredential, NoSession, NoKey, NoGrant, NoToken,
    Session, Key, Grant, Token

(* What is on its way changes nothing that is stored.                      *)
LEMMA ArrivalKeeps ==
    ASSUME IInv, PasswordVerified \/ GrantAsked \/ Refused
    PROVE  IInv'
BY DEF PasswordVerified, GrantAsked, Refused, Arrive, ValidSession, accounts, credentials,
    IInv, TypeOK, LiveHasOwner, AskersPresentOne, LockdownSevers, SessionsKnowThePassword,
    UnspentIsUnminted, DeactivatedHoldsNothing, NoOrphanCredential, Request, Kinds

(* A login and a refresh: a session of a live account, opened with the     *)
(* password in force.                                                      *)
LEMMA NewSessionKeeps ==
    ASSUME IInv, NEW h \in Humans, NEW s \in Sessions, active[h],
           session' = [session EXCEPT ![s] = NewSession(h, era[h], password[h])],
           requests' \subseteq requests,
           UNCHANGED <<accounts, key, grant, token, era, minted>>
    PROVE  IInv'
<1>1. UNCHANGED <<active, bot, password, key, grant, token, era, minted>>
  BY DEF accounts
<1>2. TypeOK'
  BY <1>1 DEF IInv, TypeOK, NewSession, Session
<1>3. LockdownSevers' /\ SessionsKnowThePassword' /\ DeactivatedHoldsNothing'
  BY <1>1 DEF IInv, TypeOK, NewSession, LockdownSevers, SessionsKnowThePassword, DeactivatedHoldsNothing
<1>4. LiveHasOwner' /\ AskersPresentOne' /\ UnspentIsUnminted' /\ NoOrphanCredential'
  BY <1>1 DEF IInv, LiveHasOwner, AskersPresentOne, UnspentIsUnminted, NoOrphanCredential
<1> QED
  BY <1>2, <1>3, <1>4 DEF IInv

LEMMA LoginKeeps ==
    ASSUME IInv, NEW r \in requests, NEW s \in Sessions, AuthLogin(r, s)
    PROVE  IInv'
<1>1. r.of \in Humans /\ active[r.of] /\ r.password = password[r.of]
  BY DEF IInv, TypeOK, Request, AuthLogin, StillCorrect
<1> QED
  BY <1>1, NewSessionKeeps DEF AuthLogin, Answer

LEMMA RefreshKeeps ==
    ASSUME IInv, NEW r \in requests, RefreshSession(r)
    PROVE  IInv'
<1>1. /\ r.of \in Humans /\ r.session \in Sessions
      /\ active[r.of] /\ r.password = password[r.of]
  BY DEF IInv, TypeOK, Request, AskersPresentOne, RefreshSession, Answer, StillCorrect
<1> QED
  BY <1>1, NewSessionKeeps DEF RefreshSession, Answer

(* A session that goes, or grows old, takes nothing with it.              *)
LEMMA SessionGoesKeeps ==
    ASSUME IInv, NEW s \in Sessions, DeleteSession(s) \/ SessionAges(s)
    PROVE  IInv'
<1>1. /\ UNCHANGED <<active, bot, password, key, grant, token, requests, era, minted>>
      /\ \E new \in Session :
            /\ session' = [session EXCEPT ![s] = new]
            /\ new.of # Nobody => /\ new.of = session[s].of /\ new.era = session[s].era
                                  /\ new.password = session[s].password
  BY CredentialsAssumption DEF DeleteSession, SessionAges, NoSession, Session, IInv, TypeOK, accounts
<1>2. PICK new \in Session :
        /\ session' = [session EXCEPT ![s] = new]
        /\ new.of # Nobody => /\ new.of = session[s].of /\ new.era = session[s].era
                              /\ new.password = session[s].password
  BY <1>1
<1>3. session' \in [Sessions -> Session] /\ \A x \in Sessions \ {s} : session'[x] = session[x]
  BY <1>2 DEF IInv, TypeOK
<1>4. TypeOK' /\ LiveHasOwner' /\ AskersPresentOne' /\ UnspentIsUnminted' /\ NoOrphanCredential'
  BY <1>1, <1>3 DEF IInv, TypeOK, LiveHasOwner, AskersPresentOne, UnspentIsUnminted, NoOrphanCredential
<1>5. session'[s] = new
  BY <1>2 DEF IInv, TypeOK
<1>6. LockdownSevers' /\ SessionsKnowThePassword' /\ DeactivatedHoldsNothing'
  BY <1>1, <1>2, <1>3, <1>5, CredentialsAssumption DEF IInv, LockdownSevers, SessionsKnowThePassword, DeactivatedHoldsNothing
<1> QED
  BY <1>4, <1>6 DEF IInv

(* What the statements of a lockdown leave: rows of the same shape, and no *)
(* live one of the account.                                                *)
LEMMA LockedRows ==
    ASSUME TypeOK, NEW h \in Humans
    PROVE  /\ LockedSessions(h) \in [Sessions -> Session]
           /\ LockedKeys(h) \in [Names -> Key]
           /\ LockedTokens(h) \in [Grants -> Token]
           /\ LockedGrants(h) \in [Grants -> Grant]
<1>1. LockedSessions(h) \in [Sessions -> Session]
  BY CredentialsAssumption DEF TypeOK, LockedSessions, NoSession, Session
<1>2. LockedKeys(h) \in [Names -> Key]
  BY DEF TypeOK, LockedKeys, RevokedKey, Key
<1>3. LockedTokens(h) \in [Grants -> Token]
  BY DEF TypeOK, LockedTokens, RevokedToken, Token
<1>4. LockedGrants(h) \in [Grants -> Grant]
  BY DEF TypeOK, LockedGrants, Burnt, Moved, Grant
<1> QED
  BY <1>1, <1>2, <1>3, <1>4

LEMMA SessionsCut ==
    ASSUME NEW h \in Humans
    PROVE  \A s \in Sessions : LockedSessions(h)[s].of # Nobody =>
               LockedSessions(h)[s] = session[s] /\ session[s].of # h
BY DEF LockedSessions, NoSession

(* The same rows remain, and what is live of them was live and another's.  *)
KeysCut(h) ==
    \A n \in Names :
        /\ key'[n].of = key[n].of /\ key'[n].to = key[n].to
        /\ key'[n].state # "none" => key[n].state # "none"
        /\ key'[n].state = "live" => key'[n] = key[n] /\ key[n].of # h

TokensCut(h) ==
    \A g \in Grants :
        /\ token'[g].of = token[g].of
        /\ token'[g].state # "none" => token[g].state # "none"
        /\ token'[g].state = "live" => token'[g] = token[g] /\ token[g].of # h

GrantsCut(h) ==
    \A g \in Grants :
        /\ grant'[g].of = grant[g].of
        /\ grant'[g].state = "spent" => grant[g].state \in {"open", "spent"}
        /\ grant'[g].state \in {"none", "pending", "open"} => grant'[g] = grant[g]
        /\ grant'[g].state = "open" => grant[g].of # h

LEMMA StoredCut ==
    ASSUME TypeOK, NEW h \in Humans, LockDown(h)
    PROVE  KeysCut(h) /\ TokensCut(h) /\ GrantsCut(h)
<1>1. KeysCut(h)
  BY DEF LockDown, LockedKeys, RevokedKey, KeysCut
<1>2. TokensCut(h)
  BY DEF LockDown, LockedTokens, RevokedToken, TokensCut
<1>3. GrantsCut(h)
  BY DEF LockDown, LockedGrants, Burnt, Moved, GrantsCut
<1> QED
  BY <1>1, <1>2, <1>3

(* LockdownSevers, but for the sessions.                                   *)
StoredSevered ==
    /\ \A n \in Names : key[n].state = "live" => key[n].era = era[key[n].of]
    /\ \A g \in Grants :
          /\ grant[g].state = "open" => grant[g].era = era[grant[g].of]
          /\ token[g].state = "live" => token[g].era = era[token[g].of]

(* What a lockdown does to everything but the sessions.                    *)
LEMMA LockDownKeeps ==
    ASSUME IInv, NEW h \in Humans, LockDown(h)
    PROVE  /\ LiveHasOwner' /\ UnspentIsUnminted' /\ NoOrphanCredential'
           /\ StoredSevered'
           /\ \A a \in Humans, n \in Names :
                  ~active[a] /\ key'[n].of = a /\ key'[n].to = "self" => key'[n].state # "live"
<1>1. TypeOK /\ LiveHasOwner
  BY DEF IInv
<1>2. KeysCut(h) /\ TokensCut(h) /\ GrantsCut(h)
  BY <1>1, StoredCut
<1>3. /\ \A a \in Humans \ {h} : era'[a] = era[a]
      /\ UNCHANGED <<active, bot, minted>>
  BY <1>1 DEF LockDown, TypeOK
<1>4. LiveHasOwner'
  BY <1>1, <1>2 DEF LiveHasOwner, KeysCut, TokensCut, GrantsCut
<1>5. UnspentIsUnminted'
  BY <1>2, <1>3 DEF IInv, UnspentIsUnminted, GrantsCut
<1>6. NoOrphanCredential'
  BY <1>2, <1>3 DEF IInv, NoOrphanCredential, KeysCut, TokensCut, GrantsCut
<1>7. \A n \in Names : key'[n].state = "live" => key'[n].era = era'[key'[n].of]
  BY <1>1, <1>2, <1>3 DEF IInv, LockdownSevers, LiveHasOwner, KeysCut
<1>8. \A g \in Grants : grant'[g].state = "open" => grant'[g].era = era'[grant'[g].of]
  BY <1>1, <1>2, <1>3 DEF IInv, LockdownSevers, LiveHasOwner, GrantsCut
<1>9. \A g \in Grants : token'[g].state = "live" => token'[g].era = era'[token'[g].of]
  BY <1>1, <1>2, <1>3 DEF IInv, LockdownSevers, LiveHasOwner, TokensCut
<1>10. \A a \in Humans, n \in Names :
         ~active[a] /\ key'[n].of = a /\ key'[n].to = "self" => key'[n].state # "live"
  BY <1>2 DEF IInv, DeactivatedHoldsNothing, KeysCut
<1>11. StoredSevered'
  BY <1>7, <1>8, <1>9 DEF StoredSevered
<1> QED
  BY <1>4, <1>5, <1>6, <1>10, <1>11

(* Everything a lockdown leaves live belongs to another account.          *)
LEMMA RevokeAllKeeps ==
    ASSUME IInv, NEW h \in Humans, RevokeAllSessions(h) \/ SetPassword(h)
    PROVE  IInv'
<1>1. /\ LockDown(h)
      /\ session' = LockedSessions(h) /\ key' = LockedKeys(h)
      /\ token' = LockedTokens(h) /\ grant' = LockedGrants(h)
      /\ era' = [era EXCEPT ![h] = era[h] + 1]
      /\ password' \in {password, [password EXCEPT ![h] = password[h] + 1]}
      /\ UNCHANGED <<active, bot, requests, minted>>
  BY DEF RevokeAllSessions, SetPassword, LockDown
<1>2. TypeOK
  BY DEF IInv
<1>3. era' \in [Humans -> Nat] /\ password' \in [Humans -> Nat]
  BY <1>1, <1>2 DEF TypeOK
<1>4. TypeOK'
  BY <1>1, <1>2, <1>3, LockedRows DEF TypeOK
<1>5. \A a \in Humans \ {h} : era'[a] = era[a] /\ password'[a] = password[a]
  BY <1>1, <1>2 DEF TypeOK
<1>6. SessionsKnowThePassword'
  BY <1>1, <1>2, <1>5, SessionsCut DEF IInv, SessionsKnowThePassword, TypeOK, Session
<1>7. \A s \in Sessions : session'[s].of # Nobody => session'[s].era = era'[session'[s].of]
  BY <1>1, <1>2, <1>5, SessionsCut DEF IInv, LockdownSevers, TypeOK, Session
<1>8. LockdownSevers'
  <2>1. StoredSevered'
    BY <1>1, LockDownKeeps
  <2> QED
    BY <1>7, <2>1 DEF LockdownSevers, StoredSevered
<1>9. \A a \in Humans, s \in Sessions : ~active'[a] => session'[s].of # a
  BY <1>1, SessionsCut, CredentialsAssumption DEF IInv, DeactivatedHoldsNothing
<1>10. DeactivatedHoldsNothing'
  BY <1>1, <1>9, LockDownKeeps DEF DeactivatedHoldsNothing
<1>11. AskersPresentOne'
  BY <1>1 DEF IInv, AskersPresentOne
<1> QED
  BY <1>1, <1>4, <1>6, <1>8, <1>10, <1>11, LockDownKeeps DEF IInv

(* The one session that survives is of the new era and the new password.  *)
LEMMA ChangeKeeps ==
    ASSUME IInv, NEW r \in requests, NEW s \in Sessions, ChangePassword(r, s)
    PROVE  IInv'
<1> DEFINE h == r.of
<1>1. /\ LockDown(h)
      /\ session' = [LockedSessions(h) EXCEPT ![s] = NewSession(h, era[h] + 1, password[h] + 1)]
      /\ key' = LockedKeys(h) /\ token' = LockedTokens(h) /\ grant' = LockedGrants(h)
      /\ era' = [era EXCEPT ![h] = era[h] + 1]
      /\ password' = [password EXCEPT ![h] = password[h] + 1]
      /\ requests' \subseteq requests
      /\ UNCHANGED <<active, bot, minted>>
  BY DEF ChangePassword, Answer, LockDown
<1>2. TypeOK /\ h \in Humans /\ active[h]
  BY DEF IInv, TypeOK, Request, ChangePassword, StillCorrect
<1>3. NewSession(h, era[h] + 1, password[h] + 1) \in Session
  BY <1>2 DEF TypeOK, Session, NewSession
<1>4. session' \in [Sessions -> Session]
  BY <1>1, <1>2, <1>3, LockedRows
<1>5. TypeOK'
  BY <1>1, <1>2, <1>4, LockedRows DEF TypeOK
<1>6. \A a \in Humans \ {h} : era'[a] = era[a] /\ password'[a] = password[a]
  BY <1>1, <1>2 DEF TypeOK
<1>7. /\ \A x \in Sessions \ {s} : session'[x] = LockedSessions(h)[x]
      /\ session'[s].of = h /\ session'[s].era = era'[h] /\ session'[s].password = password'[h]
  BY <1>1, <1>2, LockedRows DEF NewSession, TypeOK
<1>8. SessionsKnowThePassword'
  <2>1. \A x \in Sessions \ {s} : session'[x].of # Nobody => session'[x].password = password'[session'[x].of]
    BY <1>2, <1>6, <1>7, SessionsCut DEF IInv, SessionsKnowThePassword, TypeOK, Session
  <2> QED
    BY <1>7, <2>1 DEF SessionsKnowThePassword
<1>9. LockdownSevers'
  <2>1. \A x \in Sessions \ {s} : session'[x].of # Nobody => session'[x].era = era'[session'[x].of]
    BY <1>2, <1>6, <1>7, SessionsCut DEF IInv, LockdownSevers, TypeOK, Session
  <2>2. StoredSevered'
    BY <1>1, <1>2, LockDownKeeps
  <2>3. session'[s].era = era'[session'[s].of]
    BY <1>7
  <2> QED
    BY <2>1, <2>2, <2>3 DEF LockdownSevers, StoredSevered
<1>10. AskersPresentOne'
  BY <1>1 DEF IInv, AskersPresentOne
<1>11. DeactivatedHoldsNothing'
  <2>1. \A a \in Humans, x \in Sessions : ~active'[a] => session'[x].of # a
    BY <1>1, <1>2, <1>7, SessionsCut, CredentialsAssumption DEF IInv, DeactivatedHoldsNothing
  <2> QED
    BY <1>1, <1>2, <2>1, LockDownKeeps DEF DeactivatedHoldsNothing
<1> QED
  BY <1>1, <1>2, <1>5, <1>8, <1>9, <1>10, <1>11, LockDownKeeps DEF IInv

(* Switching an account off takes what is the human's own.                *)
LEMMA ActivityKeeps ==
    ASSUME IInv, NEW h \in Humans, Deactivate(h) \/ Reactivate(h)
    PROVE  IInv'
<1>1. TypeOK
  BY DEF IInv
<1>2. CASE Reactivate(h)
  BY <1>1, <1>2 DEF Reactivate, credentials, IInv, TypeOK, LiveHasOwner, AskersPresentOne, LockdownSevers,
     SessionsKnowThePassword, UnspentIsUnminted, DeactivatedHoldsNothing, NoOrphanCredential
<1>3. CASE Deactivate(h)
  <2>1. /\ session' = LockedSessions(h)
        /\ active' = [active EXCEPT ![h] = FALSE]
        /\ UNCHANGED <<bot, password, grant, token, requests, era, minted>>
    BY <1>3 DEF Deactivate
  <2>2. key' \in [Names -> Key]
    BY <1>1, <1>3 DEF Deactivate, RevokedKey, Key, TypeOK
  <2>3. \A n \in Names : /\ key'[n].of = key[n].of /\ key'[n].to = key[n].to
                         /\ key'[n].state = "none" <=> key[n].state = "none"
                         /\ key'[n].state = "live" =>
                               key'[n] = key[n] /\ ~(key[n].of = h /\ key[n].to = "self")
    BY <1>3 DEF Deactivate, RevokedKey
  <2>4. TypeOK'
    BY <1>1, <2>1, <2>2, LockedRows DEF TypeOK
  <2>5. LiveHasOwner' /\ AskersPresentOne' /\ UnspentIsUnminted' /\ NoOrphanCredential'
    BY <2>1, <2>3 DEF IInv, LiveHasOwner, AskersPresentOne, UnspentIsUnminted, NoOrphanCredential
  <2>6. LockdownSevers' /\ SessionsKnowThePassword'
    BY <1>1, <2>1, <2>3, SessionsCut DEF IInv, LockdownSevers, SessionsKnowThePassword
  <2>7. \A a \in Humans, s \in Sessions : ~active'[a] => session'[s].of # a
    BY <1>1, <2>1, SessionsCut, CredentialsAssumption DEF IInv, DeactivatedHoldsNothing, TypeOK
  <2>8. \A a \in Humans, n \in Names :
          ~active'[a] /\ key'[n].of = a /\ key'[n].to = "self" => key'[n].state # "live"
    BY <1>1, <2>1, <2>3 DEF IInv, DeactivatedHoldsNothing, TypeOK
  <2>9. DeactivatedHoldsNothing'
    BY <2>7, <2>8 DEF DeactivatedHoldsNothing
  <2> QED
    BY <2>4, <2>5, <2>6, <2>9 DEF IInv
<1> QED
  BY <1>2, <1>3

(* A new key descends from the session that asks for it, now.             *)
LEMMA CreateKeyKeeps ==
    ASSUME IInv, NEW r \in requests, NEW n \in Names, CreateKey(r, n)
    PROVE  IInv'
<1> DEFINE new == [state |-> "live", of |-> r.of, to |-> "self", era |-> session[r.session].era]
<1>1. r.of \in Humans /\ r.session \in Sessions /\ session[r.session].of = r.of /\ active[r.of]
  BY DEF IInv, TypeOK, Request, AskersPresentOne, CreateKey, Answer, RecentSession, ValidSession
<1>2. new \in Key /\ new.era = era[r.of]
  BY <1>1, CredentialsAssumption DEF IInv, TypeOK, LockdownSevers, Session, Key
<1>3. /\ key' = [key EXCEPT ![n] = new] /\ requests' \subseteq requests
      /\ UNCHANGED <<active, password, session, grant, token, era, minted>>
      /\ bot' = bot
  BY DEF CreateKey, InsertKey, Answer, accounts
<1>4. key' \in [Names -> Key] /\ key'[n] = new /\ \A x \in Names \ {n} : key'[x] = key[x]
  BY <1>2, <1>3 DEF IInv, TypeOK
<1>5. /\ bot' \in [Humans -> BOOLEAN]
      /\ \A a \in Humans : bot[a] => bot'[a]
      /\ new.to = "bot" => bot'[r.of]
  BY <1>1, <1>3 DEF IInv, TypeOK
<1>6. TypeOK' /\ AskersPresentOne' /\ UnspentIsUnminted' /\ SessionsKnowThePassword'
  BY <1>3, <1>4, <1>5 DEF IInv, TypeOK, AskersPresentOne, UnspentIsUnminted, SessionsKnowThePassword
<1>7. LiveHasOwner' /\ LockdownSevers'
  BY <1>1, <1>2, <1>3, <1>4 DEF IInv, LiveHasOwner, LockdownSevers
<1>8. DeactivatedHoldsNothing' /\ NoOrphanCredential'
  BY <1>1, <1>3, <1>4, <1>5 DEF IInv, DeactivatedHoldsNothing, NoOrphanCredential, LiveHasOwner
<1> QED
  BY <1>6, <1>7, <1>8 DEF IInv

(* So does a bot's.                                                       *)
LEMMA CreateBotKeeps ==
    ASSUME IInv, NEW r \in requests, NEW n \in Names, CreateBot(r, n)
    PROVE  IInv'
<1> DEFINE new == [state |-> "live", of |-> r.of, to |-> "bot", era |-> session[r.session].era]
<1>1. r.of \in Humans /\ r.session \in Sessions /\ session[r.session].of = r.of /\ active[r.of]
  BY DEF IInv, TypeOK, Request, AskersPresentOne, CreateBot, Answer, RecentSession, ValidSession
<1>2. new \in Key /\ new.era = era[r.of]
  BY <1>1, CredentialsAssumption DEF IInv, TypeOK, LockdownSevers, Session, Key
<1>3. /\ key' = [key EXCEPT ![n] = new] /\ requests' \subseteq requests
      /\ UNCHANGED <<active, password, session, grant, token, era, minted>>
      /\ bot' = [bot EXCEPT ![r.of] = TRUE]
  BY DEF CreateBot, InsertKey, Answer, accounts
<1>4. key' \in [Names -> Key] /\ key'[n] = new /\ \A x \in Names \ {n} : key'[x] = key[x]
  BY <1>2, <1>3 DEF IInv, TypeOK
<1>5. /\ bot' \in [Humans -> BOOLEAN]
      /\ \A a \in Humans : bot[a] => bot'[a]
      /\ new.to = "bot" => bot'[r.of]
  BY <1>1, <1>3 DEF IInv, TypeOK
<1>6. TypeOK' /\ AskersPresentOne' /\ UnspentIsUnminted' /\ SessionsKnowThePassword'
  BY <1>3, <1>4, <1>5 DEF IInv, TypeOK, AskersPresentOne, UnspentIsUnminted, SessionsKnowThePassword
<1>7. LiveHasOwner' /\ LockdownSevers'
  BY <1>1, <1>2, <1>3, <1>4 DEF IInv, LiveHasOwner, LockdownSevers
<1>8. DeactivatedHoldsNothing' /\ NoOrphanCredential'
  BY <1>1, <1>3, <1>4, <1>5 DEF IInv, DeactivatedHoldsNothing, NoOrphanCredential, LiveHasOwner
<1> QED
  BY <1>6, <1>7, <1>8 DEF IInv

(* A revoked key is no live credential.                                   *)
LEMMA RevokeKeyKeeps ==
    ASSUME IInv, NEW n \in Names, RevokeUserKey(n)
    PROVE  IInv'
BY CredentialsAssumption DEF RevokeUserKey, RevokedKey, accounts,
    IInv, TypeOK, LiveHasOwner, AskersPresentOne, LockdownSevers, SessionsKnowThePassword,
    UnspentIsUnminted, DeactivatedHoldsNothing, NoOrphanCredential,
    Session, Key, Grant, Token, Request

(* Disconnecting leaves the bot with nothing live.                        *)
LEMMA DisconnectKeeps ==
    ASSUME IInv, NEW h \in Humans, DisconnectBot(h)
    PROVE  IInv'
BY CredentialsAssumption DEF DisconnectBot, LockedTokens, LockedGrants, Burnt, Moved, RevokedKey, RevokedToken, accounts,
    IInv, TypeOK, LiveHasOwner, AskersPresentOne, LockdownSevers, SessionsKnowThePassword,
    UnspentIsUnminted, DeactivatedHoldsNothing, NoOrphanCredential,
    Session, Key, Grant, Token, Request

(* Nothing live names the bot that was deleted.                           *)
LEMMA DeleteBotKeeps ==
    ASSUME IInv, NEW h \in Humans, DeleteBot(h)
    PROVE  IInv'
BY CredentialsAssumption DEF DeleteBot, BoundToBot, Moved, NoKey, NoToken, accounts,
    IInv, TypeOK, LiveHasOwner, AskersPresentOne, LockdownSevers, SessionsKnowThePassword,
    UnspentIsUnminted, DeactivatedHoldsNothing, NoOrphanCredential,
    Session, Key, Grant, Token, Request

(* An approval opens a grant that has given nothing yet.                  *)
LEMMA ApprovalKeeps ==
    ASSUME IInv, NEW r \in requests, NEW g \in Grants, AuthorizeApprove(r, g) \/ DeviceApprove(r, g)
    PROVE  IInv'
<1>1. r.of \in Humans /\ r.session \in Sessions /\ session[r.session].of = r.of /\ active[r.of]
  BY DEF IInv, TypeOK, Request, AskersPresentOne, AuthorizeApprove, DeviceApprove, Answer, RecentSession, ValidSession
<1>2. Approved(r, g) \in Grant /\ Approved(r, g).era = era[r.of] /\ Approved(r, g).of = r.of
  BY <1>1, CredentialsAssumption DEF IInv, TypeOK, LockdownSevers, Session, Grant, Approved
<1>3. /\ grant' = [grant EXCEPT ![g] = Approved(r, g)] /\ requests' \subseteq requests
      /\ grant[g].state \in {"none", "pending"}
      /\ bot' = [bot EXCEPT ![r.of] = TRUE]
      /\ UNCHANGED <<active, password, session, key, token, era, minted>>
  BY DEF AuthorizeApprove, DeviceApprove, Answer
<1>4. /\ grant' \in [Grants -> Grant] /\ grant'[g] = Approved(r, g)
      /\ \A x \in Grants \ {g} : grant'[x] = grant[x]
  BY <1>2, <1>3 DEF IInv, TypeOK
<1>5. /\ bot' \in [Humans -> BOOLEAN] /\ bot'[r.of]
      /\ \A a \in Humans : bot[a] => bot'[a]
  BY <1>1, <1>3 DEF IInv, TypeOK
<1>6. TypeOK' /\ AskersPresentOne' /\ SessionsKnowThePassword' /\ DeactivatedHoldsNothing'
  BY <1>3, <1>4, <1>5 DEF IInv, TypeOK, AskersPresentOne, SessionsKnowThePassword, DeactivatedHoldsNothing
<1>7. LiveHasOwner' /\ LockdownSevers' /\ UnspentIsUnminted'
  BY <1>1, <1>2, <1>3, <1>4 DEF IInv, LiveHasOwner, LockdownSevers, UnspentIsUnminted
<1>8. NoOrphanCredential'
  BY <1>2, <1>3, <1>4, <1>5 DEF IInv, NoOrphanCredential, LiveHasOwner
<1> QED
  BY <1>6, <1>7, <1>8 DEF IInv

(* A device code asked for, or a grant that expires, opens nothing.       *)
LEMMA GrantMovesKeeps ==
    ASSUME IInv, NEW g \in Grants, NEW to \in {"pending", "denied", "gone"},
           grant' = [grant EXCEPT ![g] = Moved(g, to)],
           to = "pending" => grant[g].state = "none",
           requests' \subseteq requests,
           UNCHANGED <<accounts, session, key, token, era, minted>>
    PROVE  IInv'
<1>1. /\ grant' \in [Grants -> Grant] /\ grant'[g].state = to
      /\ \A x \in Grants \ {g} : grant'[x] = grant[x]
  BY DEF IInv, TypeOK, Moved, Grant
<1>2. UNCHANGED <<active, bot, password, session, key, token, era, minted>>
  BY DEF accounts
<1>3. TypeOK' /\ AskersPresentOne' /\ SessionsKnowThePassword' /\ DeactivatedHoldsNothing'
  BY <1>1, <1>2 DEF IInv, TypeOK, AskersPresentOne, SessionsKnowThePassword, DeactivatedHoldsNothing
<1>4. LiveHasOwner' /\ LockdownSevers' /\ UnspentIsUnminted' /\ NoOrphanCredential'
  BY <1>1, <1>2 DEF IInv, LiveHasOwner, LockdownSevers, UnspentIsUnminted, NoOrphanCredential
<1> QED
  BY <1>3, <1>4 DEF IInv

(* An open grant is spent as its token is minted.                         *)
LEMMA ExchangeKeeps ==
    ASSUME IInv, NEW g \in Grants, TokenExchange(g)
    PROVE  IInv'
BY CredentialsAssumption DEF TokenExchange, Consumed, Moved, accounts,
    IInv, TypeOK, LiveHasOwner, AskersPresentOne, LockdownSevers, SessionsKnowThePassword,
    UnspentIsUnminted, DeactivatedHoldsNothing, NoOrphanCredential,
    Session, Key, Grant, Token, Request

(* A token that ends is no live credential.                               *)
LEMMA TokenGoesKeeps ==
    ASSUME IInv, NEW g \in Grants, RevokeToken(g) \/ TokenExpires(g)
    PROVE  IInv'
<1>1. /\ UNCHANGED <<active, bot, password, session, key, grant, requests, era, minted>>
      /\ token[g].state # "none"
  BY DEF RevokeToken, TokenExpires, accounts
<1>2. /\ token' \in [Grants -> Token]
      /\ token'[g].state \in {"revoked", "expired"} /\ token'[g].of = token[g].of
      /\ \A x \in Grants \ {g} : token'[x] = token[x]
  BY DEF RevokeToken, TokenExpires, RevokedToken, ExpiredToken, IInv, TypeOK, Token
<1>3. TypeOK' /\ AskersPresentOne' /\ SessionsKnowThePassword' /\ DeactivatedHoldsNothing' /\ UnspentIsUnminted'
  BY <1>1, <1>2 DEF IInv, TypeOK, AskersPresentOne, SessionsKnowThePassword, DeactivatedHoldsNothing, UnspentIsUnminted
<1>4. LiveHasOwner' /\ LockdownSevers' /\ NoOrphanCredential'
  BY <1>1, <1>2 DEF IInv, LiveHasOwner, LockdownSevers, NoOrphanCredential
<1> QED
  BY <1>3, <1>4 DEF IInv

-----------------------------------------------------------------------------
(* Every step preserves the invariant.                                     *)
LEMMA StepKeeps ==
    ASSUME IInv, [Next]_vars
    PROVE  IInv'
<1>1. CASE PasswordVerified \/ GrantAsked \/ Refused
  BY <1>1, ArrivalKeeps
<1>2. CASE SessionStep
  BY <1>2, LoginKeeps, ChangeKeeps, RefreshKeeps, SessionGoesKeeps DEF SessionStep
<1>3. CASE AccountStep
  BY <1>3, RevokeAllKeeps, ActivityKeeps DEF AccountStep
<1>4. CASE ToolStep
  BY <1>4, CreateKeyKeeps, CreateBotKeeps, RevokeKeyKeeps, DisconnectKeeps, DeleteBotKeeps DEF ToolStep
<1>5. CASE GrantStep
  <2>1. CASE \E r \in requests, c \in Codes : AuthorizeApprove(r, c)
    BY <2>1, ApprovalKeeps DEF Grants
  <2>2. CASE \E r \in requests, d \in Devices : DeviceApprove(r, d)
    BY <2>2, ApprovalKeeps DEF Grants
  <2>3. CASE \E r \in requests, d \in Devices : DeviceDeny(r, d)
    BY <2>3, GrantMovesKeeps DEF DeviceDeny, Answer, Grants
  <2>4. CASE \E d \in Devices : DeviceAuthorization(d)
    BY <2>4, GrantMovesKeeps DEF DeviceAuthorization, Grants
  <2>5. CASE \E g \in Grants : GrantExpires(g)
    BY <2>5, GrantMovesKeeps DEF GrantExpires
  <2>6. CASE \E g \in Grants : TokenExchange(g) \/ RevokeToken(g) \/ TokenExpires(g)
    BY <2>6, ExchangeKeeps, TokenGoesKeeps
  <2> QED
    BY <1>5, <2>1, <2>2, <2>3, <2>4, <2>5, <2>6 DEF GrantStep
<1>6. CASE UNCHANGED vars
  BY <1>6 DEF vars, accounts, credentials, IInv, TypeOK, LiveHasOwner, AskersPresentOne, LockdownSevers,
     SessionsKnowThePassword, UnspentIsUnminted, DeactivatedHoldsNothing, NoOrphanCredential
<1> QED
  BY <1>1, <1>2, <1>3, <1>4, <1>5, <1>6 DEF Next

LEMMA Inductive == Spec => []IInv
<1>1. Init => IInv
  BY Initially
<1>2. IInv /\ [Next]_vars => IInv'
  BY StepKeeps
<1> QED
  BY <1>1, <1>2, PTL DEF Spec

(* Sign out everywhere, a password change and the recovery command sever   *)
(* all that was authorized before them, approvals in flight included, for  *)
(* any number of accounts, credentials and concurrent requests.            *)
THEOREM RecoverySevers == Spec => []LockdownSevers
<1>1. IInv => LockdownSevers
  BY DEF IInv
<1> QED
  BY <1>1, Inductive, PTL

(* No login that verified a replaced password ends in a session.           *)
THEOREM NoSessionOfAnOldPassword == Spec => []SessionsKnowThePassword
<1>1. IInv => SessionsKnowThePassword
  BY DEF IInv
<1> QED
  BY <1>1, Inductive, PTL

(* However often a code is presented or a device polled, one token.        *)
THEOREM OneExchange == Spec => []OneTokenPerGrant
<1>1. IInv => OneTokenPerGrant
  BY DEF IInv, UnspentIsUnminted, OneTokenPerGrant
<1> QED
  BY <1>1, Inductive, PTL

(* Nothing granted in flight survives a deactivation, and nothing live     *)
(* names a deleted bot.                                                    *)
THEOREM NothingOutlivesItsAccount == Spec => []AccountsCarryTheirCredentials
<1>1. IInv => AccountsCarryTheirCredentials
  BY DEF IInv, AccountsCarryTheirCredentials
<1> QED
  BY <1>1, Inductive, PTL

(* Every credential, grant and request keeps its type.                     *)
THEOREM CredentialsTyped == Spec => []TypeOK
<1>1. IInv => TypeOK
  BY DEF IInv
<1> QED
  BY <1>1, Inductive, PTL
-----------------------------------------------------------------------------
(* What ended stays ended.  IInv does not say why a grant with a revoked   *)
(* token gives no other: it has given one, so it is not open.              *)
TokensWereMinted == \A g \in Grants : token[g].state # "none" => minted[g] # 0

TokensEnd ==
    \A g \in Grants : token[g].state = "revoked" => token'[g].state \in {"revoked", "none"}

GrantsEnd ==
    \A g \in Grants : grant[g].state \in {"spent", "denied", "gone"} => grant'[g].state # "open"

KeysStay ==
    \A n \in Names : key[n].state = "live" /\ key'[n].state = "live" => key'[n] = key[n]

Ends == TokensWereMinted' /\ TokensEnd /\ GrantsEnd /\ KeysStay

LEMMA UntouchedEnds ==
    ASSUME TokensWereMinted, UNCHANGED <<key, grant, token, minted>>
    PROVE  Ends
BY DEF Ends, TokensWereMinted, TokensEnd, GrantsEnd, KeysStay

(* A lockdown, and what switches an account or a tool off, ends rows and   *)
(* brings none to life.                                                    *)
LEMMA CutEnds ==
    ASSUME IInv, TokensWereMinted, NEW h \in Humans,
           key' \in {key, LockedKeys(h)} \/ Deactivate(h) \/ DisconnectBot(h),
           token' \in {token, LockedTokens(h)}, grant' \in {grant, LockedGrants(h)},
           UNCHANGED minted
    PROVE  Ends
<1>1. KeysStay
  BY DEF KeysStay, LockedKeys, Deactivate, DisconnectBot, RevokedKey
<1>2. TokensEnd /\ TokensWereMinted'
  BY DEF TokensEnd, TokensWereMinted, LockedTokens, RevokedToken
<1>3. GrantsEnd
  BY DEF GrantsEnd, LockedGrants, Burnt, Moved
<1> QED
  BY <1>1, <1>2, <1>3 DEF Ends

LEMMA AccountStepEnds ==
    ASSUME IInv, TokensWereMinted, NEW h \in Humans,
           RevokeAllSessions(h) \/ SetPassword(h) \/ Deactivate(h) \/ Reactivate(h)
    PROVE  Ends
<1>1. CASE RevokeAllSessions(h) \/ SetPassword(h)
  BY <1>1, CutEnds DEF RevokeAllSessions, SetPassword, LockDown
<1>2. CASE Deactivate(h)
  <2>1. UNCHANGED <<token, grant, minted>>
    BY <1>2 DEF Deactivate
  <2> QED
    BY <1>2, <2>1, CutEnds
<1>3. CASE Reactivate(h)
  BY <1>3, UntouchedEnds DEF Reactivate, credentials
<1> QED
  BY <1>1, <1>2, <1>3

LEMMA SessionStepEnds ==
    ASSUME IInv, TokensWereMinted, SessionStep
    PROVE  Ends
<1>1. ASSUME NEW r \in requests, NEW s \in Sessions, AuthLogin(r, s) PROVE Ends
  BY <1>1, UntouchedEnds DEF AuthLogin
<1>2. ASSUME NEW r \in requests, NEW s \in Sessions, ChangePassword(r, s) PROVE Ends
  <2>1. r.of \in Humans
    BY DEF IInv, TypeOK, Request
  <2> QED
    BY <1>2, <2>1, CutEnds DEF ChangePassword, LockDown
<1>3. ASSUME NEW r \in requests, RefreshSession(r) PROVE Ends
  BY <1>3, UntouchedEnds DEF RefreshSession
<1>4. ASSUME NEW s \in Sessions, DeleteSession(s) \/ SessionAges(s) PROVE Ends
  BY <1>4, UntouchedEnds DEF DeleteSession, SessionAges
<1> QED
  BY <1>1, <1>2, <1>3, <1>4 DEF SessionStep

(* A name is inserted over a free or a revoked row only.                   *)
LEMMA ToolStepEnds ==
    ASSUME IInv, TokensWereMinted, ToolStep
    PROVE  Ends
<1>1. ASSUME NEW r \in requests, NEW n \in Names, CreateKey(r, n) \/ CreateBot(r, n) PROVE Ends
  <2>1. UNCHANGED <<grant, token, minted>>
    BY <1>1 DEF CreateKey, CreateBot
  <2>2. key[n].state # "live" /\ \A x \in Names \ {n} : key'[x] = key[x]
    BY <1>1 DEF CreateKey, CreateBot, InsertKey, NameIsFree, IInv, TypeOK
  <2> QED
    BY <2>1, <2>2 DEF Ends, TokensWereMinted, TokensEnd, GrantsEnd, KeysStay
<1>2. ASSUME NEW n \in Names, RevokeUserKey(n) PROVE Ends
  <2>1. UNCHANGED <<grant, token, minted>>
    BY <1>2 DEF RevokeUserKey
  <2>2. key'[n].state = "revoked" /\ \A x \in Names \ {n} : key'[x] = key[x]
    BY <1>2 DEF RevokeUserKey, RevokedKey, IInv, TypeOK
  <2> QED
    BY <2>1, <2>2 DEF Ends, TokensWereMinted, TokensEnd, GrantsEnd, KeysStay
<1>3. ASSUME NEW h \in Humans, DisconnectBot(h) PROVE Ends
  <2>1. token' = LockedTokens(h) /\ grant' = LockedGrants(h) /\ UNCHANGED minted
    BY <1>3 DEF DisconnectBot
  <2> QED
    BY <1>3, <2>1, CutEnds
<1>4. ASSUME NEW h \in Humans, DeleteBot(h) PROVE Ends
  <2>1. KeysStay
    BY <1>4 DEF DeleteBot, NoKey, KeysStay
  <2>2. TokensEnd /\ TokensWereMinted'
    BY <1>4 DEF DeleteBot, NoToken, TokensEnd, TokensWereMinted
  <2>3. GrantsEnd
    BY <1>4 DEF DeleteBot, Moved, GrantsEnd
  <2> QED
    BY <2>1, <2>2, <2>3 DEF Ends
<1> QED
  BY <1>1, <1>2, <1>3, <1>4 DEF ToolStep

LEMMA GrantStepEnds ==
    ASSUME IInv, TokensWereMinted, GrantStep
    PROVE  Ends
<1>1. ASSUME NEW r \in requests, NEW g \in Grants,
             AuthorizeApprove(r, g) \/ DeviceApprove(r, g) \/ DeviceDeny(r, g)
      PROVE  Ends
  <2>1. UNCHANGED <<key, token, minted>>
    BY <1>1 DEF AuthorizeApprove, DeviceApprove, DeviceDeny, accounts
  <2>2. /\ grant[g].state \notin {"spent", "denied", "gone"}
        /\ \A x \in Grants \ {g} : grant'[x] = grant[x]
    BY <1>1 DEF AuthorizeApprove, DeviceApprove, DeviceDeny, IInv, TypeOK
  <2> QED
    BY <2>1, <2>2 DEF Ends, TokensWereMinted, TokensEnd, GrantsEnd, KeysStay
<1>2. ASSUME NEW g \in Grants, DeviceAuthorization(g) \/ GrantExpires(g) PROVE Ends
  <2>1. UNCHANGED <<key, token, minted>>
    BY <1>2 DEF DeviceAuthorization, GrantExpires
  <2>2. grant'[g].state # "open" /\ \A x \in Grants \ {g} : grant'[x] = grant[x]
    BY <1>2 DEF DeviceAuthorization, GrantExpires, Moved, IInv, TypeOK
  <2> QED
    BY <2>1, <2>2 DEF Ends, TokensWereMinted, TokensEnd, GrantsEnd, KeysStay
<1>3. ASSUME NEW g \in Grants, TokenExchange(g) PROVE Ends
  <2>1. token[g].state = "none" /\ minted'[g] = 1
    BY <1>3 DEF TokenExchange, TokensWereMinted, IInv, TypeOK, UnspentIsUnminted
  <2>2. /\ grant'[g].state = "spent" /\ UNCHANGED key
        /\ \A x \in Grants \ {g} : grant'[x] = grant[x] /\ token'[x] = token[x] /\ minted'[x] = minted[x]
    BY <1>3 DEF TokenExchange, Consumed, Moved, IInv, TypeOK
  <2> QED
    BY <2>1, <2>2 DEF Ends, TokensWereMinted, TokensEnd, GrantsEnd, KeysStay
<1>4. ASSUME NEW g \in Grants, RevokeToken(g) \/ TokenExpires(g) PROVE Ends
  <2>1. UNCHANGED <<key, grant, minted>>
    BY <1>4 DEF RevokeToken, TokenExpires
  <2>2. /\ token[g].state \in {"live", "expired"}
        /\ \A x \in Grants \ {g} : token'[x] = token[x]
    BY <1>4 DEF RevokeToken, TokenExpires, IInv, TypeOK
  <2> QED
    BY <2>1, <2>2 DEF Ends, TokensWereMinted, TokensEnd, GrantsEnd, KeysStay
<1> QED
  BY <1>1, <1>2, <1>3, <1>4 DEF GrantStep, Grants

LEMMA StepEnds ==
    ASSUME IInv, TokensWereMinted, [Next]_vars
    PROVE  Ends
<1>1. CASE PasswordVerified \/ GrantAsked \/ Refused \/ UNCHANGED vars
  BY <1>1, UntouchedEnds DEF PasswordVerified, GrantAsked, Refused, Arrive, vars, credentials
<1> QED
  BY <1>1, SessionStepEnds, AccountStepEnds, ToolStepEnds, GrantStepEnds DEF Next, AccountStep

(* What was revoked, burnt or denied never comes back, and no live key is  *)
(* replaced under its name, whatever polls, replays and reuses.            *)
THEOREM RevokedForGood == Spec => RevokedStaysRevoked
<1> DEFINE A == TokensEnd /\ GrantsEnd /\ KeysStay
<1>1. Init => TokensWereMinted
  BY DEF Init, TokensWereMinted, NoToken
<1>2. IInv /\ TokensWereMinted /\ [Next]_vars => TokensWereMinted' /\ [A]_vars
  BY StepEnds DEF Ends
<1> HIDE DEF A
<1>3. Spec => [][A]_vars
  BY <1>1, <1>2, Inductive, PTL DEF Spec
<1>4. A <=> /\ \A g \in Grants :
                 /\ token[g].state = "revoked" => token'[g].state \in {"revoked", "none"}
                 /\ grant[g].state \in {"spent", "denied", "gone"} => grant'[g].state # "open"
            /\ \A n \in Names :
                 key[n].state = "live" /\ key'[n].state = "live" => key'[n] = key[n]
  BY DEF A, TokensEnd, GrantsEnd, KeysStay
<1> QED
  BY <1>3, <1>4, PTL DEF RevokedStaysRevoked
-----------------------------------------------------------------------------
(* Credentials keeps the promise of Authority.  A step either gives one    *)
(* thing, after the check that the promise asks for, or lets what there is *)
(* lapse, in one of the ways that the statements below have.               *)

(* What only lapses.                                                       *)
Over == {"spent", "denied", "gone"}

KeysLapse == \A n \in Names : key'[n].state = "live" => key[n].state = "live" /\ key'[n].of = key[n].of

TokensLapse == \A g \in Grants : token'[g].state = "live" => token[g].state = "live" /\ token'[g].of = token[g].of

GrantsLapse ==
    \A g \in Grants :
        /\ grant'[g].state = "open" => grant[g].state = "open" /\ grant'[g].of = grant[g].of
        /\ grant[g].state \in Over \/ (grant[g].state = "open" /\ grant'[g].state # "open") =>
              grant'[g].state \in Over

SessionsLapse ==
    \A s \in Sessions :
        \/ session'[s].of = session[s].of /\ session'[s].era = session[s].era
        \/ session'[s] = NoSession

LEMMA SomeLapses ==
    ASSUME IInv, KeysLapse, TokensLapse, GrantsLapse
    PROVE  Promise!SomeLapse
<1>1. Promise!Left(Keys', Keys, Nobody)
  BY DEF Promise!Left, Keys, KeysLapse
<1>2. Promise!Left(Tokens', Tokens, Nobody)
  BY DEF Promise!Left, Tokens, TokensLapse
<1>3. Promise!Left(Approvals', Approvals, Nobody)
  BY DEF Promise!Left, Approvals, GrantsLapse
<1>4. Ended \subseteq Ended'
  BY DEF Ended, GrantsLapse, Over
<1>5. \A g \in Grants : Approvals[g] # Nobody /\ Approvals'[g] = Nobody => g \in Ended'
  <2>1. SUFFICES ASSUME NEW g \in Grants, Approvals[g] # Nobody, Approvals'[g] = Nobody
                 PROVE  g \in Ended'
    OBVIOUS
  <2>2. grant[g].state = "open"
    BY <2>1 DEF Approvals
  <2>3. grant[g].of \in Humans
    BY <2>2 DEF IInv, LiveHasOwner
  <2>4. grant'[g].state # "open"
    BY <2>1, <2>2, <2>3, CredentialsAssumption DEF Approvals, GrantsLapse
  <2>5. QED
    BY <2>2, <2>4 DEF Ended, GrantsLapse, Over
<1>6. QED
  BY <1>1, <1>2, <1>3, <1>4, <1>5 DEF Promise!SomeLapse

LEMMA OnlyLapses ==
    ASSUME IInv, UNCHANGED <<active, era>>, SessionsLapse, KeysLapse, TokensLapse, GrantsLapse
    PROVE  Promise!Next
<1>1. Promise!SomeLapse
  BY SomeLapses
<1>2. Promise!Left(Opened', Opened, Promise!Out)
  BY DEF Promise!Left, Promise!Out, Opened, SessionsLapse, NoSession
<1>3. UNCHANGED <<Enabled, era>>
  BY DEF Enabled
<1>4. Promise!Lapse
  BY <1>1, <1>2, <1>3 DEF Promise!Lapse
<1>5. QED
  BY <1>4 DEF Promise!Next

(* What a step leaves alone stays as the promise sees it.                  *)
LEMMA SeenAlike ==
    /\ UNCHANGED active => Enabled' = Enabled
    /\ UNCHANGED session => Opened' = Opened
    /\ UNCHANGED key => Keys' = Keys
    /\ UNCHANGED grant => Approvals' = Approvals /\ Ended' = Ended
    /\ UNCHANGED token => Tokens' = Tokens
BY DEF Enabled, Opened, Keys, Approvals, Ended, Tokens

(* A session that is valid makes its account one that may grant.           *)
LEMMA MayGrant ==
    ASSUME NEW h \in Humans, NEW s \in Sessions, ValidSession(s, h)
    PROVE  Promise!HasSession(h)
BY DEF ValidSession, Promise!HasSession, Enabled, Opened

(* One place of a function changes.                                        *)
LEMMA OneChanges ==
    ASSUME NEW S, NEW f, NEW g, NEW i \in S, NEW v,
           f = [x \in S |-> f[x]], g = [x \in S |-> g[x]],
           \A x \in S : g[x] = IF x = i THEN v ELSE f[x]
    PROVE  g = [f EXCEPT ![i] = v]
<1>1. [f EXCEPT ![i] = v] = [x \in S |-> IF x = i THEN v ELSE f[x]]
  OBVIOUS
<1>2. g = [x \in S |-> IF x = i THEN v ELSE f[x]]
  OBVIOUS
<1>3. QED
  BY <1>1, <1>2

LEMMA AreFunctions ==
    /\ Opened = [s \in Sessions |-> Opened[s]] /\ Opened' = [s \in Sessions |-> Opened'[s]]
    /\ Keys = [n \in Names |-> Keys[n]] /\ Keys' = [n \in Names |-> Keys'[n]]
    /\ Approvals = [g \in Grants |-> Approvals[g]] /\ Approvals' = [g \in Grants |-> Approvals'[g]]
    /\ Tokens = [g \in Grants |-> Tokens[g]] /\ Tokens' = [g \in Grants |-> Tokens'[g]]
    /\ \A h : Promise!Without(h) = [s \in Sessions |-> Promise!Without(h)[s]]
BY DEF Opened, Keys, Approvals, Tokens, Promise!Without

LEMMA SignsIn ==
    ASSUME IInv, NEW h \in Humans, NEW s \in Sessions, active[h], session[s].of \in {Nobody, h},
           session' = [session EXCEPT ![s] = NewSession(h, era[h], password[h])],
           UNCHANGED <<active, key, grant, token, era>>
    PROVE  Promise!Next
<1>1. \A x \in Sessions : session'[x] = IF x = s THEN NewSession(h, era[h], password[h]) ELSE session[x]
  BY DEF IInv, TypeOK
<1>2. Opened' = [Opened EXCEPT ![s] = [of |-> h, since |-> era[h]]]
  <2>1. \A x \in Sessions : Opened'[x] = IF x = s THEN [of |-> h, since |-> era[h]] ELSE Opened[x]
    BY <1>1 DEF Opened, NewSession
  <2>2. QED
    BY <2>1, OneChanges, AreFunctions
<1>3. h \in Enabled /\ Opened[s].of \in {Nobody, h}
  BY DEF Enabled, Opened
<1>4. Promise!SignIn(h, s)
  BY <1>2, <1>3, SeenAlike DEF Promise!SignIn
<1>5. QED
  BY <1>4 DEF Promise!Next

LEMMA GivesKey ==
    ASSUME IInv, NEW h \in Humans, NEW s \in Sessions, ValidSession(s, h),
           NEW n \in Names, NEW to, NEW e, InsertKey(n, h, to, e),
           UNCHANGED <<active, session, grant, token, era>>
    PROVE  Promise!Next
<1>1. \A x \in Names : key'[x] = IF x = n THEN [state |-> "live", of |-> h, to |-> to, era |-> e] ELSE key[x]
  BY DEF InsertKey, IInv, TypeOK
<1>2. Keys' = [Keys EXCEPT ![n] = h]
  <2>1. \A x \in Names : Keys'[x] = IF x = n THEN h ELSE Keys[x]
    BY <1>1 DEF Keys
  <2>2. QED
    BY <2>1, OneChanges, AreFunctions
<1>3. Keys[n] = Nobody
  BY DEF InsertKey, NameIsFree, Keys
<1>4. Promise!GiveKey(h, n)
  BY <1>2, <1>3, SeenAlike, MayGrant DEF Promise!GiveKey
<1>5. QED
  BY <1>4 DEF Promise!Next

LEMMA Approves ==
    ASSUME IInv, NEW r \in requests, r.of \in Humans, r.session \in Sessions, RecentSession(r),
           NEW g \in Grants, grant[g].state \in {"none", "pending"},
           grant' = [grant EXCEPT ![g] = Approved(r, g)],
           UNCHANGED <<active, session, key, token, era>>
    PROVE  Promise!Next
<1> DEFINE h == r.of
<1>1. \A x \in Grants : grant'[x] = IF x = g THEN Approved(r, g) ELSE grant[x]
  BY DEF IInv, TypeOK
<1>2. Approvals' = [Approvals EXCEPT ![g] = h]
  <2>1. \A x \in Grants : Approvals'[x] = IF x = g THEN h ELSE Approvals[x]
    BY <1>1 DEF Approvals, Approved
  <2>2. QED
    BY <2>1, OneChanges, AreFunctions
<1>3. Ended' = Ended /\ g \notin Ended /\ Approvals[g] = Nobody
  BY <1>1 DEF Ended, Approvals, Approved
<1>4. Promise!HasSession(h)
  BY MayGrant DEF RecentSession
<1>5. Promise!Approve(h, g)
  BY <1>2, <1>3, <1>4, SeenAlike DEF Promise!Approve
<1>6. QED
  BY <1>5 DEF Promise!Next

LEMMA Exchanges ==
    ASSUME IInv, NEW g \in Grants, TokenExchange(g)
    PROVE  Promise!Next
<1> DEFINE h == grant[g].of
<1>1. h \in Humans /\ active[h] /\ UNCHANGED <<active, session, key, era>>
  BY DEF TokenExchange, IInv, LiveHasOwner, accounts
<1>2. /\ \A x \in Grants : grant'[x] = IF x = g THEN Consumed(g) ELSE grant[x]
      /\ \A x \in Grants : token'[x] = IF x = g THEN [state |-> "live", of |-> h, era |-> grant[g].era] ELSE token[x]
  BY DEF TokenExchange, IInv, TypeOK
<1>3. Approvals' = [Approvals EXCEPT ![g] = Nobody] /\ Ended' = Ended \cup {g}
  <2>1. \A x \in Grants : Approvals'[x] = IF x = g THEN Nobody ELSE Approvals[x]
    BY <1>2 DEF Approvals, Consumed, Moved
  <2>2. Ended' = Ended \cup {g}
    BY <1>2 DEF Ended, Consumed, Moved
  <2>3. QED
    BY <2>1, <2>2, OneChanges, AreFunctions
<1>4. Tokens' = [Tokens EXCEPT ![g] = h]
  <2>1. \A x \in Grants : Tokens'[x] = IF x = g THEN h ELSE Tokens[x]
    BY <1>2 DEF Tokens
  <2>2. QED
    BY <2>1, OneChanges, AreFunctions
<1>5. h \in Enabled /\ Approvals[g] = h
  BY <1>1 DEF Enabled, Approvals, TokenExchange
<1>6. Promise!Exchange(h, g)
  BY <1>1, <1>3, <1>4, <1>5, SeenAlike DEF Promise!Exchange
<1>7. QED
  BY <1>1, <1>6 DEF Promise!Next

(* The statements of a lockdown.                                           *)
LEMMA CutLapses ==
    ASSUME NEW h \in Humans
    PROVE  /\ key' = LockedKeys(h) => KeysLapse
           /\ token' = LockedTokens(h) => TokensLapse
           /\ grant' = LockedGrants(h) => GrantsLapse
<1>1. key' = LockedKeys(h) => KeysLapse
  BY DEF LockedKeys, RevokedKey, KeysLapse
<1>2. token' = LockedTokens(h) => TokensLapse
  BY DEF LockedTokens, RevokedToken, TokensLapse
<1>3. grant' = LockedGrants(h) => GrantsLapse
  BY DEF LockedGrants, Burnt, Moved, GrantsLapse, Over
<1>4. QED
  BY <1>1, <1>2, <1>3

LEMMA NothingRemains ==
    ASSUME NEW h \in Humans, KeysCut(h), TokensCut(h), GrantsCut(h)
    PROVE  (\A n \in Names : Keys'[n] # h) /\ \A g \in Grants : Approvals'[g] # h /\ Tokens'[g] # h
<1>1. \A n \in Names : Keys'[n] # h
  BY CredentialsAssumption DEF KeysCut, Keys
<1>2. \A g \in Grants : Approvals'[g] # h
  BY CredentialsAssumption DEF GrantsCut, Approvals
<1>3. \A g \in Grants : Tokens'[g] # h
  BY CredentialsAssumption DEF TokensCut, Tokens
<1>4. QED
  BY <1>1, <1>2, <1>3

LEMMA LeftWithout ==
    ASSUME NEW h \in Humans, session' = LockedSessions(h)
    PROVE  Opened' = Promise!Without(h)
BY DEF LockedSessions, NoSession, Opened, Promise!Without, Promise!Out

LEMMA Recovers ==
    ASSUME IInv, NEW h \in Humans, LockDown(h),
           \/ session' = LockedSessions(h)
           \/ \E s \in Sessions :
                 /\ active[h] /\ session[s].of \in {Nobody, h}
                 /\ session' = [LockedSessions(h) EXCEPT ![s] = NewSession(h, era[h] + 1, password[h] + 1)]
    PROVE  Promise!Next
<1>1. /\ era' = [era EXCEPT ![h] = era[h] + 1]
      /\ key' = LockedKeys(h) /\ token' = LockedTokens(h) /\ grant' = LockedGrants(h)
      /\ UNCHANGED active
  BY DEF LockDown
<1>2. Promise!SomeLapse
  BY <1>1, CutLapses, SomeLapses
<1>3. (\A n \in Names : Keys'[n] # h) /\ \A g \in Grants : Approvals'[g] # h /\ Tokens'[g] # h
  BY StoredCut, NothingRemains DEF IInv
<1>4. \/ Opened' = Promise!Without(h)
      \/ \E s \in Sessions :
            /\ h \in Enabled /\ Opened[s].of \in {Nobody, h}
            /\ Opened' = [Promise!Without(h) EXCEPT ![s] = [of |-> h, since |-> era[h] + 1]]
  <2>1. CASE session' = LockedSessions(h)
    BY <2>1, LeftWithout
  <2>2. ASSUME NEW s \in Sessions, active[h], session[s].of \in {Nobody, h},
               session' = [LockedSessions(h) EXCEPT ![s] = NewSession(h, era[h] + 1, password[h] + 1)]
        PROVE  \E t \in Sessions :
                  /\ h \in Enabled /\ Opened[t].of \in {Nobody, h}
                  /\ Opened' = [Promise!Without(h) EXCEPT ![t] = [of |-> h, since |-> era[h] + 1]]
    <3>1. \A x \in Sessions :
             session'[x] = IF x = s THEN NewSession(h, era[h] + 1, password[h] + 1)
                           ELSE IF session[x].of = h THEN NoSession ELSE session[x]
      BY <2>2 DEF LockedSessions
    <3>2. Opened' = [Promise!Without(h) EXCEPT ![s] = [of |-> h, since |-> era[h] + 1]]
      <4>1. \A x \in Sessions :
               Opened'[x] = IF x = s THEN [of |-> h, since |-> era[h] + 1] ELSE Promise!Without(h)[x]
        BY <3>1 DEF NoSession, NewSession, Opened, Promise!Without, Promise!Out
      <4>2. QED
        BY <4>1, OneChanges, AreFunctions
    <3>3. h \in Enabled /\ Opened[s].of \in {Nobody, h}
      BY <2>2 DEF Enabled, Opened
    <3>4. QED
      BY <3>2, <3>3
  <2>3. QED
    BY <2>1, <2>2
<1>5. Promise!Recover(h)
  BY <1>1, <1>2, <1>3, <1>4, SeenAlike DEF Promise!Recover
<1>6. QED
  BY <1>5 DEF Promise!Next

LEMMA Switches ==
    ASSUME IInv, NEW h \in Humans, Deactivate(h) \/ Reactivate(h)
    PROVE  Promise!Next
<1>1. CASE Deactivate(h)
  <2>1. Enabled' = Enabled \ {h}
    BY <1>1 DEF Deactivate, Enabled, IInv, TypeOK
  <2>2. KeysLapse
    BY <1>1 DEF Deactivate, RevokedKey, KeysLapse
  <2>3. TokensLapse /\ GrantsLapse
    BY <1>1 DEF Deactivate, TokensLapse, GrantsLapse, Over
  <2>4. Promise!SomeLapse
    BY <2>2, <2>3, SomeLapses
  <2>5. Opened' = Promise!Without(h) /\ UNCHANGED era
    BY <1>1, LeftWithout DEF Deactivate
  <2>6. Promise!SwitchOff(h)
    BY <2>1, <2>4, <2>5 DEF Promise!SwitchOff
  <2>7. QED
    BY <2>6 DEF Promise!Next
<1>2. CASE Reactivate(h)
  <2>1. Enabled' = Enabled \cup {h}
    BY <1>2 DEF Reactivate, Enabled, IInv, TypeOK
  <2>2. Promise!SwitchOn(h)
    BY <1>2, <2>1, SeenAlike DEF Reactivate, credentials, Promise!SwitchOn
  <2>3. QED
    BY <2>2 DEF Promise!Next
<1>3. QED
  BY <1>1, <1>2

LEMMA Unchanging ==
    /\ UNCHANGED session => SessionsLapse
    /\ UNCHANGED key => KeysLapse
    /\ UNCHANGED token => TokensLapse
    /\ UNCHANGED grant => GrantsLapse
BY DEF SessionsLapse, KeysLapse, TokensLapse, GrantsLapse, Over

LEMMA SessionStepPromised ==
    ASSUME IInv, SessionStep
    PROVE  Promise!Next
<1>1. ASSUME NEW r \in requests, NEW s \in Sessions, AuthLogin(r, s) PROVE Promise!Next
  <2>1. r.of \in Humans
    BY DEF IInv, TypeOK, Request
  <2>2. QED
    BY <1>1, <2>1, SignsIn DEF AuthLogin, StillCorrect, accounts
<1>2. ASSUME NEW r \in requests, RefreshSession(r) PROVE Promise!Next
  <2>1. r.of \in Humans /\ r.session \in Sessions
    BY <1>2 DEF IInv, TypeOK, Request, AskersPresentOne, RefreshSession, Answer
  <2>2. QED
    BY <1>2, <2>1, SignsIn DEF RefreshSession, ValidSession, StillCorrect, accounts
<1>3. ASSUME NEW r \in requests, NEW s \in Sessions, ChangePassword(r, s) PROVE Promise!Next
  <2>1. r.of \in Humans
    BY DEF IInv, TypeOK, Request
  <2>2. QED
    BY <1>3, <2>1, Recovers DEF ChangePassword, StillCorrect
<1>4. ASSUME NEW s \in Sessions, DeleteSession(s) \/ SessionAges(s) PROVE Promise!Next
  <2>1. SessionsLapse
    BY <1>4 DEF DeleteSession, SessionAges, SessionsLapse, IInv, TypeOK
  <2>2. UNCHANGED <<active, era, key, token, grant>>
    BY <1>4 DEF DeleteSession, SessionAges, accounts
  <2>3. QED
    BY <2>1, <2>2, Unchanging, OnlyLapses
<1>5. QED
  BY <1>1, <1>2, <1>3, <1>4 DEF SessionStep

LEMMA ToolStepPromised ==
    ASSUME IInv, ToolStep
    PROVE  Promise!Next
<1>1. ASSUME NEW r \in requests, NEW n \in Names, CreateKey(r, n) \/ CreateBot(r, n) PROVE Promise!Next
  <2>1. r.of \in Humans /\ r.session \in Sessions
    BY <1>1 DEF IInv, TypeOK, Request, AskersPresentOne, CreateKey, CreateBot, Answer
  <2>2. /\ ValidSession(r.session, r.of) /\ UNCHANGED <<active, session, grant, token, era>>
        /\ \E to \in {"self", "bot"} : InsertKey(n, r.of, to, session[r.session].era)
    BY <1>1 DEF CreateKey, CreateBot, RecentSession, accounts
  <2>3. QED
    BY <2>1, <2>2, GivesKey
<1>2. ASSUME NEW n \in Names, RevokeUserKey(n) PROVE Promise!Next
  <2>1. KeysLapse
    BY <1>2 DEF RevokeUserKey, RevokedKey, KeysLapse, IInv, TypeOK
  <2>2. UNCHANGED <<active, era, session, token, grant>>
    BY <1>2 DEF RevokeUserKey, accounts
  <2>3. QED
    BY <2>1, <2>2, Unchanging, OnlyLapses
<1>3. ASSUME NEW h \in Humans, DisconnectBot(h) PROVE Promise!Next
  <2>1. KeysLapse
    BY <1>3 DEF DisconnectBot, RevokedKey, KeysLapse
  <2>2. UNCHANGED <<active, era, session>>
    BY <1>3 DEF DisconnectBot, accounts
  <2>3. QED
    BY <1>3, <2>1, <2>2, Unchanging, CutLapses, OnlyLapses DEF DisconnectBot
<1>4. ASSUME NEW h \in Humans, DeleteBot(h) PROVE Promise!Next
  <2>1. KeysLapse
    BY <1>4 DEF DeleteBot, NoKey, KeysLapse
  <2>2. TokensLapse
    BY <1>4 DEF DeleteBot, NoToken, TokensLapse
  <2>3. GrantsLapse
    BY <1>4 DEF DeleteBot, BoundToBot, Moved, GrantsLapse, Over
  <2>4. UNCHANGED <<active, era, session>>
    BY <1>4 DEF DeleteBot
  <2>5. QED
    BY <2>1, <2>2, <2>3, <2>4, Unchanging, OnlyLapses
<1>5. QED
  BY <1>1, <1>2, <1>3, <1>4 DEF ToolStep

LEMMA GrantStepPromised ==
    ASSUME IInv, GrantStep
    PROVE  Promise!Next
<1>1. ASSUME NEW r \in requests, NEW g \in Grants, AuthorizeApprove(r, g) \/ DeviceApprove(r, g)
      PROVE  Promise!Next
  <2>1. r.of \in Humans /\ r.session \in Sessions
    BY <1>1 DEF IInv, TypeOK, Request, AskersPresentOne, AuthorizeApprove, DeviceApprove, Answer
  <2>2. QED
    BY <1>1, <2>1, Approves DEF AuthorizeApprove, DeviceApprove
(* A grant that moves without being approved.                              *)
<1>2. ASSUME NEW g \in Grants, NEW to \in {"pending", "denied", "gone"},
             grant' = [grant EXCEPT ![g] = Moved(g, to)],
             grant[g].state \in {"none", "pending", "open", "denied"},
             to = "pending" => grant[g].state = "none",
             UNCHANGED <<accounts, session, key, token, era>>
      PROVE  Promise!Next
  <2>1. \A x \in Grants : grant'[x] = IF x = g THEN Moved(g, to) ELSE grant[x]
    BY <1>2 DEF IInv, TypeOK
  <2>2. GrantsLapse
    BY <1>2, <2>1 DEF Moved, GrantsLapse, Over
  <2>3. QED
    BY <1>2, <2>2, Unchanging, OnlyLapses DEF accounts
<1>3. ASSUME NEW r \in requests, NEW g \in Devices, DeviceDeny(r, g) PROVE Promise!Next
  BY <1>2, <1>3 DEF DeviceDeny, Grants
<1>4. ASSUME NEW g \in Devices, DeviceAuthorization(g) PROVE Promise!Next
  BY <1>2, <1>4 DEF DeviceAuthorization, Grants
<1>5. ASSUME NEW g \in Grants, GrantExpires(g) PROVE Promise!Next
  BY <1>2, <1>5 DEF GrantExpires
<1>6. ASSUME NEW g \in Grants, TokenExchange(g) PROVE Promise!Next
  BY <1>6, Exchanges
<1>7. ASSUME NEW g \in Grants, RevokeToken(g) \/ TokenExpires(g) PROVE Promise!Next
  <2>1. TokensLapse
    BY <1>7 DEF RevokeToken, TokenExpires, RevokedToken, ExpiredToken, TokensLapse, IInv, TypeOK
  <2>2. UNCHANGED <<active, era, session, key, grant>>
    BY <1>7 DEF RevokeToken, TokenExpires, accounts
  <2>3. QED
    BY <2>1, <2>2, Unchanging, OnlyLapses
<1>8. QED
  BY <1>1, <1>3, <1>4, <1>5, <1>6, <1>7 DEF GrantStep, Grants

LEMMA StepPromised ==
    ASSUME IInv, [Next]_vars
    PROVE  Promise!Next
<1>1. CASE PasswordVerified \/ GrantAsked \/ Refused \/ UNCHANGED vars
  <2>1. UNCHANGED <<active, era, session, key, token, grant>>
    BY <1>1 DEF PasswordVerified, GrantAsked, Refused, Arrive, vars, accounts, credentials
  <2>2. QED
    BY <2>1, Unchanging, OnlyLapses
<1>2. CASE AccountStep
  <2>1. ASSUME NEW h \in Humans, RevokeAllSessions(h) \/ SetPassword(h) PROVE Promise!Next
    BY <2>1, Recovers DEF RevokeAllSessions, SetPassword
  <2>2. QED
    BY <1>2, <2>1, Switches DEF AccountStep
<1>3. QED
  BY <1>1, <1>2, SessionStepPromised, ToolStepPromised, GrantStepPromised DEF Next

LEMMA InitPromised == Init => Promise!Init
<1>1. ASSUME Init PROVE Promise!Init
  <2>1. Enabled = Humans /\ Ended = {}
    BY <1>1 DEF Init, Enabled, Ended, NoGrant
  <2>2. Opened = [s \in Sessions |-> Promise!Out]
    BY <1>1 DEF Init, Opened, NoSession, Promise!Out
  <2>3. Keys = [n \in Names |-> Nobody]
    BY <1>1 DEF Init, Keys, NoKey
  <2>4. Approvals = [g \in Grants |-> Nobody] /\ Tokens = [g \in Grants |-> Nobody]
    BY <1>1 DEF Init, Approvals, Tokens, NoGrant, NoToken
  <2>5. QED
    BY <1>1, <2>1, <2>2, <2>3, <2>4 DEF Init, Promise!Init
<1>2. QED
  BY <1>1

(* users.rs, auth.rs, oauth.rs: whatever commits between a check and its   *)
(* transaction, each step is one that the promise allows.                  *)
THEOREM AuthorityIsKept == Spec => AuthorityIsEarned
<1>1. IInv /\ [Next]_vars => Promise!Next
  BY StepPromised
<1>2. QED
  BY <1>1, InitPromised, Inductive, PTL DEF Spec, AuthorityIsEarned, Promise!Spec
===============================================================================
