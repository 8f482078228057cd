------------------------------ MODULE Authority ------------------------------
(***************************************************************************)
(* What an instance promises about acting as an account: how somebody      *)
(* comes to it, and what takes it away.                                    *)
(*                                                                         *)
(* A session comes from the password; a key or an approval from a session  *)
(* that is open at that moment; a token from an approval, which it uses    *)
(* up.  All of them may end at any time.  A recovery ends every one of the *)
(* account's, and what it starts, if anything, is one session.  None of it *)
(* happens for an account that is switched off.                            *)
(***************************************************************************)
EXTENDS Naturals

CONSTANTS
    Accounts,
    Nobody,     \* no account
    Slots,      \* places for sessions
    Names,      \* of keys
    Grants      \* approvals that may ever be given

VARIABLES
    enabled,    \* the accounts that are switched on
    recoveries, \* account -> how often it was recovered
    opened,     \* slot -> whose session, since which recovery
    keys, approvals, tokens,    \* -> whose, or Nobody
    ended       \* grants that are never approved again

authority == <<enabled, recoveries, opened, keys, approvals, tokens, ended>>

Out == [of |-> Nobody, since |-> 0]

Left(new, old, none) == DOMAIN new = DOMAIN old /\ \A i \in DOMAIN old : new[i] \in {old[i], none}

(* What is handed out may lapse, an approval for good.                     *)
SomeLapse ==
    /\ Left(keys', keys, Nobody) /\ Left(tokens', tokens, Nobody) /\ Left(approvals', approvals, Nobody)
    /\ ended \subseteq ended'
    /\ \A g \in Grants : approvals[g] # Nobody /\ approvals'[g] = Nobody => g \in ended'

Lapse == SomeLapse /\ Left(opened', opened, Out) /\ UNCHANGED <<enabled, recoveries>>

HasSession(h) == h \in enabled /\ \E s \in Slots : opened[s].of = h

SignIn(h, s) ==
    /\ h \in enabled /\ opened[s].of \in {Nobody, h}
    /\ opened' = [opened EXCEPT ![s] = [of |-> h, since |-> recoveries[h]]]
    /\ UNCHANGED <<enabled, recoveries, keys, approvals, tokens, ended>>

GiveKey(h, n) ==
    /\ HasSession(h) /\ keys[n] = Nobody
    /\ keys' = [keys EXCEPT ![n] = h]
    /\ UNCHANGED <<enabled, recoveries, opened, approvals, tokens, ended>>

Approve(h, g) ==
    /\ HasSession(h) /\ approvals[g] = Nobody /\ g \notin ended
    /\ approvals' = [approvals EXCEPT ![g] = h]
    /\ UNCHANGED <<enabled, recoveries, opened, keys, tokens, ended>>

Exchange(h, g) ==
    /\ h \in enabled /\ approvals[g] = h
    /\ approvals' = [approvals EXCEPT ![g] = Nobody] /\ ended' = ended \cup {g}
    /\ tokens' = [tokens EXCEPT ![g] = h]
    /\ UNCHANGED <<enabled, recoveries, opened, keys>>

Without(h) == [s \in Slots |-> IF opened[s].of = h THEN Out ELSE opened[s]]

Recover(h) ==
    /\ recoveries' = [recoveries EXCEPT ![h] = recoveries[h] + 1]
    /\ SomeLapse
    /\ (\A n \in Names : keys'[n] # h) /\ \A g \in Grants : approvals'[g] # h /\ tokens'[g] # h
    /\ \/ opened' = Without(h)
       \/ \E s \in Slots :
             /\ h \in enabled /\ opened[s].of \in {Nobody, h}
             /\ opened' = [Without(h) EXCEPT ![s] = [of |-> h, since |-> recoveries[h] + 1]]
    /\ UNCHANGED enabled

SwitchOff(h) ==
    /\ enabled' = enabled \ {h}
    /\ SomeLapse /\ opened' = Without(h)
    /\ UNCHANGED recoveries

SwitchOn(h) ==
    /\ enabled' = enabled \cup {h}
    /\ UNCHANGED <<recoveries, opened, keys, approvals, tokens, ended>>

Init ==
    /\ enabled = Accounts /\ recoveries = [h \in Accounts |-> 0]
    /\ opened = [s \in Slots |-> Out]
    /\ keys = [n \in Names |-> Nobody]
    /\ approvals = [g \in Grants |-> Nobody] /\ tokens = [g \in Grants |-> Nobody]
    /\ ended = {}

Next ==
    \/ Lapse
    \/ \E h \in Accounts :
          \/ \E s \in Slots : SignIn(h, s)
          \/ \E n \in Names : GiveKey(h, n)
          \/ \E g \in Grants : Approve(h, g) \/ Exchange(h, g)
          \/ Recover(h) \/ SwitchOff(h) \/ SwitchOn(h)

Spec == Init /\ [][Next]_authority
==============================================================================
