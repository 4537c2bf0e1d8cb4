------------------------------ MODULE Accounts ------------------------------
(***************************************************************************)
(* The accounts of TorrSearch (users/store.py) and what changes them: the  *)
(* users card of the settings (web/settings_routes.py, administrators      *)
(* only) and a person's own password (web/auth_routes.py).                 *)
(*                                                                         *)
(* The middleware reads the role of a request when it arrives              *)
(* (web/auth.py), the handler runs once the form has been read, and who    *)
(* sent it may have been demoted or deleted meanwhile: as long as there is *)
(* an administrator to send one, any change may happen at any time, and    *)
(* AdminRemains says there is.  A password hash is salted, so two of them  *)
(* are never equal: it is a number counted by salts.  The cookies of the   *)
(* sessions are not modelled.                                              *)
(***************************************************************************)
EXTENDS Integers, FiniteSets

CONSTANTS User, None,
          Founder,      \* the account made from TORSEARCH_USERNAME
          Given,        \* roles the card gives, of those below
          MaxSalts      \* passwords ever set: bounds the model

ADMIN == "admin"
MEMBER == "member"
GUEST == "guest"

Role == {ADMIN, MEMBER, GUEST}

ASSUME AccountAssumption ==
    /\ IsFiniteSet(User)
    /\ Founder \in User
    /\ None \notin Role
    /\ Given \subseteq Role
    /\ MaxSalts \in Nat \ {0}

VARIABLES role,         \* role[u], or None: no such account
          hash,         \* the hash of u's password, 0 without an account
          salts         \* hashes made so far

accountVars == <<role, hash, salts>>

AccountTypeOK == /\ role \in [User -> Role \union {None}]
                 /\ hash \in [User -> 0..salts]
                 /\ salts \in 1..MaxSalts
                 /\ \A u \in User : (role[u] = None) <=> (hash[u] = 0)

(* The application starts with the account of its environment.             *)
AccountInit == /\ role = [u \in User |-> IF u = Founder THEN ADMIN ELSE None]
               /\ hash = [u \in User |-> IF u = Founder THEN 1 ELSE 0]
               /\ salts = 1

Admins == {u \in User : role[u] = ADMIN}

(* Mutant: the count is compared too low. *)
BugLastAdmin(u) == role[u] = ADMIN /\ Cardinality(Admins) < 1

(* Whether u is the only administrator left.                               *)
LastAdmin(u) == role[u] = ADMIN /\ Cardinality(Admins) <= 1

NewHash(u) == /\ salts < MaxSalts
              /\ salts' = salts + 1
              /\ hash' = [hash EXCEPT ![u] = salts + 1]

Add(u, r) == /\ role[u] = None
             /\ role' = [role EXCEPT ![u] = r]
             /\ NewHash(u)

Remove(u) == /\ role[u] # None
             /\ ~LastAdmin(u)
             /\ role' = [role EXCEPT ![u] = None]
             /\ hash' = [hash EXCEPT ![u] = 0]
             /\ UNCHANGED salts

SetRole(u, r) == /\ role[u] # None
                 /\ r = ADMIN \/ ~LastAdmin(u)
                 /\ role' = [role EXCEPT ![u] = r]
                 /\ UNCHANGED <<hash, salts>>

SetPassword(u) == /\ role[u] # None
                  /\ NewHash(u)
                  /\ UNCHANGED role

AccountStep == \E u \in User : \/ Remove(u) \/ SetPassword(u)
                               \/ \E r \in Given : Add(u, r) \/ SetRole(u, r)

(* Whatever administrators do to each other at the same time, one of them  *)
(* is left (users/store.py:89,99): without it nobody could manage the      *)
(* accounts, or approve a connector, any more.                             *)
AdminRemains == \E u \in User : role[u] = ADMIN
=============================================================================
