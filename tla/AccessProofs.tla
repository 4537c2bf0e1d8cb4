---------------------------- MODULE AccessProofs ----------------------------
(***************************************************************************)
(* Proofs about Access and Accounts, for any number of accounts, clients,  *)
(* consents, tokens and /token requests, and any lifetimes.                *)
(*                                                                         *)
(* What makes a token open something is scattered over documents that      *)
(* expire, are purged and are dropped on their own; the inductive          *)
(* invariant IInv says how they hang together:                             *)
(*   Asked      which documents a consent has, and in which order;         *)
(*   InHand     what a /token request has loaded was really issued;        *)
(*   Owned      a pair says of its owner what the consent says;            *)
(*   Renewable  no access token outlasts its refresh token;                *)
(*   Single     a consent has at most one pair with a fingerprint, and     *)
(*              none while its code is there;                              *)
(*   Severed    a revoked consent has nothing left.                        *)
(***************************************************************************)
EXTENDS Access, FiniteSetTheorems, TLAPS

(* A pair that is stored, with the fingerprint of an account.              *)
Standing(p) == (access[p] > 0 \/ refresh[p] > 0) /\ pair[p].print # 0

Asked == \A r \in Request : /\ granted[r] # None => asked[r] # None
                            /\ pending[r] > 0 => asked[r] # None /\ granted[r] = None
                            /\ code[r] > 0 => granted[r] # None
                            /\ r \in cut => asked[r] # None

InHand == \A h \in Handler :
             /\ handler[h].at = "code" => granted[handler[h].request] # None
             /\ handler[h].at = "refresh" => pair[handler[h].pair] # None

Owned == \A p \in Pair :
            /\ access[p] > 0 \/ refresh[p] > 0 => pair[p] # None
            /\ pair[p] # None => /\ granted[pair[p].from] # None
                                 /\ asked[pair[p].from] = pair[p].client
                                 /\ granted[pair[p].from].user = pair[p].subject
                                 /\ pair[p].print \in {0, granted[pair[p].from].print}

Renewable == \A p \in Pair : Live(access, p) => refresh[p] >= access[p]

Single == /\ \A p, q \in Pair : Standing(p) /\ Standing(q) /\ pair[p].from = pair[q].from => p = q
          /\ \A p \in Pair : Standing(p) => code[pair[p].from] = 0

Severed == \A r \in cut : /\ pending[r] = 0 /\ code[r] = 0
                          /\ \A p \in Pair : Standing(p) => pair[p].from # r

Linked == Asked /\ InHand /\ Owned /\ Renewable /\ Single /\ Severed

IInv == TypeOK /\ AdminRemains /\ Linked

LEMMA InitIInv == Init => IInv
<1> SUFFICES ASSUME Init PROVE IInv
  OBVIOUS
<1> USE AccountAssumption, AccessAssumption DEF Init, AccountInit
<1>1. TypeOK
  BY DEF TypeOK, AccountTypeOK, Role, ADMIN, MEMBER, GUEST, Idle
<1>2. AdminRemains
  BY DEF AdminRemains
<1>3. Linked
  BY DEF Linked, Asked, InHand, Owned, Renewable, Single, Severed, Standing, Live, Idle
<1> QED BY <1>1, <1>2, <1>3 DEF IInv

(***************************************************************************)
(* The accounts.                                                           *)
(***************************************************************************)
LEMMA AccountTypes ==
    ASSUME AccountTypeOK, AccountStep
    PROVE  AccountTypeOK'
<1> USE AccountAssumption DEF AccountTypeOK, NewHash, Role, ADMIN, MEMBER, GUEST
<1>1. CASE \E u \in User : Remove(u)
  BY <1>1 DEF Remove
<1>2. CASE \E u \in User : SetPassword(u)
  BY <1>2 DEF SetPassword
<1>3. CASE \E u \in User, r \in Given : Add(u, r)
  BY <1>3 DEF Add
<1>4. CASE \E u \in User, r \in Given : SetRole(u, r)
  BY <1>4 DEF SetRole
<1> QED BY <1>1, <1>2, <1>3, <1>4 DEF AccountStep

(* Who is not the last administrator leaves another one behind.            *)
LEMMA AnotherAdmin ==
    ASSUME AdminRemains, NEW u \in User, ~LastAdmin(u)
    PROVE  \E v \in User : v # u /\ role[v] = ADMIN
<1> SUFFICES ASSUME \A v \in User : role[v] = ADMIN => v = u
             PROVE  FALSE
  OBVIOUS
<1>1. Admins = {u}
  BY DEF Admins, AdminRemains
<1>2. Cardinality(Admins) = 1 /\ role[u] = ADMIN
  BY <1>1, FS_Singleton DEF Admins
<1> QED BY <1>2 DEF LastAdmin

LEMMA AdminStep ==
    ASSUME AccountTypeOK, AdminRemains, AccountStep
    PROVE  AdminRemains'
<1> USE DEF AccountTypeOK
<1>1. CASE \E u \in User : Remove(u)
  BY <1>1, AnotherAdmin DEF Remove, AdminRemains
<1>2. CASE \E u \in User : SetPassword(u)
  BY <1>2 DEF SetPassword, AdminRemains
<1>3. CASE \E u \in User, r \in Given : Add(u, r)
  BY <1>3, AccountAssumption DEF Add, AdminRemains, ADMIN, Role
<1>4. CASE \E u \in User, r \in Given : SetRole(u, r)
  BY <1>4, AnotherAdmin DEF SetRole, AdminRemains
<1> QED BY <1>1, <1>2, <1>3, <1>4 DEF AccountStep

(***************************************************************************)
(* Documents: what a purge leaves, and the types of every step.            *)
(***************************************************************************)
LEMMA UnexpiredDocs ==
    ASSUME TypeOK, NEW S, NEW doc \in [S -> Nat]
    PROVE  /\ Unexpired(doc) \in [S -> Nat]
           /\ \A k \in S : Unexpired(doc)[k] = IF doc[k] > now THEN doc[k] ELSE 0
BY DEF Unexpired, Live, TypeOK

LEMMA PurgedTypes ==
    ASSUME TypeOK
    PROVE  /\ Unexpired(pending) \in [Request -> Nat]
           /\ Unexpired(code) \in [Request -> Nat]
           /\ Unexpired(access) \in [Pair -> Nat]
           /\ Unexpired(refresh) \in [Pair -> Nat]
BY DEF Unexpired, TypeOK

(* What a /token request has loaded.                                       *)
LEMMA LoadedTypes ==
    ASSUME TypeOK, NEW h \in Handler
    PROVE  /\ handler[h].at = "code" => handler[h].request \in Request
           /\ handler[h].at = "refresh" => handler[h].pair \in Pair
BY DEF TypeOK, Loaded, Idle

(* An identifier drawn is a new one.                                       *)
LEMMA Drawn ==
    /\ (\E r \in Request : asked[r] = None)
          => LET r == CHOOSE r \in Request : asked[r] = None IN r \in Request /\ asked[r] = None
    /\ (\E p \in Pair : pair[p] = None)
          => LET p == CHOOSE p \in Pair : pair[p] = None IN p \in Pair /\ pair[p] = None
OBVIOUS

LEMMA IssueTypes ==
    ASSUME TypeOK, NEW owner \in PairRecord,
           NEW leftCode \in [Request -> Nat], NEW leftAccess \in [Pair -> Nat],
           NEW leftRefresh \in [Pair -> Nat],
           Issues(owner, leftCode, leftAccess, leftRefresh)
    PROVE  /\ pair' \in [Pair -> PairRecord \union {None}]
           /\ pending' \in [Request -> Nat] /\ code' \in [Request -> Nat]
           /\ access' \in [Pair -> Nat] /\ refresh' \in [Pair -> Nat]
<1> USE DEF TypeOK
<1>1. now + AccessTTL \in Nat /\ now + RefreshTTL \in Nat
  BY AccessAssumption
<1>2. /\ Unexpired(leftCode) \in [Request -> Nat] /\ Unexpired(pending) \in [Request -> Nat]
      /\ Unexpired(leftAccess) \in [Pair -> Nat] /\ Unexpired(leftRefresh) \in [Pair -> Nat]
  BY DEF Unexpired
<1> QED BY <1>1, <1>2 DEF Issues

LEMMA OAuthTypes ==
    ASSUME TypeOK, Linked, OAuthStep, UNCHANGED accountVars
    PROVE  TypeOK'
<1>0. AccountTypeOK'
  BY DEF TypeOK, AccountTypeOK, accountVars
<1> USE <1>0, AccessAssumption, PurgedTypes DEF TypeOK, PurgeExpired, clients
<1>1. CASE Registers
  <2> DEFINE c == CHOOSE c \in Client : c \notin drawn
             issued == [since EXCEPT ![c] = now]
  <2>1. PICK gone : since' = [k \in Client |-> IF k \in gone THEN 0 ELSE issued[k]]
    BY <1>1 DEF Registers
  <2>2. issued \in [Client -> Nat]
    <3>1. \A k \in Client : [since EXCEPT ![k] = now] \in [Client -> Nat]
      OBVIOUS
    <3> QED BY <1>1, <3>1 DEF Registers
  <2>3. since' \in [Client -> Nat]
    <3> HIDE DEF issued
    <3> QED BY <2>1, <2>2
  <2>4. c \in Client
    BY <1>1 DEF Registers
  <2> QED BY <1>1, <2>3, <2>4 DEF Registers
<1>2. CASE \E c \in Client : Authorizes(c)
  <2> DEFINE r == CHOOSE r \in Request : asked[r] = None
  <2>1. PICK c \in Client : Authorizes(c)
    BY <1>2
  <2>2. r \in Request /\ asked' = [asked EXCEPT ![r] = c]
    BY <2>1, Drawn DEF Authorizes
  <2>3. PICK gone : pending' = [k \in Request |-> CASE k = r -> now + PendingTTL
                                                 [] k \in Waiting \ gone -> pending[k]
                                                 [] OTHER -> 0]
    BY <2>1 DEF Authorizes
  <2>4. pending' \in [Request -> Nat]
    <3> now + PendingTTL \in Nat
      OBVIOUS
    <3> HIDE DEF r
    <3> QED BY <2>3
  <2> HIDE DEF r
  <2> QED BY <2>1, <2>2, <2>4 DEF Authorizes
<1>3. CASE \E c \in Client : RevokesClient(c)
  BY <1>3 DEF RevokesClient, Forgotten, OfClient
<1>4. CASE \E r \in Request : Denies(r)
  BY <1>4 DEF Denies
<1>5. CASE \E r \in Request, u \in User : Approves(r, u)
  <2>1. \A u \in User : [user |-> u, print |-> hash[u]] \in Approval
    BY DEF AccountTypeOK, Approval
  <2> QED BY <1>5, <2>1 DEF Approves
<1>6. CASE LookupsExpired
  BY <1>6 DEF LookupsExpired, Expires
<1>7. CASE \E h \in Handler, r \in Request : LoadsCode(h, r)
  BY <1>7 DEF LoadsCode, Loads, Loaded
<1>8. CASE \E h \in Handler, p \in Pair : LoadsRefresh(h, p)
  BY <1>8 DEF LoadsRefresh, Loads, Loaded
<1>9. CASE \E h \in Handler : ExchangesCode(h)
  <2>1. PICK h \in Handler : ExchangesCode(h)
    BY <1>9
  <2> DEFINE r == handler[h].request
             owner == [client |-> asked[r], subject |-> granted[r].user,
                       print |-> FoundPrint(r), from |-> r]
  <2>2. r \in Request /\ granted[r] # None /\ asked[r] # None
    BY <2>1, LoadedTypes DEF ExchangesCode, Linked, InHand, Asked
  <2>3. granted[r] \in Approval /\ asked[r] \in Client
    BY <2>2
  <2>4. owner \in PairRecord
    BY <2>2, <2>3 DEF PairRecord, Approval, FoundPrint
  <2>5. Issues(owner, [code EXCEPT ![r] = 0], access, refresh)
    BY <2>1 DEF ExchangesCode
  <2>6. [code EXCEPT ![r] = 0] \in [Request -> Nat]
    OBVIOUS
  <2> HIDE DEF owner
  <2>7. /\ pair' \in [Pair -> PairRecord \union {None}]
        /\ pending' \in [Request -> Nat] /\ code' \in [Request -> Nat]
        /\ access' \in [Pair -> Nat] /\ refresh' \in [Pair -> Nat]
    BY <2>4, <2>5, <2>6, IssueTypes
  <2> QED BY <2>1, <2>7 DEF ExchangesCode
<1>10. CASE \E h \in Handler : ExchangesRefresh(h)
  <2>1. PICK h \in Handler : ExchangesRefresh(h)
    BY <1>10
  <2> DEFINE p == handler[h].pair
             owner == [pair[p] EXCEPT !.print = RotatedPrint(p)]
  <2>2. p \in Pair /\ pair[p] # None
    BY <2>1, LoadedTypes DEF ExchangesRefresh, Linked, InHand
  <2>3. pair[p] \in PairRecord
    BY <2>2
  <2>4. owner \in PairRecord
    BY <2>2, <2>3 DEF PairRecord, RotatedPrint
  <2>5. Issues(owner, code, Without(access, p), Without(refresh, p))
    BY <2>1 DEF ExchangesRefresh
  <2>6. Without(access, p) \in [Pair -> Nat] /\ Without(refresh, p) \in [Pair -> Nat]
    BY DEF Without
  <2> HIDE DEF owner
  <2>7. /\ pair' \in [Pair -> PairRecord \union {None}]
        /\ pending' \in [Request -> Nat] /\ code' \in [Request -> Nat]
        /\ access' \in [Pair -> Nat] /\ refresh' \in [Pair -> Nat]
    BY <2>4, <2>5, <2>6, IssueTypes
  <2> QED BY <2>1, <2>7 DEF ExchangesRefresh
<1>11. CASE \E p \in Pair : RevokesToken(p)
  <2>1. PICK p \in Pair : RevokesToken(p)
    BY <1>11
  <2>2. pair[p] # None
    BY <2>1 DEF RevokesToken, Usable, AccessOpens, RefreshLoads, Live, Linked, Owned
  <2>3. pair[p].from \in Request
    BY <2>2 DEF PairRecord
  <2> QED BY <2>1, <2>3 DEF RevokesToken
<1>12. CASE Tick
  BY <1>12 DEF Tick
<1> QED BY <1>1, <1>2, <1>3, <1>4, <1>5, <1>6, <1>7, <1>8, <1>9, <1>10, <1>11, <1>12 DEF OAuthStep

(***************************************************************************)
(* Steps that issue nothing: documents stay or go, and a refresh token     *)
(* goes only when it has expired or with the access token it renews.       *)
(***************************************************************************)
LEMMA Dropping ==
    ASSUME TypeOK, Linked, TypeOK',
           now <= now', UNCHANGED <<pair, granted>>,
           \A r \in Request : asked[r] # None => asked'[r] = asked[r],
           \A r \in Request : code'[r] \in {0, code[r]},
           \A p \in Pair : /\ access'[p] \in {0, access[p]}
                           /\ refresh'[p] \in {0, refresh[p]}
                           /\ refresh'[p] = refresh[p] \/ access'[p] = 0 \/ ~Live(refresh, p)
    PROVE  /\ Owned' /\ Renewable' /\ Single'
           /\ \A p \in Pair : Standing(p)' => Standing(p)
<1> USE DEF TypeOK
<1>1. \A p \in Pair : Standing(p)' => Standing(p)
  BY DEF Standing
<1>2. \A p \in Pair : pair[p] # None => pair[p].from \in Request
  BY DEF PairRecord
<1>3. Owned'
  BY <1>2 DEF Linked, Owned, Asked
<1>4. Renewable'
  <2> SUFFICES ASSUME NEW p \in Pair, access'[p] > now'
               PROVE  refresh'[p] >= access'[p]
    BY DEF Renewable, Live
  <2>1. access'[p] = access[p] /\ access[p] > now
    OBVIOUS
  <2>2. refresh[p] >= access[p]
    BY <2>1 DEF Linked, Renewable, Live
  <2> QED BY <2>1, <2>2 DEF Live
<1>5. Single'
  <2>1. \A p \in Pair : Standing(p) => pair[p].from \in Request
    BY <1>2 DEF Standing, Linked, Owned
  <2> QED BY <1>1, <2>1 DEF Linked, Single
<1> QED BY <1>1, <1>3, <1>4, <1>5

(* Nothing of a revoked consent comes back by dropping.                    *)
LEMMA DroppingSevered ==
    ASSUME TypeOK, Linked, pair' = pair, cut' = cut,
           \A r \in Request : code'[r] \in {0, code[r]},
           \A r \in cut : pending'[r] \in {0, pending[r]},
           \A p \in Pair : Standing(p)' => Standing(p)
    PROVE  Severed'
BY DEF Linked, Severed, TypeOK

(* Looking into the two stores of tokens after a purge.                    *)
LEMMA PurgeDrops ==
    ASSUME TypeOK, PurgeExpired
    PROVE  /\ \A r \in Request : code'[r] \in {0, code[r]}
           /\ \A p \in Pair : /\ access'[p] \in {0, access[p]}
                              /\ refresh'[p] \in {0, refresh[p]}
                              /\ refresh'[p] = refresh[p] \/ access'[p] = 0 \/ ~Live(refresh, p)
BY DEF TypeOK, PurgeExpired, Unexpired, Live

LEMMA RegistersKeeps ==
    ASSUME TypeOK, Linked, TypeOK', Registers
    PROVE  Linked'
<1>1. /\ PurgeExpired /\ pending' = Unexpired(pending)
      /\ UNCHANGED <<now, asked, granted, pair, handler, cut>>
  BY DEF Registers
<1>2. \A r \in Request : pending'[r] \in {0, pending[r]}
  BY <1>1 DEF Unexpired, TypeOK
<1>3. /\ Owned' /\ Renewable' /\ Single'
      /\ \A p \in Pair : Standing(p)' => Standing(p)
  BY <1>1, PurgeDrops, Dropping DEF TypeOK
<1>4. Severed'
  BY <1>1, <1>2, <1>3, PurgeDrops, DroppingSevered DEF TypeOK
<1>5. Asked' /\ InHand'
  BY <1>1, <1>2, PurgeDrops DEF Linked, Asked, InHand, TypeOK
<1> QED BY <1>3, <1>4, <1>5 DEF Linked

LEMMA AuthorizesKeeps ==
    ASSUME TypeOK, Linked, TypeOK', NEW c \in Client, Authorizes(c)
    PROVE  Linked'
<1> DEFINE r == CHOOSE r \in Request : asked[r] = None
<1>1. /\ PurgeExpired /\ asked' = [asked EXCEPT ![r] = c]
      /\ UNCHANGED <<now, granted, pair, handler, cut>>
  BY DEF Authorizes
<1>2. r \in Request /\ asked[r] = None
  BY Drawn DEF Authorizes
<1>3. PICK gone : pending' = [k \in Request |-> CASE k = r -> now + PendingTTL
                                               [] k \in Waiting \ gone -> pending[k]
                                               [] OTHER -> 0]
  BY DEF Authorizes
<1> HIDE DEF r
<1>4. \A k \in Request : k # r => pending'[k] \in {0, pending[k]}
  BY <1>3
<1>5. c # None
  BY AccessAssumption
<1>6. \A k \in Request : asked'[k] = IF k = r THEN c ELSE asked[k]
  BY <1>1 DEF TypeOK
<1>7. /\ Owned' /\ Renewable' /\ Single'
      /\ \A p \in Pair : Standing(p)' => Standing(p)
  BY <1>1, <1>2, <1>6, PurgeDrops, Dropping DEF TypeOK
<1>8. r \notin cut
  BY <1>2 DEF Linked, Asked
<1>9. Severed'
  BY <1>1, <1>4, <1>7, <1>8, PurgeDrops, DroppingSevered DEF TypeOK
<1>10. Asked'
  BY <1>1, <1>2, <1>4, <1>5, <1>6, PurgeDrops DEF Linked, Asked, TypeOK
<1>11. InHand'
  BY <1>1 DEF Linked, InHand
<1> QED BY <1>7, <1>9, <1>10, <1>11 DEF Linked

LEMMA DeniesKeeps ==
    ASSUME TypeOK, Linked, TypeOK', NEW r \in Request, Denies(r)
    PROVE  Linked'
<1>1. /\ \A k \in Request : pending'[k] \in {0, pending[k]}
      /\ UNCHANGED <<now, asked, granted, pair, code, access, refresh, handler, cut>>
  BY DEF Denies, TypeOK
<1>2. /\ Owned' /\ Renewable' /\ Single'
      /\ \A p \in Pair : Standing(p)' => Standing(p)
  BY <1>1, Dropping DEF TypeOK
<1>3. Severed'
  BY <1>1, <1>2, DroppingSevered DEF TypeOK
<1>4. Asked' /\ InHand'
  BY <1>1 DEF Linked, Asked, InHand, TypeOK
<1> QED BY <1>2, <1>3, <1>4 DEF Linked

LEMMA LookupsKeep ==
    ASSUME TypeOK, Linked, TypeOK', LookupsExpired
    PROVE  Linked'
<1>1. UNCHANGED <<now, asked, granted, pair, handler, cut>>
  BY DEF LookupsExpired
<1>2. /\ \A r \in Request : pending'[r] \in {0, pending[r]} /\ code'[r] \in {0, code[r]}
      /\ \A p \in Pair : /\ access'[p] \in {0, access[p]}
                         /\ refresh'[p] \in {0, refresh[p]}
                         /\ refresh'[p] = refresh[p] \/ access'[p] = 0 \/ ~Live(refresh, p)
  BY DEF LookupsExpired, Expires, TypeOK
<1>3. /\ Owned' /\ Renewable' /\ Single'
      /\ \A p \in Pair : Standing(p)' => Standing(p)
  BY <1>1, <1>2, Dropping DEF TypeOK
<1>4. Severed'
  BY <1>1, <1>2, <1>3, DroppingSevered DEF TypeOK
<1>5. Asked' /\ InHand'
  BY <1>1, <1>2 DEF Linked, Asked, InHand, TypeOK
<1> QED BY <1>3, <1>4, <1>5 DEF Linked

LEMMA TickKeeps ==
    ASSUME TypeOK, Linked, TypeOK', Tick
    PROVE  Linked'
<1>1. /\ now <= now'
      /\ UNCHANGED <<asked, granted, pair, pending, code, access, refresh, handler, cut>>
  BY DEF Tick, TypeOK
<1>2. /\ Owned' /\ Renewable' /\ Single'
      /\ \A p \in Pair : Standing(p)' => Standing(p)
  BY <1>1, Dropping DEF TypeOK
<1>3. Asked' /\ InHand' /\ Severed'
  BY <1>1, <1>2, DroppingSevered DEF Linked, Asked, InHand, TypeOK
<1> QED BY <1>2, <1>3 DEF Linked

LEMMA LoadsKeep ==
    ASSUME TypeOK, Linked, TypeOK', NEW h \in Handler,
           \/ \E r \in Request : LoadsCode(h, r)
           \/ \E p \in Pair : LoadsRefresh(h, p)
    PROVE  Linked'
<1>1. UNCHANGED <<now, asked, granted, pair, pending, code, access, refresh, cut>>
  BY DEF LoadsCode, LoadsRefresh, Loads
<1>2. Asked' /\ Owned' /\ Renewable' /\ Single' /\ Severed'
  BY <1>1 DEF Linked, Asked, Owned, Renewable, Single, Severed, Standing, Live
<1>3. InHand'
  <2>1. CASE \E r \in Request : LoadsCode(h, r)
    BY <1>1, <2>1 DEF LoadsCode, Loads, Live, Linked, InHand, Asked, TypeOK
  <2>2. CASE \E p \in Pair : LoadsRefresh(h, p)
    BY <1>1, <2>2 DEF LoadsRefresh, Loads, RefreshLoads, Live, Linked, InHand, Owned, TypeOK
  <2> QED BY <2>1, <2>2
<1> QED BY <1>2, <1>3 DEF Linked

LEMMA ApprovesKeeps ==
    ASSUME TypeOK, Linked, TypeOK', NEW r \in Request, NEW u \in User, Approves(r, u)
    PROVE  Linked'
<1> USE DEF TypeOK
<1>1. /\ pending[r] > 0 /\ asked[r] # None /\ granted[r] = None /\ r \notin cut
      /\ UNCHANGED <<now, asked, pair, access, refresh, handler, cut>>
  BY DEF Approves, Live, Linked, Asked, Severed
<1>2. /\ \A k \in Request : k # r => code'[k] = code[k] /\ granted'[k] = granted[k]
      /\ \A k \in Request : pending'[k] = IF k = r THEN 0 ELSE pending[k]
      /\ granted'[r] \in Approval
  BY DEF Approves, Approval, AccountTypeOK
<1>3. granted'[r] # None
  BY <1>2, AccessAssumption
<1>4. \A p \in Pair : pair[p] # None => pair[p].from \in Request /\ pair[p].from # r
  BY <1>1 DEF Linked, Owned, PairRecord
<1>5. \A p \in Pair : Standing(p)' <=> Standing(p)
  BY <1>1 DEF Standing
<1>6. \A p \in Pair : Standing(p) => pair[p].from \in Request \ {r}
  BY <1>4 DEF Standing, Linked, Owned
<1>7. Asked' /\ InHand'
  BY <1>1, <1>2, <1>3, LoadedTypes DEF Linked, Asked, InHand
<1>8. Owned' /\ Renewable'
  BY <1>1, <1>2, <1>4 DEF Linked, Owned, Renewable, Live
<1>9. Single'
  BY <1>1, <1>2, <1>5, <1>6 DEF Linked, Single
<1>10. Severed'
  BY <1>1, <1>2, <1>5 DEF Linked, Severed
<1> QED BY <1>7, <1>8, <1>9, <1>10 DEF Linked

(***************************************************************************)
(* Issuing: the new pair is the only one of its consent with a             *)
(* fingerprint, because what was exchanged for it has gone, or had none    *)
(* left to give.                                                           *)
(***************************************************************************)
LEMMA IssuesKeeps ==
    ASSUME TypeOK, Linked, TypeOK',
           NEW owner \in PairRecord, NEW leftCode \in [Request -> Nat],
           NEW leftAccess \in [Pair -> Nat], NEW leftRefresh \in [Pair -> Nat],
           Issues(owner, leftCode, leftAccess, leftRefresh),
           UNCHANGED <<now, asked, granted, cut>>,
           granted[owner.from] # None, asked[owner.from] = owner.client,
           granted[owner.from].user = owner.subject,
           owner.print \in {0, granted[owner.from].print},
           \A k \in Request : leftCode[k] \in {0, code[k]},
           \A q \in Pair : /\ leftAccess[q] \in {0, access[q]}
                           /\ leftRefresh[q] \in {0, refresh[q]}
                           /\ leftRefresh[q] = refresh[q] \/ leftAccess[q] = 0,
           owner.print # 0 =>
              /\ leftCode[owner.from] = 0 /\ owner.from \notin cut
              /\ \A q \in Pair : Standing(q) /\ pair[q].from = owner.from
                                 => leftAccess[q] = 0 /\ leftRefresh[q] = 0,
           \A h \in Handler : handler'[h] \in {handler[h], Idle}
    PROVE  Linked'
<1> USE DEF TypeOK
<1>0. PICK p \in Pair :
         /\ pair[p] = None
         /\ pair' = [pair EXCEPT ![p] = owner]
         /\ access' = [Unexpired(leftAccess) EXCEPT ![p] = now + AccessTTL]
         /\ refresh' = [Unexpired(leftRefresh) EXCEPT ![p] = now + RefreshTTL]
  BY Drawn DEF Issues
<1>1. p \in Pair /\ pair[p] = None
  BY <1>0
<1>2. /\ pair' = [pair EXCEPT ![p] = owner]
      /\ pending' = Unexpired(pending) /\ code' = Unexpired(leftCode)
      /\ access' = [Unexpired(leftAccess) EXCEPT ![p] = now + AccessTTL]
      /\ refresh' = [Unexpired(leftRefresh) EXCEPT ![p] = now + RefreshTTL]
  BY <1>0 DEF Issues
<1>3. \A q \in Pair : pair'[q] = IF q = p THEN owner ELSE pair[q]
  BY <1>1, <1>2
<1>4. \A r \in Request : /\ pending'[r] \in {0, pending[r]}
                         /\ code'[r] \in {0, leftCode[r]}
  BY <1>2 DEF Unexpired
<1>5. \A q \in Pair : q # p => /\ access'[q] = IF leftAccess[q] > now THEN leftAccess[q] ELSE 0
                               /\ refresh'[q] = IF leftRefresh[q] > now THEN leftRefresh[q] ELSE 0
  BY <1>1, <1>2 DEF Unexpired, Live
<1>6. access'[p] = now + AccessTTL /\ refresh'[p] = now + RefreshTTL
  BY <1>1, <1>2 DEF Unexpired
<1>7. owner # None /\ owner.from \in Request
  BY AccessAssumption DEF PairRecord
<1>8. \A q \in Pair : q # p /\ Standing(q)' =>
            Standing(q) /\ ~(leftAccess[q] = 0 /\ leftRefresh[q] = 0)
  BY <1>3, <1>5 DEF Standing
<1>9. \A q \in Pair : Standing(q) => pair[q].from \in Request
  BY DEF Standing, Linked, Owned, PairRecord
<1>16. Standing(p)' => /\ owner.from \notin cut
                       /\ \A q \in Pair : q # p /\ Standing(q)' => pair[q].from # owner.from
  <2>1. Standing(p)' => owner.print # 0
    BY <1>1, <1>3 DEF Standing
  <2> QED BY <2>1, <1>8
<1>10. Asked'
  BY <1>4 DEF Linked, Asked
<1>11. InHand'
  <2>1. \A h \in Handler : handler[h].at = "refresh" => handler[h].pair \in Pair
    BY LoadedTypes
  <2>2. Idle.at = "idle"
    BY DEF Idle
  <2> QED BY <1>3, <1>7, <2>1, <2>2 DEF Linked, InHand
<1>12. Owned'
  BY <1>3, <1>5, <1>7 DEF Linked, Owned
<1>13. Renewable'
  <2> SUFFICES ASSUME NEW q \in Pair, access'[q] > now'
               PROVE  refresh'[q] >= access'[q]
    BY DEF Renewable, Live
  <2>1. CASE q = p
    BY <1>6, <2>1, AccessAssumption
  <2>2. CASE q # p
    <3>1. access[q] > now /\ access'[q] = access[q] /\ leftAccess[q] = access[q]
      BY <1>5, <2>2
    <3>2. refresh[q] >= access[q] /\ leftRefresh[q] = refresh[q]
      BY <3>1 DEF Linked, Renewable, Live
    <3> QED BY <1>5, <2>2, <3>1, <3>2
  <2> QED BY <2>1, <2>2
<1>14. Single'
  <2>1. \A q \in Pair : q # p /\ Standing(q)' /\ Standing(p)' => pair'[q].from # pair'[p].from
    BY <1>1, <1>3, <1>16
  <2>2. \A a, b \in Pair : Standing(a)' /\ Standing(b)' /\ pair'[a].from = pair'[b].from => a = b
    BY <1>3, <1>8, <2>1 DEF Linked, Single
  <2>3. \A q \in Pair : Standing(q)' => code'[pair'[q].from] = 0
    <3> SUFFICES ASSUME NEW q \in Pair, Standing(q)'
                 PROVE  code'[pair'[q].from] = 0
      OBVIOUS
    <3>1. CASE q = p
      BY <1>3, <1>4, <1>7, <3>1 DEF Standing
    <3>2. CASE q # p
      BY <1>3, <1>4, <1>8, <1>9, <3>2 DEF Linked, Single
    <3> QED BY <3>1, <3>2
  <2> QED BY <2>2, <2>3 DEF Single
<1>15. Severed'
  <2> SUFFICES ASSUME NEW r \in cut
               PROVE  pending'[r] = 0 /\ code'[r] = 0 /\ \A q \in Pair : Standing(q)' => pair'[q].from # r
    BY DEF Severed
  <2>1. /\ r \in Request /\ pending[r] = 0 /\ code[r] = 0
        /\ \A q \in Pair : Standing(q) => pair[q].from # r
    BY DEF Linked, Severed
  <2>2. \A q \in Pair : q # p /\ Standing(q)' => pair'[q].from # r
    BY <1>3, <1>8, <2>1
  <2>3. Standing(p)' => pair'[p].from # r
    BY <1>1, <1>3, <1>16
  <2>4. pair'[p].from = owner.from
    BY <1>1, <1>3
  <2> QED BY <1>4, <2>1, <2>2, <2>3
<1> QED BY <1>10, <1>11, <1>12, <1>13, <1>14, <1>15 DEF Linked

LEMMA ExchangesCodeKeeps ==
    ASSUME TypeOK, Linked, TypeOK', NEW h \in Handler, ExchangesCode(h)
    PROVE  Linked'
<1> USE DEF TypeOK
<1> DEFINE r == handler[h].request
           owner == [client |-> asked[r], subject |-> granted[r].user,
                     print |-> FoundPrint(r), from |-> r]
           leftCode == [code EXCEPT ![r] = 0]
<1>1. r \in Request /\ granted[r] # None /\ asked[r] # None
  BY LoadedTypes DEF ExchangesCode, Linked, InHand, Asked
<1>2. granted[r] \in Approval /\ asked[r] \in Client
  BY <1>1
<1>3. owner \in PairRecord
  BY <1>1, <1>2 DEF PairRecord, Approval, FoundPrint
<1>4. owner.print \in {0, granted[r].print}
  BY DEF FoundPrint
<1>5. /\ Issues(owner, leftCode, access, refresh)
      /\ UNCHANGED <<now, asked, granted, cut>>
  BY DEF ExchangesCode
<1>6. \A k \in Handler : handler'[k] \in {handler[k], Idle}
  BY DEF ExchangesCode
<1>7. /\ leftCode \in [Request -> Nat]
      /\ \A k \in Request : leftCode[k] \in {0, code[k]}
      /\ leftCode[r] = 0
  BY <1>1
<1>8. owner.print # 0 => /\ r \notin cut
                         /\ \A q \in Pair : Standing(q) => pair[q].from # r
  BY <1>1 DEF FoundPrint, Linked, Single, Severed
<1>9. /\ owner.from = r /\ owner.client = asked[r] /\ owner.subject = granted[r].user
  OBVIOUS
<1> HIDE DEF r, owner, leftCode
<1> QED BY <1>1, <1>3, <1>4, <1>5, <1>6, <1>7, <1>8, <1>9, IssuesKeeps

LEMMA ExchangesRefreshKeeps ==
    ASSUME TypeOK, Linked, TypeOK', NEW h \in Handler, ExchangesRefresh(h)
    PROVE  Linked'
<1> USE DEF TypeOK
<1>0. handler[h].pair \in Pair /\ pair[handler[h].pair] # None
  BY LoadedTypes DEF ExchangesRefresh, Linked, InHand
<1> PICK p \in Pair : p = handler[h].pair
  BY <1>0
<1> DEFINE owner == [pair[p] EXCEPT !.print = RotatedPrint(p)]
<1>1. p \in Pair /\ pair[p] # None
  BY <1>0
<1>2. pair[p] \in PairRecord
  BY <1>1
<1>3. owner \in PairRecord
  BY <1>1, <1>2 DEF PairRecord, RotatedPrint
<1>4. /\ owner.from = pair[p].from /\ owner.client = pair[p].client
      /\ owner.subject = pair[p].subject /\ owner.print = RotatedPrint(p)
  BY <1>2 DEF PairRecord
<1>5. /\ Issues(owner, code, Without(access, p), Without(refresh, p))
      /\ UNCHANGED <<now, asked, granted, cut>>
  BY DEF ExchangesRefresh
<1>6. \A k \in Handler : handler'[k] \in {handler[k], Idle}
  BY DEF ExchangesRefresh
<1>7. /\ Without(access, p) \in [Pair -> Nat] /\ Without(refresh, p) \in [Pair -> Nat]
      /\ \A q \in Pair : /\ Without(access, p)[q] \in {0, access[q]}
                         /\ Without(refresh, p)[q] \in {0, refresh[q]}
                         /\ Without(refresh, p)[q] = refresh[q] \/ Without(access, p)[q] = 0
      /\ refresh[p] > 0 => Without(access, p)[p] = 0 /\ Without(refresh, p)[p] = 0
  BY <1>1 DEF Without
<1>8. /\ granted[pair[p].from] # None /\ asked[pair[p].from] = pair[p].client
      /\ granted[pair[p].from].user = pair[p].subject
      /\ RotatedPrint(p) \in {0, granted[pair[p].from].print}
  BY <1>1 DEF Linked, Owned, RotatedPrint
<1>9. RotatedPrint(p) # 0 => /\ Standing(p) /\ refresh[p] > 0
                             /\ code[pair[p].from] = 0 /\ pair[p].from \notin cut
                             /\ \A q \in Pair : Standing(q) /\ pair[q].from = pair[p].from => q = p
  BY <1>1 DEF RotatedPrint, Standing, Linked, Single, Severed
<1>10. owner.print # 0 =>
         /\ code[owner.from] = 0 /\ owner.from \notin cut
         /\ \A q \in Pair : Standing(q) /\ pair[q].from = owner.from
               => Without(access, p)[q] = 0 /\ Without(refresh, p)[q] = 0
  BY <1>4, <1>7, <1>9
<1>11. code \in [Request -> Nat] /\ \A k \in Request : code[k] \in {0, code[k]}
  OBVIOUS
<1> HIDE DEF owner
<1>12. PICK new \in PairRecord, leftAccess \in [Pair -> Nat], leftRefresh \in [Pair -> Nat] :
          new = owner /\ leftAccess = Without(access, p) /\ leftRefresh = Without(refresh, p)
  BY <1>3, <1>7
<1>13. /\ Issues(new, code, leftAccess, leftRefresh)
       /\ granted[new.from] # None /\ asked[new.from] = new.client
       /\ granted[new.from].user = new.subject
       /\ new.print \in {0, granted[new.from].print}
  BY <1>4, <1>5, <1>8, <1>12
<1>14. /\ \A q \in Pair : /\ leftAccess[q] \in {0, access[q]}
                          /\ leftRefresh[q] \in {0, refresh[q]}
                          /\ leftRefresh[q] = refresh[q] \/ leftAccess[q] = 0
       /\ new.print # 0 =>
            /\ code[new.from] = 0 /\ new.from \notin cut
            /\ \A q \in Pair : Standing(q) /\ pair[q].from = new.from
                  => leftAccess[q] = 0 /\ leftRefresh[q] = 0
  BY <1>7, <1>10, <1>12
<1> QED BY <1>5, <1>6, <1>11, <1>13, <1>14, IssuesKeeps

(***************************************************************************)
(* Revoking.                                                               *)
(***************************************************************************)
LEMMA UsableStands ==
    ASSUME TypeOK, Linked, NEW p \in Pair, Usable(p)
    PROVE  /\ Standing(p) /\ pair[p] \in PairRecord
           /\ granted[pair[p].from] # None /\ asked[pair[p].from] # None
<1> USE DEF TypeOK
<1>1. access[p] > 0 \/ refresh[p] > 0
  BY DEF Usable, AccessOpens, RefreshLoads, Live
<1>2. pair[p] \in PairRecord
  BY <1>1 DEF Linked, Owned
<1>3. pair[p].subject \in User /\ pair[p].from \in Request
  BY <1>2 DEF PairRecord
<1>4. pair[p].print # 0
  BY <1>3, AccountAssumption
     DEF Usable, AccessOpens, RefreshLoads, OwnerValid, AccountTypeOK, Role, ADMIN
<1> QED BY <1>1, <1>2, <1>3, <1>4 DEF Standing, Linked, Owned, Asked

LEMMA RevokesTokenKeeps ==
    ASSUME TypeOK, Linked, TypeOK', NEW p \in Pair, RevokesToken(p)
    PROVE  Linked'
<1> USE DEF TypeOK
<1>1. /\ UNCHANGED <<now, asked, granted, pair, pending, code, handler>>
      /\ cut' = cut \union {pair[p].from}
      /\ \A q \in Pair : /\ access'[q] = IF q = p THEN 0 ELSE access[q]
                         /\ refresh'[q] = IF q = p THEN 0 ELSE refresh[q]
  BY DEF RevokesToken
<1>2. /\ Standing(p) /\ pair[p].from \in Request
      /\ granted[pair[p].from] # None /\ asked[pair[p].from] # None
  BY UsableStands DEF RevokesToken, PairRecord
<1>3. /\ Owned' /\ Renewable' /\ Single'
      /\ \A q \in Pair : Standing(q)' => Standing(q)
  BY <1>1, Dropping
<1>4. Asked' /\ InHand'
  BY <1>1, <1>2 DEF Linked, Asked, InHand
<1>5. \A q \in Pair : Standing(q)' => pair[q].from # pair[p].from
  BY <1>1, <1>2, <1>3 DEF Linked, Single, Standing
<1>6. pending[pair[p].from] = 0 /\ code[pair[p].from] = 0
  BY <1>2 DEF Linked, Asked, Single
<1>7. Severed'
  BY <1>1, <1>3, <1>5, <1>6 DEF Linked, Severed
<1> QED BY <1>3, <1>4, <1>7 DEF Linked

LEMMA RevokesClientKeeps ==
    ASSUME TypeOK, Linked, TypeOK', NEW c \in Client, RevokesClient(c)
    PROVE  Linked'
<1> USE DEF TypeOK
<1>1. /\ UNCHANGED <<now, asked, granted, pair, handler>>
      /\ cut' = cut \union OfClient(c)
      /\ \A r \in Request : /\ pending'[r] = IF r \in OfClient(c) THEN 0 ELSE pending[r]
                            /\ code'[r] = IF r \in OfClient(c) THEN 0 ELSE code[r]
      /\ \A q \in Pair : /\ access'[q] = IF q \in PairsOf(c) THEN 0 ELSE access[q]
                         /\ refresh'[q] = IF q \in PairsOf(c) THEN 0 ELSE refresh[q]
  BY DEF RevokesClient, Forgotten
<1>2. /\ Owned' /\ Renewable' /\ Single'
      /\ \A q \in Pair : Standing(q)' => Standing(q)
  BY <1>1, Dropping
<1>3. OfClient(c) \subseteq {r \in Request : asked[r] # None}
  BY AccessAssumption DEF OfClient
<1>4. Asked' /\ InHand'
  BY <1>1, <1>3 DEF Linked, Asked, InHand
<1>5. \A q \in Pair : Standing(q)' => pair[q].from \notin OfClient(c)
  BY <1>1, <1>2 DEF Standing, OfClient, PairsOf, Linked, Owned
<1>6. Severed'
  BY <1>1, <1>2, <1>3, <1>5 DEF Linked, Severed
<1> QED BY <1>2, <1>4, <1>6 DEF Linked

(***************************************************************************)
(* The invariant.                                                          *)
(***************************************************************************)
LEMMA NextKeeps == IInv /\ [Next]_vars => IInv'
<1> SUFFICES ASSUME IInv, [Next]_vars PROVE IInv'
  OBVIOUS
<1>1. TypeOK /\ AdminRemains /\ Linked
  BY DEF IInv
<1>2. CASE AccountStep /\ UNCHANGED oauthVars
  <2>1. AccountTypeOK' /\ AdminRemains'
    BY <1>1, <1>2, AccountTypes, AdminStep DEF TypeOK
  <2>2. TypeOK'
    BY <1>1, <1>2, <2>1 DEF TypeOK, oauthVars
  <2>3. Linked'
    BY <1>1, <1>2
       DEF oauthVars, Linked, Asked, InHand, Owned, Renewable, Single, Severed, Standing, Live
  <2> QED BY <2>1, <2>2, <2>3 DEF IInv
<1>3. CASE OAuthStep /\ UNCHANGED accountVars
  <2>1. TypeOK'
    BY <1>1, <1>3, OAuthTypes
  <2>2. AdminRemains'
    BY <1>1, <1>3 DEF AdminRemains, accountVars
  <2>3. Linked'
    BY <1>1, <1>3, <2>1, RegistersKeeps, AuthorizesKeeps, DeniesKeeps, ApprovesKeeps, LookupsKeep,
       LoadsKeep, ExchangesCodeKeeps, ExchangesRefreshKeeps, RevokesTokenKeeps,
       RevokesClientKeeps, TickKeeps DEF OAuthStep
  <2> QED BY <2>1, <2>2, <2>3 DEF IInv
<1>4. CASE UNCHANGED vars
  <2>1. TypeOK' /\ AdminRemains'
    BY <1>1, <1>4 DEF TypeOK, AccountTypeOK, AdminRemains, vars, oauthVars
  <2>2. Linked'
    BY <1>1, <1>4
       DEF vars, oauthVars, Linked, Asked, InHand, Owned, Renewable, Single, Severed, Standing, Live
  <2> QED BY <2>1, <2>2 DEF IInv
<1> QED BY <1>2, <1>3, <1>4 DEF Next

THEOREM Invariance == Spec => []IInv
BY InitIInv, NextKeeps, PTL DEF Spec

(* Every reachable state is well typed.                                    *)
THEOREM TypeCorrect == Spec => []TypeOK
<1>1. IInv => TypeOK
  BY DEF IInv
<1> QED BY <1>1, Invariance, PTL

(* An administrator is left, whatever administrators do to each other      *)
(* (users/store.py:85-100).                                                *)
THEOREM AdminRemainsCorrect == Spec => []AdminRemains
<1>1. IInv => AdminRemains
  BY DEF IInv
<1> QED BY <1>1, Invariance, PTL

(* One approval opens one access at a time (claude/oauth.py:218-237).      *)
THEOREM OnePairCorrect == Spec => []OnePair
<1>1. IInv => OnePair
  BY UsableStands DEF IInv, OnePair, Linked, Single
<1> QED BY <1>1, Invariance, PTL

(* What was revoked opens nothing any more (claude/oauth.py:246-279).      *)
THEOREM RevokedIsGoneCorrect == Spec => []RevokedIsGone
<1>1. IInv => RevokedIsGone
  BY UsableStands DEF IInv, RevokedIsGone, Linked, Severed
<1> QED BY <1>1, Invariance, PTL

(* A token that opens is an administrator's, with the password of the      *)
(* approval (claude/oauth.py:69).                                          *)
THEOREM DiesWithAccountCorrect == Spec => []DiesWithAccount
<1>1. IInv => DiesWithAccount
  <2> SUFFICES ASSUME IInv, NEW p \in Pair, Usable(p)
               PROVE  /\ granted[pair[p].from] # None
                      /\ role[granted[pair[p].from].user] = ADMIN
                      /\ hash[granted[pair[p].from].user] = granted[pair[p].from].print
    BY DEF DiesWithAccount
  <2>1. /\ Standing(p) /\ pair[p] \in PairRecord /\ granted[pair[p].from] # None
    BY UsableStands DEF IInv
  <2>2. OwnerValid(p)
    BY DEF Usable, AccessOpens, RefreshLoads
  <2>3. pair[p] # None
    BY <2>1, AccessAssumption
  <2>4. /\ granted[pair[p].from].user = pair[p].subject
        /\ pair[p].print = granted[pair[p].from].print
    BY <2>1, <2>3 DEF IInv, Linked, Owned, Standing
  <2> QED BY <2>1, <2>2, <2>4 DEF OwnerValid
<1> QED BY <1>1, Invariance, PTL

(* Whoever can use the tools is on the page that revokes                   *)
(* (claude/oauth.py:257-272).                                              *)
THEOREM GrantsShownCorrect == Spec => []GrantsShown
<1>1. IInv => GrantsShown
  <2> SUFFICES ASSUME IInv, NEW p \in Pair, AccessOpens(p)
               PROVE  Listed(pair[p].client)
    BY DEF GrantsShown
  <2>1. access[p] > now /\ refresh[p] >= access[p]
    BY DEF AccessOpens, Live, IInv, Linked, Renewable
  <2>2. Live(refresh, p)
    BY <2>1 DEF Live, IInv, TypeOK
  <2> QED BY <2>2 DEF AccessOpens, Listed
<1> QED BY <1>1, Invariance, PTL

(* Registrations forget no client that can renew its access                *)
(* (claude/oauth.py:121-128).                                              *)
THEOREM HoldersKeptCorrect == Spec => HoldersKept
<1> DEFINE Kept == \A c \in Client : Listed(c) /\ ~(since'[c] > 0) => OfClient(c) \subseteq cut'
<1>1. IInv /\ [Next]_vars => [Kept]_vars
  <2> SUFFICES ASSUME IInv, Next, NEW c \in Client, Listed(c), ~(since'[c] > 0)
               PROVE  OfClient(c) \subseteq cut'
    OBVIOUS
  <2>1. since[c] > 0 /\ Holder(c) /\ since \in [Client -> Nat]
    BY DEF Listed, clients, Holder, IInv, TypeOK
  <2>2. since' # since
    BY <2>1
  <2>3. CASE Registers
    <3> DEFINE new == CHOOSE k \in Client : k \notin drawn
               issued == [since EXCEPT ![new] = now]
    <3>1. PICK gone \in SUBSET {k \in Client : issued[k] > 0 /\ ~Holder(k)} :
              since' = [k \in Client |-> IF k \in gone THEN 0 ELSE issued[k]]
      BY <2>3 DEF Registers
    <3>2. issued[c] > 0
      BY <2>1 DEF IInv, TypeOK
    <3> QED BY <2>1, <3>1, <3>2
  <2>4. CASE \E k \in Client : RevokesClient(k)
    <3>1. PICK k \in Client : RevokesClient(k)
      BY <2>4
    <3>2. k = c
      BY <2>1, <3>1 DEF RevokesClient
    <3> QED BY <3>1, <3>2 DEF RevokesClient
  <2> QED BY <2>2, <2>3, <2>4
          DEF Next, OAuthStep, oauthVars, Authorizes, Denies, Approves, LookupsExpired, LoadsCode,
              LoadsRefresh, Loads, ExchangesCode, ExchangesRefresh, RevokesToken, Tick
<1>2. Spec => [][Kept]_vars
  BY <1>1, Invariance, PTL DEF Spec
<1> QED BY <1>2 DEF HoldersKept

(***************************************************************************)
(* The consents stored, counted.                                           *)
(***************************************************************************)
Stored == {r \in Request : pending[r] > 0}

Bounded == IsFiniteSet(Stored) /\ Cardinality(Stored) <= MaxPending

LEMMA FewerStored ==
    ASSUME Bounded, Stored' \subseteq Stored
    PROVE  Bounded'
<1>1. IsFiniteSet(Stored') /\ Cardinality(Stored') <= Cardinality(Stored)
  BY FS_Subset DEF Bounded
<1>2. Cardinality(Stored') \in Nat /\ Cardinality(Stored) \in Nat
  BY <1>1, FS_CardinalityType DEF Bounded
<1> QED BY <1>1, <1>2, AccessAssumption DEF Bounded

LEMMA AuthorizesBounded ==
    ASSUME TypeOK, Bounded, NEW c \in Client, Authorizes(c)
    PROVE  Bounded'
<1>1. PICK gone \in SUBSET Waiting, r \in Request :
         /\ Cardinality(gone) = IF PendingSurplus > 0 THEN PendingSurplus ELSE 0
         /\ pending' = [k \in Request |-> CASE k = r -> now + PendingTTL
                                            [] k \in Waiting \ gone -> pending[k]
                                            [] OTHER -> 0]
  BY Drawn DEF Authorizes, Oldest
<1>2. Waiting \subseteq Stored
  BY DEF Waiting, Stored, Live, TypeOK
<1>3. IsFiniteSet(Waiting) /\ Cardinality(Waiting) <= Cardinality(Stored)
  BY <1>2, FS_Subset DEF Bounded
<1>4. /\ IsFiniteSet(Waiting \ gone)
      /\ Cardinality(Waiting \ gone) = Cardinality(Waiting) - Cardinality(gone)
  <2>1. Waiting \intersect gone = gone
    OBVIOUS
  <2> QED BY <1>3, <2>1, FS_Difference
<1>5. Stored' \subseteq (Waiting \ gone) \union {r}
  BY <1>1 DEF Stored
<1>6. /\ IsFiniteSet((Waiting \ gone) \union {r})
      /\ Cardinality((Waiting \ gone) \union {r}) <= Cardinality(Waiting \ gone) + 1
  <2>1. Cardinality(Waiting \ gone) \in Nat
    BY <1>4, FS_CardinalityType
  <2>2. ASSUME NEW S, IsFiniteSet(S), Cardinality(S) \in Nat
        PROVE  /\ IsFiniteSet(S \union {r})
               /\ Cardinality(S \union {r}) <= Cardinality(S) + 1
    <3>1. Cardinality(S \union {r}) = IF r \in S THEN Cardinality(S) ELSE Cardinality(S) + 1
      BY <2>2, FS_AddElement
    <3> QED BY <2>2, <3>1, FS_AddElement
  <2> QED BY <1>4, <2>1, <2>2
<1>7. /\ IsFiniteSet(Stored')
      /\ Cardinality(Stored') <= Cardinality((Waiting \ gone) \union {r})
  BY <1>5, <1>6, FS_Subset
<1>8. /\ Cardinality(Stored') \in Nat /\ Cardinality(Waiting) \in Nat
      /\ Cardinality(Stored) \in Nat /\ Cardinality((Waiting \ gone) \union {r}) \in Nat
  BY <1>3, <1>6, <1>7, FS_CardinalityType DEF Bounded
<1>9. Cardinality(Waiting \ gone) <= MaxPending - 1
  BY <1>1, <1>3, <1>4, <1>8, AccessAssumption DEF PendingSurplus, Bounded
<1>10. Cardinality(Waiting \ gone) \in Nat
  BY <1>4, FS_CardinalityType
<1>11. Cardinality(Stored') <= MaxPending
  BY <1>6, <1>7, <1>8, <1>9, <1>10, AccessAssumption
<1> QED BY <1>7, <1>11 DEF Bounded

(* The consent endpoint never stores more than MAX_PENDING consents        *)
(* (claude/oauth.py:158-167).                                              *)
THEOREM PendingBoundedCorrect == Spec => []PendingBounded
<1>1. Init => Bounded
  <2> SUFFICES ASSUME Init PROVE Bounded
    OBVIOUS
  <2>1. Stored = {}
    BY DEF Init, Stored
  <2> QED BY <2>1, FS_EmptySet, AccessAssumption DEF Bounded
<1>2. IInv /\ Bounded /\ [Next]_vars => Bounded'
  <2> SUFFICES ASSUME IInv, Bounded, [Next]_vars PROVE Bounded'
    OBVIOUS
  <2>1. TypeOK
    BY DEF IInv
  <2>2. CASE \E c \in Client : Authorizes(c)
    BY <2>1, <2>2, AuthorizesBounded
  <2>3. CASE pending' = Unexpired(pending)
    <3>1. Stored' \subseteq Stored
      BY <2>1, <2>3 DEF Stored, Unexpired, TypeOK
    <3> QED BY <3>1, FewerStored
  <2>4. CASE \A r \in Request : pending'[r] \in {0, pending[r]}
    <3>1. Stored' \subseteq Stored
      BY <2>1, <2>4 DEF Stored, TypeOK
    <3> QED BY <3>1, FewerStored
  <2>5. CASE pending' = pending
    BY <2>4, <2>5
  <2>6. CASE OAuthStep
    <3>1. CASE Registers
      BY <2>3, <3>1 DEF Registers
    <3>2. CASE \E h \in Handler : ExchangesCode(h) \/ ExchangesRefresh(h)
      BY <2>3, <3>2 DEF ExchangesCode, ExchangesRefresh, Issues
    <3>3. CASE \E c \in Client : RevokesClient(c)
      BY <2>1, <2>4, <3>3 DEF RevokesClient, Forgotten, TypeOK
    <3>4. CASE \E r \in Request : Denies(r) \/ \E u \in User : Approves(r, u)
      BY <2>1, <2>4, <3>4 DEF Denies, Approves, TypeOK
    <3>5. CASE LookupsExpired
      BY <2>1, <2>4, <3>5 DEF LookupsExpired, Expires, TypeOK
    <3> QED BY <2>2, <2>5, <2>6, <3>1, <3>2, <3>3, <3>4, <3>5
            DEF OAuthStep, LoadsCode, LoadsRefresh, Loads, RevokesToken, Tick
  <2> QED BY <2>5, <2>6 DEF Next, vars, oauthVars
<1>3. Bounded => PendingBounded
  BY DEF Bounded, PendingBounded, Stored
<1> QED BY <1>1, <1>2, <1>3, Invariance, PTL DEF Spec
=============================================================================
