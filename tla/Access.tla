------------------------------- MODULE Access -------------------------------
(***************************************************************************)
(* Claude's access to TorrSearch: the OAuth server of claude/oauth.py and  *)
(* its consent page (web/claude_routes.py), over the accounts whose rank   *)
(* and password decide whether what it issued still opens anything.        *)
(*                                                                         *)
(* A client registers, asks for a consent (a Request), an administrator    *)
(* approves it, the code goes back to the client and is exchanged for a    *)
(* Pair: an access token and the refresh token that renews it.  A consent  *)
(* gives one code and the two tokens of a pair are issued together, so the *)
(* request and the pair name them.  What a stored document says of its     *)
(* owner never changes: asked, granted and pair hold it.  What is stored   *)
(* is told by the document's expires_at, 0 when there is no document.      *)
(*                                                                         *)
(* The MCP SDK (external) answers /token by two calls of the provider,     *)
(* load_... then exchange_...: each is atomic and anything may run between *)
(* the two, the same token presented twice included.                       *)
(***************************************************************************)
EXTENDS Accounts

CONSTANTS Client, Request, Pair,        \* identifiers, drawn once each
          Handler,                      \* /token requests answered at once
          MaxPending,                   \* MAX_PENDING
          MaxIdleClients,               \* MAX_IDLE_CLIENTS
          PendingTTL, CodeTTL, AccessTTL, RefreshTTL,
          Asker,                        \* clients that go on to ask: a bound
          Horizon                       \* bounds the clock

Approval == [user : User, print : Nat]
PairRecord == [client : Client, subject : User, print : Nat, from : Request]

ASSUME AccessAssumption ==
    /\ None \notin Client \union Approval \union PairRecord
    /\ MaxPending \in Nat \ {0}
    /\ MaxIdleClients \in Nat
    /\ Asker \subseteq Client
    /\ {PendingTTL, CodeTTL, AccessTTL, RefreshTTL} \subseteq Nat \ {0}
    /\ AccessTTL <= RefreshTTL
    /\ Horizon \in Nat \ {0}

VARIABLES now,
          drawn,        \* client ids given so far
          since,        \* client_id_issued_at of a registered client, or 0
          asked,        \* asked[r]: the client that asked for consent r, or None
          granted,      \* granted[r]: who approved it, and their fingerprint
          pair,         \* pair[p]: what the two tokens of p say of their owner
          pending, code, access, refresh,       \* expires_at, or 0
          handler,      \* what each /token request has loaded
          cut           \* consents revoked so far (history)

oauthVars == <<now, drawn, since, asked, granted, pair, pending, code, access, refresh,
               handler, cut>>
vars == <<role, hash, salts, oauthVars>>

Idle == [at |-> "idle"]
Loaded == [at : {"code"}, request : Request] \union [at : {"refresh"}, pair : Pair]

TypeOK == /\ AccountTypeOK
          /\ now \in 1..Horizon
          /\ drawn \subseteq Client
          /\ since \in [Client -> Nat]
          /\ asked \in [Request -> Client \union {None}]
          /\ granted \in [Request -> Approval \union {None}]
          /\ pair \in [Pair -> PairRecord \union {None}]
          /\ pending \in [Request -> Nat] /\ code \in [Request -> Nat]
          /\ access \in [Pair -> Nat] /\ refresh \in [Pair -> Nat]
          /\ handler \in [Handler -> Loaded \union {Idle}]
          /\ cut \subseteq Request

Init == /\ AccountInit
        /\ now = 1
        /\ drawn = {}
        /\ since = [c \in Client |-> 0]
        /\ asked = [r \in Request |-> None]
        /\ granted = [r \in Request |-> None]
        /\ pair = [p \in Pair |-> None]
        /\ pending = [r \in Request |-> 0] /\ code = [r \in Request |-> 0]
        /\ access = [p \in Pair |-> 0] /\ refresh = [p \in Pair |-> 0]
        /\ handler = [h \in Handler |-> Idle]
        /\ cut = {}

(***************************************************************************)
(* What is stored, and what still counts of it.                            *)
(***************************************************************************)
Live(doc, k) == doc[k] > now

(* What _purge_expired leaves of one kind of documents.                    *)
Unexpired(doc) == [k \in DOMAIN doc |-> IF Live(doc, k) THEN doc[k] ELSE 0]

PurgeExpired == /\ code' = Unexpired(code)
                /\ access' = Unexpired(access)
                /\ refresh' = Unexpired(refresh)

clients == {c \in Client : since[c] > 0}

(* Mutant: the fingerprint is looked for and not compared. *)
BugOwnerValid(p) == role[pair[p].subject] = ADMIN /\ pair[p].print > 0

(* The owner is still an administrator with the password of the approval;  *)
(* an empty fingerprint (0) is no account's.                               *)
OwnerValid(p) == role[pair[p].subject] = ADMIN /\ hash[pair[p].subject] = pair[p].print

(* load_access_token and load_refresh_token find something (the SDK has     *)
(* found the client before it asks for the latter).                        *)
AccessOpens(p) == Live(access, p) /\ OwnerValid(p) /\ pair[p].client \in clients
RefreshLoads(p) == Live(refresh, p) /\ OwnerValid(p) /\ pair[p].client \in clients
Usable(p) == AccessOpens(p) \/ RefreshLoads(p)

(* Mutant: a client counts as found before its owner is looked at. *)
BugListed(c) ==
    LET held == {p \in Pair : Live(refresh, p) /\ pair[p].client = c}
    IN  c \in clients /\ held # {} /\ \A p \in held : OwnerValid(p)

(* The accesses the settings page lists, for an administrator to revoke.   *)
Listed(c) == c \in clients /\ \E p \in Pair : Live(refresh, p) /\ pair[p].client = c /\ OwnerValid(p)

(* The n first of S by date; between equal dates random identifiers decide.*)
Oldest(T, S, n, date) == /\ T \subseteq S
                         /\ Cardinality(T) = IF n > 0 THEN n ELSE 0
                         /\ \A t \in T, s \in S \ T : date[t] <= date[s]

(***************************************************************************)
(* Clients and consents.                                                   *)
(***************************************************************************)
(* Mutant: a client holds its access while its access token lasts. *)
BugHolder(c) == \E p \in Pair : Live(access, p) /\ pair[p].client = c

(* Clients that hold no refresh token, after the purge.                    *)
Holder(c) == \E p \in Pair : Live(refresh, p) /\ pair[p].client = c

Registers ==
    LET c == CHOOSE c \in Client : c \notin drawn
        issued == [since EXCEPT ![c] = now]
        idle == {k \in Client : issued[k] > 0 /\ ~Holder(k)}
    IN  /\ drawn # Client
        /\ drawn' = drawn \union {c}
        /\ \E gone \in SUBSET idle :
              /\ Oldest(gone, idle, Cardinality(idle) - MaxIdleClients, issued)
              /\ since' = [k \in Client |-> IF k \in gone THEN 0 ELSE issued[k]]
        /\ pending' = Unexpired(pending)
        /\ PurgeExpired
        /\ UNCHANGED <<now, asked, granted, pair, handler, cut>>

Waiting == {r \in Request : Live(pending, r)}

(* How many of the oldest give way, to leave room for a new one.           *)
PendingSurplus == Cardinality(Waiting) - MaxPending + 1

Authorizes(c) ==
    LET r == CHOOSE r \in Request : asked[r] = None
    IN  /\ c \in clients \intersect Asker
        /\ \E unused \in Request : asked[unused] = None
        /\ asked' = [asked EXCEPT ![r] = c]
        /\ \E gone \in SUBSET Waiting :
              /\ Oldest(gone, Waiting, PendingSurplus, pending)
              /\ pending' = [k \in Request |-> CASE k = r -> now + PendingTTL
                                                 [] k \in Waiting \ gone -> pending[k]
                                                 [] OTHER -> 0]
        /\ PurgeExpired
        /\ UNCHANGED <<now, drawn, since, granted, pair, handler, cut>>

(* The consent page: u logs in there and accepts.                          *)
Approves(r, u) ==
    /\ Live(pending, r)
    /\ role[u] = ADMIN
    /\ pending' = [pending EXCEPT ![r] = 0]
    /\ granted' = [granted EXCEPT ![r] = [user |-> u, print |-> hash[u]]]
    /\ code' = [code EXCEPT ![r] = now + CodeTTL]
    /\ UNCHANGED <<now, drawn, since, asked, pair, access, refresh, handler, cut>>

Denies(r) ==
    /\ Live(pending, r)
    /\ pending' = [pending EXCEPT ![r] = 0]
    /\ UNCHANGED <<now, drawn, since, asked, granted, pair, code, access, refresh, handler, cut>>

(* A lookup that finds a document expired deletes it (_live).              *)
Expires(doc, k) == doc[k] > 0 /\ ~Live(doc, k) /\ doc' = [doc EXCEPT ![k] = 0]

LookupsExpired ==
    /\ \/ \E r \in Request : Expires(pending, r) /\ UNCHANGED <<code, access, refresh>>
       \/ \E r \in Request : Expires(code, r) /\ UNCHANGED <<pending, access, refresh>>
       \/ \E p \in Pair : Expires(access, p) /\ UNCHANGED <<pending, code, refresh>>
       \/ \E p \in Pair : Expires(refresh, p) /\ UNCHANGED <<pending, code, access>>
    /\ UNCHANGED <<now, drawn, since, asked, granted, pair, handler, cut>>

(***************************************************************************)
(* Codes and tokens.                                                       *)
(***************************************************************************)
(* _issue, once leftCode, leftAccess and leftRefresh are what the exchange *)
(* has left in the store: it purges them, then stores a new pair.          *)
Issues(owner, leftCode, leftAccess, leftRefresh) ==
    LET p == CHOOSE p \in Pair : pair[p] = None
    IN  /\ \E unused \in Pair : pair[unused] = None
        /\ pair' = [pair EXCEPT ![p] = owner]
        /\ pending' = Unexpired(pending)
        /\ code' = Unexpired(leftCode)
        /\ access' = [Unexpired(leftAccess) EXCEPT ![p] = now + AccessTTL]
        /\ refresh' = [Unexpired(leftRefresh) EXCEPT ![p] = now + RefreshTTL]

(* A /token request is read; Pair bounds the model here too.               *)
Loads(h, what) ==
    /\ handler[h] = Idle
    /\ \E unused \in Pair : pair[unused] = None
    /\ handler' = [handler EXCEPT ![h] = what]
    /\ UNCHANGED <<now, drawn, since, asked, granted, pair, pending, code, access, refresh, cut>>

LoadsCode(h, r) ==
    /\ Live(code, r)
    /\ asked[r] \in clients
    /\ Loads(h, [at |-> "code", request |-> r])

(* Mutant: the fingerprint is kept from the loaded code. *)
BugFoundPrint(r) == granted[r].print

(* A code is used once: a document that is gone has no fingerprint to give.*)
FoundPrint(r) == IF code[r] > 0 THEN granted[r].print ELSE 0

ExchangesCode(h) ==
    LET r == handler[h].request
    IN  /\ handler[h].at = "code"
        /\ Issues([client |-> asked[r], subject |-> granted[r].user, print |-> FoundPrint(r),
                   from |-> r],
                  [code EXCEPT ![r] = 0], access, refresh)
        /\ handler' = [handler EXCEPT ![h] = Idle]
        /\ UNCHANGED <<now, drawn, since, asked, granted, cut>>

LoadsRefresh(h, p) == RefreshLoads(p) /\ Loads(h, [at |-> "refresh", pair |-> p])

(* Rotation: the refresh token's document names the access token that goes *)
(* with it; without it, nothing goes and no fingerprint is found.          *)
Without(doc, p) == IF refresh[p] > 0 THEN [doc EXCEPT ![p] = 0] ELSE doc

(* Mutant: the fingerprint is kept from the loaded refresh token. *)
BugRotatedPrint(p) == pair[p].print

RotatedPrint(p) == IF refresh[p] > 0 THEN pair[p].print ELSE 0

ExchangesRefresh(h) ==
    LET p == handler[h].pair
    IN  /\ handler[h].at = "refresh"
        /\ Issues([pair[p] EXCEPT !.print = RotatedPrint(p)],
                  code, Without(access, p), Without(refresh, p))
        /\ handler' = [handler EXCEPT ![h] = Idle]
        /\ UNCHANGED <<now, drawn, since, asked, granted, cut>>

(* /revoke, of either token: the other one goes too.                       *)
RevokesToken(p) ==
    /\ Usable(p)
    /\ access' = [access EXCEPT ![p] = 0]
    /\ refresh' = [refresh EXCEPT ![p] = 0]
    /\ cut' = cut \union {pair[p].from}
    /\ UNCHANGED <<now, drawn, since, asked, granted, pair, pending, code, handler>>

(* An administrator cuts a client off from the settings page.              *)
OfClient(c) == {r \in Request : asked[r] = c}
PairsOf(c) == {p \in Pair : pair[p] # None /\ pair[p].client = c}
Forgotten(doc, S) == [k \in DOMAIN doc |-> IF k \in S THEN 0 ELSE doc[k]]

RevokesClient(c) ==
    /\ c \in drawn
    /\ since' = [since EXCEPT ![c] = 0]
    /\ pending' = Forgotten(pending, OfClient(c))
    /\ code' = Forgotten(code, OfClient(c))
    /\ access' = Forgotten(access, PairsOf(c))
    /\ refresh' = Forgotten(refresh, PairsOf(c))
    /\ cut' = cut \union OfClient(c)
    /\ UNCHANGED <<now, drawn, asked, granted, pair, handler>>

Tick == /\ now < Horizon
        /\ now' = now + 1
        /\ UNCHANGED <<drawn, since, asked, granted, pair, pending, code, access, refresh,
                       handler, cut>>

OAuthStep == \/ Registers
             \/ \E c \in Client : Authorizes(c) \/ RevokesClient(c)
             \/ \E r \in Request : Denies(r) \/ \E u \in User : Approves(r, u)
             \/ LookupsExpired
             \/ \E h \in Handler, r \in Request : LoadsCode(h, r)
             \/ \E h \in Handler, p \in Pair : LoadsRefresh(h, p)
             \/ \E h \in Handler : ExchangesCode(h) \/ ExchangesRefresh(h)
             \/ \E p \in Pair : RevokesToken(p)
             \/ Tick

Next == \/ AccountStep /\ UNCHANGED oauthVars
        \/ OAuthStep /\ UNCHANGED accountVars

Spec == Init /\ [][Next]_vars

(***************************************************************************)
(* Properties.                                                             *)
(***************************************************************************)

(* One approval opens one access at a time, however often its code or its  *)
(* refresh token is presented and in whatever order /token requests run    *)
(* (claude/oauth.py:218-237).                                              *)
OnePair == \A p, q \in Pair : Usable(p) /\ Usable(q) /\ pair[p].from = pair[q].from => p = q

(* What was revoked, from Claude or from the settings page, opens nothing  *)
(* any more, a /token request under way included (claude/oauth.py:246-279).*)
RevokedIsGone == \A p \in Pair : Usable(p) => pair[p].from \notin cut

(* A token that opens was approved by an account that is an administrator  *)
(* with the password it had then, through every rotation (oauth.py:69).    *)
DiesWithAccount ==
    \A p \in Pair : Usable(p) =>
        LET approval == granted[pair[p].from]
        IN  approval # None /\ role[approval.user] = ADMIN /\ hash[approval.user] = approval.print

(* Every client whose access token opens the tools is on the settings page *)
(* with its revoke button (oauth.py:257-272 reads refresh tokens only).    *)
GrantsShown == \A p \in Pair : AccessOpens(p) => Listed(pair[p].client)

(* The public consent endpoint never stores more than MAX_PENDING consents *)
(* (oauth.py:158-167).                                                     *)
PendingBounded == Cardinality({r \in Request : pending[r] > 0}) <= MaxPending

(* Registrations, which anyone may make, never forget a client that could  *)
(* still renew its access: only a revocation does (oauth.py:121-128).      *)
HoldersKept ==
    [][\A c \in Client : Listed(c) /\ ~(since'[c] > 0) => OfClient(c) \subseteq cut']_vars
=============================================================================
