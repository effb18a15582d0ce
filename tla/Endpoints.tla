--------------------------- MODULE Endpoints ---------------------------
(***************************************************************************)
(* The endpoints themselves (webhook/http.go over webhook/postgres.go):    *)
(* a merchant registers them, points them elsewhere, rotates their         *)
(* secrets and removes them; a delivery is signed under their secrets and   *)
(* sent to an address their URL leads to (destination.go, sender.go).       *)
(* What is sent, when and how often is Webhooks's.                          *)
(*                                                                         *)
(* A request is a row of statements, each a step, and so is a delivery.     *)
(* The operator writes allowances and swaps the key secrets are sealed      *)
(* under, which is a restart.  A name is answered by whoever owns it, with  *)
(* other addresses each time it is asked.  Descriptions and lists of events *)
(* are left out.                                                            *)
(***************************************************************************)
EXTENDS Naturals, FiniteSets

CONSTANTS Requests,      \* the connections merchants ask on
          Endpoints,     \* the endpoints there can be
          Accounts,
          URLs, Shaped,  \* what a body says for one; those that have its shape
          Addresses,
          Leads,         \* the answers a resolver may give for a URL, each a set of addresses
          Carries,       \* the IPv4 addresses an address may be delivered to
          Inside,        \* the addresses of the deployment
          MaxEndpoints,  \* endpoints an account may hold
          Grace,         \* how long a replaced secret stays in force
          Lost,          \* the answers that may not arrive: "register", "rotate"
          Nobody, Nothing,
          Horizon, MaxSecrets, MaxKeys, MaxAsks   \* bounds of a run

ASSUME EndpointAssumptions ==
    /\ Shaped \subseteq URLs /\ Inside \subseteq Addresses
    /\ Leads \in [URLs -> SUBSET SUBSET Addresses]
    /\ Carries \in [Addresses -> SUBSET Addresses]
    /\ IsFiniteSet(Endpoints)
    /\ Nobody \notin Accounts \cup Requests /\ Nothing \notin URLs
    /\ {MaxEndpoints, Grace, MaxSecrets, MaxKeys} \subseteq Nat \ {0}
    /\ {Horizon, MaxAsks} \subseteq Nat
    /\ Lost \subseteq {"register", "rotate"}

VARIABLES now,     \* the clock
          key,     \* the key secrets are sealed under
          row,     \* webhook_endpoints
          lock,    \* the request that holds an account's row
          request, \* what a request has read so far
          asks,    \* requests there have been
          send,    \* the delivery a worker has in hand
          shown,   \* the last secret of an endpoint that was answered: to whom, which, when
          held     \* the secret the endpoint's receiver verifies with

rows == <<now, key, row>>
vars == <<rows, lock, request, asks, send, shown, held>>

\* The secrets of an endpoint are numbered; 0 is none.  key_id is the key the row
\* says its secret is sealed under, sealed the one it is.
Row == [account : Accounts \cup {Nobody}, live : BOOLEAN, enabled : BOOLEAN,
        url : URLs \cup {Nothing}, allowed : SUBSET Addresses,
        secret : 0 .. MaxSecrets, sealed : 0 .. MaxKeys, key_id : 0 .. MaxKeys,
        previous : 0 .. MaxSecrets, before : 0 .. MaxKeys, until : Nat]
NoRow == [account |-> Nobody, live |-> FALSE, enabled |-> FALSE, url |-> Nothing, allowed |-> {},
          secret |-> 0, sealed |-> 0, key_id |-> 0, previous |-> 0, before |-> 0, until |-> 0]

\* What a request is about to do.
Steps == {"idle", "lock", "count", "insert", "get", "allowed", "check", "update"}
Request == [at : Steps, account : Accounts \cup {Nobody}, endpoint : Endpoints \cup {Nobody},
            url : URLs \cup {Nothing}, allowed : SUBSET Addresses]
Idle == [at |-> "idle", account |-> Nobody, endpoint |-> Nobody, url |-> Nothing, allowed |-> {}]

\* A delivery: read, signed, checked, and what it connected to.
Send == [at : {"idle", "due", "signed", "checked", "sent"}, endpoint : Endpoints \cup {Nobody},
         url : URLs \cup {Nothing}, allowed : SUBSET Addresses,
         secrets : SUBSET (1 .. MaxSecrets), to : SUBSET Addresses]
NoSend == [at |-> "idle", endpoint |-> Nobody, url |-> Nothing, allowed |-> {},
           secrets |-> {}, to |-> {}]

Shown == [to : Accounts \cup {Nobody}, secret : 0 .. MaxSecrets, at : Nat]

TypeOK ==
    /\ now \in 0 .. Horizon /\ key \in 1 .. MaxKeys /\ asks \in 0 .. MaxAsks
    /\ row \in [Endpoints -> Row]
    /\ lock \in [Accounts -> Requests \cup {Nobody}]
    /\ request \in [Requests -> Request]
    /\ send \in Send
    /\ shown \in [Endpoints -> Shown]
    /\ held \in [Endpoints -> 0 .. MaxSecrets]

Init ==
    /\ now = 0 /\ key = 1 /\ asks = 0
    /\ row = [e \in Endpoints |-> NoRow]
    /\ lock = [a \in Accounts |-> Nobody]
    /\ request = [r \in Requests |-> Idle]
    /\ send = NoSend
    /\ shown = [e \in Endpoints |-> [to |-> Nobody, secret |-> 0, at |-> 0]]
    /\ held = [e \in Endpoints |-> 0]

(***************************************************************************)
(* Where a URL leads.                                                      *)
(***************************************************************************)
\* Every address answered is outside or allowed, and so is every one it carries.
Passes(addrs, allowed) ==
    /\ addrs # {}
    /\ \A x \in addrs : ({x} \cup Carries[x]) \cap Inside \subseteq allowed

(***************************************************************************)
(* A merchant's requests.                                                  *)
(***************************************************************************)
At(r, step) == request[r].at = step
Goes(r, to) == request' = [request EXCEPT ![r] = to]
Moves(r, step) == Goes(r, [request[r] EXCEPT !.at = step])
Ends(r) == Goes(r, Idle)

\* A live endpoint of the account: what a statement given both is about.
Ours(a, e) == row[e].account = a /\ row[e].live

\* The endpoints an account's list shows, and its registrations count.
Live(a) == {e \in Endpoints : Ours(a, e)}

Asks == /\ asks < MaxAsks /\ asks' = asks + 1

\* A registration is checked with nothing allowed.  One that is refused goes no further.
Register(r, a, u) ==
    /\ At(r, "idle") /\ Asks /\ u \in Shaped
    /\ \E addrs \in Leads[u] : Passes(addrs, {})
    /\ Goes(r, [Idle EXCEPT !.at = "lock", !.account = a, !.url = u])
    /\ UNCHANGED <<rows, lock, send, shown, held>>

\* The account's row is held while its endpoints are counted.
FreeAlways(a) == TRUE  \* a mutant: nothing is held
Free(a) == lock[a] = Nobody
LockAccount(r) ==
    LET a == request[r].account IN
    /\ At(r, "lock") /\ Free(a)
    /\ lock' = [lock EXCEPT ![a] = r]
    /\ Moves(r, "count")
    /\ UNCHANGED <<rows, asks, send, shown, held>>

Unlock(r) == lock' = [a \in Accounts |-> IF lock[a] = r THEN Nobody ELSE lock[a]]

Count(r) ==
    /\ At(r, "count")
    /\ IF Cardinality(Live(request[r].account)) >= MaxEndpoints
       THEN Ends(r) /\ Unlock(r)
       ELSE Moves(r, "insert") /\ UNCHANGED lock
    /\ UNCHANGED <<rows, asks, send, shown, held>>

\* A secret is answered to the request that made it, or the answer is lost.
Answer(what, a, e, n) ==
    \/ shown' = [shown EXCEPT ![e] = [to |-> a, secret |-> n, at |-> now]]
    \/ what \in Lost /\ UNCHANGED shown

Insert(r) ==
    LET q == request[r] IN
    /\ At(r, "insert")
    /\ \E e \in Endpoints :
          /\ row[e] = NoRow
          /\ row' = [row EXCEPT ![e] = [NoRow EXCEPT !.account = q.account, !.live = TRUE,
                         !.enabled = TRUE, !.url = q.url, !.secret = 1, !.sealed = key,
                         !.key_id = key]]
          /\ Answer("register", q.account, e, 1)
    /\ Ends(r) /\ Unlock(r)
    /\ UNCHANGED <<now, key, asks, send, held>>

\* A URL is changed only once the endpoint is known to be the account's: it is read,
\* then what it is allowed, then the URL is checked, and then it is written.
Point(r, a, e, u) ==
    /\ At(r, "idle") /\ Asks
    /\ Goes(r, [Idle EXCEPT !.at = "get", !.account = a, !.endpoint = e, !.url = u])
    /\ UNCHANGED <<rows, lock, send, shown, held>>

Get(r) ==
    /\ At(r, "get")
    /\ IF Ours(request[r].account, request[r].endpoint) THEN Moves(r, "allowed") ELSE Ends(r)
    /\ UNCHANGED <<rows, lock, asks, send, shown, held>>

\* By id alone.
Allowed(r) ==
    /\ At(r, "allowed")
    /\ Goes(r, [request[r] EXCEPT !.at = "check", !.allowed = row[request[r].endpoint].allowed])
    /\ UNCHANGED <<rows, lock, asks, send, shown, held>>

Check(r) ==
    LET q == request[r] IN
    /\ At(r, "check")
    /\ IF q.url \in Shaped /\ \E addrs \in Leads[q.url] : Passes(addrs, q.allowed)
       THEN Moves(r, "update") \/ Ends(r)
       ELSE Ends(r)
    /\ UNCHANGED <<rows, lock, asks, send, shown, held>>

\* What the update finds: the endpoint may have been deleted since it was read.
Finds(a, e) == Ours(a, e)

Update(r) ==
    LET q == request[r] IN
    /\ At(r, "update")
    /\ row' = IF Finds(q.account, q.endpoint)
              THEN [row EXCEPT ![q.endpoint].url = q.url] ELSE row
    /\ Ends(r)
    /\ UNCHANGED <<now, key, lock, asks, send, shown, held>>

\* A request that names no URL is one statement, as the others are.
Enable(a, e, on) ==
    /\ Asks /\ Ours(a, e)
    /\ row[e].enabled # on
    /\ row' = [row EXCEPT ![e].enabled = on]
    /\ UNCHANGED <<now, key, lock, request, send, shown, held>>

Delete(a, e) ==
    /\ Asks /\ Ours(a, e)
    /\ row' = [row EXCEPT ![e].live = FALSE, ![e].enabled = FALSE]
    /\ UNCHANGED <<now, key, lock, request, send, shown, held>>

\* The secret that was in force is kept beside the new one.
RotatedTwice(s) ==  \* a mutant: one that is still within its grace is not replaced
    [s EXCEPT !.previous = IF now < s.until THEN s.previous ELSE s.secret,
              !.before = IF now < s.until THEN s.before ELSE s.sealed,
              !.until = now + Grace,
              !.secret = s.secret + 1, !.sealed = key, !.key_id = key]
Rotated(s) ==
    [s EXCEPT !.previous = s.secret, !.before = s.sealed, !.until = now + Grace,
              !.secret = s.secret + 1, !.sealed = key, !.key_id = key]

\* A merchant asks for another secret once its receiver has the last it was shown.
Rotate(a, e) ==
    /\ Asks /\ Ours(a, e) /\ row[e].secret < MaxSecrets
    /\ shown[e].to = a => held[e] = shown[e].secret
    /\ row' = [row EXCEPT ![e] = Rotated(row[e])]
    /\ Answer("rotate", a, e, row'[e].secret)
    /\ UNCHANGED <<now, key, lock, request, send, held>>

\* A call to the database fails, and what was begun is rolled back.
Fail(r) == /\ ~At(r, "idle") /\ Ends(r) /\ Unlock(r)
           /\ UNCHANGED <<rows, asks, send, shown, held>>

Step(r) == \/ LockAccount(r) \/ Count(r) \/ Insert(r)
           \/ Get(r) \/ Allowed(r) \/ Check(r) \/ Update(r) \/ Fail(r)

Merchant ==
    \E a \in Accounts :
        \/ \E r \in Requests, u \in URLs :
              Register(r, a, u) \/ \E e \in Endpoints : Point(r, a, e, u)
        \/ \E e \in Endpoints : \/ Rotate(a, e) \/ Delete(a, e)
                                \/ \E on \in BOOLEAN : Enable(a, e, on)

\* The receiver is given the secret its merchant was shown.
Install(e) == /\ held[e] # shown[e].secret
              /\ held' = [held EXCEPT ![e] = shown[e].secret]
              /\ UNCHANGED <<rows, lock, request, asks, send, shown>>

(***************************************************************************)
(* A delivery.                                                             *)
(***************************************************************************)
\* What is due is read with its URL and what its endpoint is allowed.
Due(e) ==
    /\ send.at \in {"idle", "sent"}
    /\ row[e].live /\ row[e].enabled
    /\ send' = [NoSend EXCEPT !.at = "due", !.endpoint = e, !.url = row[e].url,
                              !.allowed = row[e].allowed]
    /\ UNCHANGED <<rows, lock, request, asks, shown, held>>

\* What a delivery is signed under: the secret in force, and the one before it while it
\* is within its grace and can be opened; of a deleted endpoint too.
SecretsOf(s) ==
    IF s.sealed # key THEN {}
    ELSE {s.secret} \cup IF s.previous # 0 /\ now < s.until /\ s.before = key
                         THEN {s.previous} ELSE {}

\* With nothing to sign under, the attempt is over.
Sign ==
    LET secrets == SecretsOf(row[send.endpoint]) IN
    /\ send.at = "due"
    /\ send' = IF secrets = {} THEN NoSend
               ELSE [send EXCEPT !.at = "signed", !.secrets = secrets]
    /\ UNCHANGED <<rows, lock, request, asks, shown, held>>

\* The name is asked, and the answer kept for the connection.
CheckSend ==
    /\ send.at = "signed"
    /\ \E addrs \in Leads[send.url] :
          send' = IF Passes(addrs, send.allowed)
                  THEN [send EXCEPT !.at = "checked", !.to = addrs] ELSE NoSend
    /\ UNCHANGED <<rows, lock, request, asks, shown, held>>

\* The addresses a connection may go to.
DialsAfresh == UNION Leads[send.url]  \* a mutant: the name is asked again
Dials == send.to

Dial ==
    /\ send.at = "checked"
    /\ \/ \E x \in Dials : send' = [send EXCEPT !.at = "sent", !.to = {x}]
       \/ send' = NoSend
    /\ UNCHANGED <<rows, lock, request, asks, shown, held>>

(***************************************************************************)
(* The operator, and time.                                                 *)
(***************************************************************************)
Allow(e) == /\ row[e].live
            /\ \E some \in SUBSET Inside :
                  some # row[e].allowed /\ row' = [row EXCEPT ![e].allowed = some]
            /\ UNCHANGED <<now, key, lock, request, asks, send, shown, held>>

\* A process started under another key.  What the one before it had in hand is gone.
SwapKey == /\ key < MaxKeys /\ key' = key + 1
           /\ request' = [r \in Requests |-> Idle]
           /\ lock' = [a \in Accounts |-> Nobody]
           /\ send' = NoSend
           /\ UNCHANGED <<now, row, asks, shown, held>>

Tick == /\ now < Horizon /\ now' = now + 1
        /\ UNCHANGED <<key, row, lock, request, asks, send, shown, held>>

Next == \/ Merchant
        \/ \E r \in Requests : Step(r)
        \/ \E e \in Endpoints : Install(e) \/ Due(e) \/ Allow(e)
        \/ Sign \/ CheckSend \/ Dial \/ SwapKey \/ Tick

Spec == Init /\ [][Next]_vars

(***************************************************************************)
(* What holds.                                                             *)
(***************************************************************************)
\* An account never holds more endpoints than it may, however many registrations are
\* under way at once (postgres.go:65-68).
NoMoreThanMax == \A a \in Accounts : Cardinality(Live(a)) <= MaxEndpoints

\* A receiver that is given each secret as it is shown verifies every delivery signed,
\* from the moment a rotation is answered until the grace of the secret it had is over
\* (endpoint.go:56-59, docs/webhooks.md:118), unless the operator has swapped the key
\* one of the two was sealed under.
ReceiverVerifies ==
    \A e \in Endpoints :
        /\ row[e].live /\ held[e] # 0 /\ row[e].sealed = key
        /\ held[e] = row[e].secret \/ row[e].before = key
        => held[e] \in SecretsOf(row[e]) \/ now >= shown[e].at + Grace

\* An endpoint cannot be signed for exactly when its row says its secret was sealed under
\* another key, which is what the operator is told of: a rotation puts it right, whatever
\* the secret it replaced was sealed under (postgres.go:252-255, doctor.go:123-128).
SealedIsTold ==
    \A e \in Endpoints : row[e].account # Nobody =>
        (SecretsOf(row[e]) = {} <=> row[e].key_id # key)

\* Signing and telling go by the same two columns of a row.
SecretsHold == ReceiverVerifies /\ SealedIsTold

\* A delivery connects to an address outside the deployment, or to one the operator had
\* allowed its endpoint when it was read, whatever the name is answered with by then
\* (destination.go:24-27).
ConnectsWhereChecked ==
    send.at = "sent" => Passes(send.to, send.allowed)

\* However many registrations are under way, rows are rows and an account has no more of
\* them than it may (Register).
CountHolds == TypeOK /\ NoMoreThanMax

=======================================================================
