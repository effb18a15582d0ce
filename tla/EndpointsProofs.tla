------------------------ MODULE EndpointsProofs ------------------------
(***************************************************************************)
(* What holds of endpoints, their secrets and what a delivery connects to, *)
(* for any requests, accounts, names, addresses and bounds.                *)
(***************************************************************************)
EXTENDS Endpoints, FiniteSetTheorems, TLAPS

USE EndpointAssumptions

\* A row of an endpoint has what a delivery needs.
RowSo(s) ==
    /\ s.live => s.account # Nobody
    /\ s.account # Nobody => s.url \in URLs /\ s.secret # 0 /\ s.key_id = s.sealed
RowsSo(t) == \A e \in Endpoints : RowSo(t[e])

\* The endpoints of account a in table t, no more than it may have or, where one is about
\* to be inserted, fewer.
LiveIn(t, a) == {e \in Endpoints : t[e].account = a /\ t[e].live}
Few(t) == \A a \in Accounts : Cardinality(LiveIn(t, a)) <= MaxEndpoints
Roomy(q, t) == q.at = "insert" => Cardinality(LiveIn(t, q.account)) < MaxEndpoints

\* A request r that has got as far as q, where l says who holds accounts.
RequestSo(r, q, l) ==
    /\ q.at # "idle" => q.account \in Accounts /\ q.url \in URLs
    /\ q.at \in {"get", "allowed", "check", "update"} => q.endpoint \in Endpoints
    /\ q.at \in {"count", "insert"} => l[q.account] = r
Asked == \A r \in Requests : RequestSo(r, request[r], lock) /\ Roomy(request[r], row)

\* A delivery in hand is of an endpoint there was, and to an address that was checked.
SendSo(s, t) ==
    /\ s.at = "due" => s.endpoint \in Endpoints /\ t[s.endpoint].account # Nobody
    /\ s.at \in {"due", "signed", "checked"} => s.url \in URLs
    /\ s.at \in {"checked", "sent"} => Passes(s.to, s.allowed)

\* The inductive invariant.
Inv == TypeOK /\ RowsSo(row) /\ Asked /\ SendSo(send, row) /\ Few(row)

(***************************************************************************)
(* Counting.                                                               *)
(***************************************************************************)
LEMMA LiveIsFinite ==
    ASSUME NEW t, NEW a
    PROVE  IsFiniteSet(LiveIn(t, a)) /\ Cardinality(LiveIn(t, a)) \in Nat
  <1>1. LiveIn(t, a) \subseteq Endpoints
    BY DEF LiveIn
  <1>2. IsFiniteSet(LiveIn(t, a))
    BY <1>1, FS_Subset
  <1>. QED BY <1>2, FS_CardinalityType

\* Table u has the rows of t with their accounts, and no more of them live.
Shrinks(t, u) == \A e \in Endpoints : u[e].account = t[e].account /\ (u[e].live => t[e].live)

LEMMA LiveShrinks ==
    ASSUME NEW t, NEW u, Shrinks(t, u), NEW a
    PROVE  Cardinality(LiveIn(u, a)) <= Cardinality(LiveIn(t, a))
  <1>1. LiveIn(u, a) \subseteq LiveIn(t, a)
    BY DEF Shrinks, LiveIn
  <1>. QED BY <1>1, LiveIsFinite, FS_Subset

LEMMA StillFew ==
    ASSUME NEW t, NEW u, Shrinks(t, u)
    PROVE  /\ Few(t) => Few(u)
           /\ \A q : Roomy(q, t) => Roomy(q, u)
  <1>1. \A a : /\ Cardinality(LiveIn(u, a)) <= Cardinality(LiveIn(t, a))
               /\ Cardinality(LiveIn(u, a)) \in Nat /\ Cardinality(LiveIn(t, a)) \in Nat
    BY LiveShrinks, LiveIsFinite
  <1>2. ASSUME Few(t), NEW a \in Accounts
        PROVE  Cardinality(LiveIn(u, a)) <= MaxEndpoints
    <2>1. Cardinality(LiveIn(t, a)) <= MaxEndpoints
      BY <1>2 DEF Few
    <2>. QED BY <1>1, <2>1
  <1>3. ASSUME NEW q, Roomy(q, t), q.at = "insert"
        PROVE  Cardinality(LiveIn(u, q.account)) < MaxEndpoints
    <2>1. Cardinality(LiveIn(t, q.account)) < MaxEndpoints
      BY <1>3 DEF Roomy
    <2>. QED BY <1>1, <2>1
  <1>. QED BY <1>2, <1>3 DEF Few, Roomy

LEMMA LiveIs == \A a : Live(a) = LiveIn(row, a)
  BY DEF Live, Ours, LiveIn

(***************************************************************************)
(* Steps of a kind.                                                        *)
(***************************************************************************)
LEMMA InitInv == Init => Inv
  <1>. SUFFICES ASSUME Init PROVE Inv
    OBVIOUS
  <1>0. /\ 0 \in 0 .. MaxSecrets /\ 0 \in 0 .. MaxKeys /\ 0 \in 0 .. Horizon
        /\ 0 \in 0 .. MaxAsks /\ 1 \in 1 .. MaxKeys /\ 0 \in Nat
    OBVIOUS
  <1>1. NoRow \in Row /\ Idle \in Request /\ NoSend \in Send
    <2>1. NoRow \in Row
      BY <1>0 DEF NoRow, Row
    <2>2. Idle \in Request
      BY DEF Idle, Request, Steps
    <2>3. NoSend \in Send
      BY DEF NoSend, Send
    <2>. QED BY <2>1, <2>2, <2>3
  <1>2. [to |-> Nobody, secret |-> 0, at |-> 0] \in Shown
    BY <1>0 DEF Shown
  <1>3. TypeOK
    BY <1>0, <1>1, <1>2 DEF Init, TypeOK
  <1>4. RowsSo(row)
    BY DEF Init, RowsSo, RowSo, NoRow
  <1>5. Asked
    BY DEF Init, Asked, RequestSo, Roomy, Idle
  <1>6. SendSo(send, row)
    BY DEF Init, SendSo, NoSend
  <1>7. Few(row)
    <2>1. \A a : LiveIn(row, a) = {}
      BY DEF Init, LiveIn, NoRow
    <2>2. Cardinality({}) = 0 /\ 0 <= MaxEndpoints
      BY FS_EmptySet
    <2>. QED BY <2>1, <2>2 DEF Few
  <1>. QED BY <1>3, <1>4, <1>5, <1>6, <1>7 DEF Inv

\* What requests have got to, when r has got to q and others' accounts stay theirs.
LEMMA StillAsked ==
    ASSUME Asked, request \in [Requests -> Request], NEW r \in Requests, NEW q,
           request' = [request EXCEPT ![r] = q],
           RequestSo(r, q, lock'), Roomy(q, row'),
           \A a \in Accounts : lock[a] \notin {Nobody, r} => lock'[a] = lock[a],
           \A o \in Requests \ {r} : Roomy(request[o], row) => Roomy(request[o], row')
    PROVE  Asked'
  <1>. SUFFICES ASSUME NEW o \in Requests
                PROVE  RequestSo(o, request'[o], lock') /\ Roomy(request'[o], row')
    BY DEF Asked
  <1>1. CASE o = r
    BY <1>1
  <1>2. CASE o # r
    <2>1. RequestSo(o, request[o], lock) /\ Roomy(request[o], row) /\ request'[o] = request[o]
      BY <1>2 DEF Asked
    <2>2. RequestSo(o, request[o], lock')
      BY <1>2, <2>1 DEF RequestSo
    <2>. QED BY <1>2, <2>1, <2>2
  <1>. QED BY <1>1, <1>2

\* A request goes on to q; it may have written a row that adds none.
LEMMA RequestStep ==
    ASSUME Inv, NEW r \in Requests, NEW q \in Request,
           request' = [request EXCEPT ![r] = q],
           RequestSo(r, q, lock'), Roomy(q, row),
           lock' \in [Accounts -> Requests \cup {Nobody}],
           \A a \in Accounts : lock[a] \notin {Nobody, r} => lock'[a] = lock[a],
           row' \in [Endpoints -> Row], RowsSo(row'), Shrinks(row, row'),
           UNCHANGED <<now, key, send, shown, held>>, asks' \in 0 .. MaxAsks
    PROVE  Inv'
  <1>1. TypeOK'
    BY DEF Inv, TypeOK
  <1>2. Asked'
    BY StillAsked, StillFew DEF Inv, TypeOK
  <1>3. SendSo(send', row')
    BY DEF Inv, SendSo, Shrinks
  <1>4. Few(row')
    BY StillFew DEF Inv
  <1>. QED BY <1>1, <1>2, <1>3, <1>4 DEF Inv

\* A step that is not of a request, and adds no row.
LEMMA RowStep ==
    ASSUME Inv, TypeOK', RowsSo(row'), Shrinks(row, row'),
           UNCHANGED <<lock, request>>, SendSo(send', row)
    PROVE  Inv'
  <1>1. Asked'
    BY StillFew DEF Inv, Asked
  <1>2. SendSo(send', row')
    BY DEF SendSo, Shrinks
  <1>3. Few(row')
    BY StillFew DEF Inv
  <1>. QED BY <1>1, <1>2, <1>3 DEF Inv

\* One row is changed, and not whose it is or what it is signed under.
LEMMA RowWritten ==
    ASSUME Inv, NEW e \in Endpoints, NEW s \in Row, RowSo(s),
           s.account = row[e].account, s.live => row[e].live,
           row' = [row EXCEPT ![e] = s]
    PROVE  row' \in [Endpoints -> Row] /\ RowsSo(row') /\ Shrinks(row, row')
  BY DEF Inv, TypeOK, RowsSo, Shrinks

LEMMA RowStays ==
    ASSUME Inv, UNCHANGED row
    PROVE  row' \in [Endpoints -> Row] /\ RowsSo(row') /\ Shrinks(row, row')
  BY DEF Inv, TypeOK, Shrinks

\* A request that ends lets go of what it held.
LEMMA Unlocks ==
    ASSUME Inv, NEW r \in Requests, Unlock(r)
    PROVE  /\ lock' \in [Accounts -> Requests \cup {Nobody}]
           /\ \A a \in Accounts : lock[a] \notin {Nobody, r} => lock'[a] = lock[a]
  BY DEF Inv, TypeOK, Unlock

LEMMA LockStays ==
    ASSUME Inv, UNCHANGED lock, NEW r
    PROVE  /\ lock' \in [Accounts -> Requests \cup {Nobody}]
           /\ \A a \in Accounts : lock[a] \notin {Nobody, r} => lock'[a] = lock[a]
  BY DEF Inv, TypeOK

LEMMA IdleSo ==
    ASSUME NEW r, NEW l, NEW t
    PROVE  Idle \in Request /\ RequestSo(r, Idle, l) /\ Roomy(Idle, t)
  BY DEF Idle, Request, Steps, RequestSo, Roomy

LEMMA AsksCounts ==
    ASSUME Inv, Asks \/ UNCHANGED asks
    PROVE  asks' \in 0 .. MaxAsks
  BY DEF Inv, TypeOK, Asks

(***************************************************************************)
(* The steps of requests.                                                  *)
(***************************************************************************)
LEMMA RegisterStep ==
    ASSUME Inv, NEW r \in Requests, NEW a \in Accounts, NEW u \in URLs, Register(r, a, u)
    PROVE  Inv'
  <1>. DEFINE q == [Idle EXCEPT !.at = "lock", !.account = a, !.url = u]
  <1>1. q \in Request /\ RequestSo(r, q, lock') /\ Roomy(q, row)
    BY DEF Idle, Request, Steps, RequestSo, Roomy
  <1>2. request' = [request EXCEPT ![r] = q]
    BY DEF Register, Goes
  <1>3. UNCHANGED <<now, key, row, lock, send, shown, held>> /\ asks' \in 0 .. MaxAsks
    BY AsksCounts DEF Register, rows
  <1>. HIDE DEF q
  <1>. QED BY <1>1, <1>2, <1>3, RowStays, LockStays, RequestStep

LEMMA PointStep ==
    ASSUME Inv, NEW r \in Requests, NEW a \in Accounts, NEW e \in Endpoints, NEW u \in URLs,
           Point(r, a, e, u)
    PROVE  Inv'
  <1>. DEFINE q == [Idle EXCEPT !.at = "get", !.account = a, !.endpoint = e, !.url = u]
  <1>1. q \in Request /\ RequestSo(r, q, lock') /\ Roomy(q, row)
    BY DEF Idle, Request, Steps, RequestSo, Roomy
  <1>2. request' = [request EXCEPT ![r] = q]
    BY DEF Point, Goes
  <1>3. UNCHANGED <<now, key, row, lock, send, shown, held>> /\ asks' \in 0 .. MaxAsks
    BY AsksCounts DEF Point, rows
  <1>. HIDE DEF q
  <1>. QED BY <1>1, <1>2, <1>3, RowStays, LockStays, RequestStep

\* The request as it was, at another step.
LEMMA MovesTo ==
    ASSUME Inv, NEW r \in Requests, NEW step \in Steps, Moves(r, step)
    PROVE  \E q \in Request :
               /\ q = [request[r] EXCEPT !.at = step]
               /\ q.at = step /\ q.account = request[r].account /\ q.url = request[r].url
               /\ q.endpoint = request[r].endpoint /\ q.allowed = request[r].allowed
               /\ request' = [request EXCEPT ![r] = q]
  <1>. DEFINE q == [request[r] EXCEPT !.at = step]
  <1>1. /\ q \in Request
        /\ q.at = step /\ q.account = request[r].account /\ q.url = request[r].url
        /\ q.endpoint = request[r].endpoint /\ q.allowed = request[r].allowed
    BY DEF Inv, TypeOK, Request
  <1>2. request' = [request EXCEPT ![r] = q]
    BY DEF Moves, Goes
  <1>. QED BY <1>1, <1>2

LEMMA LockAccountStep ==
    ASSUME Inv, NEW r \in Requests, LockAccount(r)
    PROVE  Inv'
  <1>. DEFINE a == request[r].account
  <1>1. "count" \in Steps /\ Moves(r, "count")
    BY DEF Steps, LockAccount
  <1>. PICK q \in Request : /\ q.at = "count" /\ q.account = a /\ q.url = request[r].url
                            /\ request' = [request EXCEPT ![r] = q]
    BY <1>1, MovesTo
  <1>2. a \in Accounts /\ q.url \in URLs
    BY DEF Inv, Asked, RequestSo, LockAccount, At
  <1>3. lock' = [lock EXCEPT ![a] = r] /\ lock[a] = Nobody
    BY DEF LockAccount, Free
  <1>. HIDE DEF a
  <1>4. /\ lock' \in [Accounts -> Requests \cup {Nobody}] /\ lock'[a] = r
        /\ \A b \in Accounts : lock[b] \notin {Nobody, r} => lock'[b] = lock[b]
    BY <1>2, <1>3 DEF Inv, TypeOK
  <1>5. RequestSo(r, q, lock') /\ Roomy(q, row)
    BY <1>2, <1>4 DEF RequestSo, Roomy, a
  <1>6. UNCHANGED <<now, key, row, send, shown, held>> /\ asks' \in 0 .. MaxAsks
    BY AsksCounts DEF LockAccount, rows
  <1>. QED BY <1>4, <1>5, <1>6, RowStays, RequestStep

LEMMA CountStep ==
    ASSUME Inv, NEW r \in Requests, Count(r)
    PROVE  Inv'
  <1>. DEFINE a == request[r].account
  <1>1. UNCHANGED <<now, key, row, send, shown, held>> /\ asks' \in 0 .. MaxAsks
    BY AsksCounts DEF Count, rows
  <1>2. CASE Cardinality(Live(a)) >= MaxEndpoints
    <2>1. request' = [request EXCEPT ![r] = Idle] /\ Unlock(r)
      BY <1>2 DEF Count, Ends, Goes
    <2>. QED BY <1>1, <2>1, IdleSo, Unlocks, RowStays, RequestStep
  <1>3. CASE ~(Cardinality(Live(a)) >= MaxEndpoints)
    <2>1. "insert" \in Steps /\ Moves(r, "insert") /\ UNCHANGED lock
      BY <1>3 DEF Steps, Count
    <2>. PICK q \in Request : /\ q.at = "insert" /\ q.account = a /\ q.url = request[r].url
                              /\ request' = [request EXCEPT ![r] = q]
      BY <2>1, MovesTo
    <2>2. RequestSo(r, request[r], lock) /\ request[r].at = "count"
      BY DEF Inv, Asked, Count, At
    <2>3. RequestSo(r, q, lock')
      BY <2>1, <2>2 DEF RequestSo
    <2>4. Roomy(q, row)
      <3>1. Cardinality(LiveIn(row, a)) \in Nat /\ Live(a) = LiveIn(row, a)
        BY LiveIsFinite, LiveIs
      <3>2. Cardinality(LiveIn(row, a)) < MaxEndpoints
        BY <1>3, <3>1
      <3>. QED BY <3>2 DEF Roomy
    <2>. QED BY <1>1, <2>1, <2>3, <2>4, LockStays, RowStays, RequestStep
  <1>. QED BY <1>2, <1>3

\* The row of endpoint e is inserted for the account that request r holds.
LEMMA InsertStep ==
    ASSUME Inv, NEW r \in Requests, Insert(r)
    PROVE  Inv'
  <1>. DEFINE q == request[r]
              a == q.account
              s == [NoRow EXCEPT !.account = a, !.live = TRUE, !.enabled = TRUE,
                                 !.url = q.url, !.secret = 1, !.sealed = key, !.key_id = key]
  <1>. PICK e \in Endpoints : row[e] = NoRow /\ row' = [row EXCEPT ![e] = s]
                              /\ Answer("register", a, e, 1)
    BY DEF Insert
  <1>1. /\ a \in Accounts /\ q.url \in URLs /\ lock[a] = r
        /\ Cardinality(LiveIn(row, a)) < MaxEndpoints
    BY DEF Inv, Asked, RequestSo, Roomy, Insert, At
  <1>2. /\ s \in Row /\ RowSo(s) /\ s.account = a /\ s.live
    <2>1. key \in 0 .. MaxKeys /\ 0 \in 0 .. MaxKeys /\ 0 \in 0 .. MaxSecrets
          /\ 1 \in 0 .. MaxSecrets /\ 0 \in Nat
      BY DEF Inv, TypeOK
    <2>2. s \in [account : {a}, live : {TRUE}, enabled : {TRUE}, url : {q.url}, allowed : {{}},
                 secret : {1}, sealed : {key}, key_id : {key}, previous : {0}, before : {0},
                 until : {0}]
      BY DEF NoRow
    <2>. HIDE DEF s
    <2>3. s \in Row
      BY <1>1, <2>1, <2>2 DEF Row
    <2>4. /\ s.account = a /\ s.live = TRUE /\ s.url = q.url /\ s.secret = 1
          /\ s.key_id = key /\ s.sealed = key
      BY <2>2
    <2>5. a # Nobody
      BY <1>1
    <2>. HIDE DEF a, q
    <2>. QED BY <1>1, <2>3, <2>4, <2>5 DEF RowSo
  <1>. HIDE DEF s
  <1>3. row' \in [Endpoints -> Row] /\ RowsSo(row')
    BY <1>2 DEF Inv, TypeOK, RowsSo
  <1>4. ASSUME NEW b, b # a PROVE LiveIn(row', b) = LiveIn(row, b)
    BY <1>2, <1>4 DEF LiveIn, NoRow, Inv, TypeOK
  <1>5. Cardinality(LiveIn(row', a)) <= MaxEndpoints
    <2>1. LiveIn(row', a) = LiveIn(row, a) \cup {e} /\ e \notin LiveIn(row, a)
      BY <1>2 DEF LiveIn, NoRow, Inv, TypeOK
    <2>2. Cardinality(LiveIn(row', a)) = Cardinality(LiveIn(row, a)) + 1
      BY <2>1, LiveIsFinite, FS_AddElement
    <2>3. Cardinality(LiveIn(row, a)) \in Nat
      BY LiveIsFinite
    <2>. QED BY <1>1, <2>2, <2>3
  <1>6. Few(row')
    BY <1>4, <1>5 DEF Inv, Few
  <1>7. request' = [request EXCEPT ![r] = Idle] /\ Unlock(r)
        /\ UNCHANGED <<now, key, asks, send, held>>
    BY DEF Insert, Ends, Goes
  <1>8. shown' \in [Endpoints -> Shown]
    BY <1>1 DEF Answer, Inv, TypeOK, Shown
  <1>9. TypeOK'
    BY <1>3, <1>7, <1>8, IdleSo, Unlocks DEF Inv, TypeOK
  <1>10. Asked'
    <2>1. ASSUME NEW o \in Requests \ {r}, Roomy(request[o], row)
          PROVE  Roomy(request[o], row')
      <3>. DEFINE p == request[o]
      <3>1. p.at = "insert" => lock[p.account] = o
        BY DEF Inv, Asked, RequestSo
      <3>2. p.at = "insert" => p.account # a
        BY <1>1, <3>1
      <3>. HIDE DEF p
      <3>3. Roomy(p, row) => Roomy(p, row')
        BY <1>4, <3>2 DEF Roomy
      <3>. QED BY <2>1, <3>3 DEF p
    <2>. QED BY <1>7, <2>1, IdleSo, Unlocks, StillAsked DEF Inv, TypeOK
  <1>11. SendSo(send', row')
    <2>1. \A d \in Endpoints : row[d].account # Nobody => row'[d].account # Nobody
      BY <1>1, <1>2 DEF Inv, TypeOK
    <2>. QED BY <1>7, <2>1 DEF Inv, SendSo
  <1>. QED BY <1>3, <1>6, <1>9, <1>10, <1>11 DEF Inv

LEMMA GetStep ==
    ASSUME Inv, NEW r \in Requests, Get(r)
    PROVE  Inv'
  <1>1. UNCHANGED <<now, key, row, lock, send, shown, held>> /\ asks' \in 0 .. MaxAsks
    BY AsksCounts DEF Get, rows
  <1>2. CASE Ends(r)
    BY <1>1, <1>2, IdleSo, LockStays, RowStays, RequestStep DEF Ends, Goes
  <1>3. CASE Moves(r, "allowed")
    <2>1. "allowed" \in Steps
      BY DEF Steps
    <2>. PICK q \in Request :
            /\ q.at = "allowed" /\ q.account = request[r].account /\ q.url = request[r].url
            /\ q.endpoint = request[r].endpoint
            /\ request' = [request EXCEPT ![r] = q]
      BY <1>3, <2>1, MovesTo
    <2>2. RequestSo(r, q, lock') /\ Roomy(q, row)
      BY DEF Inv, Asked, RequestSo, Roomy, Get, At
    <2>. QED BY <1>1, <2>2, LockStays, RowStays, RequestStep
  <1>. QED BY <1>2, <1>3 DEF Get

LEMMA AllowedStep ==
    ASSUME Inv, NEW r \in Requests, Allowed(r)
    PROVE  Inv'
  <1>. DEFINE p == request[r]
              q == [p EXCEPT !.at = "check", !.allowed = row[p.endpoint].allowed]
  <1>1. UNCHANGED <<now, key, row, lock, send, shown, held>> /\ asks' \in 0 .. MaxAsks
    BY AsksCounts DEF Allowed, rows
  <1>2. p \in Request /\ p.endpoint \in Endpoints /\ p.account \in Accounts /\ p.url \in URLs
    BY DEF Inv, TypeOK, Asked, RequestSo, Allowed, At
  <1>3. row[p.endpoint].allowed \in SUBSET Addresses
    BY <1>2 DEF Inv, TypeOK, Row
  <1>4. q \in Request /\ RequestSo(r, q, lock') /\ Roomy(q, row)
    BY <1>2, <1>3 DEF Request, Steps, RequestSo, Roomy
  <1>5. request' = [request EXCEPT ![r] = q]
    BY DEF Allowed, Goes
  <1>. HIDE DEF q
  <1>. QED BY <1>1, <1>4, <1>5, LockStays, RowStays, RequestStep

LEMMA CheckStep ==
    ASSUME Inv, NEW r \in Requests, Check(r)
    PROVE  Inv'
  <1>1. UNCHANGED <<now, key, row, lock, send, shown, held>> /\ asks' \in 0 .. MaxAsks
    BY AsksCounts DEF Check, rows
  <1>2. CASE Ends(r)
    BY <1>1, <1>2, IdleSo, LockStays, RowStays, RequestStep DEF Ends, Goes
  <1>3. CASE Moves(r, "update")
    <2>1. "update" \in Steps
      BY DEF Steps
    <2>. PICK q \in Request :
            /\ q.at = "update" /\ q.account = request[r].account /\ q.url = request[r].url
            /\ q.endpoint = request[r].endpoint
            /\ request' = [request EXCEPT ![r] = q]
      BY <1>3, <2>1, MovesTo
    <2>2. RequestSo(r, q, lock') /\ Roomy(q, row)
      BY DEF Inv, Asked, RequestSo, Roomy, Check, At
    <2>. QED BY <1>1, <2>2, LockStays, RowStays, RequestStep
  <1>. QED BY <1>2, <1>3 DEF Check

LEMMA UpdateStep ==
    ASSUME Inv, NEW r \in Requests, Update(r)
    PROVE  Inv'
  <1>. DEFINE q == request[r]
              e == q.endpoint
              s == [row[e] EXCEPT !.url = q.url]
  <1>1. UNCHANGED <<now, key, lock, send, shown, held>> /\ asks' \in 0 .. MaxAsks
    BY AsksCounts DEF Update
  <1>2. request' = [request EXCEPT ![r] = Idle]
    BY DEF Update, Ends, Goes
  <1>3. e \in Endpoints /\ q.url \in URLs
    BY DEF Inv, Asked, RequestSo, Update, At
  <1>4. row' \in [Endpoints -> Row] /\ RowsSo(row') /\ Shrinks(row, row')
    <2>1. CASE UNCHANGED row
      BY <2>1, RowStays
    <2>2. CASE row' = [row EXCEPT ![e].url = q.url]
      <3>1. row[e] \in Row /\ RowSo(row[e])
        BY <1>3 DEF Inv, TypeOK, RowsSo
      <3>2. s \in Row /\ RowSo(s) /\ s.account = row[e].account /\ (s.live => row[e].live)
        BY <1>3, <3>1 DEF Row, RowSo
      <3>3. row' = [row EXCEPT ![e] = s]
        BY <2>2
      <3>. HIDE DEF s, e
      <3>. QED BY <1>3, <3>2, <3>3, RowWritten
    <2>. QED BY <2>1, <2>2 DEF Update
  <1>. QED BY <1>1, <1>2, <1>4, IdleSo, LockStays, RequestStep

LEMMA FailStep ==
    ASSUME Inv, NEW r \in Requests, Fail(r)
    PROVE  Inv'
  <1>1. UNCHANGED <<now, key, row, send, shown, held>> /\ asks' \in 0 .. MaxAsks
    BY AsksCounts DEF Fail, rows
  <1>. QED BY <1>1, IdleSo, Unlocks, RowStays, RequestStep DEF Fail, Ends, Goes

(***************************************************************************)
(* The other steps.                                                        *)
(***************************************************************************)
LEMMA EnableStep ==
    ASSUME Inv, NEW a \in Accounts, NEW e \in Endpoints, NEW on \in BOOLEAN, Enable(a, e, on)
    PROVE  Inv'
  <1>. DEFINE s == [row[e] EXCEPT !.enabled = on]
  <1>1. s \in Row /\ RowSo(s) /\ s.account = row[e].account /\ (s.live => row[e].live)
    BY DEF Inv, TypeOK, RowsSo, Row, RowSo
  <1>2. row' = [row EXCEPT ![e] = s]
    BY DEF Enable
  <1>. HIDE DEF s
  <1>3. row' \in [Endpoints -> Row] /\ RowsSo(row') /\ Shrinks(row, row')
    BY <1>1, <1>2, RowWritten
  <1>4. TypeOK'
    BY <1>3, AsksCounts DEF Inv, TypeOK, Enable
  <1>. QED BY <1>3, <1>4, RowStep DEF Enable, Inv

LEMMA DeleteStep ==
    ASSUME Inv, NEW a \in Accounts, NEW e \in Endpoints, Delete(a, e)
    PROVE  Inv'
  <1>. DEFINE s == [row[e] EXCEPT !.live = FALSE, !.enabled = FALSE]
  <1>0. row[e] \in Row /\ RowSo(row[e])
    BY DEF Inv, TypeOK, RowsSo
  <1>1. s \in Row /\ RowSo(s) /\ s.account = row[e].account /\ (s.live => row[e].live)
    <2>1. s \in Row
      BY <1>0 DEF Row
    <2>2. /\ s.account = row[e].account /\ s.live = FALSE /\ s.url = row[e].url
          /\ s.secret = row[e].secret /\ s.key_id = row[e].key_id /\ s.sealed = row[e].sealed
      BY <1>0 DEF Row
    <2>. HIDE DEF s
    <2>. QED BY <1>0, <2>1, <2>2 DEF RowSo
  <1>2. row' = [row EXCEPT ![e] = s]
    <2>1. row[e] \in Row /\ row \in [Endpoints -> Row]
      BY <1>0 DEF Inv, TypeOK
    <2>. QED BY <2>1 DEF Delete
  <1>. HIDE DEF s
  <1>3. row' \in [Endpoints -> Row] /\ RowsSo(row') /\ Shrinks(row, row')
    BY <1>1, <1>2, RowWritten
  <1>4. TypeOK'
    BY <1>3, AsksCounts DEF Inv, TypeOK, Delete
  <1>. QED BY <1>3, <1>4, RowStep DEF Delete, Inv

\* What a rotation makes of a row.
LEMMA RotatedRow ==
    ASSUME Inv, NEW e \in Endpoints, row[e].secret < MaxSecrets
    PROVE  LET s == Rotated(row[e])
           IN  /\ s \in Row /\ s.account = row[e].account /\ s.live = row[e].live
               /\ s.url = row[e].url /\ s.secret = row[e].secret + 1
               /\ s.previous = row[e].secret /\ s.until = now + Grace
               /\ s.sealed = key /\ s.key_id = key /\ s.before = row[e].sealed
  <1>1. row[e] \in Row /\ row[e].secret + 1 \in 0 .. MaxSecrets /\ now + Grace \in Nat
        /\ key \in 0 .. MaxKeys
    BY DEF Inv, TypeOK, Row
  <1>. QED BY <1>1 DEF Rotated, Row

LEMMA RotateStep ==
    ASSUME Inv, NEW a \in Accounts, NEW e \in Endpoints, Rotate(a, e)
    PROVE  Inv'
  <1>. DEFINE s == Rotated(row[e])
  <1>1. /\ s \in Row /\ s.account = row[e].account /\ s.live = row[e].live
        /\ s.url = row[e].url /\ s.secret = row[e].secret + 1
        /\ s.sealed = key /\ s.key_id = key
    BY RotatedRow DEF Rotate
  <1>2. row' = [row EXCEPT ![e] = s]
    BY DEF Rotate
  <1>. HIDE DEF s
  <1>3. row[e] \in Row /\ RowSo(row[e])
    BY DEF Inv, TypeOK, RowsSo
  <1>4. RowSo(s)
    BY <1>1, <1>3 DEF RowSo, Row
  <1>5. row' \in [Endpoints -> Row] /\ RowsSo(row') /\ Shrinks(row, row')
    BY <1>1, <1>2, <1>4, RowWritten
  <1>6. shown' \in [Endpoints -> Shown]
    <2>1. row'[e].secret \in 0 .. MaxSecrets /\ now \in Nat
      BY <1>5 DEF Inv, TypeOK, Row
    <2>2. Answer("rotate", a, e, row'[e].secret)
      BY DEF Rotate
    <2>. QED BY <2>1, <2>2 DEF Answer, Inv, TypeOK, Shown
  <1>7. TypeOK'
    BY <1>5, <1>6, AsksCounts DEF Inv, TypeOK, Rotate
  <1>. QED BY <1>5, <1>7, RowStep DEF Rotate, Inv

LEMMA AllowStep ==
    ASSUME Inv, NEW e \in Endpoints, Allow(e)
    PROVE  Inv'
  <1>. PICK some \in SUBSET Inside : row' = [row EXCEPT ![e].allowed = some]
    BY DEF Allow
  <1>. DEFINE s == [row[e] EXCEPT !.allowed = some]
  <1>1. s \in Row /\ RowSo(s) /\ s.account = row[e].account /\ (s.live => row[e].live)
    BY DEF Inv, TypeOK, RowsSo, Row, RowSo
  <1>2. row' = [row EXCEPT ![e] = s]
    OBVIOUS
  <1>. HIDE DEF s
  <1>3. row' \in [Endpoints -> Row] /\ RowsSo(row') /\ Shrinks(row, row')
    BY <1>1, <1>2, RowWritten
  <1>4. TypeOK'
    BY <1>3 DEF Inv, TypeOK, Allow
  <1>. QED BY <1>3, <1>4, RowStep DEF Allow, Inv

LEMMA InstallStep ==
    ASSUME Inv, NEW e \in Endpoints, Install(e)
    PROVE  Inv'
  <1>1. TypeOK'
    BY DEF Inv, TypeOK, Install, rows, Shown
  <1>. QED BY <1>1, RowStays, RowStep DEF Install, rows, Inv

LEMMA TickStep ==
    ASSUME Inv, Tick
    PROVE  Inv'
  <1>1. TypeOK'
    BY DEF Inv, TypeOK, Tick
  <1>. QED BY <1>1, RowStays, RowStep DEF Tick, Inv

\* The delivery in hand becomes s.
LEMMA SendStep ==
    ASSUME Inv, NEW s \in Send, send' = s, SendSo(s, row),
           UNCHANGED <<rows, lock, request, asks, shown, held>>
    PROVE  Inv'
  <1>1. TypeOK'
    BY DEF Inv, TypeOK, rows
  <1>. QED BY <1>1, RowStays, RowStep DEF rows, Inv

LEMMA NoSendSo == NoSend \in Send /\ SendSo(NoSend, row)
  BY DEF NoSend, Send, SendSo

LEMMA DueStep ==
    ASSUME Inv, NEW e \in Endpoints, Due(e)
    PROVE  Inv'
  <1>. DEFINE s == [NoSend EXCEPT !.at = "due", !.endpoint = e, !.url = row[e].url,
                                  !.allowed = row[e].allowed]
  <1>1. row[e] \in Row /\ RowSo(row[e]) /\ row[e].live
    BY DEF Inv, TypeOK, RowsSo, Due
  <1>2. s \in Send /\ SendSo(s, row)
    BY <1>1 DEF NoSend, Send, SendSo, Row, RowSo
  <1>3. send' = s /\ UNCHANGED <<rows, lock, request, asks, shown, held>>
    BY DEF Due
  <1>. HIDE DEF s
  <1>. QED BY <1>2, <1>3, SendStep

LEMMA SignStep ==
    ASSUME Inv, Sign
    PROVE  Inv'
  <1>. DEFINE secrets == SecretsOf(row[send.endpoint])
              s == [send EXCEPT !.at = "signed", !.secrets = secrets]
  <1>1. /\ send \in Send /\ send.at = "due" /\ send.url \in URLs
        /\ send.endpoint \in Endpoints /\ row[send.endpoint].account # Nobody
    BY DEF Inv, TypeOK, SendSo, Sign
  <1>2. row[send.endpoint] \in Row /\ RowSo(row[send.endpoint])
    BY <1>1 DEF Inv, TypeOK, RowsSo
  <1>3. secrets \in SUBSET (1 .. MaxSecrets)
    BY <1>1, <1>2 DEF SecretsOf, Row, RowSo
  <1>. HIDE DEF secrets
  <1>4. s \in Send /\ SendSo(s, row)
    BY <1>1, <1>3 DEF Send, SendSo
  <1>5. send' \in {NoSend, s} /\ UNCHANGED <<rows, lock, request, asks, shown, held>>
    BY DEF Sign, secrets
  <1>. HIDE DEF s
  <1>. QED BY <1>4, <1>5, NoSendSo, SendStep

LEMMA CheckSendStep ==
    ASSUME Inv, CheckSend
    PROVE  Inv'
  <1>. PICK addrs \in Leads[send.url] :
            send' = IF Passes(addrs, send.allowed)
                    THEN [send EXCEPT !.at = "checked", !.to = addrs] ELSE NoSend
    BY DEF CheckSend
  <1>. DEFINE s == [send EXCEPT !.at = "checked", !.to = addrs]
  <1>1. send \in Send /\ send.url \in URLs
    BY DEF Inv, TypeOK, SendSo, CheckSend
  <1>2. addrs \in SUBSET Addresses
    BY <1>1
  <1>3. s \in Send /\ (Passes(addrs, send.allowed) => SendSo(s, row))
    BY <1>1, <1>2 DEF Send, SendSo
  <1>4. UNCHANGED <<rows, lock, request, asks, shown, held>>
    BY DEF CheckSend
  <1>5. send' = NoSend \/ (send' = s /\ SendSo(s, row))
    BY <1>3
  <1>. HIDE DEF s
  <1>. QED BY <1>3, <1>4, <1>5, NoSendSo, SendStep

LEMMA DialStep ==
    ASSUME Inv, Dial
    PROVE  Inv'
  <1>1. /\ send \in Send /\ send.at = "checked" /\ Passes(send.to, send.allowed)
        /\ UNCHANGED <<rows, lock, request, asks, shown, held>>
    BY DEF Inv, TypeOK, SendSo, Dial
  <1>2. ASSUME NEW x \in send.to, send' = [send EXCEPT !.at = "sent", !.to = {x}]
        PROVE  Inv'
    <2>. DEFINE s == [send EXCEPT !.at = "sent", !.to = {x}]
    <2>1. x \in Addresses
      BY <1>1 DEF Send
    <2>2. Passes({x}, send.allowed)
      BY <1>1 DEF Passes
    <2>3. s \in Send /\ SendSo(s, row)
      BY <1>1, <2>1, <2>2 DEF Send, SendSo
    <2>. HIDE DEF s
    <2>4. send' = s
      BY <1>2 DEF s
    <2>. QED BY <1>1, <2>3, <2>4, SendStep
  <1>3. CASE send' = NoSend
    BY <1>1, <1>3, NoSendSo, SendStep
  <1>. QED BY <1>2, <1>3 DEF Dial, Dials

LEMMA SwapKeyStep ==
    ASSUME Inv, SwapKey
    PROVE  Inv'
  <1>1. TypeOK'
    BY IdleSo, NoSendSo DEF Inv, TypeOK, SwapKey
  <1>2. Asked'
    BY IdleSo DEF Asked, SwapKey
  <1>3. SendSo(send', row')
    BY NoSendSo DEF SwapKey
  <1>. QED BY <1>1, <1>2, <1>3, RowStays DEF Inv, SwapKey

LEMMA NextInv ==
    ASSUME Inv, [Next]_vars
    PROVE  Inv'
  <1>1. CASE Merchant
    BY <1>1, RegisterStep, PointStep, RotateStep, DeleteStep, EnableStep DEF Merchant
  <1>2. ASSUME NEW r \in Requests, Step(r) PROVE Inv'
    BY <1>2, LockAccountStep, CountStep, InsertStep, GetStep, AllowedStep, CheckStep,
       UpdateStep, FailStep DEF Step
  <1>3. ASSUME NEW e \in Endpoints, Install(e) \/ Due(e) \/ Allow(e) PROVE Inv'
    BY <1>3, InstallStep, DueStep, AllowStep
  <1>4. CASE Sign \/ CheckSend \/ Dial \/ SwapKey \/ Tick
    BY <1>4, SignStep, CheckSendStep, DialStep, SwapKeyStep, TickStep
  <1>5. CASE UNCHANGED vars
    <2>1. UNCHANGED <<row, lock, request, send>> /\ TypeOK'
      BY <1>5 DEF vars, rows, Inv, TypeOK
    <2>. QED BY <2>1, RowStays, RowStep DEF Inv
  <1>. QED BY <1>1, <1>2, <1>3, <1>4, <1>5 DEF Next

(***************************************************************************)
(* Secrets, where the answer to a rotation arrives.                        *)
(***************************************************************************)
\* The receiver of row s holds h, and w is what was shown of it last: nothing before a
\* secret is shown, then one of the row's two, and the older only within the grace that
\* began as the newer was shown.
SecretSo(s, w, h) ==
    /\ s.account = Nobody => w.to = Nobody
    /\ w.to \in {Nobody, s.account}
    /\ w.to = Nobody => h = 0 /\ w.secret = 0
    /\ w.to # Nobody => w.secret = s.secret
    /\ h \in {0, s.secret, s.previous}
    /\ h \notin {0, s.secret} => s.until = w.at + Grace
Told == \A e \in Endpoints : SecretSo(row[e], shown[e], held[e])

\* What of a row SecretSo is about.
SameSecrets(s, t) ==
    s.account = t.account /\ s.secret = t.secret /\ s.previous = t.previous /\ s.until = t.until

LEMMA InitTold == Init => Told
  <1>. SUFFICES ASSUME Init, NEW e \in Endpoints PROVE SecretSo(row[e], shown[e], held[e])
    BY DEF Told
  <1>1. row[e] = NoRow /\ shown[e] = [to |-> Nobody, secret |-> 0, at |-> 0] /\ held[e] = 0
    BY DEF Init
  <1>. QED BY <1>1 DEF SecretSo, NoRow

LEMMA StillTold ==
    ASSUME Told, UNCHANGED <<shown, held>>, \A e \in Endpoints : SameSecrets(row'[e], row[e])
    PROVE  Told'
  <1>. SUFFICES ASSUME NEW e \in Endpoints PROVE SecretSo(row'[e], shown'[e], held'[e])
    BY DEF Told
  <1>1. SecretSo(row[e], shown[e], held[e]) /\ SameSecrets(row'[e], row[e])
        /\ shown'[e] = shown[e] /\ held'[e] = held[e]
    BY DEF Told
  <1>. QED BY <1>1 DEF SecretSo, SameSecrets

\* A step that writes one row, and not its secrets.
LEMMA WrittenTold ==
    ASSUME Inv, Told, UNCHANGED <<shown, held>>, NEW e \in Endpoints, NEW s,
           SameSecrets(s, row[e]), row' = [row EXCEPT ![e] = s]
    PROVE  Told'
  <1>1. \A o \in Endpoints : SameSecrets(row'[o], row[o])
    BY DEF Inv, TypeOK, SameSecrets
  <1>. QED BY <1>1, StillTold

\* A step that answers a secret of e, or does not, and writes its row.
LEMMA AnsweredTold ==
    ASSUME Inv, Told, UNCHANGED held, NEW e \in Endpoints, NEW s, NEW w,
           row' = [row EXCEPT ![e] = s],
           shown' = [shown EXCEPT ![e] = w], SecretSo(s, w, held[e])
    PROVE  Told'
  <1>. SUFFICES ASSUME NEW o \in Endpoints PROVE SecretSo(row'[o], shown'[o], held'[o])
    BY DEF Told
  <1>1. SecretSo(row[o], shown[o], held[o]) /\ held'[o] = held[o]
    BY DEF Told
  <1>2. CASE o = e
    <2>1. row'[o] = s /\ shown'[o] = w
      BY <1>2 DEF Inv, TypeOK
    <2>. QED BY <1>1, <1>2, <2>1
  <1>3. CASE o # e
    <2>1. row'[o] = row[o] /\ shown'[o] = shown[o]
      BY <1>3
    <2>. QED BY <1>1, <2>1
  <1>. QED BY <1>2, <1>3

LEMMA InsertTold ==
    ASSUME Inv, Told, NEW r \in Requests, Insert(r)
    PROVE  Told'
  <1>. DEFINE q == request[r]
              a == q.account
              s == [NoRow EXCEPT !.account = a, !.live = TRUE, !.enabled = TRUE,
                                 !.url = q.url, !.secret = 1, !.sealed = key, !.key_id = key]
              w == [to |-> a, secret |-> 1, at |-> now]
  <1>. PICK e \in Endpoints : row[e] = NoRow /\ row' = [row EXCEPT ![e] = s]
                              /\ Answer("register", a, e, 1)
    BY DEF Insert
  <1>1. a # Nobody /\ UNCHANGED held
    BY DEF Inv, Asked, RequestSo, Insert, At
  <1>2. s.account = a /\ s.secret = 1 /\ w.to = a /\ w.secret = 1
    BY DEF NoRow
  <1>3. shown[e].to = Nobody /\ held[e] = 0 /\ shown[e].secret = 0
    BY DEF Told, SecretSo, NoRow
  <1>. HIDE DEF s, w, a
  <1>4. SecretSo(s, w, held[e]) /\ SecretSo(s, shown[e], held[e])
    BY <1>1, <1>2, <1>3 DEF SecretSo
  <1>5. shown' = [shown EXCEPT ![e] = w] \/ shown' = [shown EXCEPT ![e] = shown[e]]
    BY DEF Answer, Inv, TypeOK, w
  <1>. QED BY <1>1, <1>4, <1>5, AnsweredTold

\* A rotation is asked for once the receiver has what was shown, so what it replaces is
\* what the receiver holds, or the receiver holds nothing.
LEMMA RotateTold ==
    ASSUME Inv, Told, "rotate" \notin Lost, NEW a \in Accounts, NEW e \in Endpoints, Rotate(a, e)
    PROVE  Told'
  <1>. DEFINE s == Rotated(row[e])
              w == [to |-> a, secret |-> s.secret, at |-> now]
  <1>1. s.account = a /\ s.previous = row[e].secret /\ s.until = now + Grace
    BY RotatedRow DEF Rotate, Ours
  <1>2. w.to = a /\ w.secret = s.secret /\ w.at = now /\ a # Nobody
    OBVIOUS
  <1>3. row' = [row EXCEPT ![e] = s] /\ UNCHANGED held
    BY DEF Rotate
  <1>4. held[e] \in {0, row[e].secret}
    BY DEF Rotate, Ours, Told, SecretSo
  <1>5. shown' = [shown EXCEPT ![e] = w]
    <2>1. row'[e].secret = s.secret
      BY <1>3 DEF Inv, TypeOK
    <2>2. Answer("rotate", a, e, row'[e].secret)
      BY DEF Rotate
    <2>. HIDE DEF s
    <2>. QED BY <2>1, <2>2 DEF Answer
  <1>. HIDE DEF s, w
  <1>6. SecretSo(s, w, held[e])
    BY <1>1, <1>2, <1>4 DEF SecretSo
  <1>. QED BY <1>3, <1>5, <1>6, AnsweredTold

LEMMA InstallTold ==
    ASSUME Inv, Told, NEW e \in Endpoints, Install(e)
    PROVE  Told'
  <1>1. row' = row /\ shown' = shown /\ held' = [held EXCEPT ![e] = shown[e].secret]
    BY DEF Install, rows
  <1>. SUFFICES ASSUME NEW o \in Endpoints PROVE SecretSo(row[o], shown[o], held'[o])
    BY <1>1 DEF Told
  <1>2. SecretSo(row[o], shown[o], held[o])
    BY DEF Told
  <1>3. CASE o = e
    <2>1. held'[o] = shown[o].secret
      BY <1>1, <1>3 DEF Inv, TypeOK
    <2>. QED BY <1>2, <2>1 DEF SecretSo
  <1>4. CASE o # e
    <2>1. held'[o] = held[o]
      BY <1>1, <1>4
    <2>. QED BY <1>2, <2>1
  <1>. QED BY <1>3, <1>4

LEMMA UpdateTold ==
    ASSUME Inv, Told, NEW r \in Requests, Update(r)
    PROVE  Told'
  <1>. DEFINE e == request[r].endpoint
  <1>1. e \in Endpoints /\ row[e] \in Row /\ UNCHANGED <<shown, held>>
    BY DEF Inv, TypeOK, Asked, RequestSo, Update, At
  <1>2. CASE row' = row
    BY <1>1, <1>2, StillTold DEF SameSecrets
  <1>3. CASE row' = [row EXCEPT ![e].url = request[r].url]
    <2>. DEFINE s == [row[e] EXCEPT !.url = request[r].url]
    <2>1. SameSecrets(s, row[e])
      BY <1>1 DEF SameSecrets, Row
    <2>2. row' = [row EXCEPT ![e] = s]
      BY <1>3
    <2>. HIDE DEF s, e
    <2>. QED BY <1>1, <2>1, <2>2, WrittenTold
  <1>. QED BY <1>2, <1>3 DEF Update

LEMMA EnableTold ==
    ASSUME Inv, Told, NEW a \in Accounts, NEW e \in Endpoints, NEW on \in BOOLEAN, Enable(a, e, on)
    PROVE  Told'
  <1>. DEFINE s == [row[e] EXCEPT !.enabled = on]
  <1>1. SameSecrets(s, row[e])
    BY DEF SameSecrets, Row, Inv, TypeOK
  <1>2. row' = [row EXCEPT ![e] = s] /\ UNCHANGED <<shown, held>>
    BY DEF Enable
  <1>. HIDE DEF s
  <1>. QED BY <1>1, <1>2, WrittenTold

LEMMA DeleteTold ==
    ASSUME Inv, Told, NEW a \in Accounts, NEW e \in Endpoints, Delete(a, e)
    PROVE  Told'
  <1>. DEFINE s == [row[e] EXCEPT !.live = FALSE, !.enabled = FALSE]
  <1>1. SameSecrets(s, row[e])
    BY DEF SameSecrets, Row, Inv, TypeOK
  <1>2. row' = [row EXCEPT ![e] = s] /\ UNCHANGED <<shown, held>>
    <2>1. row[e] \in Row /\ row \in [Endpoints -> Row]
      BY DEF Inv, TypeOK
    <2>. QED BY <2>1 DEF Delete
  <1>. HIDE DEF s
  <1>. QED BY <1>1, <1>2, WrittenTold

LEMMA AllowTold ==
    ASSUME Inv, Told, NEW e \in Endpoints, Allow(e)
    PROVE  Told'
  <1>. PICK some \in SUBSET Inside : row' = [row EXCEPT ![e].allowed = some]
    BY DEF Allow
  <1>. DEFINE s == [row[e] EXCEPT !.allowed = some]
  <1>1. SameSecrets(s, row[e])
    BY DEF SameSecrets, Row, Inv, TypeOK
  <1>2. row' = [row EXCEPT ![e] = s] /\ UNCHANGED <<shown, held>>
    BY DEF Allow
  <1>. HIDE DEF s
  <1>. QED BY <1>1, <1>2, WrittenTold

LEMMA NextTold ==
    ASSUME Inv, Told, "rotate" \notin Lost, [Next]_vars
    PROVE  Told'
  <1>1. ASSUME UNCHANGED <<row, shown, held>> PROVE Told'
    BY <1>1, StillTold DEF SameSecrets
  <1>2. CASE Merchant
    <2>1. ASSUME NEW a \in Accounts, NEW r \in Requests, NEW u \in URLs,
                 Register(r, a, u) \/ \E e \in Endpoints : Point(r, a, e, u)
          PROVE  Told'
      BY <1>1, <2>1 DEF Register, Point, rows
    <2>. QED BY <1>2, <2>1, RotateTold, DeleteTold, EnableTold DEF Merchant
  <1>3. ASSUME NEW r \in Requests, Step(r) PROVE Told'
    <2>1. CASE LockAccount(r) \/ Count(r) \/ Get(r) \/ Allowed(r) \/ Check(r) \/ Fail(r)
      BY <1>1, <2>1 DEF LockAccount, Count, Get, Allowed, Check, Fail, rows
    <2>. QED BY <1>3, <2>1, InsertTold, UpdateTold DEF Step
  <1>4. ASSUME NEW e \in Endpoints, Install(e) \/ Due(e) \/ Allow(e) PROVE Told'
    <2>1. CASE Due(e)
      BY <1>1, <2>1 DEF Due, rows
    <2>. QED BY <1>4, <2>1, InstallTold, AllowTold
  <1>5. CASE Sign \/ CheckSend \/ Dial \/ SwapKey \/ Tick
    BY <1>1, <1>5 DEF Sign, CheckSend, Dial, SwapKey, Tick, rows
  <1>6. CASE UNCHANGED vars
    BY <1>1, <1>6 DEF vars, rows
  <1>. QED BY <1>2, <1>3, <1>4, <1>5, <1>6 DEF Next

LEMMA SecretsFollow == Inv /\ Told => SecretsHold
  <1>. SUFFICES ASSUME Inv, Told, NEW e \in Endpoints
                PROVE  /\ row[e].live /\ held[e] # 0 /\ row[e].sealed = key
                          /\ (held[e] = row[e].secret \/ row[e].before = key)
                          => held[e] \in SecretsOf(row[e]) \/ now >= shown[e].at + Grace
                       /\ row[e].account # Nobody =>
                          (SecretsOf(row[e]) = {} <=> row[e].key_id # key)
    BY DEF SecretsHold, ReceiverVerifies, SealedIsTold
  <1>1. SecretSo(row[e], shown[e], held[e]) /\ RowSo(row[e]) /\ shown[e] \in Shown
        /\ row[e] \in Row /\ now \in Nat
    BY DEF Told, Inv, RowsSo, TypeOK
  <1>2. ASSUME held[e] # 0, row[e].sealed = key, held[e] = row[e].secret \/ row[e].before = key
        PROVE  held[e] \in SecretsOf(row[e]) \/ now >= shown[e].at + Grace
    <2>1. CASE held[e] = row[e].secret
      BY <1>2, <2>1 DEF SecretsOf
    <2>2. CASE held[e] # row[e].secret
      <3>1. held[e] = row[e].previous /\ row[e].until = shown[e].at + Grace /\ row[e].before = key
        BY <1>1, <1>2, <2>2 DEF SecretSo
      <3>2. now < row[e].until \/ now >= row[e].until
        BY <1>1 DEF Row
      <3>3. CASE now < row[e].until
        BY <1>2, <3>1, <3>3 DEF SecretsOf
      <3>. QED BY <3>1, <3>2, <3>3
    <2>. QED BY <2>1, <2>2
  <1>3. row[e].account # Nobody => (SecretsOf(row[e]) = {} <=> row[e].key_id # key)
    BY <1>1 DEF SecretsOf, RowSo
  <1>. QED BY <1>2, <1>3

(***************************************************************************)
(* What follows.                                                           *)
(***************************************************************************)
LEMMA InvHolds == Inv => CountHolds /\ ConnectsWhereChecked
  BY LiveIs DEF Inv, CountHolds, NoMoreThanMax, Few, SendSo, ConnectsWhereChecked

LEMMA Inductive == Spec => []Inv
  <1>1. Inv /\ [Next]_vars => Inv'
    BY NextInv
  <1>. QED BY <1>1, InitInv, PTL DEF Spec

\* However many registrations are under way, an account has no more endpoints than it may
\* (Register, which counts under the account's row).
THEOREM CountAlwaysHolds == Spec => []CountHolds
  BY Inductive, InvHolds, PTL

\* A delivery connects to an address that was outside or allowed when its name was looked
\* up, and to no other, whatever the name leads to by then (destination.go).
THEOREM ConnectsAlwaysWhereChecked == Spec => []ConnectsWhereChecked
  BY Inductive, InvHolds, PTL

\* A receiver given each secret as it is shown verifies what is signed until the grace of
\* the secret it had is over, and a row that cannot be signed for is told of, whatever the
\* order of rotations, deliveries and key swaps (endpoint.go:56-59), as long as the answer
\* to a rotation arrives.
THEOREM SecretsAlwaysHold == ASSUME "rotate" \notin Lost PROVE Spec => []SecretsHold
  <1>1. Init => Inv /\ Told
    BY InitInv, InitTold
  <1>2. Inv /\ Told /\ [Next]_vars => (Inv /\ Told)'
    BY NextInv, NextTold
  <1>3. Inv /\ Told => SecretsHold
    BY SecretsFollow
  <1>. QED BY <1>1, <1>2, <1>3, PTL DEF Spec

=======================================================================
