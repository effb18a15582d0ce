---------------------------- MODULE Opening ----------------------------
(***************************************************************************)
(* How a merchant's request opens a payment and reads it back: the         *)
(* credential it presents (api/auth.go, credential/), the key that makes   *)
(* the same request sent twice open one payment, what the account accepts  *)
(* (accepted/), and what is written (payment/http.go, service.go OpenAs,   *)
(* postgres.go Create).                                                    *)
(*                                                                         *)
(* A request is a row of calls to the database, each a step, and what it   *)
(* read it keeps.  The operator makes and revokes credentials and changes  *)
(* where an asset is paid to in between.  The clock runs in parts of what  *)
(* a column keeps: Unit ticks are one microsecond.  What becomes of a      *)
(* payment once it is open is Settlement's and Checkout's.                 *)
(***************************************************************************)
EXTENDS Money

CONSTANTS Clients,       \* the connections requests come in on
          Credentials,   \* the credentials there may be
          Accounts,
          AccountOf,     \* the account a credential is of, or Deployment
          Assets,        \* the assets the document lists
          Decimals,      \* of an asset
          Destinations,
          Owner,         \* the account a destination is of
          Keys,          \* idempotency keys
          NoKey,         \* a request without one
          Bodies,        \* what a body says: [asset, amount, expires], expires 0 for none
          Sent,          \* what the clients send: a key or none, and a body
          Operated,      \* the credentials the operator changes here
          Nothing,       \* an asset the account does not accept is paid to no address
          Deployment,
          MaxPayments,   \* payments there can come to be
          Horizon,       \* when the clock stops
          Unit,          \* ticks in what a column keeps
          DefaultExpiry, \* a deadline no request named
          MaxExpiry,     \* the furthest off a deadline may be
          UseInterval    \* how long a recorded use stands

\* A body that is not read is one of none of these: it is refused before anything
\* of it is looked at, as a key that is not a key is.
ASSUME OpeningAssumptions ==
    /\ AccountOf \in [Credentials -> Accounts \cup {Deployment}] /\ Deployment \notin Accounts
    /\ Decimals \in [Assets -> 0 .. MaxAmountDigits - 1]
    /\ Owner \in [Destinations -> Accounts]
    /\ NoKey \notin Keys
    /\ Bodies # {}
    /\ \A b \in Bodies : b.asset \in Assets /\ b.amount \in Texts /\ b.expires \in Nat
    /\ Sent \subseteq (Keys \cup {NoKey}) \X Bodies
    /\ Operated \subseteq Credentials
    /\ Nothing \notin Destinations
    /\ MaxPayments \in Nat /\ Horizon \in Nat /\ UseInterval \in Nat
    /\ Unit \in Nat \ {0} /\ DefaultExpiry \in Nat \ {0} /\ MaxExpiry \in Nat \ {0}
    /\ DefaultExpiry <= MaxExpiry

VARIABLES now,        \* the clock
          credential, \* where a credential has got to
          access,     \* credentials.access: "read" or "write"
          lastUsed,   \* credentials.last_used_at, or -1
          accepted,   \* accepted_assets: where an account's asset is paid to
          payments,   \* the payments, in the order they were stored
          request,    \* what a client's request has read so far
          told        \* the answer the last step gave a client, if it gave one

operated == <<credential, access, accepted>>
rows == <<operated, lastUsed, payments>>
vars == <<now, rows, request, told>>

\* A row is there before the file that holds its token: unwritten is one nobody
\* can present.  One made under another key is as good as revoked.
States == {"none", "unwritten", "in force", "revoked"}

Payment == [account : Accounts, key : Keys \cup {NoKey}, body : Bodies,
            amount : Nat, destination : Destinations, created : Nat, expires : Nat]

\* The calls a request is made of once its credential was found: recording the use
\* of it, then what opening a payment asks, or the read of one.
Calls == {"use", "destination", "insert", "key", "find"}
Answers == {"opened", "replayed", "shown", "invalid", "missing",
            "unauthorized", "forbidden", "failed"}

Idle == [at |-> "idle"]
Silence == [word |-> "none"]

\* A request of credential c under key k, to open what the body says, or if id is
\* not 0 to read a payment back.
Request(c, k, body, id) ==
    [at |-> "use", cred |-> c, key |-> k, body |-> body, id |-> id, stamp |-> 0,
     destination |-> Nothing, expires |-> 0]

TypeOK ==
    /\ now \in 0 .. Horizon
    /\ credential \in [Credentials -> States]
    /\ access \in [Credentials -> {"read", "write"}]
    /\ lastUsed \in [Credentials -> -1 .. Horizon]
    /\ accepted \in [Accounts \X Assets -> Destinations \cup {Nothing}]
    /\ payments \in Seq(Payment) /\ Len(payments) <= MaxPayments
    /\ \A cl \in Clients :
        LET r == request[cl] IN
        r = Idle \/ ( /\ r.at \in Calls /\ r.cred \in Credentials
                      /\ r.key \in Keys \cup {NoKey} /\ r.body \in Bodies
                      /\ r.id \in 0 .. MaxPayments
                      /\ r.stamp \in 0 .. Horizon /\ r.expires \in Nat
                      /\ r.destination \in Destinations \cup {Nothing} )
    /\ told = Silence \/ (told.word \in Answers /\ told.payment \in 0 .. Len(payments))

\* What the operator does not touch here is in force, writes and is accepted.
Init ==
    /\ now = 0
    /\ credential \in [Credentials -> {"none", "in force"}]
    /\ access \in [Credentials -> {"read", "write"}]
    /\ \A c \in Credentials \ Operated : credential[c] = "in force" /\ access[c] = "write"
    /\ lastUsed = [c \in Credentials |-> -1]
    /\ accepted \in [Accounts \X Assets -> Destinations \cup {Nothing}]
    /\ \A p \in Accounts \X Assets :
          IF \E c \in Operated : AccountOf[c] = p[1]
          THEN accepted[p] = Nothing ELSE accepted[p] # Nothing /\ Owner[accepted[p]] = p[1]
    /\ payments = <<>>
    /\ request = [c \in Clients |-> Idle]
    /\ told = Silence

(***************************************************************************)
(* The operator, and what happens around the requests.                     *)
(***************************************************************************)
Tick == now < Horizon /\ now' = now + 1 /\ UNCHANGED rows

Set(c, s) == /\ credential' = [credential EXCEPT ![c] = s]
             /\ UNCHANGED <<now, access, accepted, lastUsed, payments>>

\* credentialNew: the row, and then the file.  If the file cannot be written the
\* row is revoked; a crash in between leaves it, in force and with no token.
Mint(c) == c \in Operated /\ credential[c] = "none" /\ Set(c, "unwritten")
Written(c) == credential[c] = "unwritten" /\ Set(c, "in force")
Unwritable(c) == credential[c] = "unwritten" /\ Set(c, "revoked")

Revoke(c) == c \in Operated /\ credential[c] \in {"unwritten", "in force"} /\ Set(c, "revoked")

\* An asset accepted again is paid to another address from then on.
Accept(a, s, d) ==
    /\ Owner[d] = a /\ accepted[<<a, s>>] # d
    /\ accepted' = [accepted EXCEPT ![<<a, s>>] = d]
    /\ UNCHANGED <<now, credential, access, lastUsed, payments>>

Operator == \/ \E c \in Credentials : Mint(c) \/ Written(c) \/ Unwritable(c) \/ Revoke(c)
            \/ \E a \in Accounts, s \in Assets, d \in Destinations : Accept(a, s, d)

Around == (Tick \/ Operator) /\ UNCHANGED request /\ told' = Silence

(***************************************************************************)
(* A request.                                                              *)
(***************************************************************************)
At(cl, call) == request[cl].at = call
Becomes(cl, r) == request' = [request EXCEPT ![cl] = r] /\ told' = Silence
Says(cl, word, i) == /\ request' = [request EXCEPT ![cl] = Idle]
                     /\ told' = [word |-> word, payment |-> i]
Refuses(cl, word) == Says(cl, word, 0)
Quiet == UNCHANGED <<now, rows>>
Account(r) == AccountOf[r.cred]

\* What the credential may do.  A request to read needs less than one to write.
Admits(r) == Account(r) # Deployment /\ (r.id # 0 \/ access[r.cred] = "write")

Admitted(cl, r) ==
    IF Admits(r) THEN Becomes(cl, [r EXCEPT !.at = IF r.id = 0 THEN "destination" ELSE "find",
                                            !.stamp = 0])
                 ELSE Refuses(cl, "forbidden")

\* A request comes in, and its token is looked up by the hash of its text among what
\* nothing revoked; it is presented by whoever holds its file, or made up.  A use
\* within the interval of the one that was read is not written.
FindByToken(cl, r) ==
    /\ request[cl] = Idle /\ credential[r.cred] # "unwritten" /\ Quiet
    /\ IF credential[r.cred] # "in force" THEN Refuses(cl, "unauthorized")
       ELSE IF lastUsed[r.cred] # -1 /\ now - lastUsed[r.cred] <= UseInterval
            THEN Admitted(cl, r)
            ELSE Becomes(cl, [r EXCEPT !.stamp = now])

Asks(cl) ==
    \E c \in Credentials :
        \/ \E s \in Sent : FindByToken(cl, Request(c, s[1], s[2], 0))
        \/ \E i \in 1 .. MaxPayments :
               FindByToken(cl, Request(c, NoKey, CHOOSE b \in Bodies : TRUE, i))

\* What a timestamptz keeps of a time.
Column(t) == t - (t % Unit)

\* The row takes no use within the interval of the one it holds by then.
Takes(r) == lastUsed[r.cred] = -1 \/ lastUsed[r.cred] < r.stamp - UseInterval

RecordUse(cl) ==
    LET r == request[cl] IN
    /\ At(cl, "use")
    /\ lastUsed' = IF Takes(r) THEN [lastUsed EXCEPT ![r.cred] = Column(r.stamp)] ELSE lastUsed
    /\ UNCHANGED <<now, operated, payments>>
    /\ Admitted(cl, r)

\* A use that could not be written is logged, and the request goes on.
Unrecorded(cl) == At(cl, "use") /\ Quiet /\ Admitted(cl, request[cl])

(***************************************************************************)
(* Opening a payment.                                                      *)
(***************************************************************************)
\* Where the account is paid in the asset.
DestinationOf(r) == accepted[<<Account(r), r.body.asset>>]
Accepts(r) == DestinationOf(r) # Nothing

\* A body that names no amount the asset divides into is answered before anything is
\* looked up.
Readable(body) == ParsesUnits(body.amount, Decimals[body.asset])
Amount(body) == ParseUnits(body.amount, Decimals[body.asset])

\* What can be built: an amount of something, and a deadline that is neither past
\* nor too far off.  A body that names no deadline is given one.
Deadline(body) == IF body.expires = 0 THEN now + DefaultExpiry ELSE body.expires
Builds(body) == Amount(body) # 0 /\ Deadline(body) > now /\ Deadline(body) <= now + MaxExpiry

Destination(cl) ==
    LET r == request[cl] IN
    /\ At(cl, "destination") /\ Quiet
    /\ IF Readable(r.body) /\ Accepts(r) /\ Builds(r.body)
       THEN Becomes(cl, [r EXCEPT !.at = "insert", !.destination = DestinationOf(r),
                                  !.stamp = now, !.expires = Deadline(r.body)])
       ELSE Refuses(cl, "invalid")

\* The payments an account opened under a key.
Under(account, key) ==
    {i \in 1 .. Len(payments) : payments[i].account = account /\ payments[i].key = key}

\* payments_by_idempotency_key
UsedNever(r) == FALSE  \* a mutant: the index is not there
Used(r) == r.key # NoKey /\ Under(Account(r), r.key) # {}

\* payments_expires_after_creation, of what the columns keep
KeepsAny(r) == TRUE  \* a mutant: the constraint is not there
Keeps(r) == Column(r.expires) > Column(r.stamp)

New(r) == [account |-> Account(r), key |-> r.key, body |-> r.body, amount |-> Amount(r.body),
           destination |-> r.destination, created |-> Column(r.stamp),
           expires |-> Column(r.expires)]

Insert(cl) ==
    LET r == request[cl] IN
    /\ At(cl, "insert")
    /\ IF ~Keeps(r) THEN Refuses(cl, "failed") /\ UNCHANGED payments
       ELSE IF Used(r) THEN Becomes(cl, [r EXCEPT !.at = "key"]) /\ UNCHANGED payments
       ELSE /\ Len(payments) < MaxPayments
            /\ payments' = Append(payments, New(r))
            /\ Says(cl, "opened", Len(payments) + 1)
    /\ UNCHANGED <<now, operated, lastUsed>>

\* The payment an account's key opened.
FoundUnderAnyone(r) ==  \* a mutant: the key alone
    CHOOSE i \in 1 .. Len(payments) : payments[i].key = r.key
FoundUnder(r) == CHOOSE i \in Under(Account(r), r.key) : TRUE

\* It is answered to the body that opened it, and to no other.
FindByKey(cl) ==
    LET r == request[cl] IN
    /\ At(cl, "key") /\ Quiet
    /\ IF payments[FoundUnder(r)].body = r.body THEN Says(cl, "replayed", FoundUnder(r))
                                                ELSE Refuses(cl, "invalid")

\* The payment of the account that the path names, or that there is none.
Find(cl) ==
    LET r == request[cl] IN
    /\ At(cl, "find") /\ Quiet
    /\ IF r.id <= Len(payments) /\ payments[r.id].account = Account(r)
       THEN Says(cl, "shown", r.id) ELSE Refuses(cl, "missing")

\* A call to the database fails.  The insert may have been carried out.
Fails(cl) ==
    LET r == request[cl] IN
    /\ r # Idle
    /\ Refuses(cl, "failed")
    /\ \/ UNCHANGED payments
       \/ /\ At(cl, "insert") /\ ~Used(r) /\ Keeps(r) /\ Len(payments) < MaxPayments
          /\ payments' = Append(payments, New(r))
    /\ UNCHANGED <<now, operated, lastUsed>>

Step(cl) == \/ RecordUse(cl) \/ Unrecorded(cl)
            \/ Destination(cl) \/ Insert(cl) \/ FindByKey(cl) \/ Find(cl) \/ Fails(cl)

Next == Around \/ \E cl \in Clients : Asks(cl) \/ Step(cl)

Spec == Init /\ [][Next]_vars

(***************************************************************************)
(* What holds.                                                             *)
(***************************************************************************)
\* This step answered the request of cl.
Answered(cl) == request[cl] # Idle /\ request'[cl] = Idle

\* A key names one request: whatever was sent, however often, from wherever and
\* whichever answer was lost, an account has one payment under it.
OneKeyOnePayment ==
    \A a \in Accounts, k \in Keys : \A i, j \in Under(a, k) : i = j

\* A request is served for the account of its credential and no other: what it is
\* answered with is a payment of that account, and for a repeated key the one that
\* key and that body opened (http.go:276-278, service.go:100-107).
AnswersItsOwn ==
    [][\A cl \in Clients : Answered(cl) /\ told'.payment # 0 =>
         LET r == request[cl] p == payments'[told'.payment] IN
         /\ p.account = Account(r)
         /\ r.id = 0 => p.key = r.key /\ p.body = r.body]_vars

\* Every row reads back (payment.go Restore): what the columns keep of the deadline
\* is after what they keep of the moment it was opened, though both lose what is
\* below a microsecond, and its amount is of something.
RowsRestore ==
    \A i \in 1 .. Len(payments) : /\ payments[i].expires > payments[i].created
                                  /\ payments[i].amount # 0

\* A payment is paid to an address of the account that opened it, whatever the
\* operator changed between the lookup and the insert.
PaidToItsAccount ==
    \A i \in 1 .. Len(payments) : Owner[payments[i].destination] = payments[i].account

\* Every payment stored is one the service can read back and pay to the account it is of
\* (Postgres.OpenAs, Restore).
RowsHold == TypeOK /\ RowsRestore /\ PaidToItsAccount

\* The amount a payment shows is the amount its body asked for, written the one way
\* an amount is written (money.go:65-69, 167-171); and so it would be of any text a
\* body can hold, in an asset of any decimals.
AmountsReadBack ==
    /\ UnitsReadBack
    /\ \A i \in 1 .. Len(payments) :
           LET p == payments[i]
           IN Units(p.amount, Decimals[p.body.asset]) = Spelling(p.body.amount)

=======================================================================
