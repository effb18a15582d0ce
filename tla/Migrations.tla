-------------------------- MODULE Migrations --------------------------
(***************************************************************************)
(* How the instances of a deployment bring one database up to the schema   *)
(* their builds carry (postgres/migrate.go), each at its start, before it   *)
(* serves: under an advisory lock its session holds, applying in order what *)
(* the table schema_migrations does not record, and refusing a database     *)
(* whose record is not a part of what the build carries.                   *)
(*                                                                         *)
(* A migration runs in a transaction with its record, or, marked, as an     *)
(* index made concurrently: dropped, made, looked at and recorded by four   *)
(* statements. Every statement and every transaction is one step. A session *)
(* whose client is gone ends by itself, with the lock, once the statement   *)
(* it was left with has landed or failed.                                  *)
(*                                                                         *)
(* A body is its checksum; one file carries a version; the bodies of one    *)
(* version that make an index make it under one name.                      *)
(***************************************************************************)
EXTENDS Naturals

CONSTANTS Instances,
          Versions,     \* the versions of migrations, in order
          Bodies,       \* what a migration may say
          Outside,      \* the bodies marked to run outside a transaction
          Carries,      \* the body of each version a build carries, or Absent
          Absent,       \* no body: not carried, recorded or in the schema
          Invalid,      \* an index that was not finished
          Nobody,       \* the lock held by no session
          Left,         \* the lock held by a session whose client is gone
          MaxFaults     \* waits, statements, sessions and processes that fail

Recorded == Bodies \cup {Absent}
InSchema == Bodies \cup {Absent, Invalid}

ConstantsFit ==
    /\ Versions \subseteq Nat
    /\ Outside \subseteq Bodies
    /\ Carries \in [Instances -> [Versions -> Recorded]]
    /\ \A p \in Instances : \E v \in Versions : Carries[p][v] # Absent
    /\ Absent \notin Bodies /\ Invalid \notin Recorded
    /\ Nobody # Left /\ {Nobody, Left} \cap Instances = {}
    /\ MaxFaults \in Nat

ASSUME MigrationAssumptions == ConstantsFit

VARIABLES schema,       \* what each version's migration has left in the database
          ledger,       \* schema_migrations
          lock,         \* the session holding the advisory lock
          start,        \* how far an instance's start has got
          left,         \* the start whose session the lock was left with
          faults

vars == <<schema, ledger, lock, start, left, faults>>

Phases == {"down", "waiting", "reading", "working", "dropped", "made", "valid",
           "letting", "ready"}

Start == [of : Instances, at : Phases, recorded : [Versions -> Recorded],
          done : SUBSET Versions, ok : BOOLEAN]

Down(p) == [of |-> p, at |-> "down", recorded |-> [v \in Versions |-> Absent],
            done |-> {}, ok |-> FALSE]

TypeOK ==
    /\ schema \in [Versions -> InSchema]
    /\ ledger \in [Versions -> Recorded]
    /\ lock \in Instances \cup {Nobody, Left}
    /\ start \in [Instances -> Start]
    /\ \A p \in Instances : start[p].of = p
    /\ left \in Start
    /\ faults \in 0 .. MaxFaults

Init ==
    /\ schema = [v \in Versions |-> Absent]
    /\ ledger = [v \in Versions |-> Absent]
    /\ lock = Nobody
    /\ start = [p \in Instances |-> Down(p)]
    /\ left \in {Down(p) : p \in Instances}
    /\ faults = 0

To(p, phase) == start' = [start EXCEPT ![p].at = phase]

\* What a start goes on to without a word from the database.
Carried(s) == {v \in Versions : Carries[s.of][v] # Absent}
Body(s, v) == Carries[s.of][v]

Unknown(s, recorded) == {v \in Versions : recorded[v] # Absent} \ Carried(s)

\* The next of the names whose migration is not recorded as the build has it.
Open(s) == {v \in Carried(s) \ s.done : s.recorded[v] # Body(s, v)}
IsNext(s, v) == v \in Open(s) /\ \A u \in Open(s) : v <= u
Changed(s, v) == s.recorded[v] # Absent

(***************************************************************************)
(* What a statement of a start does to the database, and to the start.      *)
(***************************************************************************)
\* The migration and its record, in one transaction.
Apply(s, v) ==
    /\ s.at = "working"
    /\ Body(s, v) \notin Outside
    /\ ledger[v] = Absent
    /\ schema' = [schema EXCEPT ![v] = Body(s, v)]
    /\ ledger' = [ledger EXCEPT ![v] = Body(s, v)]

\* A mutant: an index of the name is taken for the one to make.
DroppedNot(here) == here
Dropped(here) == Absent

Drop(s, v) ==
    /\ s.at = "working"
    /\ Body(s, v) \in Outside
    /\ schema' = [schema EXCEPT ![v] = Dropped(@)]
    /\ UNCHANGED ledger

Make(s, v) ==
    /\ s.at = "dropped"
    /\ schema[v] = Absent
    /\ schema' = [schema EXCEPT ![v] = Body(s, v)]
    /\ UNCHANGED ledger

Look(s, v) ==
    /\ s.at = "made"
    /\ schema[v] \in Bodies
    /\ UNCHANGED <<schema, ledger>>

Record(s, v) ==
    /\ s.at = "valid"
    /\ ledger[v] = Absent
    /\ ledger' = [ledger EXCEPT ![v] = Body(s, v)]
    /\ UNCHANGED schema

Statement(s, v) == Apply(s, v) \/ Drop(s, v) \/ Make(s, v) \/ Look(s, v) \/ Record(s, v)

After(s, v) ==
    CASE s.at = "working" /\ Body(s, v) \in Outside -> [s EXCEPT !.at = "dropped"]
      [] s.at = "dropped" -> [s EXCEPT !.at = "made"]
      [] s.at = "made" -> [s EXCEPT !.at = "valid"]
      [] OTHER -> [s EXCEPT !.at = "working", !.done = @ \cup {v}]

\* A statement that does not end well leaves nothing, or an index not finished.
CutShort(s) ==
    /\ \/ UNCHANGED schema
       \/ /\ s.at = "dropped"
          /\ \E v \in Versions : /\ IsNext(s, v)
                                 /\ schema[v] = Absent
                                 /\ schema' = [schema EXCEPT ![v] = Invalid]
    /\ UNCHANGED ledger

\* The statement can do what it says: on the session with the lock, over what
\* is there. A mutant: on whichever session the pool hands out.
OnAnySession(p) == TRUE
OnItsSession(p) == lock = p
Works(s, v) ==
    /\ OnItsSession(s.of)
    /\ s.at = "working" /\ Body(s, v) \notin Outside => ledger[v] = Absent
    /\ s.at = "dropped" => schema[v] = Absent
    /\ s.at = "made" => schema[v] \in Bodies
    /\ s.at = "valid" => ledger[v] = Absent

(***************************************************************************)
(* A start.                                                                *)
(***************************************************************************)
Begin(p) ==
    /\ start[p].at = "down"
    /\ start' = [start EXCEPT ![p] = [Down(p) EXCEPT !.at = "waiting"]]
    /\ UNCHANGED <<schema, ledger, lock, left, faults>>

Take(p) ==
    /\ start[p].at = "waiting"
    /\ lock = Nobody
    /\ lock' = p
    /\ To(p, "reading")
    /\ UNCHANGED <<schema, ledger, left, faults>>

ReadLedger(p) ==
    /\ start[p].at = "reading"
    /\ OnItsSession(p)
    /\ start' = [start EXCEPT ![p].recorded = ledger,
                    ![p].at = IF Unknown(start[p], ledger) = {} THEN "working" ELSE "letting"]
    /\ UNCHANGED <<schema, ledger, lock, left, faults>>

Work(p) ==
    \E v \in Versions :
        /\ IsNext(start[p], v)
        /\ ~Changed(start[p], v)
        /\ OnItsSession(p)
        /\ Statement(start[p], v)
        /\ start' = [start EXCEPT ![p] = After(@, v)]
        /\ UNCHANGED <<lock, left, faults>>

\* An applied migration has changed.
Refuse(p) ==
    /\ start[p].at = "working"
    /\ \E v \in Versions : IsNext(start[p], v) /\ Changed(start[p], v)
    /\ To(p, "letting")
    /\ UNCHANGED <<schema, ledger, lock, left, faults>>

Finish(p) ==
    /\ start[p].at = "working"
    /\ Open(start[p]) = {}
    /\ start' = [start EXCEPT ![p].at = "letting", ![p].ok = TRUE]
    /\ UNCHANGED <<schema, ledger, lock, left, faults>>

Unlock(p) ==
    /\ start[p].at = "letting"
    /\ OnItsSession(p)
    /\ lock' = Nobody
    /\ To(p, IF start[p].ok THEN "ready" ELSE "down")
    /\ UNCHANGED <<schema, ledger, left, faults>>

(***************************************************************************)
(* What goes wrong.                                                        *)
(***************************************************************************)
Fault == faults < MaxFaults /\ faults' = faults + 1

\* The lock p's session holds, when p closes the session or is gone.
GivenUp(p) ==
    IF lock = p THEN lock' = Left /\ left' = start[p] ELSE UNCHANGED <<lock, left>>

\* The lock was not let go within lockTimeout.
TimeOut(p) ==
    /\ start[p].at = "waiting"
    /\ lock # Nobody
    /\ Fault
    /\ To(p, "down")
    /\ UNCHANGED <<schema, ledger, lock, left>>

\* A statement the server refuses: what was applied stays.
Fails(p) ==
    /\ \/ start[p].at = "reading" /\ IF OnItsSession(p) THEN Fault ELSE UNCHANGED faults
       \/ \E v \in Versions :
             /\ start[p].at \in {"working", "dropped", "made", "valid"}
             /\ IsNext(start[p], v) /\ ~Changed(start[p], v)
             /\ IF Works(start[p], v) THEN Fault ELSE UNCHANGED faults
    /\ IF OnItsSession(p) THEN CutShort(start[p]) ELSE UNCHANGED <<schema, ledger>>
    /\ To(p, "letting")
    /\ UNCHANGED <<lock, left>>

\* The session is ended instead of being handed on, and the start fails.
UnlockFails(p) ==
    /\ start[p].at = "letting"
    /\ IF OnItsSession(p) THEN Fault ELSE UNCHANGED faults
    /\ GivenUp(p)
    /\ start' = [start EXCEPT ![p] = Down(p)]
    /\ UNCHANGED <<schema, ledger>>

\* The process stops, or its connection breaks under a statement.
Crash(p) ==
    /\ start[p].at # "down"
    /\ Fault
    /\ GivenUp(p)
    /\ start' = [start EXCEPT ![p] = Down(p)]
    /\ UNCHANGED <<schema, ledger>>

\* The server ends a session, and with it the lock; its client does not know.
SessionLost(p) ==
    /\ lock = p
    /\ Fault
    /\ lock' = Nobody
    /\ CutShort(start[p])
    /\ UNCHANGED <<start, left>>

\* The session left behind ends, its last statement having landed or not.
LeftEnds ==
    /\ lock = Left
    /\ \/ CutShort(left)
       \/ \E v \in Versions : IsNext(left, v) /\ ~Changed(left, v) /\ Statement(left, v)
    /\ lock' = Nobody
    /\ left' = Down(left.of)
    /\ UNCHANGED <<start, faults>>

Step(p) == Take(p) \/ ReadLedger(p) \/ Work(p) \/ Refuse(p) \/ Finish(p) \/ Unlock(p)
Fall(p) == TimeOut(p) \/ Fails(p) \/ UnlockFails(p) \/ Crash(p) \/ SessionLost(p)

Next == \/ LeftEnds
        \/ \E p \in Instances : Begin(p) \/ Step(p) \/ Fall(p)

Spec == Init /\ [][Next]_vars

(***************************************************************************)
(* Properties.                                                             *)
(***************************************************************************)
\* What the table records is what the database holds: the body that was
\* recorded and no other, an index finished; and what was applied in a
\* transaction is recorded (apply, applyOutside).
LedgerIsTheSchema ==
    \A v \in Versions :
        /\ ledger[v] # Absent => schema[v] = ledger[v]
        /\ schema[v] \in Bodies \ Outside => ledger[v] = schema[v]

\* An instance that serves carries nothing the database does not hold, however
\* many starts ran beside its own and whatever was applied after it (Migrate,
\* called before the workers are made, serve.go).
ServesItsSchema ==
    \A p \in Instances : start[p].at = "ready" =>
        \A v \in Versions : Carries[p][v] # Absent => schema[v] = Carries[p][v]

\* A start that comes to its end without an error has the lock over a database
\* whose record is what its build carries and no more
\* (refuseASchemaFromTheFuture).
EndsInAgreement ==
    \A p \in Instances : start[p].at = "letting" /\ start[p].ok /\ lock = p =>
        ledger = Carries[p]

\* However starts interleave and wherever they stop, the record tells what the
\* database holds and an instance serves over what it carries.
MigrationsHold == TypeOK /\ LedgerIsTheSchema /\ ServesItsSchema /\ EndsInAgreement

\* Who changes the database is a build that carries everything recorded in it,
\* and every change is to a version not recorded (refuseASchemaFromTheFuture
\* and the checksums, read under the lock).
ChangesBy(p) ==
    \A v \in Versions : ledger[v] # Absent =>
        Carries[p][v] # Absent /\ schema'[v] = schema[v] /\ ledger'[v] = ledger[v]
Changes == \/ \E p \in Instances : lock = p /\ ChangesBy(p)
           \/ lock = Left /\ ChangesBy(left.of)
KnowsWhatItChanges == [][Changes]_<<schema, ledger>>

(***************************************************************************)
(* The lock is asked for again every second, and one that is let go is      *)
(* taken in the end: SF. Everything a start does it does in a while, a      *)
(* session without a client ends, and what failed is started again.         *)
(***************************************************************************)
Fairness ==
    /\ WF_vars(LeftEnds)
    /\ \A p \in Instances :
          /\ SF_vars(Take(p))
          /\ WF_vars(ReadLedger(p) \/ Work(p) \/ Refuse(p) \/ Finish(p) \/ Unlock(p)
                        \/ Fails(p) \/ UnlockFails(p))
          /\ WF_vars(Begin(p))
FairSpec == Spec /\ Fairness

\* Whatever a start leaves behind, a database is migrated in the end or is one
\* the build refuses, which another build's migrations made it (applyOutside
\* drops what a start cut short left of an index; the lock goes with its
\* session).
Disagrees(p) == \E v \in Versions : ledger[v] \notin {Absent, Carries[p][v]}
EachIsAnswered ==
    \A p \in Instances : <>[](start[p].at = "ready") \/ <>[]Disagrees(p)

=======================================================================
