--------------------------- MODULE SignedRateLimit ---------------------------
(* The durable limiter of the signed API: one bucket per account, environment *)
(* and class of request in PostgreSQL, shared by every platform process. A    *)
(* call is one transaction of refunddesk_consume_signed_request_rate_limit;   *)
(* its statements interleave with those of other calls as far as the row and  *)
(* advisory locks let them.                                                   *)
EXTENDS Gcra, FiniteSets

CONSTANTS
    Scopes,        \* digests of account, environment and class
    Transactions,         \* transactions under way
    MaxScopes,     \* the bound on the rows of the table
    LimitBurst, LimitInterval,
    StaleAfter,    \* the ten minutes after which an unused bucket may go
    MaxDbSetBack,    \* how far the database clock may be behind its highest value
    MaxClock,      \* bound: the last instant of the database clock
    MaxGrants,     \* bound: requests granted to one scope
    NoTransaction, NoBucket

(* A set-back clock finds a deleted bucket no fuller than the real one would  *)
(* be; with the deployed values any step back of nine minutes is covered.     *)
ASSUME LimitAssumption ==
    /\ {MaxScopes, StaleAfter, MaxDbSetBack, MaxClock, MaxGrants} \subseteq Nat
    /\ {LimitBurst, LimitInterval} \subseteq Nat \ {0}
    /\ LimitBurst * LimitInterval + MaxDbSetBack <= StaleAfter
    /\ IsFiniteSet(Scopes) /\ Scopes # {}
    /\ NoTransaction \notin Transactions

VARIABLES
    dbClock,    \* clock_timestamp()
    highClock,  \* the highest value dbClock ever had
    bucket,     \* per scope: NoBucket, or theoretical_arrival_at and last_seen_at
    rowLock,    \* per scope: the transaction that locked its row
    advisory,   \* the transaction that holds the cardinality lock
    txn,       \* per transaction: stage, scope, observed_at and the row it read
    grants      \* history: the effective times at which a scope was allowed

limitVars == <<dbClock, highClock, bucket, rowLock, advisory, txn, grants>>

Bucket == [tat : Nat, lastSeen : Nat]
ASSUME NoBucketAssumption == NoBucket \notin Bucket
Steps == {"idle", "look", "first", "again", "create", "consume"}
NoWork == [step |-> "idle", scope |-> CHOOSE s \in Scopes : TRUE, at |-> 0,
           seen |-> [tat |-> 0, lastSeen |-> 0]]

LimitInit ==
    /\ dbClock = 0 /\ highClock = 0
    /\ bucket = [s \in Scopes |-> NoBucket]
    /\ rowLock = [s \in Scopes |-> NoTransaction]
    /\ advisory = NoTransaction
    /\ txn = [c \in Transactions |-> NoWork]
    /\ grants = [s \in Scopes |-> <<>>]

Stands(c, step) == txn[c].step = step
Absent(s) == bucket[s] = NoBucket
Rows == {s \in Scopes : ~Absent(s)}

-------------------------------------------------------------------------------
consumeSignedRequestRateLimit(c, s) ==
    /\ Stands(c, "idle") /\ Len(grants[s]) < MaxGrants
    /\ txn' = [txn EXCEPT ![c].step = "look", ![c].scope = s]
    /\ UNCHANGED <<dbClock, highClock, bucket, rowLock, advisory, grants>>

(* SELECT ... FOR UPDATE of a row that exists waits for its lock; the time is *)
(* taken once the lock is held.                                               *)
lockRow(c) ==
    LET s == txn[c].scope IN
    /\ ~Absent(s) /\ rowLock[s] = NoTransaction
    /\ rowLock' = [rowLock EXCEPT ![s] = c]
    /\ txn' = [txn EXCEPT ![c].step = "consume", ![c].at = dbClock, ![c].seen = bucket[s]]

lookUp(c) ==
    /\ Stands(c, "look")
    /\ \/ lockRow(c)
       \/ /\ Absent(txn[c].scope)
          /\ txn' = [txn EXCEPT ![c].step = "first"]
          /\ UNCHANGED rowLock
    /\ UNCHANGED <<dbClock, highClock, bucket, advisory, grants>>

(* Only the first use of a scope takes the cardinality lock.                  *)
lockCardinality(c) ==
    /\ Stands(c, "first") /\ advisory = NoTransaction
    /\ advisory' = c
    /\ txn' = [txn EXCEPT ![c].step = "again"]
    /\ UNCHANGED <<dbClock, highClock, bucket, rowLock, grants>>

lookAgain(c) ==
    /\ Stands(c, "again")
    /\ \/ lockRow(c)
       \/ /\ Absent(txn[c].scope)
          /\ txn' = [txn EXCEPT ![c].step = "create", ![c].at = dbClock]
          /\ UNCHANGED rowLock
    /\ UNCHANGED <<dbClock, highClock, bucket, advisory, grants>>

(* The transaction ends and its locks go.                                     *)
End(c) ==
    /\ txn' = [txn EXCEPT ![c] = NoWork]
    /\ rowLock' = [s \in Scopes |-> IF rowLock[s] = c THEN NoTransaction ELSE rowLock[s]]
    /\ advisory' = IF advisory = c THEN NoTransaction ELSE advisory

(* Mutant: a bucket goes when it is full again, however lately it was used.   *)
Stale_fresh(s, at) == ~Absent(s) /\ rowLock[s] = NoTransaction /\ bucket[s].tat <= at

(* The stale buckets that no other transaction has locked.                    *)
Stale(s, at) ==
    /\ ~Absent(s) /\ rowLock[s] = NoTransaction
    /\ bucket[s].lastSeen <= at - StaleAfter
    /\ bucket[s].tat <= at
Remaining(c) == {s \in Rows : ~Stale(s, txn[c].at)}

HasRoom(c) == Cardinality(Remaining(c)) < MaxScopes

(* Sweep, count, insert and commit. Nobody else inserts under the cardinality *)
(* lock, and whoever looks for a deleted row waits for the commit.            *)
createBucket(c) ==
    LET s == txn[c].scope at == txn[c].at IN
    /\ Stands(c, "create") /\ HasRoom(c)
    /\ bucket' = [z \in Scopes |->
                    IF z = s THEN [tat |-> at + LimitInterval, lastSeen |-> at]
                    ELSE IF z \in Remaining(c) THEN bucket[z] ELSE NoBucket]
    /\ grants' = [grants EXCEPT ![s] = Append(@, at)]
    /\ End(c)
    /\ UNCHANGED <<dbClock, highClock>>

EffectiveNow(c) == IF txn[c].at > txn[c].seen.lastSeen THEN txn[c].at ELSE txn[c].seen.lastSeen

(* The bucket is charged, or only marked as seen, and the transaction commits.*)
consume(c) ==
    LET s == txn[c].scope  now == EffectiveNow(c)  tat == txn[c].seen.tat IN
    /\ Stands(c, "consume")
    /\ IF GcraAllows(tat, LimitBurst, LimitInterval, now)
       THEN /\ bucket' = [bucket EXCEPT ![s] = [tat |-> GcraNext(tat, LimitInterval, now), lastSeen |-> now]]
            /\ grants' = [grants EXCEPT ![s] = Append(@, now)]
       ELSE /\ bucket' = [bucket EXCEPT ![s] = [tat |-> tat, lastSeen |-> now]]
            /\ UNCHANGED grants
    /\ End(c)
    /\ UNCHANGED <<dbClock, highClock>>

(* An error rolls the transaction back: no room for another scope, a lock     *)
(* that is not had in 500 ms, or a lost connection. The platform answers 503. *)
rollBack(c) ==
    /\ ~Stands(c, "idle")
    /\ End(c)
    /\ UNCHANGED <<dbClock, highClock, bucket, grants>>

DbClockMoves ==
    /\ dbClock' \in 0..MaxClock /\ dbClock' # dbClock /\ dbClock' >= highClock - MaxDbSetBack
    /\ highClock' = IF dbClock' > highClock THEN dbClock' ELSE highClock
    /\ UNCHANGED <<bucket, rowLock, advisory, txn, grants>>

Statement(c) ==
    \/ lookUp(c) \/ lockCardinality(c) \/ lookAgain(c) \/ createBucket(c) \/ consume(c) \/ rollBack(c)

LimitNext ==
    \/ \E c \in Transactions : Statement(c) \/ \E s \in Scopes : consumeSignedRequestRateLimit(c, s)
    \/ DbClockMoves

LimitSpec == LimitInit /\ [][LimitNext]_limitVars

-------------------------------------------------------------------------------
LimitTypeOK ==
    /\ dbClock \in Nat /\ highClock \in Nat
    /\ bucket \in [Scopes -> Bucket \cup {NoBucket}]
    /\ rowLock \in [Scopes -> Transactions \cup {NoTransaction}] /\ advisory \in Transactions \cup {NoTransaction}
    /\ txn \in [Transactions -> [step : Steps, scope : Scopes, at : Nat, seen : Bucket]]
    /\ grants \in [Scopes -> Seq(Nat)]

(* No account gets more signed requests than its burst and rate allow, though *)
(* first requests race for the bucket, buckets are deleted and made anew and  *)
(* the clock is set back: "so it cannot mint capacity" (migration.sql:155).   *)
LimitRateKept == \A s \in Scopes : WithinRate(grants[s], LimitBurst, LimitInterval)

(* The table stays within its bound although it is swept and counted by the   *)
(* calls themselves (migration.sql:102-125).                                  *)
RowsBounded == Cardinality(Rows) <= MaxScopes

(* The two limits of refunddesk_consume_signed_request_rate_limit.            *)
LimitKept == LimitRateKept /\ RowsBounded

===============================================================================
