------------------------------ MODULE Database ------------------------------
(***************************************************************************)
(* The database layer: transactions as the statement batches ald-database  *)
(* builds, the migration runner under crashes, and the conformance suite   *)
(* that decides which backend may be used.  There is no driver in the      *)
(* repository: a transaction is a batch and an outcome, and what a driver  *)
(* would do with it is not modelled; the statements of a migration are run *)
(* one by one by an external one.  The machines transactions, migrations   *)
(* and conformance share no state.                                         *)
(***************************************************************************)
EXTENDS Integers, SequencesExt, Sums

CONSTANTS
    Accounts,       \* accounts that transfers name
    Amounts,        \* amounts asked for, bad ones too
    MaxStatements,  \* bound: statements of one transaction
    MaxUnits,       \* bound: transactions committed
    Versions,       \* versions of migrations: a finite set of numbers
    MaxEdits,       \* bound: edits of migration files
    MaxCrashes,     \* bound: crashes of the runner
    Nobody          \* the account of a statement that names none

ASSUME DatabaseAssumption ==
    /\ Amounts \subseteq Int /\ {MaxStatements, MaxUnits, MaxEdits, MaxCrashes} \subseteq Nat
    /\ Versions \subseteq Nat /\ IsFiniteSet(Versions)

-----------------------------------------------------------------------------
(* Transactions.  Every call but statements() takes the transaction by     *)
(* value, so it is open or it is gone: the arms for a finished one cannot  *)
(* be reached.  Timings and the slow-query log are left out. *)

VARIABLES
    unit,           \* the Transaction in hand, or NoUnit
    wanted,        \* history: every statement put to it
    committed       \* history: what commit returned Committed for

transactionVars == <<unit, wanted, committed>>

NoUnit == [state |-> "Gone", statements |-> <<>>]

(* fits: as many parameters as placeholders. *)
Stmt(kind, account, amount, fits) == [kind |-> kind, account |-> account, amount |-> amount, fits |-> fits]

TransactionsInit == unit = NoUnit /\ wanted = <<>> /\ committed = <<>>

Transaction_new ==
    /\ unit = NoUnit
    /\ unit' = [state |-> "Open", statements |-> <<>>] /\ wanted' = <<>>
    /\ UNCHANGED committed

(* Lock the source, debit it, credit the target, append to the ledger. *)
TransferStatements(from, to, amount) ==
    <<Stmt("lock", from, 0, TRUE), Stmt("debit", from, amount, TRUE),
      Stmt("credit", to, amount, TRUE), Stmt("ledger", to, amount, TRUE)>>

money_transfer_tx(from, to, amount) ==
    /\ unit = NoUnit /\ amount > 0 /\ from # to
    /\ unit' = [state |-> "Open", statements |-> TransferStatements(from, to, amount)]
    /\ wanted' = TransferStatements(from, to, amount)
    /\ UNCHANGED committed

(* The transaction is dropped, which rolls it back. *)
Drop == unit' = NoUnit /\ wanted' = <<>> /\ UNCHANGED committed

(* Mutant: a refused statement is skipped and the transaction goes on. *)
statement_skipped(fits) ==
    LET q == Stmt("other", Nobody, 0, fits) IN
    /\ unit.state = "Open" /\ Len(unit.statements) < MaxStatements
    /\ unit' = IF q.fits THEN [unit EXCEPT !.statements = Append(unit.statements, q)] ELSE unit
    /\ wanted' = Append(wanted, q)
    /\ UNCHANGED committed

(* statement: one that is refused takes the whole transaction with it, for *)
(* the error is returned in its place. *)
statement(fits) ==
    LET q == Stmt("other", Nobody, 0, fits) IN
    /\ unit.state = "Open" /\ Len(unit.statements) < MaxStatements
    /\ \/ /\ q.fits
          /\ unit' = [unit EXCEPT !.statements = Append(unit.statements, q)]
          /\ wanted' = Append(wanted, q)
          /\ UNCHANGED committed
       \/ ~q.fits /\ Drop

commit ==
    /\ unit.state = "Open" /\ Len(committed) < MaxUnits
    /\ committed' = IF unit.statements = <<>> THEN committed
                    ELSE Append(committed, [statements |-> unit.statements, wanted |-> wanted])
    /\ unit' = NoUnit /\ wanted' = <<>>

(* rollback, or the value going out of scope. *)
rollback == unit.state = "Open" /\ Drop

TransactionsNext ==
    \/ Transaction_new
    \/ \E a, b \in Accounts, n \in Amounts : money_transfer_tx(a, b, n)
    \/ \E fits \in BOOLEAN : statement(fits)
    \/ commit \/ rollback

(* A debit stands between the lock of its account and a credit of the same *)
(* positive amount to another, with the ledger entry behind. *)
TransfersWhole(s) ==
    \A k \in DOMAIN s : s[k].kind = "debit" =>
        /\ {k - 1, k + 1, k + 2} \subseteq DOMAIN s /\ s[k].amount > 0
        /\ s[k - 1].kind = "lock" /\ s[k - 1].account = s[k].account
        /\ s[k + 1].kind = "credit" /\ s[k + 1].amount = s[k].amount /\ s[k + 1].account # s[k].account
        /\ s[k + 2].kind = "ledger" /\ s[k + 2].amount = s[k].amount

(* What commits is never empty, never short of a statement its caller put  *)
(* to it, and never one half of a transfer (transaction.rs:17 "a failure   *)
(* at any point reverts the whole thing"). *)
UnitsWhole ==
    \A i \in DOMAIN committed :
        /\ committed[i].statements # <<>> /\ committed[i].statements = committed[i].wanted
        /\ TransfersWhole(committed[i].statements)

-----------------------------------------------------------------------------
(* Migrations.  A migration is its version and its edition: edits change   *)
(* the checksum. *)

VARIABLES
    available,      \* version -> edition of the file; a partial function
    history,        \* schema_history: rows of version and edition, in order
    todo,           \* statements the driver has yet to run
    ran,            \* version -> times its body ran
    edits, crashes

migrationVars == <<available, history, todo, ran, edits, crashes>>

MigrationsInit ==
    /\ available = <<>> /\ history = <<>> /\ todo = <<>> /\ edits = 0 /\ crashes = 0
    /\ ran = [v \in Versions |-> 0]

(* A release brings a migration, of any version: Migrator::new refuses two *)
(* of the same. *)
add_migration(v) ==
    /\ v \notin DOMAIN available /\ todo = <<>>
    /\ available' = [w \in DOMAIN available \cup {v} |-> IF w = v THEN 0 ELSE available[w]]
    /\ UNCHANGED <<history, todo, ran, edits, crashes>>

edit_migration(v) ==
    /\ v \in DOMAIN available /\ todo = <<>> /\ edits < MaxEdits
    /\ available' = [available EXCEPT ![v] = @ + 1]
    /\ edits' = edits + 1
    /\ UNCHANGED <<history, todo, ran, crashes>>

Recorded == {history[i].version : i \in DOMAIN history}

(* plan: what to apply, in order; a drifted one is only reported.  The     *)
(* check for gaps that follows in the code has an empty body. *)
Ascending(s) == \A i, j \in DOMAIN s : i < j => s[i] < s[j]

plan ==
    LET missing == DOMAIN available \ Recorded
    IN  CHOOSE s \in [1..Cardinality(missing) -> missing] : Ascending(s)

drift == {v \in DOMAIN available : \E i \in DOMAIN history :
            history[i].version = v /\ history[i].edition # available[v]}

(* Mutant: the row comes before the body. *)
statements_for_row_first(versions) ==
    [k \in 1..(2 * Len(versions)) |->
        [kind |-> IF k % 2 = 1 THEN "record" ELSE "up", version |-> versions[(k + 1) \div 2]]]

(* statements_for: the body, then the row that records it. *)
statements_for(versions) ==
    [k \in 1..(2 * Len(versions)) |->
        [kind |-> IF k % 2 = 1 THEN "up" ELSE "record", version |-> versions[(k + 1) \div 2]]]

begin_migration ==
    /\ todo = <<>> /\ plan # <<>>
    /\ todo' = statements_for(plan)
    /\ UNCHANGED <<available, history, ran, edits, crashes>>

run_statement ==
    /\ todo # <<>>
    /\ LET s == Head(todo) IN
       /\ ran' = IF s.kind = "up" THEN [ran EXCEPT ![s.version] = @ + 1] ELSE ran
       /\ history' = IF s.kind = "record" THEN Append(history, [version |-> s.version, edition |-> available[s.version]])
                     ELSE history
    /\ todo' = Tail(todo)
    /\ UNCHANGED <<available, edits, crashes>>

(* The process dies, or a statement fails and the rest is not run. *)
crash_migration ==
    /\ todo # <<>> /\ crashes < MaxCrashes
    /\ todo' = <<>> /\ crashes' = crashes + 1
    /\ UNCHANGED <<available, history, ran, edits>>

MigrationsNext ==
    \/ \E v \in Versions : add_migration(v) \/ edit_migration(v)
    \/ begin_migration \/ run_statement \/ crash_migration

(* Every recorded migration ran and none is recorded twice; one ran twice  *)
(* only if a crash hit it between its body and its row, and what is        *)
(* recorded and not reported as drift is what the file still says. *)
MigrationsSound ==
    /\ \A i, j \in DOMAIN history : history[i].version = history[j].version => i = j
    /\ \A v \in Recorded : ran[v] >= 1
    /\ \A v \in Versions : ran[v] > 0 /\ v \notin Recorded =>
         crashes > 0 \/ (todo # <<>> /\ Head(todo) = [kind |-> "record", version |-> v])
    /\ SumOver(Versions, ran) <= Cardinality(Recorded) + crashes + (IF todo = <<>> THEN 0 ELSE 1)
    /\ \A i \in DOMAIN history : history[i].version \notin drift => available[history[i].version] = history[i].edition

-----------------------------------------------------------------------------
(* Conformance of a backend.  What the server does is anything: works. *)

VARIABLES
    backend,
    works,          \* capabilities the server really has
    toCheck,        \* claimed ones not checked yet
    checks          \* capability -> status; a partial function

conformanceVars == <<backend, works, toCheck, checks>>

(* The capabilities that tell the rules apart: one that is asserted        *)
(* everywhere, one of some backends, one that passes unasserted, one that  *)
(* has no check. *)
Capability == {"Transactions", "Jsonb", "PoolExhaustion", "Isolation"}

is_mysql_family(b) == b \in {"Mysql", "Mariadb"}

(* CAPABILITY_MATRIX, MariaDB inheriting the claims of its family. *)
capabilities(b) ==
    CASE b = "Postgres" -> Capability
      [] is_mysql_family(b) -> Capability \ {"Jsonb"}
      [] b = "Sqlite" -> {"Transactions"}

Unasserted == {"PoolExhaustion", "Isolation"}

ConformanceInit == backend = "Postgres" /\ works = {} /\ toCheck = {} /\ checks = <<>>

(* run: an unreachable server gets no report at all. *)
ping(b, w) == toCheck = {} /\ backend' = b /\ works' = w /\ toCheck' = capabilities(b) /\ checks' = <<>>

(* check: a connection that dies in between is a failure. *)
Status(cap, dies) ==
    CASE cap = "Isolation" -> "NotApplicable"
      [] cap = "PoolExhaustion" -> "Pass"
      [] OTHER -> IF cap \in works /\ ~dies THEN "Pass" ELSE "Fail"

check_capability(cap, dies) ==
    /\ cap \in toCheck
    /\ checks' = [x \in DOMAIN checks \cup {cap} |-> IF x = cap THEN Status(cap, dies) ELSE checks[x]]
    /\ toCheck' = toCheck \ {cap}
    /\ UNCHANGED <<backend, works>>

verdict_of == IF \E cap \in DOMAIN checks : checks[cap] = "Fail" THEN "Blocked" ELSE "Pass"

ConformanceNext ==
    \/ \E b \in {"Postgres", "Mysql", "Mariadb", "Sqlite"}, w \in SUBSET Capability : ping(b, w)
    \/ \E cap \in Capability, dies \in BOOLEAN : check_capability(cap, dies)

(* A backend passes only if whatever it claims and the suite asserts       *)
(* really works, and everything it claims was looked at. *)
ConformanceHonest ==
    toCheck = {} /\ DOMAIN checks # {} =>
        /\ DOMAIN checks = capabilities(backend)
        /\ verdict_of = "Pass" => capabilities(backend) \ Unasserted \subseteq works

(* The database layer: a transaction commits as a whole or not at all, a   *)
(* migration is recorded once and only after it ran, through crashes at    *)
(* any statement and edited files, and a backend passes the conformance    *)
(* suite only with what it claims and the suite asserts.                   *)
DatabaseSound == UnitsWhole /\ MigrationsSound /\ ConformanceHonest
=============================================================================
