----------------------------- MODULE Migrations -----------------------------
(***************************************************************************)
(* db/migrate.ts and the files of db/migrations, run over a database the   *)
(* program works on. "migrate up" sends the six up files one after the     *)
(* other, "migrate down" the six down files in the opposite order; nothing *)
(* records which files were applied. Each file is one query of several     *)
(* statements, which PostgreSQL runs as one transaction: it is applied     *)
(* completely or not at all. The first file that fails ends the run.       *)
(*                                                                         *)
(* Whether a file can be applied depends on the tables and constraints it  *)
(* finds, and for some down files on the rows: a unique constraint cannot  *)
(* be added over rows that violate it. Of the rows only those matter that  *)
(* a file deletes or that can stop one.                                    *)
(***************************************************************************)
EXTENDS Integers

CONSTANTS
  Runner,       \* processes that run migrate.ts
  Order,        \* ids of orders, each with at most one return request
  Refund,       \* ids of refunds
  RefundOrder,  \* the order a refund is for, through its return request
  User,         \* ids of customers and staff
  KeyName       \* idempotency keys as clients choose them

ASSUME RefundsHaveOrders == RefundOrder \in [Refund -> Order]

File == 1..6

VARIABLES
  applied,  \* the files whose tables, columns and constraints exist
  run,      \* what each runner is doing or did last
  orders, refunds, failed,  \* rows of orders and refunds; refunds that failed
  keys      \* rows of idempotency_keys

rows == <<orders, refunds, failed, keys>>
vars == <<applied, run, rows>>

\* How a run ends: all files executed (exit status 0), an error of the database or
\* of the connection (both exit with 1), or no exit at all.
Ends == {"done", "refused", "lost", "killed"}

Init ==
  /\ applied = {}
  /\ run = [m \in Runner |-> [dir |-> "up", next |-> 1, state |-> "done"]]
  /\ orders = {} /\ refunds = {} /\ failed = {} /\ keys = {}

-----------------------------------------------------------------------------
(***************************************************************************)
(* The files                                                               *)
(***************************************************************************)

\* The files whose tables an up file alters.
Alters(n) == CASE n = 2 -> {1} [] n = 4 -> {3} [] n = 5 -> {1} [] OTHER -> {}

\* Variant: every up file creates its tables IF NOT EXISTS.
UpIfNotExists(n) == Alters(n) \subseteq applied

\* CREATE TABLE, ADD COLUMN and ADD CONSTRAINT fail on what exists.
UpApplies(n) == n \notin applied /\ Alters(n) \subseteq applied

\* Rows over which a down file can restore the old constraint: one refund for a
\* return, failed or not (005); no key used by two users (004).
RowsAllow(n) ==
  /\ n = 5 => \A f, g \in refunds : RefundOrder[f] = RefundOrder[g] => f = g
  /\ n = 4 => \A k, l \in keys : k[2] = l[2] => k = l

\* Only 001 and 003 say IF EXISTS.
DownApplies(n) == (n \in applied \/ n \in {1, 3}) /\ RowsAllow(n)

\* Dropping a table drops what other files added to it.
Drops(n) == CASE n = 1 -> {1, 5} [] n = 3 -> {3, 4} [] OTHER -> {n}

\* TRUNCATE TABLE orders CASCADE; DROP TABLE.
WipesOrders(dir, n) == <<dir, n>> \in {<<"up", 2>>, <<"down", 1>>}
WipesKeys(dir, n) == <<dir, n>> = <<"down", 3>>

Apply(dir, n) ==
  /\ applied' = IF dir = "up" THEN applied \cup {n} ELSE applied \ Drops(n)
  /\ IF WipesOrders(dir, n)
     THEN orders' = {} /\ refunds' = {} /\ failed' = {}
     ELSE UNCHANGED <<orders, refunds, failed>>
  /\ keys' = IF WipesKeys(dir, n) THEN {} ELSE keys

-----------------------------------------------------------------------------
(***************************************************************************)
(* migrate.ts                                                              *)
(***************************************************************************)
Running(m) == run[m].state = "running"

Applies(m) ==
  IF run[m].dir = "up" THEN UpApplies(run[m].next) ELSE DownApplies(run[m].next)

\* The loop goes on to the next file, or is over.
GoOn(m) ==
  LET n == IF run[m].dir = "up" THEN run[m].next + 1 ELSE run[m].next - 1
  IN  run' = [run EXCEPT ![m] = [dir |-> run[m].dir, next |-> n,
                                 state |-> IF n \in File THEN "running" ELSE "done"]]

Start(m, dir) ==
  /\ ~Running(m)
  /\ run' = [run EXCEPT ![m] = [dir |-> dir, next |-> IF dir = "up" THEN 1 ELSE 6,
                                state |-> "running"]]
  /\ UNCHANGED <<applied, rows>>

\* PostgreSQL executes the file and commits.
FileCommits(m) ==
  /\ Running(m)
  /\ Applies(m)
  /\ Apply(run[m].dir, run[m].next)

RunFile(m) == FileCommits(m) /\ GoOn(m)

\* Variant: try and catch inside the loop.
SkipFile(m) ==
  /\ Running(m)
  /\ ~Applies(m)
  /\ GoOn(m)
  /\ UNCHANGED <<applied, rows>>

\* catch: PostgreSQL refuses the file.
StopOnError(m) ==
  /\ Running(m)
  /\ ~Applies(m)
  /\ run' = [run EXCEPT ![m].state = "refused"]
  /\ UNCHANGED <<applied, rows>>

\* A file was sent, and what became of it is not heard.
BreakOff(m, end) ==
  /\ Running(m)
  /\ FileCommits(m) \/ UNCHANGED <<applied, rows>>
  /\ run' = [run EXCEPT ![m].state = end]

\* catch: the connection breaks before the file is executed or after.
LoseConnection(m) == BreakOff(m, "lost")

\* The process goes away.
Kill(m) == BreakOff(m, "killed")

-----------------------------------------------------------------------------
(***************************************************************************)
(* The program, as far as the tables it needs exist                        *)
(***************************************************************************)

\* createOrder reads products, and its route claims a key.
PlaceOrder(o) ==
  /\ {1, 2, 4, 6} \subseteq applied
  /\ orders' = orders \cup {o}
  /\ UNCHANGED <<applied, run, refunds, failed, keys>>

\* processRefund: after 005 a refund that failed can be followed by another one.
RequestRefund(f) ==
  /\ {1, 2, 4} \subseteq applied
  /\ RefundOrder[f] \in orders
  /\ f \notin refunds
  /\ \A g \in refunds : RefundOrder[g] = RefundOrder[f] => g \in failed /\ 5 \in applied
  /\ refunds' = refunds \cup {f}
  /\ UNCHANGED <<applied, run, orders, failed, keys>>

FailRefund(f) ==
  /\ {1, 2, 4} \subseteq applied
  /\ f \in refunds
  /\ failed' = failed \cup {f}
  /\ UNCHANGED <<applied, run, orders, refunds, keys>>

\* ON CONFLICT (user_id, idempotency_key) needs the constraint of 004.
ClaimKey(u, k) ==
  /\ 4 \in applied
  /\ keys' = keys \cup {<<u, k>>}
  /\ UNCHANGED <<applied, run, orders, refunds, failed>>

Migrate ==
  \E m \in Runner :
    \/ \E dir \in {"up", "down"} : Start(m, dir)
    \/ RunFile(m) \/ StopOnError(m) \/ LoseConnection(m) \/ Kill(m)

Use ==
  \/ \E o \in Order : PlaceOrder(o)
  \/ \E f \in Refund : RequestRefund(f) \/ FailRefund(f)
  \/ \E u \in User, k \in KeyName : ClaimKey(u, k)

Next == Migrate \/ Use

Spec == Init /\ [][Next]_vars

-----------------------------------------------------------------------------
(***************************************************************************)
(* Properties                                                              *)
(***************************************************************************)
TypeOK ==
  /\ applied \subseteq File
  /\ run \in [Runner -> [dir : {"up", "down"}, next : 0..7, state : Ends \cup {"running"}]]
  /\ \A m \in Runner : Running(m) => run[m].next \in File
  /\ orders \subseteq Order /\ refunds \subseteq Refund /\ failed \subseteq refunds
  /\ keys \subseteq User \X KeyName

\* Whatever runs were started, repeated, refused, broken off or started at the same
\* time, the schema is that of the first n files for some n, never a mixture.
SchemaIsPrefix == \E n \in 0..6 : applied = 1..n

Underway(m) == Running(m) /\ run[m].next # (IF run[m].dir = "up" THEN 1 ELSE 6)

\* Of runs at the same time only one gets past its first file, although nothing
\* locks the database: 001_up needs an empty schema and 006_down a full one.
OneRunUnderway == \A m, n \in Runner : Underway(m) /\ Underway(n) => m = n

\* Orders and refunds are deleted only by the step that leaves an empty schema.
\* Running "up" again on a database in use is refused before 002 truncates the
\* orders, and a "down" that is refused half way has deleted none.
RowsGoLast ==
  [][ \/ orders \subseteq orders' /\ refunds \subseteq refunds'
      \/ applied' = {} ]_vars

\* Who is told that all migrations were executed (migrate.ts:51) has the schema
\* of all files, or the empty one, whatever other runs there were on the way: files
\* that two runs applied by turns are never reported as one complete run.
ExitTellsSchema ==
  [][ \A m \in Runner :
        Running(m) /\ run'[m].state = "done" =>
          applied' = IF run[m].dir = "up" THEN File ELSE {} ]_vars

\* What PostgreSQL refuses a run for that has got past its first file are rows over
\* which a down file cannot restore a constraint, never what other runs did. (A run
\* that loses its connection exits with 1 too, but nothing refused it.)
RefusedForRows ==
  [][ \A m \in Runner :
        Underway(m) /\ run'[m].state = "refused" =>
          run[m].dir = "down" /\ ~RowsAllow(run[m].next) ]_vars

\* "migrate down" reverses all migrations (README.md:146): PostgreSQL does not refuse
\* a run half way.
DownReversesAll ==
  \A m \in Runner :
    ~ (run[m].dir = "down" /\ run[m].next < 6 /\ run[m].state = "refused")

=============================================================================
