-------------------------- MODULE MigrationsProofs --------------------------
(***************************************************************************)
(* Proofs about module Migrations, for any number of runners, orders,      *)
(* refunds and keys.                                                       *)
(***************************************************************************)
EXTENDS Migrations, TLAPS

\* The schema as the run that is underway has left it.
Reached(m) == IF run[m].dir = "up" THEN 1..(run[m].next - 1) ELSE 1..run[m].next

UnderwayReached == \A m \in Runner : Underway(m) => applied = Reached(m)

\* An up run has found an empty database, and nothing is placed before its end.
NothingToWipe ==
  /\ applied = {} => orders = {} /\ refunds = {}
  /\ \A m \in Runner : Underway(m) /\ run[m].dir = "up" /\ run[m].next = 2 =>
                         orders = {} /\ refunds = {}

MInv ==
  /\ TypeOK
  /\ SchemaIsPrefix
  /\ UnderwayReached
  /\ OneRunUnderway
  /\ NothingToWipe

-----------------------------------------------------------------------------
\* The file a run is about to apply is the next one of the schema it finds.
LEMMA FileFits ==
  ASSUME MInv, NEW m \in Runner, Running(m), Applies(m)
  PROVE  /\ run[m].dir \in {"up", "down"} /\ run[m].next \in File
         /\ applied = Reached(m)
<1>1. run[m].dir \in {"up", "down"} /\ run[m].next \in File
  BY DEF MInv, TypeOK
<1>2. PICK n \in 0..6 : applied = 1..n
  BY DEF MInv, SchemaIsPrefix
<1>3. CASE Underway(m)
  BY <1>1, <1>3 DEF MInv, UnderwayReached
<1>4. CASE run[m].dir = "up" /\ run[m].next = 1
  <2>1. 1 \notin applied
    BY <1>4 DEF Applies, UpApplies
  <2> QED
    BY <1>1, <1>2, <1>4, <2>1 DEF Reached
<1>5. CASE run[m].dir = "down" /\ run[m].next = 6
  <2>1. 6 \in applied
    BY <1>5 DEF Applies, DownApplies
  <2>2. n = 6
    BY <1>2, <2>1
  <2> QED
    BY <1>1, <1>2, <1>5, <2>2 DEF Reached
<1> QED
  BY <1>1, <1>3, <1>4, <1>5 DEF Underway, File

\* Only a run that could begin, or that is underway, applies a file; so no other
\* run is underway.
LEMMA OthersWait ==
  ASSUME MInv, NEW m \in Runner, Running(m), Applies(m), NEW s \in Runner, s # m
  PROVE  ~Underway(s)
<1> SUFFICES ASSUME Underway(s) PROVE FALSE
  OBVIOUS
<1>1. /\ run[m].dir \in {"up", "down"} /\ run[m].next \in File
      /\ applied = Reached(m)
  BY FileFits
<1>2. ~Underway(m)
  BY DEF MInv, OneRunUnderway
<1>3. /\ run[s].dir \in {"up", "down"} /\ run[s].next \in File
      /\ applied = Reached(s)
  BY DEF MInv, TypeOK, UnderwayReached, Underway
<1>4. CASE run[m].dir = "up"
  <2>1. 1 \notin applied
    BY <1>1, <1>2, <1>4 DEF Underway, Reached
  <2>2. 1 \in applied
    BY <1>3 DEF Underway, Reached, File
  <2> QED
    BY <2>1, <2>2
<1>5. CASE run[m].dir = "down"
  <2>1. 6 \in applied
    BY <1>1, <1>2, <1>5 DEF Underway, Reached
  <2>2. 6 \notin applied
    BY <1>3 DEF Underway, Reached, File
  <2> QED
    BY <2>1, <2>2
<1> QED
  BY <1>1, <1>4, <1>5

\* The schema after a file is again that of the first files.
LEMMA FileStep ==
  ASSUME MInv, NEW m \in Runner, FileCommits(m)
  PROVE  /\ run[m].dir \in {"up", "down"} /\ run[m].next \in File
         /\ applied = Reached(m)
         /\ applied' = IF run[m].dir = "up" THEN 1..run[m].next
                                            ELSE 1..(run[m].next - 1)
<1>1. /\ run[m].dir \in {"up", "down"} /\ run[m].next \in File
      /\ applied = Reached(m)
  BY FileFits DEF FileCommits
<1> DEFINE n == run[m].next
<1>2. CASE run[m].dir = "up"
  <2>1. applied = 1..(n - 1) /\ applied' = applied \cup {n}
    BY <1>1, <1>2 DEF FileCommits, Apply, Reached
  <2> QED
    BY <1>1, <1>2, <2>1 DEF File
<1>3. CASE run[m].dir = "down"
  <2>1. applied = 1..n /\ applied' = applied \ Drops(n)
    BY <1>1, <1>3 DEF FileCommits, Apply, Reached
  <2>2. 1..n \ Drops(n) = 1..(n - 1)
    BY <1>1 DEF Drops, File
  <2> QED
    BY <1>1, <1>3, <2>1, <2>2
<1> QED
  BY <1>1, <1>2, <1>3

\* A file deletes rows that exist only when it leaves the empty schema.
LEMMA WipeStep ==
  ASSUME MInv, NEW m \in Runner, FileCommits(m)
  PROVE  \/ UNCHANGED <<orders, refunds, failed>>
         \/ orders' = {} /\ refunds' = {} /\ failed' = {} /\ applied' = {}
         \/ /\ orders = {} /\ refunds = {}
            /\ orders' = {} /\ refunds' = {} /\ failed' = {}
<1>1. /\ run[m].dir \in {"up", "down"} /\ run[m].next \in File
      /\ applied' = IF run[m].dir = "up" THEN 1..run[m].next ELSE 1..(run[m].next - 1)
  BY FileStep
<1>2. CASE ~WipesOrders(run[m].dir, run[m].next)
  BY <1>2 DEF FileCommits, Apply
<1>3. CASE run[m].dir = "up" /\ run[m].next = 2
  <2>1. Underway(m)
    BY <1>3 DEF FileCommits, Underway
  <2>2. orders = {} /\ refunds = {}
    BY <1>3, <2>1 DEF MInv, NothingToWipe
  <2>3. orders' = {} /\ refunds' = {} /\ failed' = {}
    BY <1>3 DEF FileCommits, Apply, WipesOrders
  <2> QED
    BY <2>2, <2>3
<1>4. CASE run[m].dir = "down" /\ run[m].next = 1
  <2>1. orders' = {} /\ refunds' = {} /\ failed' = {}
    BY <1>4 DEF FileCommits, Apply, WipesOrders
  <2>2. applied' = {}
    BY <1>1, <1>4
  <2> QED
    BY <2>1, <2>2
<1> QED
  BY <1>2, <1>3, <1>4 DEF WipesOrders

\* What a file leaves, whatever becomes of the run that sent it.
LEMMA CommitLeaves ==
  ASSUME MInv, NEW m \in Runner, FileCommits(m)
  PROVE  /\ applied' \subseteq File /\ SchemaIsPrefix'
         /\ orders' \subseteq Order /\ refunds' \subseteq Refund /\ failed' \subseteq refunds'
         /\ keys' \subseteq User \X KeyName
         /\ applied' = {} => orders' = {} /\ refunds' = {}
<1> DEFINE n == run[m].next
           up == run[m].dir = "up"
<1>1. /\ run[m].dir \in {"up", "down"} /\ n \in File
      /\ applied' = IF up THEN 1..n ELSE 1..(n - 1)
  BY FileStep
<1>2. applied' \subseteq File
  BY <1>1 DEF File
<1>3. SchemaIsPrefix'
  <2>1. n \in 0..6 /\ n - 1 \in 0..6
    BY <1>1 DEF File
  <2>2. applied' = 1..n \/ applied' = 1..(n - 1)
    BY <1>1
  <2> QED
    BY <2>1, <2>2 DEF SchemaIsPrefix
<1>4. orders' \subseteq Order /\ refunds' \subseteq Refund /\ failed' \subseteq refunds'
  BY WipeStep DEF MInv, TypeOK
<1>5. keys' \subseteq User \X KeyName
  BY DEF FileCommits, Apply, MInv, TypeOK
<1>6. applied' = {} => orders' = {} /\ refunds' = {}
  <2>1. applied' = {} => ~up /\ n = 1
    BY <1>1 DEF File
  <2>2. ~up /\ n = 1 => orders' = {} /\ refunds' = {}
    BY <1>1 DEF FileCommits, Apply, WipesOrders
  <2> QED
    BY <2>1, <2>2
<1> QED
  BY <1>2, <1>3, <1>4, <1>5, <1>6

-----------------------------------------------------------------------------
LEMMA RunFileInv == ASSUME MInv, NEW m \in Runner, RunFile(m) PROVE MInv'
<1> DEFINE n == run[m].next
           up == run[m].dir = "up"
           f == IF up THEN n + 1 ELSE n - 1
           q == [dir |-> run[m].dir, next |-> f, state |-> IF f \in File THEN "running" ELSE "done"]
<1>1. /\ run[m].dir \in {"up", "down"} /\ n \in File
      /\ applied' = IF up THEN 1..n ELSE 1..(n - 1)
  BY FileStep DEF RunFile
<1>2. run' = [run EXCEPT ![m] = q] /\ f \in 0..7
  BY <1>1 DEF RunFile, GoOn, File
<1> HIDE DEF q
<1>3. /\ q.dir = run[m].dir /\ q.next = f
      /\ q.state = IF f \in File THEN "running" ELSE "done"
      /\ q \in [dir : {"up", "down"}, next : 0..7, state : Ends \cup {"running"}]
  BY <1>1, <1>2 DEF q, Ends
<1>4. \A s \in Runner : run'[s] = IF s = m THEN q ELSE run[s]
  BY <1>2 DEF MInv, TypeOK
<1>5. \A s \in Runner : s # m => ~Underway(s) /\ ~Underway(s)'
  <2>1. \A s \in Runner : s # m => ~Underway(s)
    BY OthersWait DEF RunFile, FileCommits
  <2> QED
    BY <1>4, <2>1 DEF Underway, Running
<1>6. /\ run' \in [Runner -> [dir : {"up", "down"}, next : 0..7, state : Ends \cup {"running"}]]
      /\ \A s \in Runner : Running(s)' => run'[s].next \in File
  BY <1>2, <1>3, <1>4 DEF MInv, TypeOK, Running
<1>7. TypeOK' /\ SchemaIsPrefix'
  BY <1>6, CommitLeaves DEF RunFile, TypeOK
<1>8. UnderwayReached' /\ OneRunUnderway'
  <2>1. applied' = Reached(m)'
    BY <1>1, <1>3, <1>4 DEF Reached, File
  <2> QED
    BY <1>5, <2>1 DEF UnderwayReached, OneRunUnderway
<1>9. NothingToWipe'
  <2>1. up /\ f = 2 => orders' = {} /\ refunds' = {}
    <3>1. up /\ f = 2 => applied = {}
      BY <1>1, FileStep DEF RunFile, Reached, File
    <3> QED
      BY <3>1, WipeStep DEF RunFile, MInv, NothingToWipe
  <2> QED
    BY <1>3, <1>4, <1>5, <2>1, CommitLeaves DEF RunFile, NothingToWipe
<1> QED
  BY <1>7, <1>8, <1>9 DEF MInv

\* A run breaks off after its file took effect: nobody is underway.
LEMMA LostAnswerInv ==
  ASSUME MInv, NEW m \in Runner, NEW end \in {"lost", "killed"},
         FileCommits(m), run' = [run EXCEPT ![m].state = end]
  PROVE  MInv'
<1>1. \A s \in Runner : ~Underway(s)'
  <2>1. \A s \in Runner : s # m => ~Underway(s)
    BY OthersWait DEF FileCommits
  <2> QED
    BY <2>1 DEF Underway, Running, MInv, TypeOK
<1>2. /\ run' \in [Runner -> [dir : {"up", "down"}, next : 0..7, state : Ends \cup {"running"}]]
      /\ \A s \in Runner : Running(s)' => run'[s].next \in File
  BY DEF MInv, TypeOK, Running, Ends
<1>3. TypeOK' /\ SchemaIsPrefix'
  BY <1>2, CommitLeaves DEF TypeOK
<1>4. UnderwayReached' /\ OneRunUnderway' /\ NothingToWipe'
  BY <1>1, CommitLeaves DEF UnderwayReached, OneRunUnderway, NothingToWipe
<1> QED
  BY <1>3, <1>4 DEF MInv

\* A runner starts or ends and no file is executed; whoever is underway was so before.
LEMMA RunnerInv ==
  ASSUME MInv, NEW m \in Runner, UNCHANGED <<applied, rows>>,
         \/ \E dir \in {"up", "down"} : Start(m, dir)
         \/ \E end \in Ends : run' = [run EXCEPT ![m].state = end]
  PROVE  MInv'
<1>1. /\ run' \in [Runner -> [dir : {"up", "down"}, next : 0..7, state : Ends \cup {"running"}]]
      /\ \A s \in Runner : Running(s)' => run'[s].next \in File
      /\ \A s \in Runner : Underway(s)' => Underway(s) /\ run'[s] = run[s]
  <2>1. ASSUME NEW dir \in {"up", "down"}, Start(m, dir) PROVE <1>1!:
    BY <2>1 DEF Start, MInv, TypeOK, Running, Underway, Ends, File
  <2>2. ASSUME NEW end \in Ends, run' = [run EXCEPT ![m].state = end] PROVE <1>1!:
    BY <2>2 DEF MInv, TypeOK, Running, Underway, Ends, File
  <2> QED
    BY <2>1, <2>2
<1> QED
  BY <1>1 DEF rows, MInv, TypeOK, SchemaIsPrefix, UnderwayReached, Reached,
              OneRunUnderway, NothingToWipe

LEMMA BreakOffInv ==
  ASSUME MInv, NEW m \in Runner, LoseConnection(m) \/ Kill(m) PROVE MInv'
<1>1. PICK end \in {"lost", "killed"} : BreakOff(m, end)
  BY DEF LoseConnection, Kill
<1>2. CASE FileCommits(m)
  BY <1>1, <1>2, LostAnswerInv DEF BreakOff
<1>3. CASE UNCHANGED <<applied, rows>>
  BY <1>1, <1>3, RunnerInv DEF BreakOff, Ends
<1> QED
  BY <1>1, <1>2, <1>3 DEF BreakOff

LEMMA MigrateInv == ASSUME MInv, Migrate PROVE MInv'
<1>1. ASSUME NEW m \in Runner, NEW dir \in {"up", "down"}, Start(m, dir) PROVE MInv'
  BY <1>1, RunnerInv DEF Start
<1>2. ASSUME NEW m \in Runner, StopOnError(m) PROVE MInv'
  BY <1>2, RunnerInv DEF StopOnError, Ends
<1> QED
  BY <1>1, <1>2, RunFileInv, BreakOffInv DEF Migrate

\* The program needs tables that no run in its way has left.
LEMMA UseInv == ASSUME MInv, Use PROVE MInv'
<1>1. /\ UNCHANGED <<applied, run>> /\ 4 \in applied
      /\ orders' \subseteq Order /\ refunds' \subseteq Refund /\ failed' \subseteq refunds'
      /\ keys' \subseteq User \X KeyName
  <2>1. ASSUME NEW o \in Order, PlaceOrder(o) PROVE <1>1!:
    BY <2>1 DEF PlaceOrder, MInv, TypeOK
  <2>2. ASSUME NEW f \in Refund, RequestRefund(f) \/ FailRefund(f) PROVE <1>1!:
    BY <2>2 DEF RequestRefund, FailRefund, MInv, TypeOK
  <2>3. ASSUME NEW u \in User, NEW k \in KeyName, ClaimKey(u, k) PROVE <1>1!:
    BY <2>3 DEF ClaimKey, MInv, TypeOK
  <2> QED
    BY <2>1, <2>2, <2>3 DEF Use
<1>2. \A s \in Runner : Underway(s)' <=> Underway(s)
  BY <1>1 DEF Underway, Running
<1>3. NothingToWipe'
  <2>1. ASSUME NEW s \in Runner, Underway(s), run[s].dir = "up", run[s].next = 2
        PROVE  FALSE
    BY <1>1, <2>1 DEF MInv, UnderwayReached, Reached
  <2> QED
    BY <1>1, <1>2, <2>1 DEF NothingToWipe
<1> QED
  BY <1>1, <1>2, <1>3 DEF MInv, TypeOK, Running, SchemaIsPrefix, UnderwayReached, Reached,
                          OneRunUnderway

LEMMA StepInv == MInv /\ [Next]_vars => MInv'
<1> SUFFICES ASSUME MInv, [Next]_vars PROVE MInv'
  OBVIOUS
<1>1. CASE UNCHANGED vars
  BY <1>1 DEF vars, rows, MInv, TypeOK, Running, SchemaIsPrefix, UnderwayReached, Reached,
              Underway, OneRunUnderway, NothingToWipe
<1> QED
  BY <1>1, MigrateInv, UseInv DEF Next

LEMMA Invariant == Spec => []MInv
<1>1. Init => MInv
  BY DEF Init, MInv, TypeOK, Ends, SchemaIsPrefix, UnderwayReached, Underway, Running,
         OneRunUnderway, NothingToWipe
<1> QED
  BY <1>1, StepInv, PTL DEF Spec

\* However many runs are started, repeated, refused or broken off, at the same
\* time or not, the schema is that of the first n files.
THEOREM SchemaSound == Spec => []SchemaIsPrefix
<1>1. MInv => SchemaIsPrefix
  BY DEF MInv
<1> QED
  BY <1>1, Invariant, PTL

\* Nothing locks the database, and still one run at most proceeds at a time.
THEOREM RunsTakeTurns == Spec => []OneRunUnderway
<1>1. MInv => OneRunUnderway
  BY DEF MInv
<1> QED
  BY <1>1, Invariant, PTL

\* A run that reports success has applied the last file, so that the schema is
\* complete, or empty, whoever applied the files before it.
THEOREM ReportsAreTrue == Spec => ExitTellsSchema
<1> DEFINE Told == \A m \in Runner :
                     Running(m) /\ run'[m].state = "done" =>
                       applied' = IF run[m].dir = "up" THEN File ELSE {}
<1>1. MInv /\ [Next]_vars => [Told]_vars
  <2> SUFFICES ASSUME MInv, [Next]_vars, NEW m \in Runner,
                      Running(m), run'[m].state = "done"
               PROVE  applied' = IF run[m].dir = "up" THEN File ELSE {}
    OBVIOUS
  <2>1. ASSUME NEW s \in Runner, RunFile(s)
        PROVE  applied' = IF run[m].dir = "up" THEN File ELSE {}
    <3>1. s = m
      BY <2>1 DEF RunFile, FileCommits, GoOn, Running, MInv, TypeOK
    <3>2. /\ run[m].dir \in {"up", "down"} /\ run[m].next \in File
          /\ applied' = IF run[m].dir = "up" THEN 1..run[m].next ELSE 1..(run[m].next - 1)
      BY <2>1, <3>1, FileStep DEF RunFile
    <3>3. (IF run[m].dir = "up" THEN run[m].next + 1 ELSE run[m].next - 1) \notin File
      <4> DEFINE n == IF run[m].dir = "up" THEN run[m].next + 1 ELSE run[m].next - 1
      <4> HIDE DEF n
      <4>1. run'[m].state = IF n \in File THEN "running" ELSE "done"
        BY <2>1, <3>1 DEF RunFile, GoOn, MInv, TypeOK, n
      <4> QED
        BY <4>1 DEF n
    <3>4. run[m].next = IF run[m].dir = "up" THEN 6 ELSE 1
      BY <3>2, <3>3 DEF File
    <3>5. CASE run[m].dir = "up"
      BY <3>2, <3>4, <3>5 DEF File
    <3>6. CASE run[m].dir = "down"
      <4>1. applied' = 1..0
        BY <3>2, <3>4, <3>6
      <4> QED
        BY <3>6, <4>1
    <3> QED
      BY <3>2, <3>5, <3>6
  <2>2. ASSUME NEW s \in Runner,
               \/ \E dir \in {"up", "down"} : Start(s, dir)
               \/ StopOnError(s) \/ LoseConnection(s) \/ Kill(s)
        PROVE  FALSE
    BY <2>2 DEF Start, StopOnError, LoseConnection, Kill, BreakOff, Running, MInv, TypeOK
  <2>3. CASE Use \/ UNCHANGED vars
    BY <2>3 DEF Use, PlaceOrder, RequestRefund, FailRefund, ClaimKey, vars, Running
  <2> QED
    BY <2>1, <2>2, <2>3 DEF Next, Migrate
<1> QED
  BY <1>1, Invariant, PTL DEF Spec, ExitTellsSchema

\* No run deletes an order or a refund before everything else is gone.
THEOREM RowsAreSafe == Spec => RowsGoLast
<1>1. MInv /\ [Next]_vars =>
        [(orders \subseteq orders' /\ refunds \subseteq refunds') \/ applied' = {}]_vars
  <2> SUFFICES ASSUME MInv, [Next]_vars
               PROVE  (orders \subseteq orders' /\ refunds \subseteq refunds') \/ applied' = {}
    OBVIOUS
  <2>1. ASSUME NEW m \in Runner, FileCommits(m)
        PROVE  (orders \subseteq orders' /\ refunds \subseteq refunds') \/ applied' = {}
    BY <2>1, WipeStep
  <2>2. ASSUME NEW m \in Runner,
               \/ \E dir \in {"up", "down"} : Start(m, dir)
               \/ RunFile(m) \/ StopOnError(m) \/ LoseConnection(m) \/ Kill(m)
        PROVE  FileCommits(m) \/ UNCHANGED <<orders, refunds>>
    BY <2>2 DEF Start, RunFile, StopOnError, LoseConnection, Kill, BreakOff, rows
  <2>3. CASE Use
    BY <2>3 DEF Use, PlaceOrder, RequestRefund, FailRefund, ClaimKey
  <2>4. CASE UNCHANGED vars
    BY <2>4 DEF vars, rows
  <2> QED
    BY <2>1, <2>2, <2>3, <2>4 DEF Next, Migrate
<1> QED
  BY <1>1, Invariant, PTL DEF Spec, RowsGoLast

\* A run underway finds what the file it sends next alters, creates or drops.
LEMMA OnlyRowsRefuse ==
  ASSUME MInv, NEW m \in Runner, Underway(m), ~Applies(m)
  PROVE  run[m].dir = "down" /\ ~RowsAllow(run[m].next)
<1>1. /\ run[m].dir \in {"up", "down"} /\ run[m].next \in File
      /\ applied = Reached(m)
  BY DEF MInv, TypeOK, UnderwayReached, Underway
<1>2. CASE run[m].dir = "up"
  <2>1. applied = 1..(run[m].next - 1) /\ run[m].next # 1
    BY <1>1, <1>2 DEF Reached, Underway
  <2>2. run[m].next \notin applied
    BY <1>1, <2>1 DEF File
  <2>3. Alters(run[m].next) \subseteq applied
    BY <1>1, <2>1 DEF Alters, File
  <2> QED
    BY <1>2, <2>2, <2>3 DEF Applies, UpApplies
<1>3. CASE run[m].dir = "down"
  <2>1. run[m].next \in applied
    BY <1>1, <1>3 DEF Reached, File
  <2> QED
    BY <1>3, <2>1 DEF Applies, DownApplies
<1> QED
  BY <1>1, <1>2, <1>3

\* Who is refused was running and could not apply its file.
LEMMA RefusedStep ==
  ASSUME TypeOK, [Next]_vars, NEW m \in Runner, run'[m].state = "refused", run[m].state # "refused"
  PROVE  Running(m) /\ ~Applies(m) /\ run'[m].dir = run[m].dir /\ run'[m].next = run[m].next
<1> USE DEF TypeOK
<1>1. ASSUME NEW s \in Runner, RunFile(s) PROVE FALSE
  <2> DEFINE n == IF run[s].dir = "up" THEN run[s].next + 1 ELSE run[s].next - 1
  <2> HIDE DEF n
  <2>1. run' = [run EXCEPT ![s] = [dir |-> run[s].dir, next |-> n,
                                   state |-> IF n \in File THEN "running" ELSE "done"]]
    BY <1>1 DEF RunFile, GoOn, n
  <2>2. run'[m].state \in {run[m].state, "running", "done"}
    BY <2>1
  <2> QED
    BY <2>2
<1>2. ASSUME NEW s \in Runner,
             (\E dir \in {"up", "down"} : Start(s, dir)) \/ LoseConnection(s) \/ Kill(s)
      PROVE  FALSE
  BY <1>2 DEF Start, LoseConnection, Kill, BreakOff
<1>3. ASSUME NEW s \in Runner, StopOnError(s)
      PROVE  Running(m) /\ ~Applies(m) /\ run'[m].dir = run[m].dir
             /\ run'[m].next = run[m].next
  BY <1>3 DEF StopOnError
<1>4. CASE Use \/ UNCHANGED vars
  BY <1>4 DEF Use, PlaceOrder, RequestRefund, FailRefund, ClaimKey, vars
<1> QED
  BY <1>1, <1>2, <1>3, <1>4 DEF Next, Migrate

\* Other runs never make the file of a run underway fail: only rows do.
THEOREM RefusedOnlyForRows == Spec => RefusedForRows
<1>1. MInv /\ [Next]_vars =>
        [\A m \in Runner :
           Underway(m) /\ run'[m].state = "refused" =>
             run[m].dir = "down" /\ ~RowsAllow(run[m].next)]_vars
  <2> SUFFICES ASSUME MInv, [Next]_vars, NEW m \in Runner, Underway(m), run'[m].state = "refused"
               PROVE  run[m].dir = "down" /\ ~RowsAllow(run[m].next)
    OBVIOUS
  <2>1. run[m].state # "refused"
    BY DEF Underway, Running
  <2> QED
    BY <2>1, RefusedStep, OnlyRowsRefuse DEF MInv
<1> QED
  BY <1>1, Invariant, PTL DEF Spec, RefusedForRows

\* The rows a down file can stop at are absent.
Restorable == \A n \in File : RowsAllow(n)

\* "migrate down" reverses all migrations if it never meets a return with two refunds
\* or a key name of two users: the rows of the counterexample to DownReversesAll are
\* the only reason for which it can be refused half way.
THEOREM DownReversesOtherwise == Spec /\ []Restorable => []DownReversesAll
<1>1. Init => DownReversesAll
  <2>1. ASSUME Init, NEW m \in Runner PROVE run[m].state = "done"
    BY <2>1 DEF Init
  <2> QED
    BY <2>1 DEF DownReversesAll
<1>2. MInv /\ Restorable /\ DownReversesAll /\ [Next]_vars => DownReversesAll'
  <2> SUFFICES ASSUME MInv, Restorable, DownReversesAll, [Next]_vars, NEW m \in Runner,
                      run'[m].dir = "down", run'[m].next < 6, run'[m].state = "refused"
               PROVE  FALSE
    BY DEF DownReversesAll
  <2>1. CASE run[m].state = "refused"
    <3>1. run'[m] = run[m]
      <4> USE DEF MInv, TypeOK
      <4>1. ASSUME NEW s \in Runner, RunFile(s) \/ StopOnError(s) \/ LoseConnection(s) \/ Kill(s)
            PROVE  run'[m] = run[m]
        <5>1. s # m
          BY <2>1, <4>1 DEF RunFile, FileCommits, StopOnError, LoseConnection, Kill, BreakOff, Running
        <5> QED
          BY <4>1, <5>1 DEF RunFile, GoOn, StopOnError, LoseConnection, Kill, BreakOff
      <4>2. ASSUME NEW s \in Runner, NEW dir \in {"up", "down"}, Start(s, dir)
            PROVE  run'[m] = run[m]
        BY <4>2 DEF Start
      <4>3. CASE Use \/ UNCHANGED vars
        BY <4>3 DEF Use, PlaceOrder, RequestRefund, FailRefund, ClaimKey, vars
      <4> QED
        BY <4>1, <4>2, <4>3 DEF Next, Migrate
    <3> QED
      BY <2>1, <3>1 DEF DownReversesAll
  <2>2. CASE run[m].state # "refused"
    <3>1. Running(m) /\ ~Applies(m) /\ run[m].dir = "down" /\ run[m].next < 6
      BY <2>2, RefusedStep DEF MInv
    <3>2. Underway(m) /\ run[m].next \in File
      BY <3>1 DEF Underway, MInv, TypeOK
    <3> QED
      BY <3>1, <3>2, OnlyRowsRefuse DEF Restorable
  <2> QED
    BY <2>1, <2>2
<1> QED
  BY <1>1, <1>2, Invariant, PTL DEF Spec

=============================================================================
