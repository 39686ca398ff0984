---------------------------- MODULE Idempotency ----------------------------
(***************************************************************************)
(* The middleware checkIdempotency and the table idempotency_keys. A       *)
(* request with a key first inserts the key, then runs the operation it    *)
(* guards, then completes or deletes the key and answers. Requests with    *)
(* one key are the first attempt and the retries of one operation; a       *)
(* client may send them one after the other or at the same time.           *)
(*                                                                         *)
(* The operation is one that can succeed every time it runs, as createOrder *)
(* can. It is one step: what other requests see of it is modelled in       *)
(* module Engine, and here only how often it took effect counts.           *)
(***************************************************************************)

CONSTANTS
  Request,  \* HTTP requests, each sent at most once
  Key,      \* (user_id, idempotency_key) pairs
  KeyOf,    \* the key a request carries
  Fault,    \* the faults that may happen
  None      \* no request

(***************************************************************************)
(* "disconnect": a client closes its connection while the operation runs.  *)
(* "lostAck":    the operation commits, but the server is told it failed   *)
(*               (the connection to PostgreSQL breaks during COMMIT).      *)
(* "queryError": a statement on idempotency_keys fails.                    *)
(* "crash":      the server process stops.                                 *)
(***************************************************************************)
FaultKind == {"disconnect", "lostAck", "queryError", "crash"}

ASSUME Requests ==
  /\ KeyOf \in [Request -> Key]
  /\ Fault \subseteq FaultKind
  /\ None \notin Request

VARIABLES
  row,      \* idempotency_keys.status, or "absent"
  answer,   \* the request whose result response_body holds
  pc,       \* what each request does next
  conn,     \* a request's connection: open, or its close handler has called
            \* release() ("closing"), or that has been done ("closed")
  ran,      \* requests whose operation took effect
  reply     \* the request whose result the client was told is its own

vars == <<row, answer, pc, conn, ran, reply>>

PC == {"unsent", "lookup", "handle", "persist", "release",
       "answer", "refuse", "done", "dead"}

\* From the INSERT that returned a row to the statement that settles the key,
\* "this request owns the key".
Owning == {"handle", "persist", "release"}

Init ==
  /\ row = [k \in Key |-> "absent"]
  /\ answer = [k \in Key |-> None]
  /\ pc = [r \in Request |-> "unsent"]
  /\ conn = [r \in Request |-> "open"]
  /\ ran = {}
  /\ reply = [r \in Request |-> None]

-----------------------------------------------------------------------------
Goto(r, p) == pc' = [pc EXCEPT ![r] = p]

\* Variant: INSERT ... ON CONFLICT DO UPDATE.
ClaimAnyKey(r) ==
  LET k == KeyOf[r]
  IN  /\ pc[r] = "unsent"
      /\ row' = [row EXCEPT ![k] = "in_progress"]
      /\ Goto(r, "handle")
      /\ UNCHANGED <<answer, conn, ran, reply>>

\* INSERT ... ON CONFLICT DO NOTHING RETURNING id
ClaimKey(r) ==
  LET k == KeyOf[r]
  IN  /\ pc[r] = "unsent"
      /\ \/ /\ row[k] = "absent"
            /\ row' = [row EXCEPT ![k] = "in_progress"]
            /\ answer' = [answer EXCEPT ![k] = None]
            /\ Goto(r, "handle")
         \/ /\ row[k] # "absent"
            /\ Goto(r, "lookup")
            /\ UNCHANGED <<row, answer>>
      /\ UNCHANGED <<conn, ran, reply>>

\* Variant: a key in progress is taken over instead of refused.
TakeOverKey(r) ==
  LET k == KeyOf[r]
  IN  /\ pc[r] = "lookup"
      /\ \/ /\ row[k] = "completed"
            /\ reply' = [reply EXCEPT ![r] = answer[k]]
            /\ Goto(r, "done")
         \/ /\ row[k] # "completed"
            /\ Goto(r, "handle")
            /\ UNCHANGED reply
      /\ UNCHANGED <<row, answer, conn, ran>>

\* Replay the stored result of a completed key, or refuse with 409.
LookupKey(r) ==
  LET k == KeyOf[r]
  IN  /\ pc[r] = "lookup"
      /\ \/ row[k] = "completed" /\ reply' = [reply EXCEPT ![r] = answer[k]]
         \/ row[k] # "completed" /\ UNCHANGED reply
      /\ Goto(r, "done")
      /\ UNCHANGED <<row, answer, conn, ran>>

\* Variant: isSuccess is not looked at.
PersistFailures(r) ==
  /\ pc[r] = "handle"
  /\ ran' \in {ran, ran \cup {r}}
  /\ Goto(r, "persist")
  /\ UNCHANGED <<row, answer, conn, reply>>

\* next(): the operation succeeds, or fails without effect, or fails for the
\* server only. The overriding res.json then settles the key.
RunOperation(r) ==
  /\ pc[r] = "handle"
  /\ \/ ran' = ran \cup {r} /\ Goto(r, "persist")
     \/ UNCHANGED ran /\ Goto(r, "release")
     \/ "lostAck" \in Fault /\ ran' = ran \cup {r} /\ Goto(r, "release")
  /\ UNCHANGED <<row, answer, conn, reply>>

\* Variant: a success frees the key too.
ForgetResult(r) ==
  /\ pc[r] = "persist"
  /\ row' = [row EXCEPT ![KeyOf[r]] = "absent"]
  /\ Goto(r, "answer")
  /\ UNCHANGED <<answer, conn, ran, reply>>

\* UPDATE ... SET status = 'completed': whichever request inserted the row, and
\* nothing if there is none.
PersistResult(r) ==
  LET k == KeyOf[r]
  IN  /\ pc[r] = "persist"
      /\ \/ /\ row[k] # "absent"
            /\ row' = [row EXCEPT ![k] = "completed"]
            /\ answer' = [answer EXCEPT ![k] = r]
         \/ /\ row[k] = "absent"
            /\ UNCHANGED <<row, answer>>
      /\ Goto(r, "answer")
      /\ UNCHANGED <<conn, ran, reply>>

\* Variant: a failed key is marked instead of deleted.
MarkFailed(k) ==
  row' = [row EXCEPT ![k] = IF row[k] = "in_progress" THEN "failed" ELSE row[k]]

\* Variant: the DELETE names no key.
DeleteAllInProgress(k) ==
  row' = [j \in Key |-> IF row[j] = "in_progress" THEN "absent" ELSE row[j]]

\* release(): DELETE ... WHERE status = 'in_progress', whichever request
\* inserted the row.
DeleteInProgress(k) ==
  row' = [row EXCEPT ![k] = IF row[k] = "in_progress" THEN "absent" ELSE row[k]]

\* Variant: a failure does not free the key.
KeepKey(r) ==
  /\ pc[r] = "release"
  /\ Goto(r, "refuse")
  /\ UNCHANGED <<row, answer, conn, ran, reply>>

ReleaseKey(r) ==
  /\ pc[r] = "release"
  /\ DeleteInProgress(KeyOf[r])
  /\ Goto(r, "refuse")
  /\ UNCHANGED <<answer, conn, ran, reply>>

\* originalJson: the client is told the result, unless it is gone or goes now.
Respond(r) ==
  /\ \/ pc[r] = "answer" /\ conn[r] = "open" /\ reply' = [reply EXCEPT ![r] = r]
     \/ pc[r] \in {"answer", "refuse"} /\ UNCHANGED reply
  /\ Goto(r, "done")
  /\ UNCHANGED <<row, answer, conn, ran>>

-----------------------------------------------------------------------------
(***************************************************************************)
(* Faults                                                                  *)
(***************************************************************************)

\* The "close" handler of a response that is not settled issues release(). The
\* operation goes on: nothing tells it that its client is gone.
ClientCloses(r) ==
  /\ "disconnect" \in Fault
  /\ pc[r] = "handle"
  /\ conn[r] = "open"
  /\ conn' = [conn EXCEPT ![r] = "closing"]
  /\ UNCHANGED <<row, answer, pc, ran, reply>>

CloseReleases(r) ==
  /\ conn[r] = "closing"
  /\ \/ DeleteInProgress(KeyOf[r])
     \/ "queryError" \in Fault /\ UNCHANGED row
  /\ conn' = [conn EXCEPT ![r] = "closed"]
  /\ UNCHANGED <<answer, pc, ran, reply>>

\* An INSERT that fails (after it took effect, or before) or a SELECT that fails
\* is a 500. An UPDATE or DELETE that fails is logged, and the request answers
\* as if it had not failed.
QueryFails(r) ==
  LET k == KeyOf[r]
  IN  /\ "queryError" \in Fault
      /\ \/ /\ pc[r] = "unsent"
            /\ Goto(r, "refuse")
            /\ \/ UNCHANGED row
               \/ row[k] = "absent" /\ row' = [row EXCEPT ![k] = "in_progress"]
         \/ pc[r] = "lookup" /\ Goto(r, "refuse") /\ UNCHANGED row
         \/ pc[r] = "persist" /\ Goto(r, "answer") /\ UNCHANGED row
         \/ pc[r] = "release" /\ Goto(r, "refuse") /\ UNCHANGED row
      /\ UNCHANGED <<answer, conn, ran, reply>>

\* Every request the server was working on is gone, its operation with or
\* without effect (RunOperation may come first). No code runs at start-up.
Crash ==
  /\ "crash" \in Fault
  /\ \E r \in Request : pc[r] \notin {"unsent", "done", "dead"}
  /\ pc' = [r \in Request |-> IF pc[r] \in {"unsent", "done"} THEN pc[r] ELSE "dead"]
  /\ conn' = [r \in Request |-> IF conn[r] = "closing" THEN "closed" ELSE conn[r]]
  /\ UNCHANGED <<row, answer, ran, reply>>

-----------------------------------------------------------------------------
\* What the server does for a request it has accepted.
Serve(r) ==
  \/ LookupKey(r)
  \/ RunOperation(r)
  \/ PersistResult(r)
  \/ ReleaseKey(r)
  \/ Respond(r)
  \/ CloseReleases(r)

Next ==
  \/ \E r \in Request : ClaimKey(r) \/ Serve(r) \/ ClientCloses(r) \/ QueryFails(r)
  \/ Crash

Spec == Init /\ [][Next]_vars

\* While a request can be served, the event loop and the database do serve one;
\* the operations end (Answered of module ConnectionPool). A request has a few
\* steps and there are finitely many, so each gets its turn. Clients need not send
\* requests.
FairSpec == Spec /\ WF_vars(\E r \in Request : Serve(r))

-----------------------------------------------------------------------------
(***************************************************************************)
(* Properties                                                              *)
(***************************************************************************)

TypeOK ==
  /\ row \in [Key -> {"absent", "in_progress", "completed"}]
  /\ answer \in [Key -> Request \cup {None}]
  /\ pc \in [Request -> PC]
  /\ conn \in [Request -> {"open", "closing", "closed"}]
  /\ ran \subseteq Request
  /\ reply \in [Request -> Request \cup {None}]

\* An operation takes effect at most once, however often and whenever it is
\* retried (README.md:551).
AtMostOnce ==
  \A r, s \in ran : KeyOf[r] = KeyOf[s] => r = s

\* Two requests never run the operation of one key at the same time, and the
\* key stays in progress until its owner settles it.
OwnedByOne(k) ==
  \A r, s \in {q \in Request : KeyOf[q] = k /\ pc[q] \in Owning} :
    r = s /\ row[k] = "in_progress"

OneOwner == \A k \in Key : OwnedByOne(k)

\* Whatever goes wrong, a client is told that an operation succeeded only if it
\* took effect, for this key: a failed or unfinished one is never replayed.
NoFalseSuccess ==
  \A r \in Request : reply[r] # None => reply[r] \in ran /\ KeyOf[reply[r]] = KeyOf[r]

\* All requests of a key that are told the operation succeeded are told the same
\* result.
ToldTheSame(k) ==
  \A r, s \in {q \in Request : KeyOf[q] = k /\ reply[q] # None} : reply[r] = reply[s]

SameAnswer == \A k \in Key : ToldTheSame(k)

\* The release of the close handler may hit any request that has the key, but no
\* other key, and none before it: as long as no client of a key has gone, the key
\* has one owner and one result, whoever disconnects from the requests of others.
Undisturbed(k) == \A r \in Request : KeyOf[r] = k => conn[r] = "open"

SafeUntilClose ==
  \A k \in Key : Undisturbed(k) => OwnedByOne(k) /\ ToldTheSame(k)

\* What the middleware is for (OnceOnly): whatever retries, crashes and failing
\* statements do, the requests of a key take effect like one request.
Promise == INSTANCE OnceOnly WITH took <- [k \in Key |-> {r \in ran : KeyOf[r] = k}]

ImplementsOnceOnly == Promise!Spec

\* A completed key keeps its result for ever.
CompletedForGood ==
  [][ \A k \in Key : row[k] = "completed" =>
        row'[k] = "completed" /\ answer'[k] = answer[k] ]_vars

\* A key is in progress only while some request is on its way to settle it,
\* although a release may delete, and a result complete, the row of another
\* request: who finds the key in progress waits for somebody. (The 409 "already
\* being processed" is also sent for a row released since the INSERT, line 51.)
InProgressIsOwned ==
  \A k \in Key : row[k] = "in_progress" =>
    \E r \in Request : KeyOf[r] = k /\ pc[r] \in Owning

\* A key does not stay in progress: its request is answered, or its client has
\* gone and the key is released (README.md:559), so that the operation can be
\* retried with the key after a transient failure (README.md:558).
KeysSettle ==
  \A k \in Key : []<>(row[k] # "in_progress")

=============================================================================
