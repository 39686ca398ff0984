------------------------- MODULE IdempotencyProofs -------------------------
(***************************************************************************)
(* Proofs about module Idempotency, for any number of requests and keys.   *)
(***************************************************************************)
EXTENDS Idempotency, TLAPS

-----------------------------------------------------------------------------
(***************************************************************************)
(* Under any fault: results come from operations that took effect.         *)
(***************************************************************************)
Truthful ==
  /\ TypeOK
  /\ \A r \in Request : pc[r] \in {"persist", "answer"} => r \in ran
  /\ \A k \in Key : answer[k] # None => answer[k] \in ran /\ KeyOf[answer[k]] = k
  /\ NoFalseSuccess

LEMMA TruthfulInit == Init => Truthful
BY DEF Init, Truthful, TypeOK, NoFalseSuccess, PC

LEMMA TruthfulStep == Truthful /\ [Next]_vars => Truthful'
<1> SUFFICES ASSUME Truthful, [Next]_vars PROVE Truthful'
  OBVIOUS
<1> USE Requests DEF Truthful, TypeOK, NoFalseSuccess, PC, Goto
<1>1. ASSUME NEW r \in Request, ClaimKey(r) PROVE Truthful'
  BY <1>1 DEF ClaimKey
<1>2. ASSUME NEW r \in Request, LookupKey(r) PROVE Truthful'
  BY <1>2 DEF LookupKey
<1>3. ASSUME NEW r \in Request, RunOperation(r) PROVE Truthful'
  BY <1>3 DEF RunOperation
<1>4. ASSUME NEW r \in Request, PersistResult(r) PROVE Truthful'
  BY <1>4 DEF PersistResult
<1>5. ASSUME NEW r \in Request, ReleaseKey(r) PROVE Truthful'
  BY <1>5 DEF ReleaseKey, DeleteInProgress
<1>6. ASSUME NEW r \in Request, Respond(r) PROVE Truthful'
  BY <1>6 DEF Respond
<1>7. ASSUME NEW r \in Request, CloseReleases(r) PROVE Truthful'
  BY <1>7 DEF CloseReleases, DeleteInProgress
<1>8. ASSUME NEW r \in Request, ClientCloses(r) PROVE Truthful'
  BY <1>8 DEF ClientCloses
<1>9. ASSUME NEW r \in Request, QueryFails(r) PROVE Truthful'
  BY <1>9 DEF QueryFails
<1>10. CASE Crash
  BY <1>10 DEF Crash
<1>11. CASE UNCHANGED vars
  BY <1>11 DEF vars
<1> QED
  BY <1>1, <1>2, <1>3, <1>4, <1>5, <1>6, <1>7, <1>8, <1>9, <1>10, <1>11 DEF Next, Serve

\* Variables hold values of their types, whatever goes wrong.
THEOREM TypeCorrect == Spec => []TypeOK
<1>1. Truthful => TypeOK
  BY DEF Truthful
<1> QED
  BY <1>1, TruthfulInit, TruthfulStep, PTL DEF Spec

\* No failed or unfinished operation is ever reported as a success.
THEOREM Honest == Spec => []NoFalseSuccess
<1>1. Truthful => NoFalseSuccess
  BY DEF Truthful
<1> QED
  BY <1>1, TruthfulInit, TruthfulStep, PTL DEF Spec

-----------------------------------------------------------------------------
(***************************************************************************)
(* As long as no client of a key has disconnected, only its owner deletes  *)
(* or completes its row, whatever else goes wrong, there or elsewhere.      *)
(***************************************************************************)

\* No connection is opened again.
LEMMA ClosedForGood ==
  ASSUME TypeOK, [Next]_vars, NEW k \in Key, Undisturbed(k)'
  PROVE  Undisturbed(k)
<1> SUFFICES ASSUME NEW r \in Request, KeyOf[r] = k, conn[r] # "open" PROVE FALSE
  BY DEF Undisturbed
<1>1. conn'[r] = "open"
  BY DEF Undisturbed
<1> USE DEF TypeOK
<1>2. ASSUME NEW q \in Request, ClientCloses(q) \/ CloseReleases(q) PROVE FALSE
  BY <1>1, <1>2 DEF ClientCloses, CloseReleases
<1>3. ASSUME NEW q \in Request,
             \/ ClaimKey(q) \/ LookupKey(q) \/ RunOperation(q) \/ PersistResult(q)
             \/ ReleaseKey(q) \/ Respond(q) \/ QueryFails(q)
      PROVE  FALSE
  BY <1>1, <1>3 DEF ClaimKey, LookupKey, RunOperation, PersistResult, ReleaseKey, Respond,
                    QueryFails
<1>4. CASE Crash
  BY <1>1, <1>4 DEF Crash
<1>5. CASE UNCHANGED vars
  BY <1>1, <1>5 DEF vars
<1> QED
  BY <1>2, <1>3, <1>4, <1>5 DEF Next, Serve

KeepsResult(k) == row[k] = "completed" => row'[k] = "completed" /\ answer'[k] = answer[k]

\* A step keeps the owners of such a key apart, and its completed row as it is.
LEMMA ExclusiveStep ==
  ASSUME TypeOK, [Next]_vars, NEW k \in Key, Undisturbed(k), OwnedByOne(k)
  PROVE  OwnedByOne(k)' /\ KeepsResult(k)
<1> USE Requests DEF TypeOK, Undisturbed, OwnedByOne, KeepsResult, Owning, Goto
<1>1. ASSUME NEW r \in Request, ClaimKey(r) PROVE OwnedByOne(k)' /\ KeepsResult(k)
  BY <1>1 DEF ClaimKey
<1>2. ASSUME NEW r \in Request, LookupKey(r) PROVE OwnedByOne(k)' /\ KeepsResult(k)
  BY <1>2 DEF LookupKey
<1>3. ASSUME NEW r \in Request, RunOperation(r) PROVE OwnedByOne(k)' /\ KeepsResult(k)
  BY <1>3 DEF RunOperation
<1>4. ASSUME NEW r \in Request, PersistResult(r) PROVE OwnedByOne(k)' /\ KeepsResult(k)
  BY <1>4 DEF PersistResult
<1>5. ASSUME NEW r \in Request, ReleaseKey(r) PROVE OwnedByOne(k)' /\ KeepsResult(k)
  BY <1>5 DEF ReleaseKey, DeleteInProgress
<1>6. ASSUME NEW r \in Request, Respond(r) PROVE OwnedByOne(k)' /\ KeepsResult(k)
  BY <1>6 DEF Respond
<1>7. ASSUME NEW r \in Request, CloseReleases(r) PROVE OwnedByOne(k)' /\ KeepsResult(k)
  BY <1>7 DEF CloseReleases, DeleteInProgress
<1>8. ASSUME NEW r \in Request, ClientCloses(r) PROVE OwnedByOne(k)' /\ KeepsResult(k)
  BY <1>8 DEF ClientCloses
<1>9. ASSUME NEW r \in Request, QueryFails(r) PROVE OwnedByOne(k)' /\ KeepsResult(k)
  BY <1>9 DEF QueryFails
<1>10. CASE Crash
  BY <1>10 DEF Crash
<1>11. CASE UNCHANGED vars
  BY <1>11 DEF vars
<1> QED
  BY <1>1, <1>2, <1>3, <1>4, <1>5, <1>6, <1>7, <1>8, <1>9, <1>10, <1>11 DEF Next, Serve

Exclusive == \A k \in Key : Undisturbed(k) => OwnedByOne(k)

LEMMA ExclusiveInvariant == Spec => []Exclusive
<1>1. Init => Exclusive
  BY DEF Init, Exclusive, OwnedByOne, Owning
<1>2. TypeOK /\ Exclusive /\ [Next]_vars => Exclusive'
  <2> SUFFICES ASSUME TypeOK, Exclusive, [Next]_vars, NEW k \in Key, Undisturbed(k)'
               PROVE  OwnedByOne(k)'
    BY DEF Exclusive
  <2>1. Undisturbed(k)
    BY ClosedForGood
  <2> QED
    BY <2>1, ExclusiveStep DEF Exclusive
<1> QED
  BY <1>1, <1>2, TypeCorrect, PTL DEF Spec

-----------------------------------------------------------------------------
(***************************************************************************)
(* The result clients of such a key are told. An operation whose           *)
(* acknowledgement is lost may take effect twice, but then nobody is told  *)
(* of the first time.                                                      *)
(***************************************************************************)

\* A client was told, or may be told, the result of r.
Won(r) ==
  \/ pc[r] \in {"persist", "answer"}
  \/ answer[KeyOf[r]] = r
  \/ \E s \in Request : KeyOf[s] = KeyOf[r] /\ reply[s] = r

WinnerIsOne(k) ==
  \A r, s \in Request : Won(r) /\ KeyOf[r] = k /\ KeyOf[s] = k =>
    /\ row[k] # "absent"
    /\ Won(s) => s = r
    /\ pc[s] \notin {"handle", "release"}

LEMMA WinnerStep ==
  ASSUME Truthful, [Next]_vars, NEW k \in Key,
         Undisturbed(k), OwnedByOne(k), WinnerIsOne(k)
  PROVE  WinnerIsOne(k)'
<1> USE Requests DEF Truthful, TypeOK, NoFalseSuccess, Undisturbed, OwnedByOne, Owning,
                     WinnerIsOne, Won, Goto
<1>1. ASSUME NEW r \in Request, ClaimKey(r) PROVE WinnerIsOne(k)'
  BY <1>1 DEF ClaimKey
<1>2. ASSUME NEW r \in Request, LookupKey(r) PROVE WinnerIsOne(k)'
  BY <1>2 DEF LookupKey
<1>3. ASSUME NEW r \in Request, RunOperation(r) PROVE WinnerIsOne(k)'
  BY <1>3 DEF RunOperation
<1>4. ASSUME NEW r \in Request, PersistResult(r) PROVE WinnerIsOne(k)'
  BY <1>4 DEF PersistResult
<1>5. ASSUME NEW r \in Request, ReleaseKey(r) PROVE WinnerIsOne(k)'
  BY <1>5 DEF ReleaseKey, DeleteInProgress
<1>6. ASSUME NEW r \in Request, Respond(r) PROVE WinnerIsOne(k)'
  BY <1>6 DEF Respond
<1>7. ASSUME NEW r \in Request, CloseReleases(r) PROVE WinnerIsOne(k)'
  BY <1>7 DEF CloseReleases, DeleteInProgress
<1>8. ASSUME NEW r \in Request, ClientCloses(r) PROVE WinnerIsOne(k)'
  BY <1>8 DEF ClientCloses
<1>9. ASSUME NEW r \in Request, QueryFails(r) PROVE WinnerIsOne(k)'
  BY <1>9 DEF QueryFails
<1>10. CASE Crash
  BY <1>10 DEF Crash
<1>11. CASE UNCHANGED vars
  BY <1>11 DEF vars
<1> QED
  BY <1>1, <1>2, <1>3, <1>4, <1>5, <1>6, <1>7, <1>8, <1>9, <1>10, <1>11 DEF Next, Serve

OneWinner == \A k \in Key : Undisturbed(k) => WinnerIsOne(k)

\* A disconnect harms no request of another key, nor of its own key before it:
\* crashes, failed statements, lost acknowledgements and disconnects elsewhere
\* leave a key with one owner and one result.
THEOREM HarmIsLocal == Spec => []SafeUntilClose
<1>1. Init => OneWinner
  BY Requests DEF Init, OneWinner, WinnerIsOne, Won
<1>2. Truthful /\ Exclusive /\ OneWinner /\ [Next]_vars => OneWinner'
  <2> SUFFICES ASSUME Truthful, Exclusive, OneWinner, [Next]_vars,
                      NEW k \in Key, Undisturbed(k)'
               PROVE  WinnerIsOne(k)'
    BY DEF OneWinner
  <2>1. Undisturbed(k)
    BY ClosedForGood DEF Truthful
  <2> QED
    BY <2>1, WinnerStep DEF Exclusive, OneWinner
<1>3. Truthful /\ Exclusive /\ OneWinner => SafeUntilClose
  <2> SUFFICES ASSUME Truthful, Exclusive, OneWinner, NEW k \in Key, Undisturbed(k)
               PROVE  OwnedByOne(k) /\ ToldTheSame(k)
    BY DEF SafeUntilClose
  <2>1. OwnedByOne(k) /\ WinnerIsOne(k)
    BY DEF Exclusive, OneWinner
  <2>2. ASSUME NEW r \in Request, KeyOf[r] = k, reply[r] # None
        PROVE  reply[r] \in Request /\ KeyOf[reply[r]] = k /\ Won(reply[r])
    BY <2>2 DEF Truthful, NoFalseSuccess, TypeOK, Won
  <2>3. ToldTheSame(k)
    BY <2>1, <2>2 DEF WinnerIsOne, ToldTheSame
  <2> QED
    BY <2>1, <2>3
<1> QED
  BY <1>1, <1>2, <1>3, TruthfulInit, TruthfulStep, ExclusiveInvariant, PTL DEF Spec

-----------------------------------------------------------------------------
(***************************************************************************)
(* Without lost commit acknowledgements, too, the row of an operation that *)
(* took effect is never deleted.                                           *)
(***************************************************************************)
NoLostAck == "lostAck" \notin Fault

EffectKept(k) ==
  \A s \in ran : KeyOf[s] = k =>
    /\ row[k] # "absent"
    /\ \A r \in Request : KeyOf[r] = k => pc[r] \notin {"handle", "release"}
    /\ \A t \in ran : KeyOf[t] = k => s = t

LEMMA EffectStep ==
  ASSUME NoLostAck, TypeOK, [Next]_vars, NEW k \in Key,
         Undisturbed(k), OwnedByOne(k), EffectKept(k)
  PROVE  EffectKept(k)'
<1> USE Requests DEF TypeOK, Undisturbed, OwnedByOne, EffectKept, Owning, Goto
<1>1. ASSUME NEW r \in Request, ClaimKey(r) PROVE EffectKept(k)'
  BY <1>1 DEF ClaimKey
<1>2. ASSUME NEW r \in Request, LookupKey(r) \/ Respond(r) PROVE EffectKept(k)'
  BY <1>2 DEF LookupKey, Respond
<1>3. ASSUME NEW r \in Request, RunOperation(r) PROVE EffectKept(k)'
  BY <1>3, NoLostAck DEF RunOperation, NoLostAck
<1>4. ASSUME NEW r \in Request, PersistResult(r) PROVE EffectKept(k)'
  BY <1>4 DEF PersistResult
<1>5. ASSUME NEW r \in Request, ReleaseKey(r) PROVE EffectKept(k)'
  BY <1>5 DEF ReleaseKey, DeleteInProgress
<1>6. ASSUME NEW r \in Request, CloseReleases(r) \/ ClientCloses(r) PROVE EffectKept(k)'
  BY <1>6 DEF CloseReleases, ClientCloses, DeleteInProgress
<1>7. ASSUME NEW r \in Request, QueryFails(r) PROVE EffectKept(k)'
  BY <1>7 DEF QueryFails
<1>8. CASE Crash
  BY <1>8 DEF Crash
<1>9. CASE UNCHANGED vars
  BY <1>9 DEF vars
<1> QED
  BY <1>1, <1>2, <1>3, <1>4, <1>5, <1>6, <1>7, <1>8, <1>9 DEF Next, Serve

EffectsKept == \A k \in Key : Undisturbed(k) => EffectKept(k)

LEMMA EffectsInvariant == ASSUME NoLostAck PROVE Spec => []EffectsKept
<1>1. Init => EffectsKept
  BY DEF Init, EffectsKept, EffectKept
<1>2. TypeOK /\ Exclusive /\ EffectsKept /\ [Next]_vars => EffectsKept'
  <2> SUFFICES ASSUME TypeOK, Exclusive, EffectsKept, [Next]_vars,
                      NEW k \in Key, Undisturbed(k)'
               PROVE  EffectKept(k)'
    BY DEF EffectsKept
  <2>1. Undisturbed(k)
    BY ClosedForGood
  <2> QED
    BY <2>1, EffectStep, NoLostAck DEF Exclusive, EffectsKept
<1> QED
  BY <1>1, <1>2, TypeCorrect, ExclusiveInvariant, PTL DEF Spec

\* An operation takes effect twice only for a key one of whose clients has gone
\* while it ran, whatever crashes, fails, or is closed elsewhere.
THEOREM TwiceOnlyAfterClose ==
  ASSUME NoLostAck
  PROVE  Spec => [](\A r, s \in ran : KeyOf[r] = KeyOf[s] /\ r # s => ~Undisturbed(KeyOf[r]))
<1>1. TypeOK /\ EffectsKept =>
        \A r, s \in ran : KeyOf[r] = KeyOf[s] /\ r # s => ~Undisturbed(KeyOf[r])
  BY Requests DEF TypeOK, EffectsKept, EffectKept
<1> QED
  BY <1>1, EffectsInvariant, NoLostAck, TypeCorrect, PTL

-----------------------------------------------------------------------------
(***************************************************************************)
(* If no client disconnects while an operation runs, this holds of all     *)
(* keys.                                                                   *)
(***************************************************************************)
NoDisconnect == "disconnect" \notin Fault

AllUndisturbed == \A k \in Key : Undisturbed(k)

LEMMA NobodyGoes == ASSUME NoDisconnect PROVE Spec => []AllUndisturbed
<1> DEFINE Open == \A r \in Request : conn[r] = "open"
<1>1. Init => Open
  BY DEF Init
<1>2. TypeOK /\ Open /\ [Next]_vars => Open'
  <2> SUFFICES ASSUME TypeOK, Open, [Next]_vars PROVE Open'
    OBVIOUS
  <2>1. ASSUME NEW q \in Request, ClientCloses(q) \/ CloseReleases(q) PROVE FALSE
    BY <2>1, NoDisconnect DEF ClientCloses, CloseReleases, NoDisconnect
  <2>2. ASSUME NEW q \in Request,
               \/ ClaimKey(q) \/ LookupKey(q) \/ RunOperation(q) \/ PersistResult(q)
               \/ ReleaseKey(q) \/ Respond(q) \/ QueryFails(q)
        PROVE  UNCHANGED conn
    BY <2>2 DEF ClaimKey, LookupKey, RunOperation, PersistResult, ReleaseKey, Respond,
                QueryFails
  <2>3. CASE Crash
    BY <2>3 DEF Crash, TypeOK
  <2> QED
    BY <2>1, <2>2, <2>3 DEF Next, Serve, vars
<1>3. Open => AllUndisturbed
  BY DEF AllUndisturbed, Undisturbed
<1> QED
  BY <1>1, <1>2, <1>3, TypeCorrect, PTL DEF Spec

\* A key has one owner, and nobody else touches its row, across crashes, failed
\* statements and lost acknowledgements.
THEOREM OwnersExclude == ASSUME NoDisconnect PROVE Spec => []OneOwner
<1>1. AllUndisturbed /\ SafeUntilClose => OneOwner
  BY DEF AllUndisturbed, SafeUntilClose, OneOwner
<1> QED
  BY <1>1, HarmIsLocal, NobodyGoes, NoDisconnect, PTL

\* All retries that are told of a success are told of the same one.
THEOREM Replays == ASSUME NoDisconnect PROVE Spec => []SameAnswer
<1>1. AllUndisturbed /\ SafeUntilClose => SameAnswer
  BY DEF AllUndisturbed, SafeUntilClose, SameAnswer
<1> QED
  BY <1>1, HarmIsLocal, NobodyGoes, NoDisconnect, PTL

\* The result of a completed key never changes.
THEOREM ResultsStay == ASSUME NoDisconnect PROVE Spec => CompletedForGood
<1>1. TypeOK /\ Exclusive /\ AllUndisturbed /\ [Next]_vars =>
        [\A k \in Key : row[k] = "completed" =>
           row'[k] = "completed" /\ answer'[k] = answer[k]]_vars
  BY ExclusiveStep DEF Exclusive, AllUndisturbed, KeepsResult
<1> QED
  BY <1>1, ExclusiveInvariant, NobodyGoes, NoDisconnect, TypeCorrect, PTL
  DEF Spec, CompletedForGood

NoOverlap == NoDisconnect /\ NoLostAck

\* No operation runs for a key for which one has taken effect.
Unrepeated ==
  \A r \in Request, s \in ran : pc[r] = "handle" => KeyOf[s] # KeyOf[r]

LEMMA NeverAgain == ASSUME NoOverlap PROVE Spec => [](AtMostOnce /\ Unrepeated)
<1>1. TypeOK /\ AllUndisturbed /\ EffectsKept => AtMostOnce /\ Unrepeated
  BY Requests DEF TypeOK, AllUndisturbed, EffectsKept, EffectKept, AtMostOnce, Unrepeated
<1> QED
  BY <1>1, EffectsInvariant, NobodyGoes, NoOverlap, TypeCorrect, PTL DEF NoOverlap

\* An operation takes effect at most once per key, across crashes and failed
\* statements.
THEOREM Once == ASSUME NoOverlap PROVE Spec => []AtMostOnce
BY NeverAgain, NoOverlap, PTL

-----------------------------------------------------------------------------
(***************************************************************************)
(* Without crashes and failed statements, but with clients that disconnect *)
(* and lost acknowledgements.                                              *)
(***************************************************************************)
NoOutage == Fault \cap {"crash", "queryError"} = {}

\* A key in progress has a request on its way to settle it, although releases and
\* results name a key and not the request that claimed it.
THEOREM OwnedInProgress == ASSUME NoOutage PROVE Spec => []InProgressIsOwned
<1>1. TypeOK /\ InProgressIsOwned /\ [Next]_vars => InProgressIsOwned'
  <2> SUFFICES ASSUME TypeOK, InProgressIsOwned, [Next]_vars PROVE InProgressIsOwned'
    OBVIOUS
  <2> "crash" \notin Fault /\ "queryError" \notin Fault
    BY NoOutage DEF NoOutage
  <2> USE Requests DEF TypeOK, InProgressIsOwned, Owning, Goto
  <2>1. ASSUME NEW r \in Request, ClaimKey(r) PROVE InProgressIsOwned'
    BY <2>1 DEF ClaimKey
  <2>2. ASSUME NEW r \in Request, LookupKey(r) \/ RunOperation(r) \/ Respond(r)
        PROVE  InProgressIsOwned'
    BY <2>2 DEF LookupKey, RunOperation, Respond
  <2>3. ASSUME NEW r \in Request, PersistResult(r) PROVE InProgressIsOwned'
    BY <2>3 DEF PersistResult
  <2>4. ASSUME NEW r \in Request, ReleaseKey(r) \/ CloseReleases(r) PROVE InProgressIsOwned'
    BY <2>4 DEF ReleaseKey, CloseReleases, DeleteInProgress
  <2>5. ASSUME NEW r \in Request, ClientCloses(r) \/ QueryFails(r) PROVE InProgressIsOwned'
    BY <2>5 DEF ClientCloses, QueryFails
  <2>6. CASE Crash \/ UNCHANGED vars
    BY <2>6 DEF Crash, vars
  <2> QED
    BY <2>1, <2>2, <2>3, <2>4, <2>5, <2>6 DEF Next, Serve
<1>2. Init => InProgressIsOwned
  BY DEF Init, InProgressIsOwned
<1> QED
  BY <1>1, <1>2, TypeCorrect, PTL DEF Spec

-----------------------------------------------------------------------------
(***************************************************************************)
(* The refinement.                                                         *)
(***************************************************************************)

\* A request is told a result when it is done, and not before.
ToldAtEnd == \A r \in Request : reply[r] # None => pc[r] = "done"

LEMMA ToldAtEndStep == TypeOK /\ ToldAtEnd /\ [Next]_vars => ToldAtEnd'
<1> SUFFICES ASSUME TypeOK, ToldAtEnd, [Next]_vars PROVE ToldAtEnd'
  OBVIOUS
<1> USE DEF TypeOK, ToldAtEnd, Goto
<1>1. ASSUME NEW r \in Request,
             LookupKey(r) \/ RunOperation(r) \/ PersistResult(r) \/ ReleaseKey(r)
      PROVE  ToldAtEnd'
  BY <1>1 DEF LookupKey, RunOperation, PersistResult, ReleaseKey
<1>2. ASSUME NEW r \in Request, Respond(r) PROVE ToldAtEnd'
  BY <1>2 DEF Respond
<1>3. ASSUME NEW r \in Request, ClaimKey(r) \/ CloseReleases(r) \/ ClientCloses(r) \/ QueryFails(r)
      PROVE  ToldAtEnd'
  BY <1>3 DEF ClaimKey, CloseReleases, ClientCloses, QueryFails
<1>4. CASE Crash \/ UNCHANGED vars
  BY <1>4 DEF Crash, vars
<1> QED
  BY <1>1, <1>2, <1>3, <1>4 DEF Next, Serve

LEMMA OnceOnlyStep ==
  ASSUME Truthful, Unrepeated, ToldAtEnd, [Next]_vars
  PROVE  Promise!Next \/ (UNCHANGED ran /\ UNCHANGED reply)
<1> DEFINE took == [k \in Key |-> {r \in ran : KeyOf[r] = k}]
<1> USE Requests DEF Truthful, TypeOK
<1>1. ASSUME NEW r \in Request, RunOperation(r) PROVE Promise!Next \/ UNCHANGED <<ran, reply>>
  <2>1. CASE ran' = ran \cup {r}
    <3>1. \A s \in ran : KeyOf[s] # KeyOf[r]
      BY <1>1 DEF RunOperation, Unrepeated
    <3>2. took[KeyOf[r]] = {} /\ took' = [took EXCEPT ![KeyOf[r]] = {r}]
      <4>1. KeyOf[r] \in Key
        OBVIOUS
      <4>2. took[KeyOf[r]] = {}
        BY <3>1, <4>1
      <4>3. took' = [k \in Key |-> {s \in ran \cup {r} : KeyOf[s] = k}]
        BY <2>1
      <4>4. ASSUME NEW k \in Key
            PROVE  {s \in ran \cup {r} : KeyOf[s] = k} =
                     IF k = KeyOf[r] THEN {r} ELSE {s \in ran : KeyOf[s] = k}
        BY <3>1
      <4>5. took' = [k \in Key |-> IF k = KeyOf[r] THEN {r} ELSE took[k]]
        BY <4>3, <4>4
      <4> QED
        BY <4>2, <4>5
    <3>3. Promise!TakeEffect(r)
      BY <1>1, <3>2 DEF RunOperation, Promise!TakeEffect
    <3> QED
      BY <3>3 DEF Promise!Next
  <2> QED
    BY <1>1, <2>1 DEF RunOperation
<1>2. ASSUME NEW r \in Request, NEW s \in ran, KeyOf[s] = KeyOf[r], pc[r] # "done",
             reply' = [reply EXCEPT ![r] = s], UNCHANGED ran
      PROVE  Promise!Next
  <2>1. Promise!Tell(r)
    BY <1>2 DEF Promise!Tell, ToldAtEnd
  <2> QED
    BY <2>1 DEF Promise!Next
<1>3. ASSUME NEW r \in Request, LookupKey(r) PROVE Promise!Next \/ UNCHANGED <<ran, reply>>
  <2>1. CASE answer[KeyOf[r]] = None
    BY <1>3, <2>1 DEF LookupKey, ToldAtEnd
  <2> QED
    BY <1>2, <1>3, <2>1 DEF LookupKey
<1>4. ASSUME NEW r \in Request, Respond(r) PROVE Promise!Next \/ UNCHANGED <<ran, reply>>
  BY <1>2, <1>4 DEF Respond
<1>5. ASSUME NEW r \in Request,
             \/ ClaimKey(r) \/ PersistResult(r) \/ ReleaseKey(r) \/ CloseReleases(r)
             \/ ClientCloses(r) \/ QueryFails(r)
      PROVE  UNCHANGED <<ran, reply>>
  BY <1>5 DEF ClaimKey, PersistResult, ReleaseKey, CloseReleases, ClientCloses, QueryFails
<1>6. CASE Crash \/ UNCHANGED vars
  BY <1>6 DEF Crash, vars
<1> QED
  BY <1>1, <1>3, <1>4, <1>5, <1>6 DEF Next, Serve

\* The middleware implements what a key promises, for any number of keys and
\* retries and across crashes and failed statements.
THEOREM Implements == ASSUME NoOverlap PROVE Spec => ImplementsOnceOnly
<1>1. Init => Promise!Init /\ ToldAtEnd
  BY DEF Init, Promise!Init, ToldAtEnd
<1>2. Truthful /\ Unrepeated /\ ToldAtEnd /\ [Next]_vars =>
        [Promise!Next]_<<[k \in Key |-> {r \in ran : KeyOf[r] = k}], reply>>
  <2> SUFFICES ASSUME Truthful, Unrepeated, ToldAtEnd, [Next]_vars,
                      UNCHANGED ran, UNCHANGED reply
               PROVE  UNCHANGED <<[k \in Key |-> {r \in ran : KeyOf[r] = k}], reply>>
    BY OnceOnlyStep
  <2> QED
    OBVIOUS
<1>3. Truthful => TypeOK
  BY DEF Truthful
<1> QED
  BY <1>1, <1>2, <1>3, TruthfulInit, TruthfulStep, ToldAtEndStep, NeverAgain, NoOverlap, PTL
  DEF Spec, ImplementsOnceOnly, Promise!Spec

=============================================================================
