----------------------------- MODULE PoolProofs -----------------------------
(***************************************************************************)
(* Theorems about Pool, for any number of requests, connections and        *)
(* retries, and whether or not waiting may take too long.                  *)
(***************************************************************************)
EXTENDS Pool, FiniteSetTheorems, TLAPS

\* Who waits is at a statement that needs a connection, and has none.
WaitersAsk ==
    \A r \in waiting : pc[r] \in {"arrived", "again", "refresh"} /\ r \notin held

\* Who has a connection uses it; every round of a service function has one.
HoldersUse ==
    \A r \in Requests :
        /\ r \in held => pc[r] \in {"work", "refresh", "broadcast"}
        /\ pc[r] = "work" => r \in held

\* The retries that are left: the last one ends the request.
TriesLeft == \A r \in Requests : tries[r] = MaxRetries => pc[r] = "ended"

\* A request commits once, on its way from its work to the refresh or broadcast;
\* only then is anybody told.
CommitsOnce ==
    \A r \in Requests :
        /\ pc[r] \in {"arrived", "again", "work"} => r \notin recorded
        /\ pc[r] \in {"refresh", "broadcast"} => r \in recorded /\ kind[r] # "read"
        /\ pc[r] # "ended" => answer[r] = "none"
        /\ r \in told => r \in recorded

IInv ==
    /\ TypeOK
    /\ WaitersAsk
    /\ HoldersUse
    /\ TriesLeft
    /\ CommitsOnce
    /\ AnswersAreTrue

-----------------------------------------------------------------------------
(* The connections *)

\* The requests with a connection are finitely many, and can be counted.
LEMMA HeldFinite ==
    ASSUME NEW H, H \subseteq Requests
    PROVE  IsFiniteSet(H) /\ Cardinality(H) \in Nat
  BY PoolAssumption, FS_Subset, FS_CardinalityType

\* Giving one back leaves no more out than before.
LEMMA Returned ==
    ASSUME NEW H, H \subseteq Requests, NEW r, Cardinality(H) <= Capacity
    PROVE  H \ {r} \subseteq Requests /\ Cardinality(H \ {r}) <= Capacity
<1>1. IsFiniteSet(H) /\ Cardinality(H) \in Nat
  BY HeldFinite
<1>2. H \ {r} \subseteq H
  OBVIOUS
<1>3. Cardinality(H \ {r}) \in Nat /\ Cardinality(H \ {r}) <= Cardinality(H)
  BY <1>1, <1>2, FS_Subset, FS_CardinalityType
<1> QED
  BY <1>1, <1>3, PoolAssumption

\* Taking one that is free keeps within the pool.
LEMMA Taken ==
    ASSUME NEW H, H \subseteq Requests, NEW r \in Requests, Cardinality(H) < Capacity
    PROVE  H \cup {r} \subseteq Requests /\ Cardinality(H \cup {r}) <= Capacity
<1>1. IsFiniteSet(H) /\ Cardinality(H) \in Nat
  BY HeldFinite
<1>2. Cardinality(H \cup {r}) = Cardinality(H) \/ Cardinality(H \cup {r}) = Cardinality(H) + 1
  BY <1>1, FS_AddElement
<1> QED
  BY <1>1, <1>2, PoolAssumption

-----------------------------------------------------------------------------
(* The steps *)

\* The requests arrive with nothing.
LEMMA InitInvariant == Init => IInv
<1>1. SUFFICES ASSUME Init PROVE IInv
  OBVIOUS
<1>2. Cardinality({}) = 0
  BY FS_EmptySet
<1>3. TypeOK
  BY <1>1, <1>2, PoolAssumption DEF Init, TypeOK, Labels, Answers
<1>4. WaitersAsk /\ HoldersUse /\ TriesLeft /\ CommitsOnce /\ AnswersAreTrue
  BY <1>1, PoolAssumption
     DEF Init, WaitersAsk, HoldersUse, TriesLeft, CommitsOnce, AnswersAreTrue
<1> QED
  BY <1>3, <1>4 DEF IInv

\* A request without a connection gets in line.
LEMMA AskSafe == ASSUME IInv, NEW r \in Requests, Ask(r) PROVE IInv'
<1>1. TypeOK'
  BY DEF IInv, TypeOK, Ask
<1>2. WaitersAsk'
  BY DEF IInv, WaitersAsk, Ask, Needs
<1>3. HoldersUse' /\ TriesLeft' /\ CommitsOnce' /\ AnswersAreTrue'
  BY DEF IInv, HoldersUse, TriesLeft, CommitsOnce, AnswersAreTrue, Ask
<1> QED
  BY <1>1, <1>2, <1>3 DEF IInv

\* It gets one: it goes on with its work, or with the refresh it waited for.
LEMMA CheckoutSafe == ASSUME IInv, NEW r \in Requests, Checkout(r) PROVE IInv'
<1>1. TypeOK
  BY DEF IInv
<1>2. TypeOK'
  <2>1. held' \subseteq Requests /\ Cardinality(held') <= Capacity
    BY <1>1, Taken DEF TypeOK, Checkout, Free
  <2> QED
    BY <1>1, <2>1 DEF TypeOK, Checkout, Labels
<1>3. WaitersAsk'
  BY <1>1 DEF IInv, TypeOK, WaitersAsk, Checkout
<1>4. HoldersUse'
  BY <1>1 DEF IInv, TypeOK, WaitersAsk, HoldersUse, Checkout
<1>5. TriesLeft'
  BY <1>1 DEF IInv, TypeOK, WaitersAsk, TriesLeft, Checkout
<1>6. CommitsOnce' /\ AnswersAreTrue'
  BY <1>1 DEF IInv, TypeOK, WaitersAsk, CommitsOnce, AnswersAreTrue, Checkout
<1> QED
  BY <1>2, <1>3, <1>4, <1>5, <1>6 DEF IInv

\* A request that ends gives its connection back.
LEMMA FinishSafe ==
    ASSUME IInv, NEW r \in Requests, NEW result \in Answers, Finish(r, result),
           waiting' = waiting \ {r} \/ (waiting' = waiting /\ r \notin waiting),
           tries' \in [Requests -> 0 .. MaxRetries],
           \A q \in Requests : q # r => tries'[q] = tries[q],
           UNCHANGED <<kind, recorded>>,
           told' = told \/ (told' = told \cup {r} /\ r \in recorded),
           result = "ok" /\ kind[r] # "read" => r \in recorded,
           result \in {"refused", "busy"} => r \notin recorded
    PROVE  IInv'
<1>1. /\ TypeOK /\ held' = held \ {r}
      /\ pc' = [pc EXCEPT ![r] = "ended"] /\ answer' = [answer EXCEPT ![r] = result]
      /\ waiting' = waiting \ {r}
  BY DEF IInv, Finish, Goto, Release
<1>2. /\ pc'[r] = "ended" /\ answer'[r] = result
      /\ \A q \in Requests : q # r => pc'[q] = pc[q] /\ answer'[q] = answer[q]
  BY <1>1 DEF TypeOK
<1>3. TypeOK'
  <2>1. held' \subseteq Requests /\ Cardinality(held') <= Capacity
    BY <1>1, Returned DEF TypeOK
  <2>2. pc' \in [Requests -> Labels] /\ answer' \in [Requests -> Answers]
    BY <1>1 DEF TypeOK, Labels
  <2> QED
    BY <1>1, <2>1, <2>2 DEF TypeOK
<1>4. WaitersAsk'
  BY <1>1, <1>2 DEF IInv, TypeOK, WaitersAsk
<1>5. HoldersUse'
  BY <1>1, <1>2 DEF IInv, HoldersUse
<1>6. TriesLeft'
  BY <1>2 DEF IInv, TriesLeft
<1>7. CommitsOnce'
  BY <1>1, <1>2 DEF IInv, CommitsOnce
<1>8. AnswersAreTrue'
  BY <1>1, <1>2 DEF IInv, AnswersAreTrue
<1> QED
  BY <1>3, <1>4, <1>5, <1>6, <1>7, <1>8 DEF IInv

\* Nobody works and waits.
LEMMA WorkersHold == ASSUME IInv, NEW r \in Requests, pc[r] \in {"work", "broadcast"}
                     PROVE  r \notin waiting
  BY DEF IInv, WaitersAsk

\* Waiting was in vain: whatever was committed before, the answer is an error.
LEMMA TimeOutSafe == ASSUME IInv, NEW r \in Requests, TimeOut(r) PROVE IInv'
<1>1. "error" \in Answers /\ TypeOK
  BY DEF Answers, IInv
<1>2. /\ Finish(r, "error") /\ waiting' = waiting \ {r}
      /\ UNCHANGED <<kind, tries, recorded, told>>
  BY DEF TimeOut
<1> QED
  BY <1>1, <1>2, FinishSafe DEF TypeOK

\* A request is served or refused without a commit.
LEMMA ServeRefuseSafe == ASSUME IInv, NEW r \in Requests, Serve(r) \/ Refuse(r) PROVE IInv'
<1>1. "ok" \in Answers /\ "refused" \in Answers /\ TypeOK
  BY DEF Answers, IInv
<1>2. pc[r] = "work" /\ r \notin waiting /\ r \notin recorded
  BY WorkersHold DEF Serve, Refuse, IInv, CommitsOnce
<1>3. CASE Serve(r)
  <2>1. /\ Finish(r, "ok") /\ kind[r] = "read"
        /\ UNCHANGED <<kind, waiting, tries, recorded, told>>
    BY <1>3 DEF Serve
  <2> QED
    BY <1>1, <1>2, <2>1, FinishSafe DEF TypeOK
<1>4. CASE Refuse(r)
  <2>1. Finish(r, "refused") /\ UNCHANGED <<kind, waiting, tries, recorded, told>>
    BY <1>4 DEF Refuse
  <2> QED
    BY <1>1, <1>2, <2>1, FinishSafe DEF TypeOK
<1> QED
  BY <1>3, <1>4

\* A request commits.
LEMMA CommitSafe == ASSUME IInv, NEW r \in Requests, Commit(r) PROVE IInv'
<1>1. /\ TypeOK /\ pc[r] = "work" /\ kind[r] # "read" /\ r \notin waiting
      /\ recorded' = recorded \cup {r} /\ held' = held \ {r}
      /\ UNCHANGED <<kind, waiting, tries, told, answer>>
  BY WorkersHold DEF Commit, IInv, Release
<1>2. PICK label \in {"refresh", "broadcast"} : pc' = [pc EXCEPT ![r] = label]
  BY DEF Commit, Goto
<1>3. /\ pc'[r] = label /\ label \in {"refresh", "broadcast"}
      /\ \A q \in Requests : q # r => pc'[q] = pc[q]
  BY <1>1, <1>2 DEF TypeOK
<1>4. TypeOK'
  <2>1. held' \subseteq Requests /\ Cardinality(held') <= Capacity
    BY <1>1, Returned DEF TypeOK
  <2>2. pc' \in [Requests -> Labels]
    BY <1>1, <1>2 DEF TypeOK, Labels
  <2> QED
    BY <1>1, <2>1, <2>2 DEF TypeOK
<1>5. WaitersAsk'
  BY <1>1, <1>3 DEF IInv, TypeOK, WaitersAsk
<1>6. HoldersUse'
  BY <1>1, <1>3 DEF IInv, HoldersUse
<1>7. TriesLeft'
  BY <1>1, <1>3 DEF IInv, TriesLeft
<1>8. CommitsOnce'
  BY <1>1, <1>3 DEF IInv, CommitsOnce
<1>9. AnswersAreTrue'
  BY <1>1, <1>3 DEF IInv, CommitsOnce, AnswersAreTrue
<1> QED
  BY <1>4, <1>5, <1>6, <1>7, <1>8, <1>9 DEF IInv

\* Another request committed first: the next round, or the end.
LEMMA ConflictSafe == ASSUME IInv, NEW r \in Requests, Conflict(r) PROVE IInv'
<1>1. /\ TypeOK /\ pc[r] = "work" /\ r \notin waiting /\ r \notin recorded
      /\ tries[r] \in 0 .. MaxRetries /\ tries[r] # MaxRetries
      /\ UNCHANGED <<kind, waiting, recorded, told>>
  BY WorkersHold DEF Conflict, IInv, TypeOK, CommitsOnce, TriesLeft
<1>2. PICK n : n = tries[r] + 1
  OBVIOUS
<1>3. n \in 0 .. MaxRetries /\ tries' = [tries EXCEPT ![r] = n]
  BY <1>1, <1>2, PoolAssumption DEF Conflict
<1>4. /\ tries' \in [Requests -> 0 .. MaxRetries] /\ tries'[r] = n
      /\ \A q \in Requests : q # r => tries'[q] = tries[q]
  BY <1>1, <1>3 DEF TypeOK
<1>5. CASE Finish(r, "busy")
  <2>1. "busy" \in Answers
    BY DEF Answers
  <2> QED
    BY <1>1, <1>4, <1>5, <2>1, FinishSafe
<1>6. CASE n < MaxRetries /\ Goto(r, "again") /\ Release(r) /\ UNCHANGED answer
  <2>1. /\ pc' = [pc EXCEPT ![r] = "again"] /\ held' = held \ {r} /\ answer' = answer
        /\ n # MaxRetries
    BY <1>3, <1>6, PoolAssumption DEF Goto, Release
  <2>2. pc'[r] = "again" /\ \A q \in Requests : q # r => pc'[q] = pc[q]
    BY <1>1, <2>1 DEF TypeOK
  <2>3. TypeOK'
    <3>1. held' \subseteq Requests /\ Cardinality(held') <= Capacity
      BY <1>1, <2>1, Returned DEF TypeOK
    <3>2. pc' \in [Requests -> Labels]
      BY <1>1, <2>1 DEF TypeOK, Labels
    <3> QED
      BY <1>1, <1>4, <2>1, <3>1, <3>2 DEF TypeOK
  <2>4. WaitersAsk'
    BY <1>1, <2>1, <2>2 DEF IInv, TypeOK, WaitersAsk
  <2>5. HoldersUse'
    BY <2>1, <2>2 DEF IInv, HoldersUse
  <2>6. TriesLeft'
    BY <1>4, <2>1, <2>2 DEF IInv, TriesLeft
  <2>7. CommitsOnce' /\ AnswersAreTrue'
    BY <1>1, <2>1, <2>2 DEF IInv, CommitsOnce, AnswersAreTrue
  <2> QED
    BY <2>3, <2>4, <2>5, <2>6, <2>7 DEF IInv
<1> QED
  BY <1>2, <1>5, <1>6 DEF Conflict

\* The row is read again: a bid goes on to its broadcast with the connection.
LEMMA RefreshSafe == ASSUME IInv, NEW r \in Requests, Refresh(r) PROVE IInv'
<1>1. /\ TypeOK /\ pc[r] = "refresh" /\ r \in held /\ r \in recorded /\ r \notin waiting
      /\ UNCHANGED <<kind, waiting, tries, recorded, told>>
  BY DEF Refresh, IInv, CommitsOnce, WaitersAsk
<1>2. CASE Finish(r, "ok")
  <2>1. "ok" \in Answers
    BY DEF Answers
  <2> QED
    BY <1>1, <1>2, <2>1, FinishSafe DEF TypeOK
<1>3. CASE Goto(r, "broadcast") /\ UNCHANGED <<held, answer>>
  <2>1. pc' = [pc EXCEPT ![r] = "broadcast"] /\ UNCHANGED <<held, answer>>
    BY <1>3 DEF Goto
  <2>2. pc'[r] = "broadcast" /\ \A q \in Requests : q # r => pc'[q] = pc[q]
    BY <1>1, <2>1 DEF TypeOK
  <2>3. TypeOK'
    BY <1>1, <2>1 DEF TypeOK, Labels
  <2>4. WaitersAsk'
    BY <1>1, <2>1, <2>2 DEF IInv, TypeOK, WaitersAsk
  <2>5. HoldersUse' /\ TriesLeft'
    BY <1>1, <2>1, <2>2 DEF IInv, HoldersUse, TriesLeft
  <2>6. CommitsOnce' /\ AnswersAreTrue'
    BY <1>1, <2>1, <2>2 DEF IInv, CommitsOnce, AnswersAreTrue
  <2> QED
    BY <2>3, <2>4, <2>5, <2>6 DEF IInv
<1> QED
  BY <1>2, <1>3 DEF Refresh

\* The broadcast ended: the request is answered.
LEMMA AnswerSafe == ASSUME IInv, NEW r \in Requests, Answer(r) PROVE IInv'
<1>1. "ok" \in Answers /\ TypeOK
  BY DEF Answers, IInv
<1>2. /\ Finish(r, "ok") /\ told' = told \cup {r} /\ r \in recorded /\ r \notin waiting
      /\ UNCHANGED <<kind, waiting, tries, recorded>>
  BY WorkersHold DEF Answer, IInv, CommitsOnce
<1>3. told' \subseteq Requests
  BY <1>1, <1>2 DEF TypeOK
<1> QED
  BY <1>1, <1>2, <1>3, FinishSafe DEF TypeOK

\* Every step keeps the invariant.
LEMMA NextInvariant == IInv /\ [Next]_vars => IInv'
<1> SUFFICES ASSUME IInv, [Next]_vars PROVE IInv'
  OBVIOUS
<1>1. CASE \E r \in Requests : Ask(r) \/ Checkout(r) \/ TimeOut(r) \/ Work(r)
  BY <1>1, AskSafe, CheckoutSafe, TimeOutSafe, ServeRefuseSafe, CommitSafe, ConflictSafe,
     RefreshSafe, AnswerSafe DEF Work
<1>2. CASE UNCHANGED vars
  BY <1>2 DEF vars, IInv, TypeOK, WaitersAsk, HoldersUse, TriesLeft, CommitsOnce,
              AnswersAreTrue
<1> QED
  BY <1>1, <1>2 DEF Next

\* Every reachable state satisfies it.
LEMMA Invariant == Spec => []IInv
  BY InitInvariant, NextInvariant, PTL DEF Spec

-----------------------------------------------------------------------------
(* The theorems *)

\* Nobody waits for a connection with one in hand, and who ended has none: a
\* service function commits or rolls back before its next statement.
THEOREM NobodyHoldsAndWaits == Spec => []HoldersWork
<1>1. IInv => HoldersWork
  BY DEF IInv, HoldersWork, WaitersAsk, HoldersUse
<1> QED
  BY <1>1, Invariant, PTL

\* Answers are true: no request that was recorded is refused, none that was not
\* is answered well, whenever the pool is exhausted.
THEOREM AnswersStayTrue == Spec => []AnswersAreTrue
<1>1. IInv => AnswersAreTrue
  BY DEF IInv
<1> QED
  BY <1>1, Invariant, PTL
=============================================================================
