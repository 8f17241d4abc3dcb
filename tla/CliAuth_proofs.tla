--------------------------- MODULE CliAuth_proofs ---------------------------
(***************************************************************************)
(* AdmittedOnce for every skew, every number of requests and handlers and  *)
(* every stall up to the skew.  The inductive invariant relates three      *)
(* times: a request that passed the time check is at most 2 * Skew old     *)
(* when its nonce is looked up, and a nonce that has left the cache        *)
(* belongs to a request older than that.  Across restarts only the window  *)
(* is left: no admission is before it (NotEarly) or after it (InTime).     *)
(***************************************************************************)
EXTENDS CliAuth, TLAPS

\* A handler looks its nonce up in time.
InTime ==
    \A h \in Handlers : job[h] # NoReq =>
        /\ stamp[job[h]] # 0
        /\ checkedAt[h] <= stamp[job[h]] + Skew
        /\ checkedAt[h] >= stamp[job[h]] - Skew
        /\ now >= checkedAt[h]
        /\ now <= checkedAt[h] + MaxStall

\* A nonce is forgotten only when its request is too old to be admitted.
Remembered ==
    \A r \in Reqs : admitted[r] # 0 =>
        stamp[r] # 0 /\ (r \in seenNonces \/ now > stamp[r] + 2 * Skew)

\* No life of the server has admitted a request ahead of its window.
NotEarly ==
    \A r \in Reqs : firstAt[r] # -1 => stamp[r] # 0 /\ firstAt[r] >= stamp[r] - Skew

IInv == TypeOK /\ InTime /\ Remembered /\ NotEarly /\ AdmittedOnce /\ CachedWasAdmitted

\* The server starts with an empty nonce cache.
LEMMA InitIInv == Init => IInv
  BY DEF Init, IInv, TypeOK, InTime, Remembered, NotEarly, AdmittedOnce, CachedWasAdmitted

\* Every step of a client, of a handler or of the clock keeps the invariant.
LEMMA StepIInv == IInv /\ [Next]_vars => IInv'
<1> SUFFICES ASSUME IInv, [Next]_vars PROVE IInv'
  OBVIOUS
<1> USE SkewAssumption, StallAssumption, HorizonAssumption, NoReqAssumption
<1> USE DEF IInv, TypeOK
<1>1. ASSUME NEW r \in Reqs, NEW t \in 1..Horizon, signMessage(r, t)
      PROVE  IInv'
  BY <1>1 DEF signMessage, InTime, Remembered, NotEarly, AdmittedOnce, CachedWasAdmitted
<1>2. ASSUME NEW h \in Handlers, NEW r \in Reqs, verifyCLIMessage(h, r)
      PROVE  IInv'
  BY <1>2 DEF verifyCLIMessage, InTime, Remembered, NotEarly, AdmittedOnce, CachedWasAdmitted
<1>3. ASSUME NEW h \in Handlers, registerNonce(h)
      PROVE  IInv'
  <2> DEFINE r == job[h]
  <2>1. r \in Reqs /\ stamp[r] # 0 /\ now <= stamp[r] + 2 * Skew /\ now >= stamp[r] - Skew
    BY <1>3 DEF registerNonce, InTime
  <2>2. r \notin Kept => admitted[r] = 0
    BY <2>1 DEF Kept, Remembered
  <2>3. /\ TypeOK'
        /\ admitted' = IF r \in Kept THEN admitted ELSE [admitted EXCEPT ![r] = @ + 1]
        /\ seenNonces' = Kept \cup {r}
        /\ Kept \subseteq seenNonces
        /\ UNCHANGED <<now, stamp>>
    BY <1>3, <2>1 DEF registerNonce, Kept
  <2>4. NotEarly'
    BY <1>3, <2>1 DEF registerNonce, NotEarly
  <2> HIDE DEF r
  <2>5. AdmittedOnce'
    BY <2>1, <2>2, <2>3 DEF AdmittedOnce
  <2>6. CachedWasAdmitted'
    BY <2>1, <2>2, <2>3 DEF CachedWasAdmitted
  <2>7. Remembered'
    BY <2>1, <2>2, <2>3 DEF Remembered, Kept
  <2>8. InTime'
    BY <1>3 DEF registerNonce, InTime
  <2> QED  BY <2>3, <2>4, <2>5, <2>6, <2>7, <2>8
<1>4. CASE Tick
  BY <1>4 DEF Tick, InTime, Remembered, NotEarly, AdmittedOnce, CachedWasAdmitted
<1>5. CASE Restart
  BY <1>5 DEF Restart, InTime, Remembered, NotEarly, AdmittedOnce, CachedWasAdmitted
<1>6. CASE UNCHANGED vars
  BY <1>6 DEF vars, InTime, Remembered, NotEarly, AdmittedOnce, CachedWasAdmitted
<1> QED  BY <1>1, <1>2, <1>3, <1>4, <1>5, <1>6 DEF Next

\* The inductive invariant holds in every reachable state.
LEMMA Invariance == Spec => []IInv
  BY InitIInv, StepIInv, PTL DEF Spec

(***************************************************************************)
(* Whatever the skew the server is built with, no request is admitted      *)
(* twice as long as no handler stalls longer than the skew between its two *)
(* readings of the clock.                                                  *)
(***************************************************************************)
THEOREM NoDoubleAdmission == Spec => []AdmittedOnce
<1>1. IInv => AdmittedOnce
  BY DEF IInv
<1> QED  BY <1>1, Invariance, PTL

(***************************************************************************)
(* The clock, the cache and the counters keep their types.                 *)
(***************************************************************************)
THEOREM TypeCorrect == Spec => []TypeOK
<1>1. IInv => TypeOK
  BY DEF IInv
<1> QED  BY <1>1, Invariance, PTL

(***************************************************************************)
(* A nonce in the cache is one of an admitted request, so the first        *)
(* delivery of a request is never taken for a second one.                  *)
(***************************************************************************)
THEOREM CacheIsHonest == Spec => []CachedWasAdmitted
<1>1. IInv => CachedWasAdmitted
  BY DEF IInv
<1> QED  BY <1>1, Invariance, PTL

(***************************************************************************)
(* However often the server restarts with an empty cache, a request that   *)
(* it admits again has been admitted at most twice the skew and one stall  *)
(* before.                                                                 *)
(***************************************************************************)
THEOREM RestartIsBounded == Spec => RepeatedSoon
<1>1. IInv /\ [Next]_vars
      => [\A r \in Reqs : admitted'[r] > admitted[r] /\ firstAt[r] # -1
                          => now <= firstAt[r] + 2 * Skew + MaxStall]_vars
  <2> SUFFICES ASSUME IInv, Next, NEW r \in Reqs, admitted'[r] > admitted[r], firstAt[r] # -1
               PROVE  now <= firstAt[r] + 2 * Skew + MaxStall
    OBVIOUS
  <2> USE SkewAssumption, StallAssumption DEF IInv, TypeOK
  <2>1. PICK h \in Handlers : registerNonce(h)
    <3>1. CASE Restart
      BY <3>1 DEF Restart
    <3>2. CASE Tick \/ \E q \in Reqs, t \in 1..Horizon : signMessage(q, t)
      BY <3>2 DEF Tick, signMessage
    <3>3. CASE \E h \in Handlers, q \in Reqs : verifyCLIMessage(h, q)
      BY <3>3 DEF verifyCLIMessage
    <3> QED  BY <3>1, <3>2, <3>3 DEF Next
  <2>2. job[h] = r
    BY <2>1 DEF registerNonce
  <2>3. now <= stamp[r] + Skew + MaxStall
    BY <2>1, <2>2, NoReqAssumption DEF registerNonce, InTime
  <2>4. stamp[r] <= firstAt[r] + Skew
    BY DEF NotEarly
  <2>5. stamp[r] \in Nat /\ firstAt[r] \in Int /\ now \in Nat
    OBVIOUS
  <2> HIDE DEF IInv, TypeOK
  <2> QED  BY <2>3, <2>4, <2>5
<1> QED  BY <1>1, Invariance, PTL DEF Spec, RepeatedSoon
=============================================================================
