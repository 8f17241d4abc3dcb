------------------------------ MODULE CliAuth ------------------------------
(***************************************************************************)
(* Admission of CLI requests (server/server.go, verifyCLIMessage and       *)
(* registerNonce; core/client.go, signMessage).  Every CLI request carries *)
(* a timestamp and a nonce under a signature.  The server admits a request *)
(* when its timestamp is within Skew of the server's clock and its nonce   *)
(* is not in the cache; it drops old nonces from the cache as it goes.     *)
(*                                                                         *)
(* The clock is read twice, once for the timestamp check and once, later   *)
(* and under authMu, for the purge.  Between the two the goroutine may be  *)
(* delayed; MaxStall bounds this delay.  Messages whose signature does not *)
(* verify, or that lack a field, are turned away before they touch any     *)
(* state and are left out.  A request may be delivered more than once.     *)
(* The cache is in memory only: a server that restarts has forgotten it.   *)
(***************************************************************************)
EXTENDS Integers

CONSTANTS
    Reqs,           \* signed requests, each with its own nonce
    Handlers,       \* goroutines of handleConnection
    NoReq,
    Skew,           \* core.DefaultAuthMaxSkew
    MaxStall,       \* longest delay between the two clock readings
    Horizon         \* bound on the clock

ASSUME SkewAssumption == Skew \in Nat
ASSUME StallAssumption == MaxStall \in Nat /\ MaxStall <= Skew
ASSUME HorizonAssumption == Horizon \in Nat
ASSUME NoReqAssumption == NoReq \notin Reqs

VARIABLES
    now,            \* the server's clock
    stamp,          \* AuthTimestamp of each request; 0 before it is signed
    seenNonces,     \* the requests whose nonce is in the cache
    job,            \* the request a handler has passed the time check for
    checkedAt,      \* ... and when it did
    admitted,       \* how often this life of the server admitted a request
    firstAt         \* history: when any life first admitted it; -1 if never

vars == <<now, stamp, seenNonces, job, checkedAt, admitted, firstAt>>

TypeOK ==
    /\ now \in Nat
    /\ stamp \in [Reqs -> Nat]
    /\ seenNonces \subseteq Reqs
    /\ job \in [Handlers -> Reqs \cup {NoReq}]
    /\ checkedAt \in [Handlers -> Nat]
    /\ admitted \in [Reqs -> Nat]
    /\ firstAt \in [Reqs -> Nat \cup {-1}]

Init ==
    /\ now = 0
    /\ stamp = [r \in Reqs |-> 0]
    /\ seenNonces = {}
    /\ job = [h \in Handlers |-> NoReq]
    /\ checkedAt = [h \in Handlers |-> 0]
    /\ admitted = [r \in Reqs |-> 0]
    /\ firstAt = [r \in Reqs |-> -1]

\* A client signs a request by its own clock, which may be off either way.
signMessage(r, t) ==
    /\ stamp[r] = 0
    /\ stamp' = [stamp EXCEPT ![r] = t]
    /\ UNCHANGED <<now, seenNonces, job, checkedAt, admitted, firstAt>>

\* Mutants: the nonce is cached before the request is admitted; the age
\* is not checked.
verifyCachesEarly(h, r) ==
    /\ job[h] = NoReq
    /\ stamp[r] # 0
    /\ now - stamp[r] <= Skew
    /\ stamp[r] - now <= Skew
    /\ job' = [job EXCEPT ![h] = r]
    /\ checkedAt' = [checkedAt EXCEPT ![h] = now]
    /\ seenNonces' = seenNonces \cup {r}
    /\ UNCHANGED <<now, stamp, admitted, firstAt>>

verifyAnyAge(h, r) ==
    /\ job[h] = NoReq
    /\ stamp[r] # 0
    /\ stamp[r] - now <= Skew
    /\ job' = [job EXCEPT ![h] = r]
    /\ checkedAt' = [checkedAt EXCEPT ![h] = now]
    /\ UNCHANGED <<now, stamp, seenNonces, admitted, firstAt>>

\* verifyCLIMessage up to the signature check.
verifyCLIMessage(h, r) ==
    /\ job[h] = NoReq
    /\ stamp[r] # 0
    /\ now - stamp[r] <= Skew
    /\ stamp[r] - now <= Skew
    /\ job' = [job EXCEPT ![h] = r]
    /\ checkedAt' = [checkedAt EXCEPT ![h] = now]
    /\ UNCHANGED <<now, stamp, seenNonces, admitted, firstAt>>

\* Mutant: nonces are forgotten as soon as the time check refuses them.
KeptOneSkew == {r \in seenNonces : stamp[r] >= now - Skew}

\* The nonces a purge at the present time keeps.
Kept == {r \in seenNonces : stamp[r] >= now - 2 * Skew}

\* registerNonce, all of it under authMu.
registerNonce(h) ==
    /\ job[h] # NoReq
    /\ seenNonces' = Kept \cup {job[h]}
    /\ \/ job[h] \in Kept /\ UNCHANGED <<admitted, firstAt>>
       \/ /\ job[h] \notin Kept
          /\ admitted' = [admitted EXCEPT ![job[h]] = @ + 1]
          /\ firstAt' = [firstAt EXCEPT ![job[h]] = IF @ = -1 THEN now ELSE @]
    /\ job' = [job EXCEPT ![h] = NoReq]
    /\ UNCHANGED <<now, stamp, checkedAt>>

Tick ==
    /\ now < Horizon
    /\ \A h \in Handlers : job[h] # NoReq => now < checkedAt[h] + MaxStall
    /\ now' = now + 1
    /\ UNCHANGED <<stamp, seenNonces, job, checkedAt, admitted, firstAt>>

\* The server ends, its handlers with it, and NewServer makes another.
Restart ==
    /\ seenNonces' = {}
    /\ job' = [h \in Handlers |-> NoReq]
    /\ checkedAt' = [h \in Handlers |-> 0]
    /\ admitted' = [r \in Reqs |-> 0]
    /\ UNCHANGED <<now, stamp, firstAt>>

Next ==
    \/ \E r \in Reqs, t \in 1..Horizon : signMessage(r, t)
    \/ \E h \in Handlers, r \in Reqs : verifyCLIMessage(h, r)
    \/ \E h \in Handlers : registerNonce(h)
    \/ Tick
    \/ Restart

Spec == Init /\ [][Next]_vars

(***************************************************************************)
(* A request that is delivered again, at any time and to several handlers  *)
(* at once, is admitted at most once in the life of the server: a purge    *)
(* never forgets a nonce that could still pass the time check.             *)
(***************************************************************************)
AdmittedOnce == \A r \in Reqs : admitted[r] <= 1

(***************************************************************************)
(* The cache turns nobody away by mistake: a cached nonce is one of an     *)
(* admitted request.                                                       *)
(***************************************************************************)
CachedWasAdmitted == \A r \in seenNonces : admitted[r] >= 1

(***************************************************************************)
(* What a restart costs: the server that comes up has an empty cache and   *)
(* may admit a request again, however often it restarts, but never later   *)
(* than twice the skew and one stall after the first admission.            *)
(***************************************************************************)
RepeatedSoon ==
    [][\A r \in Reqs : admitted'[r] > admitted[r] /\ firstAt[r] # -1
                        => now <= firstAt[r] + 2 * Skew + MaxStall]_vars
=============================================================================
