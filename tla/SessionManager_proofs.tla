----------------------- MODULE SessionManager_proofs -----------------------
(***************************************************************************)
(* Proofs about SessionManager, for every set of agents, connections and   *)
(* calls and every buffer capacity.                                        *)
(*                                                                         *)
(* The invariants the runs check are not inductive by themselves.  They    *)
(* follow from two independent strengthenings: ChannelInv says who may     *)
(* touch the reply channel of a call (exactly one of: the pending map, one *)
(* handler, the dispatch goroutine), SessionInv ties the session map to    *)
(* the handlers.  RunInv follows a command over the wire and gives, with   *)
(* ChannelInv, the refinement of RemoteCall.  AwaitInv adds that a command *)
(* or reply on the wire always has a caller that waits or has given up.    *)
(***************************************************************************)
EXTENDS SessionManager, TLAPS

\* The types, with what keeps them: a handler that resolves has a call in
\* hand, a dispatch that is under way holds a session.
Resolving == {"resolve", "deliver", "close"}
TypeInv ==
    /\ TypeOK
    /\ \A c \in Conns : hpc[c] \in Resolving => cur[c] \in Calls
    /\ \A k \in Calls : dpc[k] \notin {"idle", "done"} => ses[k] \in Conns

\* Handler c has taken call k out of the pending map and owns its channel.
Holds(c, k) == hpc[c] \in {"deliver", "close"} /\ cur[c] = k

PendingOwns ==
    \A k \in pending :
        /\ dpc[k] \in {"send", "wait", "cancel"}
        /\ k \notin buf
        /\ k \notin closed
        /\ \A c \in Conns : ~Holds(c, k)

HandlerOwns ==
    \A c \in Conns, k \in Calls : Holds(c, k) =>
        /\ k \notin closed
        /\ dpc[k] \notin {"idle", "pend", "send", "close"}
        /\ hpc[c] = "deliver" => k \notin buf
        /\ hpc[c] = "close" /\ dpc[k] = "wait" => k \in buf
        /\ \A d \in Conns : Holds(d, k) => d = c

DispatchOwns ==
    \A k \in Calls : dpc[k] = "close" => k \notin closed

Fresh ==
    \A k \in Calls : dpc[k] \in {"idle", "pend", "send"} => k \notin buf /\ k \notin closed

ClosedAfterReply ==
    \A k \in Calls : k \in closed /\ dpc[k] = "wait" => k \in buf

ChannelInv ==
    /\ PendingOwns
    /\ HandlerOwns
    /\ DispatchOwns
    /\ Fresh
    /\ ClosedAfterReply
    /\ NoPanic
    /\ NeverCancelled

\* A handler starts with its connection.
UnusedIsIdle == \A c \in Conns : link[c] = "unused" => hpc[c] = "none"

SessionInv == SessionHasHandler /\ SupersededIsClosed /\ UnusedIsIdle


\* Message m is in the queue s; no call is in it twice.
In(s, m) == \E i \in 1..Len(s) : s[i] = m
Once(s)  == \A i, j \in 1..Len(s) : s[i] \in Calls /\ s[i] = s[j] => i = j

NotSentYet ==
    \A k \in Calls :
        dpc[k] \in {"idle", "pend", "send"} \/ outcome[k] \in {"offline", "senderr"} =>
            runs[k] = 0 /\ \A c \in Conns : ~In(down[c], k)

OutcomeIsLast ==
    \A k \in Calls :
        /\ dpc[k] \in {"idle", "pend", "send", "wait"} => outcome[k] = "none"
        /\ dpc[k] \in {"cancel", "close"} => outcome[k] \in {"senderr", "timeout"}

SentOnce ==
    \A c \in Conns :
        /\ Once(down[c])
        /\ \A k \in Calls : In(down[c], k) =>
              runs[k] = 0 /\ \A d \in Conns : In(down[d], k) => d = c

RepliesAreRuns ==
    /\ \A k \in Calls : runs[k] \in {0, 1}
    /\ \A c \in Conns, k \in Calls : In(up[c], k) => runs[k] = 1
    /\ \A c \in Conns : hpc[c] \in Resolving => runs[cur[c]] = 1
    /\ \A k \in buf : runs[k] = 1
    /\ \A k \in Calls : outcome[k] = "reply" => runs[k] = 1

RunInv == NotSentYet /\ OutcomeIsLast /\ SentOnce /\ RepliesAreRuns
-----------------------------------------------------------------------------
\* What the provers need of Head, Tail and Append.
LEMMA TailFacts ==
    ASSUME NEW S, NEW s \in Seq(S), s # <<>>
    PROVE  /\ Head(s) \in S
           /\ Head(s) = s[1]
           /\ Len(s) \in Nat \ {0}
           /\ Tail(s) \in Seq(S)
           /\ Len(Tail(s)) = Len(s) - 1
           /\ \A i \in 1..Len(Tail(s)) : i + 1 \in 1..Len(s) /\ Tail(s)[i] = s[i + 1]
  OBVIOUS

\* Append keeps what is there and puts the new element last.
LEMMA AppendFacts ==
    ASSUME NEW S, NEW s \in Seq(S), NEW e \in S
    PROVE  /\ Append(s, e) \in Seq(S)
           /\ Len(s) \in Nat
           /\ Len(Append(s, e)) = Len(s) + 1
           /\ Append(s, e)[Len(s) + 1] = e
           /\ \A i \in 1..Len(s) : Append(s, e)[i] = s[i]
  OBVIOUS

\* What is taken off a connection was on it, and so was all that is left.
LEMMA InTail ==
    ASSUME NEW S, NEW s \in Seq(S), s # <<>>
    PROVE  In(s, Head(s)) /\ \A m : In(Tail(s), m) => In(s, m)
  BY TailFacts DEF In

\* Writing to a connection adds the message written and no other.
LEMMA InAppend ==
    ASSUME NEW S, NEW s \in Seq(S), NEW e \in S
    PROVE  \A m : In(Append(s, e), m) => In(s, m) \/ m = e
<1>1. \A i \in 1..Len(Append(s, e)) : i \in 1..Len(s) \/ i = Len(s) + 1
  BY AppendFacts
<1> QED  BY <1>1, AppendFacts DEF In

\* Reading keeps messages unrepeated, and the one read is then gone.
LEMMA OnceTail ==
    ASSUME NEW S, NEW s \in Seq(S), s # <<>>, Once(s)
    PROVE  Once(Tail(s)) /\ (Head(s) \in Calls => ~In(Tail(s), Head(s)))
<1>1. Once(Tail(s))
  <2> SUFFICES ASSUME NEW i \in 1..Len(Tail(s)), NEW j \in 1..Len(Tail(s)),
                      Tail(s)[i] \in Calls, Tail(s)[i] = Tail(s)[j]
               PROVE  i = j
    BY DEF Once
  <2>1. i + 1 \in 1..Len(s) /\ j + 1 \in 1..Len(s) /\ s[i + 1] \in Calls /\ s[i + 1] = s[j + 1]
    BY TailFacts
  <2>2. i + 1 = j + 1
    BY <2>1 DEF Once
  <2> QED  BY <2>2, TailFacts
<1>2. ASSUME Head(s) \in Calls, In(Tail(s), Head(s))
      PROVE  FALSE
  <2>1. PICK i \in 1..Len(Tail(s)) : Tail(s)[i] = Head(s)
    BY <1>2 DEF In
  <2>2. 1 \in 1..Len(s) /\ i + 1 \in 1..Len(s) /\ s[1] \in Calls /\ s[1] = s[i + 1]
    BY <1>2, <2>1, TailFacts
  <2>3. 1 = i + 1
    BY <2>2 DEF Once
  <2> QED  BY <2>3, TailFacts
<1> QED  BY <1>1, <1>2

\* Writing keeps messages unrepeated when the one written was not there.
LEMMA OnceAppend ==
    ASSUME NEW S, NEW s \in Seq(S), NEW e \in S, Once(s), e \in Calls => ~In(s, e)
    PROVE  Once(Append(s, e))
<1> SUFFICES ASSUME NEW i \in 1..Len(Append(s, e)), NEW j \in 1..Len(Append(s, e)),
                    Append(s, e)[i] \in Calls, Append(s, e)[i] = Append(s, e)[j]
             PROVE  i = j
  BY DEF Once
<1>1. (i \in 1..Len(s) \/ i = Len(s) + 1) /\ (j \in 1..Len(s) \/ j = Len(s) + 1)
  BY AppendFacts
<1>2. CASE i \in 1..Len(s) /\ j \in 1..Len(s)
  BY <1>2, AppendFacts DEF Once
<1>3. CASE i \in 1..Len(s) /\ j = Len(s) + 1
  BY <1>3, AppendFacts DEF In
<1>4. CASE i = Len(s) + 1 /\ j \in 1..Len(s)
  BY <1>4, AppendFacts DEF In
<1> QED  BY <1>1, <1>2, <1>3, <1>4

\* Every step keeps the types.
LEMMA TypeStep ==
    ASSUME TypeInv, [Next]_vars
    PROVE  TypeInv'
<1> USE OwnerAssumption, NoConnAssumption DEF TypeInv, TypeOK, Resolving, serverVars, wireVars, callVars, LinkStates, HandlerStates, AgentStates, DispatchStates, Outcomes
<1>1. ASSUME NEW c \in Conns, Agent(c) \/ NetworkDrop(c) \/ RefuseAgent(c) \/ Handler(c)
      PROVE  TypeInv'
  <2>1. CASE AgentConnect(c)
    BY <2>1 DEF AgentConnect
  <2>2. CASE AgentHandshake(c)
    <3>1. Tail(down[c]) \in Seq(Calls \cup {RegisterOK})
      BY <2>2, TailFacts DEF AgentHandshake
    <3> QED  BY <2>2, <3>1 DEF AgentHandshake, AfterLeave
  <2>3. CASE AgentRun(c)
    <3>1. Tail(down[c]) \in Seq(Calls \cup {RegisterOK}) /\ Head(down[c]) \in Calls
      BY <2>3, TailFacts DEF AgentRun
    <3>2. Append(up[c], Head(down[c])) \in Seq(Calls)
      BY <3>1, AppendFacts
    <3>3. down' \in [Conns -> Seq(Calls \cup {RegisterOK})]
      BY <2>3, <3>1 DEF AgentRun
    <3>7. up' \in [Conns -> Seq(Calls)]
      BY <2>3, <3>2 DEF AgentRun
    <3>4. runs' \in [Calls -> Nat]
      BY <2>3, <3>1 DEF AgentRun
    <3>5. link' \in [Conns -> LinkStates] /\ apc' \in [Conns -> AgentStates]
      BY <2>3 DEF AgentRun, AfterLeave
    <3>6. UNCHANGED <<serverVars, hpc, cur, callVars>>
      BY <2>3 DEF AgentRun
    <3> QED  BY <3>3, <3>4, <3>5, <3>6, <3>7
  <2>4. CASE AgentLeave(c)
    BY <2>4 DEF AgentLeave, AfterLeave
  <2>5. CASE NetworkDrop(c)
    BY <2>5 DEF NetworkDrop
  <2>6. CASE RefuseAgent(c)
    BY <2>6 DEF RefuseAgent
  <2>7. CASE register(c)
    BY <2>7 DEF register
  <2>8. CASE SendRegisterOK(c)
    <3>1. Append(down[c], RegisterOK) \in Seq(Calls \cup {RegisterOK})
      BY AppendFacts
    <3>2. down' \in [Conns -> Seq(Calls \cup {RegisterOK})]
      BY <2>8, <3>1 DEF SendRegisterOK
    <3>3. /\ UNCHANGED <<serverVars, link, up, cur, apc, runs, callVars>>
          /\ hpc' = [hpc EXCEPT ![c] = "loop"]
      BY <2>8 DEF SendRegisterOK
    <3> QED  BY <3>2, <3>3
  <2>9. CASE Decode(c)
    <3>1. Tail(up[c]) \in Seq(Calls) /\ Head(up[c]) \in Calls
      BY <2>9, TailFacts DEF Decode
    <3> QED  BY <2>9, <3>1 DEF Decode
  <2>10. CASE DecodeError(c)
    BY <2>10 DEF DecodeError
  <2>11. CASE resolveTake(c)
    BY <2>11 DEF resolveTake
  <2>12. CASE resolveSend(c)
    BY <2>12 DEF resolveSend
  <2>13. CASE resolveClose(c)
    BY <2>13 DEF resolveClose
  <2>14. CASE unregister(c)
    BY <2>14 DEF unregister
  <2>15. CASE Hangup(c)
    BY <2>15 DEF Hangup
  <2> QED  BY <1>1, <2>1, <2>2, <2>3, <2>4, <2>5, <2>6, <2>7, <2>8, <2>9, <2>10, <2>11, <2>12, <2>13, <2>14, <2>15 DEF Agent, Handler
<1>2. ASSUME NEW k \in Calls, Dispatch(k)
      PROVE  TypeInv'
  <2>1. CASE registerPending(k)
    BY <2>1 DEF registerPending
  <2>2. CASE send(k)
    <3>1. ses[k] \in Conns
      BY <2>2 DEF send
    <3>2. Append(down[ses[k]], k) \in Seq(Calls \cup {RegisterOK})
      BY <3>1, AppendFacts
    <3>3. down' \in [Conns -> Seq(Calls \cup {RegisterOK})]
      BY <2>2, <3>1, <3>2 DEF send
    <3>4. /\ dpc' \in [Calls -> DispatchStates] /\ outcome' \in [Calls -> Outcomes]
          /\ \A j \in Calls : j # k => dpc'[j] = dpc[j]
      BY <2>2 DEF send
    <3>5. UNCHANGED <<serverVars, link, up, hpc, cur, apc, runs, ses>>
      BY <2>2 DEF send
    <3> QED  BY <3>1, <3>3, <3>4, <3>5
  <2>3. CASE receive(k)
    BY <2>3 DEF receive
  <2>4. CASE timeout(k)
    BY <2>4 DEF timeout
  <2>5. CASE cancelTake(k)
    BY <2>5 DEF cancelTake
  <2>6. CASE cancelClose(k)
    BY <2>6 DEF cancelClose
  <2> QED  BY <1>2, <2>1, <2>2, <2>3, <2>4, <2>5, <2>6 DEF Dispatch
<1>3. ASSUME NEW k \in Calls, NEW a \in Agents, dispatchGet(k, a)
      PROVE  TypeInv'
  <2>1. sessions[a] # NoConn => ses'[k] \in Conns
    BY <1>3 DEF dispatchGet
  <2>2. /\ dpc' \in [Calls -> DispatchStates] /\ outcome' \in [Calls -> Outcomes]
        /\ ses' \in [Calls -> Conns \cup {NoConn}]
        /\ dpc'[k] = "done" \/ sessions[a] # NoConn
        /\ \A j \in Calls : j # k => dpc'[j] = dpc[j] /\ ses'[j] = ses[j]
    BY <1>3 DEF dispatchGet
  <2>3. UNCHANGED <<serverVars, wireVars, hpc, cur, apc, runs>>
    BY <1>3 DEF dispatchGet
  <2> QED  BY <2>1, <2>2, <2>3
<1>4. CASE UNCHANGED vars
  BY <1>4 DEF vars
<1> QED  BY <1>1, <1>2, <1>3, <1>4 DEF Next

(***************************************************************************)
(* Every step keeps RunInv: a command is put on a wire once, before it has *)
(* run, and only its run produces a reply.                                 *)
(***************************************************************************)
LEMMA RunStep ==
    ASSUME TypeInv, RunInv, [Next]_vars
    PROVE  RunInv'
<1> USE NoCallAssumption, RegisterOKAssumption DEF TypeInv, TypeOK, Resolving, RunInv, NotSentYet, OutcomeIsLast, SentOnce, RepliesAreRuns, serverVars, wireVars, callVars
<1>1. ASSUME NEW c \in Conns, Agent(c) \/ NetworkDrop(c) \/ RefuseAgent(c) \/ Handler(c)
      PROVE  RunInv'
  <2>1. CASE AgentConnect(c)
    BY <2>1 DEF AgentConnect
  <2>2. CASE AgentHandshake(c)
    <3>1. /\ down[c] \in Seq(Calls \cup {RegisterOK}) /\ down[c] # <<>>
          /\ down'[c] = Tail(down[c]) /\ \A d \in Conns : d # c => down'[d] = down[d]
          /\ UNCHANGED <<runs, dpc, outcome, up, hpc, cur, buf>>
      BY <2>2 DEF AgentHandshake
    <3>2. Once(down[c])
      OBVIOUS
    <3>3. Once(Tail(down[c])) /\ \A m : In(Tail(down[c]), m) => In(down[c], m)
      <4> HIDE DEF TypeInv, RunInv
      <4> QED  BY <3>1, <3>2, InTail, OnceTail
    <3>4. ASSUME NEW k \in Calls, NEW d \in Conns, In(down'[d], k)
         PROVE  In(down[d], k)
      <4> HIDE DEF TypeInv, RunInv
      <4>1. CASE d = c
        BY <3>4, <4>1, <3>1, <3>3
      <4>2. CASE d # c
        BY <3>4, <4>2, <3>1, <3>3
      <4> QED  BY <4>1, <4>2
    <3> QED  BY <3>1, <3>3, <3>4
  <2>3. CASE AgentRun(c)
    <3> DEFINE k == Head(down[c])
    <3>1. /\ k \in Calls /\ down[c] # <<>> /\ down[c] \in Seq(Calls \cup {RegisterOK})
          /\ down'[c] = Tail(down[c]) /\ \A d \in Conns : d # c => down'[d] = down[d]
          /\ runs' = [runs EXCEPT ![k] = @ + 1]
          /\ UNCHANGED <<hpc, cur, buf, dpc, outcome>>
      BY <2>3 DEF AgentRun
    <3>2. Once(down[c])
      OBVIOUS
    <3>3. /\ In(down[c], k) /\ ~In(Tail(down[c]), k) /\ Once(Tail(down[c]))
          /\ \A m : In(Tail(down[c]), m) => In(down[c], m)
      <4> HIDE DEF TypeInv, RunInv
      <4> QED  BY <3>1, <3>2, InTail, OnceTail
    <3>4. runs[k] = 0 /\ runs'[k] = 1 /\ \A j \in Calls : j # k => runs'[j] = runs[j]
      BY <3>1, <3>3
    <3>5. \A d \in Conns, j \in Calls : In(up'[d], j) => In(up[d], j) \/ j = k
      <4>1. CASE UNCHANGED up
        BY <4>1
      <4>2. CASE up' = [up EXCEPT ![c] = Append(@, k)]
        <5>1. /\ up[c] \in Seq(Calls) /\ up'[c] = Append(up[c], k)
              /\ \A d \in Conns : d # c => up'[d] = up[d]
          BY <4>2
        <5>2. \A m : In(Append(up[c], k), m) => In(up[c], m) \/ m = k
          <6> HIDE DEF TypeInv, RunInv, k
          <6> QED  BY <3>1, <5>1, InAppend
        <5>3. ASSUME NEW j \in Calls, NEW d \in Conns, In(up'[d], j)
             PROVE  In(up[d], j) \/ j = k
          <6> HIDE DEF TypeInv, RunInv
          <6>1. CASE d = c
            BY <5>3, <6>1, <5>1, <5>2
          <6>2. CASE d # c
            BY <5>3, <6>2, <5>1, <5>2
          <6> QED  BY <6>1, <6>2
        <5> QED  BY <5>3
      <4> QED  BY <2>3, <4>1, <4>2 DEF AgentRun
    <3> HIDE DEF k
    <3>10. \A d \in Conns : d # c => ~In(down[d], k)
      BY <3>1, <3>3
    <3>6. ASSUME NEW j \in Calls, NEW d \in Conns, In(down'[d], j)
         PROVE  In(down[d], j) /\ j # k
      <4> HIDE DEF TypeInv, RunInv
      <4>1. CASE d = c
        BY <3>6, <4>1, <3>1, <3>3, <3>10
      <4>2. CASE d # c
        BY <3>6, <4>2, <3>1, <3>3, <3>10
      <4> QED  BY <4>1, <4>2
    <3>7. NotSentYet' /\ OutcomeIsLast'
      BY <3>1, <3>3, <3>4, <3>6
    <3>8. SentOnce'
      <4>1. \A d \in Conns : Once(down'[d])
        BY <3>1, <3>3
      <4> QED  BY <3>4, <3>6, <4>1
    <3>9. RepliesAreRuns'
      BY <3>1, <3>4, <3>5
    <3> QED  BY <3>7, <3>8, <3>9
  <2>4. CASE AgentLeave(c)
    BY <2>4 DEF AgentLeave, AfterLeave
  <2>5. CASE NetworkDrop(c)
    BY <2>5 DEF NetworkDrop
  <2>6. CASE RefuseAgent(c)
    BY <2>6 DEF RefuseAgent
  <2>7. CASE register(c)
    BY <2>7 DEF register
  <2>8. CASE SendRegisterOK(c)
    <3>1. /\ UNCHANGED <<runs, dpc, outcome, up, cur, buf>> /\ hpc' = [hpc EXCEPT ![c] = "loop"]
          /\ down[c] \in Seq(Calls \cup {RegisterOK})
          /\ \A d \in Conns : d # c => down'[d] = down[d]
          /\ down'[c] = down[c] \/ down'[c] = Append(down[c], RegisterOK)
      BY <2>8 DEF SendRegisterOK
    <3>2. Once(down[c])
      OBVIOUS
    <3>3. /\ Once(Append(down[c], RegisterOK))
          /\ \A m : In(Append(down[c], RegisterOK), m) => In(down[c], m) \/ m = RegisterOK
      <4> HIDE DEF TypeInv, RunInv
      <4> QED  BY <3>1, <3>2, RegisterOKAssumption, InAppend, OnceAppend
    <3>4. Once(down'[c])
      BY <3>1, <3>2, <3>3
    <3>5. ASSUME NEW k \in Calls, NEW d \in Conns, In(down'[d], k)
         PROVE  In(down[d], k)
      <4> HIDE DEF TypeInv, RunInv
      <4>1. CASE d = c
        BY <3>5, <4>1, <3>1, <3>3, RegisterOKAssumption
      <4>2. CASE d # c
        BY <3>5, <4>2, <3>1, <3>3, RegisterOKAssumption
      <4> QED  BY <4>1, <4>2
    <3> QED  BY <3>1, <3>4, <3>5
  <2>9. CASE Decode(c)
    <3>1. /\ up[c] \in Seq(Calls) /\ up[c] # <<>> /\ cur'[c] = Head(up[c])
          /\ up'[c] = Tail(up[c]) /\ \A d \in Conns : d # c => up'[d] = up[d]
          /\ \A d \in Conns : d # c => hpc'[d] = hpc[d] /\ cur'[d] = cur[d]
          /\ UNCHANGED <<runs, dpc, outcome, down, buf>>
      BY <2>9 DEF Decode
    <3>2. /\ Head(up[c]) \in Calls /\ In(up[c], Head(up[c]))
          /\ \A m : In(Tail(up[c]), m) => In(up[c], m)
      <4> HIDE DEF TypeInv, RunInv
      <4> QED  BY <3>1, TailFacts, InTail
    <3>3. RepliesAreRuns'
      <4>1. runs[cur'[c]] = 1
        BY <3>1, <3>2
      <4>2. ASSUME NEW k \in Calls, NEW d \in Conns, In(up'[d], k)
           PROVE  In(up[d], k)
        <5> HIDE DEF TypeInv, RunInv
        <5>1. CASE d = c
          BY <4>2, <5>1, <3>1, <3>2
        <5>2. CASE d # c
          BY <4>2, <5>2, <3>1, <3>2
        <5> QED  BY <5>1, <5>2
      <4> QED  BY <3>1, <4>1, <4>2
    <3> QED  BY <3>1, <3>3
  <2>10. CASE DecodeError(c)
    BY <2>10 DEF DecodeError
  <2>11. CASE resolveTake(c)
    BY <2>11 DEF resolveTake
  <2>12. CASE resolveSend(c)
    BY <2>12 DEF resolveSend
  <2>13. CASE resolveClose(c)
    BY <2>13 DEF resolveClose
  <2>14. CASE unregister(c)
    BY <2>14 DEF unregister
  <2>15. CASE Hangup(c)
    BY <2>15 DEF Hangup
  <2> QED  BY <1>1, <2>1, <2>2, <2>3, <2>4, <2>5, <2>6, <2>7, <2>8, <2>9, <2>10, <2>11, <2>12, <2>13, <2>14, <2>15 DEF Agent, Handler
<1>2. ASSUME NEW k \in Calls, Dispatch(k)
      PROVE  RunInv'
  <2>1. CASE registerPending(k)
    BY <2>1 DEF registerPending
  <2>2. CASE send(k)
    <3>1. /\ ses[k] \in Conns /\ dpc[k] = "send" /\ outcome[k] = "none"
          /\ runs[k] = 0 /\ \A c \in Conns : ~In(down[c], k)
          /\ UNCHANGED <<runs, up, hpc, cur, buf>>
      BY <2>2 DEF send
    <3>2. CASE UNCHANGED down /\ dpc' = [dpc EXCEPT ![k] = "cancel"]
               /\ outcome' = [outcome EXCEPT ![k] = "senderr"]
      BY <3>1, <3>2
    <3>3. CASE down' = [down EXCEPT ![ses[k]] = Append(@, k)] /\ UNCHANGED outcome
               /\ dpc' = [dpc EXCEPT ![k] = "wait"]
      <4> DEFINE s == ses[k]
      <4>1. /\ down[s] \in Seq(Calls \cup {RegisterOK}) /\ down'[s] = Append(down[s], k)
            /\ \A d \in Conns : d # s => down'[d] = down[d]
        BY <3>1, <3>3
      <4>6. Once(down[s]) /\ ~In(down[s], k)
        BY <3>1
      <4>7. /\ Once(Append(down[s], k))
            /\ \A m : In(Append(down[s], k), m) => In(down[s], m) \/ m = k
        <5> HIDE DEF TypeInv, RunInv, s
        <5> QED  BY <4>1, <4>6, InAppend, OnceAppend
      <4> HIDE DEF s
      <4>2. ASSUME NEW j \in Calls, NEW d \in Conns, In(down'[d], j)
           PROVE  In(down[d], j) \/ (j = k /\ d = s)
        <5> HIDE DEF TypeInv, RunInv
        <5>1. CASE d = s
          BY <4>2, <5>1, <4>1, <4>7
        <5>2. CASE d # s
          BY <4>2, <5>2, <4>1, <4>7
        <5> QED  BY <5>1, <5>2
      <4>3. NotSentYet' /\ OutcomeIsLast'
        BY <3>1, <3>3, <4>2
      <4>4. SentOnce'
        <5>1. \A d \in Conns : Once(down'[d])
          BY <4>1, <4>7
        <5> QED  BY <3>1, <4>2, <5>1
      <4>5. RepliesAreRuns'
        BY <3>1, <3>3
      <4> QED  BY <4>3, <4>4, <4>5
    <3> QED  BY <2>2, <3>2, <3>3 DEF send
  <2>3. CASE receive(k)
    BY <2>3 DEF receive
  <2>4. CASE timeout(k)
    BY <2>4 DEF timeout
  <2>5. CASE cancelTake(k)
    BY <2>5 DEF cancelTake
  <2>6. CASE cancelClose(k)
    BY <2>6 DEF cancelClose
  <2> QED  BY <1>2, <2>1, <2>2, <2>3, <2>4, <2>5, <2>6 DEF Dispatch
<1>3. ASSUME NEW k \in Calls, NEW a \in Agents, dispatchGet(k, a)
      PROVE  RunInv'
  BY <1>3 DEF dispatchGet
<1>4. CASE UNCHANGED vars
  BY <1>4 DEF vars
<1> QED  BY <1>1, <1>2, <1>3, <1>4 DEF Next

(***************************************************************************)
(* Every step keeps ChannelInv: a channel changes hands under m.mu only.   *)
(***************************************************************************)
LEMMA ChannelStep ==
    ASSUME TypeInv, RunInv, ChannelInv, [Next]_vars
    PROVE  ChannelInv'
<1> USE DEF TypeInv, TypeOK, Resolving, RunInv, NotSentYet, RepliesAreRuns, ChannelInv, PendingOwns, HandlerOwns, DispatchOwns, Fresh, ClosedAfterReply, NoPanic, NeverCancelled, Holds, serverVars, wireVars, callVars
<1>1. ASSUME NEW c \in Conns, Agent(c) \/ NetworkDrop(c) \/ RefuseAgent(c) \/ Handler(c)
      PROVE  ChannelInv'
  <2>1. CASE AgentConnect(c)
    BY <2>1 DEF AgentConnect
  <2>2. CASE AgentHandshake(c)
    BY <2>2 DEF AgentHandshake, AfterLeave
  <2>3. CASE AgentRun(c)
    BY <2>3 DEF AgentRun, AfterLeave
  <2>4. CASE AgentLeave(c)
    BY <2>4 DEF AgentLeave, AfterLeave
  <2>5. CASE NetworkDrop(c)
    BY <2>5 DEF NetworkDrop
  <2>6. CASE RefuseAgent(c)
    BY <2>6 DEF RefuseAgent
  <2>7. CASE register(c)
    BY <2>7 DEF register
  <2>8. CASE SendRegisterOK(c)
    BY <2>8 DEF SendRegisterOK
  <2>9. CASE Decode(c)
    BY <2>9 DEF Decode
  <2>10. CASE DecodeError(c)
    BY <2>10 DEF DecodeError
  <2>11. CASE resolveTake(c)
    <3>1. CASE cur[c] \in pending
      BY <2>11, <3>1 DEF resolveTake
    <3>2. CASE cur[c] \notin pending
      BY <2>11, <3>2 DEF resolveTake
    <3> QED  BY <3>1, <3>2
  <2>12. CASE resolveSend(c)
    BY <2>12 DEF resolveSend
  <2>13. CASE resolveClose(c)
    BY <2>13 DEF resolveClose
  <2>14. CASE unregister(c)
    BY <2>14 DEF unregister
  <2>15. CASE Hangup(c)
    BY <2>15 DEF Hangup
  <2> QED  BY <1>1, <2>1, <2>2, <2>3, <2>4, <2>5, <2>6, <2>7, <2>8, <2>9, <2>10, <2>11, <2>12, <2>13, <2>14, <2>15 DEF Agent, Handler
<1>2. ASSUME NEW k \in Calls, Dispatch(k)
      PROVE  ChannelInv'
  <2>1. CASE registerPending(k)
    BY <2>1 DEF registerPending
  <2>2. CASE send(k)
    <3>1. /\ UNCHANGED <<serverVars, hpc, cur>>
          /\ dpc[k] = "send" /\ dpc'[k] \in {"wait", "cancel"}
          /\ \A j \in Calls : j # k => dpc'[j] = dpc[j]
          /\ outcome'[k] \in {outcome[k], "senderr"}
          /\ \A j \in Calls : j # k => outcome'[j] = outcome[j]
      BY <2>2 DEF send
    <3>2. PendingOwns'
      <4> SUFFICES ASSUME NEW j \in pending
                    PROVE  /\ dpc'[j] \in {"send", "wait", "cancel"}
                           /\ j \notin buf' /\ j \notin closed'
                           /\ \A c \in Conns : ~Holds(c, j)'
        BY <3>1
      <4>1. dpc'[j] \in {"send", "wait", "cancel"}
        BY <3>1
      <4> QED  BY <3>1, <4>1
    <3>3. (HandlerOwns)'
      BY <3>1
    <3>4. (DispatchOwns /\ Fresh)'
      BY <3>1
    <3>5. (ClosedAfterReply)'
      BY <3>1
    <3>6. (NoPanic /\ NeverCancelled)'
      BY <3>1
    <3> QED  BY <3>2, <3>3, <3>4, <3>5, <3>6
  <2>3. CASE receive(k)
    BY <2>3 DEF receive
  <2>4. CASE timeout(k)
    BY <2>4 DEF timeout
  <2>5. CASE cancelTake(k)
    <3>1. /\ UNCHANGED <<buf, closed, panicked, hpc, cur, outcome>>
          /\ dpc[k] = "cancel" /\ pending' = pending \ {k}
          /\ dpc'[k] = IF k \in pending THEN "close" ELSE "done"
          /\ \A j \in Calls : j # k => dpc'[j] = dpc[j]
      BY <2>5 DEF cancelTake
    <3> QED  BY <3>1
  <2>6. CASE cancelClose(k)
    BY <2>6 DEF cancelClose
  <2> QED  BY <1>2, <2>1, <2>2, <2>3, <2>4, <2>5, <2>6 DEF Dispatch
<1>3. ASSUME NEW k \in Calls, NEW a \in Agents, dispatchGet(k, a)
      PROVE  ChannelInv'
  <2>1. /\ UNCHANGED <<serverVars, wireVars, hpc, cur>>
        /\ dpc[k] = "idle" /\ dpc'[k] \in {"pend", "done"}
        /\ \A j \in Calls : j # k => dpc'[j] = dpc[j]
        /\ outcome'[k] \in {outcome[k], "offline"}
        /\ \A j \in Calls : j # k => outcome'[j] = outcome[j]
    BY <1>3 DEF dispatchGet
  <2>2. PendingOwns'
    <3> SUFFICES ASSUME NEW j \in pending
                  PROVE  /\ dpc'[j] \in {"send", "wait", "cancel"}
                         /\ j \notin buf' /\ j \notin closed'
                         /\ \A c \in Conns : ~Holds(c, j)'
      BY <2>1
    <3>1. dpc'[j] \in {"send", "wait", "cancel"}
      BY <2>1
    <3> QED  BY <2>1, <3>1
  <2>3. (HandlerOwns)'
    BY <2>1
  <2>4. (DispatchOwns /\ Fresh)'
    BY <2>1
  <2>5. (ClosedAfterReply)'
    BY <2>1
  <2>6. (NoPanic /\ NeverCancelled)'
    BY <2>1
  <2> QED  BY <2>2, <2>3, <2>4, <2>5, <2>6
<1>4. CASE UNCHANGED vars
  BY <1>4 DEF vars
<1> QED  BY <1>1, <1>2, <1>3, <1>4 DEF Next

\* Every step keeps SessionInv.
LEMMA SessionStep ==
    ASSUME TypeInv, SessionInv, [Next]_vars
    PROVE  SessionInv'
<1> USE OwnerAssumption, NoConnAssumption DEF TypeInv, TypeOK, SessionInv, UnusedIsIdle, SessionHasHandler, SupersededIsClosed, Serving, serverVars, wireVars, callVars
<1>1. ASSUME NEW c \in Conns, Agent(c) \/ NetworkDrop(c) \/ RefuseAgent(c) \/ Handler(c)
      PROVE  SessionInv'
  <2>1. CASE AgentConnect(c)
    BY <2>1 DEF AgentConnect
  <2>2. CASE AgentHandshake(c)
    BY <2>2 DEF AgentHandshake, AfterLeave
  <2>3. CASE AgentRun(c)
    BY <2>3 DEF AgentRun, AfterLeave
  <2>4. CASE AgentLeave(c)
    BY <2>4 DEF AgentLeave, AfterLeave
  <2>5. CASE NetworkDrop(c)
    BY <2>5 DEF NetworkDrop
  <2>6. CASE RefuseAgent(c)
    BY <2>6 DEF RefuseAgent
  <2>7. CASE register(c)
    BY <2>7 DEF register
  <2>8. CASE SendRegisterOK(c)
    BY <2>8 DEF SendRegisterOK
  <2>9. CASE Decode(c)
    BY <2>9 DEF Decode
  <2>10. CASE DecodeError(c)
    BY <2>10 DEF DecodeError
  <2>11. CASE resolveTake(c)
    <3>1. /\ UNCHANGED <<sessions, link>>
          /\ hpc[c] = "resolve" /\ hpc'[c] \in {"deliver", "loop"}
          /\ \A d \in Conns : d # c => hpc'[d] = hpc[d]
      BY <2>11 DEF resolveTake
    <3>2. SessionHasHandler'
      <4> SUFFICES ASSUME NEW a \in Agents, sessions[a] # NoConn
                   PROVE  Owner[sessions[a]] = a /\ hpc'[sessions[a]] \in Serving
        BY <3>1
      <4>1. sessions[a] \in Conns /\ hpc[sessions[a]] \in Serving
        OBVIOUS
      <4> QED  BY <3>1, <4>1
    <3>3. SupersededIsClosed'
      BY <3>1
    <3>4. UnusedIsIdle'
      BY <3>1
    <3> QED  BY <3>2, <3>3, <3>4
  <2>12. CASE resolveSend(c)
    BY <2>12 DEF resolveSend
  <2>13. CASE resolveClose(c)
    BY <2>13 DEF resolveClose
  <2>14. CASE unregister(c)
    BY <2>14 DEF unregister
  <2>15. CASE Hangup(c)
    BY <2>15 DEF Hangup
  <2> QED  BY <1>1, <2>1, <2>2, <2>3, <2>4, <2>5, <2>6, <2>7, <2>8, <2>9, <2>10, <2>11, <2>12, <2>13, <2>14, <2>15 DEF Agent, Handler
<1>2. ASSUME NEW k \in Calls, Dispatch(k)
      PROVE  SessionInv'
  <2>1. CASE registerPending(k)
    BY <2>1 DEF registerPending
  <2>2. CASE send(k)
    BY <2>2 DEF send
  <2>3. CASE receive(k)
    BY <2>3 DEF receive
  <2>4. CASE timeout(k)
    BY <2>4 DEF timeout
  <2>5. CASE cancelTake(k)
    BY <2>5 DEF cancelTake
  <2>6. CASE cancelClose(k)
    BY <2>6 DEF cancelClose
  <2> QED  BY <1>2, <2>1, <2>2, <2>3, <2>4, <2>5, <2>6 DEF Dispatch
<1>3. ASSUME NEW k \in Calls, NEW a \in Agents, dispatchGet(k, a)
      PROVE  SessionInv'
  BY <1>3 DEF dispatchGet
<1>4. CASE UNCHANGED vars
  BY <1>4 DEF vars
<1> QED  BY <1>1, <1>2, <1>3, <1>4 DEF Next

\* The inductive invariant of the specification.
IInv == TypeInv /\ RunInv /\ ChannelInv /\ SessionInv

\* The server starts with empty maps and no goroutine in them.
LEMMA InitIInv == Init => IInv
<1> SUFFICES ASSUME Init PROVE IInv
  OBVIOUS
<1>0. <<>> \in Seq(Calls \cup {RegisterOK}) /\ <<>> \in Seq(Calls)
  OBVIOUS
<1>1. TypeInv
  <2>1. /\ down \in [Conns -> Seq(Calls \cup {RegisterOK})] /\ up \in [Conns -> Seq(Calls)]
        /\ runs \in [Calls -> Nat]
    BY <1>0 DEF Init
  <2> QED  BY <2>1 DEF Init, TypeInv, TypeOK, Resolving, LinkStates, HandlerStates,
              AgentStates, DispatchStates, Outcomes
<1>2. \A c \in Conns : Len(down[c]) = 0 /\ Len(up[c]) = 0
  BY DEF Init
<1>3. RunInv
  BY <1>2 DEF Init, RunInv, NotSentYet, OutcomeIsLast, SentOnce, RepliesAreRuns, In, Once, Resolving
<1>4. ChannelInv
  BY DEF Init, ChannelInv, PendingOwns, HandlerOwns, DispatchOwns, Fresh, ClosedAfterReply,
         NoPanic, NeverCancelled, Holds
<1>5. SessionInv
  BY DEF Init, SessionInv, SessionHasHandler, SupersededIsClosed, UnusedIsIdle, Serving
<1> QED  BY <1>1, <1>3, <1>4, <1>5 DEF IInv

\* The inductive step, from the steps of the four parts.
LEMMA StepIInv == IInv /\ [Next]_vars => IInv'
  BY TypeStep, RunStep, ChannelStep, SessionStep DEF IInv

(***************************************************************************)
(* The inductive invariant holds in every reachable state of the session   *)
(* manager: who owns a reply channel, what is on a wire, and which handler *)
(* serves a session.                                                       *)
(***************************************************************************)
THEOREM Invariance == Spec => []IInv
  BY InitIInv, StepIInv, PTL DEF Spec

(***************************************************************************)
(* The variables of the model keep their types.                            *)
(***************************************************************************)
THEOREM TypeCorrect == Spec => []TypeOK
<1>1. IInv => TypeOK
  BY DEF IInv, TypeInv
<1> QED  BY <1>1, Invariance, PTL

(***************************************************************************)
(* For any number of connections and calls, no goroutine of resolvePending *)
(* or cancelPending ever sends on, or closes, a closed channel.            *)
(***************************************************************************)
THEOREM ChannelsNeverPanic == Spec => []NoPanic
<1>1. IInv => NoPanic
  BY DEF IInv, ChannelInv
<1> QED  BY <1>1, Invariance, PTL

(***************************************************************************)
(* A dispatch that has returned leaves nothing in the pending map.         *)
(***************************************************************************)
THEOREM PendingIsReleased == Spec => []NoPendingLeak
<1>1. IInv => NoPendingLeak
  BY DEF IInv, ChannelInv, PendingOwns, NoPendingLeak
<1> QED  BY <1>1, Invariance, PTL

(***************************************************************************)
(* The "cancelled" return of dispatch is dead code.                        *)
(***************************************************************************)
THEOREM CancelledIsDead == Spec => []NeverCancelled
<1>1. IInv => NeverCancelled
  BY DEF IInv, ChannelInv
<1> QED  BY <1>1, Invariance, PTL

(***************************************************************************)
(* The session map names only connections that are being served.           *)
(***************************************************************************)
THEOREM SessionsAreServed == Spec => []SessionHasHandler
<1>1. IInv => SessionHasHandler
  BY DEF IInv, SessionInv
<1> QED  BY <1>1, Invariance, PTL

(***************************************************************************)
(* Every connection of an agent that is still served and is not its        *)
(* session has been closed by register.                                    *)
(***************************************************************************)
THEOREM OneOpenConnection == Spec => []SupersededIsClosed
<1>1. IInv => SupersededIsClosed
  BY DEF IInv, SessionInv
<1> QED  BY <1>1, Invariance, PTL

(***************************************************************************)
(* Only the handler of the current session takes it out of the map.        *)
(***************************************************************************)
THEOREM LateUnregisterIsHarmless == Spec => OnlyOwnSessionLeaves
<1>1. ASSUME TypeInv, [Next]_vars, NEW a \in Agents, sessions[a] # NoConn, sessions'[a] = NoConn
      PROVE  hpc[sessions[a]] = "unregister" /\ hpc'[sessions[a]] = "hangup"
  <2> USE OwnerAssumption, NoConnAssumption DEF TypeInv, TypeOK
  <2>1. ASSUME NEW c \in Conns, register(c)
        PROVE  FALSE
    BY <1>1, <2>1 DEF register
  <2>2. ASSUME NEW c \in Conns, unregister(c)
        PROVE  hpc[sessions[a]] = "unregister" /\ hpc'[sessions[a]] = "hangup"
    BY <1>1, <2>2 DEF unregister
  <2>3. CASE UNCHANGED sessions
    BY <1>1, <2>3
  <2> QED
    BY <1>1, <2>1, <2>2, <2>3 DEF Next, Agent, Handler, Dispatch, vars, serverVars,
       AgentConnect, AgentHandshake, AgentRun, AgentLeave, NetworkDrop, RefuseAgent,
       SendRegisterOK, Decode, DecodeError, resolveTake, resolveSend, resolveClose, Hangup,
       dispatchGet, registerPending, send, receive, timeout, cancelTake, cancelClose
<1>2. IInv /\ [Next]_vars =>
        [\A a \in Agents :
           sessions[a] # NoConn /\ sessions'[a] = NoConn =>
              hpc[sessions[a]] = "unregister" /\ hpc'[sessions[a]] = "hangup"]_vars
  BY <1>1 DEF IInv
<1> QED  BY <1>2, Invariance, PTL DEF Spec, OnlyOwnSessionLeaves

-----------------------------------------------------------------------------
(* No reply is lost on a caller that waits.                                *)

\* Whoever dispatched the command has an entry in the pending map, or no
\* longer waits.
Awaited(k) == k \in pending \/ dpc[k] \in {"cancel", "close", "done"}

\* The reply to k is on its way to resolvePending over connection c.
Replying(c, k) == In(up[c], k) \/ (hpc[c] = "resolve" /\ cur[c] = k)

EntryBeforeSend == \A k \in Calls : dpc[k] = "send" => k \in pending

MessagesAwaited ==
    \A c \in Conns, k \in Calls : In(down[c], k) \/ Replying(c, k) => Awaited(k)

RepliedOnce ==
    /\ \A c \in Conns : Once(up[c]) /\ (hpc[c] = "resolve" => ~In(up[c], cur[c]))
    /\ \A c, d \in Conns, k \in Calls : Replying(c, k) /\ Replying(d, k) => c = d

AwaitInv == EntryBeforeSend /\ MessagesAwaited /\ RepliedOnce

\* Steps that bring no reply any nearer.
LEMMA AwaitFrame ==
    ASSUME AwaitInv, UNCHANGED <<up, cur>>,
           \A c \in Conns : hpc'[c] = "resolve" => hpc[c] = "resolve",
           \A k \in Calls : Awaited(k) => Awaited(k)',
           \A k \in Calls : dpc'[k] = "send" => k \in pending',
           \A c \in Conns, k \in Calls : In(down'[c], k) => In(down[c], k) \/ Awaited(k)'
    PROVE  AwaitInv'
<1>1. \A c \in Conns, k \in Calls : Replying(c, k)' => Replying(c, k)
  BY DEF Replying
<1>2. MessagesAwaited'
  BY <1>1 DEF AwaitInv, MessagesAwaited
<1>3. RepliedOnce'
  BY <1>1 DEF AwaitInv, RepliedOnce
<1> QED  BY <1>2, <1>3 DEF AwaitInv, EntryBeforeSend

\* A connection's steps other than running a command, reading a reply and
\* looking for its entry.
LEMMA AwaitConn ==
    ASSUME TypeInv, AwaitInv, NEW c \in Conns,
           \/ AgentConnect(c) \/ AgentHandshake(c) \/ AgentLeave(c) \/ NetworkDrop(c) \/ RefuseAgent(c)
           \/ register(c) \/ SendRegisterOK(c) \/ DecodeError(c) \/ resolveSend(c) \/ resolveClose(c)
           \/ unregister(c) \/ Hangup(c)
    PROVE  AwaitInv'
<1>1. UNCHANGED <<up, cur, pending, dpc>> /\ \A d \in Conns : hpc'[d] = "resolve" => hpc[d] = "resolve"
  BY DEF TypeInv, TypeOK, serverVars, wireVars, callVars, AgentConnect, AgentHandshake, AgentLeave,
         NetworkDrop, RefuseAgent, register, SendRegisterOK, DecodeError, resolveSend, resolveClose,
         unregister, Hangup
<1>2. \/ UNCHANGED down
      \/ down[c] # <<>> /\ down' = [down EXCEPT ![c] = Tail(@)]
      \/ down' = [down EXCEPT ![c] = Append(@, RegisterOK)]
  BY DEF wireVars, AgentConnect, AgentHandshake, AgentLeave, NetworkDrop, RefuseAgent, register,
         SendRegisterOK, DecodeError, resolveSend, resolveClose, unregister, Hangup
<1>3. \A d \in Conns, k \in Calls : In(down'[d], k) => In(down[d], k)
  <2>1. down \in [Conns -> Seq(Calls \cup {RegisterOK})]
    BY DEF TypeInv, TypeOK
  <2>2. CASE down[c] # <<>> /\ down' = [down EXCEPT ![c] = Tail(@)]
    <3>1. \A m : In(Tail(down[c]), m) => In(down[c], m)
      BY <2>1, <2>2, InTail
    <3>2. down'[c] = Tail(down[c]) /\ \A d \in Conns \ {c} : down'[d] = down[d]
      BY <2>1, <2>2
    <3>3. ASSUME NEW d \in Conns, NEW k \in Calls, In(down'[d], k)
          PROVE  In(down[d], k)
      <4>1. CASE d = c
        BY <3>1, <3>2, <3>3, <4>1
      <4>2. CASE d # c
        BY <3>2, <3>3, <4>2
      <4> QED  BY <4>1, <4>2
    <3> QED  BY <3>3
  <2>3. CASE down' = [down EXCEPT ![c] = Append(@, RegisterOK)]
    <3>1. \A m : In(Append(down[c], RegisterOK), m) => In(down[c], m) \/ m = RegisterOK
      BY <2>1, InAppend
    <3>2. down'[c] = Append(down[c], RegisterOK) /\ \A d \in Conns \ {c} : down'[d] = down[d]
      BY <2>1, <2>3
    <3>3. ASSUME NEW d \in Conns, NEW k \in Calls, In(down'[d], k)
          PROVE  In(down[d], k)
      <4>1. CASE d = c
        BY <3>1, <3>2, <3>3, <4>1, RegisterOKAssumption
      <4>2. CASE d # c
        BY <3>2, <3>3, <4>2
      <4> QED  BY <4>1, <4>2
    <3> QED  BY <3>3
  <2> QED  BY <1>2, <2>2, <2>3
<1>4. \A k \in Calls : (Awaited(k) => Awaited(k)') /\ (dpc'[k] = "send" => k \in pending')
  BY <1>1 DEF Awaited, AwaitInv, EntryBeforeSend
<1> QED  BY <1>1, <1>3, <1>4, AwaitFrame

\* The agent runs a command for the first time, and its caller has an entry.
LEMMA AwaitRun ==
    ASSUME TypeInv, RunInv, AwaitInv, NEW c \in Conns, AgentRun(c)
    PROVE  AwaitInv'
<1> DEFINE k == Head(down[c])
<1>1. /\ k \in Calls /\ down[c] # <<>> /\ down[c] \in Seq(Calls \cup {RegisterOK})
      /\ up[c] \in Seq(Calls)
      /\ down'[c] = Tail(down[c]) /\ \A d \in Conns \ {c} : down'[d] = down[d]
      /\ \/ UNCHANGED up
         \/ up'[c] = Append(up[c], k) /\ \A d \in Conns \ {c} : up'[d] = up[d]
      /\ UNCHANGED <<hpc, cur, pending, dpc>>
  BY DEF AgentRun, TypeInv, TypeOK, serverVars, callVars
<1>2. In(down[c], k) /\ \A m : In(Tail(down[c]), m) => In(down[c], m)
  <2> HIDE DEF k
  <2> QED  BY <1>1, InTail DEF k
<1>3. Awaited(k) /\ runs[k] = 0
  BY <1>1, <1>2 DEF AwaitInv, MessagesAwaited, RunInv, SentOnce
<1>4. \A d \in Conns : ~Replying(d, k)
  BY <1>1, <1>3 DEF Replying, RunInv, RepliesAreRuns, Resolving
<1> HIDE DEF k
<1>5. \A d \in Conns, j \in Calls : In(down'[d], j) => In(down[d], j)
  <2> SUFFICES ASSUME NEW d \in Conns, NEW j \in Calls, In(down'[d], j) PROVE In(down[d], j)
    OBVIOUS
  <2>1. CASE d = c
    BY <1>1, <1>2, <2>1
  <2>2. CASE d # c
    BY <1>1, <2>2
  <2> QED  BY <2>1, <2>2
<1>6. CASE UNCHANGED up
  BY <1>1, <1>5, <1>6, AwaitFrame DEF Awaited, AwaitInv, EntryBeforeSend
<1>7. CASE up'[c] = Append(up[c], k) /\ \A d \in Conns \ {c} : up'[d] = up[d]
  <2>1. Once(up[c]) /\ ~In(up[c], k)
    BY <1>4 DEF AwaitInv, RepliedOnce, Replying
  <2>2. Once(up'[c]) /\ \A m : In(up'[c], m) => In(up[c], m) \/ m = k
    BY <1>1, <1>7, <2>1, OnceAppend, InAppend
  <2>3. ASSUME NEW d \in Conns, NEW j \in Calls, Replying(d, j)'
        PROVE  Replying(d, j) \/ (d = c /\ j = k)
    <3>1. CASE d = c
      BY <1>1, <2>2, <2>3, <3>1 DEF Replying
    <3>2. CASE d # c
      BY <1>1, <1>7, <2>3, <3>2 DEF Replying
    <3> QED  BY <3>1, <3>2
  <2>4. EntryBeforeSend'
    BY <1>1 DEF AwaitInv, EntryBeforeSend
  <2>5. \A j \in Calls : Awaited(j) => Awaited(j)'
    BY <1>1 DEF Awaited
  <2>6. MessagesAwaited'
    BY <1>3, <1>5, <2>3, <2>5 DEF AwaitInv, MessagesAwaited
  <2>7. ASSUME NEW d \in Conns
        PROVE  Once(up'[d]) /\ (hpc'[d] = "resolve" => ~In(up'[d], cur'[d]))
    <3>1. CASE d = c
      <4>1. hpc[c] = "resolve" => cur[c] # k /\ ~In(up[c], cur[c])
        BY <1>4 DEF Replying, AwaitInv, RepliedOnce
      <4> QED  BY <1>1, <2>2, <3>1, <4>1
    <3>2. CASE d # c
      BY <1>1, <1>7, <3>2 DEF AwaitInv, RepliedOnce
    <3> QED  BY <3>1, <3>2
  <2>8. \A d, e \in Conns, j \in Calls : Replying(d, j)' /\ Replying(e, j)' => d = e
    BY <1>4, <2>3 DEF AwaitInv, RepliedOnce
  <2> QED  BY <2>4, <2>6, <2>7, <2>8 DEF AwaitInv, RepliedOnce
<1> QED  BY <1>1, <1>6, <1>7

\* A reply that is read is the only one to its command.
LEMMA AwaitDecode ==
    ASSUME TypeInv, AwaitInv, NEW c \in Conns, Decode(c)
    PROVE  AwaitInv'
<1> DEFINE k == Head(up[c])
<1>1. /\ up[c] # <<>> /\ up[c] \in Seq(Calls)
      /\ up'[c] = Tail(up[c]) /\ \A d \in Conns \ {c} : up'[d] = up[d]
      /\ hpc[c] = "loop" /\ hpc'[c] = "resolve" /\ \A d \in Conns \ {c} : hpc'[d] = hpc[d]
      /\ cur'[c] = k /\ \A d \in Conns \ {c} : cur'[d] = cur[d]
      /\ UNCHANGED <<down, pending, dpc>>
  BY DEF Decode, TypeInv, TypeOK, serverVars, callVars
<1>2. Once(up[c])
  BY DEF AwaitInv, RepliedOnce
<1>3. /\ k \in Calls /\ In(up[c], k) /\ ~In(Tail(up[c]), k) /\ Once(Tail(up[c]))
      /\ \A m : In(Tail(up[c]), m) => In(up[c], m)
  <2>1. k \in Calls
    BY <1>1, TailFacts
  <2> QED  BY <1>1, <1>2, <2>1, InTail, OnceTail
<1> HIDE DEF k
<1>4. ASSUME NEW d \in Conns, NEW j \in Calls, Replying(d, j)'
      PROVE  Replying(d, j)
  <2>1. CASE d = c
    BY <1>1, <1>3, <1>4, <2>1 DEF Replying
  <2>2. CASE d # c
    BY <1>1, <1>4, <2>2 DEF Replying
  <2> QED  BY <2>1, <2>2
<1>5. EntryBeforeSend' /\ MessagesAwaited'
  BY <1>1, <1>4 DEF AwaitInv, EntryBeforeSend, MessagesAwaited, Awaited
<1>6. ASSUME NEW d \in Conns
      PROVE  Once(up'[d]) /\ (hpc'[d] = "resolve" => ~In(up'[d], cur'[d]))
  <2>1. CASE d = c
    BY <1>1, <1>3, <2>1
  <2>2. CASE d # c
    BY <1>1, <2>2 DEF AwaitInv, RepliedOnce
  <2> QED  BY <2>1, <2>2
<1>7. \A d, e \in Conns, j \in Calls : Replying(d, j)' /\ Replying(e, j)' => d = e
  BY <1>4 DEF AwaitInv, RepliedOnce
<1> QED  BY <1>5, <1>6, <1>7 DEF AwaitInv, RepliedOnce

\* Taking the entry of a command out leaves no other reply to it behind.
LEMMA AwaitResolve ==
    ASSUME TypeInv, RunInv, AwaitInv, NEW c \in Conns, resolveTake(c)
    PROVE  AwaitInv'
<1> DEFINE k == cur[c]
<1>1. /\ k \in Calls /\ runs[k] = 1
      /\ hpc[c] = "resolve" /\ hpc'[c] # "resolve" /\ \A d \in Conns \ {c} : hpc'[d] = hpc[d]
      /\ pending \ {k} \subseteq pending'
      /\ UNCHANGED <<up, cur, down, dpc>>
  BY DEF resolveTake, TypeInv, TypeOK, wireVars, callVars, Resolving, RunInv, RepliesAreRuns
<1>2. Replying(c, k) /\ ~In(up[c], k)
  BY <1>1 DEF Replying, AwaitInv, RepliedOnce
<1> HIDE DEF k
<1>3. ASSUME NEW d \in Conns, NEW j \in Calls, Replying(d, j)'
      PROVE  Replying(d, j) /\ j # k
  <2>1. Replying(d, j) /\ (j = k => d # c)
    BY <1>1, <1>2, <1>3 DEF Replying
  <2> QED  BY <1>1, <1>2, <2>1 DEF AwaitInv, RepliedOnce
<1>4. \A d \in Conns : ~In(down[d], k)
  BY <1>1 DEF RunInv, SentOnce
<1>5. dpc[k] # "send"
  BY <1>1 DEF RunInv, NotSentYet
<1>6. EntryBeforeSend'
  BY <1>1, <1>5 DEF AwaitInv, EntryBeforeSend
<1>7. \A j \in Calls \ {k} : Awaited(j) => Awaited(j)'
  BY <1>1 DEF Awaited
<1>8. MessagesAwaited'
  BY <1>1, <1>3, <1>4, <1>7 DEF AwaitInv, MessagesAwaited
<1>9. ASSUME NEW d \in Conns
      PROVE  Once(up'[d]) /\ (hpc'[d] = "resolve" => ~In(up'[d], cur'[d]))
  BY <1>1 DEF AwaitInv, RepliedOnce
<1>10. \A d, e \in Conns, j \in Calls : Replying(d, j)' /\ Replying(e, j)' => d = e
  BY <1>3 DEF AwaitInv, RepliedOnce
<1> QED  BY <1>6, <1>8, <1>9, <1>10 DEF AwaitInv, RepliedOnce

\* The entry is made before the command is sent, and leaves the map only
\* with a caller that has given up.
LEMMA AwaitDispatch ==
    ASSUME TypeInv, AwaitInv, NEW k \in Calls,
           Dispatch(k) \/ \E a \in Agents : dispatchGet(k, a)
    PROVE  AwaitInv'
<1>1. UNCHANGED <<up, cur, hpc>>
  BY DEF Dispatch, registerPending, send, receive, timeout, cancelTake, cancelClose, dispatchGet,
         wireVars
<1>2. \A j \in Calls : (Awaited(j) => Awaited(j)') /\ (dpc'[j] = "send" => j \in pending')
  BY DEF Dispatch, registerPending, send, receive, timeout, cancelTake, cancelClose, dispatchGet,
         serverVars, TypeInv, TypeOK, Awaited, AwaitInv, EntryBeforeSend
<1>3. CASE UNCHANGED down
  BY <1>1, <1>2, <1>3, AwaitFrame
<1>4. CASE dpc[k] = "send" /\ down' = [down EXCEPT ![ses[k]] = Append(@, k)]
  <2>1. ses[k] \in Conns /\ down \in [Conns -> Seq(Calls \cup {RegisterOK})]
    BY <1>4 DEF TypeInv, TypeOK
  <2>2. \A m : In(Append(down[ses[k]], k), m) => In(down[ses[k]], m) \/ m = k
    BY <2>1, InAppend
  <2>3. Awaited(k)'
    BY <1>2, <1>4 DEF AwaitInv, EntryBeforeSend, Awaited
  <2>4. ASSUME NEW d \in Conns, NEW j \in Calls, In(down'[d], j)
        PROVE  In(down[d], j) \/ Awaited(j)'
    <3>1. CASE d = ses[k]
      <4>1. down'[d] = Append(down[ses[k]], k)
        BY <1>4, <2>1, <3>1
      <4>2. In(down[ses[k]], j) \/ j = k
        BY <2>2, <2>4, <4>1
      <4> QED  BY <2>3, <3>1, <4>2
    <3>2. CASE d # ses[k]
      <4>1. down'[d] = down[d]
        BY <1>4, <2>1, <3>2
      <4> QED  BY <2>4, <4>1
    <3> QED  BY <3>1, <3>2
  <2> QED  BY <1>1, <1>2, <2>4, AwaitFrame
<1> QED
  BY <1>3, <1>4 DEF Dispatch, registerPending, send, receive, timeout, cancelTake, cancelClose,
                    dispatchGet, wireVars

\* Every message that belongs to a command has a caller with an entry, or
\* one that has given up.
LEMMA AwaitInvariance == Spec => [](IInv /\ AwaitInv)
<1>1. Init => AwaitInv
  <2> SUFFICES ASSUME Init PROVE AwaitInv
    OBVIOUS
  <2>1. \A c \in Conns : Len(down[c]) = 0 /\ Len(up[c]) = 0
    BY DEF Init
  <2> QED
    BY <2>1 DEF Init, AwaitInv, EntryBeforeSend, MessagesAwaited, RepliedOnce, Replying, In, Once
<1>2. IInv /\ AwaitInv /\ [Next]_vars => AwaitInv'
  <2> SUFFICES ASSUME TypeInv, RunInv, AwaitInv, [Next]_vars PROVE AwaitInv'
    BY DEF IInv
  <2>1. ASSUME NEW c \in Conns, Agent(c) \/ NetworkDrop(c) \/ RefuseAgent(c) \/ Handler(c)
        PROVE  AwaitInv'
    BY <2>1, AwaitConn, AwaitRun, AwaitDecode, AwaitResolve DEF Agent, Handler
  <2>2. ASSUME NEW k \in Calls, Dispatch(k) \/ \E a \in Agents : dispatchGet(k, a)
        PROVE  AwaitInv'
    BY <2>2, AwaitDispatch
  <2>3. CASE UNCHANGED vars
    BY <2>3, AwaitFrame DEF vars, Awaited, AwaitInv, EntryBeforeSend
  <2> QED  BY <2>1, <2>2, <2>3 DEF Next
<1> QED  BY <1>1, <1>2, Invariance, PTL DEF Spec

(***************************************************************************)
(* A reply that reaches the server is dropped only when the dispatch of    *)
(* its command has timed out or failed: the entry is made before the       *)
(* command is sent, each command is answered once, and nobody else takes   *)
(* the entry out.                                                          *)
(***************************************************************************)
THEOREM WaitingCallersAreAnswered == Spec => OnlyLateRepliesDropped
<1>1. IInv /\ AwaitInv /\ [Next]_vars =>
        [\A c \in Conns : hpc[c] = "resolve" /\ hpc'[c] = "loop"
                            => dpc[cur[c]] \in {"cancel", "close", "done"}]_vars
  <2> SUFFICES ASSUME TypeInv, AwaitInv, Next, NEW c \in Conns, hpc[c] = "resolve", hpc'[c] = "loop"
               PROVE  dpc[cur[c]] \in {"cancel", "close", "done"}
    BY DEF IInv
  <2>1. resolveTake(c)
    <3>1. hpc \in [Conns -> HandlerStates]
      BY DEF TypeInv, TypeOK
    <3>2. ASSUME NEW d \in Conns, Agent(d) \/ NetworkDrop(d) \/ RefuseAgent(d) PROVE FALSE
      BY <3>1, <3>2 DEF Agent, AgentConnect, AgentHandshake, AgentRun, AgentLeave, NetworkDrop,
                        RefuseAgent
    <3>3. ASSUME NEW k \in Calls, Dispatch(k) \/ \E a \in Agents : dispatchGet(k, a) PROVE FALSE
      BY <3>3 DEF Dispatch, dispatchGet, registerPending, send, receive, timeout, cancelTake,
                  cancelClose
    <3>4. ASSUME NEW d \in Conns, Handler(d), d # c PROVE FALSE
      BY <3>1, <3>4 DEF Handler, register, SendRegisterOK, Decode, DecodeError, resolveTake,
                        resolveSend, resolveClose, unregister, Hangup
    <3>5. Handler(c)
      BY <3>2, <3>3, <3>4 DEF Next
    <3> QED
      BY <3>5 DEF Handler, register, SendRegisterOK, Decode, DecodeError, resolveSend,
                  resolveClose, unregister, Hangup
  <2>2. cur[c] \in Calls /\ Replying(c, cur[c])
    BY DEF TypeInv, Resolving, Replying
  <2>3. cur[c] \notin pending
    BY <2>1 DEF resolveTake, TypeInv, TypeOK
  <2> QED  BY <2>2, <2>3 DEF AwaitInv, MessagesAwaited, Awaited
<1> QED  BY <1>1, AwaitInvariance, PTL DEF Spec, OnlyLateRepliesDropped

-----------------------------------------------------------------------------
(* The refinement of RemoteCall.                                           *)

\* A step that touches neither the dispatch goroutines nor runs is invisible.
LEMMA Invisible ==
    ASSUME UNCHANGED <<dpc, outcome, runs>>
    PROVE  UNCHANGED RC!vars
  BY DEF RC!vars, CallOf

\* A step of one dispatch goroutine changes the view of its own call only.
LEMMA OneCall ==
    ASSUME TypeOK, TypeOK', NEW k \in Calls, UNCHANGED runs,
           \A j \in Calls : j # k => dpc'[j] = dpc[j] /\ outcome'[j] = outcome[j]
    PROVE  /\ [j \in Calls |-> CallOf(j)]' = [[j \in Calls |-> CallOf(j)] EXCEPT ![k] = CallOf(k)']
           /\ CallOf(k)' = CallOf(k) => UNCHANGED RC!vars
<1>1. \A j \in Calls : j # k => CallOf(j)' = CallOf(j)
  BY DEF CallOf
<1> QED  BY <1>1 DEF RC!vars

\* Every step of the session manager is a step of RemoteCall or invisible to
\* the callers of dispatch.
LEMMA RefinementStep ==
    ASSUME IInv, IInv', [Next]_vars
    PROVE  [RC!Next]_(RC!vars)
<1> USE DEF IInv, TypeInv
<1>1. CASE UNCHANGED <<dpc, outcome, runs>>
  BY <1>1, Invisible
<1>2. ASSUME NEW c \in Conns, AgentRun(c)
      PROVE  [RC!Next]_(RC!vars)
  <2> DEFINE k == Head(down[c])
  <2>1. /\ k \in Calls /\ down[c] # <<>> /\ down[c] \in Seq(Calls \cup {RegisterOK})
        /\ runs' = [runs EXCEPT ![k] = @ + 1] /\ UNCHANGED <<dpc, outcome>>
    BY <1>2 DEF AgentRun, TypeOK, callVars
  <2>2. In(down[c], k)
    <3> HIDE DEF IInv
    <3> QED  BY <2>1, InTail
  <2> HIDE DEF k
  <2>3. /\ runs[k] = 0 /\ outcome[k] \notin {"offline", "reply"}
        /\ dpc[k] \in {"wait", "cancel", "close", "done"}
    <3>1. runs[k] = 0
      BY <2>1, <2>2 DEF RunInv, SentOnce
    <3>2. outcome[k] # "reply"
      BY <2>1, <3>1 DEF RunInv, RepliesAreRuns
    <3>3. outcome[k] # "offline" /\ dpc[k] \notin {"idle", "pend", "send"}
      BY <2>1, <2>2 DEF RunInv, NotSentYet
    <3> QED  BY <2>1, <3>1, <3>2, <3>3 DEF TypeOK, DispatchStates
  <2>4. CallOf(k) \in {"open", "error"}
    BY <2>3 DEF CallOf
  <2>5. RC!Run(k)
    BY <2>1, <2>3, <2>4 DEF RC!Run, CallOf, TypeOK
  <2> QED  BY <2>1, <2>5 DEF RC!Next
<1>3. ASSUME NEW k \in Calls, Dispatch(k)
      PROVE  [RC!Next]_(RC!vars)
  <2>1. UNCHANGED runs /\ \A j \in Calls : j # k => dpc'[j] = dpc[j] /\ outcome'[j] = outcome[j]
    BY <1>3 DEF Dispatch, registerPending, send, receive, timeout, cancelTake, cancelClose,
       TypeOK, DispatchStates, Outcomes
  <2>2. [j \in Calls |-> CallOf(j)]' = [[j \in Calls |-> CallOf(j)] EXCEPT ![k] = CallOf(k)']
    BY <2>1, OneCall
  <2>3. CASE CallOf(k)' = CallOf(k)
    BY <2>1, <2>3, OneCall
  <2>4. CASE receive(k)
    <3>1. CallOf(k) = "open"
      BY <2>4 DEF receive, CallOf
    <3>2. CallOf(k)' = "reply" /\ runs[k] = 1
      BY <2>4 DEF receive, CallOf, TypeOK, RunInv, RepliesAreRuns, ChannelInv, ClosedAfterReply
    <3>3. RC!Reply(k)
      BY <2>1, <2>2, <3>1, <3>2 DEF RC!Reply
    <3> QED  BY <3>3 DEF RC!Next
  <2>5. CASE cancelTake(k) \/ cancelClose(k)
    <3>1. CallOf(k) = "open"
      BY <2>5 DEF cancelTake, cancelClose, CallOf
    <3>2. CallOf(k)' \in {"open", "error"}
      BY <2>5 DEF cancelTake, cancelClose, CallOf, TypeOK, RunInv, OutcomeIsLast
    <3>3. CASE CallOf(k)' = "error"
      <4>1. RC!Fail(k)
        BY <2>1, <2>2, <3>1, <3>3 DEF RC!Fail
      <4> QED  BY <4>1 DEF RC!Next
    <3> QED  BY <2>3, <3>1, <3>2, <3>3
  <2>6. CASE registerPending(k) \/ send(k) \/ timeout(k)
    <3>1. CallOf(k)' = CallOf(k)
      BY <2>6 DEF registerPending, send, timeout, CallOf, TypeOK
    <3> QED  BY <2>3, <3>1
  <2> QED  BY <1>3, <2>4, <2>5, <2>6 DEF Dispatch
<1>4. ASSUME NEW k \in Calls, NEW a \in Agents, dispatchGet(k, a)
      PROVE  [RC!Next]_(RC!vars)
  <2>1. UNCHANGED runs /\ \A j \in Calls : j # k => dpc'[j] = dpc[j] /\ outcome'[j] = outcome[j]
    BY <1>4 DEF dispatchGet, TypeOK
  <2>2. [j \in Calls |-> CallOf(j)]' = [[j \in Calls |-> CallOf(j)] EXCEPT ![k] = CallOf(k)']
    BY <2>1, OneCall
  <2>3. CallOf(k) = "idle"
    BY <1>4 DEF dispatchGet, CallOf
  <2>4. CallOf(k)' \in {"open", "offline"}
    BY <1>4 DEF dispatchGet, CallOf, TypeOK
  <2>5. RC!Open(k) \/ RC!Refuse(k)
    BY <2>1, <2>2, <2>3, <2>4 DEF RC!Open, RC!Refuse
  <2> QED  BY <2>5 DEF RC!Next
<1> QED
  BY <1>1, <1>2, <1>3, <1>4 DEF Next, Agent, Handler, vars, callVars,
     AgentConnect, AgentHandshake, AgentLeave, NetworkDrop, RefuseAgent, register,
     SendRegisterOK, Decode, DecodeError, resolveTake, resolveSend, resolveClose,
     unregister, Hangup

(***************************************************************************)
(* dispatch implements RemoteCall: each command runs at most once, a reply *)
(* is the reply to a run of this very command, and a call refused as       *)
(* offline never runs.                                                     *)
(***************************************************************************)
THEOREM Refinement == Spec => ImplementsRemoteCall
<1>1. Init => RC!Init
  BY DEF Init, RC!Init, CallOf
<1> QED
  BY <1>1, RefinementStep, Invariance, PTL DEF Spec, RC!Spec, ImplementsRemoteCall
=============================================================================
