------------------------ MODULE AgentPresence_proofs ------------------------
(***************************************************************************)
(* An entry shown as connected is recent, for any number of connections    *)
(* and control requests and any limit.  The invariant follows the sweep    *)
(* (SweepInv): between two sweeps a connected entry is within the limit.   *)
(* It survives the late write of a control request because the entry was   *)
(* refreshed when the reply came and no tick has passed since (FreshInv).  *)
(***************************************************************************)
EXTENDS AgentPresence, TLAPS

\* The reply to a control request carries a status.
RepliesHaveStatus(s) ==
    \A i \in 1..Len(s) : s[i].kind = "result" /\ s[i].by \in Controls => s[i].status \in Statuses

ReplyInv == \A c \in Conns : RepliesHaveStatus(inbox[c])

FreshInv == \A k \in Controls : ctl[k].pc = "answered" => entry.age = 0

SweepInv ==
    entry.connected => /\ entry.age <= OfflineAfter + 1
                       /\ sweep = "idle" => entry.age <= OfflineAfter

IInv == TypeOK /\ ReplyInv /\ FreshInv /\ SweepInv

Entries == [connected : BOOLEAN, status : Statuses, age : 0..MaxAge]

\* The first state.
LEMMA InitInv == Init => IInv
<1> SUFFICES ASSUME Init PROVE IInv
  OBVIOUS
<1>1. entry = [connected |-> FALSE, status |-> "offline", age |-> MaxAge] /\ MaxAge \in Nat
  BY OfflineAfterAssumption DEF Init, MaxAge
<1>2. ctl \in [Controls -> Requests] /\ inbox \in [Conns -> Seq(Messages)]
  BY DEF Init, Requests
<1>3. TypeOK
  <2>1. entry \in [connected : BOOLEAN, status : Statuses, age : 0..MaxAge]
    BY <1>1 DEF Statuses
  <2> QED
    BY <1>2, <2>1 DEF Init, TypeOK
<1>4. ReplyInv
  BY DEF Init, ReplyInv, RepliesHaveStatus
<1>5. FreshInv /\ SweepInv
  BY <1>1 DEF Init, FreshInv, SweepInv
<1> QED
  BY <1>3, <1>4, <1>5 DEF IInv

\* Steps that touch neither the entry nor the sweep, the inboxes or the
\* control requests.
LEMMA QuietInv ==
  ASSUME IInv, UNCHANGED <<entry, inbox, sweep, ctl>>, TypeOK'
  PROVE  IInv'
BY DEF IInv, ReplyInv, FreshInv, SweepInv

\* Dialling, losing and leaving connections, exits and restarts, and the
\* handlers' steps outside the registry.
LEMMA QuietSteps ==
  ASSUME IInv,
         \/ \E c \in Conns : Dial(c) \/ LinkDrop(c) \/ RegistryRefuse(c) \/ Enrol(c) \/ Unregister(c)
         \/ SeeLoss \/ Exit \/ Restart
  PROVE  IInv'
<1>1. UNCHANGED <<entry, inbox, sweep, ctl>>
  BY DEF Dial, LinkDrop, RegistryRefuse, Enrol, Unregister, SeeLoss, Exit, Restart, serverVars, agentVars
<1>2. TypeOK'
  <2>1. ASSUME NEW c \in Conns, Dial(c) \/ LinkDrop(c)
        PROVE  TypeOK'
    BY <1>1, <2>1 DEF Dial, LinkDrop, agentVars, IInv, TypeOK
  <2>2. ASSUME NEW c \in Conns, RegistryRefuse(c) \/ Unregister(c)
        PROVE  TypeOK'
    BY <1>1, <2>2 DEF RegistryRefuse, Unregister, agentVars, IInv, TypeOK
  <2>3. CASE SeeLoss \/ Exit \/ Restart
    BY <1>1, <2>3 DEF SeeLoss, Exit, Restart, serverVars, IInv, TypeOK
  <2>4. ASSUME NEW c \in Conns, Enrol(c)
        PROVE  TypeOK'
    <3>1. session' \in Conns /\ link' \in [Conns -> {"unused", "open", "dropped", "closed"}]
      BY <2>4 DEF Enrol, IInv, TypeOK
    <3>2. beaten' \in BOOLEAN
      BY <2>4 DEF Enrol
    <3> QED
      BY <1>1, <2>4, <3>1, <3>2 DEF Enrol, IInv, TypeOK
  <2> QED
    BY <2>1, <2>2, <2>3, <2>4
<1> QED
  BY <1>1, <1>2, QuietInv

\* A message of the agent is added to the end of an inbox.
LEMMA WriteInv ==
  ASSUME IInv, NEW c \in Conns, NEW m \in Messages, Write(c, m),
         m.kind = "result" /\ m.by \in Controls => m.status \in Statuses
  PROVE  inbox' \in [Conns -> Seq(Messages)] /\ ReplyInv'
<1>1. inbox \in [Conns -> Seq(Messages)] /\ ReplyInv
  BY DEF IInv, TypeOK
<1>2. CASE inbox' = inbox
  BY <1>1, <1>2 DEF ReplyInv
<1>3. CASE inbox' = [inbox EXCEPT ![c] = Append(inbox[c], m)]
  <2> DEFINE s == inbox[c]
             t == Append(inbox[c], m)
  <2>1. s \in Seq(Messages) /\ RepliesHaveStatus(s)
    BY <1>1 DEF ReplyInv
  <2>2. /\ t \in Seq(Messages) /\ Len(t) = Len(s) + 1 /\ Len(s) \in Nat /\ t[Len(s) + 1] = m
        /\ \A i \in 1..Len(s) : t[i] = s[i]
    BY <2>1
  <2> HIDE DEF s, t
  <2>3. RepliesHaveStatus(t)
    BY <2>1, <2>2 DEF RepliesHaveStatus
  <2>4. inbox' = [inbox EXCEPT ![c] = t]
    BY <1>3 DEF t
  <2>5. \A d \in Conns : inbox'[d] = IF d = c THEN t ELSE inbox[d]
    BY <1>1, <2>4
  <2> QED
    BY <1>1, <2>2, <2>3, <2>4, <2>5 DEF ReplyInv
<1> QED
  BY <1>2, <1>3 DEF Write

\* The agent's heartbeat and the results of its commands.
LEMMA AgentWrites ==
  ASSUME IInv, heartbeatLoop \/ ExecResult
  PROVE  IInv'
<1>1. aconn \in Conns
  BY DEF heartbeatLoop, ExecResult, Connected, IInv, TypeOK
<1>2. CASE heartbeatLoop
  <2> DEFINE m == [kind |-> "heartbeat", status |-> currentStatus]
  <2>1. m \in Messages /\ m.kind # "result" /\ Write(aconn, m)
    BY <1>2 DEF heartbeatLoop, Messages, currentStatus
  <2> HIDE DEF m
  <2>2. inbox' \in [Conns -> Seq(Messages)] /\ ReplyInv'
    BY <1>1, <2>1, WriteInv
  <2>3. UNCHANGED <<entry, session, link, hpc, sweep, ctl, proc, frozen, aconn>> /\ beaten' = TRUE
    BY <1>2 DEF heartbeatLoop
  <2> QED
    BY <2>2, <2>3 DEF IInv, TypeOK, FreshInv, SweepInv
<1>3. CASE ExecResult
  <2> DEFINE m == [kind |-> "result", status |-> IF frozen THEN "frozen" ELSE "", by |-> "exec"]
  <2>1. m \in Messages /\ m.by \notin Controls /\ Write(aconn, m)
    BY <1>3, ControlsAssumption DEF ExecResult, Messages, Statuses
  <2> HIDE DEF m
  <2>2. inbox' \in [Conns -> Seq(Messages)] /\ ReplyInv'
    BY <1>1, <2>1, WriteInv
  <2>3. UNCHANGED <<entry, session, link, hpc, sweep, ctl, proc, frozen, aconn, beaten>>
    BY <1>3 DEF ExecResult, agentVars
  <2> QED
    BY <2>2, <2>3 DEF IInv, TypeOK, FreshInv, SweepInv
<1> QED
  BY <1>2, <1>3

\* A control request changes to another stage that is not "answered".
LEMMA ControlMoves ==
  ASSUME IInv, NEW k \in Controls, NEW new \in Requests, new.pc # "answered",
         ctl' = [ctl EXCEPT ![k] = new], UNCHANGED entry
  PROVE  ctl' \in [Controls -> Requests] /\ FreshInv'
<1>1. ctl' \in [Controls -> Requests] /\ \A j \in Controls : ctl'[j] = IF j = k THEN new ELSE ctl[j]
  BY DEF IInv, TypeOK
<1> QED
  BY <1>1 DEF IInv, FreshInv

\* The agent carries a control request out.
LEMMA ControlInv ==
  ASSUME IInv, NEW k \in Controls, handleControlMessage(k)
  PROVE  IInv'
<1> DEFINE op == ctl[k].op
           status == CASE op = "freeze" -> "frozen"
                       [] op = "unfreeze" -> "online"
                       [] op = "stop" -> "stopping"
                       [] op = "restart" -> "restarting"
           m == [kind |-> "result", status |-> status, by |-> k]
           new == IF ctl[k].pc = "asked" THEN [ctl[k] EXCEPT !.pc = "running"] ELSE [pc |-> "done"]
<1>1. ctl[k] \in [pc : {"asked", "late", "running"}, on : Conns, op : Ops] /\ ctl[k].on = aconn
  BY DEF handleControlMessage, IInv, TypeOK, Requests
<1>2. new \in Requests /\ new.pc # "answered"
  BY <1>1 DEF Requests
<1>3. status \in {"frozen", "online", "stopping", "restarting"}
  BY <1>1 DEF Ops
<1>4. /\ \/ Write(aconn, m) /\ proc' = (IF status \in Leaving THEN status ELSE proc) /\ UNCHANGED aconn
         \/ aconn' = NoConn /\ UNCHANGED <<inbox, proc>>
      /\ frozen' = (IF op \in {"freeze", "unfreeze"} THEN op = "freeze" ELSE frozen)
      /\ ctl' = [ctl EXCEPT ![k] = new]
      /\ UNCHANGED <<entry, session, link, hpc, sweep, beaten>>
  BY DEF handleControlMessage
<1>5. aconn \in Conns
  BY <1>1
<1>6. m \in Messages /\ m.status \in Statuses
  BY <1>3 DEF Messages, Statuses
<1> HIDE DEF m, new
<1>7. inbox' \in [Conns -> Seq(Messages)] /\ ReplyInv'
  <2>1. CASE Write(aconn, m)
    BY <1>5, <1>6, <2>1, WriteInv
  <2>2. CASE UNCHANGED inbox
    BY <2>2 DEF IInv, TypeOK, ReplyInv
  <2> QED
    BY <1>4, <2>1, <2>2
<1>8. ctl' \in [Controls -> Requests] /\ FreshInv'
  BY <1>2, <1>4, ControlMoves
<1>9. frozen' \in BOOLEAN
  BY <1>4 DEF IInv, TypeOK
<1>10. proc' \in {"up", "stopping", "restarting", "down"} /\ aconn' \in Conns \cup {NoConn}
  BY <1>4, <1>3 DEF IInv, TypeOK, Leaving
<1>11. TypeOK'
  BY <1>4, <1>7, <1>8, <1>9, <1>10 DEF IInv, TypeOK
<1>12. SweepInv'
  BY <1>4 DEF IInv, SweepInv
<1> QED
  BY <1>7, <1>8, <1>11, <1>12 DEF IInv

\* The requests' own steps at the server.
LEMMA RequestInv ==
  ASSUME IInv, NEW k \in Controls, ControlTimeout(k) \/ \E op \in Ops : ControlDispatch(k, op)
  PROVE  IInv'
<1>1. PICK new \in Requests : new.pc # "answered" /\ ctl' = [ctl EXCEPT ![k] = new]
  <2>1. CASE ControlTimeout(k)
    <3> DEFINE new == IF ctl[k].pc = "asked" THEN [ctl[k] EXCEPT !.pc = "late"] ELSE [pc |-> "done"]
    <3>1. ctl[k] \in [pc : {"asked", "late", "running"}, on : Conns, op : Ops]
      BY <2>1 DEF ControlTimeout, IInv, TypeOK, Requests
    <3>2. new \in Requests /\ new.pc # "answered"
      BY <3>1 DEF Requests
    <3>3. ctl' = [ctl EXCEPT ![k] = new]
      BY <2>1 DEF ControlTimeout
    <3> QED
      BY <3>2, <3>3
  <2>2. ASSUME NEW op \in Ops, ControlDispatch(k, op)
        PROVE  \E new \in Requests : new.pc # "answered" /\ ctl' = [ctl EXCEPT ![k] = new]
    <3>1. [pc |-> "asked", on |-> session, op |-> op] \in Requests
      BY <2>2 DEF ControlDispatch, IInv, TypeOK, Requests
    <3> QED
      BY <2>2, <3>1 DEF ControlDispatch
  <2> QED
    BY <2>1, <2>2
<1>2. UNCHANGED <<entry, session, link, hpc, inbox, sweep, proc, frozen, aconn, beaten>>
  BY DEF ControlTimeout, ControlDispatch, serverVars, agentVars
<1>3. ctl' \in [Controls -> Requests] /\ FreshInv'
  BY <1>1, <1>2, ControlMoves
<1> QED
  BY <1>2, <1>3 DEF IInv, TypeOK, ReplyInv, SweepInv

\* The late write of a control request finds a fresh entry.
LEMMA StoreInv ==
  ASSUME IInv, NEW k \in Controls, ControlStore(k)
  PROVE  IInv'
<1>0. ctl[k].pc = "answered" /\ ctl[k] \in Requests
  BY DEF ControlStore, IInv, TypeOK
<1>1. ctl[k] \in [pc : {"answered"}, status : Statuses] /\ entry.age = 0
  <2>1. ctl[k] \in [pc : {"answered"}, status : Statuses]
    BY <1>0 DEF Requests
  <2> QED
    BY <1>0, <2>1 DEF IInv, FreshInv
<1>2. /\ entry' = [entry EXCEPT !.status = ctl[k].status, !.connected = ctl[k].status \notin Leaving]
      /\ ctl' = [ctl EXCEPT ![k] = [pc |-> "done"]]
      /\ UNCHANGED <<session, link, hpc, inbox, sweep, proc, frozen, aconn, beaten>>
  BY DEF ControlStore, agentVars
<1>3. entry' \in Entries /\ entry'.age = 0
  BY <1>1, <1>2 DEF IInv, TypeOK, Entries
<1>4. ctl' \in [Controls -> Requests]
  BY <1>2 DEF IInv, TypeOK, Requests
<1>5. TypeOK'
  BY <1>2, <1>3, <1>4 DEF IInv, TypeOK, Entries
<1>6. FreshInv' /\ SweepInv' /\ ReplyInv'
  BY <1>2, <1>3, OfflineAfterAssumption DEF IInv, FreshInv, SweepInv, ReplyInv
<1> QED
  BY <1>5, <1>6 DEF IInv

\* Signs of life: a registration, or a message of the agent.
LEMMA SeenInv ==
  ASSUME IInv, NEW c \in Conns, RegistryRegister(c)
  PROVE  IInv'
<1>1. /\ entry' \in Entries /\ entry'.age = 0
      /\ hpc' = [hpc EXCEPT ![c] = "enrol"]
      /\ UNCHANGED <<session, link, inbox, sweep, ctl, proc, frozen, aconn, beaten>>
  BY OfflineAfterAssumption DEF RegistryRegister, Seen, Entries, MaxAge, Statuses, agentVars
<1>2. TypeOK'
  BY <1>1 DEF IInv, TypeOK, Entries
<1>3. FreshInv' /\ SweepInv' /\ ReplyInv'
  BY <1>1, OfflineAfterAssumption DEF IInv, FreshInv, SweepInv, ReplyInv
<1> QED
  BY <1>2, <1>3 DEF IInv

\* A message is a sign of life, whatever it says.
LEMMA MessageSeen ==
  ASSUME IInv, NEW c \in Conns, handleAgentMessage(c)
  PROVE  entry' \in Entries /\ entry'.age = 0
<1> DEFINE m == Head(inbox[c])
<1>1. m \in Messages /\ entry' = EntryAfter(m)
  <2>1. inbox[c] \in Seq(Messages) /\ inbox[c] # <<>>
    BY DEF handleAgentMessage, IInv, TypeOK
  <2>2. m \in Messages
    BY <2>1
  <2> QED  BY <2>2 DEF handleAgentMessage
<1> HIDE DEF m
<1>2. 0 \in 0..MaxAge
  BY OfflineAfterAssumption DEF MaxAge
<1>3. CASE m \in [kind : {"heartbeat"}, status : {"online", "frozen"}]
  <2>1. EntryAfter(m) = Seen(TRUE, m.status) /\ m.status \in Statuses
    BY <1>3 DEF EntryAfter, Statuses
  <2> QED
    BY <1>1, <1>2, <2>1 DEF Seen, Entries
<1>4. CASE m \in [kind : {"result"}, status : Statuses \cup {""}, by : Controls \cup {"exec"}]
  <2>1. CASE m.status # ""
    <3>1. EntryAfter(m) = Seen(m.status \notin Leaving, m.status) /\ m.status \in Statuses
      BY <1>4, <2>1 DEF EntryAfter
    <3> QED
      BY <1>1, <1>2, <3>1 DEF Seen, Entries
  <2>2. CASE m.status = ""
    <3>1. EntryAfter(m) = Seen(TRUE, "online")
      BY <1>4, <2>2 DEF EntryAfter, UpdateStatus
    <3> QED
      BY <1>1, <1>2, <3>1 DEF Seen, Entries, Statuses
  <2> QED
    BY <2>1, <2>2
<1> QED
  BY <1>1, <1>3, <1>4 DEF Messages

\* A message refreshes the entry, and its reply goes to the request that waits.
LEMMA MessageInv ==
  ASSUME IInv, NEW c \in Conns, handleAgentMessage(c)
  PROVE  IInv'
<1> DEFINE s == inbox[c]
           m == Head(inbox[c])
<1>1. s \in Seq(Messages) /\ s # <<>> /\ RepliesHaveStatus(s)
  BY DEF handleAgentMessage, IInv, TypeOK, ReplyInv
<1>2. m \in Messages /\ m = s[1] /\ Len(s) \in Nat /\ Len(s) >= 1
  BY <1>1
<1>3. m.kind = "result" /\ m.by \in Controls => m.status \in Statuses
  BY <1>1, <1>2 DEF RepliesHaveStatus
<1>4. /\ entry' = EntryAfter(m)
      /\ ctl' = [k \in Controls |-> IF m.kind = "result" /\ m.by = k /\ ctl[k].pc = "running"
                                    THEN [pc |-> "answered", status |-> m.status] ELSE ctl[k]]
      /\ inbox' = [inbox EXCEPT ![c] = Tail(s)]
      /\ UNCHANGED <<session, link, hpc, sweep, proc, frozen, aconn, beaten>>
  BY DEF handleAgentMessage, agentVars
<1>5. /\ Tail(s) \in Seq(Messages) /\ Len(Tail(s)) = Len(s) - 1
      /\ \A i \in 1..Len(Tail(s)) : Tail(s)[i] = s[i + 1]
  BY <1>1, <1>2
<1> HIDE DEF m, s
<1>6. entry' \in Entries /\ entry'.age = 0
  BY MessageSeen
<1>7. ctl' \in [Controls -> Requests]
  BY <1>3, <1>4 DEF IInv, TypeOK, Requests
<1>8. RepliesHaveStatus(Tail(s))
  BY <1>1, <1>2, <1>5 DEF RepliesHaveStatus
<1>9. inbox' \in [Conns -> Seq(Messages)] /\ ReplyInv'
  BY <1>4, <1>5, <1>8 DEF IInv, TypeOK, ReplyInv
<1>10. TypeOK'
  BY <1>4, <1>6, <1>7, <1>9 DEF IInv, TypeOK, Entries
<1>11. FreshInv' /\ SweepInv'
  BY <1>6, OfflineAfterAssumption DEF FreshInv, SweepInv
<1> QED
  BY <1>9, <1>10, <1>11 DEF IInv

\* The end of a connection, and an entry that has expired.
LEMMA OfflineInv ==
  ASSUME IInv, (\E c \in Conns : DecodeError(c) \/ MarkDown(c)) \/ SweepMark \/ SweepList
  PROVE  IInv'
<1>1. ASSUME NEW c \in Conns, DecodeError(c)
      PROVE  IInv'
  <2>1. /\ inbox' = [inbox EXCEPT ![c] = <<>>] /\ hpc' = [hpc EXCEPT ![c] = "unregister"]
        /\ UNCHANGED <<entry, session, link, sweep, ctl, proc, frozen, aconn, beaten>>
    BY <1>1 DEF DecodeError, agentVars
  <2>2. TypeOK' /\ FreshInv' /\ SweepInv'
    BY <2>1 DEF IInv, TypeOK, FreshInv, SweepInv
  <2>3. \A d \in Conns : inbox'[d] = IF d = c THEN <<>> ELSE inbox[d]
    BY <2>1 DEF IInv, TypeOK
  <2>4. ReplyInv'
    BY <2>3 DEF IInv, ReplyInv, RepliesHaveStatus
  <2> QED
    BY <2>2, <2>4 DEF IInv
<1>2. entry \in Entries
  BY DEF IInv, TypeOK, Entries
<1>3. ASSUME entry' = UpdateStatus(FALSE)
      PROVE  entry' \in Entries /\ ~entry'.connected /\ entry'.age = entry.age
  BY <1>2, <1>3 DEF UpdateStatus, Entries, Statuses
<1>4. ASSUME NEW c \in Conns, MarkDown(c)
      PROVE  IInv'
  <2>1. /\ hpc' = [hpc EXCEPT ![c] = "done"] /\ link' = [link EXCEPT ![c] = "closed"]
        /\ UNCHANGED <<session, inbox, sweep, ctl, proc, frozen, aconn, beaten>>
        /\ entry' \in Entries /\ ~entry'.connected /\ entry'.age = entry.age
    BY <1>3, <1>4 DEF MarkDown, agentVars
  <2>2. TypeOK'
    BY <2>1 DEF IInv, TypeOK, Entries
  <2> QED
    BY <2>1, <2>2 DEF IInv, FreshInv, SweepInv, ReplyInv
<1>5. CASE SweepMark
  <2>1. /\ sweep' = "idle"
        /\ UNCHANGED <<session, link, hpc, inbox, ctl, proc, frozen, aconn, beaten>>
        /\ entry' \in Entries /\ ~entry'.connected /\ entry'.age = entry.age
    BY <1>3, <1>5 DEF SweepMark, agentVars
  <2>2. TypeOK'
    BY <2>1 DEF IInv, TypeOK, Entries
  <2> QED
    BY <2>1, <2>2 DEF IInv, FreshInv, SweepInv, ReplyInv
<1>6. CASE SweepList
  <2>1. /\ sweep' = IF entry.connected /\ entry.age > OfflineAfter THEN "expired" ELSE "idle"
        /\ UNCHANGED <<entry, session, link, hpc, inbox, ctl, proc, frozen, aconn, beaten>>
    BY <1>6 DEF SweepList, serverVars, agentVars
  <2>2. entry.age \in Nat
    BY <1>2, OfflineAfterAssumption DEF Entries, MaxAge
  <2>3. SweepInv'
    BY <2>1, <2>2, OfflineAfterAssumption DEF IInv, SweepInv
  <2>4. TypeOK' /\ FreshInv' /\ ReplyInv'
    BY <2>1 DEF IInv, TypeOK, FreshInv, ReplyInv
  <2> QED
    BY <2>3, <2>4 DEF IInv
<1> QED
  BY <1>1, <1>4, <1>5, <1>6

\* A tick ages the entry by one; no reply is on its way then.
LEMMA TickInv ==
  ASSUME IInv, Tick
  PROVE  IInv'
<1>1. /\ entry' = [entry EXCEPT !.age = IF @ < MaxAge THEN @ + 1 ELSE @]
      /\ beaten' = FALSE /\ sweep' = "due" /\ sweep = "idle"
      /\ UNCHANGED <<session, link, hpc, inbox, ctl, proc, frozen, aconn>>
      /\ \A k \in Controls : ctl[k].pc \in {"idle", "late", "done"}
  BY DEF Tick, Prompt
<1>2. entry \in Entries /\ MaxAge \in Nat
  BY OfflineAfterAssumption DEF IInv, TypeOK, Entries, MaxAge
<1>3. entry' \in Entries /\ entry'.age <= entry.age + 1 /\ entry'.connected = entry.connected
  BY <1>1, <1>2 DEF Entries
<1>4. TypeOK'
  BY <1>1, <1>3 DEF IInv, TypeOK, Entries
<1>5. SweepInv'
  BY <1>1, <1>2, <1>3, OfflineAfterAssumption DEF IInv, SweepInv, Entries
<1>6. FreshInv' /\ ReplyInv'
  BY <1>1 DEF IInv, FreshInv, ReplyInv
<1> QED
  BY <1>4, <1>5, <1>6 DEF IInv

\* The inductive invariant holds in every reachable state.
LEMMA Inductive == Spec => []IInv
<1>1. ASSUME IInv, [Next]_vars
      PROVE  IInv'
  <2>1. ASSUME NEW c \in Conns, Dial(c) \/ LinkDrop(c) \/ Handler(c)
        PROVE  IInv'
    BY <1>1, <2>1, QuietSteps, SeenInv, MessageInv, OfflineInv DEF Handler
  <2>2. CASE SeeLoss \/ Exit \/ Restart
    BY <1>1, <2>2, QuietSteps
  <2>3. CASE heartbeatLoop \/ ExecResult \/ SweepList \/ SweepMark \/ Tick
    BY <1>1, <2>3, AgentWrites, OfflineInv, TickInv
  <2>4. ASSUME NEW k \in Controls,
               \/ handleControlMessage(k) \/ ControlTimeout(k) \/ ControlStore(k)
               \/ \E op \in Ops : ControlDispatch(k, op)
        PROVE  IInv'
    BY <1>1, <2>4, ControlInv, RequestInv, StoreInv
  <2>5. CASE UNCHANGED vars
    BY <1>1, <2>5 DEF vars, IInv, TypeOK, ReplyInv, FreshInv, SweepInv
  <2> QED
    BY <1>1, <2>1, <2>2, <2>3, <2>4, <2>5 DEF Next
<1> QED
  BY <1>1, InitInv, PTL DEF Spec

(***************************************************************************)
(* The registry's entry, the inboxes and the control requests keep their   *)
(* types: an empty status of a result never gets into the entry.           *)
(***************************************************************************)
THEOREM TypeCorrect == Spec => []TypeOK
<1>1. IInv => TypeOK
  BY DEF IInv
<1> QED
  BY <1>1, Inductive, PTL

(***************************************************************************)
(* Whatever connections, replies, sweeps and late control writes do to it, *)
(* an entry shown as connected has been seen within the limit of           *)
(* markOfflineLoop and one period of it.                                   *)
(***************************************************************************)
THEOREM ConnectedMeansSeen == Spec => []ConnectedIsRecent
<1>1. IInv => ConnectedIsRecent
  BY DEF IInv, SweepInv, ConnectedIsRecent
<1> QED
  BY <1>1, Inductive, PTL

-----------------------------------------------------------------------------
(* The sweep gives up only agents that are lost: an agent with a working   *)
(* connection was seen in this tick or in the last one.                    *)

Working == proc # "down" /\ Connected /\ link[aconn] = "open"

\* The handler of an open connection has not left its receive loop.
LinkInv == \A c \in Conns : link[c] = "open" => hpc[c] \in {"registry", "enrol", "loop"}

\* A process that is down has no connection.
DownInv == proc = "down" => aconn = NoConn

\* The registration was a sign of life, and no tick passes before the
\* acknowledgement.
EnrolInv == \A c \in Conns : hpc[c] = "enrol" => entry.age = 0

\* Once the heartbeat of this tick has been sent and read, the entry is new.
WorkInv == Working => entry.age <= 1 /\ (beaten /\ inbox[aconn] = <<>> => entry.age = 0)

LifeInv == LinkInv /\ DownInv /\ EnrolInv /\ WorkInv

\* The first state, where no connection exists.
LEMMA LifeInit == Init => LifeInv
  BY NoConnAssumption DEF Init, LifeInv, LinkInv, DownInv, EnrolInv, WorkInv, Working, Connected

\* Only the clock makes an entry older.
LEMMA AgeKept ==
  ASSUME IInv, Next, ~Tick
  PROVE  entry'.age = entry.age \/ entry'.age = 0
<1>1. entry \in Entries
  BY DEF IInv, TypeOK, Entries
<1>2. ASSUME entry' = UpdateStatus(FALSE)
      PROVE  entry'.age = entry.age
  BY <1>1, <1>2 DEF UpdateStatus, Entries
<1>3. ASSUME NEW c \in Conns,
             \/ Dial(c) \/ LinkDrop(c) \/ RegistryRefuse(c) \/ Enrol(c)
             \/ DecodeError(c) \/ Unregister(c)
      PROVE  UNCHANGED entry
  BY <1>3 DEF Dial, LinkDrop, RegistryRefuse, Enrol, DecodeError, Unregister
<1>4. ASSUME NEW c \in Conns, RegistryRegister(c)
      PROVE  entry'.age = 0
  BY <1>4 DEF RegistryRegister, Seen
<1>5. ASSUME NEW c \in Conns, handleAgentMessage(c)
      PROVE  entry'.age = 0
  BY <1>5, MessageSeen
<1>6. ASSUME NEW c \in Conns, MarkDown(c)
      PROVE  entry'.age = entry.age
  BY <1>2, <1>6 DEF MarkDown
<1>7. CASE SeeLoss \/ heartbeatLoop \/ ExecResult \/ Exit \/ Restart \/ SweepList
  BY <1>7 DEF SeeLoss, heartbeatLoop, ExecResult, Exit, Restart, SweepList, serverVars
<1>8. CASE SweepMark
  BY <1>2, <1>8 DEF SweepMark
<1>9. ASSUME NEW k \in Controls,
             handleControlMessage(k) \/ ControlTimeout(k) \/ \E op \in Ops : ControlDispatch(k, op)
      PROVE  UNCHANGED entry
  BY <1>9 DEF handleControlMessage, ControlTimeout, ControlDispatch, serverVars
<1>10. ASSUME NEW k \in Controls, ControlStore(k)
      PROVE  entry'.age = entry.age
  BY <1>1, <1>10 DEF ControlStore, Entries
<1> QED
  BY <1>3, <1>4, <1>5, <1>6, <1>7, <1>8, <1>9, <1>10 DEF Next, Handler

\* The stages of a connection and its handler.
LEMMA LinkStep ==
  ASSUME IInv, LinkInv, DownInv, [Next]_vars
  PROVE  LinkInv' /\ DownInv'
<1> USE DEF IInv, TypeOK, LinkInv, DownInv
<1>1. ASSUME NEW c \in Conns, Dial(c) \/ LinkDrop(c)
      PROVE  LinkInv' /\ DownInv'
  BY <1>1 DEF Dial, LinkDrop, agentVars
<1>2. ASSUME NEW c \in Conns, RegistryRegister(c) \/ RegistryRefuse(c) \/ Enrol(c)
      PROVE  LinkInv' /\ DownInv'
  BY <1>2 DEF RegistryRegister, RegistryRefuse, Enrol, agentVars
<1>3. ASSUME NEW c \in Conns, handleAgentMessage(c) \/ DecodeError(c) \/ Unregister(c) \/ MarkDown(c)
      PROVE  LinkInv' /\ DownInv'
  BY <1>3 DEF handleAgentMessage, DecodeError, Unregister, MarkDown, agentVars
<1>4. CASE SeeLoss \/ Exit \/ Restart
  BY <1>4 DEF SeeLoss, Exit, Restart, serverVars
<1>5. CASE heartbeatLoop \/ ExecResult \/ SweepList \/ SweepMark \/ Tick
  BY <1>5 DEF heartbeatLoop, ExecResult, SweepList, SweepMark, Tick, serverVars, agentVars
<1>6. ASSUME NEW k \in Controls, handleControlMessage(k)
      PROVE  LinkInv' /\ DownInv'
  <2>1. /\ UNCHANGED <<link, hpc>> /\ proc # "down"
        /\ proc' = proc \/ proc' \in Leaving
    BY <1>6 DEF handleControlMessage
  <2> QED  BY <2>1 DEF Leaving
<1>7. ASSUME NEW k \in Controls,
             ControlTimeout(k) \/ ControlStore(k) \/ \E op \in Ops : ControlDispatch(k, op)
      PROVE  LinkInv' /\ DownInv'
  BY <1>7 DEF ControlTimeout, ControlStore, ControlDispatch, serverVars, agentVars
<1>8. CASE UNCHANGED vars
  BY <1>8 DEF vars
<1> QED
  BY <1>1, <1>2, <1>3, <1>4, <1>5, <1>6, <1>7, <1>8 DEF Next, Handler

\* A tick finds nobody between registration and acknowledgement, and the
\* heartbeat of a working agent read.
LEMMA LifeTick ==
  ASSUME IInv, LifeInv, Tick
  PROVE  EnrolInv' /\ WorkInv'
<1>1. /\ entry' = [entry EXCEPT !.age = IF @ < MaxAge THEN @ + 1 ELSE @]
      /\ beaten' = FALSE /\ Prompt
      /\ UNCHANGED <<session, link, hpc, inbox, ctl, proc, frozen, aconn>>
  BY DEF Tick
<1>2. entry.age \in Nat /\ entry \in Entries
  BY OfflineAfterAssumption DEF IInv, TypeOK, Entries, MaxAge
<1>3. EnrolInv'
  BY <1>1 DEF Prompt, EnrolInv
<1>4. ASSUME Working'
      PROVE  entry'.age <= 1
  <2>1. Working /\ aconn \in Conns
    BY <1>1, <1>4 DEF Working, Connected, Acked, IInv, TypeOK
  <2>2. beaten /\ hpc[aconn] = "loop"
    BY <1>1, <2>1 DEF Prompt, Working, LifeInv, LinkInv
  <2>3. entry.age = 0
    BY <1>1, <2>1, <2>2 DEF Prompt, LifeInv, WorkInv
  <2> QED  BY <1>1, <1>2, <2>3 DEF Entries
<1> QED  BY <1>1, <1>3, <1>4 DEF WorkInv

\* Where a connection works after a step that was no sign of life, it has
\* worked before, and the heartbeat was sent and read before.
LEMMA WorkingKept ==
  ASSUME IInv, LifeInv, Next, ~Tick, Working', entry'.age # 0
  PROVE  /\ Working /\ aconn' = aconn
         /\ beaten' /\ inbox'[aconn] = <<>> => beaten /\ inbox[aconn] = <<>>
<1> DEFINE Goal == /\ Working /\ aconn' = aconn
                   /\ beaten' /\ inbox'[aconn] = <<>> => beaten /\ inbox[aconn] = <<>>
<1>0. aconn' # NoConn /\ Acked(aconn)' /\ link'[aconn'] = "open" /\ proc' # "down"
  BY DEF Working, Connected
<1> USE DEF IInv, TypeOK, Working, Connected, Acked
<1>1. ASSUME NEW c \in Conns, Dial(c)
      PROVE  Goal
  BY <1>0, <1>1 DEF Dial
<1>2. ASSUME NEW c \in Conns, LinkDrop(c)
      PROVE  Goal
  BY <1>0, <1>2 DEF LinkDrop, agentVars
<1>3. ASSUME NEW c \in Conns, RegistryRegister(c)
      PROVE  Goal
  BY <1>3 DEF RegistryRegister, Seen
<1>4. ASSUME NEW c \in Conns, RegistryRefuse(c)
      PROVE  Goal
  BY <1>0, <1>4 DEF RegistryRefuse, agentVars
<1>15. ASSUME NEW c \in Conns, Enrol(c)
      PROVE  Goal
  <2>1. entry'.age = 0 /\ hpc[c] = "enrol"
    BY <1>15 DEF Enrol, LifeInv, EnrolInv
  <2> QED  BY <2>1
<1>5. ASSUME NEW c \in Conns, handleAgentMessage(c)
      PROVE  Goal
  BY <1>5, MessageSeen
<1>6. ASSUME NEW c \in Conns, DecodeError(c)
      PROVE  Goal
  BY <1>0, <1>6 DEF DecodeError, agentVars
<1>7. ASSUME NEW c \in Conns, Unregister(c) \/ MarkDown(c)
      PROVE  Goal
  <2>1. /\ UNCHANGED <<inbox, proc, aconn, beaten>>
        /\ hpc[c] \in {"unregister", "markdown"} /\ \A d \in Conns \ {c} : hpc'[d] = hpc[d]
        /\ \A d \in Conns : link'[d] = "open" => link[d] = "open"
    BY <1>7 DEF Unregister, MarkDown, agentVars
  <2> QED  BY <1>0, <2>1
<1>8. CASE SeeLoss \/ Exit
  BY <1>0, <1>8 DEF SeeLoss, Exit
<1>9. CASE Restart
  BY <1>0, <1>9 DEF Restart, LifeInv, DownInv
<1>10. ASSUME NEW m, Write(aconn, m), UNCHANGED <<link, hpc, aconn>>, proc # "down"
      PROVE  Goal
  <2>1. aconn \in Conns /\ link[aconn] = "open" /\ inbox[aconn] \in Seq(Messages)
    BY <1>0, <1>10
  <2>2. inbox'[aconn] = Append(inbox[aconn], m)
    BY <1>10, <2>1 DEF Write
  <2>3. Len(inbox'[aconn]) = Len(inbox[aconn]) + 1 /\ Len(inbox[aconn]) \in Nat
    BY <2>1, <2>2
  <2>4. inbox'[aconn] # <<>>
    BY <2>3
  <2> QED  BY <1>0, <1>10, <2>4
<1>11. CASE heartbeatLoop \/ ExecResult
  BY <1>10, <1>11 DEF heartbeatLoop, ExecResult, agentVars
<1>12. CASE SweepList \/ SweepMark
  <2>1. UNCHANGED <<link, hpc, inbox, proc, aconn, beaten>>
    BY <1>12 DEF SweepList, SweepMark, serverVars, agentVars
  <2> QED  BY <1>0, <2>1
<1>13. ASSUME NEW k \in Controls, handleControlMessage(k)
      PROVE  Goal
  <2>1. (\E m : Write(aconn, m)) /\ UNCHANGED <<link, hpc, aconn>> /\ proc # "down"
    BY <1>0, <1>13 DEF handleControlMessage
  <2> QED  BY <1>10, <2>1
<1>14. ASSUME NEW k \in Controls,
             ControlTimeout(k) \/ ControlStore(k) \/ \E op \in Ops : ControlDispatch(k, op)
      PROVE  Goal
  BY <1>0, <1>14 DEF ControlTimeout, ControlStore, ControlDispatch, serverVars, agentVars
<1> QED
  BY <1>1, <1>2, <1>3, <1>4, <1>5, <1>6, <1>7, <1>8, <1>9, <1>11, <1>12, <1>13, <1>14, <1>15
  DEF Next, Handler

\* A connection comes to work only by the acknowledgement, which finds the
\* entry new; after that only a tick and the reading of a message matter.
LEMMA LifeStep ==
  ASSUME IInv, LifeInv, Next, ~Tick
  PROVE  EnrolInv' /\ WorkInv'
<1>1. entry'.age = entry.age \/ entry'.age = 0
  BY AgeKept
<1>2. ASSUME NEW c \in Conns, hpc'[c] = "enrol"
      PROVE  entry'.age = 0
  <2>1. ASSUME NEW d \in Conns, Dial(d) \/ LinkDrop(d) \/ Handler(d)
        PROVE  hpc[c] = "enrol" \/ RegistryRegister(c)
    <3>1. CASE RegistryRegister(d)
      BY <1>2, <3>1 DEF RegistryRegister, IInv, TypeOK
    <3>2. ASSUME NEW stage, stage # "enrol", hpc' = [hpc EXCEPT ![d] = stage] \/ hpc' = hpc
          PROVE  hpc[c] = "enrol"
      BY <1>2, <3>2 DEF IInv, TypeOK
    <3>3. CASE Dial(d) \/ RegistryRefuse(d) \/ Enrol(d)
      BY <3>2, <3>3 DEF Dial, RegistryRefuse, Enrol
    <3>4. CASE DecodeError(d) \/ Unregister(d) \/ MarkDown(d)
      BY <3>2, <3>4 DEF DecodeError, Unregister, MarkDown
    <3>5. CASE LinkDrop(d) \/ handleAgentMessage(d)
      BY <1>2, <3>5 DEF LinkDrop, handleAgentMessage
    <3> QED
      BY <2>1, <3>1, <3>3, <3>4, <3>5 DEF Handler
  <2>2. ASSUME SeeLoss \/ heartbeatLoop \/ ExecResult \/ Exit \/ Restart \/ SweepList \/ SweepMark
        PROVE  hpc[c] = "enrol"
    BY <1>2, <2>2
    DEF SeeLoss, heartbeatLoop, ExecResult, Exit, Restart, SweepList, SweepMark, serverVars
  <2>3. ASSUME NEW k \in Controls,
               \/ handleControlMessage(k) \/ ControlTimeout(k) \/ ControlStore(k)
               \/ \E op \in Ops : ControlDispatch(k, op)
        PROVE  hpc[c] = "enrol"
    BY <1>2, <2>3 DEF handleControlMessage, ControlTimeout, ControlStore, ControlDispatch, serverVars
  <2>4. hpc[c] = "enrol" \/ RegistryRegister(c)
    BY <2>1, <2>2, <2>3 DEF Next
  <2> QED  BY <1>1, <2>4 DEF LifeInv, EnrolInv, RegistryRegister, Seen
<1>3. ASSUME Working', entry'.age # 0
      PROVE  Working /\ aconn' = aconn /\ (beaten' /\ inbox'[aconn] = <<>> => beaten /\ inbox[aconn] = <<>>)
  BY <1>1, <1>3, WorkingKept
<1>4. WorkInv'
  BY <1>1, <1>3 DEF LifeInv, WorkInv
<1> QED  BY <1>2, <1>4 DEF EnrolInv

\* The two invariants together.
LEMMA LifeInductive == Spec => [](IInv /\ LifeInv)
<1>1. LifeInv /\ IInv /\ [Next]_vars => LifeInv'
  <2> SUFFICES ASSUME LifeInv, IInv, [Next]_vars PROVE LifeInv'
    OBVIOUS
  <2>1. LinkInv' /\ DownInv'
    BY LinkStep DEF LifeInv
  <2>2. CASE UNCHANGED vars
    BY <2>2 DEF vars, LifeInv, LinkInv, DownInv, EnrolInv, WorkInv, Working, Connected, Acked
  <2> QED  BY <2>1, <2>2, LifeTick, LifeStep DEF LifeInv
<1> QED  BY <1>1, LifeInit, Inductive, PTL DEF Spec

(***************************************************************************)
(* For every limit of at least one heartbeat period, any number of         *)
(* connections and control requests: markOfflineLoop finds no entry        *)
(* expired of an agent that runs and has its registered connection open.   *)
(***************************************************************************)
THEOREM SweepFindsTheLost == Spec => ExpiredWasLost
<1>1. IInv /\ LifeInv /\ [Next]_vars
      => [sweep # "expired" /\ sweep' = "expired" =>
            proc = "down" \/ ~Connected \/ link[aconn] # "open"]_vars
  <2> SUFFICES ASSUME IInv, LifeInv, Next, sweep # "expired", sweep' = "expired", Working
               PROVE  FALSE
    BY DEF Working
  <2>1. SweepList
    <3>1. ASSUME NEW c \in Conns, Dial(c) \/ LinkDrop(c) \/ Handler(c)
          PROVE  FALSE
      BY <3>1 DEF Handler, Dial, LinkDrop, RegistryRegister, RegistryRefuse, Enrol, handleAgentMessage,
                  DecodeError, Unregister, MarkDown
    <3>2. CASE SeeLoss \/ heartbeatLoop \/ ExecResult \/ Exit \/ Restart \/ SweepMark \/ Tick
      BY <3>2 DEF SeeLoss, heartbeatLoop, ExecResult, Exit, Restart, SweepMark, Tick
    <3>3. ASSUME NEW k \in Controls,
                 \/ handleControlMessage(k) \/ ControlTimeout(k) \/ ControlStore(k)
                 \/ \E op \in Ops : ControlDispatch(k, op)
          PROVE  FALSE
      BY <3>3 DEF handleControlMessage, ControlTimeout, ControlStore, ControlDispatch
    <3> QED
      BY <3>1, <3>2, <3>3 DEF Next
  <2>2. entry.age > OfflineAfter
    BY <2>1 DEF SweepList
  <2>3. entry.age <= 1 /\ entry.age \in Nat
    BY OfflineAfterAssumption DEF LifeInv, WorkInv, IInv, TypeOK, MaxAge
  <2> QED  BY <2>2, <2>3, OfflineAfterAssumption
<1> QED  BY <1>1, LifeInductive, PTL DEF Spec, ExpiredWasLost
=============================================================================
