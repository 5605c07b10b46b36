-------------------------- MODULE GovernanceProofs --------------------------
(***************************************************************************)
(* Safety of Governance for every number of requests, admins and crashes.  *)
(* The invariants speak of what is visible; to be inductive they must also *)
(* cover what is on its way: the phase a handler has reached and the       *)
(* statements that were given up and may still execute.  IInv therefore    *)
(* says of every phase and of every statement on the wire what the rows    *)
(* they lead to will need.                                                 *)
(***************************************************************************)
EXTENDS Governance, FiniteSetTheorems, TLAPS

-----------------------------------------------------------------------------
(* The inductive invariant.                                                *)

RequestPhases == {"idle", "audit", "record", "queue", "announce", "reply"} \cup Ended
ResolverPhases == {"idle", "update", "get", "audit", "record", "announce"} \cup Ended
Statuses == {"none", "pending", "approved", "rejected"}

\* A statement names its table and the task that sent it.
WireTyped(w) ==
    \A x \in w : \/ \E t \in Events : x = <<"audit", t>> \/ x = <<"receipt", t>>
                 \/ \E r \in Requests : x = <<"queue", r>>
                 \/ \E s \in Resolvers : x = <<"update", s>>

TypeInv ==
    /\ chain \in [Runs -> Seq(Events)]
    /\ server \in {"down", "up", "refused"}
    /\ failClosed \in BOOLEAN /\ logger \in BOOLEAN
    /\ pc \in [Events -> {"idle"} \cup Running \cup Ended]
    /\ \A r \in Requests : pc[r] \in RequestPhases
    /\ \A s \in Resolvers : pc[s] \in ResolverPhases
    /\ verdict \in [Requests -> Verdicts \cup {"none"}]
    /\ reviews \in [Requests -> Statuses]
    /\ WireTyped(wire)

\* A handler runs only in a process that is up, and a process that is up with
\* fail-closed receipts has a logger.
UpInv ==
    /\ \A t \in Events : pc[t] \in Running => server = "up"
    /\ server = "up" /\ failClosed => logger

\* What was written for a task, or is on its way to be.
Written(t) == t \in audit \/ InChain(t) \/ <<"audit", t>> \in wire \/ <<"receipt", t>> \in wire
Queued(r) == reviews[r] # "none" \/ <<"queue", r>> \in wire

\* Nothing is written for a request that has not begun, nor for a resolution
\* whose UPDATE has not hit.
FreshInv ==
    /\ \A t \in Events : pc[t] \in {"idle", "update"} => ~Written(t)
    /\ \A r \in Requests : pc[r] = "idle" => ~Queued(r) /\ <<"governed", r>> \notin published

\* Fail-closed, a request goes past record() only with its receipt.
EvidenceInv ==
    failClosed => \A r \in Requests :
        (\/ pc[r] \in {"queue", "announce", "reply", "ok"}
         \/ <<"governed", r>> \in published \/ Queued(r)) => InChain(r)

\* A request goes past the audit append only with its row, or rate limited.
AuditInv ==
    \A r \in Requests :
        (\/ InChain(r) \/ <<"receipt", r>> \in wire
         \/ pc[r] \in {"record", "queue", "announce", "reply", "ok"}
         \/ <<"governed", r>> \in published \/ Queued(r))
            => r \in audit \/ verdict[r] = "limited"

\* The queue entry is there from the announcement on, and none before.
QueueOf(r) ==
    /\ pc[r] \in {"queue", "announce"} \/ Queued(r) => verdict[r] = "review"
    /\ pc[r] \in {"audit", "record", "queue"} => ~Queued(r)
    /\ <<"queue", r>> \in wire => reviews[r] = "none" /\ pc[r] \in Ended \ {"ok"}
    /\ pc[r] = "announce" => reviews[r] # "none"
    /\ (pc[r] \in {"reply", "ok"} /\ verdict[r] = "review") =>
           reviews[r] # "none" /\ <<"created", r>> \in published

QueueInv == \A r \in Requests : QueueOf(r)

\* A resolution whose UPDATE hit the row.
Won(s) == pc[s] \in {"get", "audit", "record", "announce", "ok"} \/ Written(s)

WinnerInv ==
    /\ \A s \in Resolvers : Won(s) => reviews[TargetOf[s]] = StatusOf[s]
    /\ \A s, u \in Resolvers : Won(s) /\ Won(u) /\ TargetOf[s] = TargetOf[u] => s = u
    /\ \A r \in Requests : \A st \in {"approved", "rejected"} :
           <<"resolved", r, st>> \in published => reviews[r] = st

IInv == TypeInv /\ UpInv /\ FreshInv /\ EvidenceInv /\ AuditInv /\ QueueInv /\ WinnerInv

-----------------------------------------------------------------------------
\* An append puts its event into the chain of its run and takes none out.
LEMMA AppendInChain ==
    ASSUME TypeInv, NEW e \in Events, LogAppend(e), NEW t \in Events
    PROVE  InChain(t)' <=> InChain(t) \/ t = e
<1> DEFINE c == chain[RunOf[e]]
<1>1. RunOf[e] \in Runs /\ RunOf[t] \in Runs /\ c \in Seq(Events) /\ chain[RunOf[t]] \in Seq(Events)
  BY RunAssumption DEF TypeInv
<1>2. chain' = [chain EXCEPT ![RunOf[e]] = Append(c, e)]
  BY DEF LogAppend
<1>3. CASE RunOf[t] = RunOf[e]
  <2>1. chain'[RunOf[t]] = Append(c, e)
    BY <1>1, <1>2, <1>3 DEF TypeInv
  <2>2. /\ Len(Append(c, e)) = Len(c) + 1
        /\ Append(c, e)[Len(c) + 1] = e
        /\ \A i \in 1..Len(c) : Append(c, e)[i] = c[i]
        /\ Len(c) \in Nat
    BY <1>1
  <2> HIDE DEF c
  <2>3. InChain(t)' <=> \E i \in 1..(Len(c) + 1) : Append(c, e)[i] = t
    BY <2>1, <2>2 DEF InChain
  <2>4. InChain(t) <=> \E i \in 1..Len(c) : c[i] = t
    BY <1>3 DEF InChain, c
  <2> QED
    BY <2>2, <2>3, <2>4
<1>4. CASE RunOf[t] # RunOf[e]
  BY <1>1, <1>2, <1>4 DEF TypeInv, InChain
<1> QED
  BY <1>3, <1>4

\* A step that leaves the chains alone leaves every event where it is.
LEMMA SameChains == ASSUME UNCHANGED chain, NEW t \in Events PROVE InChain(t)' <=> InChain(t)
BY DEF InChain

\* Which statements an end of waiting may leave on the wire.
LEMMA StatementKinds ==
    ASSUME TypeInv, NEW t \in Events, NEW x \in Statement(t)
    PROVE  \/ x = <<"audit", t>> /\ pc[t] = "audit"
           \/ x = <<"receipt", t>> /\ pc[t] = "record"
           \/ x = <<"queue", t>> /\ pc[t] = "queue" /\ t \in Requests
           \/ x = <<"update", t>> /\ pc[t] = "update" /\ t \in Resolvers
<1>1. pc[t] = "queue" => t \in Requests
  BY EventsAssumption DEF TypeInv, ResolverPhases, Ended
<1>2. pc[t] = "update" => t \in Resolvers
  BY EventsAssumption DEF TypeInv, RequestPhases, Ended
<1> QED
  BY <1>1, <1>2 DEF Statement

\* What the tasks of S leave on the wire: at most the statement of each phase.
LEMMA WireGrows ==
    ASSUME TypeInv, NEW S \in SUBSET Events, wire \subseteq wire',
           \A x \in wire' : x \in wire \/ \E t \in S : x \in Statement(t)
    PROVE  /\ WireTyped(wire')
           /\ \A u \in Events :
                /\ <<"audit", u>> \in wire' => <<"audit", u>> \in wire \/ (u \in S /\ pc[u] = "audit")
                /\ <<"receipt", u>> \in wire' => <<"receipt", u>> \in wire \/ (u \in S /\ pc[u] = "record")
                /\ <<"queue", u>> \in wire' => <<"queue", u>> \in wire \/ (u \in S /\ pc[u] = "queue")
<1>1. ASSUME NEW x \in wire'
      PROVE  \/ x \in wire
             \/ \E t \in S :
                  \/ x = <<"audit", t>> /\ pc[t] = "audit"
                  \/ x = <<"receipt", t>> /\ pc[t] = "record"
                  \/ x = <<"queue", t>> /\ pc[t] = "queue" /\ t \in Requests
                  \/ x = <<"update", t>> /\ pc[t] = "update" /\ t \in Resolvers
  BY StatementKinds
<1>2. WireTyped(wire')
  BY <1>1, EventsAssumption DEF TypeInv, WireTyped
<1>3. ASSUME NEW u \in Events PROVE
        /\ <<"audit", u>> \in wire' => <<"audit", u>> \in wire \/ (u \in S /\ pc[u] = "audit")
        /\ <<"receipt", u>> \in wire' => <<"receipt", u>> \in wire \/ (u \in S /\ pc[u] = "record")
        /\ <<"queue", u>> \in wire' => <<"queue", u>> \in wire \/ (u \in S /\ pc[u] = "queue")
  BY <1>1
<1> QED
  BY <1>2, <1>3

\* WinnerInv survives a step that makes no winner and touches no row.
LEMMA WinnersKept ==
    ASSUME WinnerInv, UNCHANGED <<reviews, published>>, \A s \in Resolvers : Won(s)' => Won(s)
    PROVE  WinnerInv'
BY DEF WinnerInv

\* The initial state.
LEMMA InitInv == Init => IInv
<1> SUFFICES ASSUME Init PROVE IInv
  OBVIOUS
<1>1. \A t \in Events : ~InChain(t)
  <2> SUFFICES ASSUME NEW t \in Events PROVE ~InChain(t)
    OBVIOUS
  <2>1. chain[RunOf[t]] = <<>>
    BY RunAssumption DEF Init, LogInit
  <2> QED
    BY <2>1 DEF InChain
<1>2. \A t \in Events : pc[t] = "idle" /\ ~Written(t)
  BY <1>1 DEF Init, Written
<1>3. \A r \in Requests : r \in Events /\ reviews[r] = "none" /\ ~Queued(r)
  BY EventsAssumption DEF Init, Queued
<1>4. \A s \in Resolvers : s \in Events /\ ~Won(s)
  BY <1>2, EventsAssumption DEF Won
<1>5. published = {} /\ wire = {} /\ server = "down"
  BY DEF Init
<1>6. TypeInv
  <2>1. chain \in [Runs -> Seq(Events)]
    BY DEF Init, LogInit
  <2> QED
    BY <2>1, <1>2, <1>3, <1>4, <1>5 DEF Init, TypeInv, RequestPhases, ResolverPhases, WireTyped,
       Statuses
<1>7. UpInv /\ FreshInv
  BY <1>2, <1>3, <1>5 DEF UpInv, FreshInv, Running
<1>8. EvidenceInv /\ AuditInv /\ QueueInv
  BY <1>1, <1>2, <1>3, <1>5 DEF EvidenceInv, AuditInv, QueueInv, QueueOf, Ended
<1>9. WinnerInv
  BY <1>4, <1>5 DEF WinnerInv
<1> QED
  BY <1>6, <1>7, <1>8, <1>9 DEF IInv

-----------------------------------------------------------------------------
\* Tasks stop, by an error, a disconnected caller or a crash; the statements
\* they waited for may be left on the wire.
LEMMA Stopping ==
    ASSUME IInv, NEW S \in SUBSET Events, NEW how \in {"error", "gone"},
           pc' = [t \in Events |-> IF t \in S THEN how ELSE pc[t]],
           wire \subseteq wire',
           \A x \in wire' : x \in wire \/ \E t \in S : x \in Statement(t),
           \/ server' = server
           \/ server' = "down" /\ \A t \in Events : pc[t] \in Running => t \in S,
           UNCHANGED <<logVars, failClosed, logger, verdict, audit, reviews, published>>
    PROVE  IInv'
<1> USE EventsAssumption DEF Running, Ended, logVars
<1>1. \A u \in Events : InChain(u)' <=> InChain(u)
  BY SameChains
<1>2. /\ WireTyped(wire')
      /\ \A u \in Events :
           /\ <<"audit", u>> \in wire' => <<"audit", u>> \in wire \/ (u \in S /\ pc[u] = "audit")
           /\ <<"receipt", u>> \in wire' => <<"receipt", u>> \in wire \/ (u \in S /\ pc[u] = "record")
           /\ <<"queue", u>> \in wire' => <<"queue", u>> \in wire \/ (u \in S /\ pc[u] = "queue")
  BY WireGrows DEF IInv
<1>3. \A u \in Events : pc'[u] = IF u \in S THEN how ELSE pc[u]
  OBVIOUS
<1>4. \A u \in Events : Written(u)' => Written(u) \/ (u \in S /\ pc[u] \in {"audit", "record"})
  BY <1>1, <1>2 DEF Written
<1>5. \A r \in Requests : Queued(r)' => Queued(r) \/ (r \in S /\ pc[r] = "queue")
  BY <1>2 DEF Queued
<1>6. TypeInv'
  BY <1>2, <1>3 DEF IInv, TypeInv, RequestPhases, ResolverPhases
<1>7. UpInv'
  BY <1>3 DEF IInv, TypeInv, UpInv
<1>8. FreshInv'
  BY <1>3, <1>4, <1>5 DEF IInv, FreshInv
<1>9. EvidenceInv'
  BY <1>1, <1>3, <1>5 DEF IInv, EvidenceInv
<1>10. AuditInv'
  BY <1>1, <1>2, <1>3, <1>5 DEF IInv, AuditInv
<1>11. QueueInv'
  <2> SUFFICES ASSUME NEW r \in Requests
      PROVE  /\ pc'[r] \in {"queue", "announce"} \/ Queued(r)' => verdict[r] = "review"
             /\ pc'[r] \in {"audit", "record", "queue"} => ~Queued(r)'
             /\ <<"queue", r>> \in wire' => reviews[r] = "none" /\ pc'[r] \in Ended \ {"ok"}
             /\ pc'[r] = "announce" => reviews[r] # "none"
             /\ (pc'[r] \in {"reply", "ok"} /\ verdict[r] = "review") =>
                   reviews[r] # "none" /\ <<"created", r>> \in published
    BY DEF QueueInv, QueueOf
  <2>1. Queued(r) \/ pc[r] = "queue" => verdict[r] = "review"
    BY DEF IInv, QueueInv, QueueOf
  <2>2. pc[r] = "queue" => reviews[r] = "none"
    BY DEF IInv, QueueInv, QueueOf, Queued
  <2> QED
    BY <1>2, <1>3, <1>5, <2>1, <2>2 DEF IInv, QueueInv, QueueOf
<1>12. WinnerInv'
  <2>1. \A s \in Resolvers : Won(s)' => Won(s)
    BY <1>3, <1>4 DEF Won
  <2> QED
    BY <2>1, WinnersKept DEF IInv
<1> QED
  BY <1>6, <1>7, <1>8, <1>9, <1>10, <1>11, <1>12 DEF IInv

\* One task stops.
LEMMA OneStops ==
    ASSUME IInv, NEW t \in Events, NEW how \in {"error", "gone"},
           Goto(t, how), GiveUp(t), UNCHANGED <<logVars, procVars, verdict, audit, reviews, published>>
    PROVE  IInv'
<1> DEFINE S == {t}
<1>1. pc' = [u \in Events |-> IF u \in S THEN how ELSE pc[u]]
  BY DEF Goto, IInv, TypeInv
<1>2. wire \subseteq wire' /\ \A x \in wire' : x \in wire \/ \E u \in S : x \in Statement(u)
  BY DEF GiveUp
<1>3. S \in SUBSET Events
  OBVIOUS
<1> HIDE DEF S
<1> QED
  BY <1>1, <1>2, <1>3, Stopping DEF procVars

-----------------------------------------------------------------------------
\* The steps of one handler's audit row and receipt.
LEMMA WriteSteps == ASSUME IInv, NEW t \in Events, WriteStep(t) PROVE IInv'
<1> USE EventsAssumption DEF Running, Ended, procVars, logVars
<1>0. TypeInv /\ pc \in [Events -> {"idle"} \cup Running \cup Ended]
  BY DEF IInv, TypeInv
<1>1. CASE AuditOk(t)
  <2>1. \A u \in Events : InChain(u)' <=> InChain(u)
    BY <1>1, SameChains DEF AuditOk
  <2>2. \A u \in Events : pc'[u] = IF u = t THEN "record" ELSE pc[u]
    BY <1>0, <1>1 DEF AuditOk, Goto
  <2>3. \A u \in Events : Written(u)' => Written(u) \/ u = t
    BY <1>1, <2>1 DEF AuditOk, Written
  <2>4. TypeInv'
    BY <1>1, <2>2 DEF AuditOk, Goto, IInv, TypeInv, RequestPhases, ResolverPhases
  <2>5. UpInv' /\ EvidenceInv' /\ AuditInv'
    BY <1>1, <2>1, <2>2 DEF AuditOk, IInv, UpInv, EvidenceInv, AuditInv, Queued
  <2>6. FreshInv' /\ QueueInv'
    BY <1>1, <2>2, <2>3 DEF AuditOk, IInv, FreshInv, QueueInv, QueueOf, Queued
  <2>7. WinnerInv'
    <3>1. \A s \in Resolvers : Won(s)' => Won(s)
      BY <1>1, <2>2, <2>3 DEF AuditOk, Won
    <3> QED
      BY <1>1, <3>1, WinnersKept DEF AuditOk, IInv
  <2> QED
    BY <2>4, <2>5, <2>6, <2>7 DEF IInv
<1>2. CASE AuditError(t)
  <2>1. CASE AuditIsFatal(t)
    BY <1>2, <2>1, OneStops DEF AuditError
  <2>2. CASE ~AuditIsFatal(t)
    <3>1. \A u \in Events : InChain(u)' <=> InChain(u)
      BY <1>2, SameChains DEF AuditError
    <3>2. \A u \in Events : pc'[u] = IF u = t THEN "record" ELSE pc[u]
      BY <1>0, <1>2, <2>2 DEF AuditError, Goto
    <3>3. WireTyped(wire') /\ wire \subseteq wire' /\ \A x \in wire' : x \in wire \/ x = <<"audit", t>>
      BY <1>0, <1>2 DEF AuditError, GiveUp, Statement, TypeInv, WireTyped
    <3>4. \A u \in Events : Written(u)' => Written(u) \/ u = t
      BY <3>1, <3>3, <1>2 DEF AuditError, Written
    <3>5. \A r \in Requests : Queued(r)' <=> Queued(r)
      BY <3>3, <1>2 DEF AuditError, Queued
    <3>6. TypeInv'
      BY <1>2, <3>2, <3>3 DEF AuditError, Goto, IInv, TypeInv, RequestPhases, ResolverPhases
    <3>7. UpInv' /\ EvidenceInv'
      BY <1>2, <3>1, <3>2, <3>5 DEF AuditError, IInv, UpInv, EvidenceInv
    <3>8. AuditInv'
      BY <1>2, <2>2, <3>1, <3>2, <3>3, <3>5 DEF AuditError, AuditIsFatal, IInv, AuditInv
    <3>9. FreshInv'
      BY <1>2, <3>2, <3>4, <3>5 DEF AuditError, IInv, FreshInv
    <3>10. QueueInv'
      BY <1>2, <3>2, <3>3, <3>5 DEF AuditError, IInv, QueueInv, QueueOf
    <3>11. WinnerInv'
      <4>1. \A s \in Resolvers : Won(s)' => Won(s)
        BY <1>2, <3>2, <3>4 DEF AuditError, Won
      <4> QED
        BY <1>2, <4>1, WinnersKept DEF AuditError, IInv
    <3> QED
      BY <3>6, <3>7, <3>8, <3>9, <3>10, <3>11 DEF IInv
  <2> QED
    BY <2>1, <2>2
<1>3. ASSUME pc[t] = "record", Goto(t, AfterRecord(t)),
             UNCHANGED <<chain, procVars, verdict, audit, reviews, published>>,
             failClosed /\ t \in Requests => InChain(t),
             wire \subseteq wire', \A x \in wire' : x \in wire \/ x = <<"receipt", t>>
      PROVE  IInv'
  <2>1. \A u \in Events : InChain(u)' <=> InChain(u)
    BY <1>3, SameChains
  <2>2. \A u \in Events : pc'[u] = IF u = t THEN AfterRecord(t) ELSE pc[u]
    BY <1>0, <1>3 DEF Goto
  <2>3. t \in Resolvers => AfterRecord(t) = "announce"
    BY DEF AfterRecord
  <2>4. t \in Requests => /\ verdict[t] = "review" => AfterRecord(t) = "queue"
                          /\ verdict[t] # "review" => AfterRecord(t) = "reply"
    BY DEF AfterRecord
  <2>5. \A u \in Events : Written(u)' => Written(u) \/ u = t
    BY <1>3, <2>1 DEF Written
  <2>6. \A r \in Requests : Queued(r)' <=> Queued(r)
    BY <1>3 DEF Queued
  <2>7. WireTyped(wire')
    BY <1>0, <1>3 DEF TypeInv, WireTyped
  <2>8. TypeInv'
    BY <1>3, <2>2, <2>3, <2>4, <2>7 DEF Goto, IInv, TypeInv, RequestPhases, ResolverPhases
  <2>9. UpInv' /\ EvidenceInv'
    BY <1>3, <2>1, <2>2, <2>3, <2>4, <2>6 DEF IInv, UpInv, EvidenceInv
  <2>10. AuditInv'
    BY <1>3, <2>1, <2>2, <2>6 DEF IInv, AuditInv
  <2>11. FreshInv'
    BY <1>3, <2>2, <2>3, <2>4, <2>5, <2>6 DEF IInv, FreshInv
  <2>12. QueueInv'
    <3> SUFFICES ASSUME NEW r \in Requests
        PROVE  /\ pc'[r] \in {"queue", "announce"} \/ Queued(r) => verdict[r] = "review"
               /\ pc'[r] \in {"audit", "record", "queue"} => ~Queued(r)
               /\ <<"queue", r>> \in wire => reviews[r] = "none" /\ pc'[r] \in Ended \ {"ok"}
               /\ pc'[r] = "announce" => reviews[r] # "none"
               /\ (pc'[r] \in {"reply", "ok"} /\ verdict[r] = "review") =>
                     reviews[r] # "none" /\ <<"created", r>> \in published
      BY <1>3, <2>6 DEF QueueInv, QueueOf
    <3>1. CASE r = t
      <4>1. ~Queued(t) /\ <<"queue", t>> \notin wire
        BY <1>3, <3>1 DEF IInv, QueueInv, QueueOf, Queued
      <4> QED
        BY <2>2, <2>4, <3>1, <4>1
    <3>2. CASE r # t
      BY <2>2, <3>2 DEF IInv, QueueInv, QueueOf
    <3> QED
      BY <3>1, <3>2
  <2>13. WinnerInv'
    <3>1. \A s \in Resolvers : Won(s)' => Won(s)
      BY <1>3, <2>2, <2>5 DEF Won
    <3> QED
      BY <1>3, <3>1, WinnersKept DEF IInv
  <2> QED
    BY <2>8, <2>9, <2>10, <2>11, <2>12, <2>13 DEF IInv
<1>4. CASE NoLogger(t)
  <2>1. ~failClosed
    BY <1>4 DEF NoLogger, IInv, UpInv
  <2> QED
    BY <1>3, <1>4, <2>1 DEF NoLogger
<1>5. CASE ReceiptCommits(t)
  <2>1. \A u \in Events : InChain(u)' <=> InChain(u) \/ u = t
    BY <1>0, <1>5, AppendInChain DEF ReceiptCommits
  <2>2. \A u \in Events : Written(u)' => Written(u) \/ u = t
    BY <1>5, <2>1 DEF ReceiptCommits, Written
  <2>3. TypeInv'
    BY <1>5, RunAssumption DEF ReceiptCommits, LogAppend, IInv, TypeInv
  <2>4. UpInv' /\ EvidenceInv' /\ AuditInv'
    BY <1>5, <2>1 DEF ReceiptCommits, IInv, UpInv, EvidenceInv, AuditInv, Queued
  <2>5. FreshInv' /\ QueueInv'
    BY <1>5, <2>2 DEF ReceiptCommits, IInv, FreshInv, QueueInv, QueueOf, Queued
  <2>6. WinnerInv'
    <3>1. \A s \in Resolvers : Won(s)' => Won(s)
      BY <1>5, <2>2 DEF ReceiptCommits, Won
    <3> QED
      BY <1>5, <3>1, WinnersKept DEF ReceiptCommits, IInv
  <2> QED
    BY <2>3, <2>4, <2>5, <2>6 DEF IInv
<1>6. CASE ReceiptSigned(t)
  BY <1>3, <1>6 DEF ReceiptSigned, LogAck
<1>7. CASE ReceiptDropped(t)
  <2>1. CASE failClosed /\ t \in Requests
    BY <1>7, <2>1, OneStops DEF ReceiptDropped
  <2>2. CASE ~(failClosed /\ t \in Requests)
    <3>1. wire \subseteq wire' /\ \A x \in wire' : x \in wire \/ x = <<"receipt", t>>
      BY <1>7 DEF ReceiptDropped, GiveUp, Statement
    <3> QED
      BY <1>3, <1>7, <2>2, <3>1 DEF ReceiptDropped
  <2> QED
    BY <2>1, <2>2
<1> QED
  BY <1>1, <1>2, <1>4, <1>5, <1>6, <1>7 DEF WriteStep

-----------------------------------------------------------------------------
\* A step that only moves one task's phase, and perhaps settles its verdict.
LEMMA RequestSteps == ASSUME IInv, NEW r \in Requests,
                             RefuseRequest(r) \/ Decide(r) \/ RequestStep(r)
                      PROVE  IInv'
<1> USE EventsAssumption DEF Running, Ended, procVars, logVars
<1>0. r \in Events /\ TypeInv /\ pc \in [Events -> {"idle"} \cup Running \cup Ended]
  BY DEF IInv, TypeInv
<1>1. CASE RefuseRequest(r)
  BY <1>0, <1>1, OneStops DEF RefuseRequest, GiveUp
<1>2. CASE Decide(r)
  <2>1. \A u \in Events : InChain(u)' <=> InChain(u)
    BY <1>2, SameChains DEF Decide
  <2>2. \A u \in Events : pc'[u] = IF u = r THEN "audit" ELSE pc[u]
    BY <1>0, <1>2 DEF Decide, Goto
  <2>3. verdict' \in [Requests -> Verdicts \cup {"none"}] /\ \A q \in Requests : q # r => verdict'[q] = verdict[q]
    BY <1>2 DEF Decide, IInv, TypeInv
  <2>4. \A u \in Events : Written(u)' <=> Written(u)
    BY <1>2, <2>1 DEF Decide, Written
  <2>5. \A q \in Requests : Queued(q)' <=> Queued(q)
    BY <1>2 DEF Decide, Queued
  <2>6. pc[r] = "idle" /\ ~Written(r) /\ ~Queued(r) /\ <<"governed", r>> \notin published
    BY <1>0, <1>2 DEF Decide, IInv, FreshInv
  <2>7. TypeInv'
    BY <1>2, <2>2, <2>3 DEF Decide, Goto, IInv, TypeInv, RequestPhases, ResolverPhases
  <2>8. UpInv' /\ EvidenceInv' /\ FreshInv'
    BY <1>2, <2>1, <2>2, <2>4, <2>5 DEF Decide, IInv, UpInv, EvidenceInv, FreshInv
  <2>9. AuditInv'
    BY <1>2, <2>1, <2>2, <2>3, <2>5, <2>6 DEF Decide, IInv, AuditInv, Written
  <2>10. QueueInv'
    <3>1. <<"queue", r>> \notin wire
      BY <2>6 DEF Queued
    <3> QED
      BY <1>2, <2>2, <2>3, <2>5, <2>6, <3>1 DEF Decide, IInv, QueueInv, QueueOf
  <2>11. WinnerInv'
    <3>1. \A s \in Resolvers : Won(s)' => Won(s)
      BY <2>2, <2>4 DEF Won
    <3> QED
      BY <1>2, <3>1, WinnersKept DEF Decide, IInv
  <2> QED
    BY <2>7, <2>8, <2>9, <2>10, <2>11 DEF IInv
<1>3. CASE WriteStep(r)
  BY <1>0, <1>3, WriteSteps
<1>4. CASE QueueReview(r)
  <2>1. \A u \in Events : InChain(u)' <=> InChain(u)
    BY <1>4, SameChains DEF QueueReview
  <2>2. \A u \in Events : pc'[u] = IF u = r THEN "announce" ELSE pc[u]
    BY <1>0, <1>4 DEF QueueReview, Goto
  <2>3. \A q \in Requests : reviews'[q] = IF q = r THEN "pending" ELSE reviews[q]
    BY <1>4 DEF QueueReview, IInv, TypeInv
  <2>4. reviews[r] = "none" /\ <<"queue", r>> \notin wire /\ verdict[r] = "review"
    BY <1>4 DEF QueueReview, IInv, QueueInv, QueueOf, Queued
  <2>5. \A u \in Events : Written(u)' <=> Written(u)
    BY <1>4, <2>1 DEF QueueReview, Written
  <2>6. \A q \in Requests : Queued(q)' <=> Queued(q) \/ q = r
    BY <1>4, <2>3 DEF QueueReview, Queued
  <2>7. TypeInv'
    BY <1>4, <2>2 DEF QueueReview, Goto, IInv, TypeInv, RequestPhases, ResolverPhases, Statuses
  <2>8. UpInv' /\ EvidenceInv' /\ FreshInv'
    BY <1>4, <2>1, <2>2, <2>5, <2>6 DEF QueueReview, IInv, UpInv, EvidenceInv, FreshInv
  <2>9. AuditInv'
    BY <1>4, <2>1, <2>2, <2>6 DEF QueueReview, IInv, AuditInv
  <2>10. QueueInv'
    <3>1. QueueOf(r)'
      BY <1>4, <2>2, <2>3, <2>4, <2>6 DEF QueueReview, IInv, QueueInv, QueueOf
    <3>2. ASSUME NEW q \in Requests, q # r PROVE QueueOf(q)'
      BY <1>4, <2>2, <2>3, <2>4, <2>6, <3>2 DEF QueueReview, IInv, QueueInv, QueueOf
    <3> QED
      BY <3>1, <3>2 DEF QueueInv
  <2>11. WinnerInv'
    <3>1. \A s \in Resolvers : Won(s)' <=> Won(s)
      BY <2>2, <2>5 DEF Won
    <3>2. \A s \in Resolvers : Won(s) => TargetOf[s] # r
      BY <2>4, ResolverAssumption DEF IInv, WinnerInv
    <3>3. \A st \in {"approved", "rejected"} : <<"resolved", r, st>> \notin published
      BY <2>4 DEF IInv, WinnerInv
    <3> QED
      BY <1>4, <2>3, <3>1, <3>2, <3>3, ResolverAssumption DEF QueueReview, IInv, WinnerInv
  <2> QED
    BY <2>7, <2>8, <2>9, <2>10, <2>11 DEF IInv
<1>5. CASE QueueError(r)
  BY <1>0, <1>5, OneStops DEF QueueError
<1>6. CASE AnnounceReview(r) \/ Reply(r)
  <2> DEFINE next == IF pc[r] = "announce" THEN "reply" ELSE "ok"
  <2>1. \A u \in Events : InChain(u)' <=> InChain(u)
    BY <1>6, SameChains DEF AnnounceReview, Reply
  <2>2. pc[r] \in {"announce", "reply"} /\ pc' = [pc EXCEPT ![r] = next]
    BY <1>6 DEF AnnounceReview, Reply, Goto
  <2>3. \A u \in Events : pc'[u] = IF u = r THEN next ELSE pc[u]
    BY <1>0, <2>2
  <2>4. \A u \in Events : Written(u)' <=> Written(u)
    BY <1>6, <2>1 DEF AnnounceReview, Reply, Written
  <2>5. \A q \in Requests : Queued(q)' <=> Queued(q)
    BY <1>6 DEF AnnounceReview, Reply, Queued
  <2>6. /\ published \subseteq published'
        /\ \A q \in Requests : <<"governed", q>> \in published' => <<"governed", q>> \in published \/ q = r
        /\ \A q \in Requests : \A st \in {"approved", "rejected"} :
              <<"resolved", q, st>> \in published' => <<"resolved", q, st>> \in published
        /\ pc[r] = "announce" => <<"created", r>> \in published'
        /\ pc[r] = "announce" => ~(<<"governed", r>> \in published') \/ <<"governed", r>> \in published
    BY <1>6 DEF AnnounceReview, Reply
  <2>7. UNCHANGED <<logVars, procVars, verdict, audit, wire, reviews>>
    BY <1>6 DEF AnnounceReview, Reply
  <2>8. TypeInv'
    BY <2>2, <2>3, <2>7 DEF IInv, TypeInv, RequestPhases, ResolverPhases
  <2>9. UpInv'
    BY <2>2, <2>3, <2>7 DEF IInv, UpInv
  <2>10. EvidenceInv' /\ FreshInv'
    BY <2>1, <2>2, <2>3, <2>4, <2>5, <2>6, <2>7 DEF IInv, EvidenceInv, FreshInv
  <2>11. AuditInv'
    BY <2>1, <2>2, <2>3, <2>5, <2>6, <2>7 DEF IInv, AuditInv
  <2>12. QueueInv'
    <3>1. QueueOf(r)'
      BY <2>2, <2>3, <2>5, <2>6, <2>7 DEF IInv, QueueInv, QueueOf
    <3>2. ASSUME NEW q \in Requests, q # r PROVE QueueOf(q)'
      BY <2>2, <2>3, <2>5, <2>6, <2>7, <3>2 DEF IInv, QueueInv, QueueOf
    <3> QED
      BY <3>1, <3>2 DEF QueueInv
  <2>13. WinnerInv'
    <3>1. \A s \in Resolvers : Won(s)' => Won(s)
      BY <2>3, <2>4 DEF Won
    <3> QED
      BY <2>6, <2>7, <3>1 DEF IInv, WinnerInv
  <2> QED
    BY <2>8, <2>9, <2>10, <2>11, <2>12, <2>13 DEF IInv
<1> QED
  BY <1>1, <1>2, <1>3, <1>4, <1>5, <1>6 DEF RequestStep

\* The steps of an admin's resolution.
LEMMA ResolverSteps == ASSUME IInv, NEW s \in Resolvers, Resolve(s) \/ ResolverStep(s) PROVE IInv'
<1> USE EventsAssumption, ResolverAssumption DEF Running, Ended, procVars, logVars
<1>0. s \in Events /\ TypeInv /\ pc \in [Events -> {"idle"} \cup Running \cup Ended]
  BY DEF IInv, TypeInv
<1>1. ASSUME NEW next, Goto(s, next),
             \/ pc[s] = "idle" /\ next = "update" /\ server = "up"
             \/ pc[s] = "get" /\ next = "audit",
             UNCHANGED <<logVars, procVars, verdict, audit, wire, reviews, published>>
      PROVE  IInv'
  <2>1. \A u \in Events : InChain(u)' <=> InChain(u)
    BY <1>1, SameChains
  <2>2. \A u \in Events : pc'[u] = IF u = s THEN next ELSE pc[u]
    BY <1>0, <1>1 DEF Goto
  <2>3. \A u \in Events : Written(u)' <=> Written(u)
    BY <1>1, <2>1 DEF Written
  <2>4. \A q \in Requests : Queued(q)' <=> Queued(q)
    BY <1>1 DEF Queued
  <2>5. TypeInv'
    BY <1>1, <2>2 DEF Goto, IInv, TypeInv, RequestPhases, ResolverPhases
  <2>6. UpInv' /\ FreshInv'
    BY <1>1, <2>2, <2>3, <2>4 DEF IInv, UpInv, FreshInv
  <2>7. EvidenceInv' /\ AuditInv' /\ QueueInv'
    BY <1>1, <2>1, <2>2, <2>4 DEF IInv, EvidenceInv, AuditInv, QueueInv, QueueOf
  <2>8. WinnerInv'
    <3>1. \A u \in Resolvers : Won(u)' => Won(u)
      BY <1>1, <2>2, <2>3 DEF Won
    <3> QED
      BY <1>1, <3>1, WinnersKept DEF IInv
  <2> QED
    BY <2>5, <2>6, <2>7, <2>8 DEF IInv
<1>2. CASE Resolve(s)
  BY <1>1, <1>2 DEF Resolve
<1>3. CASE UpdateStatus(s)
  <2>1. \A u \in Events : InChain(u)' <=> InChain(u)
    BY <1>3, SameChains DEF UpdateStatus
  <2>2. \A u \in Events : pc'[u] = IF u = s THEN "get" ELSE pc[u]
    BY <1>0, <1>3 DEF UpdateStatus, Goto
  <2>3. reviews[TargetOf[s]] = "pending" /\ pc[s] = "update" /\ ~Won(s)
    BY <1>0, <1>3 DEF UpdateStatus, HitsRow, IInv, FreshInv, Won
  <2>4. \A q \in Requests : reviews'[q] = IF q = TargetOf[s] THEN StatusOf[s] ELSE reviews[q]
    BY <1>3 DEF UpdateStatus, SetStatus, IInv, TypeInv
  <2>5. \A u \in Events : Written(u)' <=> Written(u)
    BY <1>3, <2>1 DEF UpdateStatus, Written
  <2>6. \A q \in Requests : Queued(q)' <=> Queued(q)
    BY <1>3, <2>3, <2>4 DEF UpdateStatus, Queued
  <2>7. TypeInv'
    BY <1>3, <2>2 DEF UpdateStatus, SetStatus, Goto, IInv, TypeInv, RequestPhases, ResolverPhases, Statuses
  <2>8. UpInv' /\ FreshInv'
    BY <1>3, <2>2, <2>5, <2>6 DEF UpdateStatus, IInv, UpInv, FreshInv
  <2>9. EvidenceInv' /\ AuditInv'
    BY <1>3, <2>1, <2>2, <2>6 DEF UpdateStatus, IInv, EvidenceInv, AuditInv
  <2>10. QueueInv'
    <3>1. QueueOf(TargetOf[s])'
      BY <1>3, <2>2, <2>3, <2>4, <2>6 DEF UpdateStatus, IInv, QueueInv, QueueOf
    <3>2. ASSUME NEW q \in Requests, q # TargetOf[s] PROVE QueueOf(q)'
      BY <1>3, <2>2, <2>3, <2>4, <2>6, <3>2 DEF UpdateStatus, IInv, QueueInv, QueueOf
    <3> QED
      BY <3>1, <3>2 DEF QueueInv
  <2>11. WinnerInv'
    <3>1. \A u \in Resolvers : Won(u)' <=> Won(u) \/ u = s
      BY <2>2, <2>3, <2>5 DEF Won
    <3>2. \A u \in Resolvers : Won(u) => TargetOf[u] # TargetOf[s]
      BY <2>3 DEF IInv, WinnerInv
    <3>3. \A st \in {"approved", "rejected"} : <<"resolved", TargetOf[s], st>> \notin published
      BY <2>3 DEF IInv, WinnerInv
    <3> QED
      BY <1>3, <2>4, <3>1, <3>2, <3>3 DEF UpdateStatus, IInv, WinnerInv
  <2> QED
    BY <2>7, <2>8, <2>9, <2>10, <2>11 DEF IInv
<1>4. CASE RefuseResolution(s) \/ UpdateError(s) \/ GetReviewFails(s)
  BY <1>0, <1>4, OneStops DEF RefuseResolution, UpdateError, GetReviewFails, GiveUp
<1>5. CASE GetReview(s)
  BY <1>1, <1>5 DEF GetReview
<1>6. CASE WriteStep(s)
  BY <1>0, <1>6, WriteSteps
<1>7. CASE AnnounceResolution(s)
  <2>1. \A u \in Events : InChain(u)' <=> InChain(u)
    BY <1>7, SameChains DEF AnnounceResolution
  <2>2. \A u \in Events : pc'[u] = IF u = s THEN "ok" ELSE pc[u]
    BY <1>0, <1>7 DEF AnnounceResolution, Goto
  <2>3. \A u \in Events : Written(u)' <=> Written(u)
    BY <1>7, <2>1 DEF AnnounceResolution, Written
  <2>4. \A q \in Requests : Queued(q)' <=> Queued(q)
    BY <1>7 DEF AnnounceResolution, Queued
  <2>5. /\ published \subseteq published'
        /\ \A q \in Requests : <<"governed", q>> \in published' => <<"governed", q>> \in published
        /\ \A q \in Requests : \A st \in {"approved", "rejected"} :
              <<"resolved", q, st>> \in published' =>
                 <<"resolved", q, st>> \in published \/ (q = TargetOf[s] /\ st = StatusOf[s])
    BY <1>7 DEF AnnounceResolution
  <2>6. TypeInv'
    BY <1>7, <2>2 DEF AnnounceResolution, Goto, IInv, TypeInv, RequestPhases, ResolverPhases
  <2>7. UpInv' /\ FreshInv'
    BY <1>7, <2>2, <2>3, <2>4, <2>5 DEF AnnounceResolution, IInv, UpInv, FreshInv
  <2>8. EvidenceInv' /\ AuditInv'
    BY <1>7, <2>1, <2>2, <2>4, <2>5 DEF AnnounceResolution, IInv, EvidenceInv, AuditInv
  <2>9. QueueInv'
    BY <1>7, <2>2, <2>4, <2>5 DEF AnnounceResolution, IInv, QueueInv, QueueOf
  <2>10. WinnerInv'
    <3>1. \A u \in Resolvers : Won(u)' => Won(u)
      BY <1>7, <2>2, <2>3 DEF AnnounceResolution, Won
    <3>2. reviews[TargetOf[s]] = StatusOf[s]
      BY <1>7 DEF AnnounceResolution, Won, IInv, WinnerInv
    <3> QED
      BY <1>7, <2>5, <3>1, <3>2 DEF AnnounceResolution, IInv, WinnerInv
  <2> QED
    BY <2>6, <2>7, <2>8, <2>9, <2>10 DEF IInv
<1> QED
  BY <1>2, <1>3, <1>4, <1>5, <1>6, <1>7 DEF ResolverStep

-----------------------------------------------------------------------------
\* The process starts, is refused or dies; a caller disconnects.
LEMMA ProcessSteps == ASSUME IInv, Boot \/ Crash \/ \E t \in Events : Cancel(t) PROVE IInv'
<1> USE EventsAssumption DEF Running, Ended, procVars, logVars
<1>1. CASE Boot
  <2>1. \A u \in Events : InChain(u)' <=> InChain(u)
    BY <1>1, SameChains DEF Boot
  <2>2. \A u \in Events : Written(u)' <=> Written(u)
    BY <1>1, <2>1 DEF Boot, Written
  <2>3. \A q \in Requests : Queued(q)' <=> Queued(q)
    BY <1>1 DEF Boot, Queued
  <2>4. TypeInv' /\ UpInv'
    BY <1>1 DEF Boot, IInv, TypeInv, UpInv
  <2>5. FreshInv' /\ EvidenceInv' /\ AuditInv'
    BY <1>1, <2>1, <2>2, <2>3 DEF Boot, IInv, FreshInv, EvidenceInv, AuditInv
  <2>6. QueueInv'
    BY <1>1, <2>3 DEF Boot, IInv, QueueInv, QueueOf
  <2>7. WinnerInv'
    <3>1. \A s \in Resolvers : Won(s)' => Won(s)
      BY <1>1, <2>2 DEF Boot, Won
    <3> QED
      BY <1>1, <3>1, WinnersKept DEF Boot, IInv
  <2> QED
    BY <2>4, <2>5, <2>6, <2>7 DEF IInv
<1>2. CASE Crash
  <2> DEFINE S == {t \in Events : pc[t] \in Running}
  <2>1. pc' = [t \in Events |-> IF t \in S THEN "gone" ELSE pc[t]]
    BY <1>2 DEF Crash
  <2>2. \A t \in Events : Statement(t) # {} => t \in S
    BY DEF Statement
  <2>3. wire \subseteq wire' /\ \A x \in wire' : x \in wire \/ \E t \in S : x \in Statement(t)
    BY <1>2, <2>2 DEF Crash
  <2>4. S \in SUBSET Events /\ \A t \in Events : pc[t] \in Running => t \in S
    OBVIOUS
  <2> HIDE DEF S
  <2> QED
    BY <1>2, <2>1, <2>3, <2>4, Stopping DEF Crash
<1>3. CASE \E t \in Events : Cancel(t)
  BY <1>3, OneStops DEF Cancel
<1> QED
  BY <1>1, <1>2, <1>3

\* A statement that nobody waits for executes.
LEMMA LateSteps == ASSUME IInv, LateStatement PROVE IInv'
<1> USE EventsAssumption, ResolverAssumption DEF Running, Ended, procVars, logVars
<1>0. PICK st \in wire :
        /\ \/ st[1] = "audit" /\ LateAudit(st[2])
           \/ st[1] = "receipt" /\ LateReceipt(st[2])
           \/ st[1] = "queue" /\ LateQueue(st[2])
           \/ st[1] = "update" /\ LateUpdate(st[2])
        /\ wire' = wire \ {st}
        /\ UNCHANGED <<procVars, pc, verdict, published>>
  BY DEF LateStatement
<1>1. \/ \E t \in Events : st = <<"audit", t>> /\ LateAudit(t)
      \/ \E t \in Events : st = <<"receipt", t>> /\ LateReceipt(t)
      \/ \E r \in Requests : st = <<"queue", r>> /\ LateQueue(r)
      \/ \E s \in Resolvers : st = <<"update", s>> /\ LateUpdate(s)
  BY <1>0 DEF IInv, TypeInv, WireTyped
<1>2. WireTyped(wire')
  BY <1>0 DEF IInv, TypeInv, WireTyped
\* The audit row or the receipt of t appears.
<1>3. ASSUME NEW t \in Events, NEW table \in {"audit", "receipt"}, st = <<table, t>>,
             chain' \in [Runs -> Seq(Events)],
             \A u \in Events : InChain(u)' <=> InChain(u) \/ (table = "receipt" /\ u = t),
             audit \subseteq audit', \A u \in audit' : u \in audit \/ (table = "audit" /\ u = t),
             UNCHANGED reviews
      PROVE  IInv'
  <2>1. \A u \in Events : Written(u)' => Written(u)
    BY <1>0, <1>3 DEF Written
  <2>2. \A q \in Requests : (<<"queue", q>> \in wire' <=> <<"queue", q>> \in wire) /\ (Queued(q)' <=> Queued(q))
    BY <1>0, <1>3 DEF Queued
  <2>3. TypeInv' /\ UpInv'
    BY <1>0, <1>2, <1>3 DEF IInv, TypeInv, UpInv
  <2>4. FreshInv' /\ EvidenceInv'
    BY <1>0, <1>3, <2>1, <2>2 DEF IInv, FreshInv, EvidenceInv
  <2>5. AuditInv'
    BY <1>0, <1>3, <2>2 DEF IInv, AuditInv
  <2>6. QueueInv'
    BY <1>0, <1>3, <2>2 DEF IInv, QueueInv, QueueOf
  <2>7. WinnerInv'
    <3>1. \A s \in Resolvers : Won(s)' => Won(s)
      BY <1>0, <2>1 DEF Won
    <3> QED
      BY <1>0, <1>3, <3>1, WinnersKept DEF IInv
  <2> QED
    BY <2>3, <2>4, <2>5, <2>6, <2>7 DEF IInv
<1>4. CASE \E t \in Events : st = <<"audit", t>> /\ LateAudit(t)
  <2>1. PICK t \in Events : st = <<"audit", t>> /\ LateAudit(t)
    BY <1>4
  <2>2. \A u \in Events : InChain(u)' <=> InChain(u)
    BY <2>1, SameChains DEF LateAudit
  <2> QED
    BY <1>3, <2>1, <2>2 DEF LateAudit, IInv, TypeInv
<1>5. CASE \E t \in Events : st = <<"receipt", t>> /\ LateReceipt(t)
  <2>1. PICK t \in Events : st = <<"receipt", t>> /\ LateReceipt(t)
    BY <1>5
  <2>2. \A u \in Events : InChain(u)' <=> InChain(u) \/ u = t
    BY <2>1, AppendInChain DEF LateReceipt, IInv
  <2>3. chain' \in [Runs -> Seq(Events)]
    BY <2>1, RunAssumption DEF LateReceipt, LogAppend, IInv, TypeInv
  <2> QED
    BY <1>3, <2>1, <2>2, <2>3 DEF LateReceipt
\* The row of r enters the queue or changes from pending to a resolution.
<1>6. ASSUME NEW r \in Requests, NEW status \in {"pending", "approved", "rejected"},
             reviews' = [reviews EXCEPT ![r] = status], UNCHANGED <<logVars, audit>>,
             \/ st = <<"queue", r>> /\ status = "pending"
             \/ st[1] = "update" /\ reviews[r] = "pending" /\ status # "pending"
      PROVE  IInv'
  <2>1. \A u \in Events : InChain(u)' <=> InChain(u)
    BY <1>6, SameChains
  <2>2. \A q \in Requests : reviews'[q] = IF q = r THEN status ELSE reviews[q]
    BY <1>6 DEF IInv, TypeInv
  <2>3. \A u \in Events : Written(u)' <=> Written(u)
    BY <1>0, <1>6, <2>1 DEF Written
  <2>4. \A q \in Requests : <<"queue", q>> \in wire' <=> <<"queue", q>> \in wire /\ st # <<"queue", q>>
    BY <1>0
  <2>5. \A q \in Requests : Queued(q)' <=> Queued(q)
    BY <1>0, <1>6, <2>2, <2>4 DEF Queued
  <2>6. st = <<"queue", r>> => reviews[r] = "none" /\ pc[r] \in Ended \ {"ok"} /\ verdict[r] = "review"
    BY <1>0 DEF IInv, QueueInv, QueueOf, Queued
  <2>7. reviews[r] \notin {"approved", "rejected"}
    BY <1>6, <2>6
  <2>8. TypeInv' /\ UpInv'
    BY <1>0, <1>2, <1>6 DEF IInv, TypeInv, UpInv, Statuses
  <2>9. FreshInv' /\ EvidenceInv' /\ AuditInv'
    BY <1>0, <1>6, <2>1, <2>3, <2>5 DEF IInv, FreshInv, EvidenceInv, AuditInv
  <2>10. QueueInv'
    <3>1. QueueOf(r)'
      <4>1. <<"queue", r>> \notin wire'
        BY <1>6, <2>4 DEF IInv, QueueInv, QueueOf
      <4> QED
        BY <1>0, <1>6, <2>2, <2>5, <2>6, <4>1 DEF IInv, QueueInv, QueueOf
    <3>2. ASSUME NEW q \in Requests, q # r PROVE QueueOf(q)'
      BY <1>0, <2>2, <2>4, <2>5, <3>2 DEF IInv, QueueInv, QueueOf
    <3> QED
      BY <3>1, <3>2 DEF QueueInv
  <2>11. WinnerInv'
    <3>1. \A s \in Resolvers : Won(s)' <=> Won(s)
      BY <1>0, <2>3 DEF Won
    <3>2. \A s \in Resolvers : Won(s) => TargetOf[s] # r
      BY <2>7 DEF IInv, WinnerInv
    <3>3. \A x \in {"approved", "rejected"} : <<"resolved", r, x>> \notin published
      BY <2>7 DEF IInv, WinnerInv
    <3> QED
      BY <1>0, <2>2, <3>1, <3>2, <3>3 DEF IInv, WinnerInv
  <2> QED
    BY <2>8, <2>9, <2>10, <2>11 DEF IInv
<1>7. CASE \E r \in Requests : st = <<"queue", r>> /\ LateQueue(r)
  BY <1>6, <1>7 DEF LateQueue
<1>8. CASE \E s \in Resolvers : st = <<"update", s>> /\ LateUpdate(s)
  <2>1. PICK s \in Resolvers : st = <<"update", s>> /\ LateUpdate(s)
    BY <1>8
  <2>2. CASE HitsRow(s)
    <3>1. /\ TargetOf[s] \in Requests /\ StatusOf[s] \in {"approved", "rejected"}
          /\ reviews' = [reviews EXCEPT ![TargetOf[s]] = StatusOf[s]] /\ UNCHANGED <<logVars, audit>>
          /\ st[1] = "update" /\ reviews[TargetOf[s]] = "pending"
      BY <2>1, <2>2 DEF LateUpdate, HitsRow, SetStatus
    <3> QED
      BY <1>6, <3>1
  <2>3. CASE ~HitsRow(s)
    <3>1. UNCHANGED <<logVars, audit, reviews>>
      BY <2>1, <2>3 DEF LateUpdate
    <3>2. \A u \in Events : InChain(u)' <=> InChain(u)
      BY <3>1, SameChains
    <3>3. \A u \in Events : Written(u)' <=> Written(u)
      BY <1>0, <2>1, <3>1, <3>2 DEF Written
    <3>4. \A q \in Requests : (<<"queue", q>> \in wire' <=> <<"queue", q>> \in wire) /\ (Queued(q)' <=> Queued(q))
      BY <1>0, <2>1, <3>1 DEF Queued
    <3>5. \A u \in Events : <<"receipt", u>> \in wire' <=> <<"receipt", u>> \in wire
      BY <1>0, <2>1
    <3>6. TypeInv' /\ UpInv'
      BY <1>0, <1>2, <3>1 DEF IInv, TypeInv, UpInv
    <3>7. FreshInv' /\ EvidenceInv' /\ AuditInv'
      BY <1>0, <3>1, <3>2, <3>3, <3>4, <3>5 DEF IInv, FreshInv, EvidenceInv, AuditInv
    <3>8. QueueInv'
      BY <1>0, <3>1, <3>4 DEF IInv, QueueInv, QueueOf
    <3>9. WinnerInv'
      <4>1. \A u \in Resolvers : Won(u)' => Won(u)
        BY <1>0, <3>3 DEF Won
      <4> QED
        BY <1>0, <3>1, <4>1, WinnersKept DEF IInv
    <3> QED
      BY <3>6, <3>7, <3>8, <3>9 DEF IInv
  <2> QED
    BY <2>2, <2>3
<1> QED
  BY <1>1, <1>4, <1>5, <1>7, <1>8

\* Every step keeps the inductive invariant.
LEMMA Inductive == IInv /\ [Next]_vars => IInv'
<1> SUFFICES ASSUME IInv, [Next]_vars PROVE IInv'
  OBVIOUS
<1>1. CASE Boot \/ Crash \/ \E t \in Events : Cancel(t)
  BY <1>1, ProcessSteps
<1>2. CASE \E r \in Requests : RefuseRequest(r) \/ Decide(r) \/ RequestStep(r)
  BY <1>2, RequestSteps
<1>3. CASE \E s \in Resolvers : Resolve(s) \/ ResolverStep(s)
  BY <1>3, ResolverSteps
<1>4. CASE LateStatement
  BY <1>4, LateSteps
<1>5. CASE UNCHANGED vars
  <2>1. \A u \in Events : InChain(u)' <=> InChain(u)
    BY <1>5, SameChains DEF vars, logVars
  <2>2. \A u \in Events : Written(u)' <=> Written(u)
    BY <1>5, <2>1 DEF vars, Written
  <2>3. \A q \in Requests : Queued(q)' <=> Queued(q)
    BY <1>5 DEF vars, Queued
  <2>4. TypeInv' /\ UpInv'
    BY <1>5 DEF vars, logVars, procVars, IInv, TypeInv, UpInv, WireTyped
  <2>5. FreshInv' /\ EvidenceInv' /\ AuditInv'
    BY <1>5, <2>1, <2>2, <2>3, EventsAssumption DEF vars, logVars, procVars, IInv, FreshInv,
       EvidenceInv, AuditInv
  <2>6. QueueInv'
    BY <1>5, <2>3 DEF vars, IInv, QueueInv, QueueOf
  <2>7. WinnerInv'
    <3>1. \A s \in Resolvers : Won(s)' => Won(s)
      BY <1>5, <2>2, EventsAssumption DEF vars, Won
    <3> QED
      BY <1>5, <3>1, WinnersKept DEF vars, IInv
  <2> QED
    BY <2>4, <2>5, <2>6, <2>7 DEF IInv
<1> QED
  BY <1>1, <1>2, <1>3, <1>4, <1>5 DEF Next

-----------------------------------------------------------------------------
\* Every reachable state of the write path satisfies the inductive invariant:
\* phases, rows, statements on the wire and events agree, whatever crashed.
THEOREM Invariance == Spec => []IInv
BY InitInv, Inductive, PTL DEF Spec

\* With fail-closed receipts no verdict, no ActionGoverned event and no review
\* gets out of execute_pipeline without its signed receipt, for any number of
\* requests, resolutions, failed statements and restarts.
THEOREM FailClosedEvidenceTheorem == Spec => []FailClosedEvidence
<1>1. IInv => FailClosedEvidence
  BY DEF IInv, EvidenceInv, FailClosedEvidence, Queued
<1> QED
  BY <1>1, Invariance, PTL

\* Nothing of a request is visible before its audit row, the rate-limit Block
\* excepted.
THEOREM AuditFirstTheorem == Spec => []AuditFirst
<1>1. IInv => AuditFirst
  BY DEF IInv, AuditInv, AuditFirst, Queued
<1> QED
  BY <1>1, Invariance, PTL

\* A caller told "review" has an announced entry in the queue, and only a
\* Review has one.
THEOREM ReviewIsQueuedTheorem == Spec => []ReviewIsQueued
<1>1. IInv => ReviewIsQueued
  BY DEF IInv, QueueInv, QueueOf, ReviewIsQueued, Queued
<1> QED
  BY <1>1, Invariance, PTL

\* At most one of any number of concurrent resolutions of a review gets past
\* update_status, and row, trail, chain and bus agree on what it decided.
THEOREM OneAdjudicationTheorem == Spec => []OneAdjudication
<1>1. ASSUME IInv PROVE OneAdjudication
  <2> SUFFICES ASSUME NEW r \in Requests
      PROVE  LET W == {s \in Resolvers : /\ TargetOf[s] = r
                                         /\ \/ pc[s] \in (Running \cup {"ok"}) \ {"update"}
                                            \/ s \in audit \/ InChain(s)}
             IN  /\ Cardinality(W) <= 1
                 /\ \A s \in W : reviews[r] = StatusOf[s]
                 /\ \A st \in {"approved", "rejected"} :
                        <<"resolved", r, st>> \in published => reviews[r] = st
    BY DEF OneAdjudication
  <2> DEFINE W == {s \in Resolvers : /\ TargetOf[s] = r
                                     /\ \/ pc[s] \in (Running \cup {"ok"}) \ {"update"}
                                        \/ s \in audit \/ InChain(s)}
  <2>1. \A s \in W : s \in Resolvers /\ TargetOf[s] = r /\ Won(s)
    BY <1>1, EventsAssumption DEF IInv, TypeInv, ResolverPhases, Running, Ended, Won, Written
  <2>2. \A s, u \in W : s = u
    BY <1>1, <2>1 DEF IInv, WinnerInv
  <2> HIDE DEF W
  <2>3. Cardinality(W) <= 1
    <3>1. CASE W = {}
      BY <3>1, FS_EmptySet
    <3>2. CASE W # {}
      <4>1. PICK s : W = {s}
        BY <2>2, <3>2
      <4> QED
        BY <4>1, FS_Singleton
    <3> QED
      BY <3>1, <3>2
  <2>4. \A s \in W : reviews[r] = StatusOf[s]
    BY <1>1, <2>1 DEF IInv, WinnerInv
  <2>5. \A st \in {"approved", "rejected"} : <<"resolved", r, st>> \in published => reviews[r] = st
    BY <1>1 DEF IInv, WinnerInv
  <2> QED
    BY <2>3, <2>4, <2>5 DEF W
<1> QED
  BY <1>1, Invariance, PTL

\* "a resolution is final": no step of any handler, and no statement that
\* executes late, changes a resolved row or takes an entry out of the queue.
THEOREM ResolutionFinalTheorem == Spec => ResolutionFinal
<1> DEFINE Final == \A r \in Requests :
                      /\ reviews[r] \in {"approved", "rejected"} => reviews'[r] = reviews[r]
                      /\ reviews[r] # "none" => reviews'[r] # "none"
<1>1. ASSUME IInv, [Next]_vars PROVE [Final]_vars
  <2> SUFFICES ASSUME Next PROVE Final
    BY <1>1
  <2>1. CASE UNCHANGED reviews
    BY <2>1
  <2>2. ASSUME NEW r \in Requests, NEW status, status # "none",
               reviews' = [reviews EXCEPT ![r] = status], reviews[r] \in {"none", "pending"}
        PROVE  Final
    BY <1>1, <2>2 DEF IInv, TypeInv
  <2>3. CASE \E r \in Requests : QueueReview(r)
    <3>1. PICK r \in Requests : QueueReview(r)
      BY <2>3
    <3>2. reviews[r] = "none"
      BY <1>1, <3>1 DEF QueueReview, IInv, QueueInv, QueueOf, Queued
    <3> QED
      BY <2>2, <3>1, <3>2 DEF QueueReview
  <2>4. CASE \E s \in Resolvers : UpdateStatus(s)
    BY <2>2, <2>4, ResolverAssumption DEF UpdateStatus, HitsRow, SetStatus
  <2>5. CASE LateStatement
    <3>1. PICK st \in wire : \/ UNCHANGED reviews
                             \/ st[1] = "queue" /\ LateQueue(st[2])
                             \/ st[1] = "update" /\ LateUpdate(st[2])
      BY <2>5 DEF LateStatement, LateAudit, LateReceipt
    <3>2. CASE st[1] = "queue" /\ LateQueue(st[2])
      <4>1. PICK r \in Requests : st = <<"queue", r>>
        BY <1>1, <3>2 DEF IInv, TypeInv, WireTyped
      <4>2. reviews[r] = "none"
        BY <1>1, <4>1 DEF IInv, QueueInv, QueueOf
      <4> QED
        BY <2>2, <3>2, <4>1, <4>2 DEF LateQueue
    <3>3. CASE st[1] = "update" /\ LateUpdate(st[2])
      <4>1. PICK s \in Resolvers : st = <<"update", s>>
        BY <1>1, <3>3 DEF IInv, TypeInv, WireTyped
      <4> QED
        BY <2>1, <2>2, <3>3, <4>1, ResolverAssumption DEF LateUpdate, HitsRow, SetStatus
    <3> QED
      BY <2>1, <3>1, <3>2, <3>3
  <2> QED
    BY <2>1, <2>3, <2>4, <2>5 DEF Next, Boot, Crash, Cancel, RefuseRequest, Decide, RequestStep,
       WriteStep, AuditOk, AuditError, NoLogger, ReceiptCommits, ReceiptSigned, ReceiptDropped,
       QueueError, AnnounceReview, Reply, Resolve, ResolverStep, RefuseResolution, UpdateError,
       GetReview, GetReviewFails, AnnounceResolution
<1>2. Spec => [][Final]_vars
  BY <1>1, Invariance, PTL DEF Spec
<1> QED
  BY <1>2 DEF ResolutionFinal

-----------------------------------------------------------------------------
(* The log that Governance writes through, and that ReceiptChain implements. *)

\* An event is in the chain of its own run, once; what was acknowledged is there.
LogKept ==
    /\ chain \in [Runs -> Seq(Events)]
    /\ \A run \in Runs : \A i, j \in 1..Len(chain[run]) :
         /\ RunOf[chain[run][i]] = run
         /\ chain[run][i] = chain[run][j] => i = j
    /\ \A e \in acked : e \in Events /\ InChain(e)

\* No step removes or changes a receipt or takes an acknowledgement back.
OnlyGrows ==
    /\ \A run \in Runs : /\ Len(chain[run]) <= Len(chain'[run])
                         /\ \A i \in 1..Len(chain[run]) : chain'[run][i] = chain[run][i]
    /\ acked \subseteq acked'

\* What LogAppend does to the chain of each run.
LEMMA AppendShape ==
    ASSUME LogKept, NEW e \in Events, LogAppend(e), NEW run \in Runs
    PROVE  /\ chain' \in [Runs -> Seq(Events)]
           /\ RunOf[e] \in Runs
           /\ Len(chain[run]) \in Nat
           /\ \A i \in 1..Len(chain[run]) : chain'[run][i] = chain[run][i]
           /\ run # RunOf[e] => Len(chain'[run]) = Len(chain[run])
           /\ run = RunOf[e] => /\ Len(chain'[run]) = Len(chain[run]) + 1
                                /\ chain'[run][Len(chain[run]) + 1] = e
                                /\ \A i \in 1..Len(chain[run]) : chain[run][i] # e
<1>1. RunOf[e] \in Runs
  BY RunAssumption
<1>2. PICK c : c = chain[RunOf[e]]
  OBVIOUS
<1>3. c \in Seq(Events) /\ \A i \in 1..Len(c) : c[i] # e
  BY <1>1, <1>2 DEF LogKept, LogAppend, InChain
<1>4. PICK d : d = Append(c, e)
  OBVIOUS
<1>5. /\ d \in Seq(Events) /\ Len(d) = Len(c) + 1 /\ d[Len(c) + 1] = e
      /\ \A i \in 1..Len(c) : d[i] = c[i]
  BY <1>3, <1>4
<1>6. chain' = [chain EXCEPT ![RunOf[e]] = d] /\ chain \in [Runs -> Seq(Events)]
  BY <1>2, <1>4 DEF LogAppend, LogKept
<1>7. chain'[run] = IF run = RunOf[e] THEN d ELSE chain[run]
  BY <1>1, <1>6
<1>8. Len(chain[run]) \in Nat
  BY <1>6
<1> QED
  BY <1>1, <1>2, <1>3, <1>5, <1>6, <1>7, <1>8

\* Every step of the log keeps its promise and only adds.
LEMMA LogStep ==
    ASSUME LogKept, [LogNext]_logVars
    PROVE  LogKept' /\ OnlyGrows
<1>1. ASSUME NEW e \in Events, LogAppend(e) PROVE LogKept' /\ OnlyGrows
  <2>1. RunOf[e] \in Runs
    BY RunAssumption
  <2>2. chain' \in [Runs -> Seq(Events)]
    BY <1>1, <2>1, AppendShape
  <2>3. ASSUME NEW run \in Runs, NEW i \in 1..Len(chain'[run]), NEW j \in 1..Len(chain'[run])
        PROVE  /\ RunOf[chain'[run][i]] = run
               /\ chain'[run][i] = chain'[run][j] => i = j
    <3>1. CASE run = RunOf[e]
      <4>0. PICK n : n = Len(chain[run])
        OBVIOUS
      <4>1. /\ n \in Nat /\ Len(chain'[run]) = n + 1
            /\ chain'[run][n + 1] = e
            /\ \A x \in 1..n : chain'[run][x] = chain[run][x] /\ chain[run][x] # e
        BY <1>1, <3>1, <4>0, AppendShape
      <4>2. i \in 1..n \/ i = n + 1
        BY <2>3, <4>1
      <4>3. j \in 1..n \/ j = n + 1
        BY <2>3, <4>1
      <4> QED
        BY <3>1, <4>0, <4>1, <4>2, <4>3 DEF LogKept
    <3>2. CASE run # RunOf[e]
      BY <1>1, <2>3, <3>2, AppendShape DEF LogKept
    <3> QED
      BY <3>1, <3>2
  <2>4. OnlyGrows
    <3>1. ASSUME NEW run \in Runs
          PROVE  /\ Len(chain[run]) <= Len(chain'[run])
                 /\ \A i \in 1..Len(chain[run]) : chain'[run][i] = chain[run][i]
      BY <1>1, AppendShape
    <3> QED
      BY <1>1, <3>1 DEF OnlyGrows, LogAppend
  <2>5. \A x \in acked' : x \in Events /\ InChain(x)'
    <3> SUFFICES ASSUME NEW x \in acked' PROVE x \in Events /\ InChain(x)'
      OBVIOUS
    <3>1. x \in acked /\ x \in Events /\ InChain(x) /\ RunOf[x] \in Runs
      BY <1>1, RunAssumption DEF LogAppend, LogKept
    <3>2. PICK i \in 1..Len(chain[RunOf[x]]) : chain[RunOf[x]][i] = x
      BY <3>1 DEF InChain
    <3>3. i \in 1..Len(chain'[RunOf[x]]) /\ chain'[RunOf[x]][i] = x
      <4>1. PICK n \in Nat : n = Len(chain[RunOf[x]])
        BY <3>1 DEF LogKept
      <4>2. Len(chain'[RunOf[x]]) \in Nat
        BY <2>2, <3>1
      <4> QED
        BY <2>4, <3>1, <3>2, <4>1, <4>2 DEF OnlyGrows
    <3> QED
      BY <3>1, <3>3 DEF InChain
  <2> QED
    BY <2>2, <2>3, <2>4, <2>5 DEF LogKept
<1>2. ASSUME NEW e \in Events, LogAck(e) PROVE LogKept' /\ OnlyGrows
  <2>1. LogKept'
    BY <1>2 DEF LogKept, LogAck, InChain
  <2>2. \A run \in Runs : Len(chain[run]) <= Len(chain[run])
    BY DEF LogKept
  <2> QED
    BY <1>2, <2>1, <2>2 DEF OnlyGrows, LogAck
<1>3. CASE UNCHANGED logVars
  <2>1. LogKept'
    BY <1>3 DEF LogKept, logVars, InChain
  <2>2. \A run \in Runs : Len(chain[run]) <= Len(chain[run])
    BY DEF LogKept
  <2> QED
    BY <1>3, <2>1, <2>2 DEF OnlyGrows, logVars
<1> QED
  BY <1>1, <1>2, <1>3 DEF LogNext

\* The abstract log is what its callers rely on: an event is in the chain of its
\* own run, at most once; an acknowledged one is there; nothing ever leaves.
THEOREM LogKeepsItsPromise == LogSpec => []LogKept /\ [][OnlyGrows]_logVars
<1>1. LogInit => LogKept
  BY DEF LogInit, LogKept
<1>2. LogKept /\ [LogNext]_logVars => LogKept' /\ [OnlyGrows]_logVars
  BY LogStep
<1> QED
  BY <1>1, <1>2, PTL DEF LogSpec

\* execute_pipeline, the review handler, a disconnect, a crash and a statement
\* that executes late touch the chain only as steps of the log.
THEOREM GovernanceUsesTheLog == Spec => LogSpec
<1>1. Init => LogInit
  BY DEF Init
<1>2. ASSUME IInv, [Next]_vars PROVE [LogNext]_logVars
  <2>1. CASE UNCHANGED logVars
    BY <2>1
  <2>2. ASSUME NEW t \in Events, LogAppend(t) \/ LogAck(t) PROVE LogNext
    BY <2>2 DEF LogNext
  <2>3. CASE LateStatement
    <3>1. PICK st \in wire : UNCHANGED logVars \/ (st[1] = "receipt" /\ LogAppend(st[2]))
      BY <2>3 DEF LateStatement, LateAudit, LateReceipt, LateQueue, LateUpdate
    <3>2. st[1] = "receipt" => st[2] \in Events
      BY <1>2 DEF IInv, TypeInv, WireTyped
    <3> QED
      BY <2>1, <2>2, <3>1, <3>2
  <2>4. ASSUME NEW t \in Events, WriteStep(t) PROVE [LogNext]_logVars
    BY <2>1, <2>2, <2>4 DEF WriteStep, AuditOk, AuditError, NoLogger, ReceiptCommits,
       ReceiptSigned, ReceiptDropped
  <2>5. Requests \subseteq Events /\ Resolvers \subseteq Events
    BY EventsAssumption
  <2>6. CASE \E r \in Requests : RefuseRequest(r) \/ Decide(r) \/ RequestStep(r)
    BY <2>1, <2>4, <2>5, <2>6 DEF RefuseRequest, Decide, RequestStep, QueueReview, QueueError,
       AnnounceReview, Reply
  <2>7. CASE \E s \in Resolvers : Resolve(s) \/ ResolverStep(s)
    BY <2>1, <2>4, <2>5, <2>7 DEF Resolve, ResolverStep, UpdateStatus, RefuseResolution,
       UpdateError, GetReview, GetReviewFails, AnnounceResolution
  <2>8. CASE UNCHANGED vars
    BY <2>1, <2>8 DEF vars
  <2> QED
    BY <1>2, <2>1, <2>3, <2>6, <2>7, <2>8 DEF Next, Boot, Crash, Cancel
<1> QED
  BY <1>1, <1>2, Invariance, PTL DEF Spec, LogSpec

\* So the evidence behind every verdict is one of a kind: in whatever state the
\* process restarted, a request or a resolution has at most one receipt, in the
\* chain of its own run, and it is never rewritten.
THEOREM EvidenceIsPermanent == Spec => []LogKept /\ [][OnlyGrows]_logVars
BY LogKeepsItsPromise, GovernanceUsesTheLog, PTL
=============================================================================
