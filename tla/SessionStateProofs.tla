------------------------- MODULE SessionStateProofs -------------------------
(***************************************************************************)
(* Safety of SessionState for any number of sessions, tasks, calls and     *)
(* restarts.  A graph may be in three places, the map, the table and a     *)
(* write that has not ended, and goes from each to the others, so IInv     *)
(* says the same of all of them.  Of the labels it says what the four      *)
(* critical sections hand on to each other: what was owed when a call      *)
(* began is among the labels it inherited.                                 *)
(***************************************************************************)
EXTENDS SessionState, TLAPS

-----------------------------------------------------------------------------
(* The inductive invariant.                                                *)

States == {"Idle", "Reading", "Processing", "Writing", "NetworkEgress", "Blocked"}
Phases == {"idle", "graph", "snapshot", "taint", "passed", "blocked"}
Nodes == [action : Actions, taints : SUBSET Labels]
Graphs == [nodes : Seq(Nodes), state : States, blocked : BOOLEAN, cooled : BOOLEAN, strikes : Nat]
CallRecords == [session : Sessions, input : Calls, inherited : SUBSET Labels,
                owed : SUBSET Labels, allowed : BOOLEAN]

\* What is true of a graph wherever it is.
Sound(g) ==
    /\ g \in Graphs
    /\ g.blocked <=> g.state = "Blocked"
    /\ g.strikes <= highest
    /\ g.strikes = highest => g.blocked
    /\ g.blocked => g.strikes > 0

GraphWrite(p) == DOMAIN p = {"session", "graph"} /\ p.session \in Sessions /\ Sound(p.graph)
LabelWrite(p) == DOMAIN p = {"session", "labels"} /\ p.session \in Sessions /\ p.labels \in SUBSET Labels

TypeInv ==
    /\ maxBlockCount \in Nat /\ highest \in Nat \ {0} /\ maxBlockCount <= highest
    /\ DOMAIN dag = Sessions /\ DOMAIN dbDag = Sessions
    /\ taints \in [Sessions -> SUBSET Labels]
    /\ dbTaint \in [Sessions -> SUBSET Labels]
    /\ owed \in [Sessions -> SUBSET Labels]
    /\ pc \in [Workers -> Phases]
    /\ DOMAIN call = Workers
    /\ \A w \in Workers : pc[w] # "idle" => call[w] \in CallRecords
    /\ crashes \in Nat

GraphInv ==
    /\ \A s \in Sessions : dag[s] # NoDag => Sound(dag[s])
    /\ \A s \in Sessions : dbDag[s] # NoDag => Sound(dbDag[s])
    /\ \A p \in pending : GraphWrite(p) \/ LabelWrite(p)

TaintInv ==
    /\ \A s \in Sessions : owed[s] \subseteq taints[s]
    /\ \A w \in Workers : pc[w] # "idle" => call[w].owed \subseteq call[w].inherited
    /\ \A w \in Workers : pc[w] = "passed" => ~TaintBlocks(call[w].input, call[w].inherited)

IInv == TypeInv /\ GraphInv /\ TaintInv

-----------------------------------------------------------------------------
\* classify_source() gives labels.
LEMMA SourceType == ASSUME NEW in \in Calls PROVE SourceLabels(in) \in SUBSET Labels
<1>1. in.action \in Actions /\ in.secret \in BOOLEAN /\ in.internal \in BOOLEAN
  BY DEF Calls
<1> QED
  BY <1>1 DEF SourceLabels, Labels, Actions

\* An action never leads into Blocked.
LEMMA TargetType == ASSUME NEW a \in Actions PROVE Target(a) \in States \ {"Blocked"}
BY DEF Target, Actions, States

\* A new session's graph.
LEMMA NewDagSound == ASSUME highest \in Nat \ {0} PROVE Sound(NewDag)
<1>1. NewDag \in Graphs
  BY DEF NewDag, Graphs, States
<1> QED
  BY <1>1 DEF Sound, NewDag

\* A graph that is not blocked, and has a strike left, is sound after a call,
\* whatever the transition table and the signatures say of the call.
LEMMA EvaluateSound ==
    ASSUME highest \in Nat \ {0}, NEW g \in Graphs, ~g.blocked, g.state # "Blocked",
           g.strikes < highest, NEW in \in Calls, NEW inherited \in SUBSET Labels
    PROVE  Sound(Evaluate(g, in, inherited))
<1> DEFINE labels == inherited \cup IF g.nodes = <<>> THEN {} ELSE g.nodes[Len(g.nodes)].taints
           nodes == Append(g.nodes, [action |-> in.action, taints |-> labels])
           allowed == TransitionAllowed(g.state, in.action, labels)
           attacked == \E sig \in Attacks(nodes) : sig.severity = "critical"
           grown == [g EXCEPT !.nodes = nodes]
<1>1. in.action \in Actions
  BY DEF Calls
<1>2. nodes \in Seq(Nodes)
  <2>1. g.nodes \in Seq(Nodes)
    BY DEF Graphs
  <2>2. g.nodes # <<>> => g.nodes[Len(g.nodes)] \in Nodes
    BY <2>1
  <2>3. labels \in SUBSET Labels
    BY <2>2 DEF Nodes
  <2>4. [action |-> in.action, taints |-> labels] \in Nodes
    BY <1>1, <2>3 DEF Nodes
  <2> QED
    BY <2>1, <2>4
<1> HIDE DEF nodes, labels, allowed, attacked
<1>3. /\ grown \in Graphs /\ ~grown.blocked /\ grown.strikes = g.strikes
  BY <1>2 DEF Graphs
<1>4. Evaluate(g, in, inherited) = IF allowed /\ ~attacked THEN [grown EXCEPT !.state = Target(in.action)]
                                   ELSE Strike(grown, allowed, attacked)
  BY DEF Evaluate, nodes, labels, allowed, attacked
<1> HIDE DEF grown
<1>5. CASE allowed /\ ~attacked
  <2> DEFINE new == [grown EXCEPT !.state = Target(in.action)]
  <2>1. /\ new \in Graphs /\ ~new.blocked /\ new.strikes = g.strikes /\ new.state # "Blocked"
    BY <1>1, <1>3, TargetType DEF Graphs
  <2>2. Evaluate(g, in, inherited) = new
    BY <1>4, <1>5
  <2> HIDE DEF new
  <2>3. g.strikes \in Nat
    BY DEF Graphs
  <2> QED
    BY <2>1, <2>2, <2>3 DEF Sound
<1>6. CASE ~(allowed /\ ~attacked)
  <2> DEFINE new == Strike(grown, allowed, attacked)
  <2>1. g.strikes \in Nat /\ grown.strikes + 1 \in Nat
    BY <1>3 DEF Graphs
  <2>2. new = [grown EXCEPT !.blocked = TRUE, !.cooled = FALSE, !.state = "Blocked",
                            !.strikes = grown.strikes + 1]
    BY DEF Strike
  <2>3. /\ new \in Graphs /\ new.blocked /\ new.strikes = g.strikes + 1 /\ new.state = "Blocked"
    BY <1>3, <2>1, <2>2 DEF Graphs, States
  <2>4. Evaluate(g, in, inherited) = new
    BY <1>4, <1>6
  <2> HIDE DEF new
  <2> QED
    BY <2>1, <2>3, <2>4 DEF Sound
<1> QED
  BY <1>5, <1>6

\* add_tool_call_to_session() turns a sound graph into a sound graph.
LEMMA AddSound ==
    ASSUME highest \in Nat \ {0}, maxBlockCount \in Nat, maxBlockCount <= highest,
           NEW g, Sound(g), ~StillBlocked(g),
           NEW in \in Calls, NEW inherited \in SUBSET Labels
    PROVE  Sound(Evaluate(Recover(g), in, inherited))
<1>1. g \in Graphs /\ g.strikes \in Nat /\ g.strikes < highest
  BY DEF Sound, StillBlocked, Graphs
<1>2. /\ Recover(g) \in Graphs /\ ~Recover(g).blocked /\ Recover(g).state # "Blocked"
      /\ Recover(g).strikes = g.strikes
  <2>1. CASE g.blocked
    <3>1. Recover(g) = [g EXCEPT !.blocked = FALSE, !.state = "Processing"]
      BY <2>1 DEF Recover
    <3> QED
      BY <1>1, <3>1 DEF Graphs, States
  <2>2. CASE ~g.blocked
    BY <1>1, <2>2 DEF Recover, Sound
  <2> QED
    BY <2>1, <2>2
<1> QED
  BY <1>1, <1>2, EvaluateSound

\* The initial state.
LEMMA InitInv == Init => IInv
<1> SUFFICES ASSUME Init PROVE IInv
  OBVIOUS
<1>1. TypeInv
  BY BoundAssumption DEF Init, TypeInv, Phases
<1>2. GraphInv /\ TaintInv
  BY DEF Init, GraphInv, TaintInv
<1> QED
  BY <1>1, <1>2 DEF IInv


-----------------------------------------------------------------------------
\* The steps of a governed call.
LEMMA CallSteps ==
    ASSUME IInv, NEW w \in Workers,
           \/ GetSessionTaint(w) \/ AddToolCall(w) \/ SnapshotSession(w)
           \/ UpdateSessionTaint(w) \/ Finish(w)
    PROVE  IInv'
<1> USE DEF memVars, dbVars, limitVars
<1>0. /\ TypeInv /\ maxBlockCount \in Nat /\ highest \in Nat \ {0} /\ maxBlockCount <= highest
      /\ pc \in [Workers -> Phases] /\ DOMAIN call = Workers
      /\ UNCHANGED limitVars /\ UNCHANGED crashes
  BY DEF IInv, TypeInv, GetSessionTaint, AddToolCall, SnapshotSession, UpdateSessionTaint, Finish
<1>1. \A g : Sound(g)' <=> Sound(g)
  BY <1>0 DEF Sound
<1>2. \A p : (GraphWrite(p)' <=> GraphWrite(p)) /\ (LabelWrite(p)' <=> LabelWrite(p))
  BY <1>1 DEF GraphWrite, LabelWrite
<1>3. CASE GetSessionTaint(w)
  <2>1. PICK s \in Sessions, in \in Inputs :
          call' = [call EXCEPT ![w] = [session |-> s, input |-> in, inherited |-> taints[s],
                                       owed |-> owed[s], allowed |-> TRUE]]
    BY <1>3 DEF GetSessionTaint
  <2> DEFINE c == [session |-> s, input |-> in, inherited |-> taints[s],
                   owed |-> owed[s], allowed |-> TRUE]
  <2>2. c \in CallRecords /\ c.owed \subseteq c.inherited
    BY InputAssumption DEF IInv, TypeInv, TaintInv, CallRecords
  <2>3. DOMAIN call' = Workers /\ \A u \in Workers : call'[u] = IF u = w THEN c ELSE call[u]
    BY <1>0, <2>1
  <2>4. \A u \in Workers : pc'[u] = IF u = w THEN "graph" ELSE pc[u]
    BY <1>0, <1>3 DEF GetSessionTaint
  <2> HIDE DEF c
  <2>5. TypeInv'
    <3>1. pc' \in [Workers -> Phases]
      BY <1>0, <1>3 DEF GetSessionTaint, Phases
    <3> QED
      BY <1>0, <1>3, <2>2, <2>3, <2>4, <3>1 DEF GetSessionTaint, IInv, TypeInv
  <2>6. GraphInv'
    BY <1>1, <1>2, <1>3 DEF GetSessionTaint, IInv, GraphInv
  <2>7. TaintInv'
    BY <1>3, <2>2, <2>3, <2>4 DEF GetSessionTaint, IInv, TaintInv
  <2> QED
    BY <2>5, <2>6, <2>7 DEF IInv
<1>4. CASE AddToolCall(w)
  <2> DEFINE s == call[w].session
             old == IF dag[s] = NoDag THEN NewDag ELSE dag[s]
             new == IF StillBlocked(old) THEN old
                    ELSE Evaluate(Recover(old), call[w].input, call[w].inherited)
  <2>1. call[w] \in CallRecords
    BY <1>4 DEF AddToolCall, IInv, TypeInv
  <2>2. /\ s \in Sessions /\ call[w].input \in Calls /\ call[w].inherited \in SUBSET Labels
    BY <2>1 DEF CallRecords
  <2>3. Sound(old)
    BY <1>0, <2>2, NewDagSound DEF IInv, GraphInv
  <2>4. /\ dag' = [dag EXCEPT ![s] = new]
        /\ call' = [call EXCEPT ![w].allowed = ~new.blocked]
        /\ pc' = [pc EXCEPT ![w] = "snapshot"]
        /\ UNCHANGED <<taints, owed, dbVars, pending>>
    BY <1>4 DEF AddToolCall
  <2> HIDE DEF s, old
  <2>5. Sound(new)
    BY <1>0, <2>2, <2>3, AddSound
  <2>6. new.blocked \in BOOLEAN
    BY <2>5 DEF Sound, Graphs
  <2> HIDE DEF new
  <2>7. \A u \in Workers : u # w => call'[u] = call[u] /\ pc'[u] = pc[u]
    BY <1>0, <2>4
  <2>8. /\ pc'[w] = "snapshot" /\ call'[w] = [call[w] EXCEPT !.allowed = ~new.blocked]
        /\ DOMAIN call' = Workers
    BY <1>0, <2>4
  <2>9. call'[w] \in CallRecords /\ call'[w].owed = call[w].owed /\ call'[w].inherited = call[w].inherited
    BY <2>1, <2>6, <2>8 DEF CallRecords
  <2>10. TypeInv'
    <3>1. pc' \in [Workers -> Phases]
      BY <1>0, <2>4 DEF Phases
    <3> QED
      BY <1>0, <2>4, <2>7, <2>8, <2>9, <3>1 DEF IInv, TypeInv
  <2>11. GraphInv'
    <3>1. \A u \in Sessions : dag'[u] # NoDag => Sound(dag'[u])
      BY <2>4, <2>5 DEF IInv, TypeInv, GraphInv
    <3> QED
      BY <1>1, <1>2, <2>4, <3>1 DEF IInv, GraphInv
  <2>12. TaintInv'
    <3>1. pc[w] # "idle"
      BY <1>4 DEF AddToolCall
    <3> QED
      BY <2>4, <2>7, <2>8, <2>9, <3>1 DEF IInv, TaintInv
  <2> QED
    BY <2>10, <2>11, <2>12 DEF IInv
<1>5. CASE SnapshotSession(w)
  <2>1. \A u \in Workers : pc'[u] = IF u = w THEN "taint" ELSE pc[u]
    BY <1>0, <1>5 DEF SnapshotSession
  <2>2. TypeInv'
    <3>1. pc' \in [Workers -> Phases]
      BY <1>0, <1>5 DEF SnapshotSession, Phases
    <3> QED
      BY <1>0, <1>5, <2>1, <3>1 DEF SnapshotSession, IInv, TypeInv
  <2>3. \A p \in pending' : GraphWrite(p) \/ LabelWrite(p)
    <3> DEFINE s == call[w].session
               g == dag[s]
               new == [session |-> s, graph |-> g]
    <3>1. s \in Sessions
      BY <1>5 DEF SnapshotSession, IInv, TypeInv, CallRecords
    <3>2. g # NoDag => GraphWrite(new)
      BY <3>1 DEF IInv, GraphInv, GraphWrite
    <3>3. pending' = IF g = NoDag THEN pending ELSE pending \cup {new}
      BY <1>5 DEF SnapshotSession
    <3> HIDE DEF new, g
    <3> QED
      BY <3>2, <3>3 DEF IInv, GraphInv
  <2>4. GraphInv'
    BY <1>1, <1>2, <1>5, <2>3 DEF SnapshotSession, IInv, GraphInv
  <2>5. TaintInv'
    BY <1>5, <2>1 DEF SnapshotSession, IInv, TaintInv
  <2> QED
    BY <2>2, <2>4, <2>5 DEF IInv
<1>6. CASE UpdateSessionTaint(w)
  <2> DEFINE s == call[w].session
             new == [session |-> s, labels |-> Accumulated(w)]
             next == IF call[w].allowed /\ ~TaintBlocks(call[w].input, call[w].inherited)
                       THEN "passed" ELSE "blocked"
  <2>1. call[w] \in CallRecords
    BY <1>6 DEF UpdateSessionTaint, IInv, TypeInv
  <2>2. s \in Sessions /\ call[w].input \in Calls /\ call[w].inherited \in SUBSET Labels
    BY <2>1 DEF CallRecords
  <2>3. SourceLabels(call[w].input) \in SUBSET Labels
    BY <2>2, SourceType
  <2>4. Accumulated(w) \in SUBSET Labels /\ SourceLabels(call[w].input) \subseteq Accumulated(w)
    BY <2>2, <2>3 DEF Accumulated
  <2>5. LabelWrite(new)
    BY <2>2, <2>4 DEF LabelWrite
  <2>6. /\ taints' = [taints EXCEPT ![s] = taints[s] \cup Accumulated(w)]
        /\ owed' = [owed EXCEPT ![s] = owed[s] \cup SourceLabels(call[w].input)]
        /\ pending' = pending \cup {new}
        /\ pc' = [pc EXCEPT ![w] = next]
        /\ UNCHANGED <<dag, dbVars, call>>
    BY <1>6 DEF UpdateSessionTaint, MergedTaint
  <2>7. next \in {"passed", "blocked"} /\ (next = "passed" => ~TaintBlocks(call[w].input, call[w].inherited))
    OBVIOUS
  <2> HIDE DEF s, new, next
  <2>8. \A u \in Workers : pc'[u] = IF u = w THEN next ELSE pc[u]
    BY <1>0, <2>6
  <2>9. TypeInv'
    <3>1. pc' \in [Workers -> Phases]
      BY <1>0, <2>6, <2>7 DEF Phases
    <3>2. taints' \in [Sessions -> SUBSET Labels] /\ owed' \in [Sessions -> SUBSET Labels]
      BY <2>2, <2>3, <2>4, <2>6 DEF IInv, TypeInv
    <3> QED
      BY <1>0, <2>1, <2>6, <2>8, <3>1, <3>2 DEF IInv, TypeInv
  <2>10. GraphInv'
    BY <1>1, <1>2, <2>5, <2>6 DEF IInv, GraphInv
  <2>11. TaintInv'
    <3>1. \A u \in Sessions : owed'[u] \subseteq taints'[u]
      BY <2>4, <2>6 DEF IInv, TypeInv, TaintInv
    <3>2. pc[w] # "idle"
      BY <1>6 DEF UpdateSessionTaint
    <3>3. \A u \in Workers : pc'[u] # "idle" => call[u].owed \subseteq call[u].inherited
      BY <2>8, <3>2 DEF IInv, TaintInv
    <3>4. \A u \in Workers : pc'[u] = "passed" => ~TaintBlocks(call[u].input, call[u].inherited)
      BY <2>7, <2>8 DEF IInv, TaintInv
    <3>5. call' = call
      BY <2>6
    <3> QED
      BY <3>1, <3>3, <3>4, <3>5 DEF TaintInv
  <2> QED
    BY <2>9, <2>10, <2>11 DEF IInv
<1>7. CASE Finish(w)
  <2>1. /\ \A u \in Workers : pc'[u] = IF u = w THEN "idle" ELSE pc[u]
        /\ \A u \in Workers : u # w => call'[u] = call[u]
        /\ DOMAIN call' = Workers
    BY <1>0, <1>7 DEF Finish
  <2>2. TypeInv'
    <3>1. pc' \in [Workers -> Phases]
      BY <1>0, <1>7 DEF Finish, Phases
    <3> QED
      BY <1>0, <1>7, <2>1, <3>1 DEF Finish, IInv, TypeInv
  <2>3. GraphInv'
    BY <1>1, <1>2, <1>7 DEF Finish, IInv, GraphInv
  <2>4. TaintInv'
    BY <1>7, <2>1 DEF Finish, IInv, TaintInv
  <2> QED
    BY <2>2, <2>3, <2>4 DEF IInv
<1> QED
  BY <1>3, <1>4, <1>5, <1>6, <1>7

-----------------------------------------------------------------------------
\* A spawned write ends, in the table or in the log.
LEMMA PersistSteps ==
    ASSUME IInv, NEW p \in pending, Persist(p) \/ PersistFails(p) PROVE IInv'
<1> USE DEF memVars, dbVars, limitVars
<1>0. UNCHANGED <<memVars, pc, call, calls, crashes, limitVars>> /\ pending' \subseteq pending
  BY DEF Persist, PersistFails
<1>1. \A g : Sound(g)' <=> Sound(g)
  BY <1>0 DEF Sound
<1>2. \A q : (GraphWrite(q)' <=> GraphWrite(q)) /\ (LabelWrite(q)' <=> LabelWrite(q))
  BY <1>1 DEF GraphWrite, LabelWrite
<1>3. GraphWrite(p) \/ LabelWrite(p)
  BY DEF IInv, GraphInv
<1>4. /\ DOMAIN dbDag' = Sessions /\ dbTaint' \in [Sessions -> SUBSET Labels]
      /\ \A s \in Sessions : dbDag'[s] # NoDag => Sound(dbDag'[s])
  <2>1. CASE PersistFails(p)
    BY <2>1 DEF PersistFails, IInv, TypeInv, GraphInv
  <2>2. CASE Persist(p) /\ GraphWrite(p)
    <3>1. dbDag' = [dbDag EXCEPT ![p.session] = p.graph] /\ dbTaint' = dbTaint
      BY <2>2 DEF Persist, GraphWrite
    <3> QED
      BY <2>2, <3>1 DEF GraphWrite, IInv, TypeInv, GraphInv
  <2>3. CASE Persist(p) /\ LabelWrite(p)
    <3>1. dbTaint' = [dbTaint EXCEPT ![p.session] = p.labels] /\ dbDag' = dbDag
      BY <2>3 DEF Persist, LabelWrite
    <3> QED
      BY <2>3, <3>1 DEF LabelWrite, IInv, TypeInv, GraphInv
  <2> QED
    BY <1>3, <2>1, <2>2, <2>3
<1>5. TypeInv'
  BY <1>0, <1>4 DEF IInv, TypeInv
<1>6. GraphInv'
  BY <1>0, <1>1, <1>2, <1>4 DEF IInv, GraphInv
<1>7. TaintInv'
  BY <1>0 DEF IInv, TaintInv
<1> QED
  BY <1>5, <1>6, <1>7 DEF IInv

\* Cooldowns, expiry, the cleanup task and a restart.
LEMMA TimeSteps ==
    ASSUME IInv,
           \/ \E s \in Sessions :
                CooldownElapses(s) \/ Age(s) \/ PruneTaint(s) \/ PruneSession(s) \/ PruneDb(s)
           \/ Restart
    PROVE  IInv'
<1> USE DEF memVars, dbVars, limitVars
<1>0. /\ pending' \subseteq pending
      /\ maxBlockCount' \in Nat /\ highest' \in Nat \ {0}
      /\ maxBlockCount' <= highest' /\ highest <= highest'
  <2>1. CASE Restart
    BY <2>1, BoundAssumption DEF Restart, IInv, TypeInv
  <2>2. CASE ~Restart
    <3>1. UNCHANGED limitVars /\ pending' = pending
      BY <2>2 DEF CooldownElapses, Age, PruneTaint, PruneSession, PruneDb
    <3> QED
      BY <3>1 DEF IInv, TypeInv
  <2> QED
    BY <2>1, <2>2
<1>1. ASSUME NEW g, Sound(g) PROVE Sound(g)'
  <2>1. g.strikes \in Nat /\ highest \in Nat
    BY <1>1 DEF Sound, Graphs, IInv, TypeInv
  <2> QED
    BY <1>0, <1>1, <2>1 DEF Sound
<1>2. \A q \in pending' : (GraphWrite(q) \/ LabelWrite(q))'
  BY <1>0, <1>1 DEF GraphWrite, LabelWrite, IInv, GraphInv
<1>3. CASE Restart
  <2>1. TypeInv'
    BY <1>0, <1>3 DEF Restart, IInv, TypeInv, Phases
  <2>2. GraphInv'
    BY <1>1, <1>2, <1>3 DEF Restart, IInv, GraphInv
  <2>3. TaintInv'
    BY <1>3 DEF Restart, TaintInv
  <2> QED
    BY <2>1, <2>2, <2>3 DEF IInv
<1>4. ASSUME NEW s \in Sessions, CooldownElapses(s) PROVE IInv'
  <2> DEFINE g == dag[s]
             new == [g EXCEPT !.cooled = TRUE]
  <2>1. Sound(g)
    BY <1>4 DEF CooldownElapses, IInv, GraphInv
  <2>2. /\ new \in Graphs /\ new.blocked = g.blocked /\ new.state = g.state /\ new.strikes = g.strikes
    BY <2>1 DEF Sound, Graphs
  <2>3. dag' = [dag EXCEPT ![s] = new]
    BY <1>4 DEF CooldownElapses
  <2> HIDE DEF new, g
  <2>4. Sound(new)
    BY <2>1, <2>2 DEF Sound
  <2>5. TypeInv'
    BY <1>4, <2>3 DEF CooldownElapses, IInv, TypeInv
  <2>6. GraphInv'
    BY <1>1, <1>2, <1>4, <2>3, <2>4 DEF CooldownElapses, IInv, TypeInv, GraphInv
  <2>7. TaintInv'
    BY <1>4 DEF CooldownElapses, IInv, TaintInv
  <2> QED
    BY <2>5, <2>6, <2>7 DEF IInv
<1>5. ASSUME NEW s \in Sessions, Age(s) \/ PruneTaint(s) \/ PruneSession(s) \/ PruneDb(s) PROVE IInv'
  <2>1. TypeInv'
    BY <1>5 DEF Age, PruneTaint, PruneSession, PruneDb, IInv, TypeInv
  <2>2. GraphInv'
    <3>1. /\ \A u \in Sessions : dag'[u] # NoDag => dag'[u] = dag[u]
          /\ \A u \in Sessions : dbDag'[u] # NoDag => dbDag'[u] = dbDag[u]
      BY <1>5 DEF Age, PruneTaint, PruneSession, PruneDb, IInv, TypeInv
    <3> QED
      BY <1>1, <1>2, <3>1 DEF IInv, GraphInv
  <2>3. TaintInv'
    <3>1. \A u \in Sessions : owed'[u] \subseteq taints'[u]
      BY <1>5 DEF Age, PruneTaint, PruneSession, PruneDb, IInv, TypeInv, TaintInv
    <3>2. pc' = pc /\ call' = call
      BY <1>5 DEF Age, PruneTaint, PruneSession, PruneDb
    <3> QED
      BY <3>1, <3>2 DEF IInv, TaintInv
  <2> QED
    BY <2>1, <2>2, <2>3 DEF IInv
<1> QED
  BY <1>3, <1>4, <1>5

\* Every step keeps the inductive invariant.
LEMMA Inductive == IInv /\ [Next]_vars => IInv'
<1> SUFFICES ASSUME IInv, [Next]_vars PROVE IInv'
  OBVIOUS
<1>1. CASE Next
  BY <1>1, CallSteps, PersistSteps, TimeSteps DEF Next
<1>2. CASE UNCHANGED vars
  <2> USE <1>2 DEF vars, memVars, dbVars, limitVars
  <2>1. \A g : Sound(g)' <=> Sound(g)
    BY DEF Sound
  <2>2. \A q : (GraphWrite(q)' <=> GraphWrite(q)) /\ (LabelWrite(q)' <=> LabelWrite(q))
    BY <2>1 DEF GraphWrite, LabelWrite
  <2>3. TypeInv'
    BY DEF IInv, TypeInv
  <2>4. GraphInv'
    BY <2>1, <2>2 DEF IInv, GraphInv
  <2>5. TaintInv'
    BY DEF IInv, TaintInv
  <2> QED
    BY <2>3, <2>4, <2>5 DEF IInv
<1> QED
  BY <1>1, <1>2

-----------------------------------------------------------------------------
\* Every reachable state of the session graphs, the taint labels and their
\* copies satisfies the inductive invariant.
THEOREM Invariance == Spec => []IInv
BY InitInv, Inductive, PTL DEF Spec

\* No interleaving of the critical sections of any number of calls lets a label
\* that a finished call brought in pass a sink that forbids it.
THEOREM TaintReachesSinkTheorem == Spec => []TaintReachesSink
<1>1. IInv => TaintReachesSink
  BY DEF IInv, TypeInv, TaintInv, TaintBlocks, TaintReachesSink
<1> QED
  BY <1>1, Invariance, PTL

\* Blocked flag, automaton and strike counter agree in every copy of a graph,
\* for every value of MAX_BLOCK_COUNT, 0 included, and however it changes from
\* process to process.
THEOREM StrikesConsistentTheorem == Spec => []StrikesConsistent
<1>1. IInv => StrikesConsistent
  <2> SUFFICES ASSUME IInv PROVE StrikesConsistent
    OBVIOUS
  <2>1. ASSUME NEW p \in pending, "graph" \in DOMAIN p PROVE Sound(p.graph)
    BY <2>1 DEF IInv, GraphInv, GraphWrite, LabelWrite
  <2>2. \A s \in Sessions : (dag[s] # NoDag => Sound(dag[s])) /\ (dbDag[s] # NoDag => Sound(dbDag[s]))
    BY DEF IInv, GraphInv
  <2> SUFFICES ASSUME NEW g \in {dag[s] : s \in Sessions} \cup {dbDag[s] : s \in Sessions}
                              \cup {p.graph : p \in {q \in pending : "graph" \in DOMAIN q}},
                      g # NoDag
               PROVE  Sound(g)
    BY DEF StrikesConsistent, Sound
  <2> QED
    BY <2>1, <2>2
<1> QED
  BY <1>1, Invariance, PTL

\* No step but expiry and a restart lets a call into a blocked session before
\* its cooldown is over, or ever once it is out of strikes.
THEOREM BlockHoldsTheorem == Spec => BlockHolds
<1> DEFINE Holds ==
      \A s \in Sessions :
          LET g == dag[s] IN
          /\ g # NoDag /\ dag'[s] # NoDag /\ crashes' = crashes
          /\ g.blocked /\ (~g.cooled \/ g.strikes >= maxBlockCount)
          => dag'[s].blocked /\ dag'[s].nodes = g.nodes /\ dag'[s].strikes = g.strikes
<1>1. ASSUME IInv, [Next]_vars PROVE [Holds]_vars
  <2> SUFFICES ASSUME Next, NEW s \in Sessions, dag[s] # NoDag, dag'[s] # NoDag, crashes' = crashes,
                      dag[s].blocked, ~dag[s].cooled \/ dag[s].strikes >= maxBlockCount
               PROVE  dag'[s].blocked /\ dag'[s].nodes = dag[s].nodes /\ dag'[s].strikes = dag[s].strikes
    BY <1>1
  <2>0. Sound(dag[s]) /\ DOMAIN dag = Sessions /\ crashes \in Nat /\ maxBlockCount \in Nat
    BY <1>1 DEF IInv, TypeInv, GraphInv
  <2>1. CASE dag'[s] = dag[s]
    BY <2>1
  <2>2. CASE \E w \in Workers : AddToolCall(w)
    <3>1. PICK w \in Workers : AddToolCall(w)
      BY <2>2
    <3>2. call[w].session = s => dag'[s] = dag[s]
      <4>1. dag[s].strikes \in Nat /\ StillBlocked(dag[s])
        BY <2>0 DEF Sound, Graphs, StillBlocked
      <4> QED
        BY <2>0, <3>1, <4>1 DEF AddToolCall
    <3>3. call[w].session # s => dag'[s] = dag[s]
      BY <2>0, <3>1 DEF AddToolCall
    <3> QED
      BY <2>1, <3>2, <3>3
  <2>3. CASE \E u \in Sessions : CooldownElapses(u)
    <3>1. PICK u \in Sessions : CooldownElapses(u)
      BY <2>3
    <3>2. CASE u = s
      <4>1. dag'[s] = [dag[s] EXCEPT !.cooled = TRUE]
        BY <2>0, <3>1, <3>2 DEF CooldownElapses
      <4> QED
        BY <2>0, <4>1 DEF Sound, Graphs
    <3>3. CASE u # s
      BY <2>0, <2>1, <3>1, <3>3 DEF CooldownElapses
    <3> QED
      BY <3>2, <3>3
  <2>4. CASE \E u \in Sessions : PruneSession(u)
    BY <2>0, <2>1, <2>4 DEF PruneSession
  <2>5. ~Restart
    BY <2>0 DEF Restart
  <2> QED
    BY <2>1, <2>2, <2>3, <2>4, <2>5 DEF Next, GetSessionTaint, SnapshotSession, UpdateSessionTaint,
       Finish, Persist, PersistFails, Age, PruneTaint, PruneDb, memVars
<1>2. Spec => [][Holds]_vars
  BY <1>1, Invariance, PTL DEF Spec
<1> QED
  BY <1>2 DEF BlockHolds
=============================================================================
