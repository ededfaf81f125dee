------------------------ MODULE PlacementStoreProofs ------------------------
(***************************************************************************)
(* The placement store, for any finite set of pods and all bounds.         *)
(***************************************************************************)
EXTENDS PlacementStore, FiniteSetTheorems, TLAPS

\* Type correctness.
LEMMA IdleType == IdleSaver \in SaverStates
BY DEF IdleSaver, SaverStates

LEMMA SaverTypes ==
  ASSUME NEW r \in SaverStates
  PROVE  /\ \A a \in {"idle", "read", "open", "written", "ended"}, B \in SUBSET Pods :
               /\ [r EXCEPT !.at = a] \in SaverStates
               /\ [r EXCEPT !.base = B] \in SaverStates
               /\ [r EXCEPT !.at = a, !.base = B] \in SaverStates
               /\ [r EXCEPT !.held = B] \in SaverStates
               /\ [r EXCEPT !.at = a, !.seen = B, !.held = B] \in SaverStates
         /\ \A d \in BOOLEAN : [r EXCEPT !.dirty = d] \in SaverStates
         /\ \A t \in {"tmp", "file", "gone"} : [r EXCEPT !.target = t] \in SaverStates
<1>1. \A a \in {"idle", "read", "open", "written", "ended"}, B \in SUBSET Pods :
        /\ [r EXCEPT !.at = a] \in SaverStates
        /\ [r EXCEPT !.base = B] \in SaverStates
  BY DEF SaverStates
<1>2. \A a \in {"idle", "read", "open", "written", "ended"}, B \in SUBSET Pods :
        /\ [r EXCEPT !.at = a, !.base = B] \in SaverStates
        /\ [r EXCEPT !.held = B] \in SaverStates
        /\ [r EXCEPT !.at = a, !.seen = B, !.held = B] \in SaverStates
  BY DEF SaverStates
<1>3. \A d \in BOOLEAN : [r EXCEPT !.dirty = d] \in SaverStates
  BY DEF SaverStates
<1>4. \A t \in {"tmp", "file", "gone"} : [r EXCEPT !.target = t] \in SaverStates
  BY DEF SaverStates
<1> QED BY <1>1, <1>2, <1>3, <1>4

LEMMA HoldingType == TypeOK => \A p \in Pods : Holding(p) \in [Savers -> SaverStates]
<1> SUFFICES ASSUME TypeOK, NEW p \in Pods, NEW s \in Savers
             PROVE  [saver[s] EXCEPT !.held = @ \union {p}] \in SaverStates
    BY DEF Holding, TypeOK
<1>1. saver[s] \in SaverStates /\ saver[s].held \union {p} \in SUBSET Pods
  BY DEF TypeOK, SaverStates
<1> QED BY <1>1, SaverTypes

LEMMA SnapType ==
  ASSUME NEW ps \in SUBSET Pods, NEW t \in Nat, NEW f \in Nat
  PROVE  IsContent(Saved([placements |-> ps, total |-> t, phantom |-> f]))
BY DEF IsContent, Saved, Snapshots

LEMMA PlainTypes == IsContent(Absent) /\ IsContent(Torn)
BY DEF IsContent

LEMMA OtherSaver == \A s \in Savers : Other(s) \in Savers /\ Other(s) # s /\ Savers = {s, Other(s)}
BY DEF Savers, Other

LEMMA ClosedType ==
  ASSUME TypeOK, NEW s \in Savers, NEW next \in SaverStates, Closed(s, next)
  PROVE  saver' \in [Savers -> SaverStates]
<1>1. saver[Other(s)] \in SaverStates /\ Other(s) \in Savers /\ Other(s) # s
  BY OtherSaver DEF TypeOK
<1> DEFINE d == saver[Other(s)].dirty \/ /\ saver[Other(s)].at = "open"
                                         /\ saver[Other(s)].target = saver[s].target
<1>2. d \in BOOLEAN
  BY <1>1 DEF SaverStates
<1>3. [saver[Other(s)] EXCEPT !.dirty = d] \in SaverStates
  BY <1>1, <1>2, SaverTypes
<1> QED BY <1>1, <1>3 DEF Closed, TypeOK

LEMMA DoneType == \A s \in Savers : Done(s) \in SaverStates
BY IdleType, SaverTypes DEF Done

LEMMA PutType ==
  ASSUME TypeOK, NEW s \in Savers, NEW c, IsContent(c), Put(s, c)
  PROVE  IsContent(tmp') /\ IsContent(file')
BY DEF TypeOK, Put

LEMMA BeginType ==
  ASSUME TypeOK, NEW s \in Savers, Begin(s)
  PROVE  saver' \in [Savers -> SaverStates]
<1>1. [IdleSaver EXCEPT !.at = "read", !.base = placements, !.total = total, !.phantom = phantom]
        \in SaverStates
  BY DEF IdleSaver, SaverStates, TypeOK
<1> QED BY <1>1 DEF Begin, TypeOK

LEMMA GoneType == TypeOK /\ Gone => /\ phase' \in [Pods -> Phases]
                                    /\ reserved' = {p \in Pods : phase'[p] = "reserved"}
                                    /\ saver' \in [Savers -> SaverStates]
                                    /\ placements' \in SUBSET Pods /\ total' \in Nat /\ phantom' \in Nat
                                    /\ resetting' \in BOOLEAN /\ stopSet' \in BOOLEAN
                                    /\ IsContent(tmp)' /\ IsContent(file)'
                                    /\ overlapped' \in BOOLEAN /\ durable' \in SUBSET Pods
<1> SUFFICES ASSUME TypeOK, Gone PROVE
        /\ phase' \in [Pods -> Phases]
        /\ reserved' = {p \in Pods : phase'[p] = "reserved"}
        /\ saver' \in [Savers -> SaverStates]
        /\ placements' \in SUBSET Pods /\ total' \in Nat /\ phantom' \in Nat
        /\ resetting' \in BOOLEAN /\ stopSet' \in BOOLEAN
        /\ IsContent(tmp)' /\ IsContent(file)'
        /\ overlapped' \in BOOLEAN /\ durable' \in SUBSET Pods
    OBVIOUS
<1>1. phase' \in [Pods -> Phases]
  BY DEF TypeOK, Gone, Disconnected, Phases
<1>2. \A p \in Pods : phase'[p] = "reserved" <=> phase[p] = "reserved"
  BY DEF TypeOK, Gone, Disconnected
<1>3. saver' \in [Savers -> SaverStates]
  BY IdleType DEF Gone
<1> QED BY <1>1, <1>2, <1>3 DEF TypeOK, Gone, diskVars, history, IsContent

LEMMA TypeStep == TypeOK /\ [Next]_vars => TypeOK'
<1> SUFFICES ASSUME TypeOK, [Next]_vars PROVE TypeOK'
    OBVIOUS
<1> USE StoreAssumption
<1> USE DEF TypeOK, pluginVars, servicerVars, bounds, diskVars, history, Sidecar
<1>1. ASSUME NEW p \in Pods, Reserve(p) PROVE TypeOK'
  BY <1>1 DEF Reserve, Phases, IsContent
<1>2. ASSUME NEW p \in Pods, PostBind(p) PROVE TypeOK'
  BY <1>2 DEF PostBind, Phases, IsContent
<1>3. ASSUME NEW p \in Pods, Unreserve(p) PROVE TypeOK'
  BY <1>3 DEF Unreserve, Phases, IsContent
<1>4. ASSUME NEW p \in Pods, Acked(p) PROVE TypeOK'
  BY <1>4 DEF Acked, Phases, IsContent
<1>5. ASSUME NEW p \in Pods, Commit(p) PROVE TypeOK'
  <2>1. saver' \in [Savers -> SaverStates]
    BY <1>5, HoldingType DEF Commit
  <2> QED BY <1>5, <2>1 DEF Commit, Phases, IsContent
<1>6. ASSUME NEW p \in Pods, Rollback(p) PROVE TypeOK'
  BY <1>6 DEF Rollback, Phases, IsContent
<1>7. CASE SchedulerRestarts
  <2>1. PICK done \in SUBSET reserved :
          phase' = [p \in Pods |-> IF p \in done THEN "lost"
                                   ELSE IF p \in reserved THEN "waiting" ELSE Disconnected[p]]
    BY <1>7 DEF SchedulerRestarts
  <2>2. \A p \in Pods : p \notin reserved => Disconnected[p] \in Phases \ {"reserved"}
    BY DEF Disconnected, Phases
  <2>3. phase' \in [Pods -> Phases] /\ \A p \in Pods : phase'[p] # "reserved"
    BY <2>1, <2>2 DEF Phases
  <2> QED BY <1>7, <2>3 DEF SchedulerRestarts, IsContent
<1>8. CASE ResetMap
  <2>1. saver' \in [Savers -> SaverStates]
    BY <1>8, SaverTypes DEF ResetMap
  <2> QED BY <1>8, <2>1 DEF ResetMap, IsContent
<1>9. CASE ResetCounters
  BY <1>9 DEF ResetCounters, IsContent
<1>10. CASE LoopSaves
  <2>1. saver' \in [Savers -> SaverStates]
    BY <1>10, BeginType DEF LoopSaves, Savers
  <2> QED BY <1>10, <2>1 DEF LoopSaves, Begin, IsContent
<1>11. CASE Signal
  <2>1. saver' \in [Savers -> SaverStates]
    BY <1>11, BeginType DEF Signal, Savers
  <2> QED BY <1>11, <2>1 DEF Signal, Begin, IsContent
<1>12. ASSUME NEW s \in Savers, Open(s) PROVE TypeOK'
  <2>1. saver' \in [Savers -> SaverStates]
    BY <1>12, SaverTypes DEF Open
  <2> QED BY <1>12, <2>1 DEF Open, IsContent
<1>13. ASSUME NEW s \in Savers, Flush(s) PROVE TypeOK'
  <2>1. [IdleSaver EXCEPT !.at = "written", !.base = saver[s].base] \in SaverStates
    BY DEF IdleSaver, SaverStates
  <2>2. saver' \in [Savers -> SaverStates]
    BY <1>13, <2>1, ClosedType DEF Flush
  <2>3. saver[s] \in SaverStates
    OBVIOUS
  <2>4. PICK ps \in Dumped(s) :
          \/ Put(s, Saved([placements |-> ps, total |-> saver[s].total, phantom |-> saver[s].phantom]))
          \/ Put(s, Torn)
    BY <1>13 DEF Flush
  <2>7. ps \in SUBSET Pods
    BY <2>3 DEF Dumped, SaverStates
  <2>5. IsContent(Saved([placements |-> ps, total |-> saver[s].total, phantom |-> saver[s].phantom]))
    BY <2>3, <2>7, SnapType DEF SaverStates
  <2>6. IsContent(tmp') /\ IsContent(file')
    BY <2>4, <2>5, PutType, PlainTypes
  <2> QED BY <1>13, <2>2, <2>6 DEF Flush, IsContent
<1>a. ASSUME NEW s \in Savers, GivesUp(s)
      PROVE  saver' \in [Savers -> SaverStates] /\ IsContent(tmp') /\ IsContent(file')
  <2>1. saver' \in [Savers -> SaverStates]
    BY <1>a, DoneType, ClosedType DEF GivesUp
  <2>2. IsContent(tmp') /\ IsContent(file')
    BY <1>a, PutType, PlainTypes DEF GivesUp
  <2> QED BY <2>1, <2>2
<1>14. ASSUME NEW s \in Savers, SaveFails(s) PROVE TypeOK'
  BY <1>14, <1>a DEF SaveFails, IsContent
<1>21. ASSUME NEW s \in Savers, DiskFails(s) PROVE TypeOK'
  <2>1. saver' \in [Savers -> SaverStates] /\ IsContent(tmp') /\ IsContent(file')
    BY <1>21, <1>a, DoneType DEF DiskFails
  <2> QED BY <1>21, <2>1 DEF DiskFails, IsContent
<1>15. ASSUME NEW s \in Savers, Rename(s) PROVE TypeOK'
  <2>1. Moved(Other(s)) \in {"tmp", "file", "gone"} /\ Other(s) \in Savers
    BY OtherSaver DEF Moved
  <2>2. saver[s] \in SaverStates /\ saver[Other(s)] \in SaverStates
    BY <2>1
  <2>3. saver' \in [Savers -> SaverStates]
    <3>1. [saver[Other(s)] EXCEPT !.target = Moved(Other(s))] \in SaverStates
      BY <2>1, <2>2, SaverTypes
    <3>2. Done(s) \in SaverStates /\ Other(s) # s
      BY DoneType, OtherSaver
    <3>3. CASE tmp = Absent
      BY <1>15, <3>2, <3>3 DEF Rename
    <3>4. CASE tmp # Absent
      <4>1. saver' = [saver EXCEPT ![s] = Done(s), ![Other(s)].target = Moved(Other(s))]
        BY <1>15, <3>4 DEF Rename
      <4> QED BY <2>1, <3>1, <3>2, <4>1
    <3> QED BY <3>3, <3>4
  <2>4. saver[s].base \in SUBSET Pods
    BY <2>2 DEF SaverStates
  <2>5. IsContent(tmp') /\ IsContent(file') /\ durable' \in SUBSET Pods
    BY <1>15, <2>4, PlainTypes DEF Rename
  <2> QED BY <1>15, <2>3, <2>5 DEF Rename, IsContent
<1>16. CASE StopLoop
  BY <1>16 DEF StopLoop, IsContent
<1>17. CASE Exit
  BY <1>17, GoneType DEF Exit, Gone, IsContent
<1>18. CASE Kill
  BY <1>18, GoneType DEF Kill, Gone, IsContent
<1>19. CASE Restart
  <2>1. file.kind = "saved" => file.snap \in Snapshots
    BY DEF IsContent, Absent, Torn
  <2>2. placements' \in SUBSET Pods /\ total' \in Nat /\ phantom' \in Nat
    BY <1>19, <2>1 DEF Restart, Snapshots
  <2> QED BY <1>19, <2>2 DEF Restart, IsContent
<1>20. CASE UNCHANGED vars
  BY <1>20 DEF vars, IsContent
<1> QED BY <1>1, <1>2, <1>3, <1>4, <1>5, <1>6, <1>7, <1>8, <1>9, <1>10, <1>11, <1>12, <1>13,
           <1>14, <1>15, <1>16, <1>17, <1>18, <1>19, <1>20, <1>21 DEF Next

LEMMA InitType == Init => TypeOK
<1> SUFFICES ASSUME Init PROVE TypeOK
    OBVIOUS
<1>1. saver \in [Savers -> SaverStates]
  BY IdleType DEF Init
<1>2. phase \in [Pods -> Phases] /\ reserved = {p \in Pods : phase[p] = "reserved"}
  BY DEF Init, Phases
<1>3. IsContent(tmp) /\ IsContent(file)
  BY PlainTypes DEF Init
<1>4. rollbacks \in 0..MaxRollbacks /\ resets \in 0..MaxResets /\ crashes \in 0..MaxCrashes
      /\ errors \in 0..MaxErrors
  BY StoreAssumption DEF Init
<1>5. placements \in SUBSET Pods /\ total \in Nat /\ phantom \in Nat /\ durable \in SUBSET Pods
  BY DEF Init
<1> QED BY <1>1, <1>2, <1>3, <1>4, <1>5 DEF Init, TypeOK

\* Every variable keeps its type and the plugin's map holds the pods in a
\* binding cycle, through any kills of either process.
THEOREM StoreTypes == Spec => []TypeOK
BY InitType, TypeStep, PTL DEF Spec

-----------------------------------------------------------------------------
(* What the counts and the records say *)

Rolling == {p \in Pods : phase[p] = "rolling"}
Bound == Cardinality(Committed)
Reported == rollbacks - Cardinality(Rolling)

\* A set of pods and two counts that may stand in a record: what they say has
\* happened. A rollback still on its way is not counted anywhere.
Known(P, t, f) == P \subseteq Committed /\ t <= Bound /\ f <= Reported

CountInv ==
  /\ Known(placements, total, phantom)
  /\ \A s \in Savers : Known(saver[s].held, saver[s].total, saver[s].phantom)
  /\ tmp.kind = "saved" => Known(tmp.snap.placements, tmp.snap.total, tmp.snap.phantom)
  /\ file.kind = "saved" => Known(file.snap.placements, file.snap.total, file.snap.phantom)

LEMMA FiniteSets ==
  \A S \in SUBSET Pods, T \in SUBSET Pods :
    /\ IsFiniteSet(S) /\ Cardinality(S) \in Nat
    /\ S \subseteq T => Cardinality(S) <= Cardinality(T)
<1>1. \A S \in SUBSET Pods : IsFiniteSet(S) /\ Cardinality(S) \in Nat
  BY StoreAssumption, FS_Subset, FS_CardinalityType
<1>2. ASSUME NEW T \in SUBSET Pods, NEW S \in SUBSET T PROVE Cardinality(S) <= Cardinality(T)
  BY <1>1, FS_Subset
<1> QED BY <1>1, <1>2

LEMMA OneMore ==
  ASSUME NEW S \in SUBSET Pods, NEW p \in Pods \ S
  PROVE  Cardinality(S \union {p}) = Cardinality(S) + 1
BY FiniteSets, FS_AddElement

LEMMA OneLess ==
  ASSUME NEW S \in SUBSET Pods, NEW p \in S
  PROVE  Cardinality(S \ {p}) = Cardinality(S) - 1
BY FiniteSets, FS_RemoveElement

LEMMA CountTypes == TypeOK => /\ Committed \subseteq Pods /\ Bound \in Nat
                              /\ Rolling \subseteq Pods /\ Cardinality(Rolling) \in Nat
                              /\ rollbacks \in Nat /\ Reported \in Int
<1> SUFFICES ASSUME TypeOK PROVE /\ Committed \subseteq Pods /\ Bound \in Nat
                                 /\ Rolling \subseteq Pods /\ Cardinality(Rolling) \in Nat
                                 /\ rollbacks \in Nat /\ Reported \in Int
    OBVIOUS
<1>1. Committed \subseteq Pods /\ Rolling \subseteq Pods
  BY DEF Committed, Rolling
<1>2. Bound \in Nat /\ Cardinality(Rolling) \in Nat
  BY <1>1, FiniteSets DEF Bound
<1>3. rollbacks \in Nat
  BY StoreAssumption DEF TypeOK
<1> QED BY <1>1, <1>2, <1>3 DEF Reported

LEMMA NextCountTypes == TypeOK' => /\ Committed' \subseteq Pods /\ Bound' \in Nat
                                   /\ Rolling' \subseteq Pods /\ Cardinality(Rolling') \in Nat
                                   /\ rollbacks' \in Nat /\ Reported' \in Int
<1> SUFFICES ASSUME TypeOK' PROVE /\ Committed' \subseteq Pods /\ Bound' \in Nat
                                  /\ Rolling' \subseteq Pods /\ Cardinality(Rolling') \in Nat
                                  /\ rollbacks' \in Nat /\ Reported' \in Int
    OBVIOUS
<1>1. Committed' \subseteq Pods /\ Rolling' \subseteq Pods
  BY DEF Committed, Rolling
<1>2. Bound' \in Nat /\ Cardinality(Rolling') \in Nat
  BY <1>1, FiniteSets DEF Bound
<1>3. rollbacks' \in Nat
  BY StoreAssumption DEF TypeOK
<1> QED BY <1>1, <1>2, <1>3 DEF Reported

\* The same of the state after a step.
KnownNext(P, t, f) == P \subseteq Committed' /\ t <= Bound' /\ f <= Reported'
KnownContent(c) == c.kind = "saved" => KnownNext(c.snap.placements, c.snap.total, c.snap.phantom)
KnownSaver(r) == KnownNext(r.held, r.total, r.phantom)

LEMMA NextCounts ==
  ASSUME KnownNext(placements', total', phantom'), \A s \in Savers : KnownSaver(saver'[s]),
         KnownContent(tmp'), KnownContent(file')
  PROVE  CountInv'
BY DEF CountInv, Known, KnownNext, KnownContent, KnownSaver

\* What is known stays known when more happens.
LEMMA KnownGrows ==
  ASSUME TypeOK, TypeOK', CountInv, Committed \subseteq Committed', Reported <= Reported'
  PROVE  /\ KnownNext(placements, total, phantom)
         /\ \A s \in Savers : KnownSaver(saver[s])
         /\ KnownContent(tmp) /\ KnownContent(file)
<1>1. Bound <= Bound'
  BY CountTypes, NextCountTypes, FiniteSets DEF Bound
<1>2. \A P \in SUBSET Pods, t \in Nat, f \in Nat : Known(P, t, f) => KnownNext(P, t, f)
  BY <1>1, CountTypes, NextCountTypes DEF Known, KnownNext
<1>3. KnownNext(placements, total, phantom)
  BY <1>2 DEF CountInv, TypeOK
<1>4. ASSUME NEW s \in Savers PROVE KnownSaver(saver[s])
  <2>1. saver[s].held \in SUBSET Pods /\ saver[s].total \in Nat /\ saver[s].phantom \in Nat
    BY DEF TypeOK, SaverStates
  <2> QED BY <2>1, <1>2 DEF CountInv, KnownSaver
<1>5. ASSUME NEW c, IsContent(c),
             c.kind = "saved" => Known(c.snap.placements, c.snap.total, c.snap.phantom)
      PROVE  KnownContent(c)
  <2>1. c.kind = "saved" => /\ c.snap.placements \in SUBSET Pods
                            /\ c.snap.total \in Nat /\ c.snap.phantom \in Nat
    BY <1>5 DEF IsContent, Absent, Torn, Snapshots
  <2> QED BY <1>5, <2>1, <1>2 DEF KnownContent
<1>6. KnownContent(tmp) /\ KnownContent(file)
  BY <1>5 DEF CountInv, TypeOK
<1> QED BY <1>3, <1>4, <1>6

\* A step of the plugin or a crash: calls are made, answered or cancelled.
LEMMA Reports ==
  ASSUME TypeOK, TypeOK', NEW p \in Pods,
         Reserve(p) \/ PostBind(p) \/ Unreserve(p) \/ Acked(p)
  PROVE  Committed \subseteq Committed' /\ Reported <= Reported'
<1> USE DEF TypeOK
<1>1. Committed \subseteq Committed'
  BY DEF Reserve, PostBind, Unreserve, Acked, Committed
<1>2. CASE Reserve(p) \/ PostBind(p) \/ Acked(p)
  <2>1. Rolling' = Rolling /\ rollbacks' = rollbacks
    BY <1>2 DEF Reserve, PostBind, Acked, Rolling
  <2> QED BY <1>1, <2>1, CountTypes DEF Reported
<1>3. CASE Unreserve(p)
  <2>1. rollbacks' = rollbacks + 1
    BY <1>3 DEF Unreserve
  <2>2. Rolling' \in {Rolling, Rolling \union {p}} /\ p \in Pods \ Rolling
    BY <1>3 DEF Unreserve, Rolling
  <2>3. Cardinality(Rolling') <= Cardinality(Rolling) + 1
    BY <2>2, OneMore, CountTypes
  <2> QED BY <1>1, <2>1, <2>3, CountTypes, NextCountTypes DEF Reported
<1> QED BY <1>2, <1>3

LEMMA Cancelled ==
  ASSUME TypeOK, TypeOK', SchedulerRestarts \/ Exit \/ Kill
  PROVE  Committed \subseteq Committed' /\ Reported <= Reported'
<1>1. rollbacks' = rollbacks
  BY DEF SchedulerRestarts, Exit, Kill, Gone
<1>2. \A p \in Pods : \/ phase'[p] = Disconnected[p]
                      \/ phase[p] = "reserved" /\ phase'[p] \in {"lost", "waiting"}
  BY DEF SchedulerRestarts, Exit, Kill, Gone, Disconnected, TypeOK
<1>3. Committed \subseteq Committed' /\ Rolling' \subseteq Rolling
  BY <1>2 DEF Committed, Rolling, Disconnected
<1>4. Cardinality(Rolling') <= Cardinality(Rolling)
  BY <1>3, CountTypes, NextCountTypes, FiniteSets
<1> QED BY <1>1, <1>3, <1>4, CountTypes, NextCountTypes DEF Reported

\* A deposit, or a rollback that is reported: the count goes up with what it counts.
LEMMA Deposits ==
  ASSUME TypeOK, TypeOK', NEW p \in Pods, Commit(p)
  PROVE  Committed \subseteq Committed' /\ p \in Committed' /\ Bound' = Bound + 1 /\ Reported' = Reported
<1>1. Committed' = Committed \union {p} /\ p \in Pods \ Committed
  BY DEF Commit, Committed, TypeOK
<1>2. Rolling' = Rolling /\ rollbacks' = rollbacks
  BY DEF Commit, Rolling, TypeOK
<1> QED BY <1>1, <1>2, OneMore, CountTypes DEF Bound, Reported

LEMMA RollsBack ==
  ASSUME TypeOK, TypeOK', NEW p \in Pods, Rollback(p)
  PROVE  Committed' = Committed /\ Reported' = Reported + 1
<1>1. Rolling' = Rolling \ {p} /\ p \in Rolling
  BY DEF Rollback, Rolling, TypeOK
<1>2. Committed' = Committed /\ rollbacks' = rollbacks
  BY DEF Rollback, Committed, TypeOK
<1> QED BY <1>1, <1>2, OneLess, CountTypes DEF Reported

LEMMA PutKnown ==
  ASSUME NEW s \in Savers, NEW c, Put(s, c), KnownContent(c), KnownContent(tmp), KnownContent(file)
  PROVE  KnownContent(tmp') /\ KnownContent(file')
BY DEF Put

LEMMA ClosedKnown ==
  ASSUME TypeOK, NEW s \in Savers, NEW next, Closed(s, next), KnownSaver(next),
         \A r \in Savers : KnownSaver(saver[r])
  PROVE  \A r \in Savers : KnownSaver(saver'[r])
<1>1. saver'[s] = next
  BY OtherSaver DEF Closed, TypeOK
<1>2. /\ saver'[Other(s)].held = saver[Other(s)].held
      /\ saver'[Other(s)].total = saver[Other(s)].total
      /\ saver'[Other(s)].phantom = saver[Other(s)].phantom
  BY OtherSaver DEF Closed, TypeOK, SaverStates
<1> QED BY <1>1, <1>2, OtherSaver DEF KnownSaver

LEMMA NothingKnown ==
  ASSUME TypeOK', Reported' >= 0
  PROVE  KnownNext({}, 0, 0) /\ KnownSaver(IdleSaver) /\ KnownContent(Torn) /\ KnownContent(Absent)
BY NextCountTypes DEF KnownNext, KnownSaver, KnownContent, IdleSaver, Torn, Absent

LEMMA CountStep == TypeOK /\ TypeOK' /\ CountInv /\ [Next]_vars => CountInv'
<1> SUFFICES ASSUME TypeOK, TypeOK', CountInv, [Next]_vars PROVE CountInv'
    OBVIOUS
<1> USE DEF pluginVars, servicerVars, bounds, diskVars, history, Sidecar
<1> DEFINE Before == /\ KnownNext(placements, total, phantom)
                     /\ \A s \in Savers : KnownSaver(saver[s])
                     /\ KnownContent(tmp) /\ KnownContent(file)
<1>a. ASSUME Before PROVE Reported' >= 0
  BY <1>a, NextCountTypes DEF KnownNext, TypeOK
<1>b. ASSUME UNCHANGED phase, UNCHANGED rollbacks PROVE Before
  <2>1. Committed' = Committed /\ Reported' = Reported
    BY <1>b DEF Committed, Reported, Rolling
  <2> QED BY <2>1, KnownGrows, CountTypes
<1>1. ASSUME NEW p \in Pods, Reserve(p) \/ PostBind(p) \/ Unreserve(p) \/ Acked(p) PROVE CountInv'
  <2>1. Before
    BY <1>1, Reports, KnownGrows
  <2>2. UNCHANGED <<placements, total, phantom, saver, tmp, file>>
    BY <1>1 DEF Reserve, PostBind, Unreserve, Acked
  <2> QED BY <2>1, <2>2, NextCounts
<1>2. ASSUME NEW p \in Pods, Commit(p) PROVE CountInv'
  <2>1. Committed \subseteq Committed' /\ p \in Committed' /\ Bound' = Bound + 1 /\ Reported' = Reported
    BY <1>2, Deposits
  <2>2. Before
    BY <2>1, KnownGrows, CountTypes
  <2>3. placements' = placements \union {p} /\ total' = total + 1
        /\ saver' = Holding(p) /\ UNCHANGED <<phantom, tmp, file>>
    BY <1>2 DEF Commit
  <2>4. KnownNext(placements', total', phantom')
    <3>1. placements' \subseteq Committed' /\ phantom' <= Reported'
      BY <2>1, <2>2, <2>3 DEF KnownNext
    <3>2. total' <= Bound'
      BY <2>1, <2>3, CountTypes DEF CountInv, Known, TypeOK
    <3> QED BY <3>1, <3>2 DEF KnownNext
  <2>5. ASSUME NEW s \in Savers PROVE KnownSaver(saver'[s])
    <3>1. /\ saver'[s].held \subseteq saver[s].held \union {p}
          /\ saver'[s].total = saver[s].total /\ saver'[s].phantom = saver[s].phantom
      BY <2>3 DEF Holding, TypeOK, SaverStates
    <3> QED BY <2>1, <2>2, <3>1 DEF KnownSaver, KnownNext
  <2> QED BY <2>2, <2>3, <2>4, <2>5, NextCounts
<1>3. ASSUME NEW p \in Pods, Rollback(p) PROVE CountInv'
  <2>1. Committed' = Committed /\ Reported' = Reported + 1
    BY <1>3, RollsBack
  <2>2. Before
    BY <2>1, KnownGrows, CountTypes
  <2>3. phantom' = phantom + 1 /\ UNCHANGED <<placements, total, saver, tmp, file>>
    BY <1>3 DEF Rollback
  <2>4. phantom' <= Reported'
    BY <2>1, <2>3, CountTypes DEF CountInv, Known, TypeOK
  <2>5. KnownNext(placements', total', phantom')
    BY <2>2, <2>3, <2>4 DEF KnownNext
  <2> QED BY <2>2, <2>3, <2>5, NextCounts
<1>4. CASE SchedulerRestarts
  <2>1. Before
    BY <1>4, Cancelled, KnownGrows
  <2>2. UNCHANGED <<placements, total, phantom, saver, tmp, file>>
    BY <1>4 DEF SchedulerRestarts
  <2> QED BY <2>1, <2>2, NextCounts
<1>5. CASE ResetMap
  <2>1. Before
    BY <1>5, <1>b DEF ResetMap
  <2>2. \A s \in Savers : /\ saver'[s].held = saver[s].held /\ saver'[s].total = saver[s].total
                          /\ saver'[s].phantom = saver[s].phantom
    BY <1>5 DEF ResetMap, TypeOK, SaverStates
  <2>3. \A s \in Savers : KnownSaver(saver'[s])
    BY <2>1, <2>2 DEF KnownSaver
  <2>4. placements' = {} /\ UNCHANGED <<total, phantom, tmp, file>>
    BY <1>5 DEF ResetMap
  <2> QED BY <2>1, <2>3, <2>4, NextCounts DEF KnownNext
<1>6. CASE ResetCounters
  <2>1. Before
    BY <1>6, <1>b DEF ResetCounters
  <2>2. total' = 0 /\ phantom' = 0 /\ UNCHANGED <<placements, saver, tmp, file>>
    BY <1>6 DEF ResetCounters
  <2>3. KnownNext(placements', total', phantom')
    BY <1>a, <2>1, <2>2, NextCountTypes DEF KnownNext
  <2> QED BY <2>1, <2>2, <2>3, NextCounts
<1>7. ASSUME NEW s \in Savers, Begin(s), UNCHANGED phase, UNCHANGED rollbacks PROVE CountInv'
  <2>1. Before
    BY <1>7, <1>b
  <2>2. KnownNext({}, total, phantom)
    BY <2>1 DEF KnownNext
  <2>3. KnownSaver([IdleSaver EXCEPT !.at = "read", !.base = placements,
                                     !.total = total, !.phantom = phantom])
    BY <2>2 DEF KnownSaver, IdleSaver
  <2>4. \A r \in Savers : KnownSaver(saver'[r])
    BY <1>7, <2>1, <2>3 DEF Begin, TypeOK
  <2>5. UNCHANGED <<placements, total, phantom, tmp, file>>
    BY <1>7 DEF Begin
  <2> QED BY <2>1, <2>4, <2>5, NextCounts
<1>8. CASE LoopSaves \/ Signal
  <2>1. PICK s \in Savers : Begin(s)
    BY <1>8 DEF LoopSaves, Signal, Savers
  <2>2. UNCHANGED phase /\ UNCHANGED rollbacks
    BY <2>1 DEF Begin
  <2> QED BY <1>7, <2>1, <2>2
<1>9. ASSUME NEW s \in Savers, Open(s) PROVE CountInv'
  <2>1. Before
    BY <1>9, <1>b DEF Open
  <2>2. /\ saver'[s].held = placements /\ saver'[s].total = saver[s].total
        /\ saver'[s].phantom = saver[s].phantom
        /\ \A r \in Savers : r # s => saver'[r] = saver[r]
    BY <1>9 DEF Open, TypeOK, SaverStates
  <2>3. \A r \in Savers : KnownSaver(saver'[r])
    BY <2>1, <2>2 DEF KnownSaver, KnownNext
  <2>4. tmp' = Torn /\ UNCHANGED <<placements, total, phantom, file>>
    BY <1>9 DEF Open
  <2> QED BY <1>a, <2>1, <2>3, <2>4, NothingKnown, NextCounts
<1>10. ASSUME NEW s \in Savers, Flush(s) PROVE CountInv'
  <2>1. Before
    BY <1>10, <1>b DEF Flush
  <2>2. PICK ps \in Dumped(s) :
          \/ Put(s, Saved([placements |-> ps, total |-> saver[s].total, phantom |-> saver[s].phantom]))
          \/ Put(s, Torn)
    BY <1>10 DEF Flush
  <2>8. ps \subseteq saver[s].held
    BY DEF Dumped
  <2>3. KnownContent(Saved([placements |-> ps, total |-> saver[s].total, phantom |-> saver[s].phantom]))
    BY <2>1, <2>8 DEF KnownContent, Saved, KnownSaver, KnownNext
  <2>4. KnownContent(tmp') /\ KnownContent(file')
    BY <1>a, <2>1, <2>2, <2>3, NothingKnown, PutKnown
  <2>5. KnownSaver([IdleSaver EXCEPT !.at = "written", !.base = saver[s].base])
    BY <1>a, <2>1, NothingKnown DEF KnownSaver, IdleSaver
  <2>6. \A r \in Savers : KnownSaver(saver'[r])
    BY <1>10, <2>1, <2>5, ClosedKnown DEF Flush
  <2>7. UNCHANGED <<placements, total, phantom>>
    BY <1>10 DEF Flush
  <2> QED BY <2>1, <2>4, <2>6, <2>7, NextCounts
<1>d. ASSUME Before, NEW s \in Savers PROVE KnownSaver(Done(s))
  BY <1>a, <1>d, NothingKnown DEF KnownSaver, Done, IdleSaver
<1>e. ASSUME Before, NEW s \in Savers, GivesUp(s)
      PROVE  /\ KnownContent(tmp') /\ KnownContent(file')
             /\ \A r \in Savers : KnownSaver(saver'[r])
  <2>1. KnownContent(tmp') /\ KnownContent(file')
    BY <1>e, <1>a, NothingKnown, PutKnown DEF GivesUp
  <2>2. \A r \in Savers : KnownSaver(saver'[r])
    BY <1>e, <1>d, ClosedKnown DEF GivesUp
  <2> QED BY <2>1, <2>2
<1>11. ASSUME NEW s \in Savers, SaveFails(s) PROVE CountInv'
  <2>1. Before /\ GivesUp(s) /\ UNCHANGED <<placements, total, phantom>>
    BY <1>11, <1>b DEF SaveFails
  <2> QED BY <1>e, <2>1, NextCounts
<1>16. ASSUME NEW s \in Savers, DiskFails(s) PROVE CountInv'
  <2>1. Before /\ UNCHANGED <<placements, total, phantom>>
    BY <1>16, <1>b DEF DiskFails
  <2>2. CASE GivesUp(s)
    BY <1>e, <2>1, <2>2, NextCounts
  <2>3. CASE saver' = [saver EXCEPT ![s] = Done(s)] /\ UNCHANGED diskVars
    <3>1. \A r \in Savers : KnownSaver(saver'[r])
      BY <1>d, <2>1, <2>3 DEF TypeOK
    <3> QED BY <2>1, <2>3, <3>1, NextCounts
  <2> QED BY <1>16, <2>2, <2>3 DEF DiskFails
<1>12. ASSUME NEW s \in Savers, Rename(s) PROVE CountInv'
  <2>1. Before
    BY <1>12, <1>b DEF Rename
  <2>2. KnownContent(tmp') /\ KnownContent(file')
    BY <1>12, <1>a, <2>1, NothingKnown DEF Rename
  <2>3. saver'[s] = Done(s)
    BY <1>12, OtherSaver DEF Rename, TypeOK
  <2>4. /\ saver'[Other(s)].held = saver[Other(s)].held
        /\ saver'[Other(s)].total = saver[Other(s)].total
        /\ saver'[Other(s)].phantom = saver[Other(s)].phantom
    BY <1>12, OtherSaver DEF Rename, TypeOK, SaverStates
  <2>5. \A r \in Savers : KnownSaver(saver'[r])
    BY <1>d, <2>1, <2>3, <2>4, OtherSaver DEF KnownSaver
  <2>6. UNCHANGED <<placements, total, phantom>>
    BY <1>12 DEF Rename
  <2> QED BY <2>1, <2>2, <2>5, <2>6, NextCounts
<1>13. CASE StopLoop \/ UNCHANGED vars
  <2>1. Before /\ UNCHANGED <<placements, total, phantom, saver, tmp, file>>
    BY <1>13, <1>b DEF StopLoop, vars
  <2> QED BY <2>1, NextCounts
<1>14. CASE Exit \/ Kill
  <2>1. Before
    BY <1>14, Cancelled, KnownGrows
  <2>2. /\ placements' = {} /\ total' = 0 /\ phantom' = 0
        /\ saver' = [s \in Savers |-> IdleSaver] /\ UNCHANGED <<tmp, file>>
    BY <1>14 DEF Exit, Kill, Gone
  <2>3. \A r \in Savers : KnownSaver(saver'[r])
    BY <1>a, <2>1, <2>2, NothingKnown
  <2>4. KnownNext(placements', total', phantom')
    BY <1>a, <2>1, <2>2, NothingKnown
  <2> QED BY <2>1, <2>2, <2>3, <2>4, NextCounts
<1>15. CASE Restart
  <2>1. Before
    BY <1>15, <1>b DEF Restart
  <2>2. KnownNext(placements', total', phantom') /\ UNCHANGED <<saver, tmp, file>>
    BY <1>15, <2>1 DEF Restart, KnownContent
  <2> QED BY <2>1, <2>2, NextCounts
<1> QED BY <1>1, <1>2, <1>3, <1>4, <1>5, <1>6, <1>8, <1>9, <1>10, <1>11, <1>12, <1>13, <1>14,
           <1>15, <1>16 DEF Next

LEMMA InitCounts == Init => CountInv
<1> SUFFICES ASSUME Init PROVE CountInv
    OBVIOUS
<1>1. TypeOK
  BY InitType
<1>2. Rolling = {} /\ Cardinality({}) = 0
  BY FS_EmptySet DEF Init, Rolling
<1>3. Known({}, 0, 0)
  BY <1>1, <1>2, CountTypes DEF Known, Reported, Init
<1> QED BY <1>3 DEF Init, CountInv, IdleSaver, Absent

LEMMA CountsHold == TypeOK /\ CountInv => NoPhantomDeposit /\ CountedOnce
<1> SUFFICES ASSUME TypeOK, CountInv PROVE NoPhantomDeposit /\ CountedOnce
    OBVIOUS
<1>1. NoPhantomDeposit
  BY DEF CountInv, Known, NoPhantomDeposit, InFile
<1>2. Reported <= rollbacks
  BY CountTypes DEF Reported
<1>3. total <= Bound /\ phantom <= rollbacks
  BY <1>2, CountTypes DEF CountInv, Known, TypeOK
<1>4. file.kind = "saved" => /\ file.snap.total <= Bound /\ file.snap.phantom <= rollbacks
  <2>1. file.kind = "saved" => file.snap.phantom \in Nat
    BY DEF TypeOK, IsContent, Absent, Torn, Snapshots
  <2> QED BY <1>2, <2>1, CountTypes DEF CountInv, Known
<1> QED BY <1>1, <1>3, <1>4 DEF CountedOnce, Bound

LEMMA CountsInvariant == Spec => [](TypeOK /\ CountInv)
<1>1. Init => TypeOK /\ CountInv
  BY InitType, InitCounts
<1>2. TypeOK /\ CountInv /\ [Next]_vars => (TypeOK /\ CountInv)'
  BY TypeStep, CountStep
<1> QED BY <1>1, <1>2, PTL DEF Spec

\* What the memory or the state file names has been bound, through any
\* rollbacks, lost calls, failed or overlapping saves and restarts.
THEOREM NoPhantoms == Spec => []NoPhantomDeposit
BY CountsInvariant, CountsHold, PTL

\* No deposit and no rollback is counted twice, in memory or in the file.
THEOREM Counts == Spec => []CountedOnce
BY CountsInvariant, CountsHold, PTL

-----------------------------------------------------------------------------
(* While two saves have not met, one saver at a time has a file, under the   *)
(* temporary name, and what that file will hold contains its base.           *)

Busy(s) == saver[s].at \in {"open", "written"}

SaverInv(s) ==
  /\ Busy(s) => ~Busy(Other(s))
  /\ saver[s].at \in {"read", "open"} =>
       saver[s].target = "tmp" /\ ~saver[s].dirty /\ saver[s].base \subseteq placements
  /\ saver[s].at = "open" =>
       /\ saver[s].base \subseteq saver[s].seen
       /\ saver[s].base # {} => saver[s].held \subseteq placements
  /\ saver[s].at = "written" => tmp.kind = "saved" /\ saver[s].base \subseteq tmp.snap.placements

SaveInv ==
  /\ ~Alive => \A s \in Savers : saver[s].at = "idle"
  /\ ~overlapped => /\ file # Torn /\ durable \subseteq InFile
                    /\ \A s \in Savers : SaverInv(s)

\* A step that leaves the savers, the map and the disk alone.
LEMMA SavesUndisturbed ==
  ASSUME SaveInv, UNCHANGED <<saver, diskVars, history, running, placements>>
  PROVE  SaveInv'
<1> USE DEF diskVars, history
<1>1. (~Alive)' => \A s \in Savers : saver'[s].at = "idle"
  BY DEF SaveInv, Alive
<1>2. ASSUME ~overlapped', NEW s \in Savers PROVE SaverInv(s)'
  BY <1>2 DEF SaveInv, SaverInv, Busy
<1> QED BY <1>1, <1>2 DEF SaveInv, InFile

LEMMA ClosedFields ==
  ASSUME TypeOK, NEW s \in Savers, NEW next, Closed(s, next)
  PROVE  /\ saver'[s] = next
         /\ saver'[Other(s)].at = saver[Other(s)].at
         /\ saver'[Other(s)].base = saver[Other(s)].base
         /\ saver'[Other(s)].seen = saver[Other(s)].seen
         /\ saver'[Other(s)].held = saver[Other(s)].held
         /\ saver'[Other(s)].target = saver[Other(s)].target
         /\ saver[Other(s)].at # "open" => saver'[Other(s)].dirty = saver[Other(s)].dirty
<1>1. saver[Other(s)] \in SaverStates /\ s \in Savers /\ Other(s) \in Savers /\ Other(s) # s
  BY OtherSaver DEF TypeOK
<1>2. saver'[s] = next
  BY <1>1 DEF Closed, TypeOK
<1> DEFINE d == saver[Other(s)].dirty \/ /\ saver[Other(s)].at = "open"
                                         /\ saver[Other(s)].target = saver[s].target
<1>3. saver'[Other(s)] = [saver[Other(s)] EXCEPT !.dirty = d]
  BY <1>1 DEF Closed, TypeOK
<1>4. saver[Other(s)].at # "open" => d = saver[Other(s)].dirty
  <2>1. saver[Other(s)].dirty \in BOOLEAN
    BY <1>1 DEF SaverStates
  <2> QED BY <2>1
<1> HIDE DEF d
<1> QED BY <1>1, <1>2, <1>3, <1>4 DEF SaverStates

\* A dump that goes through has met the whole map, unless it was reset.
LEMMA DumpHoldsBase ==
  ASSUME TypeOK, NEW s \in Savers, SaverInv(s), saver[s].at = "open", Iterates(s),
         NEW ps \in Dumped(s)
  PROVE  saver[s].base \subseteq ps
<1> SUFFICES ASSUME saver[s].base # {} PROVE placements = ps
    BY DEF SaverInv
<1>1. ps \subseteq placements /\ Cardinality(placements) = Cardinality(ps)
  BY DEF SaverInv, Iterates, Dumped
<1>2. IsFiniteSet(placements)
  BY FiniteSets DEF TypeOK
<1> QED BY <1>1, <1>2, FS_Subset

LEMMA SaveStep == TypeOK /\ SaveInv /\ [Next]_vars => SaveInv'
<1> SUFFICES ASSUME TypeOK, SaveInv, [Next]_vars PROVE SaveInv'
    OBVIOUS
<1> USE DEF pluginVars, servicerVars, bounds, diskVars, history, Sidecar
<1>1. ASSUME NEW p \in Pods,
             Reserve(p) \/ PostBind(p) \/ Unreserve(p) \/ Acked(p) \/ Rollback(p)
      PROVE  SaveInv'
  <2>1. UNCHANGED <<saver, diskVars, history, running, placements>>
    BY <1>1 DEF Reserve, PostBind, Unreserve, Acked, Rollback
  <2> QED BY <2>1, SavesUndisturbed
<1>14. ASSUME NEW p \in Pods, Commit(p) PROVE SaveInv'
  <2>1. /\ placements' = placements \union {p} /\ saver' = Holding(p)
        /\ UNCHANGED <<diskVars, history, running>>
    BY <1>14 DEF Commit
  <2>2. \A s \in Savers :
          /\ saver'[s].at = saver[s].at /\ saver'[s].base = saver[s].base
          /\ saver'[s].seen = saver[s].seen /\ saver'[s].target = saver[s].target
          /\ saver'[s].dirty = saver[s].dirty
          /\ saver'[s].held \subseteq saver[s].held \union {p}
    BY <2>1 DEF Holding, TypeOK, SaverStates
  <2>3. ASSUME ~overlapped', NEW s \in Savers PROVE SaverInv(s)'
    BY <2>1, <2>2, <2>3, OtherSaver DEF SaveInv, SaverInv, Busy
  <2> QED BY <2>1, <2>2, <2>3 DEF SaveInv, InFile, Alive
<1>2. CASE SchedulerRestarts \/ ResetCounters \/ UNCHANGED vars
  <2>1. UNCHANGED <<saver, diskVars, history, running, placements>>
    BY <1>2 DEF SchedulerRestarts, ResetCounters, vars
  <2> QED BY <2>1, SavesUndisturbed
<1>3. CASE ResetMap
  <2>1. /\ running' = running /\ tmp' = tmp /\ file' = file /\ overlapped' = overlapped
        /\ durable' = {} /\ Alive
    BY <1>3 DEF ResetMap
  <2>2. \A s \in Savers : /\ saver'[s].at = saver[s].at /\ saver'[s].base = {}
                          /\ saver'[s].target = saver[s].target /\ saver'[s].dirty = saver[s].dirty
    BY <1>3 DEF ResetMap, TypeOK, SaverStates
  <2>3. ASSUME ~overlapped', NEW s \in Savers PROVE SaverInv(s)'
    BY <2>1, <2>2, <2>3, OtherSaver DEF SaveInv, SaverInv, Busy
  <2> QED BY <2>1, <2>3 DEF SaveInv, InFile, Alive
<1>4. ASSUME NEW s \in Savers, Begin(s), Alive, Alive' PROVE SaveInv'
  <2>1. UNCHANGED <<placements, tmp, file, overlapped, durable>>
    BY <1>4 DEF Begin
  <2>2. /\ saver'[s].at = "read" /\ saver'[s].base = placements
        /\ saver'[s].target = "tmp" /\ saver'[s].dirty = FALSE
        /\ saver'[Other(s)] = saver[Other(s)]
    BY <1>4, OtherSaver DEF Begin, IdleSaver, TypeOK
  <2>3. ASSUME ~overlapped', NEW r \in Savers PROVE SaverInv(r)'
    <3>1. r = s \/ (r = Other(s) /\ Other(r) = s)
      BY DEF Savers, Other
    <3> QED BY <2>1, <2>2, <2>3, <3>1, OtherSaver DEF SaveInv, SaverInv, Busy
  <2> QED BY <1>4, <2>1, <2>3 DEF SaveInv, InFile
<1>5. CASE LoopSaves
  <2>1. Begin("loop") /\ Alive /\ Alive'
    BY <1>5 DEF LoopSaves, Alive
  <2> QED BY <1>4, <2>1 DEF Savers
<1>6. CASE Signal
  <2>1. Begin("handler") /\ Alive /\ Alive'
    BY <1>6 DEF Signal, Alive
  <2> QED BY <1>4, <2>1 DEF Savers
<1>7. ASSUME NEW s \in Savers, Open(s) PROVE SaveInv'
  <2>1. /\ saver[s].at = "read" /\ tmp' = Torn
        /\ UNCHANGED <<running, placements, file, durable>>
        /\ overlapped' = (overlapped \/ Busy(Other(s)))
    BY <1>7 DEF Open, Busy
  <2>2. /\ saver'[s].at = "open" /\ saver'[s].seen = placements /\ saver'[s].held = placements
        /\ saver'[s].base = saver[s].base /\ saver'[s].target = saver[s].target
        /\ saver'[s].dirty = saver[s].dirty /\ saver'[Other(s)] = saver[Other(s)]
    BY <1>7, OtherSaver DEF Open, TypeOK, SaverStates
  <2>3. ASSUME ~overlapped', NEW r \in Savers PROVE SaverInv(r)'
    <3>1. r = s \/ (r = Other(s) /\ Other(r) = s)
      BY DEF Savers, Other
    <3>2. SaverInv(s) /\ SaverInv(Other(s)) /\ ~Busy(Other(s))
      BY <2>1, <2>3, OtherSaver DEF SaveInv
    <3> QED BY <2>1, <2>2, <3>1, <3>2 DEF SaverInv, Busy
  <2>4. Alive'
    BY <2>1 DEF SaveInv, Alive
  <2> QED BY <2>1, <2>3, <2>4 DEF SaveInv, InFile
<1>8. ASSUME NEW s \in Savers, Flush(s) PROVE SaveInv'
  <2>1. saver[s].at = "open" /\ UNCHANGED <<running, placements, overlapped, durable>>
    BY <1>8 DEF Flush
  <2>2. PICK ps \in Dumped(s) :
          \/ Put(s, Saved([placements |-> ps, total |-> saver[s].total, phantom |-> saver[s].phantom]))
          \/ saver[s].dirty /\ Put(s, Torn)
    BY <1>8 DEF Flush
  <2>7. ASSUME SaverInv(s) PROVE saver[s].base \subseteq ps
    BY <1>8, <2>1, <2>7, DumpHoldsBase DEF Flush
  <2>3. /\ saver'[s].at = "written" /\ saver'[s].base = saver[s].base
        /\ saver'[Other(s)].at = saver[Other(s)].at
        /\ saver'[Other(s)].base = saver[Other(s)].base
        /\ saver'[Other(s)].target = saver[Other(s)].target
        /\ saver[Other(s)].at # "open" => saver'[Other(s)].dirty = saver[Other(s)].dirty
    <3>1. Closed(s, [IdleSaver EXCEPT !.at = "written", !.base = saver[s].base])
      BY <1>8 DEF Flush
    <3>2. saver'[s] = [IdleSaver EXCEPT !.at = "written", !.base = saver[s].base]
      BY <3>1, ClosedFields
    <3>3. saver'[s].at = "written" /\ saver'[s].base = saver[s].base
      BY <3>2 DEF IdleSaver
    <3> QED BY <3>1, <3>3, ClosedFields
  <2>4. ASSUME ~overlapped' PROVE /\ file' = file
                                  /\ tmp'.kind = "saved" /\ saver[s].base \subseteq tmp'.snap.placements
                                  /\ ~Busy(Other(s))
    <3>1. SaverInv(s)
      BY <2>1, <2>4 DEF SaveInv
    <3>2. Put(s, Saved([placements |-> ps, total |-> saver[s].total, phantom |-> saver[s].phantom]))
          /\ saver[s].base \subseteq ps /\ saver[s].target = "tmp"
      BY <2>1, <2>2, <2>7, <3>1 DEF SaverInv
    <3> QED BY <2>1, <3>1, <3>2 DEF SaverInv, Put, Saved, Busy
  <2>5. ASSUME ~overlapped', NEW r \in Savers PROVE SaverInv(r)'
    <3>1. r = s \/ (r = Other(s) /\ Other(r) = s)
      BY DEF Savers, Other
    <3>2. SaverInv(Other(s))
      BY <2>1, <2>5, OtherSaver DEF SaveInv
    <3> QED BY <2>1, <2>3, <2>4, <2>5, <3>1, <3>2 DEF SaverInv, Busy
  <2>6. Alive'
    BY <2>1 DEF SaveInv, Alive
  <2> QED BY <2>1, <2>4, <2>5, <2>6 DEF SaveInv, InFile
<1>15. ASSUME NEW s \in Savers, GivesUp(s), UNCHANGED <<running, placements, history>>
       PROVE  SaveInv'
  <2>1. saver[s].at = "open"
    BY <1>15 DEF GivesUp
  <2>2. /\ saver'[s].at \in {"idle", "ended"}
        /\ saver'[Other(s)].at = saver[Other(s)].at
        /\ saver'[Other(s)].base = saver[Other(s)].base
        /\ saver'[Other(s)].target = saver[Other(s)].target
        /\ saver[Other(s)].at # "open" => saver'[Other(s)].dirty = saver[Other(s)].dirty
    <3>1. Closed(s, Done(s))
      BY <1>15 DEF GivesUp
    <3>2. Done(s).at \in {"idle", "ended"}
      BY DEF Done, IdleSaver
    <3> QED BY <3>1, <3>2, ClosedFields
  <2>3. ASSUME ~overlapped' PROVE file' = file /\ ~Busy(Other(s))
    <3>1. SaverInv(s)
      BY <1>15, <2>3 DEF SaveInv
    <3> QED BY <1>15, <2>1, <3>1 DEF SaverInv, GivesUp, Put, Busy
  <2>4. ASSUME ~overlapped', NEW r \in Savers PROVE SaverInv(r)'
    <3>1. r = s \/ (r = Other(s) /\ Other(r) = s)
      BY DEF Savers, Other
    <3>2. SaverInv(Other(s))
      BY <1>15, <2>4, OtherSaver DEF SaveInv
    <3> QED BY <1>15, <2>1, <2>2, <2>3, <2>4, <3>1, <3>2 DEF SaverInv, Busy
  <2>5. Alive'
    BY <1>15, <2>1 DEF SaveInv, Alive
  <2> QED BY <1>15, <2>3, <2>4, <2>5 DEF SaveInv, InFile
<1>9. ASSUME NEW s \in Savers, SaveFails(s) PROVE SaveInv'
  BY <1>9, <1>15 DEF SaveFails
<1>16. ASSUME NEW s \in Savers, DiskFails(s) PROVE SaveInv'
  <2>1. UNCHANGED <<running, placements, history>>
    BY <1>16 DEF DiskFails
  <2>2. CASE GivesUp(s)
    BY <1>15, <2>1, <2>2
  <2>3. CASE /\ saver[s].at \in {"read", "written"}
             /\ saver' = [saver EXCEPT ![s] = Done(s)] /\ UNCHANGED diskVars
    <3>1. Done(s).at \in {"idle", "ended"}
      BY DEF Done, IdleSaver
    <3>2. saver'[s].at \in {"idle", "ended"} /\ saver'[Other(s)] = saver[Other(s)]
      BY <2>3, <3>1, OtherSaver DEF TypeOK
    <3>3. ASSUME ~overlapped', NEW r \in Savers PROVE SaverInv(r)'
      <4>1. r = s \/ (r = Other(s) /\ Other(r) = s)
        BY DEF Savers, Other
      <4>2. SaverInv(Other(s))
        BY <2>1, <3>3, OtherSaver DEF SaveInv
      <4> QED BY <2>1, <2>3, <3>2, <4>1, <4>2 DEF SaverInv, Busy
    <3>4. Alive'
      BY <2>1, <2>3 DEF SaveInv, Alive
    <3> QED BY <2>1, <2>3, <3>3, <3>4 DEF SaveInv, InFile
  <2> QED BY <1>16, <2>2, <2>3 DEF DiskFails
<1>10. ASSUME NEW s \in Savers, Rename(s) PROVE SaveInv'
  <2>1. saver[s].at = "written" /\ UNCHANGED <<running, placements, overlapped>>
    BY <1>10 DEF Rename
  <2>2. /\ saver'[s].at \in {"idle", "ended"}
        /\ saver'[Other(s)].at = saver[Other(s)].at
        /\ saver'[Other(s)].base = saver[Other(s)].base
        /\ saver'[Other(s)].dirty = saver[Other(s)].dirty
        /\ saver'[Other(s)].target \in {saver[Other(s)].target, Moved(Other(s))}
    <3>1. Done(s).at \in {"idle", "ended"}
      BY DEF Done, IdleSaver
    <3> QED BY <1>10, <3>1, OtherSaver DEF Rename, TypeOK, SaverStates
  <2>3. ASSUME ~overlapped'
        PROVE  file' # Torn /\ durable' \subseteq InFile' /\ ~Busy(Other(s))
    <3>1. SaverInv(s) /\ tmp.kind = "saved" /\ saver[s].base \subseteq tmp.snap.placements
      BY <2>1, <2>3 DEF SaveInv, SaverInv
    <3>2. tmp # Absent /\ tmp # Torn
      BY <3>1 DEF Absent, Torn
    <3> QED BY <1>10, <2>1, <3>1, <3>2 DEF Rename, InFile, SaverInv, Busy
  <2>4. ASSUME ~overlapped', NEW r \in Savers PROVE SaverInv(r)'
    <3>1. r = s \/ (r = Other(s) /\ Other(r) = s)
      BY DEF Savers, Other
    <3>2. SaverInv(Other(s))
      BY <2>1, <2>4, OtherSaver DEF SaveInv
    <3> QED BY <2>1, <2>2, <2>3, <2>4, <3>1, <3>2 DEF SaverInv, Busy, Moved
  <2>5. Alive'
    BY <2>1 DEF SaveInv, Alive
  <2> QED BY <2>3, <2>4, <2>5 DEF SaveInv
<1>11. CASE StopLoop
  BY <1>11, SavesUndisturbed DEF StopLoop
<1>12. CASE Exit \/ Kill
  <2>1. \A s \in Savers : saver'[s] = IdleSaver
    BY <1>12 DEF Exit, Kill, Gone
  <2>2. UNCHANGED <<tmp, file, overlapped, durable>>
    BY <1>12 DEF Exit, Kill, Gone
  <2>3. \A s \in Savers : SaverInv(s)'
    BY <2>1 DEF SaverInv, Busy, IdleSaver
  <2> QED BY <2>1, <2>2, <2>3 DEF SaveInv, InFile, IdleSaver
<1>13. CASE Restart
  <2>1. Alive' /\ \A s \in Savers : saver[s].at = "idle"
    BY <1>13 DEF Restart, Alive, SaveInv
  <2>2. UNCHANGED <<saver, tmp, file, overlapped, durable>>
    BY <1>13 DEF Restart
  <2>3. \A s \in Savers : SaverInv(s)'
    BY <2>1, <2>2 DEF SaverInv, Busy
  <2> QED BY <2>1, <2>2, <2>3 DEF SaveInv, InFile
<1> QED BY <1>1, <1>2, <1>3, <1>5, <1>6, <1>7, <1>8, <1>9, <1>10, <1>11, <1>12, <1>13,
           <1>14, <1>16 DEF Next

\* A save that has been finished stays in the file: unless two saves meet, no
\* later save, failed save, kill or restart loses what it held.
THEOREM KeptSaves == Spec => []SavesAreKept
<1>1. Init => SaveInv
  BY DEF Init, SaveInv, SaverInv, Busy, IdleSaver, InFile, Absent, Torn, Alive
<1>2. TypeOK /\ TypeOK' /\ SaveInv /\ [Next]_vars => SaveInv'
  BY SaveStep
<1>3. SaveInv => SavesAreKept
  BY DEF SaveInv, SavesAreKept
<1> QED BY <1>1, <1>2, <1>3, StoreTypes, PTL DEF Spec
=============================================================================
