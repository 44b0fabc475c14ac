----------------------------- MODULE PinsProofs -----------------------------
(* Proofs about Pins: for any number of CIDs, of requests and announcements    *)
(* under way at a time, and of overlapping re-provide runs.                    *)
EXTENDS Pins, TLAPS

\* A task that is about to write "success" had its provide resolved.
ResolvedOK ==
  /\ \A r \in Requests : At(r, "succeeded") => req[r].cid \in provided
  /\ \A p \in Runs : run[p].step = "succeeded" => run[p].cid \in provided

IInv == TypeOK /\ PendingIsUnderWay /\ SuccessIsEarned /\ ResolvedOK

USE DEF ReqSteps, RunSteps, IdleReq, IdleRun, Underway, Announcing

-----------------------------------------------------------------------------
LEMMA InitInv == Init => IInv
  BY PinsAssumption
  DEF Init, IInv, TypeOK, PendingIsUnderWay, SuccessIsEarned, ResolvedOK, At

\* The head of the loop writes no record and starts no step that is about to.
LEMMA NextCidKeeps ==
  ASSUME TypeOK, NEW p \in Runs, NEW todo \in SUBSET Cids, NextCid(p, todo)
  PROVE  /\ run' \in [Runs -> [step : RunSteps, cid : Cids \cup {NoCid}, todo : SUBSET Cids]]
         /\ \A q \in Runs : run'[q].step \in {"idle", "listing"} <=> run'[q].cid = NoCid
         /\ \A q \in Runs : run'[q].step = "succeeded" =>
              run[q].step = "succeeded" /\ run'[q].cid = run[q].cid
         /\ mode # "up" => \A q \in Runs : (run'[q].step = "providing" => run'[q] = run[q])
  <1>1. CASE mode = "up" /\ \E c \in todo : run' = [run EXCEPT ![p] =
                [step |-> "providing", cid |-> c, todo |-> todo \ {c}]]
    <2>1. PICK c \in todo : run' = [run EXCEPT ![p] =
                [step |-> "providing", cid |-> c, todo |-> todo \ {c}]]
      BY <1>1
    <2>2. c \in Cids /\ c # NoCid
      BY PinsAssumption
    <2>3. \A q \in Runs : run'[q] = IF q = p
             THEN [step |-> "providing", cid |-> c, todo |-> todo \ {c}] ELSE run[q]
      BY <2>1 DEF TypeOK
    <2> QED
      BY <1>1, <2>1, <2>2, <2>3 DEF TypeOK
  <1>2. CASE run' = [run EXCEPT ![p] = IdleRun]
    BY <1>2 DEF TypeOK
  <1> QED
    BY <1>1, <1>2 DEF NextCid

\* Every step keeps the types.
LEMMA TypeInductive ==
  ASSUME IInv, [Next]_vars
  PROVE  TypeOK'
  <1> USE PinsAssumption DEF datastore
  <1>0. TypeOK
    BY DEF IInv
  <1>1. ASSUME NEW r \in Requests, NEW c \in Cids, NEW step \in {"pinning", "unpinning", "announcing"}, Accept(r, c, step)
        PROVE  TypeOK'
    BY <1>0, <1>1 DEF TypeOK, Accept, At
  <1>2. ASSUME NEW r \in Requests, PinStored(r)
        PROVE  TypeOK'
    BY <1>0, <1>2 DEF TypeOK, PinStored, At, Goto
  <1>3. ASSUME NEW r \in Requests, PinFails(r)
        PROVE  TypeOK'
    BY <1>0, <1>3 DEF TypeOK, PinFails, At, End
  <1>4. ASSUME NEW r \in Requests, UnpinEnds(r)
        PROVE  TypeOK'
    BY <1>0, <1>4 DEF TypeOK, UnpinEnds, At, End
  <1>5. ASSUME NEW r \in Requests, Marked(r)
        PROVE  TypeOK'
    BY <1>0, <1>5 DEF TypeOK, Marked, At, Goto, SetStatus, Record
  <1>6. ASSUME NEW r \in Requests, ProvideResolves(r)
        PROVE  TypeOK'
    BY <1>0, <1>6 DEF TypeOK, ProvideResolves, At, Goto
  <1>7. ASSUME NEW r \in Requests, ProvideRejects(r)
        PROVE  TypeOK'
    BY <1>0, <1>7 DEF TypeOK, ProvideRejects, At, Goto
  <1>8. ASSUME NEW r \in Requests, RecordOutcome(r)
        PROVE  TypeOK'
    BY <1>0, <1>8 DEF TypeOK, RecordOutcome, At, End, Record, OutcomeOf
  <1>9. ASSUME NEW r \in Requests, OutcomeLost(r)
        PROVE  TypeOK'
    BY <1>0, <1>9 DEF TypeOK, OutcomeLost, At, End
  <1>10. ASSUME NEW p \in Runs, StartRun(p)
        PROVE  TypeOK'
    BY <1>0, <1>10 DEF TypeOK, StartRun, At
  <1>11. ASSUME NEW p \in Runs, Listed(p)
        PROVE  TypeOK'
    <2>1. NextCid(p, pinned) /\ pinned \in SUBSET Cids
      BY <1>0, <1>11 DEF TypeOK, Listed
    <2> QED
      BY <1>0, <1>11, <2>1, NextCidKeeps DEF TypeOK, Listed, At
  <1>12. ASSUME NEW p \in Runs, ListFails(p)
        PROVE  TypeOK'
    BY <1>0, <1>12 DEF TypeOK, ListFails, At
  <1>13. ASSUME NEW p \in Runs, Reprovided(p)
        PROVE  TypeOK'
    BY <1>0, <1>13 DEF TypeOK, Reprovided, At
  <1>14. ASSUME NEW p \in Runs, ReprovideFails(p)
        PROVE  TypeOK'
    <2>1. NextCid(p, run[p].todo) /\ run[p].todo \in SUBSET Cids
      BY <1>0, <1>14 DEF TypeOK, ReprovideFails
    <2> QED
      BY <1>0, <1>14, <2>1, NextCidKeeps DEF TypeOK, ReprovideFails, At
  <1>15. ASSUME NEW p \in Runs, ReprovideRecorded(p)
        PROVE  TypeOK'
    <2>1. NextCid(p, run[p].todo) /\ run[p].todo \in SUBSET Cids
      BY <1>0, <1>15 DEF TypeOK, ReprovideRecorded
    <2> QED
      BY <1>0, <1>15, <2>1, NextCidKeeps DEF TypeOK, ReprovideRecorded, At, Record
  <1>16. ASSUME NEW p \in Runs, ReprovideRecordLost(p)
        PROVE  TypeOK'
    <2>1. NextCid(p, run[p].todo) /\ run[p].todo \in SUBSET Cids
      BY <1>0, <1>16 DEF TypeOK, ReprovideRecordLost
    <2> QED
      BY <1>0, <1>16, <2>1, NextCidKeeps DEF TypeOK, ReprovideRecordLost, At
  <1>17. CASE Shutdown
    BY <1>0, <1>17 DEF TypeOK, Shutdown, At
  <1>18. CASE Exit
    BY <1>0, <1>18 DEF TypeOK, Exit, At, TasksVanish
  <1>19. CASE Crash
    BY <1>0, <1>19 DEF TypeOK, Crash, At, TasksVanish
  <1>20. CASE Restart
    BY <1>0, <1>20 DEF TypeOK, Restart, At
  <1>21. CASE UNCHANGED vars
    BY <1>0, <1>21 DEF TypeOK, vars, At
  <1> QED
    BY <1>1, <1>2, <1>3, <1>4, <1>5, <1>6, <1>7, <1>8, <1>9, <1>10, <1>11, <1>12,
       <1>13, <1>14, <1>15, <1>16, <1>17, <1>18, <1>19, <1>20, <1>21
       DEF Next, RequestStep, RunStep, AddPin, RemovePin, Announce, ListSettles, ProvideSettles, RecordSettles

\* Whoever ends an announcement writes its record, or its CID is dropped.
LEMMA PendingInductive ==
  ASSUME IInv, [Next]_vars
  PROVE  PendingIsUnderWay'
  <1> USE PinsAssumption DEF datastore
  <1>0. TypeOK /\ PendingIsUnderWay
    BY DEF IInv
  <1>1. ASSUME NEW r \in Requests, NEW c \in Cids, NEW step \in {"pinning", "unpinning", "announcing"}, Accept(r, c, step)
        PROVE  PendingIsUnderWay'
    BY <1>0, <1>1 DEF TypeOK, PendingIsUnderWay, Accept, At
  <1>2. ASSUME NEW r \in Requests, PinStored(r)
        PROVE  PendingIsUnderWay'
    BY <1>0, <1>2 DEF TypeOK, PendingIsUnderWay, PinStored, At, Goto
  <1>3. ASSUME NEW r \in Requests, PinFails(r)
        PROVE  PendingIsUnderWay'
    BY <1>0, <1>3 DEF TypeOK, PendingIsUnderWay, PinFails, At, End
  <1>4. ASSUME NEW r \in Requests, UnpinEnds(r)
        PROVE  PendingIsUnderWay'
    BY <1>0, <1>4 DEF TypeOK, PendingIsUnderWay, UnpinEnds, At, End
  <1>5. ASSUME NEW r \in Requests, Marked(r)
        PROVE  PendingIsUnderWay'
    BY <1>0, <1>5 DEF TypeOK, PendingIsUnderWay, Marked, At, Goto, SetStatus, Record
  <1>6. ASSUME NEW r \in Requests, ProvideResolves(r)
        PROVE  PendingIsUnderWay'
    BY <1>0, <1>6 DEF TypeOK, PendingIsUnderWay, ProvideResolves, At, Goto
  <1>7. ASSUME NEW r \in Requests, ProvideRejects(r)
        PROVE  PendingIsUnderWay'
    BY <1>0, <1>7 DEF TypeOK, PendingIsUnderWay, ProvideRejects, At, Goto
  <1>8. ASSUME NEW r \in Requests, RecordOutcome(r)
        PROVE  PendingIsUnderWay'
    BY <1>0, <1>8 DEF TypeOK, PendingIsUnderWay, RecordOutcome, At, End, Record, OutcomeOf
  <1>9. ASSUME NEW r \in Requests, OutcomeLost(r)
        PROVE  PendingIsUnderWay'
    BY <1>0, <1>9 DEF TypeOK, PendingIsUnderWay, OutcomeLost, At, End
  <1>10. ASSUME NEW p \in Runs, StartRun(p)
        PROVE  PendingIsUnderWay'
    BY <1>0, <1>10 DEF TypeOK, PendingIsUnderWay, StartRun, At
  <1>11. ASSUME NEW p \in Runs, Listed(p)
        PROVE  PendingIsUnderWay'
    BY <1>0, <1>11 DEF TypeOK, PendingIsUnderWay, Listed, At
  <1>12. ASSUME NEW p \in Runs, ListFails(p)
        PROVE  PendingIsUnderWay'
    BY <1>0, <1>12 DEF TypeOK, PendingIsUnderWay, ListFails, At
  <1>13. ASSUME NEW p \in Runs, Reprovided(p)
        PROVE  PendingIsUnderWay'
    BY <1>0, <1>13 DEF TypeOK, PendingIsUnderWay, Reprovided, At
  <1>14. ASSUME NEW p \in Runs, ReprovideFails(p)
        PROVE  PendingIsUnderWay'
    BY <1>0, <1>14 DEF TypeOK, PendingIsUnderWay, ReprovideFails, At
  <1>15. ASSUME NEW p \in Runs, ReprovideRecorded(p)
        PROVE  PendingIsUnderWay'
    BY <1>0, <1>15 DEF TypeOK, PendingIsUnderWay, ReprovideRecorded, At, Record
  <1>16. ASSUME NEW p \in Runs, ReprovideRecordLost(p)
        PROVE  PendingIsUnderWay'
    BY <1>0, <1>16 DEF TypeOK, PendingIsUnderWay, ReprovideRecordLost, At
  <1>17. CASE Shutdown
    BY <1>0, <1>17 DEF TypeOK, PendingIsUnderWay, Shutdown, At
  <1>18. CASE Exit
    BY <1>0, <1>18 DEF TypeOK, PendingIsUnderWay, Exit, At, TasksVanish
  <1>19. CASE Crash
    BY <1>0, <1>19 DEF TypeOK, PendingIsUnderWay, Crash, At, TasksVanish
  <1>20. CASE Restart
    BY <1>0, <1>20 DEF TypeOK, PendingIsUnderWay, Restart, At
  <1>21. CASE UNCHANGED vars
    BY <1>0, <1>21 DEF TypeOK, PendingIsUnderWay, vars, At
  <1> QED
    BY <1>1, <1>2, <1>3, <1>4, <1>5, <1>6, <1>7, <1>8, <1>9, <1>10, <1>11, <1>12,
       <1>13, <1>14, <1>15, <1>16, <1>17, <1>18, <1>19, <1>20, <1>21
       DEF Next, RequestStep, RunStep, AddPin, RemovePin, Announce, ListSettles, ProvideSettles, RecordSettles

\* A task gets to "succeeded" when its provide is resolved.
LEMMA ResolvedInductive ==
  ASSUME IInv, [Next]_vars
  PROVE  ResolvedOK'
  <1> USE PinsAssumption DEF datastore
  <1>0. TypeOK /\ ResolvedOK
    BY DEF IInv
  <1>1. ASSUME NEW r \in Requests, NEW c \in Cids, NEW step \in {"pinning", "unpinning", "announcing"}, Accept(r, c, step)
        PROVE  ResolvedOK'
    BY <1>0, <1>1 DEF TypeOK, ResolvedOK, Accept, At
  <1>2. ASSUME NEW r \in Requests, PinStored(r)
        PROVE  ResolvedOK'
    BY <1>0, <1>2 DEF TypeOK, ResolvedOK, PinStored, At, Goto
  <1>3. ASSUME NEW r \in Requests, PinFails(r)
        PROVE  ResolvedOK'
    BY <1>0, <1>3 DEF TypeOK, ResolvedOK, PinFails, At, End
  <1>4. ASSUME NEW r \in Requests, UnpinEnds(r)
        PROVE  ResolvedOK'
    BY <1>0, <1>4 DEF TypeOK, ResolvedOK, UnpinEnds, At, End
  <1>5. ASSUME NEW r \in Requests, Marked(r)
        PROVE  ResolvedOK'
    BY <1>0, <1>5 DEF TypeOK, ResolvedOK, Marked, At, Goto, SetStatus, Record
  <1>6. ASSUME NEW r \in Requests, ProvideResolves(r)
        PROVE  ResolvedOK'
    BY <1>0, <1>6 DEF TypeOK, ResolvedOK, ProvideResolves, At, Goto
  <1>7. ASSUME NEW r \in Requests, ProvideRejects(r)
        PROVE  ResolvedOK'
    BY <1>0, <1>7 DEF TypeOK, ResolvedOK, ProvideRejects, At, Goto
  <1>8. ASSUME NEW r \in Requests, RecordOutcome(r)
        PROVE  ResolvedOK'
    BY <1>0, <1>8 DEF TypeOK, ResolvedOK, RecordOutcome, At, End, Record, OutcomeOf
  <1>9. ASSUME NEW r \in Requests, OutcomeLost(r)
        PROVE  ResolvedOK'
    BY <1>0, <1>9 DEF TypeOK, ResolvedOK, OutcomeLost, At, End
  <1>10. ASSUME NEW p \in Runs, StartRun(p)
        PROVE  ResolvedOK'
    BY <1>0, <1>10 DEF TypeOK, ResolvedOK, StartRun, At
  <1>11. ASSUME NEW p \in Runs, Listed(p)
        PROVE  ResolvedOK'
    <2>1. NextCid(p, pinned) /\ pinned \in SUBSET Cids
      BY <1>0, <1>11 DEF TypeOK, Listed
    <2> QED
      BY <1>0, <1>11, <2>1, NextCidKeeps DEF TypeOK, ResolvedOK, Listed, At
  <1>12. ASSUME NEW p \in Runs, ListFails(p)
        PROVE  ResolvedOK'
    BY <1>0, <1>12 DEF TypeOK, ResolvedOK, ListFails, At
  <1>13. ASSUME NEW p \in Runs, Reprovided(p)
        PROVE  ResolvedOK'
    BY <1>0, <1>13 DEF TypeOK, ResolvedOK, Reprovided, At
  <1>14. ASSUME NEW p \in Runs, ReprovideFails(p)
        PROVE  ResolvedOK'
    <2>1. NextCid(p, run[p].todo) /\ run[p].todo \in SUBSET Cids
      BY <1>0, <1>14 DEF TypeOK, ReprovideFails
    <2> QED
      BY <1>0, <1>14, <2>1, NextCidKeeps DEF TypeOK, ResolvedOK, ReprovideFails, At
  <1>15. ASSUME NEW p \in Runs, ReprovideRecorded(p)
        PROVE  ResolvedOK'
    <2>1. NextCid(p, run[p].todo) /\ run[p].todo \in SUBSET Cids
      BY <1>0, <1>15 DEF TypeOK, ReprovideRecorded
    <2> QED
      BY <1>0, <1>15, <2>1, NextCidKeeps DEF TypeOK, ResolvedOK, ReprovideRecorded, At, Record
  <1>16. ASSUME NEW p \in Runs, ReprovideRecordLost(p)
        PROVE  ResolvedOK'
    <2>1. NextCid(p, run[p].todo) /\ run[p].todo \in SUBSET Cids
      BY <1>0, <1>16 DEF TypeOK, ReprovideRecordLost
    <2> QED
      BY <1>0, <1>16, <2>1, NextCidKeeps DEF TypeOK, ResolvedOK, ReprovideRecordLost, At
  <1>17. CASE Shutdown
    BY <1>0, <1>17 DEF TypeOK, ResolvedOK, Shutdown, At
  <1>18. CASE Exit
    BY <1>0, <1>18 DEF TypeOK, ResolvedOK, Exit, At, TasksVanish
  <1>19. CASE Crash
    BY <1>0, <1>19 DEF TypeOK, ResolvedOK, Crash, At, TasksVanish
  <1>20. CASE Restart
    BY <1>0, <1>20 DEF TypeOK, ResolvedOK, Restart, At
  <1>21. CASE UNCHANGED vars
    BY <1>0, <1>21 DEF TypeOK, ResolvedOK, vars, At
  <1> QED
    BY <1>1, <1>2, <1>3, <1>4, <1>5, <1>6, <1>7, <1>8, <1>9, <1>10, <1>11, <1>12,
       <1>13, <1>14, <1>15, <1>16, <1>17, <1>18, <1>19, <1>20, <1>21
       DEF Next, RequestStep, RunStep, AddPin, RemovePin, Announce, ListSettles, ProvideSettles, RecordSettles

\* "success" is written by tasks whose provide was resolved.
LEMMA SuccessInductive ==
  ASSUME IInv, [Next]_vars
  PROVE  SuccessIsEarned'
  <1> USE PinsAssumption DEF datastore
  <1>0. TypeOK /\ SuccessIsEarned /\ ResolvedOK
    BY DEF IInv
  <1>1. ASSUME NEW r \in Requests, NEW c \in Cids, NEW step \in {"pinning", "unpinning", "announcing"}, Accept(r, c, step)
        PROVE  SuccessIsEarned'
    BY <1>0, <1>1 DEF TypeOK, SuccessIsEarned, ResolvedOK, Accept, At
  <1>2. ASSUME NEW r \in Requests, PinStored(r)
        PROVE  SuccessIsEarned'
    BY <1>0, <1>2 DEF TypeOK, SuccessIsEarned, ResolvedOK, PinStored, At, Goto
  <1>3. ASSUME NEW r \in Requests, PinFails(r)
        PROVE  SuccessIsEarned'
    BY <1>0, <1>3 DEF TypeOK, SuccessIsEarned, ResolvedOK, PinFails, At, End
  <1>4. ASSUME NEW r \in Requests, UnpinEnds(r)
        PROVE  SuccessIsEarned'
    BY <1>0, <1>4 DEF TypeOK, SuccessIsEarned, ResolvedOK, UnpinEnds, At, End
  <1>5. ASSUME NEW r \in Requests, Marked(r)
        PROVE  SuccessIsEarned'
    BY <1>0, <1>5 DEF TypeOK, SuccessIsEarned, ResolvedOK, Marked, At, Goto, SetStatus, Record
  <1>6. ASSUME NEW r \in Requests, ProvideResolves(r)
        PROVE  SuccessIsEarned'
    BY <1>0, <1>6 DEF TypeOK, SuccessIsEarned, ResolvedOK, ProvideResolves, At, Goto
  <1>7. ASSUME NEW r \in Requests, ProvideRejects(r)
        PROVE  SuccessIsEarned'
    BY <1>0, <1>7 DEF TypeOK, SuccessIsEarned, ResolvedOK, ProvideRejects, At, Goto
  <1>8. ASSUME NEW r \in Requests, RecordOutcome(r)
        PROVE  SuccessIsEarned'
    BY <1>0, <1>8 DEF TypeOK, SuccessIsEarned, ResolvedOK, RecordOutcome, At, End, Record, OutcomeOf
  <1>9. ASSUME NEW r \in Requests, OutcomeLost(r)
        PROVE  SuccessIsEarned'
    BY <1>0, <1>9 DEF TypeOK, SuccessIsEarned, ResolvedOK, OutcomeLost, At, End
  <1>10. ASSUME NEW p \in Runs, StartRun(p)
        PROVE  SuccessIsEarned'
    BY <1>0, <1>10 DEF TypeOK, SuccessIsEarned, ResolvedOK, StartRun, At
  <1>11. ASSUME NEW p \in Runs, Listed(p)
        PROVE  SuccessIsEarned'
    BY <1>0, <1>11 DEF TypeOK, SuccessIsEarned, ResolvedOK, Listed, At
  <1>12. ASSUME NEW p \in Runs, ListFails(p)
        PROVE  SuccessIsEarned'
    BY <1>0, <1>12 DEF TypeOK, SuccessIsEarned, ResolvedOK, ListFails, At
  <1>13. ASSUME NEW p \in Runs, Reprovided(p)
        PROVE  SuccessIsEarned'
    BY <1>0, <1>13 DEF TypeOK, SuccessIsEarned, ResolvedOK, Reprovided, At
  <1>14. ASSUME NEW p \in Runs, ReprovideFails(p)
        PROVE  SuccessIsEarned'
    BY <1>0, <1>14 DEF TypeOK, SuccessIsEarned, ResolvedOK, ReprovideFails, At
  <1>15. ASSUME NEW p \in Runs, ReprovideRecorded(p)
        PROVE  SuccessIsEarned'
    BY <1>0, <1>15 DEF TypeOK, SuccessIsEarned, ResolvedOK, ReprovideRecorded, At, Record
  <1>16. ASSUME NEW p \in Runs, ReprovideRecordLost(p)
        PROVE  SuccessIsEarned'
    BY <1>0, <1>16 DEF TypeOK, SuccessIsEarned, ResolvedOK, ReprovideRecordLost, At
  <1>17. CASE Shutdown
    BY <1>0, <1>17 DEF TypeOK, SuccessIsEarned, ResolvedOK, Shutdown, At
  <1>18. CASE Exit
    BY <1>0, <1>18 DEF TypeOK, SuccessIsEarned, ResolvedOK, Exit, At, TasksVanish
  <1>19. CASE Crash
    BY <1>0, <1>19 DEF TypeOK, SuccessIsEarned, ResolvedOK, Crash, At, TasksVanish
  <1>20. CASE Restart
    BY <1>0, <1>20 DEF TypeOK, SuccessIsEarned, ResolvedOK, Restart, At
  <1>21. CASE UNCHANGED vars
    BY <1>0, <1>21 DEF TypeOK, SuccessIsEarned, ResolvedOK, vars, At
  <1> QED
    BY <1>1, <1>2, <1>3, <1>4, <1>5, <1>6, <1>7, <1>8, <1>9, <1>10, <1>11, <1>12,
       <1>13, <1>14, <1>15, <1>16, <1>17, <1>18, <1>19, <1>20, <1>21
       DEF Next, RequestStep, RunStep, AddPin, RemovePin, Announce, ListSettles, ProvideSettles, RecordSettles

-----------------------------------------------------------------------------
\* IInv is an inductive invariant.
THEOREM Invariance == Spec => []IInv
  <1>1. IInv /\ [Next]_vars => IInv'
    BY TypeInductive, PendingInductive, ResolvedInductive, SuccessInductive DEF IInv
  <1> QED
    BY InitInv, <1>1, PTL DEF Spec

\* The datastore and the tables of tasks hold what their types say.
THEOREM TypeCorrect == Spec => []TypeOK
  <1>1. IInv => TypeOK
    BY DEF IInv
  <1> QED
    BY Invariance, <1>1, PTL

\* A "pending" record has an announcement under way, or was left behind by one
\* that the process or a failed write cut off.
THEOREM PendingHasAnOwner == Spec => []PendingIsUnderWay
  <1>1. IInv => PendingIsUnderWay
    BY DEF IInv
  <1> QED
    BY Invariance, <1>1, PTL

\* A CID whose record says "success" was taken by the DHT.
THEOREM SuccessfulWasProvided == Spec => []SuccessIsEarned
  <1>1. IInv => SuccessIsEarned
    BY DEF IInv
  <1> QED
    BY Invariance, <1>1, PTL

\* Shutdown or not under way, a run that ends a step starts a provide only on a
\* node that is up.
LEMMA StoppedRunsStartNothing ==
  ASSUME TypeOK, [Next]_vars, mode # "up", NEW q \in Runs, run'[q].step = "providing"
  PROVE  run'[q] = run[q]
  <1> USE DEF datastore
  <1>1. ASSUME NEW r \in Requests, RequestStep(r)
        PROVE  run' = run
    BY <1>1 DEF RequestStep, AddPin, RemovePin, Announce, Accept, PinStored, PinFails,
                UnpinEnds, Marked, ProvideResolves, ProvideRejects, RecordOutcome, OutcomeLost
  <1>2. ASSUME NEW p \in Runs, StartRun(p)
        PROVE  run'[q] = run[q]
    BY <1>2 DEF TypeOK, StartRun
  <1>3. ASSUME NEW p \in Runs, Listed(p)
        PROVE  run'[q] = run[q]
    <2>1. NextCid(p, pinned) /\ pinned \in SUBSET Cids
      BY <1>3 DEF TypeOK, Listed
    <2> QED
      BY <2>1, NextCidKeeps
  <1>4. ASSUME NEW p \in Runs, ListFails(p)
        PROVE  run'[q] = run[q]
    BY <1>4 DEF TypeOK, ListFails
  <1>5. ASSUME NEW p \in Runs, Reprovided(p)
        PROVE  run'[q] = run[q]
    BY <1>5 DEF TypeOK, Reprovided
  <1>6. ASSUME NEW p \in Runs, ReprovideFails(p)
        PROVE  run'[q] = run[q]
    <2>1. NextCid(p, run[p].todo) /\ run[p].todo \in SUBSET Cids
      BY <1>6 DEF TypeOK, ReprovideFails
    <2> QED
      BY <2>1, NextCidKeeps
  <1>7. ASSUME NEW p \in Runs, ReprovideRecorded(p)
        PROVE  run'[q] = run[q]
    <2>1. NextCid(p, run[p].todo) /\ run[p].todo \in SUBSET Cids
      BY <1>7 DEF TypeOK, ReprovideRecorded
    <2> QED
      BY <2>1, NextCidKeeps
  <1>8. ASSUME NEW p \in Runs, ReprovideRecordLost(p)
        PROVE  run'[q] = run[q]
    <2>1. NextCid(p, run[p].todo) /\ run[p].todo \in SUBSET Cids
      BY <1>8 DEF TypeOK, ReprovideRecordLost
    <2> QED
      BY <2>1, NextCidKeeps
  <1>9. CASE Shutdown \/ Exit \/ Crash \/ Restart \/ UNCHANGED vars
    BY <1>9 DEF TypeOK, Shutdown, Exit, Crash, TasksVanish, Restart, vars
  <1> QED
    BY <1>1, <1>2, <1>3, <1>4, <1>5, <1>6, <1>7, <1>8, <1>9
       DEF Next, RunStep, ListSettles, ProvideSettles, RecordSettles

\* No provide of the re-provide loop starts after shutdown has begun.
THEOREM StoppedLoopStaysStopped == Spec => NoProvideAfterStop
  <1>1. TypeOK /\ [Next]_vars =>
          [mode # "up" => \A p \in Runs :
             run'[p].step = "providing" => run'[p] = run[p]]_vars
    BY StoppedRunsStartNothing
  <1> QED
    BY TypeCorrect, <1>1, PTL DEF Spec, NoProvideAfterStop

-----------------------------------------------------------------------------
\* A run that has not listed the pins has nothing to do yet.
IdleListsNothing == \A p \in Runs : run[p].step \in {"idle", "listing"} => run[p].todo = {}

\* What a step of the process does to a run p while the process stays up: it takes
\* all pins from the listing, and drops a CID only to provide it.
RunAdvances(p) ==
  /\ run[p].step = "listing" /\ run'[p].step = "providing" =>
       run'[p].todo \cup {run'[p].cid} = pinned
  /\ \A c \in run[p].todo \ run'[p].todo :
       run'[p].step = "providing" /\ run'[p].cid = c

\* The loop of reprovideAllPinnedContent skips no CID: it starts with every pin
\* listed, and while the process is up a CID leaves what is left to do only by
\* being provided, whatever fails for the CIDs before it.  Short of fairness this
\* is what makes EveryPinReprovided true.
RunsSkipNothing ==
  [][mode = "up" /\ mode' = "up" => \A p \in Runs : RunAdvances(p)]_vars

LEMMA NextCidAdvances ==
  ASSUME TypeOK, IdleListsNothing, NEW q \in Runs, NEW todo \in SUBSET Cids, NextCid(q, todo),
         todo = IF run[q].step = "listing" THEN pinned ELSE run[q].todo
  PROVE  IdleListsNothing' /\ (mode = "up" => \A p \in Runs : RunAdvances(p))
  <1>1. CASE mode = "up" /\ \E c \in todo : run' = [run EXCEPT ![q] =
                [step |-> "providing", cid |-> c, todo |-> todo \ {c}]]
    <2>1. PICK c \in todo : run' = [run EXCEPT ![q] =
                [step |-> "providing", cid |-> c, todo |-> todo \ {c}]]
      BY <1>1
    <2>2. \A p \in Runs : run'[p] = IF p = q
             THEN [step |-> "providing", cid |-> c, todo |-> todo \ {c}] ELSE run[p]
      BY <2>1 DEF TypeOK
    <2>3. IdleListsNothing'
      BY <2>2 DEF IdleListsNothing
    <2>4. RunAdvances(q)
      BY <2>1, <2>2 DEF RunAdvances, IdleListsNothing
    <2>5. ASSUME NEW p \in Runs, p # q PROVE RunAdvances(p)
      BY <2>2, <2>5 DEF RunAdvances
    <2> QED
      BY <2>3, <2>4, <2>5
  <1>2. CASE (mode # "up" \/ todo = {}) /\ run' = [run EXCEPT ![q] = IdleRun]
    <2>1. \A p \in Runs : run'[p] = IF p = q THEN IdleRun ELSE run[p]
      BY <1>2 DEF TypeOK
    <2>2. IdleListsNothing'
      BY <2>1 DEF IdleListsNothing
    <2>3. ASSUME mode = "up" PROVE RunAdvances(q)
      <3>1. run[q].todo = {}
        BY <1>2, <2>3 DEF IdleListsNothing
      <3> QED
        BY <2>1, <3>1 DEF RunAdvances
    <2>4. ASSUME NEW p \in Runs, p # q PROVE RunAdvances(p)
      BY <2>1, <2>4 DEF RunAdvances
    <2> QED
      BY <2>2, <2>3, <2>4
  <1> QED
    BY <1>1, <1>2 DEF NextCid

LEMMA RunsAdvance ==
  ASSUME TypeOK, IdleListsNothing, [Next]_vars
  PROVE  /\ IdleListsNothing'
         /\ mode = "up" /\ mode' = "up" => \A p \in Runs : RunAdvances(p)
  <1> USE DEF datastore
  <1> DEFINE Goal == /\ IdleListsNothing'
                     /\ mode = "up" /\ mode' = "up" => \A p \in Runs : RunAdvances(p)
  <1>0. ASSUME run' = run PROVE Goal
    BY <1>0 DEF IdleListsNothing, RunAdvances
  <1>1. ASSUME NEW r \in Requests, RequestStep(r) PROVE Goal
    <2>1. run' = run
      BY <1>1 DEF RequestStep, AddPin, RemovePin, Announce, Accept, PinStored, PinFails,
                  UnpinEnds, Marked, ProvideResolves, ProvideRejects, RecordOutcome, OutcomeLost
    <2> QED
      BY <1>0, <2>1
  <1>2. ASSUME NEW p \in Runs, StartRun(p) PROVE Goal
    BY <1>2 DEF StartRun, TypeOK, IdleListsNothing, RunAdvances
  <1>3. ASSUME NEW p \in Runs, Listed(p) PROVE Goal
    <2>1. NextCid(p, pinned) /\ pinned \in SUBSET Cids /\ run[p].step = "listing"
      BY <1>3 DEF TypeOK, Listed
    <2> QED
      BY <2>1, NextCidAdvances
  <1>4. ASSUME NEW p \in Runs, ListFails(p) PROVE Goal
    BY <1>4 DEF ListFails, TypeOK, IdleListsNothing, RunAdvances
  <1>5. ASSUME NEW p \in Runs, Reprovided(p) PROVE Goal
    BY <1>5 DEF Reprovided, TypeOK, IdleListsNothing, RunAdvances
  <1>6. ASSUME NEW p \in Runs,
               ReprovideFails(p) \/ ReprovideRecorded(p) \/ ReprovideRecordLost(p)
        PROVE  Goal
    <2>1. NextCid(p, run[p].todo) /\ run[p].todo \in SUBSET Cids /\ run[p].step # "listing"
      BY <1>6 DEF TypeOK, ReprovideFails, ReprovideRecorded, ReprovideRecordLost
    <2> QED
      BY <2>1, NextCidAdvances
  <1>7. CASE Exit \/ Crash
    BY <1>7 DEF Exit, Crash, TasksVanish, IdleListsNothing
  <1>8. CASE Shutdown \/ Restart \/ UNCHANGED vars
    BY <1>0, <1>8 DEF Shutdown, Restart, vars
  <1> QED
    BY <1>1, <1>2, <1>3, <1>4, <1>5, <1>6, <1>7, <1>8
       DEF Next, RunStep, ListSettles, ProvideSettles, RecordSettles

\* reprovideAllPinnedContent offers every pin it listed: no failure, no other run and
\* no request makes a run leave one out (RunsSkipNothing).
THEOREM NoPinIsSkipped == Spec => RunsSkipNothing
  <1>1. Init => IdleListsNothing
    BY DEF Init, IdleListsNothing
  <1>2. TypeOK /\ IdleListsNothing /\ [Next]_vars => IdleListsNothing'
    BY RunsAdvance
  <1>3. TypeOK /\ IdleListsNothing /\ [Next]_vars =>
          [mode = "up" /\ mode' = "up" => \A p \in Runs : RunAdvances(p)]_vars
    BY RunsAdvance
  <1> QED
    BY <1>1, <1>2, <1>3, TypeCorrect, PTL DEF Spec, RunsSkipNothing
=============================================================================
