------------------------- MODULE BackupPeersProofs -------------------------
(* Proofs about BackupPeers: for any finite set of addresses, any official     *)
(* peers in each life of the process, any limits and any number of overlapping *)
(* bootstrap rounds.                                                           *)
EXTENDS BackupPeers, FiniteSetTheorems, TLAPS

\* The list on its way to the datastore fits.
WritingFits == save.step = "writing" => Cardinality(save.peers) <= MaxBackup

\* What startup has read is what is stored, as long as nothing was saved since.
ReadIsCurrent ==
  startup.step = "read" /\ ~estranged => startup.peers = stored

\* What a save has written is what is stored.
WrittenIsStored ==
  save.step = "written" /\ ~estranged => save.peers = stored

DownIsIdle == mode = "down" => save.step = "idle"

\* A list that was not made blindly and has room left has every stored peer.
WritingKeeps ==
  save.step = "writing" =>
    \/ PeersOf(stored) \subseteq PeersOf(save.peers)
    \/ Cardinality(save.peers) = MaxBackup
    \/ save.blind

MirrorInv == MemoryMirrorsStore /\ ReadIsCurrent /\ WrittenIsStored /\ DownIsIdle

IInv == TypeOK /\ WritingFits /\ MirrorInv /\ WritingKeeps

-----------------------------------------------------------------------------
\* selectPeersToSave returns a list that fits.
LEMMA SelectedFits ==
  ASSUME NEW from \in SUBSET Addrs, NEW previous \in SUBSET Addrs,
         NEW list \in Selected(from, previous)
  PROVE  list \in SUBSET Addrs /\ Cardinality(list) <= MaxBackup
  <1>1. CASE from = {}
    <2>1. list = {}
      BY <1>1 DEF Selected
    <2> QED
      BY <2>1, FS_EmptySet, BackupAssumption
  <1>2. CASE from # {}
    <2>1. PICK head \in Shuffles(from) : \E fill \in Fills(head, previous) : list = head \cup fill
      BY <1>2 DEF Selected
    <2>2. PICK fill \in Fills(head, previous) : list = head \cup fill
      BY <2>1
    <2>3. head \subseteq from
      BY DEF Shuffles, kSubset, Unofficial
    <2>4. fill \subseteq previous /\ Cardinality(head \cup fill) <= MaxBackup
      BY DEF Fills, Dialable
    <2> QED
      BY <2>2, <2>3, <2>4
  <1> QED
    BY <1>1, <1>2

\* It returns no official peer that was not on the last list.
LEMMA SelectedAddsNoOfficial ==
  ASSUME NEW from \in SUBSET Addrs, NEW previous \in SUBSET Addrs,
         NEW list \in Selected(from, previous)
  PROVE  PeersOf(list) \cap official \subseteq PeersOf(previous)
  <1>1. CASE from = {}
    BY <1>1 DEF Selected, PeersOf
  <1>2. CASE from # {}
    <2>1. PICK head \in Shuffles(from) : \E fill \in Fills(head, previous) : list = head \cup fill
      BY <1>2 DEF Selected
    <2>2. PICK fill \in Fills(head, previous) : list = head \cup fill
      BY <2>1
    <2>3. head \subseteq Unofficial(from)
      BY DEF Shuffles, kSubset
    <2>4. fill \subseteq previous
      BY DEF Fills, Dialable
    <2> QED
      BY <2>2, <2>3, <2>4 DEF PeersOf, Unofficial
  <1> QED
    BY <1>1, <1>2

\* Backfill: a list made from some connection and with room left has every peer
\* of the last list.
LEMMA SelectedBackfills ==
  ASSUME NEW from \in SUBSET Addrs, NEW previous \in SUBSET Addrs, from # {},
         NEW list \in Selected(from, previous), Cardinality(list) # MaxBackup
  PROVE  PeersOf(previous) \subseteq PeersOf(list)
  <1>1. PICK head \in Shuffles(from) : \E fill \in Fills(head, previous) : list = head \cup fill
    BY DEF Selected
  <1>2. PICK fill \in Fills(head, previous) : list = head \cup fill
    BY <1>1
  <1> QED
    BY <1>2 DEF Fills

\* The head of the loop keeps the table of rounds well formed.
LEMMA NextDialKeeps ==
  ASSUME TypeOK, NEW k \in Rounds, NEW todo \in SUBSET Addrs, NextDial(k, todo)
  PROVE  /\ round' \in [Rounds -> [step : {"idle", "loading", "read", "dialing"},
                                   addr : Addrs \cup {NoAddr}, todo : SUBSET Addrs]]
         /\ \A q \in Rounds : round'[q].step = "dialing" <=> round'[q].addr # NoAddr
  <1>1. CASE mode = "up" /\ \E a \in todo : round' = [round EXCEPT ![k] =
                [step |-> "dialing", addr |-> a, todo |-> todo \ {a}]]
    <2>1. PICK a \in todo : round' = [round EXCEPT ![k] =
                [step |-> "dialing", addr |-> a, todo |-> todo \ {a}]]
      BY <1>1
    <2>2. a \in Addrs /\ a # NoAddr
      BY BackupAssumption
    <2> QED
      BY <1>1, <2>1, <2>2 DEF TypeOK
  <1>2. CASE round' = [round EXCEPT ![k] = IdleRound]
    BY <1>2 DEF TypeOK, IdleRound
  <1> QED
    BY <1>1, <1>2 DEF NextDial

\* Connections, bootstrap rounds and stop touch no list.
LEMMA OtherSteps ==
  ASSUME [Next]_vars, ~SaveStep, ~Crash, ~Restart
  PROVE  /\ UNCHANGED <<stored, official, previouslySaved, startup, save, estranged>>
         /\ mode' = mode \/ (mode = "up" /\ mode' = "stopped")
  <1> USE DEF saveVars, process
  <1>1. ASSUME NEW a \in Addrs, Connect(a) \/ Disconnect(a)
        PROVE  UNCHANGED <<stored, official, previouslySaved, startup, save, estranged, mode>>
    BY <1>1 DEF Connect, Disconnect
  <1>2. ASSUME NEW k \in Rounds, RoundStep(k)
        PROVE  UNCHANGED <<stored, official, previouslySaved, startup, save, estranged, mode>>
    BY <1>2 DEF RoundStep, LoadSettles, DialSettles, StartRound, RoundReads, RoundLoads,
                RoundLoadFails, DialSucceeds, DialFails
  <1>3. CASE Stop
    BY <1>3 DEF Stop
  <1>4. CASE UNCHANGED vars
    BY <1>4 DEF vars
  <1> QED
    BY <1>1, <1>2, <1>3, <1>4 DEF Next

LEMMA InitInv == Init => IInv
  <1> SUFFICES ASSUME Init PROVE IInv
    OBVIOUS
  <1> USE BackupAssumption DEF Init, IdleSave, IdleRound
  <1>1. TypeOK
    BY DEF TypeOK
  <1>2. WritingFits /\ WritingKeeps
    BY DEF WritingFits, WritingKeeps
  <1>3. MirrorInv
    BY DEF MirrorInv, MemoryMirrorsStore, ReadIsCurrent, WrittenIsStored, DownIsIdle
  <1> QED
    BY <1>1, <1>2, <1>3 DEF IInv

\* Every step keeps the types; what is written fits.
LEMMA TypeInductive ==
  ASSUME IInv, [Next]_vars
  PROVE  TypeOK'
  <1> USE BackupAssumption DEF saveVars, process, IdleSave, IdleRound
  <1>0. TypeOK /\ WritingFits
    BY DEF IInv
  <1>1. ASSUME NEW a \in Addrs, Connect(a)
        PROVE  TypeOK'
    BY <1>0, <1>1 DEF TypeOK, WritingFits, Connect
  <1>2. ASSUME NEW a \in Addrs, Disconnect(a)
        PROVE  TypeOK'
    BY <1>0, <1>2 DEF TypeOK, WritingFits, Disconnect, Begin
  <1>3. ASSUME NEW k \in Rounds, StartRound(k)
        PROVE  TypeOK'
    BY <1>0, <1>3 DEF TypeOK, WritingFits, StartRound, Begin
  <1>4. ASSUME NEW k \in Rounds, RoundLoads(k)
        PROVE  TypeOK'
    <2>1. NextDial(k, round[k].todo) /\ round[k].todo \in SUBSET Addrs
      BY <1>0, <1>4 DEF TypeOK, RoundLoads
    <2> QED
      BY <1>0, <1>4, <2>1, NextDialKeeps DEF TypeOK, WritingFits, RoundLoads
  <1>5. ASSUME NEW k \in Rounds, RoundLoadFails(k)
        PROVE  TypeOK'
    BY <1>0, <1>5 DEF TypeOK, WritingFits, RoundLoadFails
  <1>6. ASSUME NEW k \in Rounds, DialSucceeds(k)
        PROVE  TypeOK'
    <2>1. NextDial(k, round[k].todo) /\ round[k].todo \in SUBSET Addrs
      BY <1>0, <1>6 DEF TypeOK, Dialable, DialSucceeds
    <2>2. round[k].addr \in Addrs
      BY <1>0, <1>6 DEF TypeOK, DialSucceeds
    <2> QED
      BY <1>0, <1>6, <2>1, <2>2, NextDialKeeps DEF TypeOK, WritingFits, DialSucceeds
  <1>7. ASSUME NEW k \in Rounds, DialFails(k)
        PROVE  TypeOK'
    <2>1. NextDial(k, round[k].todo) /\ round[k].todo \in SUBSET Addrs
      BY <1>0, <1>7 DEF TypeOK, Dialable, DialFails
    <2> QED
      BY <1>0, <1>7, <2>1, NextDialKeeps DEF TypeOK, WritingFits, DialFails
  <1>8. CASE StartupReads
    BY <1>0, <1>8 DEF TypeOK, WritingFits, StartupReads
  <1>9. CASE StartupLoaded
    BY <1>0, <1>9 DEF TypeOK, WritingFits, StartupLoaded
  <1>10. CASE StartupFails
    BY <1>0, <1>10 DEF TypeOK, WritingFits, StartupFails
  <1>11. CASE SaveRound
    <2>1. PICK list \in Selected(connected, previouslySaved) :
            save' = [step |-> "writing", peers |-> list,
                     blind |-> connected = {} \/ startup.step # "done" \/ estranged]
      BY <1>11 DEF SaveRound
    <2> QED
      BY <1>0, <1>11, <2>1, SelectedFits DEF TypeOK, WritingFits, SaveRound
  <1>12. CASE Saved
    BY <1>0, <1>12 DEF TypeOK, WritingFits, Saved
  <1>13. CASE SaveFails
    BY <1>0, <1>13 DEF TypeOK, WritingFits, SaveFails, Written
  <1>14. CASE Stop
    BY <1>0, <1>14 DEF TypeOK, WritingFits, Stop
  <1>15. CASE Crash
    BY <1>0, <1>15 DEF TypeOK, WritingFits, Crash
  <1>16. CASE Restart
    BY <1>0, <1>16 DEF TypeOK, WritingFits, Restart
  <1>18. CASE SaveWritten
    BY <1>0, <1>18 DEF TypeOK, WritingFits, SaveWritten, Written
  <1>19. ASSUME NEW k \in Rounds, RoundReads(k)
        PROVE  TypeOK'
    BY <1>0, <1>19 DEF TypeOK, WritingFits, RoundReads, Dialable
  <1>17. CASE UNCHANGED vars
    BY <1>0, <1>17 DEF TypeOK, WritingFits, vars
  <1> QED
    BY <1>1, <1>2, <1>3, <1>4, <1>5, <1>6, <1>7, <1>8, <1>9, <1>10, <1>11,
       <1>12, <1>13, <1>14, <1>15, <1>16, <1>17, <1>18, <1>19
       DEF Next, RoundStep, SaveStep, LoadSettles, DialSettles

\* Only lists that fit are written.
LEMMA FitsInductive ==
  ASSUME IInv, [Next]_vars
  PROVE  WritingFits'
  <1> USE BackupAssumption DEF WritingFits, IdleSave
  <1>0. TypeOK /\ WritingFits
    BY DEF IInv
  <1>1. CASE SaveRound
    <2>1. PICK list \in Selected(connected, previouslySaved) :
            save' = [step |-> "writing", peers |-> list,
                     blind |-> connected = {} \/ startup.step # "done" \/ estranged]
      BY <1>1 DEF SaveRound
    <2> QED
      BY <1>0, <2>1, SelectedFits DEF TypeOK
  <1>2. CASE StartupReads \/ StartupLoaded \/ StartupFails
    BY <1>0, <1>2 DEF StartupReads, StartupLoaded, StartupFails
  <1>3. CASE SaveWritten \/ SaveFails \/ Saved
    BY <1>0, <1>3 DEF SaveWritten, SaveFails, Saved, Written
  <1>4. CASE Crash \/ Restart
    BY <1>0, <1>4 DEF Crash, Restart
  <1>5. CASE ~SaveStep /\ ~Crash /\ ~Restart
    BY <1>0, <1>5, OtherSteps
  <1> QED
    BY <1>1, <1>2, <1>3, <1>4, <1>5 DEF SaveStep

\* Steps that set memory and datastore apart are noticed.
LEMMA MirrorInductive ==
  ASSUME IInv, [Next]_vars
  PROVE  MirrorInv'
  <1> USE DEF MirrorInv, MemoryMirrorsStore, ReadIsCurrent, WrittenIsStored, DownIsIdle, IdleSave,
              process
  <1>0. TypeOK /\ MirrorInv
    BY DEF IInv
  <1>1. CASE StartupReads
    BY <1>0, <1>1 DEF TypeOK, StartupReads
  <1>2. CASE StartupLoaded
    BY <1>0, <1>2 DEF TypeOK, StartupLoaded
  <1>3. CASE StartupFails
    BY <1>0, <1>3 DEF TypeOK, StartupFails
  <1>4. CASE SaveRound
    BY <1>0, <1>4 DEF TypeOK, SaveRound
  <1>5. CASE SaveWritten
    BY <1>0, <1>5 DEF TypeOK, SaveWritten, Written
  <1>6. CASE SaveFails
    BY <1>0, <1>6 DEF TypeOK, SaveFails, Written
  <1>7. CASE Saved
    BY <1>0, <1>7 DEF TypeOK, Saved
  <1>8. CASE Crash
    BY <1>0, <1>8 DEF TypeOK, Crash
  <1>9. CASE Restart
    BY <1>0, <1>9 DEF TypeOK, Restart
  <1>10. CASE ~SaveStep /\ ~Crash /\ ~Restart
    BY <1>0, <1>10, OtherSteps
  <1> QED
    BY <1>1, <1>2, <1>3, <1>4, <1>5, <1>6, <1>7, <1>8, <1>9, <1>10 DEF SaveStep

\* While a list is being written the datastore holds what it was made from.
LEMMA WritingInductive ==
  ASSUME IInv, [Next]_vars
  PROVE  WritingKeeps'
  <1> USE DEF IdleSave
  <1>0. TypeOK /\ MemoryMirrorsStore /\ WritingKeeps
    BY DEF IInv, MirrorInv
  <1>1. CASE SaveRound
    <2>1. PICK list \in Selected(connected, previouslySaved) :
            save' = [step |-> "writing", peers |-> list,
                     blind |-> connected = {} \/ startup.step # "done" \/ estranged]
      BY <1>1 DEF SaveRound
    <2>2. CASE save'.blind
      BY <1>1, <2>2 DEF WritingKeeps, SaveRound
    <2>3. CASE Cardinality(list) = MaxBackup
      BY <1>1, <2>1, <2>3 DEF WritingKeeps, SaveRound
    <2>4. CASE ~save'.blind /\ Cardinality(list) # MaxBackup
      <3>1. connected # {} /\ previouslySaved = stored
        BY <1>0, <1>1, <2>1, <2>4 DEF MemoryMirrorsStore, SaveRound
      <3>2. PeersOf(stored) \subseteq PeersOf(list)
        BY <1>0, <2>4, <3>1, SelectedBackfills DEF TypeOK
      <3> QED
        BY <1>1, <2>1, <3>2 DEF WritingKeeps, SaveRound, PeersOf
    <2> QED
      BY <2>2, <2>3, <2>4
  <1>2. CASE StartupReads \/ StartupLoaded \/ StartupFails
    BY <1>0, <1>2 DEF WritingKeeps, StartupReads, StartupLoaded, StartupFails
  <1>3. CASE SaveWritten \/ SaveFails \/ Saved
    BY <1>0, <1>3 DEF WritingKeeps, SaveWritten, SaveFails, Saved, Written
  <1>4. CASE Crash \/ Restart
    BY <1>0, <1>4 DEF WritingKeeps, Crash, Restart
  <1>5. CASE ~SaveStep /\ ~Crash /\ ~Restart
    BY <1>0, <1>5, OtherSteps DEF WritingKeeps
  <1> QED
    BY <1>1, <1>2, <1>3, <1>4, <1>5 DEF SaveStep

-----------------------------------------------------------------------------
\* IInv is an inductive invariant.
THEOREM Invariance == Spec => []IInv
  <1>1. IInv /\ [Next]_vars => IInv'
    BY TypeInductive, FitsInductive, MirrorInductive, WritingInductive DEF IInv
  <1> QED
    BY InitInv, <1>1, PTL DEF Spec

\* Types; the saved list fits MAX_BACKUP_PEERS.
THEOREM TypeCorrect == Spec => []TypeOK
  <1>1. IInv => TypeOK
    BY DEF IInv
  <1> QED
    BY Invariance, <1>1, PTL

\* Memory and datastore agree, errors and a slow start aside.
THEOREM MemoryIsMirror == Spec => []MemoryMirrorsStore
  <1>1. IInv => MemoryMirrorsStore
    BY DEF IInv, MirrorInv
  <1> QED
    BY Invariance, <1>1, PTL

\* The datastore changes when a put takes effect, and in no other step.
LEMMA StoredBySaves ==
  ASSUME [Next]_vars, stored' # stored
  PROVE  save.step = "writing" /\ stored' = save.peers
  <1>1. CASE StartupReads \/ StartupLoaded \/ StartupFails \/ SaveRound \/ Saved \/ Crash \/ Restart
    BY <1>1 DEF StartupReads, StartupLoaded, StartupFails, SaveRound, Saved, Crash, Restart
  <1>2. CASE SaveWritten \/ SaveFails
    BY <1>2 DEF SaveWritten, SaveFails
  <1>3. CASE ~SaveStep /\ ~Crash /\ ~Restart
    BY <1>3, OtherSteps
  <1> QED
    BY <1>1, <1>2, <1>3 DEF SaveStep

\* A stored peer is lost only to a full list or to one that was made blindly.
THEOREM BackupsAreKept == Spec => KnownBackupsKept
  <1>1. ASSUME IInv, [Next]_vars
        PROVE  [ \/ PeersOf(stored) \subseteq PeersOf(stored')
                 \/ Cardinality(stored') = MaxBackup
                 \/ save.blind ]_vars
    <2>1. CASE stored' = stored
      BY <2>1
    <2>2. CASE stored' # stored
      BY <1>1, <2>2, StoredBySaves DEF IInv, WritingKeeps
    <2> QED
      BY <2>1, <2>2
  <1> QED
    BY Invariance, <1>1, PTL DEF Spec, KnownBackupsKept

-----------------------------------------------------------------------------
\* Clean: no official peer is among A.
Clean(A) == PeersOf(A) \cap official = {}

\* No backup is an official bootstrap peer of this life: the places are for others.
NoOfficialBackup == Clean(stored)

\* No peer becomes official from one life of the process to the next.
NoneBecomesOfficial == [][official' \subseteq official]_official

\* The lists a backup may come from or be on its way in.
ListsClean ==
  /\ Clean(stored)
  /\ Clean(previouslySaved)
  /\ Clean(startup.peers)
  /\ save.step # "idle" => Clean(save.peers)

LEMMA CleanInductive ==
  ASSUME TypeOK, ListsClean, [Next]_vars, [official' \subseteq official]_official
  PROVE  ListsClean'
  <1> USE DEF IdleSave, process
  <1>0. ASSUME NEW A, Clean(A) PROVE PeersOf(A) \cap official' = {}
    BY <1>0 DEF Clean
  <1>00. PeersOf({}) \cap official = {}
    BY DEF PeersOf
  <1>1. CASE StartupReads
    BY <1>1 DEF ListsClean, Clean, PeersOf, StartupReads, TypeOK
  <1>2. CASE StartupLoaded
    BY <1>2, <1>00 DEF ListsClean, Clean, PeersOf, StartupLoaded
  <1>3. CASE StartupFails
    BY <1>3, <1>00 DEF ListsClean, Clean, PeersOf, StartupFails
  <1>4. CASE SaveRound
    <2>1. PICK list \in Selected(connected, previouslySaved) :
            save' = [step |-> "writing", peers |-> list,
                     blind |-> connected = {} \/ startup.step # "done" \/ estranged]
      BY <1>4 DEF SaveRound
    <2>2. PeersOf(list) \cap official \subseteq PeersOf(previouslySaved)
      BY SelectedAddsNoOfficial DEF TypeOK
    <2>3. Clean(list)
      BY <2>2 DEF ListsClean, Clean
    <2> QED
      BY <1>4, <2>1, <2>3 DEF ListsClean, Clean, PeersOf, SaveRound
  <1>5. CASE SaveWritten
    BY <1>5 DEF ListsClean, Clean, PeersOf, SaveWritten, Written
  <1>6. CASE SaveFails
    BY <1>6 DEF ListsClean, Clean, PeersOf, SaveFails, Written
  <1>7. CASE Saved
    BY <1>7 DEF ListsClean, Clean, PeersOf, Saved
  <1>8. CASE Crash
    BY <1>8, <1>00 DEF ListsClean, Clean, PeersOf, Crash
  <1>9. CASE Restart
    BY <1>9, <1>0, <1>00 DEF ListsClean, Clean, PeersOf, Restart
  <1>10. CASE ~SaveStep /\ ~Crash /\ ~Restart
    BY <1>10, OtherSteps DEF ListsClean, Clean, PeersOf
  <1> QED
    BY <1>1, <1>2, <1>3, <1>4, <1>5, <1>6, <1>7, <1>8, <1>9, <1>10 DEF SaveStep

\* As long as no peer becomes official from one life to the next, a list without
\* official peers stays without.  The backfill does not filter: a saved peer that
\* the operator names in BOOTSTRAP_PEERS later keeps its place among the backups.
THEOREM OfficialsAreNotAdded ==
  Spec /\ NoOfficialBackup /\ NoneBecomesOfficial => []NoOfficialBackup
  <1>1. Init /\ NoOfficialBackup => ListsClean
    BY DEF Init, NoOfficialBackup, ListsClean, Clean, PeersOf, IdleSave
  <1>2. TypeOK /\ ListsClean /\ [Next]_vars /\ [official' \subseteq official]_official => ListsClean'
    BY CleanInductive
  <1>3. ListsClean => NoOfficialBackup
    BY DEF ListsClean, NoOfficialBackup
  <1> QED
    BY <1>1, <1>2, <1>3, TypeCorrect, PTL DEF Spec, NoneBecomesOfficial

-----------------------------------------------------------------------------
\* A round that has not read the backups has nothing to dial yet.
IdleDialsNothing == \A k \in Rounds : round[k].step \in {"idle", "loading"} => round[k].todo = {}

\* What a step does to a round k while the loop runs: a read takes every backup
\* peer there is, and an address is dropped only to be dialled.
RoundAdvances(k) ==
  /\ round[k].step = "loading" /\ round'[k].step = "read" => round'[k].todo = Dialable(stored)
  /\ \A a \in round[k].todo \ round'[k].todo :
       round'[k].step = "dialing" /\ round'[k].addr = a

\* A bootstrap round skips no backup peer: it starts with every address stored
\* that names one, and while the loop runs an address leaves what is left to dial
\* only by being dialled, whatever became of the dials before it.  Short of
\* fairness this is what makes EveryBackupDialed true.
RoundsSkipNothing ==
  [][mode = "up" /\ mode' = "up" => \A k \in Rounds : RoundAdvances(k)]_vars

LEMMA NextDialAdvances ==
  ASSUME TypeOK, IdleDialsNothing, NEW q \in Rounds, NEW todo \in SUBSET Addrs, NextDial(q, todo),
         todo = round[q].todo, round[q].step \in {"read", "dialing"}
  PROVE  IdleDialsNothing' /\ (mode = "up" => \A k \in Rounds : RoundAdvances(k))
  <1>1. CASE mode = "up" /\ \E a \in todo : round' = [round EXCEPT ![q] =
                [step |-> "dialing", addr |-> a, todo |-> todo \ {a}]]
    <2>1. PICK a \in todo : round' = [round EXCEPT ![q] =
                [step |-> "dialing", addr |-> a, todo |-> todo \ {a}]]
      BY <1>1
    <2>2. \A k \in Rounds : round'[k] = IF k = q
             THEN [step |-> "dialing", addr |-> a, todo |-> todo \ {a}] ELSE round[k]
      BY <2>1 DEF TypeOK
    <2>3. IdleDialsNothing'
      BY <2>2 DEF IdleDialsNothing
    <2>4. RoundAdvances(q)
      BY <2>1, <2>2 DEF RoundAdvances, IdleDialsNothing
    <2>5. ASSUME NEW k \in Rounds, k # q PROVE RoundAdvances(k)
      BY <2>2, <2>5 DEF RoundAdvances
    <2> QED
      BY <2>3, <2>4, <2>5
  <1>2. CASE (mode # "up" \/ todo = {}) /\ round' = [round EXCEPT ![q] = IdleRound]
    <2>1. \A k \in Rounds : round'[k] = IF k = q THEN IdleRound ELSE round[k]
      BY <1>2 DEF TypeOK
    <2>2. IdleDialsNothing'
      BY <2>1 DEF IdleDialsNothing, IdleRound
    <2>3. ASSUME mode = "up" PROVE RoundAdvances(q)
      <3>1. round[q].todo = {}
        BY <1>2, <2>3 DEF IdleDialsNothing
      <3> QED
        BY <2>1, <3>1 DEF RoundAdvances, IdleRound
    <2>4. ASSUME NEW k \in Rounds, k # q PROVE RoundAdvances(k)
      BY <2>1, <2>4 DEF RoundAdvances
    <2> QED
      BY <2>2, <2>3, <2>4
  <1> QED
    BY <1>1, <1>2 DEF NextDial

LEMMA RoundsAdvance ==
  ASSUME TypeOK, IdleDialsNothing, [Next]_vars
  PROVE  /\ IdleDialsNothing'
         /\ mode = "up" /\ mode' = "up" => \A k \in Rounds : RoundAdvances(k)
  <1> USE DEF saveVars
  <1> DEFINE Goal == /\ IdleDialsNothing'
                     /\ mode = "up" /\ mode' = "up" => \A k \in Rounds : RoundAdvances(k)
  <1>0. ASSUME round' = round PROVE Goal
    BY <1>0 DEF IdleDialsNothing, RoundAdvances
  <1>1. ASSUME NEW k \in Rounds, round[k].step = "idle", Begin(k) PROVE Goal
    BY <1>1 DEF Begin, IdleRound, TypeOK, IdleDialsNothing, RoundAdvances
  <1>2. ASSUME NEW a \in Addrs, Connect(a) \/ Disconnect(a) PROVE Goal
    <2>1. round' = round \/ \E k \in Rounds : round[k].step = "idle" /\ Begin(k)
      BY <1>2 DEF Connect, Disconnect
    <2> QED
      BY <1>0, <1>1, <2>1
  <1>3. ASSUME NEW k \in Rounds, StartRound(k) PROVE Goal
    BY <1>1, <1>3 DEF StartRound
  <1>4. ASSUME NEW k \in Rounds, RoundLoads(k) PROVE Goal
    <2>1. /\ NextDial(k, round[k].todo) /\ round[k].todo \in SUBSET Addrs
          /\ round[k].step = "read"
      BY <1>4 DEF TypeOK, RoundLoads
    <2> QED
      BY <2>1, NextDialAdvances
  <1>5. ASSUME NEW k \in Rounds, RoundLoadFails(k) PROVE Goal
    BY <1>5 DEF RoundLoadFails, IdleRound, TypeOK, IdleDialsNothing, RoundAdvances
  <1>6. ASSUME NEW k \in Rounds, DialSettles(k) PROVE Goal
    <2>1. NextDial(k, round[k].todo) /\ round[k].todo \in SUBSET Addrs /\ round[k].step = "dialing"
      BY <1>6 DEF TypeOK, DialSettles, DialSucceeds, DialFails
    <2> QED
      BY <2>1, NextDialAdvances
  <1>7. CASE SaveStep \/ Stop \/ Restart \/ UNCHANGED vars
    <2>1. round' = round
      BY <1>7 DEF SaveStep, StartupReads, StartupLoaded, StartupFails, SaveRound, SaveWritten,
                  Saved, SaveFails,                  Stop, Restart, vars
    <2> QED
      BY <1>0, <2>1
  <1>9. ASSUME NEW k \in Rounds, RoundReads(k) PROVE Goal
    BY <1>9 DEF RoundReads, TypeOK, IdleDialsNothing, RoundAdvances
  <1>8. CASE Crash
    BY <1>8 DEF Crash, IdleRound, IdleDialsNothing
  <1> QED
    BY <1>2, <1>3, <1>4, <1>5, <1>6, <1>7, <1>8, <1>9 DEF Next, RoundStep, LoadSettles

\* dialBackupPeers dials every backup peer that was stored when the round began,
\* whatever its other dials, saves and loads come to (RoundsSkipNothing).
THEOREM NoBackupIsSkipped == Spec => RoundsSkipNothing
  <1>1. Init => IdleDialsNothing
    BY DEF Init, IdleDialsNothing, IdleRound
  <1>2. TypeOK /\ IdleDialsNothing /\ [Next]_vars => IdleDialsNothing'
    BY RoundsAdvance
  <1>3. TypeOK /\ IdleDialsNothing /\ [Next]_vars =>
          [mode = "up" /\ mode' = "up" => \A k \in Rounds : RoundAdvances(k)]_vars
    BY RoundsAdvance
  <1> QED
    BY <1>1, <1>2, <1>3, TypeCorrect, PTL DEF Spec, RoundsSkipNothing
=============================================================================
