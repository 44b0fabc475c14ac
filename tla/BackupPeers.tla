----------------------------- MODULE BackupPeers -----------------------------
(***************************************************************************)
(* The backup bootstrap loop (src/src/backup-bootstrap): once an hour the  *)
(* addresses of connected peers are saved to the datastore, and while the  *)
(* node has few connections it dials the saved ones, in rounds started by  *)
(* a timer and by every disconnection.  What was saved last is also kept   *)
(* in memory, read back from the datastore when the process starts.  The   *)
(* official bootstrap peers come from the environment of the process       *)
(* (src/src/libp2p-config.ts) and may be others in its next life.          *)
(*                                                                         *)
(* Addresses are model values; PeerOf is multiaddr.getPeerId().  Lists are *)
(* sets: the connected peers are shuffled, and which of the old ones fill  *)
(* the list up when not all fit is left open.                              *)
(***************************************************************************)
EXTENDS Naturals, FiniteSets, FiniteSetsExt

CONSTANTS
  Addrs,
  PeerOf,     \* the peer an address names, or NoPeer: [Addrs -> peers]
  NoPeer,
  Candidates, \* peers the operator may name in BOOTSTRAP_PEERS
  MaxBackup,  \* MAX_BACKUP_PEERS, 20
  Threshold,  \* MIN_PEER_THRESHOLD, 25
  Rounds,     \* bound: bootstrap rounds under way at a time
  NoAddr

ASSUME BackupAssumption ==
  /\ IsFiniteSet(Addrs)
  /\ MaxBackup \in Nat \ {0}
  /\ Threshold \in Nat
  /\ NoPeer \notin Candidates
  /\ NoAddr \notin Addrs

VARIABLES
  stored,      \* /local/temp_bootstrap_peers in the datastore
  connected,   \* remote addresses of the connections of libp2p
  mode,        \* "up", "stopped" or "down"
  official,    \* peers of the official bootstrap addresses of this life
  previouslySaved,
  startup,     \* loadBackupPeers at startup: its step and what it has read
  save,        \* the save round: its step and what it writes
  round,       \* the bootstrap rounds
  \* --- history
  estranged    \* a load or a write failed, or crossed, since they last agreed

process == <<mode, official>>
saveVars == <<previouslySaved, startup, save>>
vars == <<stored, connected, process, saveVars, round, estranged>>

PeersOf(A) == {PeerOf[a] : a \in A} \ {NoPeer}
Dialable(A) == {a \in A : PeerOf[a] # NoPeer}

Unofficial(A) == {a \in A : PeerOf[a] \notin official}

IdleSave == [step |-> "idle", peers |-> {}, blind |-> FALSE]
IdleRound == [step |-> "idle", addr |-> NoAddr, todo |-> {}]

Init ==
  /\ stored \in {A \in SUBSET Addrs : Cardinality(A) <= MaxBackup}
  /\ official \in SUBSET Candidates
  /\ connected = {}
  /\ mode = "up"
  /\ previouslySaved = {}
  /\ startup = [step |-> "reading", peers |-> {}]
  /\ save = IdleSave
  /\ round = [k \in Rounds |-> IdleRound]
  /\ estranged = FALSE

-----------------------------------------------------------------------------
(* selectPeersToSave.                                                      *)

\* Ways to fill a list up with addresses of peers it does not have yet.
Fills(list, previous) ==
  {fill \in SUBSET {a \in Dialable(previous) : PeerOf[a] \notin PeersOf(list)} :
     /\ Cardinality(fill) = Cardinality(PeersOf(fill))
     /\ Cardinality(list \cup fill) <= MaxBackup
     /\ \/ Cardinality(list \cup fill) = MaxBackup
        \/ PeersOf(previous) \subseteq PeersOf(list \cup fill)}

\* The connected peers that are not official, as many as fit.
Shuffles(from) ==
  kSubset(Min({MaxBackup, Cardinality(Unofficial(from))}), Unofficial(from))

\* Mutant: no backfill.
SelectedConnectedOnly(from, previous) ==
  IF from = {} THEN {{}} ELSE Shuffles(from)

\* Mutant: no cap.
SelectedUncapped(from, previous) ==
  IF from = {} THEN {{}}
  ELSE {Unofficial(from) \cup fill : fill \in Fills(Unofficial(from), previous) \cup {{}}}

\* The lists it may return.
Selected(from, previous) ==
  IF from = {} THEN {{}}
  ELSE UNION {{list \cup fill : fill \in Fills(list, previous)} : list \in Shuffles(from)}

-----------------------------------------------------------------------------
(* Connections, which others open and close as well.                       *)

Connect(a) ==
  /\ a \notin connected
  /\ connected' = connected \cup {a}
  /\ UNCHANGED <<stored, process, saveVars, round, estranged>>

Begin(k) == round' = [round EXCEPT ![k] = [IdleRound EXCEPT !.step = "loading"]]

\* The connection with address a closes.  peer:disconnect, when it was the last
\* to its peer, starts a round at once.
Disconnect(a) ==
  /\ a \in connected
  /\ connected' = connected \ {a}
  /\ \/ /\ mode = "up"
        /\ Cardinality(connected') < Threshold
        /\ \E k \in Rounds : round[k].step = "idle" /\ Begin(k)
     \/ UNCHANGED round
  /\ UNCHANGED <<stored, process, saveVars, estranged>>

-----------------------------------------------------------------------------
(* Startup and the hourly save.                                            *)

\* The datastore reads the list; the answer is on its way.
StartupReads ==
  /\ startup.step = "reading"
  /\ startup' = [step |-> "read", peers |-> stored]
  /\ UNCHANGED <<stored, connected, process, previouslySaved, save, round, estranged>>

StartupLoaded ==
  /\ startup.step = "read"
  /\ previouslySaved' = startup.peers
  /\ startup' = [step |-> "done", peers |-> {}]
  /\ UNCHANGED <<stored, connected, process, save, round, estranged>>

\* loadBackupPeers catches the error and returns no peers.
StartupFails ==
  /\ startup.step \in {"reading", "read"}
  /\ previouslySaved' = {}
  /\ startup' = [step |-> "done", peers |-> {}]
  /\ estranged' = TRUE
  /\ UNCHANGED <<stored, connected, process, save, round>>

\* The timer: saveBackupPeersRound up to its await.
SaveRound ==
  /\ mode = "up"
  /\ save.step = "idle"
  /\ \E list \in Selected(connected, previouslySaved) :
       save' = [step |-> "writing", peers |-> list,
                blind |-> connected = {} \/ startup.step # "done" \/ estranged]
  /\ UNCHANGED <<stored, connected, process, previouslySaved, startup, round, estranged>>

Written == save' = [step |-> "written", peers |-> save.peers, blind |-> FALSE]

\* The put takes effect; the round has not been called back yet.
SaveWritten ==
  /\ save.step = "writing"
  /\ stored' = save.peers
  /\ Written
  /\ estranged' = (startup.step # "done")
  /\ UNCHANGED <<connected, process, previouslySaved, startup, round>>

\* The put fails, with or without effect; saveBackupPeers catches the error and
\* the round goes on as if it had succeeded.
SaveFails ==
  /\ save.step = "writing"
  /\ stored' \in {stored, save.peers}
  /\ Written
  /\ estranged' = TRUE
  /\ UNCHANGED <<connected, process, previouslySaved, startup, round>>

\* Mutant: previouslySaved is not assigned.
SavedUnremembered ==
  /\ save.step = "written"
  /\ save' = IdleSave
  /\ UNCHANGED <<stored, connected, process, previouslySaved, startup, round, estranged>>

\* After the await: the round remembers what it wrote, or meant to.
Saved ==
  /\ save.step = "written"
  /\ previouslySaved' = save.peers
  /\ save' = IdleSave
  /\ UNCHANGED <<stored, connected, process, startup, round, estranged>>

-----------------------------------------------------------------------------
(* Bootstrap rounds.                                                       *)

\* The timer, every 30 seconds.
StartRound(k) ==
  /\ mode = "up"
  /\ round[k].step = "idle"
  /\ Cardinality(connected) < Threshold
  /\ Begin(k)
  /\ UNCHANGED <<stored, connected, process, saveVars, estranged>>

\* The head of the for loop; addresses that name no peer are passed over.
NextDial(k, todo) ==
  \/ /\ mode = "up"
     /\ \E a \in todo :
          round' = [round EXCEPT ![k] =
                      [step |-> "dialing", addr |-> a, todo |-> todo \ {a}]]
  \/ /\ mode # "up" \/ todo = {}
     /\ round' = [round EXCEPT ![k] = IdleRound]

\* The datastore reads the list for the round; the answer is on its way.
RoundReads(k) ==
  /\ round[k].step = "loading"
  /\ round' = [round EXCEPT ![k] =
                 [step |-> "read", addr |-> NoAddr, todo |-> Dialable(stored)]]
  /\ UNCHANGED <<stored, connected, process, saveVars, estranged>>

RoundLoads(k) ==
  /\ round[k].step = "read"
  /\ NextDial(k, round[k].todo)
  /\ UNCHANGED <<stored, connected, process, saveVars, estranged>>

RoundLoadFails(k) ==
  /\ round[k].step = "loading"
  /\ round' = [round EXCEPT ![k] = IdleRound]
  /\ UNCHANGED <<stored, connected, process, saveVars, estranged>>

DialSucceeds(k) ==
  /\ round[k].step = "dialing"
  /\ connected' = connected \cup {round[k].addr}
  /\ NextDial(k, round[k].todo)
  /\ UNCHANGED <<stored, process, saveVars, estranged>>

\* Mutant: the error of one dial ends the round.
DialFailsForAll(k) ==
  /\ round[k].step = "dialing"
  /\ round' = [round EXCEPT ![k] = IdleRound]
  /\ UNCHANGED <<stored, connected, process, saveVars, estranged>>

DialFails(k) ==
  /\ round[k].step = "dialing"
  /\ NextDial(k, round[k].todo)
  /\ UNCHANGED <<stored, connected, process, saveVars, estranged>>

LoadSettles(k) == RoundReads(k) \/ RoundLoads(k) \/ RoundLoadFails(k)
DialSettles(k) == DialSucceeds(k) \/ DialFails(k)

-----------------------------------------------------------------------------
Stop ==
  /\ mode = "up"
  /\ mode' = "stopped"
  /\ UNCHANGED <<stored, connected, official, saveVars, round, estranged>>

\* The process ends, gracefully or not, and comes back.
Crash ==
  /\ mode # "down"
  /\ mode' = "down"
  /\ connected' = {}
  /\ previouslySaved' = {}
  /\ startup' = [step |-> "done", peers |-> {}]
  /\ save' = IdleSave
  /\ round' = [k \in Rounds |-> IdleRound]
  /\ estranged' = TRUE
  /\ UNCHANGED <<stored, official>>

\* The operator may have named other bootstrap peers meanwhile.
Restart ==
  /\ mode = "down"
  /\ mode' = "up"
  /\ official' \in SUBSET Candidates
  /\ startup' = [step |-> "reading", peers |-> {}]
  /\ estranged' = FALSE
  /\ UNCHANGED <<stored, connected, previouslySaved, save, round>>

RoundStep(k) == StartRound(k) \/ LoadSettles(k) \/ DialSettles(k)
SaveStep == StartupReads \/ StartupLoaded \/ StartupFails \/ SaveRound
            \/ SaveWritten \/ SaveFails \/ Saved

Next ==
  \/ \E a \in Addrs : mode # "down" /\ (Connect(a) \/ Disconnect(a))
  \/ \E k \in Rounds : RoundStep(k)
  \/ SaveStep
  \/ Stop \/ Crash \/ Restart

Spec == Init /\ [][Next]_vars

\* The timer fires, loads and dials settle (libp2p bounds a dial), and a load
\* that is retried for ever works some day.
Fairness ==
  \A k \in Rounds : WF_vars(RoundStep(k)) /\ SF_vars(RoundReads(k))

FairSpec == Spec /\ Fairness

-----------------------------------------------------------------------------
(* Properties.                                                             *)

\* Types; the saved lists fit MAX_BACKUP_PEERS.
TypeOK ==
  /\ stored \in SUBSET Addrs
  /\ connected \in SUBSET Addrs
  /\ mode \in {"up", "stopped", "down"}
  /\ official \in SUBSET Candidates
  /\ previouslySaved \in SUBSET Addrs
  /\ startup \in [step : {"reading", "read", "done"}, peers : SUBSET Addrs]
  /\ save \in [step : {"idle", "writing", "written"}, peers : SUBSET Addrs, blind : BOOLEAN]
  /\ round \in [Rounds -> [step : {"idle", "loading", "read", "dialing"},
                           addr : Addrs \cup {NoAddr}, todo : SUBSET Addrs]]
  /\ \A k \in Rounds : round[k].step = "dialing" <=> round[k].addr # NoAddr
  /\ estranged \in BOOLEAN
  /\ Cardinality(stored) <= MaxBackup

\* Backfill works from memory.  Whenever no save is between its put and the
\* assignment after it, memory and datastore agree, unless the load at startup has
\* not ended or failed, or the last write failed or crossed that load.
MemoryMirrorsStore ==
  startup.step = "done" /\ save.step # "written" /\ ~estranged =>
    previouslySaved = stored

\* A saved peer is lost only when the new list is full, or when the list was
\* made blindly: by a node without connections, or one whose memory was not what
\* the datastore held.
KnownBackupsKept ==
  [][ \/ PeersOf(stored) \subseteq PeersOf(stored')
      \/ Cardinality(stored') = MaxBackup
      \/ save.blind ]_vars

\* A node that stays short of connections dials every backup peer it has again
\* and again, whether or not the others can be reached.
EveryBackupDialed ==
  \A a \in Dialable(Addrs) :
    <>[](mode = "up" /\ Cardinality(connected) < Threshold /\ a \in stored) =>
      []<>(\E k \in Rounds : round[k].step = "dialing" /\ round[k].addr = a)
=============================================================================
