-------------------------------- MODULE Pins --------------------------------
(***************************************************************************)
(* Pins and their announcements to the DHT.  The datastore keeps the pins  *)
(* and, per CID, the outcome of its last announcement (src/src/ipfs-node.ts*)
(* pins and dht).  HTTP requests add and remove pins and announce CIDs     *)
(* (src/src/api/pins.ts, src/src/api/dht.ts); the announcement itself is a *)
(* task nobody waits for.  The re-provide loop (src/src/reprovide.ts)      *)
(* announces every pin again, in runs the interval timer starts whether or *)
(* not the last one has ended.                                             *)
(*                                                                         *)
(* The process may crash at any time and loses all its tasks; a graceful   *)
(* shutdown (src/src/index.ts) waits for the connections of the clients,   *)
(* on which requests are accepted to the end, and for no task.  Every call *)
(* of the datastore and of the DHT may fail, and a write that fails may    *)
(* have taken effect.                                                      *)
(***************************************************************************)
EXTENDS Naturals

CONSTANTS
  Cids,
  Requests,  \* bound: HTTP requests and announcements under way at a time
  Runs,      \* bound: re-provide runs under way at a time
  NoCid

ASSUME PinsAssumption == NoCid \notin Cids

VARIABLES
  \* --- the datastore
  pinned,    \* /local/pins
  status,    \* /local/dht-announces: [Cids -> status of the record, or "none"]
  \* --- the process
  mode,      \* "up", "stopping" (the loops are stopped) or "down"
  req,       \* the requests and the announcements they started
  run,       \* the re-provide runs
  \* --- history
  provided,  \* CIDs that contentRouting.provide was resolved for
  dropped    \* CIDs whose last announcement ended with no outcome written

datastore == <<pinned, status>>
vars == <<pinned, status, mode, req, run, provided, dropped>>

ReqSteps == {"idle", "pinning", "unpinning", "announcing", "marking",
             "providing", "succeeded", "failed"}

\* A provide is under way or its outcome is about to be written.
Underway == {"providing", "succeeded", "failed"}
Announcing == {"announcing", "marking"} \cup Underway

RunSteps == {"idle", "listing", "providing", "succeeded"}

IdleReq == [step |-> "idle", cid |-> NoCid]
IdleRun == [step |-> "idle", cid |-> NoCid, todo |-> {}]

Init ==
  /\ pinned = {}
  /\ status = [c \in Cids |-> "none"]
  /\ mode = "up"
  /\ req = [r \in Requests |-> IdleReq]
  /\ run = [p \in Runs |-> IdleRun]
  /\ provided = {}
  /\ dropped = {}

-----------------------------------------------------------------------------
At(r, step) == req[r].step = step
Goto(r, step) == req' = [req EXCEPT ![r].step = step]
End(r) == req' = [req EXCEPT ![r] = IdleReq]

\* A record of this status is written for c.
Record(c, s) ==
  /\ status' = [status EXCEPT ![c] = s]
  /\ dropped' = dropped \ {c}

\* setDHTStatus catches every error: the caller goes on, written or not.
SetStatus(c, s) == Record(c, s) \/ UNCHANGED <<status, dropped>>

-----------------------------------------------------------------------------
(* POST /pins/add, /pins/rm, /dht/announce.                                *)

\* A server that is closing still takes requests on the connections it has.
Accept(r, c, step) ==
  /\ mode # "down"
  /\ At(r, "idle")
  /\ req' = [req EXCEPT ![r] = [step |-> step, cid |-> c]]
  /\ UNCHANGED <<datastore, mode, run, provided, dropped>>

AddPin(r, c) == Accept(r, c, "pinning")
RemovePin(r, c) == Accept(r, c, "unpinning")
Announce(r, c) == Accept(r, c, "announcing")

\* The pin is stored: the client is answered and announceContent runs up to
\* its first await.
PinStored(r) ==
  /\ At(r, "pinning")
  /\ pinned' = pinned \cup {req[r].cid}
  /\ Goto(r, "marking")
  /\ UNCHANGED <<status, mode, run, provided, dropped>>

PinFails(r) ==
  /\ At(r, "pinning")
  /\ pinned' \in {pinned, pinned \cup {req[r].cid}}
  /\ End(r)
  /\ UNCHANGED <<status, mode, run, provided, dropped>>

\* pinRm ended, well or not.
UnpinEnds(r) ==
  /\ At(r, "unpinning")
  /\ pinned' \in {pinned, pinned \ {req[r].cid}}
  /\ End(r)
  /\ UNCHANGED <<status, mode, run, provided, dropped>>

\* Mutant: the provide starts when the outcome could already be written.
MarkedWhileProviding(r) ==
  /\ req[r].step \in {"announcing", "marking"}
  /\ SetStatus(req[r].cid, "pending")
  /\ Goto(r, "succeeded")
  /\ UNCHANGED <<pinned, mode, run, provided>>

\* announceContent goes on after setStatus(pending): the provide starts, and a
\* request to announce is answered.
Marked(r) ==
  /\ req[r].step \in {"announcing", "marking"}
  /\ SetStatus(req[r].cid, "pending")
  /\ Goto(r, "providing")
  /\ UNCHANGED <<pinned, mode, run, provided>>

ProvideResolves(r) ==
  /\ At(r, "providing")
  /\ provided' = provided \cup {req[r].cid}
  /\ Goto(r, "succeeded")
  /\ UNCHANGED <<datastore, mode, run, dropped>>

\* Mutant: then() without the second handler.
ProvideRejectsQuietly(r) ==
  /\ At(r, "providing")
  /\ End(r)
  /\ UNCHANGED <<datastore, mode, run, provided, dropped>>

ProvideRejects(r) ==
  /\ At(r, "providing")
  /\ Goto(r, "failed")
  /\ UNCHANGED <<datastore, mode, run, provided, dropped>>

OutcomeOf(r) == IF At(r, "succeeded") THEN "success" ELSE "failed"

RecordOutcome(r) ==
  /\ req[r].step \in {"succeeded", "failed"}
  /\ Record(req[r].cid, OutcomeOf(r))
  /\ End(r)
  /\ UNCHANGED <<pinned, mode, run, provided>>

\* The write of the outcome failed; setDHTStatus logs it.
OutcomeLost(r) ==
  /\ req[r].step \in {"succeeded", "failed"}
  /\ dropped' = dropped \cup {req[r].cid}
  /\ End(r)
  /\ UNCHANGED <<datastore, mode, run, provided>>

RequestStep(r) ==
  \/ \E c \in Cids : AddPin(r, c) \/ RemovePin(r, c) \/ Announce(r, c)
  \/ PinStored(r) \/ PinFails(r) \/ UnpinEnds(r)
  \/ Marked(r) \/ ProvideResolves(r) \/ ProvideRejects(r)
  \/ RecordOutcome(r) \/ OutcomeLost(r)

-----------------------------------------------------------------------------
(* The re-provide loop.                                                    *)

\* Mutant: the loop does not look at stopped.
NextCidRegardless(p, todo) ==
  \/ \E c \in todo :
       run' = [run EXCEPT ![p] =
                 [step |-> "providing", cid |-> c, todo |-> todo \ {c}]]
  \/ /\ todo = {}
     /\ run' = [run EXCEPT ![p] = IdleRun]

\* Mutant: the loop goes one past the end of the list, to no CID.
NextCidPastEnd(p, todo) ==
  \/ /\ mode = "up"
     /\ \E c \in IF todo = {} THEN {NoCid} ELSE todo :
          run' = [run EXCEPT ![p] =
                    [step |-> "providing", cid |-> c, todo |-> todo \ {c}]]
  \/ /\ mode # "up"
     /\ run' = [run EXCEPT ![p] = IdleRun]

\* The head of the for loop, with these CIDs left.
NextCid(p, todo) ==
  \/ /\ mode = "up"
     /\ \E c \in todo :
          run' = [run EXCEPT ![p] =
                    [step |-> "providing", cid |-> c, todo |-> todo \ {c}]]
  \/ /\ mode # "up" \/ todo = {}
     /\ run' = [run EXCEPT ![p] = IdleRun]

\* The timers: five minutes after the start, then every 22 hours.
StartRun(p) ==
  /\ mode = "up"
  /\ run[p].step = "idle"
  /\ run' = [run EXCEPT ![p].step = "listing"]
  /\ UNCHANGED <<datastore, mode, req, provided, dropped>>

Listed(p) ==
  /\ run[p].step = "listing"
  /\ NextCid(p, pinned)
  /\ UNCHANGED <<datastore, mode, req, provided, dropped>>

ListFails(p) ==
  /\ run[p].step = "listing"
  /\ run' = [run EXCEPT ![p] = IdleRun]
  /\ UNCHANGED <<datastore, mode, req, provided, dropped>>

Reprovided(p) ==
  /\ run[p].step = "providing"
  /\ provided' = provided \cup {run[p].cid}
  /\ run' = [run EXCEPT ![p].step = "succeeded"]
  /\ UNCHANGED <<datastore, mode, req, dropped>>

\* Mutant: the error of one CID leaves the loop.
ReprovideFailsForAll(p) ==
  /\ run[p].step = "providing"
  /\ run' = [run EXCEPT ![p] = IdleRun]
  /\ UNCHANGED <<datastore, mode, req, provided, dropped>>

\* The error is counted; the record stays as it is.
ReprovideFails(p) ==
  /\ run[p].step = "providing"
  /\ NextCid(p, run[p].todo)
  /\ UNCHANGED <<datastore, mode, req, provided, dropped>>

\* Mutant: the record is not touched.
ReprovideUnrecorded(p) ==
  /\ run[p].step = "succeeded"
  /\ NextCid(p, run[p].todo)
  /\ UNCHANGED <<datastore, mode, req, provided, dropped>>

ReprovideRecorded(p) ==
  /\ run[p].step = "succeeded"
  /\ Record(run[p].cid, "success")
  /\ NextCid(p, run[p].todo)
  /\ UNCHANGED <<pinned, mode, req, provided>>

ReprovideRecordLost(p) ==
  /\ run[p].step = "succeeded"
  /\ NextCid(p, run[p].todo)
  /\ UNCHANGED <<datastore, mode, req, provided, dropped>>

ListSettles(p) == Listed(p) \/ ListFails(p)
ProvideSettles(p) == Reprovided(p) \/ ReprovideFails(p)
RecordSettles(p) == ReprovideRecorded(p) \/ ReprovideRecordLost(p)

RunStep(p) == StartRun(p) \/ ListSettles(p) \/ ProvideSettles(p) \/ RecordSettles(p)

-----------------------------------------------------------------------------
(* The process.                                                            *)

\* SIGTERM: shutdown stops the loops and the API server.
Shutdown ==
  /\ mode = "up"
  /\ mode' = "stopping"
  /\ UNCHANGED <<datastore, req, run, provided, dropped>>

TasksVanish ==
  /\ mode' = "down"
  /\ dropped' = dropped \cup {req[r].cid : r \in {q \in Requests : req[q].step \in Announcing}}
  /\ req' = [r \in Requests |-> IdleReq]
  /\ run' = [p \in Runs |-> IdleRun]
  /\ UNCHANGED <<datastore, provided>>

\* process.exit, when the server is closed and the node has stopped.  The server
\* is closed when its connections are, and a client that leaves while its request
\* is handled closes its own: no request is sure to be waited for.
Exit ==
  /\ mode = "stopping"
  /\ TasksVanish

Crash ==
  /\ mode # "down"
  /\ TasksVanish

Restart ==
  /\ mode = "down"
  /\ mode' = "up"
  /\ UNCHANGED <<datastore, req, run, provided, dropped>>

Next ==
  \/ \E r \in Requests : RequestStep(r)
  \/ \E p \in Runs : RunStep(p)
  \/ Shutdown \/ Exit \/ Crash \/ Restart

Spec == Init /\ [][Next]_vars

\* Timers fire and the calls of the datastore and the DHT settle.  A listing
\* that is retried for ever works some day (ListingsWork); so do, for a CID, the
\* provide and the write of its record (AnnouncementsWork).
Scheduling ==
  \A p \in Runs : /\ WF_vars(StartRun(p))
                  /\ WF_vars(ListSettles(p))
                  /\ WF_vars(ProvideSettles(p))
                  /\ WF_vars(RecordSettles(p))

ListingsWork == \A p \in Runs : SF_vars(Listed(p))

AnnouncementsWork ==
  \A p \in Runs, c \in Cids :
    /\ SF_vars(run[p].cid = c /\ Reprovided(p))
    /\ SF_vars(run[p].cid = c /\ ReprovideRecorded(p))

FairSpec == Spec /\ Scheduling /\ ListingsWork

-----------------------------------------------------------------------------
(* Properties.                                                             *)

\* Types, and a request or run that is idle holds no CID.
TypeOK ==
  /\ pinned \subseteq Cids
  /\ status \in [Cids -> {"none", "pending", "success", "failed"}]
  /\ mode \in {"up", "stopping", "down"}
  /\ req \in [Requests -> [step : ReqSteps, cid : Cids \cup {NoCid}]]
  /\ \A r \in Requests : At(r, "idle") <=> req[r].cid = NoCid
  /\ run \in [Runs -> [step : RunSteps, cid : Cids \cup {NoCid}, todo : SUBSET Cids]]
  /\ \A p \in Runs : run[p].step \in {"idle", "listing"} <=> run[p].cid = NoCid
  /\ provided \subseteq Cids
  /\ dropped \subseteq Cids

\* A record says "pending" only while an announcement of its CID is under way,
\* or when the last one ended without writing its outcome: the process went down
\* or the write failed.  Announcements and re-provides of one CID may overlap.
PendingIsUnderWay ==
  \A c \in Cids : status[c] = "pending" =>
    \/ c \in dropped
    \/ \E r \in Requests : req[r].cid = c /\ req[r].step \in Underway

\* GET /dht/status says announced only of a CID the DHT took, whichever of the
\* overlapping announcements wrote the record last.
SuccessIsEarned == \A c \in Cids : status[c] = "success" => c \in provided

\* Once shutdown has begun no re-provide run starts another provide.
NoProvideAfterStop ==
  [][mode # "up" => \A p \in Runs :
       run'[p].step = "providing" => run'[p] = run[p]]_vars

\* A CID that stays pinned on a node that stays up is offered to the DHT again
\* and again, whatever fails for the other pins.
EveryPinReprovided ==
  \A c \in Cids : <>[](c \in pinned /\ mode = "up") =>
    []<>(\E p \in Runs : run[p].step = "providing" /\ run[p].cid = c)

\* And if the provides and the writes that are tried again and again work some
\* day, its record says "success" again: a "pending" that a crash left behind, or
\* a "failed", does not stay for ever.
RecordsRecover ==
  AnnouncementsWork =>
    \A c \in Cids : <>[](c \in pinned /\ mode = "up") => []<>(status[c] = "success")
=============================================================================
