------------------------------ MODULE Refresh ------------------------------
(***************************************************************************)
(* A refresh asked for from the phone: the request rows and the snapshot of *)
(* the dashboard server (deployments/capacity/cloud_server.py, Store), the  *)
(* agent on the Mac that claims a request, collects, uploads and reports    *)
(* (refresh_agent.py), and the uploader that posts the same local feed      *)
(* every minute (deployments/local/upload.py under capacity_loop.py).      *)
(*                                                                         *)
(* The snapshot's content is the version of the local feed it was read     *)
(* from: a collection that succeeds makes the next version.  The collector *)
(* command and the feed's server are external.                             *)
(***************************************************************************)
EXTENDS Naturals, FiniteSets

CONSTANTS
  Requests,        \* bound: the ids a run may use, 1..n in the order they are drawn
  QueuedTTL,       \* QUEUED_TTL
  CollectingTTL,   \* COLLECTING_TTL
  UploadTTL,       \* how old a capture may be when it arrives (600 s)
  KeepTTL,         \* how long a terminal row is kept (86400 s)
  MaxClock         \* bound: the clock

ASSUME RefreshAssumption ==
  /\ Requests \subseteq Nat /\ IsFiniteSet(Requests)
  /\ {QueuedTTL, CollectingTTL, UploadTTL, KeepTTL} \subseteq Nat /\ MaxClock \in Nat \ {0}

VARIABLES
  clock,
  request,     \* refresh_request: id -> row
  snapshot,    \* [captured, feed]; captured is 0 before the first upload
  feed,        \* the version the local feed serves
  agent,       \* what the agent is at, for which claimed id
  poster,      \* agent or uploader -> its upload: where it is, its stamp, what it read
  collectedAs  \* history: id -> the feed version its collection made

refreshVars == <<clock, request, snapshot, feed, agent, poster, collectedAs>>

Unasked == [state |-> "none", requested |-> 0, claimed |-> 0, completed |-> 0, collected |-> FALSE]
NoUpload == [at |-> "idle", stamp |-> 0, read |-> 0]
Open == {"queued", "collecting"}
Terminal == {"completed", "cooldown", "failed"}
NoAgent == [at |-> "polling", id |-> 0, collected |-> FALSE]

RefreshInit ==
  /\ clock = 1 /\ feed = 0
  /\ request = [id \in Requests |-> Unasked]
  /\ snapshot = [captured |-> 0, feed |-> 0]
  /\ agent = NoAgent
  /\ poster = [p \in {"agent", "uploader"} |-> NoUpload]
  /\ collectedAs = [id \in Requests |-> 0]
-----------------------------------------------------------------------------
(* The server's transactions *)

\* Store._expire, which every transaction on requests runs first.
FailedAt(row) == [row EXCEPT !.state = "failed", !.completed = clock]
ExpiredRow(row) ==
  CASE row.state = "queued" /\ row.requested + QueuedTTL < clock -> FailedAt(row)
    [] row.state = "collecting" /\ row.claimed + CollectingTTL < clock -> FailedAt(row)
    [] row.state \in Terminal /\ row.completed + KeepTTL < clock -> [Unasked EXCEPT !.state = "deleted"]
    [] OTHER -> row
Expire == [id \in Requests |-> ExpiredRow(request[id])]

OpenIn(rows) == {id \in Requests : rows[id].state \in Open}
Queued(rows) == {id \in Requests : rows[id].state = "queued"}
Oldest(ids, rows) == CHOOSE id \in ids : \A o \in ids : rows[id].requested <= rows[o].requested
Fresh == {id \in Requests : request[id].state = "none"}

\* POST /api/refresh: an open request is returned instead of a duplicate.
RequestRefresh ==
  /\ IF OpenIn(Expire) # {}
     THEN request' = Expire
     ELSE /\ Fresh # {}
          /\ request' = [Expire EXCEPT ![Oldest(Fresh, request)] =
                           [Unasked EXCEPT !.state = "queued", !.requested = clock]]
  /\ UNCHANGED <<clock, snapshot, feed, agent, poster, collectedAs>>

\* GET /api/refresh: the phone's poll also expires.
GetRefresh ==
  /\ request' = Expire
  /\ UNCHANGED <<clock, snapshot, feed, agent, poster, collectedAs>>

\* Store.put under clean_snapshot: too old a capture or one not newer than the stored is refused.
Accepts(upload) == upload.stamp + UploadTTL >= clock /\ upload.stamp > snapshot.captured

\* POST /api/refresh/claim: one request collects at a time; the reply may be lost.
ClaimRefresh ==
  /\ agent.at = "polling"
  /\ IF \/ \E id \in Requests : Expire[id].state = "collecting"
        \/ Queued(Expire) = {}
     THEN request' = Expire /\ UNCHANGED agent
     ELSE LET id == Oldest(Queued(Expire), Expire)
          IN /\ request' = [Expire EXCEPT ![id].state = "collecting", ![id].claimed = clock]
             /\ agent' \in {agent, [at |-> "collecting", id |-> id, collected |-> FALSE]}
  /\ UNCHANGED <<clock, snapshot, feed, poster, collectedAs>>

\* As if the report were recorded whatever became of the request meanwhile.
CompleteAny(id, state) ==
  request' = [Expire EXCEPT ![id].state = state, ![id].completed = clock,
                            ![id].collected = agent.collected]
\* Store.complete_refresh: only a request that is still collecting completes.
Complete(id, state) ==
  request' = IF Expire[id].state = "collecting"
             THEN [Expire EXCEPT ![id].state = state, ![id].completed = clock,
                                 ![id].collected = agent.collected]
             ELSE Expire
-----------------------------------------------------------------------------
(* The agent *)

\* run_collector: a timeout or an error ends in a report of failure; without a command
\* there is only the upload.
Collect ==
  /\ agent.at = "collecting"
  /\ \/ /\ feed' = feed + 1
        /\ collectedAs' = [collectedAs EXCEPT ![agent.id] = feed + 1]
        /\ agent' = [agent EXCEPT !.at = "uploading", !.collected = TRUE]
        /\ poster' = [poster EXCEPT !["agent"].at = "begin"]
     \/ /\ agent' = [agent EXCEPT !.at = "uploading"]
        /\ poster' = [poster EXCEPT !["agent"].at = "begin"]
        /\ UNCHANGED <<feed, collectedAs>>
     \/ /\ agent' = [agent EXCEPT !.at = "failing"]
        /\ UNCHANGED <<feed, poster, collectedAs>>
  /\ UNCHANGED <<clock, request, snapshot>>

\* handle(): the report follows what became of the upload.
Report ==
  /\ agent.at = "failing" \/ (agent.at = "uploading" /\ poster["agent"].at \in {"stored", "refused"})
  /\ \/ /\ agent.at = "uploading" /\ poster["agent"].at = "stored"
        /\ \E state \in IF agent.collected THEN {"completed", "cooldown"} ELSE {"completed"} :
             Complete(agent.id, state)
     \/ /\ agent.at = "failing" \/ poster["agent"].at = "refused"
        /\ Complete(agent.id, "failed")
     \/ UNCHANGED request                 \* the report does not arrive; it is not sent again
  /\ agent' = NoAgent
  /\ poster' = [poster EXCEPT !["agent"] = NoUpload]
  /\ UNCHANGED <<clock, snapshot, feed, collectedAs>>

\* The agent is killed and started again; what it had claimed is forgotten.
AgentDies ==
  /\ agent.at # "polling"
  /\ agent' = NoAgent
  /\ poster' = [poster EXCEPT !["agent"] = NoUpload]
  /\ UNCHANGED <<clock, request, snapshot, feed, collectedAs>>
-----------------------------------------------------------------------------
(* One upload: the stamp is taken before the feed is read, and both before the post. *)

\* The capacity loop starts an upload job.
StartUpload ==
  /\ poster["uploader"].at = "idle"
  /\ poster' = [poster EXCEPT !["uploader"].at = "begin"]
  /\ UNCHANGED <<clock, request, snapshot, feed, agent, collectedAs>>

\* As if the capture were stamped when the body is built.
StampLate(p) ==
  /\ \/ poster[p].at = "begin" /\ poster' = [poster EXCEPT ![p].at = "stamped", ![p].read = feed]
     \/ poster[p].at = "stamped" /\ poster' = [poster EXCEPT ![p].at = "read", ![p].stamp = clock]
  /\ UNCHANGED <<clock, request, snapshot, feed, agent, collectedAs>>
StampAndRead(p) ==
  /\ \/ poster[p].at = "begin" /\ poster' = [poster EXCEPT ![p].at = "stamped", ![p].stamp = clock]
     \/ poster[p].at = "stamped" /\ poster' = [poster EXCEPT ![p].at = "read", ![p].read = feed]
  /\ UNCHANGED <<clock, request, snapshot, feed, agent, collectedAs>>

\* The agent goes on with the reply; the uploader only writes it to its status file.
Replied(p, reply) == IF p = "agent" THEN [poster[p] EXCEPT !.at = reply] ELSE NoUpload

\* POST /api/snapshot, and what the poster makes of its reply, which may be lost.
Post(p) ==
  /\ poster[p].at = "read"
  /\ IF Accepts(poster[p])
     THEN /\ snapshot' = [captured |-> poster[p].stamp, feed |-> poster[p].read]
          /\ \E reply \in {"stored", "refused"} : poster' = [poster EXCEPT ![p] = Replied(p, reply)]
     ELSE /\ poster' = [poster EXCEPT ![p] = Replied(p, "refused")]
          /\ UNCHANGED snapshot
  /\ UNCHANGED <<clock, request, feed, agent, collectedAs>>

\* The feed does not answer, or the post does not arrive.
UploadFails(p) ==
  /\ poster[p].at \in {"stamped", "read"}
  /\ poster' = [poster EXCEPT ![p] = Replied(p, "refused")]
  /\ UNCHANGED <<clock, request, snapshot, feed, agent, collectedAs>>

Tick ==
  /\ clock < MaxClock
  /\ clock' = clock + 1
  /\ UNCHANGED <<request, snapshot, feed, agent, poster, collectedAs>>

RefreshNext ==
  \/ RequestRefresh \/ GetRefresh \/ ClaimRefresh \/ Collect \/ Report \/ AgentDies
  \/ StartUpload \/ Tick
  \/ \E p \in {"agent", "uploader"} : StampAndRead(p) \/ Post(p) \/ UploadFails(p)

RefreshSpec == RefreshInit /\ [][RefreshNext]_refreshVars
-----------------------------------------------------------------------------
(* Properties *)

RefreshTypeOK ==
  /\ clock \in 1..MaxClock /\ feed \in 0..Cardinality(Requests)
  /\ \A id \in Requests :
       /\ request[id].state \in Open \cup Terminal \cup {"none", "deleted"}
       /\ request[id].requested \in 0..clock /\ request[id].claimed \in 0..clock
       /\ collectedAs[id] \in 0..feed
  /\ snapshot.captured \in 0..clock /\ snapshot.feed \in 0..feed
  /\ agent.at \in {"polling", "collecting", "uploading", "failing"}
  /\ \A p \in {"agent", "uploader"} :
       poster[p].at \in {"idle", "begin", "stamped", "read", "stored", "refused"}

\* A phone that is told "collected" sees at least that collection on the dashboard, now and
\* later: no upload that read the feed before it replaces it afterwards.
CollectedShown ==
  \A id \in Requests :
    request[id].state \in {"completed", "cooldown"} /\ request[id].collected
      => snapshot.feed >= collectedAs[id]

\* One request is open at a time, none that a caller can be shown is open for longer than
\* both waits together, and an answer once given is not changed by a late report.
AnsweredOnce ==
  [][ /\ Cardinality(OpenIn(request')) <= 1
      /\ request' # request =>
           \A id \in OpenIn(request') : clock <= request'[id].requested + QueuedTTL + CollectingTTL
      /\ \A id \in Requests :
           request[id].state \in Terminal
             => request'[id] = request[id] \/ request'[id].state = "deleted" ]_refreshVars
=============================================================================
