------------------------------ MODULE Readings ------------------------------
(***************************************************************************)
(* The dashboard's readings on the Mac: the scheduler of the collector      *)
(* chains (deployments/local/capacity_loop.py), the Claude poll and its     *)
(* chain (refresh_claude.py), the collectors (collect_*.py), the Go chain   *)
(* (refresh_go.py), the overlay they end in (overlay_build.py) and the page *)
(* (src/inference_grid/capacity.py over capacity_feed.py).                 *)
(*                                                                         *)
(* A reading has its stamp, its status and its windows, of each the        *)
(* instants at which its percentage and its reset were read (0 for none)   *)
(* and the reading that its reset is labelled with (0 for no label); the   *)
(* numbers themselves tell nothing apart.  The node collector, the widget  *)
(* bridge, the Codex rollouts and the operator's console reading are       *)
(* written by others and are external.                                     *)
(***************************************************************************)
EXTENDS Naturals, Sequences

CONSTANTS
  QuotaWindows,  \* the windows a quota is read in
  Homes,         \* the Codex homes, which share one account
  Period,        \* of both chains
  Delay, Retry,  \* of the poll after success, and what a refusal makes it wait
  ReadClock      \* bound: the clock

ASSUME ReadingsAssumption ==
  /\ Period \in Nat \ {0} /\ Delay \in Nat \ {0} /\ Retry \in Nat
  /\ ReadClock \in Nat \ {0} /\ "none" \notin Homes

NoWindows == [w \in {} |-> 0]
NoReading(status) == [observed |-> 0, status |-> status, stale |-> FALSE, windows |-> NoWindows]
Absent == NoReading("absent")
Chains == [claude |-> <<"claude", "command-code", "zai", "codex", "overlay">>,
           go |-> <<"opencode", "bridge", "overlay">>]
Providers == {"claude", "command-code", "zai", "codex", "opencode"}

VARIABLES
  subject,   \* the provider followed: readings of different providers do not meet
  instant,
  due,       \* chain -> when the loop starts it again
  child,       \* the child under way: its chain and step
  obsFile,      \* the subject's observation file
  quota,     \* zai-quota.json
  rollout,   \* home -> the newest rate_limits event in its session files
  nextTry,   \* the Claude poll state
  overlay,   \* the subject's account in overlay.json
  upstream   \* what the page's request has read from the feed

readingsVars == <<subject, instant, due, child, obsFile, quota, rollout, nextTry, overlay,
                  upstream>>
files == <<obsFile, quota, rollout, nextTry>>
shown == <<overlay, upstream>>

NoChild == [chain |-> "none", step |-> 0]
ReadingsInit ==
  /\ subject \in Providers
  /\ instant = 1 /\ due = [c \in DOMAIN Chains |-> 0] /\ child = NoChild
  /\ obsFile = Absent /\ quota = Absent /\ nextTry = 0
  /\ rollout = [h \in Homes |-> Absent]
  /\ overlay = Absent /\ upstream = Absent
-----------------------------------------------------------------------------
(* The loop and its chains: one child at a time *)

StartChain(c) ==
  /\ child = NoChild /\ due[c] <= instant
  /\ due' = [due EXCEPT ![c] = instant + Period]
  /\ child' = [chain |-> c, step |-> 1]
  /\ UNCHANGED <<subject, instant, files, shown>>

StepIs(step) == child # NoChild /\ Chains[child.chain][child.step] = step
NextStep ==
  /\ child' = IF child.step = Len(Chains[child.chain]) THEN NoChild ELSE [child EXCEPT !.step = @ + 1]
  /\ UNCHANGED <<subject, instant, due>>

\* A child stopped at its timeout raises in every chain, as the bridge does when it fails
\* and the poll when the credentials cannot be read; the loop goes on with its other jobs.
ChainStops ==
  /\ child # NoChild
  /\ child' = NoChild
  /\ UNCHANGED <<subject, instant, due, files, shown>>

\* A child that fails, or whose readings are not the subject's.
StepEnds ==
  /\ child # NoChild
  /\ NextStep
  /\ UNCHANGED <<files, shown>>

\* What a window tells: its percentage and its reset, or no percentage.
Number == [used |-> instant, reset |-> instant, label |-> 0]
Unnumbered == [used |-> 0, reset |-> instant, label |-> 0]
Numbers(S) == [w \in S |-> Number]
Answers == UNION {[S -> {Number, Unnumbered}] : S \in SUBSET QuotaWindows \ {{}}}

Reading(status, windows) ==
  [observed |-> instant, status |-> status, stale |-> FALSE, windows |-> windows]
Empty(status) == Reading(status, NoWindows)
Collects(p) == subject = p /\ StepIs(p) /\ NextStep /\ UNCHANGED <<rollout, shown>>

\* The last good windows are carried forward with their own stamp.
Carry(a, prior) ==
  IF DOMAIN prior.windows = {} THEN a
  ELSE [a EXCEPT !.windows = prior.windows, !.observed = prior.observed, !.stale = TRUE]

\* poll: nothing before next_try; a refusal may make it wait longer than an answer does.
PollClaude ==
  /\ Collects("claude") /\ instant >= nextTry
  /\ \/ /\ \E a \in Answers : obsFile' = Reading("ok", a)
        /\ nextTry' = instant + Delay
     \/ /\ \E status \in {"unknown", "rate_limited", "auth_required", "error"} :
             obsFile' = Carry(Empty(status), obsFile)
        /\ nextTry' \in {instant + Delay, instant + Retry}
  /\ UNCHANGED quota

\* A window without its cap has no percentage and is "ok" all the same.
CollectGoat ==
  /\ Collects("command-code")
  /\ \/ \E a \in [QuotaWindows -> {Number, Unnumbered}] : obsFile' = Reading("ok", a)
     \/ obsFile' = Empty("error")
  /\ UNCHANGED <<quota, nextTry>>

\* What the ledger's quota file says, the operator's or the collector's.
QuotaFile == Reading("ok", [w \in QuotaWindows |-> [Number EXCEPT !.reset = 0]])

\* A good reading is written for the ledger as well; one with a window missing is not.
CollectZai ==
  /\ Collects("zai")
  /\ \/ obsFile' = Reading("ok", Numbers(QuotaWindows)) /\ quota' = QuotaFile
     \/ /\ \/ \E S \in SUBSET QuotaWindows : S # QuotaWindows /\ obsFile' = Reading("unknown", Numbers(S))
           \/ obsFile' = Empty("error")
        /\ UNCHANGED quota
  /\ UNCHANGED nextTry

\* The first home that answers, or the last one's error.
CollectCodex ==
  /\ Collects("codex")
  /\ \/ \E S \in SUBSET QuotaWindows \ {{}} : obsFile' = Reading("ok", Numbers(S))
     \/ \E status \in {"unknown", "auth_required", "error"} : obsFile' = Empty(status)
  /\ UNCHANGED <<quota, nextTry>>

\* external: the node collector
CollectGo ==
  /\ Collects("opencode")
  /\ \E a \in Answers, status \in {"ok", "unknown"} : obsFile' = Reading(status, a)
  /\ UNCHANGED <<quota, nextTry>>
-----------------------------------------------------------------------------
(* The overlay *)

\* zai_account: the collector's reading, or the quota file when that is not ok.
ZaiAccount ==
  IF obsFile.status = "ok" THEN obsFile
  ELSE IF quota # Absent THEN quota ELSE NoReading("unknown")

\* The homes that have a reading, and the newest of them.
Heard == {h \in Homes : rollout[h] # Absent}
Latest == CHOOSE h \in Heard : \A g \in Heard : rollout[g].observed <= rollout[h].observed
Gives(h, w) == w \in DOMAIN rollout[h].windows

\* Of each window the home with the newest reset that is still to come, if any has one.
Sources == {src \in [QuotaWindows -> Heard \cup {"none"}] :
              \A w \in QuotaWindows : src[w] # "none" =>
                Gives(src[w], w) /\ rollout[src[w]].windows[w].reset > 0}

\* As if a window's percentage were taken from the reading that its reset comes from.
MergeOfSource(src) ==
  [w \in QuotaWindows |->
    IF src[w] = "none" THEN [used |-> 0, reset |-> 0, label |-> 0]
    ELSE [used |-> rollout[src[w]].windows[w].used, reset |-> rollout[src[w]].windows[w].reset,
          label |-> rollout[src[w]].observed]]

\* The latest reading's percentages, each with the reset of its source and, when that is another
\* reading, its label.
Merge(src) ==
  [w \in QuotaWindows |->
    [used |-> IF Gives(Latest, w) THEN rollout[Latest].windows[w].used ELSE 0,
     reset |-> IF src[w] = "none" THEN 0 ELSE rollout[src[w]].windows[w].reset,
     label |-> IF src[w] = "none" \/ rollout[src[w]].observed = rollout[Latest].observed THEN 0
               ELSE rollout[src[w]].observed]]

\* codex_account and build: the collector's reading replaces the rollouts' when it is ok.
CodexAccount(src) ==
  IF obsFile.status = "ok" THEN obsFile
  ELSE IF Heard = {} THEN Absent
  ELSE [observed |-> rollout[Latest].observed, status |-> rollout[Latest].status,
        stale |-> FALSE, windows |-> Merge(src)]

AccountOverlay(src) ==
  CASE subject = "zai" -> ZaiAccount
    [] subject = "codex" -> CodexAccount(src)
    [] OTHER -> obsFile

BuildOverlay ==
  /\ StepIs("overlay") /\ NextStep
  /\ \E src \in Sources : overlay' = AccountOverlay(src)
  /\ UNCHANGED <<files, upstream>>

\* external: a Codex session records its limits, of each window the percentage with or without
\* its reset, and whether a limit is reached; no two events have one instant.  The operator
\* attests a console reading.
SessionRecords ==
  /\ subject = "codex" /\ \A h \in Homes : rollout[h].observed < instant
  /\ \E h \in Homes, S \in SUBSET QuotaWindows, status \in {"ok", "error"} :
       \E a \in [S -> {Number, [Number EXCEPT !.reset = 0]}] :
         rollout' = [rollout EXCEPT ![h] = Reading(status, a)]
  /\ UNCHANGED <<subject, instant, due, child, obsFile, quota, nextTry, shown>>
OperatorAttests ==
  /\ subject = "zai" /\ quota' = QuotaFile
  /\ UNCHANGED <<subject, instant, due, child, obsFile, rollout, nextTry, shown>>

\* The temporary directory of the poll's output is cleared by a restart of the Mac.
ClaudeOverlayLost ==
  /\ subject = "claude" /\ obsFile' = Absent
  /\ UNCHANGED <<subject, instant, due, child, quota, rollout, nextTry, shown>>
-----------------------------------------------------------------------------
(* The page: the feed first, then the overlay, which may have been rebuilt between *)

ReadFeed ==
  /\ upstream' = overlay
  /\ UNCHANGED <<subject, instant, due, child, files, overlay>>

\* project: the newer observation wins, the overlay's on equal stamps.
Project(fed, laid) ==
  IF laid = Absent \/ (fed # Absent /\ laid.observed < fed.observed) THEN fed ELSE laid
Page == Project(upstream, overlay)

ReadTick ==
  /\ instant < ReadClock
  /\ instant' = instant + 1
  /\ UNCHANGED <<subject, due, child, files, shown>>

ReadingsNext ==
  \/ ChainStops \/ StepEnds \/ PollClaude \/ CollectGoat \/ CollectZai \/ CollectCodex \/ CollectGo
  \/ BuildOverlay \/ SessionRecords \/ OperatorAttests \/ ClaudeOverlayLost
  \/ ReadFeed \/ ReadTick
  \/ \E c \in DOMAIN Chains : StartChain(c)

ReadingsSpec == ReadingsInit /\ [][ReadingsNext]_readingsVars
-----------------------------------------------------------------------------
(* Properties *)

ReadingsTypeOK ==
  /\ subject \in Providers /\ instant \in 1..ReadClock
  /\ \A r \in {obsFile, quota, overlay, upstream} \cup {rollout[h] : h \in Homes} :
       /\ r.observed \in 0..instant
       /\ \A w \in DOMAIN r.windows :
            w \in QuotaWindows /\ r.windows[w] \in [used: 0..instant, reset: 0..instant, label: 0..instant]
  /\ child = NoChild \/ child.step \in 1..Len(Chains[child.chain])

\* A page served now shows no percentage read at another instant than its
\* stamp, no reset of another reading without that reading's label, and "ok" of
\* no carried numbers (the page drops the stale flag), through carried windows,
\* quota files, merged rollouts of several homes, rebuilds between two reads,
\* and chains that stop half-way (refresh_claude.py:113, overlay_build.py:164).
ReadingsHonest ==
  /\ Page.stale => Page.status # "ok"
  /\ \A w \in DOMAIN Page.windows :
       /\ Page.windows[w].used \in {0, Page.observed}
       /\ Page.windows[w].reset \in {0, Page.observed, Page.windows[w].label}

=============================================================================
