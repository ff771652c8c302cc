------------------------------ MODULE LaneRun ------------------------------
(***************************************************************************)
(* One attempt on a lane adapter (src/inference_grid/lanes: runner.py and   *)
(* the modules zai, zcode, goat, codex, opencode and go it dispatches to).  *)
(* The adapter stages the task, refuses what the lane may not run, starts   *)
(* the provider's command in a process group of its own, waits until it     *)
(* exits or the lane's wall seconds pass, and prints a receipt only when    *)
(* the record the command left qualifies; go sends one request instead.     *)
(*                                                                         *)
(* The command works, writes and exits, the user changes the files behind   *)
(* the login, and the worker ends the adapter, at any step.  The worker's   *)
(* signal does not reach the command: it has a session of its own.          *)
(***************************************************************************)
EXTENDS Naturals, FiniteSets

CONSTANTS
  Setups,      \* the lanes and tasks of the attempt, see LaneSetups
  Files,       \* names the command may write in the workspace, beside its brief
  Reply,       \* reply.txt
  Logins       \* bound: changes of the user's configuration and login files

Digested == {"goat_cli", "opencode_cli"}
Commands == {"zcode_cli", "claude_headless", "codex_cli"} \cup Digested
Kinds == Commands \cup {"go_http"}
Names == Files \cup {Reply}

\* A lane and its task: whether the request names the lane's model, the credential can be read,
\* the operator denies its file, the endpoint speaks the model's protocol; and expected.json.
LaneSetups ==
  [kind : Kinds, matches : BOOLEAN, keyed : BOOLEAN, denied : BOOLEAN, spoken : BOOLEAN,
   listing : {"none", "names", "bad"}, names : SUBSET Names]

ASSUME LaneAssumption ==
  /\ Setups \subseteq LaneSetups
  /\ \A s \in Setups : s.listing # "names" => s.names = {}
  /\ Reply \notin Files
  /\ Logins \in Nat

VARIABLES
  setup,
  point,       \* where the adapter is
  command,    \* its process: "none", "running", "exited", "signalled", and the exit code
  tape,       \* the record it leaves: stream, document or session database
  work,       \* files in the workspace
  home,       \* version of the user's configuration and login files
  before,     \* the version digested before the command started
  ended,      \* why the wait ended
  said,       \* the document the endpoint answered
  output,     \* artifacts published
  answer,     \* "none", "receipt", "refused", or the adapter "crashed" or was "killed"
  disturbed   \* history: the user's files changed while the command ran

runVars == <<setup, point, command, tape, work, home, before, ended, said, output, answer, disturbed>>
fixed == <<setup, tape, work, home, before, said, output, disturbed>>

\* Requests served, ends reported, the last of them, the model it names, lines that do not
\* parse (or a record over its bound), events after an end.
Blank == [served |-> {}, ends |-> 0, form |-> "none", echo |-> "none",
          garbled |-> FALSE, trailing |-> FALSE]
Silence == [model |-> "none", finish |-> "none", text |-> "none"]

LaneInit ==
  /\ setup \in Setups
  /\ point = "start"
  /\ command = [state |-> "none", code |-> 0]
  /\ tape = Blank /\ work = {} /\ home = 0 /\ before = 0
  /\ ended = "none" /\ said = Silence /\ output = {} /\ answer = "none" /\ disturbed = FALSE

At(s) == point = s /\ answer = "none"
Decline == answer' = "refused" /\ point' = "done"
Crash == answer' = "crashed" /\ point' = "done"
Proceed(s) == point' = s /\ UNCHANGED answer
-----------------------------------------------------------------------------
(* ---- Before the command -------------------------------------------------*)

\* runner.main: the lane is known and the request is for its model.
Dispatch ==
  /\ At("start")
  /\ IF setup.matches THEN Proceed("stage") ELSE Decline
  /\ UNCHANGED <<fixed, command, ended>>

\* opencode.credential_denied, zai.read_key, go.endpoint_for, read_key and protocol_for.
Refused ==
  \/ setup.kind = "opencode_cli" /\ setup.denied
  \/ setup.kind \in {"claude_headless", "go_http"} /\ ~setup.keyed
  \/ setup.kind = "go_http" /\ ~setup.spoken

Stage ==
  /\ At("stage")
  /\ IF Refused THEN Decline
     ELSE Proceed(IF setup.kind = "go_http" THEN "send" ELSE "probe")
  /\ UNCHANGED <<fixed, command, ended>>

\* sandbox.probe; the digests of the user's files are taken after it.
ProbeSandbox ==
  /\ At("probe")
  /\ \/ Proceed("spawn") /\ before' = home
     \/ Crash /\ UNCHANGED before
  /\ UNCHANGED <<setup, tape, work, home, said, output, disturbed, command, ended>>

Spawn ==
  /\ At("spawn")
  /\ Proceed("wait")
  /\ command' = [command EXCEPT !.state = "running"]
  /\ UNCHANGED <<fixed, ended>>

(* ---- The wait ----------------------------------------------------------- *)
Running == command.state = "running"

CommandExited ==
  /\ At("wait") /\ command.state = "exited"
  /\ ended' = "process_exited"
  /\ Proceed("digest")
  /\ UNCHANGED <<fixed, command>>

\* wait() gives up; the command may still exit before the signal.
WallDeadline ==
  /\ At("wait") /\ Running
  /\ ended' = "wall_deadline"
  /\ Proceed("term")
  /\ UNCHANGED <<fixed, command>>

\* killpg of a group that has only its unreaped leader may be refused (lanes/process.py:44).
Unkillable == command.state = "exited" /\ Crash /\ UNCHANGED command

\* SIGTERM: a command may end on it, finish in its own way, or go on.
Terminate ==
  /\ At("term")
  /\ \/ Proceed("poll")
        /\ \/ UNCHANGED command
           \/ Running /\ command' = [command EXCEPT !.state = "signalled"]
     \/ Unkillable
  /\ UNCHANGED <<fixed, ended>>

Poll ==
  /\ At("poll")
  /\ Proceed(IF Running THEN "kill" ELSE "digest")
  /\ UNCHANGED <<fixed, command, ended>>

Kill ==
  /\ At("kill")
  /\ \/ /\ Proceed("digest")
        /\ command' = IF Running THEN [command EXCEPT !.state = "signalled"] ELSE command
     \/ Unkillable
  /\ UNCHANGED <<fixed, ended>>

(* ---- What the record says ----------------------------------------------- *)
CleanCode ==   \* As if a command that ended well on its signal had ended by itself.
  command.state = "exited" /\ command.code = 0

Clean == ended = "process_exited" /\ command.state = "exited" /\ command.code = 0
OnlyAsked == tape.served = {"asked"}
OneLast == tape.ends = 1 /\ ~tape.trailing

\* zai.terminal_result and qualify: the last result row, over lines that parse.
ClaudeQualifies == Clean /\ tape.form = "good" /\ OnlyAsked

\* zcode.parse_result and qualify: one document, and the session's requests in its database.
ZcodeQualifies == Clean /\ tape.ends = 1 /\ ~tape.garbled /\ tape.form = "good" /\ OnlyAsked

\* classify_goat, and the effort every request was made with.
GoatQualifies == Clean /\ OneLast /\ ~tape.garbled /\ tape.form = "good" /\ OnlyAsked

\* classify_codex: the turn's end carries no success of its own.
CodexQualifies == Clean /\ OneLast /\ ~tape.garbled /\ tape.form \in {"good", "failed"} /\ OnlyAsked

\* classify_opencode: the exit code is not asked for, nor how the step finished (the receipt
\* carries that), and only the step's end names a model.
OpencodeQualifies ==
  /\ ended = "process_exited" /\ ~tape.garbled
  /\ tape.ends = 1 /\ tape.form \in {"good", "failed"} /\ tape.echo = "asked"

Qualifies ==
  CASE setup.kind = "claude_headless" -> ClaudeQualifies
    [] setup.kind = "zcode_cli" -> ZcodeQualifies
    [] setup.kind = "goat_cli" -> GoatQualifies
    [] setup.kind = "codex_cli" -> CodexQualifies
    [] setup.kind = "opencode_cli" -> OpencodeQualifies

\* user_config_digests again, for the lanes that take them.
CompareDigests ==
  /\ At("digest")
  /\ IF setup.kind \in Digested /\ home # before THEN Decline ELSE Proceed("judge")
  /\ UNCHANGED <<fixed, command, ended>>

Judge ==
  /\ At("judge")
  /\ IF Qualifies THEN Proceed("publish") ELSE Decline
  /\ UNCHANGED <<fixed, command, ended>>
(* ---- Publishing --------------------------------------------------------- *)
\* expected_artifacts: the listed names, or every new file beside the brief.  A task with no
\* artifact publishes the reply, and a reply that is asked for is written.
Expected == IF setup.listing = "names" THEN setup.names ELSE work
Published == IF Expected = {} THEN {Reply} ELSE Expected
Present == IF Reply \in Published THEN work \cup {Reply} ELSE work

PublishFiles ==
  /\ At("publish")
  /\ IF setup.listing # "bad" /\ Published \subseteq Present
     THEN Proceed("report") /\ output' = Published /\ work' = Present
     ELSE Decline /\ UNCHANGED <<output, work>>
  /\ UNCHANGED <<setup, tape, home, before, said, disturbed, command, ended>>

\* verdict.json, and the receipt on standard output.
PrintReceipt ==
  /\ At("report")
  /\ answer' = "receipt" /\ point' = "done"
  /\ UNCHANGED <<fixed, command, ended>>

(* ---- go: one request ---------------------------------------------------- *)
Documents == [model : {"asked", "pass", "other"}, finish : {"stop", "length", "other"},
              text : {"none", "markup", "code", "prose"}]

\* http_send: an HTTP error, a redirect, a body over its bound and a lost connection refuse.
Send ==
  /\ At("send")
  /\ \/ Decline /\ UNCHANGED said
     \/ Proceed("read") /\ said' \in Documents
  /\ UNCHANGED <<setup, tape, work, home, before, output, disturbed, command, ended>>

\* go.qualify, for the model's own id and the one it is billed under.
GoQualifies == said.model # "other" /\ said.finish = "stop" /\ said.text # "none"

\* tool_markup_refusal, expected_artifact and expected_code: one name, and a file other than
\* the reply must be code.
GoPublishes ==
  /\ said.text # "markup"
  /\ setup.listing = "names" /\ Cardinality(setup.names) = 1
  /\ Reply \in setup.names \/ said.text = "code"

ReadDocument ==
  /\ At("read")
  /\ IF GoQualifies /\ GoPublishes
     THEN Proceed("report") /\ output' = setup.names
     ELSE Decline /\ UNCHANGED output
  /\ UNCHANGED <<setup, tape, work, home, before, said, disturbed, command, ended>>
-----------------------------------------------------------------------------
(* ---- Each lane's run() -------------------------------------------------- *)
RunCommand == \/ Stage \/ ProbeSandbox \/ Spawn \/ CommandExited \/ WallDeadline \/ Terminate
              \/ Poll \/ Kill \/ CompareDigests \/ Judge \/ PublishFiles

ClaudeRun == setup.kind = "claude_headless" /\ RunCommand
ZcodeRun == setup.kind = "zcode_cli" /\ RunCommand
GoatRun == setup.kind = "goat_cli" /\ RunCommand
CodexRun == setup.kind = "codex_cli" /\ RunCommand
OpencodeRun == setup.kind = "opencode_cli" /\ RunCommand
GoRun == setup.kind = "go_http" /\ (Stage \/ Send \/ ReadDocument)

(* ---- Around it ---------------------------------------------------------- *)
\* What the command does while its adapter waits.  The model its lane asks for may be served
\* at another effort, which goat's record shows.
Models == {"asked", "other"} \cup (IF setup.kind = "goat_cli" THEN {"costly"} ELSE {})

Named == IF setup.kind = "opencode_cli" THEN {"asked", "other"} ELSE {"none"}

Works ==
  /\ Running /\ answer = "none"
  /\ \/ \E m \in Models : tape' = [tape EXCEPT !.served = @ \cup {m}, !.trailing = tape.ends > 0]
        /\ UNCHANGED work
     \/ tape' = [tape EXCEPT !.garbled = TRUE] /\ UNCHANGED work
     \/ \E f \in {"good", "failed", "mute"}, m \in Named :
          tape.ends < 2 /\ tape' = [tape EXCEPT !.ends = @ + 1, !.form = f, !.echo = m,
                                                !.trailing = FALSE]
        /\ UNCHANGED work
     \* zai gives its command no tools.
     \/ \E n \in Files : setup.kind # "claude_headless" /\ work' = work \cup {n} /\ UNCHANGED tape
  /\ UNCHANGED <<setup, point, command, home, before, ended, said, output, answer, disturbed>>

Exits ==
  /\ Running /\ answer = "none"
  /\ \E c \in {0, 1} : command' = [state |-> "exited", code |-> c]
  /\ UNCHANGED <<fixed, point, ended, answer>>

\* The user's own client renews its login or changes its settings.
Login ==
  /\ setup.kind \in Digested   \* no other lane looks
  /\ home < Logins /\ answer = "none"
  /\ home' = home + 1
  /\ disturbed' = (disturbed \/ Running)
  /\ UNCHANGED <<setup, point, command, tape, work, before, ended, said, output, answer>>

\* The worker's deadline or its output limit: the adapter's group is killed.
WorkerKills ==
  /\ answer = "none"
  /\ answer' = "killed" /\ point' = "done"
  /\ UNCHANGED <<fixed, command, ended>>

LaneNext == \/ Dispatch \/ ClaudeRun \/ ZcodeRun \/ GoatRun \/ CodexRun \/ OpencodeRun \/ GoRun
            \/ PrintReceipt \/ Works \/ Exits \/ Login \/ WorkerKills

LaneSpec == LaneInit /\ [][LaneNext]_runVars
-----------------------------------------------------------------------------
LaneTypeOK ==
  /\ command.state \in {"none", "running", "exited", "signalled"}
  /\ tape.served \subseteq Models /\ work \subseteq Names /\ output \subseteq Names
  /\ home \in 0..Logins /\ before \in 0..home
  /\ answer \in {"none", "receipt", "refused", "crashed", "killed"}

\* A receipt is earned: its command ended by itself within its wall seconds (and well, but for
\* opencode), no file of the user's that the lane guards changed while it ran, every model
\* request that the record names was for the asked model, and the files are those the task
\* listed (the modules of lanes/, "Evidence comes from ...").
ReceiptEarned ==
  answer = "receipt" =>
    /\ output # {} /\ (setup.names # {} => output = setup.names)
    /\ setup.kind \in Commands => /\ ended = "process_exited" /\ command.state = "exited"
                                  /\ output \subseteq work
    /\ setup.kind \in Digested => ~disturbed
    /\ setup.kind \in Commands \ {"opencode_cli"} => command.code = 0 /\ tape.served = {"asked"}
    /\ setup.kind = "opencode_cli" => tape.echo = "asked"
    /\ setup.kind = "go_http" => said.model # "other" /\ said.finish = "stop"
=============================================================================
