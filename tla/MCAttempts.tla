----------------------------- MODULE MCAttempts -----------------------------
(***************************************************************************)
(* The two ways an admitted attempt is run: by a worker process around the   *)
(* ledger, and by a board's packet loop.  They share no variable, so a       *)
(* behaviour moves one of them ("part") and leaves the other as it began.    *)
(***************************************************************************)
EXTENDS Packet, Worker, TLC

CONSTANTS a1, a2, t1, t2, n1, n2, w1, m1, ws1, p1, p2

VARIABLE part

\* Two attempts whose clones do not both fit above the floor.
OneAndTwo == (a1 :> 1 @@ a2 :> 2)

\* Two workers, two tasks that share one workspace, one account with room for both and a
\* route that tries an unknown alias first.
OneSpec == {[model |-> m1, family |-> "fa", workspace |-> ws1, manifest |-> "in",
             provenance |-> "grid"]}
OneWindow == {w1}
OneReading == {[capacity |-> 2, windows |-> (w1 :> 2), expires |-> 2, models |-> {m1}]}
OneEstimate == {w1 :> 1}
OneReceipt == {[terminal |-> TRUE, artifacts |-> TRUE, model |-> m1, manifest |-> "in"]}
UnknownThenKnown == [t \in {t1, t2} |-> <<[account |-> n2, estimate |-> (w1 :> 1)],
                                         [account |-> n1, estimate |-> (w1 :> 1)]>>]
FirstSecond == (t1 :> 1 @@ t2 :> 2)
Never == {}
-----------------------------------------------------------------------------
\* The second packet is there for the disk and the ledger: too little of its wall is left for a
\* second round.
OneRound == loop[a2].round <= 1

AttemptsInit == part \in {"packets", "workers"} /\ PacketInit /\ GridInit

AttemptsNext ==
  /\ UNCHANGED part
  /\ \/ part = "packets" /\ PacketNext /\ OneRound' /\ UNCHANGED gridVars
     \/ part = "workers" /\ GridNext /\ UNCHANGED packetVars

\* The fairness of both specifications, for the part that moves.
AttemptsSpec ==
  /\ AttemptsInit
  /\ [][AttemptsNext]_<<part, packetVars, gridVars>>
  /\ \A a \in Attempts : WF_packetVars(part = "packets" /\ AttemptStep(a))
  /\ \A p \in Workers : WF_gridVars(part = "workers" /\ WorkerStep(p))
-----------------------------------------------------------------------------
\* Settles, of a behaviour that moves the packets: every attempt of a living process is settled.
PacketsSettle == part = "packets" => Settles
=============================================================================
