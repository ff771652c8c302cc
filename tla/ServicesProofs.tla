---------------------------- MODULE ServicesProofs ----------------------------
(***************************************************************************)
(* The services around a board's attempts together (MCServices), and the    *)
(* landings, the boards' loop and the alarm watcher together (MCLoop), for   *)
(* every value of the constants of their parts.  A behaviour of the whole is *)
(* one of each part: what is proved of the parts alone holds of them         *)
(* together, and no invariant of the whole needs more than theirs.           *)
(***************************************************************************)
EXTENDS MCServices, MCLoop, NodeProofs, LaneProofs, CapacityProofs, LoopProofs

\* A step of the services is a step of each part, or leaves that part alone.
LEMMA PartsMove ==
  ASSUME [ServicesNext]_servicesVars
  PROVE  /\ [RefreshNext]_refreshVars /\ [CollectorNext]_collectorVars
         /\ [ReadingsNext]_readingsVars /\ [CalibrationNext]_calVars /\ [ReviewNext]_planVars
         /\ [RouteNext]_routeVars /\ [DraftsNext]_draftVars /\ [LaneNext]_runVars
BY DEF ServicesNext, OthersStay, Parts, servicesVars

\* The services begin as each part begins.
LEMMA PartsBegin ==
  ASSUME ServicesInit
  PROVE  /\ RefreshInit /\ CollectorInit /\ ReadingsInit /\ CalibrationInit
         /\ ReviewInit /\ RouteInit /\ DraftsInit /\ LaneInit
BY DEF ServicesInit

\* The services together implement the specification of every part: nothing that they do, seen
\* from one part, is anything but a step of that part's code.
THEOREM ServicesImplementParts ==
  ServicesSpec => /\ RefreshSpec /\ CollectorSpec /\ ReadingsSpec /\ CalibrationSpec
                  /\ ReviewSpec /\ RouteSpec /\ DraftsSpec /\ LaneSpec
BY PartsBegin, PartsMove, PTL
   DEF ServicesSpec, servicesVars, RefreshSpec, CollectorSpec, ReadingsSpec, CalibrationSpec,
       ReviewSpec, RouteSpec, DraftsSpec, LaneSpec

\* Type correctness of all the services at once.
THEOREM ServicesTyping == ServicesSpec => []ServicesTyped
<1>1. CollectorInv => CollectorTypeOK
  BY DEF CollectorInv
<1>2. RefreshTypeOK /\ CollectorTypeOK /\ ReadingsTypeOK /\ CalibrationTypeOK
        /\ ReviewTypeOK /\ RouteTypeOK /\ DraftsTypeOK /\ LaneTypeOK
      => ServicesTyped
  BY DEF ServicesTyped
<1> QED BY <1>1, <1>2, ServicesImplementParts, CollectorInvariant, RefreshTyping,
           ReadingsTyping, CalibrationTyping, ReviewTyping, RouteTyping, DraftsTyping, LaneTyping, PTL

\* Every safety property of a service holds of the services together.
THEOREM ServicesSound ==
  ServicesSpec => [](/\ ReceiptEarned /\ CollectedShown /\ ReadingsHonest
                     /\ EvalsTrue /\ NothingUnreviewed /\ FixRecovered)
BY ServicesImplementParts, ReceiptIsEarned, CollectedIsShown, ReadingsAreHonest,
   EvalsAreTrue, NothingIsUnreviewed, FixIsRecovered, PTL

\* No step of the services answers a refresh twice, asks a provider that is to be left alone,
\* dispatches a task on a lane that does not suit it, or a model on a lane of which the pass knows
\* that it refuses it.
THEOREM ServicesSteps ==
  ServicesSpec => AnsweredOnce /\ ProviderRespected /\ DispatchSuited /\ RefusalHonoured
BY ServicesImplementParts, RefreshAnsweredOnce, ProviderIsRespected, DispatchIsSuited, RefusalIsHonoured, PTL
-----------------------------------------------------------------------------
\* Landings, the loop and the watcher without what the scheduling owes them.
LoopPartsMove ==
  /\ LandInit /\ [][LandNext]_landVars
  /\ TickInit /\ [][TickNext]_tickVars
  /\ WatchInit /\ [][WatchNext]_watchVars

\* Landings, the boards' loop and the watcher together do nothing but steps of each.
THEOREM LoopImplementsParts == LoopSpec => LoopPartsMove
<1>1. LoopInit => LandInit /\ TickInit /\ WatchInit
  BY DEF LoopInit
<1>2. [LoopNext]_loopVars => [LandNext]_landVars /\ [TickNext]_tickVars /\ [WatchNext]_watchVars
  BY DEF LoopNext, loopVars
<1> QED BY <1>1, <1>2, PTL DEF LoopSpec, LoopPartsMove, loopVars

\* Together, too, landings land only what was gated and one at a time, a drain is over in time
\* and the dead-man alarms for a loop that stopped and not for one whose passes are short.
THEOREM LoopSound == LoopSpec => [](LandingSound /\ DrainPrompt /\ DeadmanTrue)
<1>1. LoopPartsMove => []LandInv
  BY LandBegins, LandStepKeeps, PTL DEF LoopPartsMove
<1>2. LoopPartsMove => []LoopInv
  BY LoopBegins, LoopKeeps, PTL DEF LoopPartsMove
<1>3. LoopInv => DrainPrompt /\ DeadmanTrue
  BY BeatTells DEF LoopInv
<1> QED BY <1>1, <1>2, <1>3, LoopImplementsParts, LandSound, PTL
=============================================================================
