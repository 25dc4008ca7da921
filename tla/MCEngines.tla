------------------------------ MODULE MCEngines ------------------------------
(***************************************************************************)
(* The parts of the engines, each explored on its own while the others rest*)
(* in an initial state: they share no variable.  In the manager's part one *)
(* behaviour toggles or breaks two engines, by two requests, or by one     *)
(* beside the emergency stop.                                              *)
(***************************************************************************)
EXTENDS EngineManager, EngineGuards, EngineCodecs, LearningEngines, WarmPool,
        EngineState, ResponseRewrite

CONSTANTS e1, k1, c1, k2, M, r1, r2

VARIABLES
  focus,   \* the part this behaviour explores
  scope,   \* the engines the operator has to do with
  alone    \* one request, beside the emergency stop

vars == <<engineVars, breakerVars, busVars, rateVars, chaosVars, learningVars, warmVars,
          engineStateVars, responseVars, fecVars, focus, scope, alone>>

ASSUME MCEnginesAssumption ==
  {r1, r2} \subseteq Togglers /\ {e1, k1, c1, k2, M} \subseteq Names

EmptyBlock == [len |-> 0, bits |-> {}]
BlocksV == {EmptyBlock, [len |-> 1, bits |-> {1}], [len |-> 2, bits |-> {1, 2}]}
SeedsV == {[draw |-> 0, length |-> 8, offset |-> 2], [draw |-> 0, length |-> 11, offset |-> 2],
           [draw |-> 1, length |-> 9, offset |-> 3]}
Scopes == {{M, c1}, {M, k2}, {e1, k1}}

In(part) ==
  /\ focus = part /\ UNCHANGED <<focus, scope, alone>>
  /\ IF part = "manager"  THEN TRUE ELSE UNCHANGED engineVars
  /\ IF part = "breaker"  THEN TRUE ELSE UNCHANGED breakerVars
  /\ IF part = "bus"      THEN TRUE ELSE UNCHANGED busVars
  /\ IF part = "rate"     THEN TRUE ELSE UNCHANGED rateVars
  /\ IF part = "chaos"    THEN TRUE ELSE UNCHANGED chaosVars
  /\ IF part = "learning" THEN TRUE ELSE UNCHANGED learningVars
  /\ IF part = "warm"     THEN TRUE ELSE UNCHANGED warmVars
  /\ IF part = "state"    THEN TRUE ELSE UNCHANGED engineStateVars
  /\ IF part = "response" THEN TRUE ELSE UNCHANGED responseVars
  /\ IF part = "fec"      THEN TRUE ELSE UNCHANGED fecVars

Init ==
  /\ focus \in {"manager", "breaker", "bus", "rate", "chaos", "learning", "warm", "state",
                "response", "fec"}
  /\ scope \in Scopes /\ alone \in BOOLEAN
  /\ focus # "manager" => scope = {M, c1} /\ alone
  /\ ChaosInit /\ (focus # "chaos" => \A i \in DOMAIN seedOf : seedOf[i].length = 8)
  /\ LearningInit /\ (focus # "learning" => shared)
  /\ ResponseInit
  /\ focus # "response" => plan = <<1>> /\ request =
       [path |-> "api", browser |-> FALSE, engines |-> FALSE, compress |-> FALSE,
        declared |-> FALSE, type |-> "text", panel |-> FALSE]
  /\ EngineInit /\ GuardInit /\ WarmInit /\ EngineStateInit
  /\ FecInit /\ (focus # "fec" => group = [data |-> <<EmptyBlock>>, parity |-> 1])

Rs == IF alone THEN {r1} ELSE {r1, r2}
Breaking == IF alone THEN scope ELSE {}   \* the engines that may break at a boot

Next ==
  \/ \E b \in SUBSET Breaking : In("manager") /\ Boot(b)
  \/ \E r \in Rs, n \in scope, on \in BOOLEAN : In("manager") /\ ToggleAtOnce(r, n, on)
  \/ \E r \in Rs, n \in scope : In("manager") /\ EnableRefused(r, n)
  \/ \E r \in Rs, n \in scope : In("manager") /\ EnableBegins(r, n)
  \/ \E r \in Rs : In("manager") /\ StartSucceeds(r)
  \/ \E r \in Rs : In("manager") /\ KidStarts(r)
  \/ \E r \in Rs : In("manager") /\ StartFails(r)
  \/ \E r \in Rs, n \in scope : In("manager") /\ DisableBegins(r, n)
  \/ \E r \in Rs, c \in Inside : In("manager") /\ StopsKid(r, c)
  \/ \E r \in Rs : In("manager") /\ StopEnds(r)
  \/ In("manager") /\ alone /\ EmergencyBegins
  \/ \E o \in Names \X Numbers : In("manager") /\ EmergencyStops(o)
  \/ \E b \in Batches : In("breaker") /\ BatchEnters(b)
  \/ \E b \in Batches : In("breaker") /\ BatchProcessed(b)
  \/ \E b \in Batches : In("breaker") /\ BatchFails(b)
  \/ In("breaker") /\ CooldownTick
  \/ In("bus") /\ Publish
  \/ In("bus") /\ NextEvent
  \/ \E k \in Reporters : In("rate") /\ Report(k)
  \/ In("rate") /\ RateTick
  \/ In("chaos") /\ ChaosTick
  \/ \E n \in Sizes : In("chaos") /\ Encode(n)
  \/ \E k \in 1..(2 * MaxRecords) : In("chaos") /\ Receive(k)
  \/ In("learning") /\ Evolve
  \/ In("learning") /\ EvolveFailsAtDeletes
  \/ In("learning") /\ EvolveFailsAtCommit
  \/ \E e \in Engines : In("learning") /\ VolumeReached(e)
  \/ \E is \in SUBSET DOMAIN population, fit \in 0..TopFitness, ok \in BOOLEAN :
       In("learning") /\ FitnessUpdated(is, fit, ok)
  \/ \E ok \in BOOLEAN : In("learning") /\ ReportStored(ok)
  \/ \E pruned \in 0..MaxRows, ok \in BOOLEAN :
       In("learning") /\ Aggregate(pruned, ok)
  \/ In("learning") /\ Restart
  \/ In("learning") /\ OpenFails
  \/ \E t \in Targets : In("warm") /\ TakeWarm(t)
  \/ \E t \in Targets : In("warm") /\ DialBegins(t)
  \/ \E t \in Targets, ok \in BOOLEAN : In("warm") /\ DialEnds(t, ok)
  \/ \E t \in Targets : In("warm") /\ WarmBegins(t)
  \/ \E t \in Targets : In("warm") /\ WarmConnects(t)
  \/ \E t \in Targets : In("warm") /\ WarmFails(t)
  \/ \E s \in 1..MaxSockets : In("warm") /\ WarmReset(s)
  \/ In("warm") /\ WarmTick
  \/ In("warm") /\ WarmStops
  \/ \E e \in Payloads : In("state") /\ GetPayload(e)
  \/ \E e \in Payloads : In("state") /\ SetPayload(e)
  \/ \E e \in Payloads : In("state") /\ MutatePayload(e)
  \/ \E ok \in BOOLEAN : In("state") /\ FlushState(ok)
  \/ In("state") /\ StateRestart
  \/ In("state") /\ BackupBegins
  \/ \E ok \in BOOLEAN : In("state") /\ BackupCopies(ok)
  \/ In("state") /\ BackupEnds
  \/ In("state") /\ ClockTick
  \/ In("response") /\ AppStarts
  \/ In("response") /\ AppSends
  \/ In("response") /\ AppFails
  \/ \E i \in DOMAIN received : In("fec") /\ LoseBlock(i)

Spec == Init /\ [][Next]_vars

\* Every variable of every part has its type.
EnginesTypeOK ==
  /\ EngineTypeOK /\ GuardTypeOK /\ ChaosTypeOK /\ LearningTypeOK /\ WarmTypeOK
  /\ EngineStateTypeOK /\ ResponseTypeOK

(* ActiveIsPiped and BootAppliesDecisions of EngineManager.                *)
TogglesHold == []ActiveIsPiped /\ BootAppliesDecisions

(* GuardsHold of EngineGuards, and its types.                              *)
GuardsKept == GuardTypeOK /\ GuardsHold

(* GenomesKept of LearningEngines, StateKept of EngineState.               *)
StoresKept == GenomesKept /\ StateKept

(* What comes back out of a transformation is what went in: RecordsDecode  *)
(* and FecHolds of EngineCodecs, ResponseKept of ResponseRewrite; and every*)
(* variable of every part has its type.                                    *)
CodecsHold == EnginesTypeOK /\ RecordsDecode /\ FecHolds /\ ResponseKept
=============================================================================
