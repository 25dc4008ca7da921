---------------------------- MODULE EnginesProofs ----------------------------
(***************************************************************************)
(* Proofs about the engines (MCEngines), for any engines, requests, batches*)
(* reporters and targets.                                                  *)
(*                                                                         *)
(* The manager: Switched adds to the kill switch that no child, and no     *)
(* request that awaits a start, is of an engine that is switched off.      *)
(*                                                                         *)
(* The guards: an engine that only fails was entered no more often than it *)
(* has errors and batches inside; a bucket that was idle for long enough   *)
(* to be forgotten is full, so forgetting it gives nothing away.           *)
(*                                                                         *)
(* The warm pool: the buckets of two targets, and two places of a bucket,  *)
(* never name one socket; a socket leaves the pool only to one relay, or   *)
(* to be closed.                                                           *)
(*                                                                         *)
(* The stores: the seconds of the copies rise, and a rotation leaves the   *)
(* right end.  Genetic's numbers are below its counter; the ranking, which *)
(* is a choice by Cardinality (InOrder), gives every genome one place, so  *)
(* that survivors and doomed divide the population.                        *)
(*                                                                         *)
(* The codecs are in CodecProofs.  Here are the types of all parts, with   *)
(* the bounds, which need invariants of their own: a table, say, has no    *)
(* more genomes than were seeded, whichever engine commits.                *)
(***************************************************************************)
EXTENDS MCEngines, CodecProofs

Off  == ExplicitOff \cup CoreOnly
Awaited == [pc : {"idle", "starting", "startingKid", "stopping", "stoppingKid"},
            name : Names, num : 0..MaxObjects, left : SUBSET Inside]

ManagerTyped ==
  /\ running \subseteq Names \X Numbers
  /\ engines \in [Names -> 0..MaxObjects]
  /\ children \in [Numbers -> [Inside -> 0..MaxObjects]]
  /\ order \subseteq Names
  /\ toggle \in [Togglers -> Awaited]
  /\ \A r \in Togglers : toggle[r].pc \in {"starting", "startingKid"} => toggle[r].num \in Numbers

(* What is switched off neither runs, nor is a child, nor is being started.*)
Switched ==
  /\ \A o \in running : o[1] \notin Off
  /\ \A m \in Numbers, c \in Inside : children[m][c] # 0 => c \notin Off
  /\ \A r \in Togglers : toggle[r].pc \in {"starting", "startingKid"} => toggle[r].name \notin Off

ManagerInv == ManagerTyped /\ Switched /\ ActiveIsPiped

-----------------------------------------------------------------------------
(* An object that is made has a number of its own.                         *)
LEMMA NewIsFree ==
  ASSUME NEW n, Free(n) # {}
  PROVE  New(n) \in Free(n) /\ New(n) \in Numbers
<1>1. Free(n) \subseteq Nat
  BY EngineAssumption DEF Free, Numbers
<1>2. \E k \in Free(n) : \A j \in Free(n) : k <= j
  BY <1>1, SetsOfNumbersHaveALeast
<1>3. New(n) \in Free(n)
  BY <1>2 DEF New
<1> QED
  BY <1>3 DEF Free

(* What a boot starts, and what it builds inside the module, is not        *)
(* switched off.                                                           *)
LEMMA BootKeepsSwitches ==
  ASSUME NEW decided, NEW broken
  PROVE  /\ \A n \in Started(decided, broken) : n \in Names /\ n \notin Off
         /\ \A n \in StartedInside(decided, broken) : n \in Inside /\ n \notin Off
<1>1. ASSUME NEW n, NEW force, Activates(n, force, broken)
      PROVE  n \notin Off
  BY <1>1 DEF Activates, EnvDisabled, Off
<1>2. EffectiveOrder \subseteq Names
  BY DEF EffectiveOrder, Names
<1>3. ASSUME NEW n \in Started(decided, broken)
      PROVE  n \in Names /\ n \notin Off
  <2>1. \/ n \in EffectiveOrder /\ Activates(n, decided[n] = "on", broken)
        \/ n \in Inside /\ Activates(n, TRUE, broken)
    BY <1>3 DEF Started
  <2> QED
    BY <2>1, <1>1, <1>2 DEF Names
<1>4. ASSUME NEW n \in StartedInside(decided, broken)
      PROVE  n \in Inside /\ n \notin Off
  BY <1>4 DEF StartedInside, Instantiated, Off
<1> QED
  BY <1>3, <1>4

LEMMA BootIsTyped ==
  ASSUME NEW decided, NEW broken
  PROVE  /\ BootRunning(decided, broken) \subseteq Names \X Numbers
         /\ \A o \in BootRunning(decided, broken) : o[1] \notin Off
         /\ BootEngines(decided, broken) \in [Names -> 0..MaxObjects]
         /\ BootChildren(decided, broken) \in [Numbers -> [Inside -> 0..MaxObjects]]
         /\ \A m \in Numbers, c \in Inside :
              BootChildren(decided, broken)[m][c] # 0 => c \notin Off
         /\ BootOrder(decided, broken) \subseteq Names
<1>1. 1 \in Numbers /\ 0 \in 0..MaxObjects /\ 1 \in 0..MaxObjects
  BY EngineAssumption DEF Numbers
<1>2. Inside \subseteq Names
  BY DEF Names
<1>3. /\ BootRunning(decided, broken) \subseteq Names \X Numbers
      /\ \A o \in BootRunning(decided, broken) : o[1] \notin Off
  BY <1>1, <1>2, BootKeepsSwitches DEF BootRunning
<1>4. BootEngines(decided, broken) \in [Names -> 0..MaxObjects]
  BY <1>1 DEF BootEngines
<1>5. BootChildren(decided, broken) \in [Numbers -> [Inside -> 0..MaxObjects]]
  BY <1>1 DEF BootChildren
<1>6. ASSUME NEW m \in Numbers, NEW c \in Inside, BootChildren(decided, broken)[m][c] # 0
      PROVE  c \notin Off
  BY <1>6 DEF BootChildren, Instantiated, Off
<1>7. BootOrder(decided, broken) \subseteq Names
  BY DEF BootOrder, EffectiveOrder, Names
<1> QED
  BY <1>3, <1>4, <1>5, <1>6, <1>7

(* The state that a boot leaves, whatever was recorded and breaks.         *)
LEMMA BootedIsGood ==
  ASSUME NEW decided, NEW broken,
         LET b == Booted(decided, broken)
         IN /\ running' = b.running /\ engines' = b.engines /\ children' = b.children
            /\ order' = b.order /\ piped' = b.piped,
         toggle' = [r \in Togglers |-> AtRest]
  PROVE  ManagerInv'
<1>1. /\ running' = BootRunning(decided, broken) /\ engines' = BootEngines(decided, broken)
      /\ children' = BootChildren(decided, broken) /\ order' = BootOrder(decided, broken)
      /\ piped' = Pipelines(engines', running', order')
  BY DEF Booted
<1>2. AtRest \in Awaited /\ AtRest.pc = "idle"
  BY EngineAssumption DEF AtRest, Awaited, Names
<1>3. ManagerTyped'
  BY <1>1, <1>2, BootIsTyped DEF ManagerTyped
<1>4. Switched'
  BY <1>1, <1>2, BootIsTyped DEF Switched
<1>5. ActiveIsPiped'
  BY <1>1 DEF ActiveIsPiped, Active, Object, Pipelines
<1> QED
  BY <1>3, <1>4, <1>5 DEF ManagerInv
-----------------------------------------------------------------------------
(* The steps of the manager.                                               *)
LEMMA RebuiltIsGood ==
  ASSUME Rebuilt(engines', running'), order' = order
  PROVE  ActiveIsPiped'
BY DEF Rebuilt, ActiveIsPiped, Active, Object, Pipelines

LEMMA LessIsPiped ==
  ASSUME ActiveIsPiped, order' = order, piped' = piped, running' \subseteq running,
         \A n \in order : engines'[n] \in {engines[n], 0}
  PROVE  ActiveIsPiped'
<1> SUFFICES ASSUME NEW n \in order, engines'[n] # 0, <<n, engines'[n]>> \in running'
             PROVE  n \in piped
  BY DEF ActiveIsPiped, Active, Object
<1>1. engines[n] # 0 /\ <<n, engines[n]>> \in running
  OBVIOUS
<1> QED
  BY <1>1 DEF ActiveIsPiped, Active, Object

LEMMA KeptIsLess ==
  ASSUME ManagerTyped, NEW on, NEW kids, NEW rs
  PROVE  /\ Kept(on, kids, rs) \in [Names -> 0..MaxObjects]
         /\ \A n \in Names : Kept(on, kids, rs)[n] \in {engines[n], 0}
<1>1. 0 \in 0..MaxObjects
  BY EngineAssumption
<1> QED
  BY <1>1 DEF Kept, ManagerTyped

LEMMA ToggleMoves ==
  ASSUME ManagerTyped, Switched, NEW r \in Togglers, NEW x \in Awaited,
         toggle' = [toggle EXCEPT ![r] = x],
         x.pc \in {"starting", "startingKid"} => x.num \in Numbers /\ x.name \notin Off
  PROVE  /\ toggle' \in [Togglers -> Awaited]
         /\ \A s \in Togglers : toggle'[s].pc \in {"starting", "startingKid"}
              => toggle'[s].num \in Numbers /\ toggle'[s].name \notin Off
<1>1. \A s \in Togglers : toggle'[s] = IF s = r THEN x ELSE toggle[s]
  BY DEF ManagerTyped
<1>2. toggle' \in [Togglers -> Awaited]
  BY DEF ManagerTyped
<1> QED
  BY <1>1, <1>2 DEF ManagerTyped, Switched

LEMMA ToggleRests ==
  ASSUME ManagerTyped, Switched, NEW r \in Togglers, Done(r)
  PROVE  /\ toggle' \in [Togglers -> Awaited]
         /\ \A s \in Togglers : toggle'[s].pc \in {"starting", "startingKid"}
              => toggle'[s].num \in Numbers /\ toggle'[s].name \notin Off
<1>1. AtRest \in Awaited /\ AtRest.pc = "idle"
  BY EngineAssumption DEF AtRest, Awaited, Names
<1> QED
  BY <1>1, ToggleMoves DEF Done

LEMMA ToggleAtOnceKeeps ==
  ASSUME ManagerInv, NEW r \in Togglers, NEW n \in Names, NEW on, ToggleAtOnce(r, n, on)
  PROVE  ManagerInv'
<1>1. engines' \in [Names -> 0..MaxObjects]
  BY EngineAssumption DEF ToggleAtOnce, ManagerInv, ManagerTyped
<1>2. UNCHANGED <<running, children, order, toggle>> /\ Rebuilt(engines', running')
  BY DEF ToggleAtOnce
<1>3. ActiveIsPiped'
  BY <1>2, RebuiltIsGood
<1> QED
  BY <1>1, <1>2, <1>3 DEF ManagerInv, ManagerTyped, Switched

LEMMA EnableRefusedKeeps ==
  ASSUME ManagerInv, NEW r \in Togglers, NEW n \in Names, EnableRefused(r, n)
  PROVE  ManagerInv'
<1>1. engines' \in [Names -> 0..MaxObjects] /\ \A m \in Names : engines'[m] \in {engines[m], 0}
  BY EngineAssumption DEF EnableRefused, ManagerInv, ManagerTyped
<1>2. UNCHANGED <<running, children, order, toggle, piped>>
  BY DEF EnableRefused
<1>3. ActiveIsPiped'
  BY <1>1, <1>2, LessIsPiped DEF ManagerInv, ManagerTyped
<1> QED
  BY <1>1, <1>2, <1>3 DEF ManagerInv, ManagerTyped, Switched

(* What a request starts is no kill switch's: a child of the module is none*)
(* of them, and anything else was asked for.                               *)
LEMMA EnableBeginsKeeps ==
  ASSUME ManagerInv, NEW r \in Togglers, NEW n \in Names, EnableBegins(r, n)
  PROVE  ManagerInv'
<1> USE DEF ManagerInv
<1>1. UNCHANGED <<running, engines, children, order, piped>>
  BY DEF EnableBegins
<1>2. PICK x \in Awaited :
        /\ toggle' = [toggle EXCEPT ![r] = x]
        /\ x.num \in Numbers /\ x.name \notin Off
  <2>1. CASE Within(n, TRUE) /\ Awaits(r, "startingKid", n, Kid(n)[2], {})
    <3>1. n \in Inside /\ engines[Module] # 0 /\ children[engines[Module]][n] # 0
      BY <2>1 DEF Within, Active
    <3>2. Module \in Names
      BY DEF Names
    <3>3. engines[Module] \in Numbers
      BY <3>1, <3>2, EngineAssumption DEF ManagerTyped, Numbers
    <3>4. children[engines[Module]][n] \in Numbers /\ n \notin Off
      BY <3>1, <3>3, EngineAssumption DEF ManagerTyped, Switched, Numbers
    <3>5. Kid(n)[2] = children[engines[Module]][n]
      BY DEF Kid
    <3>6. [pc |-> "startingKid", name |-> n, num |-> Kid(n)[2], left |-> {}] \in Awaited
      BY <3>4, <3>5, EngineAssumption DEF Awaited, Numbers
    <3> QED
      BY <2>1, <3>4, <3>5, <3>6 DEF Awaits
  <2>2. CASE Activates(n, TRUE, {}) /\ Free(n) # {} /\ Awaits(r, "starting", n, New(n), {})
    <3>1. New(n) \in Numbers
      BY <2>2, NewIsFree
    <3>2. n \notin Off
      BY <2>2 DEF Activates, EnvDisabled, Off
    <3>3. [pc |-> "starting", name |-> n, num |-> New(n), left |-> {}] \in Awaited
      BY <3>1, EngineAssumption DEF Awaited, Numbers
    <3> QED
      BY <2>2, <3>1, <3>2, <3>3 DEF Awaits
  <2> QED
    BY <2>1, <2>2 DEF EnableBegins
<1>3. /\ toggle' \in [Togglers -> Awaited]
      /\ \A s \in Togglers : toggle'[s].pc \in {"starting", "startingKid"}
           => toggle'[s].num \in Numbers /\ toggle'[s].name \notin Off
  BY <1>2, ToggleMoves
<1>4. ActiveIsPiped'
  BY <1>1, LessIsPiped
<1> QED
  BY <1>1, <1>3, <1>4 DEF ManagerTyped, Switched

LEMMA DisableBeginsKeeps ==
  ASSUME ManagerInv, NEW r \in Togglers, NEW n \in Names, DisableBegins(r, n)
  PROVE  ManagerInv'
<1> USE DEF ManagerInv
<1>1. UNCHANGED <<running, engines, children, order, piped>>
  BY DEF DisableBegins
<1>2. PICK x \in Awaited :
        toggle' = [toggle EXCEPT ![r] = x] /\ x.pc \in {"stopping", "stoppingKid"}
  <2>1. CASE Within(n, FALSE) /\ Awaits(r, "stoppingKid", n, Kid(n)[2], {})
    <3>1. n \in Inside /\ engines[Module] # 0 /\ Module \in Names
      BY <2>1 DEF Within, Active, Names
    <3>2. engines[Module] \in Numbers
      BY <3>1, EngineAssumption DEF ManagerTyped, Numbers
    <3>3. Kid(n)[2] \in 0..MaxObjects
      BY <3>1, <3>2 DEF ManagerTyped, Kid
    <3>4. [pc |-> "stoppingKid", name |-> n, num |-> Kid(n)[2], left |-> {}] \in Awaited
      BY <3>3 DEF Awaited
    <3> QED
      BY <2>1, <3>4 DEF Awaits
  <2>2. CASE Awaits(r, "stopping", n, engines[n], IF n = Module THEN Inside ELSE {})
    <3> DEFINE left == IF n = Module THEN Inside ELSE {}
    <3>1. left \in SUBSET Inside /\ engines[n] \in 0..MaxObjects
      BY DEF ManagerTyped
    <3> HIDE DEF left
    <3>2. [pc |-> "stopping", name |-> n, num |-> engines[n], left |-> left] \in Awaited
      BY <3>1 DEF Awaited
    <3> QED
      BY <2>2, <3>2 DEF Awaits, left
  <2> QED
    BY <2>1, <2>2 DEF DisableBegins
<1>3. /\ toggle' \in [Togglers -> Awaited]
      /\ \A s \in Togglers : toggle'[s].pc \in {"starting", "startingKid"}
           => toggle'[s].num \in Numbers /\ toggle'[s].name \notin Off
  BY <1>2, ToggleMoves
<1>4. ActiveIsPiped'
  BY <1>1, LessIsPiped
<1> QED
  BY <1>1, <1>3, <1>4 DEF ManagerTyped, Switched

LEMMA StartFailsKeeps ==
  ASSUME ManagerInv, NEW r \in Togglers, StartFails(r)
  PROVE  ManagerInv'
<1> USE DEF ManagerInv
<1>1. engines' \in [Names -> 0..MaxObjects] /\ \A m \in Names : engines'[m] \in {engines[m], 0}
  <2>1. toggle[r].name \in Names /\ 0 \in 0..MaxObjects
    BY EngineAssumption DEF ManagerTyped, Awaited
  <2> QED
    BY <2>1 DEF StartFails, ManagerTyped
<1>2. UNCHANGED <<running, children, order, piped>>
  BY DEF StartFails
<1>3. /\ toggle' \in [Togglers -> Awaited]
      /\ \A s \in Togglers : toggle'[s].pc \in {"starting", "startingKid"}
           => toggle'[s].num \in Numbers /\ toggle'[s].name \notin Off
  BY ToggleRests DEF StartFails
<1>4. ActiveIsPiped'
  BY <1>1, <1>2, LessIsPiped DEF ManagerTyped
<1> QED
  BY <1>1, <1>2, <1>3, <1>4 DEF ManagerTyped, Switched

LEMMA KidStartsKeeps ==
  ASSUME ManagerInv, NEW r \in Togglers, KidStarts(r)
  PROVE  ManagerInv'
<1> USE DEF ManagerInv
<1>1. UNCHANGED <<engines, children, order>>
  BY DEF KidStarts
<1>2. /\ toggle[r].name \in Names /\ toggle[r].num \in Numbers /\ toggle[r].name \notin Off
  BY DEF KidStarts, ManagerTyped, Switched, Awaited
<1>3. running' \subseteq Names \X Numbers /\ \A o \in running' : o[1] \notin Off
  BY <1>2 DEF KidStarts, ManagerTyped, Switched
<1>4. /\ toggle' \in [Togglers -> Awaited]
      /\ \A s \in Togglers : toggle'[s].pc \in {"starting", "startingKid"}
           => toggle'[s].num \in Numbers /\ toggle'[s].name \notin Off
  BY ToggleRests DEF KidStarts
<1>5. ActiveIsPiped'
  <2>1. Rebuilt(engines', running')
    BY <1>1 DEF KidStarts
  <2> QED
    BY <2>1, <1>1, RebuiltIsGood
<1> QED
  BY <1>1, <1>3, <1>4, <1>5 DEF ManagerTyped, Switched

LEMMA StopsKidKeeps ==
  ASSUME ManagerInv, NEW r \in Togglers, NEW c \in Inside, StopsKid(r, c)
  PROVE  ManagerInv'
<1> USE DEF ManagerInv
<1>1. UNCHANGED <<engines, children, order, piped>> /\ running' \subseteq running
  BY DEF StopsKid
<1>2. toggle[r] \in Awaited /\ toggle[r].pc = "stopping"
  BY DEF StopsKid, ManagerTyped
<1>3. [toggle[r] EXCEPT !.left = @ \ {c}] \in Awaited
  BY <1>2 DEF Awaited
<1>4. toggle' = [toggle EXCEPT ![r] = [toggle[r] EXCEPT !.left = @ \ {c}]]
  BY DEF StopsKid, ManagerTyped
<1>5. [toggle[r] EXCEPT !.left = @ \ {c}].pc = "stopping"
  BY <1>2 DEF Awaited
<1>6. /\ toggle' \in [Togglers -> Awaited]
      /\ \A s \in Togglers : toggle'[s].pc \in {"starting", "startingKid"}
           => toggle'[s].num \in Numbers /\ toggle'[s].name \notin Off
  BY <1>3, <1>4, <1>5, ToggleMoves
<1>7. ActiveIsPiped'
  BY <1>1, LessIsPiped
<1> QED
  BY <1>1, <1>6, <1>7 DEF ManagerTyped, Switched

LEMMA StopEndsKeeps ==
  ASSUME ManagerInv, NEW r \in Togglers, StopEnds(r)
  PROVE  ManagerInv'
<1> USE DEF ManagerInv
<1>1. running' \subseteq running /\ order' = order
  BY DEF StopEnds
<1>2. engines' \in [Names -> 0..MaxObjects]
  BY KeptIsLess DEF StopEnds
<1>3. /\ children' \in [Numbers -> [Inside -> 0..MaxObjects]]
      /\ \A m \in Numbers, c \in Inside : children'[m][c] \in {children[m][c], 0}
  <2>1. NoKids \in [Inside -> 0..MaxObjects] /\ \A c \in Inside : NoKids[c] = 0
    BY EngineAssumption DEF NoKids
  <2>2. children' \in {children, [children EXCEPT ![toggle[r].num] = NoKids]}
    BY DEF StopEnds
  <2> QED
    BY <2>1, <2>2 DEF ManagerTyped
<1>4. /\ toggle' \in [Togglers -> Awaited]
      /\ \A s \in Togglers : toggle'[s].pc \in {"starting", "startingKid"}
           => toggle'[s].num \in Numbers /\ toggle'[s].name \notin Off
  BY ToggleRests DEF StopEnds
<1>5. ActiveIsPiped'
  BY <1>1, RebuiltIsGood DEF StopEnds
<1> QED
  BY <1>1, <1>2, <1>3, <1>4, <1>5 DEF ManagerTyped, Switched

LEMMA EmergencyKeeps ==
  ASSUME ManagerInv, NEW o, EmergencyStops(o)
  PROVE  ManagerInv'
<1> USE DEF ManagerInv
<1>1. running' \subseteq running /\ order' = order /\ toggle' = toggle
  BY DEF EmergencyStops
<1>2. engines' = Kept(running', children', {})
  BY DEF EmergencyStops
<1>3. engines' \in [Names -> 0..MaxObjects] /\ \A n \in Names : engines'[n] \in {engines[n], 0}
  BY <1>2, KeptIsLess
<1>4. /\ children' \in [Numbers -> [Inside -> 0..MaxObjects]]
      /\ \A m \in Numbers, c \in Inside : children'[m][c] \in {children[m][c], 0}
  BY EngineAssumption DEF EmergencyStops, ManagerTyped, NoKids
<1>5. Rebuilt(engines', running') \/ piped' = piped
  BY DEF EmergencyStops
<1>6. ActiveIsPiped'
  BY <1>1, <1>3, <1>5, RebuiltIsGood, LessIsPiped DEF ManagerTyped
<1> QED
  BY <1>1, <1>3, <1>4, <1>6 DEF ManagerTyped, Switched

(* The children that a new module builds are none that are switched off.   *)
LEMMA StartSucceedsKeeps ==
  ASSUME ManagerInv, NEW r \in Togglers, StartSucceeds(r)
  PROVE  ManagerInv'
<1> USE DEF ManagerInv
<1> DEFINE n == toggle[r].name
           k == toggle[r].num
           kids == IF n = Module THEN Instantiated ELSE {}
<1>1. /\ n \in Names /\ k \in Numbers /\ n \notin Off
  BY DEF StartSucceeds, ManagerTyped, Switched, Awaited
<1>2. kids \subseteq Inside /\ \A c \in kids : c \notin Off
  BY DEF Instantiated, Off
<1>3. \A c \in kids : New(c) \in Numbers
  BY NewIsFree DEF StartSucceeds
<1>4. PICK broken \in SUBSET kids :
        /\ running' = running \cup {<<n, k>>} \cup {<<c, New(c)>> : c \in kids \ broken}
        /\ engines' = [e \in Names |->
             IF e = n THEN k
             ELSE IF e \in kids /\ ~Active(e) THEN New(e) ELSE engines[e]]
        /\ children' = IF n = Module
                       THEN [children EXCEPT ![k] = [c \in Inside |-> IF c \in kids THEN New(c) ELSE 0]]
                       ELSE children
        /\ Rebuilt(engines', running')
  BY DEF StartSucceeds
<1>5. Inside \subseteq Names /\ Numbers \subseteq 0..MaxObjects /\ 0 \in 0..MaxObjects
  BY EngineAssumption DEF Names, Numbers
<1> HIDE DEF n, k, kids
<1>6. running' \subseteq Names \X Numbers /\ \A o \in running' : o[1] \notin Off
  BY <1>1, <1>2, <1>3, <1>4, <1>5 DEF ManagerTyped, Switched
<1>7. engines' \in [Names -> 0..MaxObjects]
  BY <1>1, <1>2, <1>3, <1>4, <1>5 DEF ManagerTyped
<1>8. /\ children' \in [Numbers -> [Inside -> 0..MaxObjects]]
      /\ \A m \in Numbers, c \in Inside : children'[m][c] # 0 => c \notin Off
  <2> DEFINE new == [c \in Inside |-> IF c \in kids THEN New(c) ELSE 0]
  <2>1. new \in [Inside -> 0..MaxObjects] /\ \A c \in Inside : new[c] # 0 => c \notin Off
    BY <1>2, <1>3, <1>5
  <2>2. children' \in {children, [children EXCEPT ![k] = new]}
    BY <1>4
  <2> HIDE DEF new
  <2> QED
    BY <1>1, <2>1, <2>2 DEF ManagerTyped, Switched
<1>9. /\ toggle' \in [Togglers -> Awaited]
      /\ \A s \in Togglers : toggle'[s].pc \in {"starting", "startingKid"}
           => toggle'[s].num \in Numbers /\ toggle'[s].name \notin Off
  BY ToggleRests DEF StartSucceeds
<1>10. order' = order /\ ActiveIsPiped'
  <2>1. order' = order
    BY DEF StartSucceeds
  <2> QED
    BY <2>1, <1>4, RebuiltIsGood
<1> QED
  BY <1>6, <1>7, <1>8, <1>9, <1>10 DEF ManagerTyped, Switched

-----------------------------------------------------------------------------
LEMMA ManagerStarts == Init => ManagerInv
<1> SUFFICES ASSUME Init PROVE ManagerInv
  OBVIOUS
<1>1. EngineInit
  BY DEF Init
<1>2. /\ running = BootRunning(Undecided, {}) /\ engines = BootEngines(Undecided, {})
      /\ children = BootChildren(Undecided, {}) /\ order = BootOrder(Undecided, {})
      /\ piped = Pipelines(engines, running, order)
      /\ toggle = [r \in Togglers |-> AtRest]
  BY <1>1 DEF EngineInit, Booted
<1>3. AtRest \in Awaited /\ AtRest.pc = "idle"
  BY EngineAssumption DEF AtRest, Awaited, Names
<1>4. ManagerTyped
  BY <1>2, <1>3, BootIsTyped DEF ManagerTyped
<1>5. Switched
  BY <1>2, <1>3, BootIsTyped DEF Switched
<1>6. ActiveIsPiped
  BY <1>2 DEF ActiveIsPiped, Active, Object, Pipelines
<1> QED
  BY <1>4, <1>5, <1>6 DEF ManagerInv

(* A step of the manager, or none.                                         *)
ManagerStep ==
  \/ \E b : Boot(b)
  \/ \E r \in Togglers, n \in Names : \/ \E on \in BOOLEAN : ToggleAtOnce(r, n, on)
                                      \/ EnableRefused(r, n) \/ EnableBegins(r, n)
                                      \/ DisableBegins(r, n)
  \/ \E r \in Togglers : StartSucceeds(r) \/ KidStarts(r) \/ StartFails(r) \/ StopEnds(r)
  \/ \E r \in Togglers, c \in Inside : StopsKid(r, c)
  \/ EmergencyBegins
  \/ \E o : EmergencyStops(o)

LEMMA ManagerSteps ==
  ASSUME [Next]_vars, scope \subseteq Names
  PROVE  ManagerStep \/ UNCHANGED engineVars
<1>1. CASE UNCHANGED vars
  BY <1>1 DEF vars
<1>2. CASE Next
  <2>1. Rs \subseteq Togglers
    BY MCEnginesAssumption DEF Rs
  <2>2. ASSUME NEW part, part # "manager", In(part)
        PROVE  UNCHANGED engineVars
    BY <2>2 DEF In
  <2>3. \/ \E b \in SUBSET Breaking : Boot(b)
        \/ \E r \in Rs, n \in scope, on \in BOOLEAN : ToggleAtOnce(r, n, on)
        \/ \E r \in Rs, n \in scope : EnableRefused(r, n)
        \/ \E r \in Rs, n \in scope : EnableBegins(r, n)
        \/ \E r \in Rs : StartSucceeds(r)
        \/ \E r \in Rs : KidStarts(r)
        \/ \E r \in Rs : StartFails(r)
        \/ \E r \in Rs, n \in scope : DisableBegins(r, n)
        \/ \E r \in Rs, c \in Inside : StopsKid(r, c)
        \/ \E r \in Rs : StopEnds(r)
        \/ EmergencyBegins
        \/ \E o \in Names \X Numbers : EmergencyStops(o)
        \/ UNCHANGED engineVars
    BY <1>2, <2>2, Zenon DEF Next
  <2> QED
    BY <2>1, <2>3, Zenon DEF ManagerStep
<1> QED
  BY <1>1, <1>2

LEMMA ManagerKeeps ==
  ASSUME ManagerInv, ManagerStep
  PROVE  ManagerInv'
<1>1. ASSUME NEW b, Boot(b) PROVE ManagerInv'
  BY <1>1, BootedIsGood, Zenon DEF Boot
<1>2. ASSUME EmergencyBegins PROVE ManagerInv'
  BY <1>2 DEF EmergencyBegins, ManagerInv, ManagerTyped, Switched, ActiveIsPiped, Active, Object
<1> QED
  BY <1>1, <1>2, ToggleAtOnceKeeps, EnableRefusedKeeps, EnableBeginsKeeps, DisableBeginsKeeps,
     StartSucceedsKeeps, KidStartsKeeps, StartFailsKeeps, StopEndsKeeps, StopsKidKeeps,
     EmergencyKeeps, Zenon
     DEF ManagerStep

LEMMA ManagerRests ==
  ASSUME ManagerInv, UNCHANGED engineVars
  PROVE  ManagerInv'
BY DEF engineVars, ManagerInv, ManagerTyped, Switched, ActiveIsPiped, Active, Object

(* What the operator's requests are about are engines.                     *)
LEMMA ScopeIsNames == Spec => [](scope \subseteq Names)
<1>1. Init => scope \subseteq Names
  BY MCEnginesAssumption DEF Init, Scopes
<1>2. [Next]_vars => scope' = scope
  BY Zenon DEF Next, In, vars
<1>3. scope \subseteq Names /\ [Next]_vars => (scope \subseteq Names)'
  BY <1>2
<1> QED
  BY <1>1, <1>3, PTL DEF Spec

LEMMA ManagerIsGood == Spec => []ManagerInv
<1>1. ManagerInv /\ scope \subseteq Names /\ [Next]_vars => ManagerInv'
  BY ManagerSteps, ManagerKeeps, ManagerRests
<1> QED
  BY <1>1, ManagerStarts, ScopeIsNames, PTL DEF Spec

(* "the env kill-switch always wins": an engine that is switched off never *)
(* runs, by itself or inside a module, whatever boots, toggles, failures   *)
(* and the emergency stop do.                                              *)
THEOREM KillSwitchWins == Spec => []KillSwitchHolds
<1>1. ManagerInv => KillSwitchHolds
  BY DEF ManagerInv, Switched, Off, KillSwitchHolds
<1> QED
  BY <1>1, ManagerIsGood, PTL

(* Whatever is active is in the pipelines while the toggles await, and a   *)
(* boot applies what was decided, whatever fails to start.                 *)
THEOREM TogglesAreKept == Spec => TogglesHold
<1>1. ManagerInv => ActiveIsPiped
  BY DEF ManagerInv
<1>2. ASSUME NEW decided, NEW broken,
             NEW n \in Plain \ (CoreOnly \cup ExplicitOff \cup broken), decided[n] = "on"
      PROVE  n \in Started(decided, broken)
  BY <1>2, EngineAssumption DEF Started, EffectiveOrder, Activates, EnvDisabled
<1>3. ASSUME NEW decided, NEW broken, NEW n \in Started(decided, broken) \cup StartedInside(decided, broken)
      PROVE  decided[n] # "off"
  BY <1>3 DEF Started, StartedInside
<1>4. [toggles' # toggles =>
         \A broken \in SUBSET Names :
           LET up == Started(toggles', broken) \cup StartedInside(toggles', broken)
           IN /\ \A n \in up : toggles'[n] # "off"
              /\ \A n \in Plain \ (CoreOnly \cup ExplicitOff \cup broken) :
                   toggles'[n] = "on" => n \in up]_engineVars
  BY <1>2, <1>3
<1>5. Spec => []ActiveIsPiped
  BY <1>1, ManagerIsGood, PTL
<1>6. Spec => BootAppliesDecisions
  BY <1>4, PTL DEF BootAppliesDecisions
<1> QED
  BY <1>5, <1>6 DEF TogglesHold

-----------------------------------------------------------------------------
(* The breaker: what was let in since the last success or trip has failed, *)
(* or is still inside.                                                     *)
BreakerInv ==
  /\ errors \in 0..(MaxErrors - 1) /\ bypass \in 0..Cooldown /\ inside \subseteq Batches
  /\ entered \in Nat /\ entered <= errors + Cardinality(inside)

LEMMA InsideIsFinite ==
  ASSUME BreakerInv
  PROVE  /\ IsFiniteSet(inside) /\ Cardinality(inside) \in Nat
         /\ Cardinality(Batches) \in Nat /\ Cardinality(inside) <= Cardinality(Batches)
BY GuardAssumption, FS_Subset, FS_CardinalityType DEF BreakerInv

LEMMA BreakerKeeps ==
  ASSUME BreakerInv,
         \/ \E b \in Batches : BatchEnters(b) \/ BatchProcessed(b) \/ BatchFails(b)
         \/ CooldownTick
         \/ UNCHANGED breakerVars
  PROVE  BreakerInv'
<1>0. /\ MaxErrors \in Nat \ {0} /\ Cooldown \in Nat
      /\ errors \in 0..(MaxErrors - 1) /\ bypass \in 0..Cooldown /\ entered \in Nat
  BY GuardAssumption DEF BreakerInv
<1>1. ASSUME NEW b \in Batches, BatchEnters(b) PROVE BreakerInv'
  <2>1. IsFiniteSet(inside) /\ Cardinality(inside) \in Nat
    BY InsideIsFinite
  <2>2. Cardinality(inside \cup {b}) = Cardinality(inside) + 1
    BY <1>1, <2>1, FS_AddElement DEF BatchEnters
  <2> QED
    BY <1>0, <1>1, <2>1, <2>2 DEF BatchEnters, BreakerInv
<1>2. ASSUME NEW b \in Batches, BatchProcessed(b) \/ BatchFails(b) PROVE BreakerInv'
  <2>1. b \in inside /\ inside' = inside \ {b}
    BY <1>2 DEF BatchProcessed, BatchFails
  <2>2. IsFiniteSet(inside) /\ Cardinality(inside) \in Nat
    BY InsideIsFinite
  <2>3. Cardinality(inside') = Cardinality(inside) - 1 /\ IsFiniteSet(inside')
    BY <2>1, <2>2, FS_RemoveElement
  <2>4. Cardinality(inside') \in Nat
    BY <2>3, FS_CardinalityType
  <2>5. CASE BatchProcessed(b)
    BY <1>0, <2>1, <2>4, <2>5 DEF BatchProcessed, BreakerInv
  <2>6. CASE BatchFails(b) /\ Tripped(errors + 1)
    BY <1>0, <2>1, <2>4, <2>6 DEF BatchFails, BreakerInv
  <2>7. CASE BatchFails(b) /\ ~Tripped(errors + 1)
    BY <1>0, <2>1, <2>2, <2>3, <2>7 DEF BatchFails, Tripped, BreakerInv
  <2> QED
    BY <1>2, <2>5, <2>6, <2>7
<1>3. ASSUME CooldownTick PROVE BreakerInv'
  BY <1>0, <1>3 DEF CooldownTick, BreakerInv
<1>4. ASSUME UNCHANGED breakerVars PROVE BreakerInv'
  BY <1>4 DEF breakerVars, BreakerInv
<1> QED
  BY <1>1, <1>2, <1>3, <1>4

(* The bus: what is seen rises, and nothing of it is newer than what was   *)
(* published last.                                                         *)
Rising(s) == \A i \in 1..(Len(s) - 1) : s[i] < s[i + 1]

BusInv ==
  /\ queue \in Seq(Nat) /\ got \in Seq(Nat) /\ Len(queue) <= QueueSize
  /\ published \in 0..MaxEvents /\ dropped \in Nat
  /\ Rising(got \o queue) /\ \A i \in 1..Len(got \o queue) : (got \o queue)[i] <= published
  /\ Len(got \o queue) + dropped = published

LEMMA PublishKeeps ==
  ASSUME BusInv, Publish
  PROVE  BusInv'
<1> DEFINE s == got \o queue
<1>0. /\ published \in Nat /\ dropped \in Nat /\ MaxEvents \in Nat /\ QueueSize \in Nat
      /\ s \in Seq(Nat) /\ queue \in Seq(Nat) /\ got \in Seq(Nat)
      /\ Len(queue) <= QueueSize
  BY GuardAssumption DEF BusInv
<1>1. published' = published + 1 /\ published' \in 0..MaxEvents /\ got' = got
  BY <1>0 DEF Publish
<1>2. CASE Len(queue) = QueueSize
  <2>1. dropped' = dropped + 1 /\ queue' = queue
    BY <1>2 DEF Publish
  <2> HIDE DEF s
  <2>2. s' = s
    BY <1>1, <2>1 DEF s
  <2>3. Rising(s) /\ (\A i \in 1..Len(s) : s[i] <= published) /\ Len(s) + dropped = published
    BY DEF s, BusInv
  <2>4. (\A i \in 1..Len(s) : s[i] <= published + 1) /\ Len(s) + dropped' = published'
    <3>1. \A i \in 1..Len(s) : s[i] \in Nat
      BY <1>0
    <3>2. Len(s) \in Nat
      BY <1>0
    <3> QED
      BY <1>0, <1>1, <2>1, <2>3, <3>1, <3>2
  <2> QED
    BY <1>0, <1>1, <2>1, <2>3, <2>4 DEF s, BusInv
<1>3. CASE Len(queue) # QueueSize
  <2>1. dropped' = dropped /\ queue' = Append(queue, published')
    BY <1>3 DEF Publish
  <2>2. got \o queue' = Append(s, published')
    BY <1>0, <1>1, <2>1
  <2> HIDE DEF s
  <2>3. Rising(s) /\ (\A i \in 1..Len(s) : s[i] <= published) /\ Len(s) + dropped = published
    BY DEF s, BusInv
  <2>4. Len(Append(s, published')) + dropped = published'
    BY <1>0, <1>1, <2>3
  <2>5. \A i \in 1..Len(Append(s, published')) : Append(s, published')[i] <= published'
    BY <1>0, <1>1, <2>3
  <2>6. Rising(Append(s, published'))
    BY <1>0, <1>1, <2>3 DEF Rising
  <2>7. queue' \in Seq(Nat) /\ Len(queue') <= QueueSize
    BY <1>0, <1>1, <1>3, <2>1
  <2> QED
    BY <1>0, <1>1, <2>1, <2>2, <2>4, <2>5, <2>6, <2>7 DEF BusInv
<1> QED
  BY <1>2, <1>3

LEMMA NextEventKeeps ==
  ASSUME BusInv, NextEvent
  PROVE  BusInv'
<1>1. queue \in Seq(Nat) /\ got \in Seq(Nat) /\ queue # <<>>
  BY DEF BusInv, NextEvent
<1>2. Head(queue) \in Nat /\ Tail(queue) \in Seq(Nat) /\ Len(Tail(queue)) = Len(queue) - 1
  BY <1>1
<1>3. Append(got, Head(queue)) \o Tail(queue) = got \o queue
  BY SMTT(40), <1>1, <1>2
<1>4. got' \o queue' = got \o queue /\ got' \in Seq(Nat)
  BY <1>1, <1>2, <1>3 DEF NextEvent
<1>5. Len(queue') <= QueueSize
  BY <1>1, <1>2, GuardAssumption DEF NextEvent, BusInv
<1> QED
  BY <1>2, <1>4, <1>5 DEF NextEvent, BusInv

LEMMA BusKeeps ==
  ASSUME BusInv, Publish \/ NextEvent \/ UNCHANGED busVars
  PROVE  BusInv'
<1>1. CASE UNCHANGED busVars
  BY <1>1 DEF busVars, BusInv
<1> QED
  BY <1>1, PublishKeeps, NextEventKeeps

(* The reports: a bucket that has been idle for long enough is full, so    *)
(* that to forget it gives nothing away.                                   *)
RateInv ==
  /\ tokensOf \in [Reporters -> [tokens : 0..PerKey, idle : -1..(IdleTicks + 1)]]
  /\ globalTokens \in 0..Global /\ tick \in Nat
  /\ accepted \in [Reporters -> Nat] /\ passed \in Nat
  /\ \A k \in Reporters :
       /\ accepted[k] + tokensOf[k].tokens <= PerKey + tick
       /\ tokensOf[k].tokens = PerKey
            \/ (tokensOf[k].idle >= 0 /\ tokensOf[k].tokens >= tokensOf[k].idle)
  /\ passed + globalTokens <= Global + GlobalRate * tick

Buckets == [Reporters -> [tokens : 0..PerKey, idle : -1..(IdleTicks + 1)]]

LEMMA BucketedIsSame ==
  ASSUME RateInv, NEW k \in Reporters
  PROVE  /\ Bucketed(k) \in Buckets
         /\ \A j \in Reporters : Bucketed(k)[j].tokens = tokensOf[j].tokens
         /\ Bucketed(k)[k].idle = 0
         /\ \A j \in Reporters \ {k} :
              \/ Bucketed(k)[j] = tokensOf[j]
              \/ Bucketed(k)[j] = NoBucket
<1> DEFINE bs == [tokensOf EXCEPT ![k].idle = 0]
<1>0. /\ PerKey \in Nat \ {0} /\ IdleTicks \in Nat /\ IdleTicks >= PerKey
      /\ tokensOf \in Buckets
  BY GuardAssumption DEF RateInv, Buckets
<1>1. /\ bs \in Buckets /\ bs[k].idle = 0 /\ bs[k].tokens = tokensOf[k].tokens
      /\ \A j \in Reporters \ {k} : bs[j] = tokensOf[j]
  BY <1>0 DEF Buckets
<1>2. NoBucket \in [tokens : 0..PerKey, idle : -1..(IdleTicks + 1)] /\ NoBucket.tokens = PerKey
  BY <1>0 DEF NoBucket
<1>3. ASSUME NEW j \in Reporters \ {k}, Forgotten(j, bs)
      PROVE  tokensOf[j].tokens = PerKey
  <2>1. tokensOf[j].idle > IdleTicks
    BY <1>1, <1>3 DEF Forgotten
  <2>2. /\ tokensOf[j].tokens \in 0..PerKey /\ tokensOf[j].idle \in -1..(IdleTicks + 1)
        /\ tokensOf[j].tokens = PerKey \/ tokensOf[j].tokens >= tokensOf[j].idle
    BY <1>0 DEF RateInv, Buckets
  <2> QED
    BY <1>0, <2>1, <2>2
<1> HIDE DEF bs
<1>4. Bucketed(k) \in {bs, [j \in Reporters |-> IF j # k /\ Known(j) /\ Forgotten(j, bs)
                                                THEN NoBucket ELSE bs[j]]}
  BY DEF Bucketed, bs
<1> QED
  BY <1>1, <1>2, <1>3, <1>4 DEF Buckets

LEMMA ReportKeeps ==
  ASSUME RateInv, NEW k \in Reporters, Report(k)
  PROVE  RateInv'
<1> DEFINE bs == Bucketed(k)
           ok == bs[k].tokens >= 1 /\ globalTokens >= 1
<1>0. /\ PerKey \in Nat \ {0} /\ IdleTicks \in Nat /\ IdleTicks >= PerKey
      /\ Global \in Nat /\ GlobalRate \in Nat /\ tokensOf \in Buckets
      /\ globalTokens \in 0..Global /\ tick \in Nat
      /\ accepted \in [Reporters -> Nat] /\ passed \in Nat
  BY GuardAssumption DEF RateInv, Buckets
<1>1. /\ bs \in Buckets
      /\ \A j \in Reporters : bs[j].tokens = tokensOf[j].tokens
      /\ bs[k].idle = 0
      /\ \A j \in Reporters \ {k} : bs[j] = tokensOf[j] \/ bs[j] = NoBucket
  BY BucketedIsSame
<1>2. /\ tokensOf' = IF ok THEN [bs EXCEPT ![k].tokens = @ - 1] ELSE bs
      /\ globalTokens' = IF ok THEN globalTokens - 1 ELSE globalTokens
      /\ accepted' = IF ok THEN [accepted EXCEPT ![k] = @ + 1] ELSE accepted
      /\ passed' = IF ok THEN passed + 1 ELSE passed
      /\ tick' = tick
  BY DEF Report
<1> HIDE DEF bs
<1>3. NoBucket.tokens = PerKey
  BY DEF NoBucket
<1>4. \A j \in Reporters :
        /\ bs[j].tokens \in 0..PerKey
        /\ bs[j].tokens = PerKey \/ (bs[j].idle >= 0 /\ bs[j].tokens >= bs[j].idle)
        /\ accepted[j] + bs[j].tokens <= PerKey + tick
  BY <1>0, <1>1, <1>3 DEF RateInv, Buckets
<1>5. GlobalRate * tick \in Nat /\ passed + globalTokens <= Global + GlobalRate * tick
  BY <1>0 DEF RateInv
<1>6. CASE ~ok
  BY <1>0, <1>1, <1>2, <1>4, <1>5, <1>6 DEF RateInv, Buckets
<1>7. CASE ok
  <2>1. bs[k].tokens - 1 \in 0..PerKey /\ globalTokens - 1 \in 0..Global
    BY <1>0, <1>4, <1>7
  <2>2. /\ tokensOf' \in Buckets /\ tokensOf'[k].tokens = bs[k].tokens - 1
        /\ tokensOf'[k].idle = 0
        /\ \A j \in Reporters \ {k} : tokensOf'[j] = bs[j]
    BY <1>1, <1>2, <1>7, <2>1 DEF Buckets
  <2>3. /\ accepted' \in [Reporters -> Nat] /\ accepted'[k] = accepted[k] + 1
        /\ \A j \in Reporters \ {k} : accepted'[j] = accepted[j]
    BY <1>0, <1>2, <1>7
  <2>4. globalTokens' = globalTokens - 1 /\ passed' = passed + 1
    BY <1>2, <1>7
  <2>5. passed' + globalTokens' <= Global + GlobalRate * tick
    BY <1>0, <1>5, <2>4
  <2>6. ASSUME NEW j \in Reporters
        PROVE  /\ accepted'[j] + tokensOf'[j].tokens <= PerKey + tick
               /\ tokensOf'[j].tokens = PerKey
                    \/ (tokensOf'[j].idle >= 0 /\ tokensOf'[j].tokens >= tokensOf'[j].idle)
    <3>1. CASE j = k
      BY <1>0, <1>4, <2>1, <2>2, <2>3, <3>1
    <3>2. CASE j # k
      BY <1>4, <2>2, <2>3, <3>2
    <3> QED
      BY <3>1, <3>2
  <2> QED
    BY <1>0, <1>2, <2>1, <2>2, <2>3, <2>4, <2>5, <2>6 DEF RateInv, Buckets
<1> QED
  BY <1>6, <1>7

LEMMA RateTickKeeps ==
  ASSUME RateInv, RateTick
  PROVE  RateInv'
<1>0. /\ PerKey \in Nat \ {0} /\ IdleTicks \in Nat /\ IdleTicks >= PerKey
      /\ Global \in Nat /\ GlobalRate \in Nat /\ tokensOf \in Buckets
      /\ globalTokens \in 0..Global /\ tick \in Nat
      /\ accepted \in [Reporters -> Nat] /\ passed \in Nat
  BY GuardAssumption DEF RateInv, Buckets
<1>1. tick' = tick + 1 /\ UNCHANGED <<accepted, passed>>
  BY DEF RateTick
<1>2. GlobalRate * tick' = GlobalRate * tick + GlobalRate /\ GlobalRate * tick \in Nat
  BY <1>0, <1>1
<1>3. globalTokens' \in 0..Global /\ globalTokens' <= globalTokens + GlobalRate
  BY <1>0 DEF RateTick, Less
<1>4. passed + globalTokens' <= Global + GlobalRate * tick'
  <2>1. passed + globalTokens <= Global + GlobalRate * tick
    BY DEF RateInv
  <2> DEFINE x == GlobalRate * tick
             y == GlobalRate * tick'
  <2>2. x \in Nat /\ y \in Nat /\ y = x + GlobalRate /\ passed + globalTokens <= Global + x
    BY <1>0, <1>2, <2>1
  <2> HIDE DEF x, y
  <2>3. /\ passed \in Nat /\ globalTokens \in Nat /\ globalTokens' \in Nat
        /\ GlobalRate \in Nat /\ Global \in Nat
    BY <1>0, <1>3
  <2>4. \A p, g, h, r, q, u, v \in Nat :
          p + g <= q + u /\ h <= g + r /\ v = u + r => p + h <= q + v
    OBVIOUS
  <2>5. globalTokens' <= globalTokens + GlobalRate
    BY <1>3
  <2>6. passed + globalTokens' <= Global + y
    BY <2>2, <2>3, <2>4, <2>5, Zenon
  <2> QED
    BY <2>6 DEF y
<1>5. ASSUME NEW k \in Reporters
      PROVE  /\ tokensOf'[k] \in [tokens : 0..PerKey, idle : -1..(IdleTicks + 1)]
             /\ accepted[k] + tokensOf'[k].tokens <= PerKey + tick'
             /\ tokensOf'[k].tokens = PerKey
                  \/ (tokensOf'[k].idle >= 0 /\ tokensOf'[k].tokens >= tokensOf'[k].idle)
  <2>1. /\ tokensOf[k].tokens \in 0..PerKey /\ tokensOf[k].idle \in -1..(IdleTicks + 1)
        /\ accepted[k] \in Nat /\ accepted[k] + tokensOf[k].tokens <= PerKey + tick
        /\ tokensOf[k].tokens = PerKey
             \/ (tokensOf[k].idle >= 0 /\ tokensOf[k].tokens >= tokensOf[k].idle)
    BY <1>0 DEF RateInv, Buckets
  <2>2. CASE tokensOf[k].idle >= 0
    <3>1. tokensOf'[k] = [tokens |-> Less(PerKey, tokensOf[k].tokens + 1),
                          idle |-> Less(IdleTicks + 1, tokensOf[k].idle + 1)]
      BY <2>2 DEF RateTick, Known
    <3> QED
      BY <1>0, <1>1, <2>1, <2>2, <3>1 DEF Less
  <2>3. CASE ~(tokensOf[k].idle >= 0)
    <3>1. tokensOf'[k] = tokensOf[k]
      BY <2>3 DEF RateTick, Known
    <3> QED
      BY <1>0, <1>1, <2>1, <2>3, <3>1 DEF Buckets
  <2> QED
    BY <2>2, <2>3
<1>6. tokensOf' \in Buckets
  <2>1. tokensOf' = [k \in Reporters |-> tokensOf'[k]]
    BY DEF RateTick
  <2> QED
    BY <1>5, <2>1 DEF Buckets
<1>7. tick' \in Nat /\ accepted' \in [Reporters -> Nat] /\ passed' \in Nat
  BY <1>0, <1>1
<1>8. passed' + globalTokens' <= Global + GlobalRate * tick'
  BY <1>1, <1>4
<1>9. \A k \in Reporters :
        /\ accepted'[k] + tokensOf'[k].tokens <= PerKey + tick'
        /\ tokensOf'[k].tokens = PerKey
             \/ (tokensOf'[k].idle >= 0 /\ tokensOf'[k].tokens >= tokensOf'[k].idle)
  BY <1>1, <1>5
<1> QED
  BY <1>3, <1>6, <1>7, <1>8, <1>9, Zenon DEF RateInv, Buckets

LEMMA RateKeeps ==
  ASSUME RateInv, (\E k \in Reporters : Report(k)) \/ RateTick \/ UNCHANGED rateVars
  PROVE  RateInv'
<1>1. CASE UNCHANGED rateVars
  BY <1>1 DEF rateVars, RateInv
<1> QED
  BY <1>1, ReportKeeps, RateTickKeeps

LEMMA GuardSteps ==
  ASSUME [Next]_vars
  PROVE  /\ \/ \E b \in Batches : BatchEnters(b) \/ BatchProcessed(b) \/ BatchFails(b)
            \/ CooldownTick
            \/ UNCHANGED breakerVars
         /\ Publish \/ NextEvent \/ UNCHANGED busVars
         /\ (\E k \in Reporters : Report(k)) \/ RateTick \/ UNCHANGED rateVars
<1>1. CASE UNCHANGED vars
  BY <1>1 DEF vars
<1>2. CASE Next
  <2>1. ASSUME NEW part, part # "breaker", In(part)
        PROVE  UNCHANGED breakerVars
    BY <2>1 DEF In
  <2>2. ASSUME NEW part, part # "bus", In(part)
        PROVE  UNCHANGED busVars
    BY <2>2 DEF In
  <2>3. ASSUME NEW part, part # "rate", In(part)
        PROVE  UNCHANGED rateVars
    BY <2>3 DEF In
  <2>4. \/ \E b \in Batches : BatchEnters(b) \/ BatchProcessed(b) \/ BatchFails(b)
        \/ CooldownTick
        \/ UNCHANGED breakerVars
    BY <1>2, <2>1, Zenon DEF Next
  <2>5. Publish \/ NextEvent \/ UNCHANGED busVars
    BY <1>2, <2>2, Zenon DEF Next
  <2>6. (\E k \in Reporters : Report(k)) \/ RateTick \/ UNCHANGED rateVars
    BY <1>2, <2>3, Zenon DEF Next
  <2> QED
    BY <2>4, <2>5, <2>6
<1> QED
  BY <1>1, <1>2

GuardInv == BreakerInv /\ BusInv /\ RateInv

LEMMA GuardsStart == Init => GuardInv
<1> SUFFICES ASSUME Init PROVE GuardInv
  OBVIOUS
<1>0. GuardInit
  BY DEF Init
<1>1. BreakerInv
  BY <1>0, GuardAssumption, FS_EmptySet DEF GuardInit, BreakerInv
<1>2. BusInv
  <2>1. queue = <<>> /\ got = <<>> /\ published = 0 /\ dropped = 0
    BY <1>0 DEF GuardInit
  <2>2. <<>> \in Seq(Nat) /\ Len(<<>>) = 0 /\ <<>> \o <<>> = <<>>
    BY EmptySeq
  <2> QED
    BY <2>1, <2>2, GuardAssumption DEF BusInv, Rising
<1>3. RateInv
  <2>1. /\ tokensOf = [k \in Reporters |-> NoBucket] /\ globalTokens = Global
        /\ accepted = [k \in Reporters |-> 0] /\ passed = 0 /\ tick = 0
    BY <1>0 DEF GuardInit
  <2> QED
    BY <2>1, GuardAssumption DEF RateInv, NoBucket
<1> QED
  BY <1>1, <1>2, <1>3 DEF GuardInv

LEMMA GuardsAreInvariant == Spec => []GuardInv
<1>1. GuardInv /\ [Next]_vars => GuardInv'
  BY GuardSteps, BreakerKeeps, BusKeeps, RateKeeps DEF GuardInv
<1> QED
  BY <1>1, GuardsStart, PTL DEF Spec

(* A broken engine is bypassed after MaxErrors failures and the batches    *)
(* that are already inside; a slow subscriber loses events that are        *)
(* counted, and none out of order; a reporter gets what its bucket and the *)
(* global one have, however buckets are forgotten and made again.          *)
THEOREM GuardsAreKept == Spec => []GuardsKept
<1>1. GuardInv => GuardsKept
  <2> SUFFICES ASSUME GuardInv PROVE GuardsKept
    OBVIOUS
  <2>1. GuardTypeOK
    BY DEF GuardInv, BreakerInv, BusInv, RateInv, GuardTypeOK
  <2>2. BrokenIsBypassed
    <3>1. /\ Cardinality(inside) \in Nat /\ Cardinality(Batches) \in Nat
          /\ Cardinality(inside) <= Cardinality(Batches)
      BY InsideIsFinite DEF GuardInv
    <3> QED
      BY <3>1, GuardAssumption DEF GuardInv, BreakerInv, BrokenIsBypassed
  <2>3. EventsAccounted
    BY DEF GuardInv, BusInv, Rising, EventsAccounted
  <2>4. RatesHold
    <3>1. \A k \in Reporters : accepted[k] <= PerKey + tick
      BY GuardAssumption DEF GuardInv, RateInv
    <3>2. passed <= Global + GlobalRate * tick
      <4> DEFINE x == Global + GlobalRate * tick
      <4>1. x \in Int /\ passed \in Nat /\ globalTokens \in Nat /\ passed + globalTokens <= x
        BY GuardAssumption DEF GuardInv, RateInv
      <4> HIDE DEF x
      <4>2. passed <= x
        BY <4>1
      <4> QED
        BY <4>2 DEF x
    <3> QED
      BY <3>1, <3>2 DEF RatesHold
  <2> QED
    BY <2>1, <2>2, <2>3, <2>4 DEF GuardsKept, GuardsHold
<1> QED
  BY <1>1, GuardsAreInvariant, PTL

-----------------------------------------------------------------------------
(* The warm pool.  A bucket holds each of its sockets once; buckets have   *)
(* different keys and no socket in common.                                 *)
Entry   == [sock : Nat, age : Nat]
Single(b) == \A i, j \in DOMAIN b : b[i].sock = b[j].sock => i = j
Buckets1 == {b \in Seq(Entry) : Len(b) <= PerHost /\ Single(b)}
Hosts   == [key : Targets, bucket : Buckets1]
Apart(p) == \A i, j \in DOMAIN p : i # j =>
              p[i].key # p[j].key /\ Sockets(p[i].bucket) \cap Sockets(p[j].bucket) = {}
AllOf(p) == UNION {Sockets(p[i].bucket) : i \in DOMAIN p}
Out     == {given[i][2] : i \in DOMAIN given}

WarmInv ==
  /\ pool \in Seq(Hosts) /\ Apart(pool) /\ Len(pool) <= MaxHosts
  /\ opened \in Nat /\ given \in Seq(Targets \X Nat \X Nat)
  /\ Pooled \cup shut \cup Out = 1..opened
  /\ Pooled \cap shut = {} /\ Pooled \cap Out = {} /\ Out \cap shut = {}
  /\ \A i, j \in DOMAIN given : i # j => given[i][2] # given[j][2]
  /\ \A i \in DOMAIN given : given[i][3] <= WarmTtl

(* A bucket that is cut in two.                                            *)
LEMMA CutBucket ==
  ASSUME NEW b \in Seq(Entry), Single(b), NEW n \in 0..Len(b)
  PROVE  LET front == SubSeq(b, 1, n)
             back  == SubSeq(b, n + 1, Len(b))
         IN /\ front \in Seq(Entry) /\ Single(front) /\ Len(front) = n
            /\ back \in Seq(Entry) /\ Single(back) /\ Len(back) = Len(b) - n
            /\ Sockets(front) \cup Sockets(back) = Sockets(b)
            /\ Sockets(front) \cap Sockets(back) = {}
<1> DEFINE front == SubSeq(b, 1, n)
           back  == SubSeq(b, n + 1, Len(b))
<1>1. Len(b) \in Nat /\ DOMAIN b = 1..Len(b) /\ n \in Nat /\ n <= Len(b)
  OBVIOUS
<1>2. /\ front \in Seq(Entry) /\ Len(front) = n /\ DOMAIN front = 1..n
      /\ \A i \in 1..n : front[i] = b[i]
  BY <1>1
<1>3. /\ back \in Seq(Entry) /\ Len(back) = Len(b) - n /\ DOMAIN back = 1..(Len(b) - n)
      /\ \A i \in 1..(Len(b) - n) : back[i] = b[n + i]
  <2>1. CASE n = Len(b)
    <3>1. back = <<>>
      BY <1>1, <2>1, SubSeqEmpty
    <3>2. <<>> \in Seq(Entry) /\ Len(<<>>) = 0 /\ DOMAIN <<>> = {} /\ 1..(Len(b) - n) = {}
      BY <1>1, <2>1, EmptySeq
    <3> HIDE DEF back
    <3> QED
      BY <1>1, <2>1, <3>1, <3>2
  <2>2. CASE n < Len(b)
    <3>1. n + 1 \in 1..(Len(b) + 1) /\ Len(b) \in ((n + 1) - 1)..Len(b)
      BY <1>1, <2>2
    <3>2. /\ back \in Seq(Entry) /\ Len(back) = Len(b) - (n + 1) + 1
          /\ \A i \in 1..(Len(b) - (n + 1) + 1) : back[i] = b[(n + 1) + i - 1]
      BY <3>1, SubSeqProperties
    <3>3. Len(b) - (n + 1) + 1 = Len(b) - n
      BY <1>1
    <3>4. \A i \in 1..(Len(b) - n) : (n + 1) + i - 1 = n + i
      BY <1>1
    <3> HIDE DEF back
    <3>5. DOMAIN back = 1..(Len(b) - n)
      BY <3>2, <3>3, LenProperties
    <3> QED
      BY <3>2, <3>3, <3>4, <3>5
  <2>3. n = Len(b) \/ n < Len(b)
    <3>1. \A m, l \in Nat : m <= l => m = l \/ m < l
      OBVIOUS
    <3> QED
      BY <1>1, <3>1, Zenon
  <2> HIDE DEF back
  <2> QED
    BY <2>1, <2>2, <2>3
<1> HIDE DEF front, back
<1>4. Single(front)
  BY <1>1, <1>2 DEF Single
<1>5. Single(back)
  <2> SUFFICES ASSUME NEW i \in 1..(Len(b) - n), NEW j \in 1..(Len(b) - n),
                      back[i].sock = back[j].sock
               PROVE  i = j
    BY <1>3 DEF Single
  <2>1. n + i \in DOMAIN b /\ n + j \in DOMAIN b
    BY <1>1
  <2>2. b[n + i].sock = b[n + j].sock
    BY <1>3
  <2>3. n + i = n + j
    BY <2>1, <2>2 DEF Single
  <2> QED
    BY <1>1, <2>3
<1>6. \A s : s \in Sockets(front) <=> \E i \in 1..n : b[i].sock = s
  BY <1>2 DEF Sockets
<1>7. ASSUME NEW s
      PROVE  s \in Sockets(back) <=> \E i \in (n + 1)..Len(b) : b[i].sock = s
  <2>1. ASSUME s \in Sockets(back) PROVE \E i \in (n + 1)..Len(b) : b[i].sock = s
    <3>1. PICK j \in 1..(Len(b) - n) : back[j].sock = s
      BY <1>3, <2>1 DEF Sockets
    <3>2. n + j \in (n + 1)..Len(b) /\ b[n + j].sock = s
      BY <1>1, <1>3, <3>1
    <3> QED
      BY <3>2
  <2>2. ASSUME NEW i \in (n + 1)..Len(b), b[i].sock = s PROVE s \in Sockets(back)
    <3>1. i - n \in 1..(Len(b) - n) /\ n + (i - n) = i
      BY <1>1, <2>2
    <3>2. back[i - n] = b[i]
      BY <1>3, <3>1
    <3> QED
      BY <1>3, <2>2, <3>1, <3>2 DEF Sockets
  <2> QED
    BY <2>1, <2>2
<1>8. \A s : s \in Sockets(b) <=> \E i \in 1..Len(b) : b[i].sock = s
  BY <1>1 DEF Sockets
<1>9. Sockets(front) \cup Sockets(back) = Sockets(b)
  <2>1. \A i : i \in 1..Len(b) <=> (i \in 1..n \/ i \in (n + 1)..Len(b))
    BY <1>1
  <2> QED
    BY <1>6, <1>7, <1>8, <2>1
<1>10. Sockets(front) \cap Sockets(back) = {}
  <2> SUFFICES ASSUME NEW i \in 1..n, NEW j \in (n + 1)..Len(b), b[i].sock = b[j].sock
               PROVE  FALSE
    BY <1>6, <1>7
  <2>1. i \in DOMAIN b /\ j \in DOMAIN b /\ i # j
    BY <1>1
  <2> QED
    BY <2>1 DEF Single
<1> QED
  BY <1>2, <1>3, <1>4, <1>5, <1>9, <1>10 DEF front, back

(* One more socket, of its own.                                            *)
LEMMA GrownBucket ==
  ASSUME NEW b \in Seq(Entry), Single(b), NEW e \in Entry, e.sock \notin Sockets(b)
  PROVE  /\ Append(b, e) \in Seq(Entry) /\ Single(Append(b, e))
         /\ Sockets(Append(b, e)) = Sockets(b) \cup {e.sock}
<1> DEFINE g == Append(b, e)
<1>1. /\ g \in Seq(Entry) /\ Len(b) \in Nat /\ DOMAIN b = 1..Len(b)
      /\ DOMAIN g = 1..(Len(b) + 1) /\ g[Len(b) + 1] = e
      /\ \A i \in 1..Len(b) : g[i] = b[i]
  OBVIOUS
<1> HIDE DEF g
<1>2. \A i : i \in 1..(Len(b) + 1) <=> (i \in 1..Len(b) \/ i = Len(b) + 1)
  BY <1>1
<1>3. Sockets(g) = Sockets(b) \cup {e.sock}
  BY <1>1, <1>2 DEF Sockets
<1>4. \A i \in 1..Len(b) : b[i].sock # e.sock
  BY <1>1 DEF Sockets
<1>5. Single(g)
  BY <1>1, <1>2, <1>4 DEF Single
<1> QED
  BY <1>1, <1>3, <1>5 DEF g

LEMMA AllSockets ==
  ASSUME NEW p, NEW s
  PROVE  s \in AllOf(p) <=> \E i \in DOMAIN p : s \in Sockets(p[i].bucket)
BY DEF AllOf

(* The pool with another bucket in a place.                                *)
LEMMA BucketReplaced ==
  ASSUME NEW p \in Seq(Hosts), Apart(p), NEW k \in DOMAIN p, NEW b \in Buckets1,
         \A s \in Sockets(b) : s \in Sockets(p[k].bucket) \/ s \notin AllOf(p)
  PROVE  LET q == [p EXCEPT ![k].bucket = b]
         IN /\ q \in Seq(Hosts) /\ Apart(q) /\ Len(q) = Len(p)
            /\ AllOf(q) = (AllOf(p) \ Sockets(p[k].bucket)) \cup Sockets(b)
<1> DEFINE q == [p EXCEPT ![k].bucket = b]
<1>1. DOMAIN p = 1..Len(p) /\ Len(p) \in Nat /\ \A i \in DOMAIN p : p[i] \in Hosts
  OBVIOUS
<1>2. /\ DOMAIN q = 1..Len(p) /\ q[k] = [p[k] EXCEPT !.bucket = b]
      /\ \A i \in DOMAIN p : i # k => q[i] = p[i]
  BY <1>1
<1>3. q[k] \in Hosts /\ q[k].key = p[k].key /\ q[k].bucket = b
  BY <1>1, <1>2 DEF Hosts
<1>4. q = [i \in 1..Len(p) |-> IF i = k THEN [p[k] EXCEPT !.bucket = b] ELSE p[i]]
  BY <1>1
<1>5. q \in Seq(Hosts) /\ Len(q) = Len(p)
  <2>1. \A i \in 1..Len(p) : q[i] \in Hosts
    BY <1>1, <1>2, <1>3
  <2>2. q \in [1..Len(p) -> Hosts]
    BY <1>4, <2>1
  <2> HIDE DEF q
  <2> QED
    BY <1>1, <1>2, <2>2, SeqDef, LenProperties
<1> HIDE DEF q
<1>6. AllOf(q) = (AllOf(p) \ Sockets(p[k].bucket)) \cup Sockets(b)
  <2> SUFFICES ASSUME NEW s
               PROVE  s \in AllOf(q) <=> \/ s \in AllOf(p) /\ s \notin Sockets(p[k].bucket)
                                         \/ s \in Sockets(b)
    OBVIOUS
  <2>0. s \in AllOf(q) <=> \E i \in DOMAIN q : s \in Sockets(q[i].bucket)
    BY AllSockets
  <2>1. s \in AllOf(q) <=> s \in Sockets(b) \/ \E i \in DOMAIN p \ {k} : s \in Sockets(p[i].bucket)
    <3>1. DOMAIN q = DOMAIN p
      BY <1>1, <1>2
    <3> QED
      BY <1>2, <1>3, <2>0, <3>1, Zenon
  <2>2. s \in AllOf(p) <=> \E i \in DOMAIN p : s \in Sockets(p[i].bucket)
    BY AllSockets
  <2>3. \A i \in DOMAIN p \ {k} : Sockets(p[i].bucket) \cap Sockets(p[k].bucket) = {}
    BY DEF Apart
  <2> QED
    BY <2>1, <2>2, <2>3
<1>7. Apart(q)
  <2>1. \A i \in DOMAIN p \ {k} : /\ p[i].key # p[k].key
                                  /\ Sockets(p[i].bucket) \cap Sockets(p[k].bucket) = {}
    BY DEF Apart
  <2>2. \A i \in DOMAIN p \ {k} : Sockets(p[i].bucket) \cap Sockets(b) = {}
    BY <2>1, AllSockets
  <2>3. DOMAIN q = DOMAIN p
    BY <1>1, <1>2
  <2> SUFFICES ASSUME NEW i \in DOMAIN p, NEW j \in DOMAIN p, i # j
               PROVE  /\ q[i].key # q[j].key
                      /\ Sockets(q[i].bucket) \cap Sockets(q[j].bucket) = {}
    BY <2>3, Zenon DEF Apart
  <2>4. CASE i # k /\ j # k
    BY <1>2, <2>4, Zenon DEF Apart
  <2>5. CASE i = k
    <3>1. q[j] = p[j] /\ p[j].key # p[k].key /\ Sockets(p[j].bucket) \cap Sockets(b) = {}
      BY <1>2, <2>1, <2>2, <2>5
    <3> QED
      BY <1>3, <2>5, <3>1
  <2>6. CASE j = k
    <3>1. q[i] = p[i] /\ p[i].key # p[k].key /\ Sockets(p[i].bucket) \cap Sockets(b) = {}
      BY <1>2, <2>1, <2>2, <2>6
    <3> QED
      BY <1>3, <2>6, <3>1
  <2> QED
    BY <2>4, <2>5, <2>6
<1> QED
  BY <1>5, <1>6, <1>7 DEF q

(* The pool without one of its places; h says where the others were.       *)
LEMMA RemovedAt ==
  ASSUME NEW p \in Seq(Hosts), Apart(p), NEW k \in DOMAIN p
  PROVE  LET q == RemoveAt(p, k)
         IN /\ q \in Seq(Hosts) /\ Apart(q) /\ Len(q) = Len(p) - 1
            /\ AllOf(q) = AllOf(p) \ Sockets(p[k].bucket)
            /\ \A i \in DOMAIN q : \E j \in DOMAIN p \ {k} : q[i] = p[j]
<1> DEFINE q == RemoveAt(p, k)
           h == [i \in 1..(Len(p) - 1) |-> IF i < k THEN i ELSE i + 1]
<1>1. /\ DOMAIN p = 1..Len(p) /\ Len(p) \in Nat /\ k \in Nat /\ 1 <= k /\ k <= Len(p)
  OBVIOUS
<1>2. /\ SubSeq(p, 1, k - 1) \in Seq(Hosts) /\ Len(SubSeq(p, 1, k - 1)) = k - 1
      /\ \A i \in 1..(k - 1) : SubSeq(p, 1, k - 1)[i] = p[i]
  BY <1>1
<1>3. /\ SubSeq(p, k + 1, Len(p)) \in Seq(Hosts) /\ Len(SubSeq(p, k + 1, Len(p))) = Len(p) - k
      /\ \A i \in 1..(Len(p) - k) : SubSeq(p, k + 1, Len(p))[i] = p[k + i]
  BY <1>1
<1> DEFINE front == SubSeq(p, 1, k - 1)
           back  == SubSeq(p, k + 1, Len(p))
<1> HIDE DEF front, back
<1>0. /\ front \in Seq(Hosts) /\ Len(front) = k - 1 /\ \A i \in 1..(k - 1) : front[i] = p[i]
      /\ back \in Seq(Hosts) /\ Len(back) = Len(p) - k
      /\ \A i \in 1..(Len(p) - k) : back[i] = p[k + i]
  BY <1>2, <1>3 DEF front, back
<1>12. q = front \o back
  BY DEF RemoveAt, front, back
<1> HIDE DEF q
<1>13. /\ q \in Seq(Hosts) /\ Len(q) = Len(front) + Len(back)
       /\ \A i \in 1..(Len(front) + Len(back)) :
            q[i] = IF i <= Len(front) THEN front[i] ELSE back[i - Len(front)]
  BY <1>0, <1>12, ConcatProperties
<1>4. q \in Seq(Hosts) /\ Len(q) = Len(p) - 1 /\ DOMAIN q = 1..(Len(p) - 1)
  BY <1>0, <1>1, <1>13
<1>5. ASSUME NEW i \in 1..(Len(p) - 1)
      PROVE  q[i] = p[h[i]] /\ h[i] \in DOMAIN p \ {k}
  <2>1. CASE i < k
    <3>1. i \in 1..(k - 1) /\ h[i] = i
      BY <1>1, <2>1
    <3>2. q[i] = front[i]
      BY <1>0, <1>1, <1>13, <3>1
    <3> QED
      BY <1>0, <1>1, <2>1, <3>1, <3>2
  <2>2. CASE ~(i < k)
    <3>1. i - (k - 1) \in 1..(Len(p) - k) /\ k + (i - (k - 1)) = i + 1 /\ h[i] = i + 1
      BY <1>1, <2>2
    <3>2. q[i] = back[i - (k - 1)]
      BY <1>0, <1>1, <1>13, <2>2
    <3>3. back[i - (k - 1)] = p[k + (i - (k - 1))]
      BY <1>0, <3>1
    <3> QED
      BY <1>1, <2>2, <3>1, <3>2, <3>3
  <2> QED
    BY <2>1, <2>2
<1>6. \A i, j \in 1..(Len(p) - 1) : h[i] = h[j] => i = j
  BY <1>1
<1>7. ASSUME NEW m \in DOMAIN p \ {k}
      PROVE  \E i \in 1..(Len(p) - 1) : h[i] = m
  <2>1. CASE m < k
    <3>1. m \in 1..(Len(p) - 1) /\ h[m] = m
      BY <1>1, <2>1
    <3> QED
      BY <3>1
  <2>2. CASE ~(m < k)
    <3>1. m - 1 \in 1..(Len(p) - 1) /\ h[m - 1] = m
      BY <1>1, <2>2
    <3> QED
      BY <3>1
  <2> QED
    BY <2>1, <2>2
<1>8. h \in [DOMAIN q -> DOMAIN p \ {k}]
  <2>1. h = [i \in 1..(Len(p) - 1) |-> h[i]]
    OBVIOUS
  <2> HIDE DEF h, q
  <2> QED
    BY <1>4, <1>5, <2>1
<1> HIDE DEF h, q
<1>9. Apart(q) /\ AllOf(q) = AllOf(p) \ Sockets(p[k].bucket)
  <2>0. /\ \A i, j \in DOMAIN q : h[i] = h[j] => i = j
        /\ \A m \in DOMAIN p \ {k} : \E i \in DOMAIN q : h[i] = m
        /\ \A i \in DOMAIN q : q[i] = p[h[i]] /\ h[i] \in DOMAIN p \ {k}
    BY <1>4, <1>5, <1>6, <1>7
  <2>1. ASSUME NEW i \in DOMAIN q, NEW j \in DOMAIN q, i # j
        PROVE  /\ q[i].key # q[j].key
               /\ Sockets(q[i].bucket) \cap Sockets(q[j].bucket) = {}
    <3>1. /\ h[i] \in DOMAIN p /\ h[j] \in DOMAIN p /\ h[i] # h[j]
          /\ q[i] = p[h[i]] /\ q[j] = p[h[j]]
      BY <2>0, <2>1
    <3>2. /\ p[h[i]].key # p[h[j]].key
          /\ Sockets(p[h[i]].bucket) \cap Sockets(p[h[j]].bucket) = {}
      BY <3>1 DEF Apart
    <3> QED
      BY <3>1, <3>2, Zenon
  <2>2. ASSUME NEW s
        PROVE  s \in AllOf(q) <=> s \in AllOf(p) /\ s \notin Sockets(p[k].bucket)
    <3>0. s \in AllOf(q) <=> \E i \in DOMAIN q : s \in Sockets(q[i].bucket)
      BY AllSockets
    <3>1. s \in AllOf(q) <=> \E m \in DOMAIN p \ {k} : s \in Sockets(p[m].bucket)
      BY <2>0, <3>0
    <3>2. s \in AllOf(p) <=> \E m \in DOMAIN p : s \in Sockets(p[m].bucket)
      BY AllSockets
    <3>3. \A m \in DOMAIN p \ {k} : Sockets(p[m].bucket) \cap Sockets(p[k].bucket) = {}
      BY DEF Apart
    <3> QED
      BY <3>1, <3>2, <3>3
  <2> QED
    BY <2>1, <2>2 DEF Apart
<1>10. \A i \in DOMAIN q : \E j \in DOMAIN p \ {k} : q[i] = p[j]
  BY <1>4, <1>5
<1> QED
  BY <1>4, <1>9, <1>10 DEF q

(* The pool with a new bucket behind the others.                           *)
LEMMA BucketAppended ==
  ASSUME NEW p \in Seq(Hosts), Apart(p), NEW t \in Targets, NEW b \in Buckets1,
         \A i \in DOMAIN p : p[i].key # t, Sockets(b) \cap AllOf(p) = {}
  PROVE  LET q == Append(p, [key |-> t, bucket |-> b])
         IN /\ q \in Seq(Hosts) /\ Apart(q) /\ Len(q) = Len(p) + 1
            /\ AllOf(q) = AllOf(p) \cup Sockets(b)
<1> DEFINE e == [key |-> t, bucket |-> b]
           q == Append(p, e)
<1>1. e \in Hosts /\ e.key = t /\ e.bucket = b
  BY DEF Hosts
<1> HIDE DEF e
<1>2. /\ q \in Seq(Hosts) /\ Len(q) = Len(p) + 1 /\ Len(p) \in Nat
      /\ DOMAIN p = 1..Len(p) /\ DOMAIN q = 1..(Len(p) + 1) /\ q[Len(p) + 1] = e
      /\ \A i \in 1..Len(p) : q[i] = p[i]
  BY <1>1
<1>3. \A i : i \in 1..(Len(p) + 1) <=> (i \in 1..Len(p) \/ i = Len(p) + 1)
  BY <1>2
<1> HIDE DEF q
<1>4. AllOf(q) = AllOf(p) \cup Sockets(b)
  BY <1>1, <1>2, <1>3 DEF AllOf
<1>5. \A i \in DOMAIN p : Sockets(p[i].bucket) \cap Sockets(b) = {}
  BY DEF AllOf
<1>6. Apart(q)
  <2>1. ASSUME NEW i \in 1..Len(p), NEW j \in 1..Len(p), i # j
        PROVE  q[i].key # q[j].key /\ Sockets(q[i].bucket) \cap Sockets(q[j].bucket) = {}
    BY <1>2, <2>1 DEF Apart
  <2>2. ASSUME NEW i \in 1..Len(p)
        PROVE  q[i].key # e.key /\ Sockets(q[i].bucket) \cap Sockets(e.bucket) = {}
    BY <1>1, <1>2, <1>5
  <2> QED BY <1>2, <1>3, <2>1, <2>2 DEF Apart
<1> QED
  BY <1>2, <1>4, <1>6 DEF q, e

(* What a bucket without age is: the sockets stay.                         *)
LEMMA NoBucketHere ==
  /\ <<>> \in Buckets1 /\ Sockets(<<>>) = {} /\ AllOf(<<>>) = {}
  /\ <<>> \in Seq(Hosts) /\ Apart(<<>>)
<1>1. <<>> \in Seq(Entry) /\ <<>> \in Seq(Hosts) /\ Len(<<>>) = 0 /\ DOMAIN <<>> = {}
  BY EmptySeq
<1> QED
  BY <1>1, WarmAssumption DEF Buckets1, Single, Sockets, AllOf, Apart

(* The bucket of a target, and where it is.                                *)
LEMMA BucketOfTarget ==
  ASSUME WarmInv, NEW t
  PROVE  /\ t \in Keys => /\ Place(t) \in DOMAIN pool /\ pool[Place(t)].key = t
                          /\ Bucket(t) = pool[Place(t)].bucket
                          /\ t \in Targets
         /\ t \notin Keys => Bucket(t) = <<>> /\ \A i \in DOMAIN pool : pool[i].key # t
         /\ Bucket(t) \in Buckets1 /\ Sockets(Bucket(t)) \subseteq Pooled
         /\ Pooled = AllOf(pool)
<1>1. \A i \in DOMAIN pool : pool[i] \in Hosts
  BY DEF WarmInv
<1>2. Pooled = AllOf(pool)
  BY DEF Pooled, AllOf
<1>3. ASSUME t \in Keys
      PROVE  /\ Place(t) \in DOMAIN pool /\ pool[Place(t)].key = t
             /\ Bucket(t) = pool[Place(t)].bucket
  <2>1. \E i \in DOMAIN pool : pool[i].key = t
    BY <1>3 DEF Keys
  <2>2. Place(t) \in DOMAIN pool /\ pool[Place(t)].key = t
    BY <2>1, Zenon DEF Place
  <2> QED
    BY <1>3, <2>2 DEF Bucket
<1>4. ASSUME t \notin Keys
      PROVE  Bucket(t) = <<>> /\ \A i \in DOMAIN pool : pool[i].key # t
  BY <1>4 DEF Bucket, Keys
<1>5. t \in Keys => t \in Targets
  BY <1>1, <1>3 DEF Hosts
<1>6. Bucket(t) \in Buckets1 /\ Sockets(Bucket(t)) \subseteq Pooled
  <2>1. CASE t \in Keys
    <3>1. pool[Place(t)].bucket \in Buckets1
      BY <1>1, <1>3, <2>1 DEF Hosts
    <3>2. Sockets(pool[Place(t)].bucket) \subseteq AllOf(pool)
      BY <1>3, <2>1 DEF AllOf
    <3> QED
      BY <1>2, <1>3, <2>1, <3>1, <3>2
  <2>2. CASE t \notin Keys
    BY <1>4, <2>2, NoBucketHere
  <2> QED
    BY <2>1, <2>2
<1> QED
  BY <1>2, <1>3, <1>4, <1>5, <1>6

(* A taken socket leaves the pool for a relay; what lay before it is shut. *)
LEMMA TakeWarmKeeps ==
  ASSUME WarmInv, NEW t \in Targets, TakeWarm(t)
  PROVE  WarmInv'
<1> DEFINE b == Bucket(t)
           k == Place(t)
<1>1. PICK n \in DOMAIN b :
        /\ Fit(b[n])
        /\ given' = Append(given, <<t, b[n].sock, b[n].age>>)
        /\ shut' = shut \cup Sockets(SubSeq(b, 1, n - 1))
        /\ pool' = WithBucket(t, Rest(b, n))
        /\ opened' = opened
  BY DEF TakeWarm
<1>2. b \in Buckets1 /\ Sockets(b) \subseteq Pooled /\ Pooled = AllOf(pool)
  BY BucketOfTarget
<1>3. b \in Seq(Entry) /\ Single(b) /\ Len(b) <= PerHost /\ DOMAIN b = 1..Len(b) /\ Len(b) \in Nat
  BY <1>2 DEF Buckets1
<1>4. t \in Keys
  <2> SUFFICES ASSUME t \notin Keys PROVE FALSE
    OBVIOUS
  <2>1. b = <<>>
    BY BucketOfTarget
  <2>2. DOMAIN <<>> = {}
    OBVIOUS
  <2> HIDE DEF b
  <2> QED
    BY <1>1, <2>1, <2>2
<1>5. k \in DOMAIN pool /\ b = pool[k].bucket
  BY <1>4, BucketOfTarget
<1> HIDE DEF b, k
<1> DEFINE front == SubSeq(b, 1, n - 1)
           rest == SubSeq(b, n + 1, Len(b))
           s == b[n].sock
<1>6. n \in Nat /\ n - 1 \in 0..Len(b) /\ n \in 0..Len(b) /\ 1 <= n /\ n <= Len(b)
      /\ b[n] \in Entry
  BY <1>1, <1>3
<1>7. /\ Single(rest) /\ rest \in Seq(Entry) /\ Len(rest) = Len(b) - n
      /\ Sockets(SubSeq(b, 1, n)) \cup Sockets(rest) = Sockets(b)
      /\ Sockets(SubSeq(b, 1, n)) \cap Sockets(rest) = {}
  BY <1>3, <1>6, CutBucket
<1>8. /\ Sockets(front) = {b[i].sock : i \in 1..(n - 1)}
      /\ Sockets(SubSeq(b, 1, n)) = {b[i].sock : i \in 1..n}
  <2> DEFINE whole == SubSeq(b, 1, n)
  <2>1. DOMAIN front = 1..(n - 1) /\ \A i \in 1..(n - 1) : front[i] = b[i]
    BY <1>3, <1>6
  <2>2. DOMAIN whole = 1..n /\ \A i \in 1..n : whole[i] = b[i]
    BY <1>3, <1>6
  <2> HIDE DEF front, whole
  <2>3. Sockets(front) = {b[i].sock : i \in 1..(n - 1)}
    BY <2>1 DEF Sockets
  <2>4. Sockets(whole) = {b[i].sock : i \in 1..n}
    BY <2>2 DEF Sockets
  <2> QED
    BY <2>3, <2>4 DEF whole
<1>9. s \notin Sockets(front) /\ Sockets(SubSeq(b, 1, n)) = Sockets(front) \cup {s}
  <2>1. \A i : i \in 1..n <=> (i \in 1..(n - 1) \/ i = n)
    BY <1>6
  <2>2. \A i \in 1..(n - 1) : i \in DOMAIN b /\ i # n
    BY <1>3, <1>6
  <2>3. \A i \in 1..(n - 1) : b[i].sock # s
    BY <1>1, <1>3, <2>2 DEF Single
  <2> HIDE DEF front
  <2> QED
    BY <1>8, <2>1, <2>3
<1>10. rest \in Buckets1
  <2>1. Len(rest) <= PerHost
    BY <1>3, <1>6, <1>7, WarmAssumption
  <2> HIDE DEF rest
  <2> QED
    BY <1>7, <2>1 DEF Buckets1
<1>11. pool' = [pool EXCEPT ![k].bucket = rest]
  BY <1>1 DEF WithBucket, Rest, k
<1> HIDE DEF front, rest, s
<1>12. pool \in Seq(Hosts) /\ Apart(pool) /\ Len(pool) <= MaxHosts
  BY DEF WarmInv
<1>13. Sockets(rest) \subseteq Sockets(pool[k].bucket)
  BY <1>5, <1>7
<1>14. /\ pool' \in Seq(Hosts) /\ Apart(pool') /\ Len(pool') = Len(pool)
       /\ AllOf(pool') = (AllOf(pool) \ Sockets(b)) \cup Sockets(rest)
  BY <1>5, <1>10, <1>11, <1>12, <1>13, BucketReplaced
<1>15. Pooled' = AllOf(pool')
  BY DEF Pooled, AllOf
<1>16. given \in Seq(Targets \X Nat \X Nat) /\ Len(given) \in Nat /\ DOMAIN given = 1..Len(given)
  BY DEF WarmInv
<1>17. /\ given' = Append(given, <<t, s, b[n].age>>) /\ s \in Nat /\ b[n].age \in Nat
       /\ b[n].age <= WarmTtl
  BY <1>1, <1>6 DEF s, Entry, Fit
<1> DEFINE g == <<t, s, b[n].age>>
<1>18. /\ g \in Targets \X Nat \X Nat /\ g[2] = s /\ g[3] <= WarmTtl
  BY <1>17
<1> HIDE DEF g
<1>19. /\ given' \in Seq(Targets \X Nat \X Nat) /\ DOMAIN given' = 1..(Len(given) + 1)
       /\ given'[Len(given) + 1] = g /\ \A i \in 1..Len(given) : given'[i] = given[i]
  BY <1>16, <1>17, <1>18 DEF g
<1>20. \A i : i \in 1..(Len(given) + 1) <=> (i \in DOMAIN given \/ i = Len(given) + 1)
  BY <1>16
<1>21. Out' = Out \cup {s}
  <2>1. \A i \in DOMAIN given : given'[i][2] = given[i][2]
    BY <1>16, <1>19
  <2>2. given'[Len(given) + 1][2] = s
    BY <1>18, <1>19
  <2>3. \A i : i \in DOMAIN given' <=> (i \in DOMAIN given \/ i = Len(given) + 1)
    BY <1>19, <1>20
  <2> QED BY <2>1, <2>2, <2>3 DEF Out
<1>22. s \in Pooled /\ s \notin Out
  BY <1>2, <1>7, <1>9 DEF WarmInv
<1>23. \A i, j \in DOMAIN given' : i # j => given'[i][2] # given'[j][2]
  <2>1. \A i \in DOMAIN given : given[i][2] # s
    BY <1>22 DEF Out
  <2>2. \A i, j \in DOMAIN given : i # j => given[i][2] # given[j][2]
    BY DEF WarmInv
  <2> QED
    BY <1>16, <1>18, <1>19, <1>20, <2>1, <2>2
<1>24. \A i \in DOMAIN given' : given'[i][3] <= WarmTtl
  BY <1>16, <1>18, <1>19, <1>20 DEF WarmInv
<1>25. shut' = shut \cup Sockets(front)
  BY <1>1 DEF front
<1>26. /\ Pooled \cup shut \cup Out = 1..opened
       /\ Pooled \cap shut = {} /\ Pooled \cap Out = {} /\ Out \cap shut = {}
  BY DEF WarmInv
<1>27. /\ Pooled' \cup shut' \cup Out' = 1..opened
       /\ Pooled' \cap shut' = {} /\ Pooled' \cap Out' = {} /\ Out' \cap shut' = {}
  BY <1>2, <1>7, <1>9, <1>14, <1>15, <1>21, <1>25, <1>26
<1> QED
  BY <1>1, <1>12, <1>14, <1>19, <1>23, <1>24, <1>27 DEF WarmInv
(* What did not change, and what a move between the pool and the closed    *)
(* ones leaves as it was.                                                  *)
LEMMA MovedOnly ==
  ASSUME WarmInv, UNCHANGED given, opened' \in Nat,
         pool' \in Seq(Hosts), Apart(pool'), Len(pool') <= MaxHosts,
         AllOf(pool') \cup shut' = AllOf(pool) \cup shut \cup ((opened + 1)..opened'),
         AllOf(pool') \cap shut' = {}, opened <= opened'
  PROVE  WarmInv'
<1>1. Pooled = AllOf(pool) /\ Pooled' = AllOf(pool') /\ Out' = Out
  BY DEF Pooled, AllOf, Out
<1>2. /\ Pooled \cup shut \cup Out = 1..opened /\ opened \in Nat
      /\ Pooled \cap Out = {} /\ Out \cap shut = {}
  BY DEF WarmInv
<1>3. /\ 1..opened' = (1..opened) \cup ((opened + 1)..opened')
      /\ (1..opened) \cap ((opened + 1)..opened') = {}
  BY <1>2
<1>4. Pooled' \cup shut' \cup Out' = 1..opened'
  BY <1>1, <1>2, <1>3
<1>5. Pooled' \cap Out' = {} /\ Out' \cap shut' = {}
  BY <1>1, <1>2, <1>3
<1> QED
  BY <1>1, <1>4, <1>5 DEF WarmInv

LEMMA DialBeginsKeeps ==
  ASSUME WarmInv, NEW t \in Targets, DialBegins(t)
  PROVE  WarmInv'
<1>1. UNCHANGED <<given, opened>>
  BY DEF DialBegins
<1>2. /\ pool \in Seq(Hosts) /\ Apart(pool) /\ Len(pool) <= MaxHosts /\ opened \in Nat
      /\ AllOf(pool) \cap shut = {} /\ Pooled = AllOf(pool)
  BY DEF WarmInv, Pooled, AllOf
<1>3. (opened + 1)..opened' = {}
  BY <1>1, <1>2
<1>4. CASE ~warmOn \/ t \notin Keys
  <2>1. pool' = pool /\ shut' = shut
    <3>1. t \notin Keys => Sockets(Bucket(t)) = {}
      BY BucketOfTarget, NoBucketHere
    <3> QED
      BY <1>4, <3>1 DEF DialBegins, WithoutBucket
  <2> QED
    <3>1. Pooled' = Pooled /\ Out' = Out
      BY <1>1, <2>1 DEF Pooled, Out
    <3> QED
      BY <1>1, <2>1, <3>1, Zenon DEF WarmInv
<1>5. CASE warmOn /\ t \in Keys
  <2>1. pool' = RemoveAt(pool, Place(t)) /\ shut' = shut \cup Sockets(Bucket(t))
    BY <1>5 DEF DialBegins, WithoutBucket
  <2>2. /\ Place(t) \in DOMAIN pool /\ Bucket(t) = pool[Place(t)].bucket
        /\ Sockets(Bucket(t)) \subseteq AllOf(pool)
    BY <1>2, <1>5, BucketOfTarget
  <2>3. /\ pool' \in Seq(Hosts) /\ Apart(pool') /\ Len(pool') = Len(pool) - 1
        /\ AllOf(pool') = AllOf(pool) \ Sockets(Bucket(t))
    BY <1>2, <2>1, <2>2, RemovedAt
  <2>4. Len(pool') <= MaxHosts
    <3>1. Len(pool) \in Nat
      BY <1>2
    <3> QED
      BY <1>2, <2>3, <3>1, WarmAssumption
  <2>5. AllOf(pool') \cup shut' = AllOf(pool) \cup shut /\ AllOf(pool') \cap shut' = {}
    BY <1>2, <2>1, <2>2, <2>3
  <2>6. opened' \in Nat /\ opened <= opened'
    BY <1>1, <1>2
  <2> QED
    BY <1>1, <1>3, <2>3, <2>4, <2>5, <2>6, MovedOnly
<1> QED
  BY <1>4, <1>5

(* A new socket goes to the end of its bucket, and pushes out the oldest of*)
(* a full bucket, or the first bucket of a full pool.                      *)
LEMMA WarmConnectsKeeps ==
  ASSUME WarmInv, NEW t \in Targets, WarmConnects(t)
  PROVE  WarmInv'
<1> DEFINE new    == [sock |-> opened + 1, age |-> 0]
           grown  == Append(Bucket(t), new)
           over   == Len(grown) - PerHost
           bucket1 == IF over > 0 THEN SubSeq(grown, over + 1, Len(grown)) ELSE grown
           out    == IF over > 0 THEN SubSeq(grown, 1, over) ELSE <<>>
           full   == t \notin Keys /\ Len(pool) = MaxHosts
<1>1. /\ opened' = opened + 1 /\ UNCHANGED given
      /\ pool' = IF t \in Keys THEN WithBucket(t, bucket1)
                 ELSE Append(IF full THEN Tail(pool) ELSE pool, [key |-> t, bucket |-> bucket1])
      /\ shut' = IF full THEN Dropped(Head(pool).bucket) ELSE Dropped(out)
  BY DEF WarmConnects
<1>2. /\ pool \in Seq(Hosts) /\ Apart(pool) /\ Len(pool) <= MaxHosts /\ opened \in Nat
      /\ AllOf(pool) \cap shut = {} /\ Pooled = AllOf(pool) /\ Len(pool) \in Nat
      /\ AllOf(pool) \cup shut \subseteq 1..opened
  BY DEF WarmInv, Pooled, AllOf
<1>3. /\ Bucket(t) \in Buckets1 /\ Sockets(Bucket(t)) \subseteq AllOf(pool)
      /\ PerHost \in Nat \ {0} /\ MaxHosts \in Nat \ {0}
  BY <1>2, BucketOfTarget, WarmAssumption
<1>4. /\ Bucket(t) \in Seq(Entry) /\ Single(Bucket(t)) /\ Len(Bucket(t)) <= PerHost
      /\ Len(Bucket(t)) \in Nat
  BY <1>3 DEF Buckets1
<1>5. /\ new \in Entry /\ new.sock = opened + 1 /\ opened + 1 \notin AllOf(pool) \cup shut
      /\ opened + 1 \notin Sockets(Bucket(t))
  BY <1>2, <1>3 DEF Entry
<1>6. (opened + 1)..opened' = {opened + 1} /\ opened' \in Nat /\ opened <= opened'
  BY <1>1, <1>2
<1> HIDE DEF new
<1>7. /\ grown \in Seq(Entry) /\ Single(grown) /\ Len(grown) = Len(Bucket(t)) + 1
      /\ Sockets(grown) = Sockets(Bucket(t)) \cup {opened + 1}
  BY <1>4, <1>5, GrownBucket
<1> HIDE DEF grown
<1>8. over \in Int /\ over <= 1 /\ (over > 0 => over = 1) /\ over = Len(Bucket(t)) + 1 - PerHost
      /\ over <= Len(grown)
  BY <1>3, <1>4, <1>7
<1> HIDE DEF over
<1>9. /\ bucket1 \in Buckets1
      /\ Sockets(bucket1) \cup Sockets(out) = Sockets(grown)
      /\ Sockets(bucket1) \cap Sockets(out) = {}
      /\ ~(over > 0) => out = <<>> /\ bucket1 = grown
  <2>1. CASE over > 0
    <3>1. over = 1 /\ over \in 0..Len(grown)
      BY <1>8, <2>1
    <3>2. bucket1 = SubSeq(grown, over + 1, Len(grown)) /\ out = SubSeq(grown, 1, over)
      BY <2>1
    <3> HIDE DEF bucket1, out
    <3>3. /\ bucket1 \in Seq(Entry) /\ Single(bucket1) /\ Len(bucket1) = Len(grown) - over
          /\ Sockets(out) \cup Sockets(bucket1) = Sockets(grown)
          /\ Sockets(out) \cap Sockets(bucket1) = {}
      BY <1>7, <3>1, <3>2, CutBucket
    <3>4. Len(bucket1) <= PerHost
      BY <1>3, <1>4, <1>7, <1>8, <3>1, <3>3
    <3> QED
      BY <2>1, <3>3, <3>4 DEF Buckets1
  <2>2. CASE ~(over > 0)
    <3>1. bucket1 = grown /\ out = <<>>
      BY <2>2
    <3> HIDE DEF bucket1, out
    <3>2. Len(grown) <= PerHost
      BY <1>3, <1>4, <1>7, <1>8, <2>2
    <3> QED
      BY <1>7, <3>1, <3>2, NoBucketHere DEF Buckets1
  <2> QED
    BY <2>1, <2>2
<1> HIDE DEF bucket1, out
<1>10. CASE t \in Keys
  <2>1. /\ Place(t) \in DOMAIN pool /\ Bucket(t) = pool[Place(t)].bucket
    BY <1>10, BucketOfTarget
  <2>2. pool' = [pool EXCEPT ![Place(t)].bucket = bucket1] /\ shut' = shut \cup Sockets(out)
    BY <1>1, <1>10 DEF WithBucket, Dropped
  <2>3. \A s \in Sockets(bucket1) : s \in Sockets(pool[Place(t)].bucket) \/ s \notin AllOf(pool)
    BY <1>5, <1>7, <1>9, <2>1
  <2>4. /\ pool' \in Seq(Hosts) /\ Apart(pool') /\ Len(pool') = Len(pool)
        /\ AllOf(pool') = (AllOf(pool) \ Sockets(Bucket(t))) \cup Sockets(bucket1)
    <3> DEFINE q == [pool EXCEPT ![Place(t)].bucket = bucket1]
    <3>1. bucket1 \in Buckets1 /\ pool \in Seq(Hosts) /\ Apart(pool)
      BY <1>2, <1>9
    <3>2. /\ q \in Seq(Hosts) /\ Apart(q) /\ Len(q) = Len(pool)
          /\ AllOf(q) = (AllOf(pool) \ Sockets(pool[Place(t)].bucket)) \cup Sockets(bucket1)
      BY <2>1, <2>3, <3>1, BucketReplaced
    <3> HIDE DEF q
    <3> QED
      BY <2>1, <2>2, <3>2 DEF q
  <2>5. AllOf(pool') \cup shut' = AllOf(pool) \cup shut \cup {opened + 1}
    BY <1>3, <1>7, <1>9, <2>2, <2>4
  <2>6. AllOf(pool') \cap shut' = {}
    BY <1>2, <1>3, <1>5, <1>7, <1>9, <2>2, <2>4
  <2> QED
    BY <1>1, <1>2, <1>6, <2>4, <2>5, <2>6, MovedOnly
<1>11. CASE t \notin Keys
  <2>1. Bucket(t) = <<>> /\ Sockets(Bucket(t)) = {} /\ \A i \in DOMAIN pool : pool[i].key # t
    BY <1>11, BucketOfTarget, NoBucketHere
  <2>2. Len(Bucket(t)) = 0
    BY <2>1
  <2>3. ~(over > 0)
    BY <1>3, <1>8, <2>2
  <2>4. Sockets(bucket1) = {opened + 1} /\ Sockets(out) = {}
    BY <1>7, <1>9, <2>1, <2>3, NoBucketHere
  <2>5. CASE Len(pool) # MaxHosts
    <3>1. pool' = Append(pool, [key |-> t, bucket |-> bucket1]) /\ shut' = shut
      BY <1>1, <1>11, <2>4, <2>5 DEF Dropped
    <3>2. /\ pool' \in Seq(Hosts) /\ Apart(pool') /\ Len(pool') = Len(pool) + 1
          /\ AllOf(pool') = AllOf(pool) \cup {opened + 1}
      <4>1. Sockets(bucket1) \cap AllOf(pool) = {}
        BY <1>5, <2>4
      <4> QED
        BY <1>2, <1>9, <2>1, <2>4, <3>1, <4>1, BucketAppended
    <3>3. Len(pool') <= MaxHosts
      BY <1>2, <1>3, <2>5, <3>2
    <3> QED
      BY <1>1, <1>2, <1>5, <1>6, <3>1, <3>2, <3>3, MovedOnly
  <2>6. CASE Len(pool) = MaxHosts
    <3> DEFINE left == Tail(pool)
    <3>1. /\ pool' = Append(left, [key |-> t, bucket |-> bucket1])
          /\ shut' = shut \cup Sockets(Head(pool).bucket)
      BY <1>1, <1>11, <2>6 DEF Dropped
    <3>2. pool # <<>> /\ 1 \in DOMAIN pool /\ Head(pool) = pool[1]
      BY <1>2, <1>3, <2>6
    <3>3. left = RemoveAt(pool, 1)
      <4>1. left = SubSeq(pool, 2, Len(pool)) /\ left \in Seq(Hosts)
        BY <1>2, <3>2, TailIsSubSeq, HeadTailProperties
      <4>2. SubSeq(pool, 1, 0) = <<>>
        BY SubSeqEmpty
      <4> HIDE DEF left
      <4>3. RemoveAt(pool, 1) = SubSeq(pool, 1, 0) \o SubSeq(pool, 2, Len(pool))
        BY DEF RemoveAt
      <4> QED
        BY <4>1, <4>2, <4>3, ConcatEmptySeq
    <3> HIDE DEF left
    <3>4. /\ left \in Seq(Hosts) /\ Apart(left) /\ Len(left) = Len(pool) - 1
          /\ AllOf(left) = AllOf(pool) \ Sockets(pool[1].bucket)
          /\ \A i \in DOMAIN left : \E j \in DOMAIN pool \ {1} : left[i] = pool[j]
      BY <1>2, <3>2, <3>3, RemovedAt
    <3>5. \A i \in DOMAIN left : left[i].key # t
      BY <2>1, <3>4
    <3>6. /\ pool' \in Seq(Hosts) /\ Apart(pool') /\ Len(pool') = Len(left) + 1
          /\ AllOf(pool') = AllOf(left) \cup {opened + 1}
      <4>1. Sockets(bucket1) \cap AllOf(left) = {}
        BY <1>5, <2>4, <3>4
      <4> QED
        BY <1>9, <2>4, <3>1, <3>4, <3>5, <4>1, BucketAppended
    <3>7. Len(pool') <= MaxHosts
      BY <1>2, <3>4, <3>6
    <3>8. Sockets(pool[1].bucket) \subseteq AllOf(pool)
      BY <3>2, AllSockets
    <3>9. /\ AllOf(pool') \cup shut' = AllOf(pool) \cup shut \cup {opened + 1}
          /\ AllOf(pool') \cap shut' = {}
      BY <1>2, <1>5, <3>1, <3>2, <3>4, <3>6, <3>8
    <3> QED
      BY <1>1, <1>6, <3>6, <3>7, <3>9, MovedOnly
  <2> QED
    BY <2>5, <2>6
<1> QED
  BY <1>10, <1>11

(* Time changes the ages only.                                             *)
LEMMA WarmTickKeeps ==
  ASSUME WarmInv, WarmTick
  PROVE  WarmInv'
<1>1. UNCHANGED <<given, opened, shut>>
  BY DEF WarmTick
<1>2. /\ pool \in Seq(Hosts) /\ Apart(pool) /\ Len(pool) <= MaxHosts /\ opened \in Nat
      /\ AllOf(pool) \cap shut = {} /\ Len(pool) \in Nat /\ DOMAIN pool = 1..Len(pool)
  BY DEF WarmInv, Pooled, AllOf
<1>3. ASSUME NEW i \in DOMAIN pool
      PROVE  /\ pool'[i] \in Hosts /\ pool'[i].key = pool[i].key
             /\ Sockets(pool'[i].bucket) = Sockets(pool[i].bucket)
  <2> DEFINE b == pool[i].bucket
             older == Older(b)
  <2>1. pool'[i] = [pool[i] EXCEPT !.bucket = older]
    BY DEF WarmTick
  <2>2. pool[i] \in Hosts
    BY <1>2
  <2>3. b \in Seq(Entry) /\ Single(b) /\ Len(b) <= PerHost /\ Len(b) \in Nat /\ DOMAIN b = 1..Len(b)
    BY <2>2 DEF Hosts, Buckets1
  <2> HIDE DEF b
  <2>4. \A j \in 1..Len(b) : b[j] \in Entry
    BY <2>3
  <2>5. \A j \in 1..Len(b) : older[j] \in Entry /\ older[j].sock = b[j].sock
    <3>1. ASSUME NEW x \in Entry
          PROVE  LET y == [x EXCEPT !.age = IF @ > WarmTtl THEN @ ELSE @ + 1]
                 IN y \in Entry /\ y.sock = x.sock
      BY WarmAssumption DEF Entry
    <3> QED BY <2>3, <2>4, <3>1 DEF Older
  <2>6. older \in [1..Len(b) -> Entry]
    BY <2>3, <2>5 DEF Older
  <2>7. DOMAIN older = 1..Len(b)
    BY <2>3 DEF Older
  <2> HIDE DEF older
  <2>8. older \in Seq(Entry) /\ Len(older) = Len(b)
    BY <2>3, <2>6, <2>7, SeqDef, LenProperties
  <2>9. Single(older)
    BY <2>3, <2>5, <2>7 DEF Single
  <2>10. older \in Buckets1
    BY <2>3, <2>8, <2>9 DEF Buckets1
  <2>11. Sockets(older) = Sockets(b)
    BY <2>3, <2>5, <2>7 DEF Sockets
  <2>12. pool'[i].bucket = older /\ pool'[i].key = pool[i].key /\ pool'[i] \in Hosts
    BY <2>1, <2>2, <2>10 DEF Hosts
  <2> QED
    BY <2>11, <2>12 DEF b
<1>4. DOMAIN pool' = DOMAIN pool /\ pool' = [i \in 1..Len(pool) |-> pool'[i]]
  BY <1>2 DEF WarmTick
<1>5. pool' \in [1..Len(pool) -> Hosts]
  BY <1>2, <1>3, <1>4
<1>6. pool' \in Seq(Hosts) /\ Len(pool') = Len(pool)
  BY <1>2, <1>4, <1>5, SeqDef, LenProperties
<1>7. Apart(pool')
  <2> SUFFICES ASSUME NEW i \in DOMAIN pool, NEW j \in DOMAIN pool, i # j
               PROVE  /\ pool'[i].key # pool'[j].key
                      /\ Sockets(pool'[i].bucket) \cap Sockets(pool'[j].bucket) = {}
    BY <1>4, Zenon DEF Apart
  <2>1. /\ pool[i].key # pool[j].key
        /\ Sockets(pool[i].bucket) \cap Sockets(pool[j].bucket) = {}
    BY <1>2 DEF Apart
  <2> QED
    BY <1>3, <2>1
<1>8. AllOf(pool') = AllOf(pool)
  BY <1>3, <1>4 DEF AllOf
<1>9. (opened + 1)..opened' = {} /\ opened' \in Nat /\ opened <= opened'
  BY <1>1, <1>2
<1> QED
  BY <1>1, <1>2, <1>6, <1>7, <1>8, <1>9, MovedOnly

LEMMA WarmStopsKeeps ==
  ASSUME WarmInv, WarmStops
  PROVE  WarmInv'
<1>1. UNCHANGED <<given, opened>> /\ pool' = <<>> /\ shut' = shut \cup Pooled
  BY DEF WarmStops
<1>2. opened \in Nat /\ Pooled = AllOf(pool)
  BY DEF WarmInv, Pooled, AllOf
<1>3. (opened + 1)..opened' = {} /\ opened' \in Nat /\ opened <= opened'
  BY <1>1, <1>2
<1>4. pool' \in Seq(Hosts) /\ Apart(pool') /\ Len(pool') <= MaxHosts /\ AllOf(pool') = {}
  BY <1>1, NoBucketHere, WarmAssumption
<1> QED
  BY <1>1, <1>2, <1>3, <1>4, MovedOnly

LEMMA WarmRests ==
  ASSUME WarmInv, UNCHANGED <<pool, opened, shut, given>>
  PROVE  WarmInv'
<1>1. Pooled' = Pooled /\ Out' = Out
  BY DEF Pooled, Out
<1> QED
  BY <1>1, Zenon DEF WarmInv

WarmStep ==
  \/ \E t \in Targets : TakeWarm(t) \/ DialBegins(t) \/ WarmConnects(t)
  \/ WarmTick \/ WarmStops
  \/ UNCHANGED <<pool, opened, shut, given>>

LEMMA WarmSteps == [Next]_vars => WarmStep
<1>1. UNCHANGED vars => UNCHANGED <<pool, opened, shut, given>>
  BY DEF vars, warmVars
<1>2. ASSUME NEW part, part # "warm", In(part)
      PROVE  UNCHANGED <<pool, opened, shut, given>>
  BY <1>2 DEF In, warmVars
<1>3. ASSUME NEW t, NEW ok, NEW s,
             \/ DialEnds(t, ok) \/ WarmBegins(t) \/ WarmFails(t) \/ WarmReset(s)
      PROVE  UNCHANGED <<pool, opened, shut, given>>
  BY <1>3 DEF DialEnds, WarmBegins, WarmFails, WarmReset
<1>4. Next => WarmStep
  BY <1>2, <1>3, Zenon DEF Next, WarmStep
<1> QED
  BY <1>1, <1>4 DEF WarmStep

LEMMA WarmKeeps ==
  ASSUME WarmInv, WarmStep
  PROVE  WarmInv'
BY TakeWarmKeeps, DialBeginsKeeps, WarmConnectsKeeps, WarmTickKeeps, WarmStopsKeeps, WarmRests,
   Zenon
   DEF WarmStep

LEMMA WarmStarts == Init => WarmInv
<1> SUFFICES ASSUME Init PROVE WarmInv
  OBVIOUS
<1>1. pool = <<>> /\ opened = 0 /\ given = <<>> /\ shut = {}
  BY DEF Init, WarmInit
<1>2. <<>> \in Seq(Targets \X Nat \X Nat) /\ Len(<<>>) = 0 /\ DOMAIN <<>> = {} /\ 1..0 = {}
  BY EmptySeq
<1>3. Pooled = AllOf(pool) /\ Out = {}
  BY <1>1, <1>2 DEF Pooled, AllOf, Out
<1> QED
  BY <1>1, <1>2, <1>3, NoBucketHere, WarmAssumption DEF WarmInv

(* Every warm socket is in one place: pooled, closed or given to one relay,*)
(* within its time to live, whatever dials, expiries, resets and the stop  *)
(* do; and the pool keeps to its bounds.                                   *)
THEOREM SocketsAreAccounted == Spec => []SocketsAccounted
<1>1. WarmInv /\ [Next]_vars => WarmInv'
  BY WarmSteps, WarmKeeps
<1>2. WarmInv => SocketsAccounted
  <2> SUFFICES ASSUME WarmInv PROVE SocketsAccounted
    OBVIOUS
  <2>1. \A i \in DOMAIN pool : Len(pool[i].bucket) <= PerHost
    <3>1. \A i \in DOMAIN pool : pool[i] \in Hosts
      BY DEF WarmInv
    <3> QED
      BY <3>1 DEF Hosts, Buckets1
  <2> QED
    BY <2>1, Zenon DEF WarmInv, SocketsAccounted, Out
<1> QED
  BY <1>1, <1>2, WarmStarts, PTL DEF Spec

-----------------------------------------------------------------------------
(* What is kept over restarts: the copies carry the seconds they were made *)
(* at, rising; the one that the last finished run made is still among the  *)
(* first Keep.                                                             *)
Files == [state : {"none", "whole", "torn"}, snap : [Payloads -> Int]]
Copied == [at : Nat, copy : Files]

AgesRise(bs) == \A i, j \in DOMAIN bs : i < j => bs[i].at < bs[j].at

StateInv ==
  /\ data \in [Payloads -> Int] /\ edits \in Nat /\ flushed \subseteq Files
  /\ file \in flushed /\ NoFile \in flushed
  /\ clock \in Nat \ {0} /\ last \in Nat
  /\ backups \in Seq(Copied) /\ AgesRise(backups)
  /\ \A i \in DOMAIN backups : /\ backups[i].copy \in flushed
                               /\ 0 < backups[i].at /\ backups[i].at <= clock
  /\ run # "none" => backups # <<>>
  /\ last # 0 => \E m \in DOMAIN backups : m <= Keep /\ backups[m].at = last

(* What becomes of the store, and of the copies.                           *)
StoreStep ==
  \/ \E e \in Payloads : GetPayload(e) \/ SetPayload(e) \/ MutatePayload(e)
  \/ (\E ok \in BOOLEAN : FlushState(ok)) \/ StateRestart
BackupStep == BackupBegins \/ (\E ok \in BOOLEAN : BackupCopies(ok)) \/ BackupEnds \/ ClockTick

LEMMA StateSteps == [Next]_vars => StoreStep \/ BackupStep \/ UNCHANGED engineStateVars
<1>1. UNCHANGED vars => UNCHANGED engineStateVars
  BY DEF vars
<1>2. ASSUME NEW part, part # "state", In(part) PROVE UNCHANGED engineStateVars
  BY <1>2 DEF In
<1>3. Next => StoreStep \/ BackupStep \/ UNCHANGED engineStateVars
  BY <1>2, Zenon DEF Next, StoreStep, BackupStep
<1> QED
  BY <1>1, <1>3

LEMMA StateStarts == Init => StateInv
<1> SUFFICES ASSUME EngineStateInit PROVE StateInv
  BY DEF Init
<1>1. Empty \in [Payloads -> Int] /\ NoFile \in Files
  BY DEF Empty, NoFile, Files
<1>2. backups = <<>> /\ <<>> \in Seq(Copied) /\ DOMAIN <<>> = {}
  BY EmptySeq DEF EngineStateInit
<1>3. /\ data = Empty /\ edits = 0 /\ flushed = {NoFile} /\ file = NoFile
      /\ clock = 1 /\ last = 0 /\ run = "none"
  BY DEF EngineStateInit
<1> QED
  BY <1>1, <1>2, <1>3 DEF StateInv, AgesRise

LEMMA StoreKeeps ==
  ASSUME StateInv, StoreStep
  PROVE  StateInv'
<1>1. /\ data \in [Payloads -> Int] /\ edits \in Nat /\ flushed \subseteq Files
      /\ file \in flushed /\ NoFile \in flushed
  BY DEF StateInv
<1>2. Empty \in [Payloads -> Int]
  BY DEF Empty
<1>3. UNCHANGED <<clock, backups, last>> /\ (run' = run \/ run' = "none")
  BY DEF StoreStep, GetPayload, SetPayload, MutatePayload, FlushState, StateRestart, backupVars
<1>4. /\ data' \in [Payloads -> Int] /\ edits' \in Nat /\ flushed' \subseteq Files
      /\ flushed \subseteq flushed' /\ file' \in flushed'
  <2>1. CASE \E e \in Payloads : GetPayload(e) \/ SetPayload(e) \/ MutatePayload(e)
    <3>1. PICK e \in Payloads : GetPayload(e) \/ SetPayload(e) \/ MutatePayload(e)
      BY <2>1
    <3>2. edits' \in Nat /\ UNCHANGED <<file, flushed>>
      BY <1>1, <3>1 DEF GetPayload, SetPayload, MutatePayload
    <3>3. edits' \in Int /\ 0 \in Int
      BY <3>2
    <3>4. data' \in [Payloads -> Int]
      BY <1>1, <3>1, <3>3 DEF GetPayload, SetPayload, MutatePayload
    <3> QED
      BY <1>1, <3>2, <3>4
  <2>2. CASE \E ok \in BOOLEAN : FlushState(ok)
    <3>1. Whole(data) \in Files
      BY <1>1 DEF Whole, Files
    <3>2. /\ data' = data /\ edits' = edits /\ flushed' = flushed \cup {Whole(data)}
          /\ file' = file \/ file' = Whole(data)
      BY <2>2 DEF FlushState, Replaced
    <3> QED
      BY <1>1, <3>1, <3>2
  <2>3. CASE StateRestart
    <3>1. data' = file.snap /\ edits' = edits /\ flushed' = flushed /\ (file' = file \/ file' = NoFile)
      BY <2>3 DEF StateRestart
    <3>2. file.snap \in [Payloads -> Int]
      BY <1>1 DEF Files
    <3> QED
      BY <1>1, <3>1, <3>2
  <2> QED
    BY <2>1, <2>2, <2>3 DEF StoreStep
<1> QED
  BY <1>1, <1>3, <1>4 DEF StateInv

(* A rotation leaves the right end.                                        *)
LEMMA RotatedIs ==
  ASSUME NEW S, NEW bs \in Seq(S), NEW k \in Nat \ {0}
  PROVE  LET r == Rotated(bs, k)
         IN /\ r \in Seq(S) /\ Len(r) <= Len(bs)
            /\ Len(r) = IF Len(bs) > k THEN k ELSE Len(bs)
            /\ \A i \in 1..Len(r) : r[i] = bs[Len(bs) - Len(r) + i]
<1> DEFINE r == Rotated(bs, k)
<1>1. Len(bs) \in Nat
  OBVIOUS
<1>2. CASE Len(bs) > k
  <2> DEFINE m == Len(bs) - k + 1
  <2>1. r = SubSeq(bs, m, Len(bs))
    BY <1>2 DEF Rotated
  <2>2. /\ m \in 1..Len(bs) /\ Len(bs) \in (m - 1)..Len(bs) /\ Len(bs) - m + 1 = k
        /\ \A i \in 1..k : m + i - 1 = Len(bs) - k + i
    BY <1>1, <1>2
  <2>3. \A i \in m..Len(bs) : bs[i] \in S
    BY <1>1, <2>2
  <2> HIDE DEF r, m
  <2>4. /\ r \in Seq(S) /\ Len(r) = k /\ \A i \in 1..k : r[i] = bs[m + i - 1]
    BY <1>1, <2>1, <2>2, <2>3, SubSeqProperties
  <2>5. r \in Seq(S) /\ Len(r) = k /\ \A i \in 1..Len(r) : r[i] = bs[Len(bs) - Len(r) + i]
    BY <2>2, <2>4
  <2> QED
    BY <1>1, <1>2, <2>5 DEF r
<1>3. CASE ~(Len(bs) > k)
  <2>1. r = bs
    BY <1>3 DEF Rotated
  <2>2. \A i \in 1..Len(bs) : Len(bs) - Len(bs) + i = i
    BY <1>1
  <2> HIDE DEF r
  <2>3. /\ r \in Seq(S) /\ Len(r) = Len(bs)
        /\ \A i \in 1..Len(r) : r[i] = bs[Len(bs) - Len(r) + i]
    BY <2>1, <2>2
  <2> QED
    BY <1>1, <1>3, <2>3 DEF r
<1> QED
  BY <1>2, <1>3

LEMMA BackupKeeps ==
  ASSUME StateInv, BackupStep
  PROVE  StateInv'
<1>1. UNCHANGED <<data, edits, file, flushed>>
  BY DEF BackupStep, BackupBegins, BackupCopies, BackupEnds, ClockTick, storeVars
<1>2. /\ flushed \subseteq Files /\ file \in flushed /\ NoFile \in flushed
      /\ clock \in Nat /\ 0 < clock /\ last \in Nat
      /\ backups \in Seq(Copied) /\ AgesRise(backups)
      /\ DOMAIN backups = 1..Len(backups) /\ Len(backups) \in Nat
      /\ \A i \in DOMAIN backups : /\ backups[i].copy \in flushed
                                   /\ 0 < backups[i].at /\ backups[i].at <= clock
      /\ \A i \in DOMAIN backups : backups[i] \in Copied
      /\ last # 0 => \E m \in DOMAIN backups : m <= Keep /\ backups[m].at = last
  BY DEF StateInv
<1>3. \A b \in Copied : b.at \in Nat
  BY DEF Copied
<1>4. CASE BackupBegins
  <2> DEFINE e == [at |-> clock, copy |-> NoFile]
             n == Len(backups)
  <2>1. /\ backups' = Append(backups, e) /\ clock' = clock /\ last' = last
        /\ backups # <<>> => Last(backups).at < clock
    BY <1>4 DEF BackupBegins
  <2>2. e \in Copied /\ e.at = clock /\ e.copy = NoFile
    BY <1>2 DEF Copied
  <2> HIDE DEF e
  <2>3. /\ backups' \in Seq(Copied) /\ DOMAIN backups' = 1..(n + 1) /\ backups'[n + 1] = e
        /\ \A i \in 1..n : backups'[i] = backups[i]
    BY <1>2, <2>1, <2>2, AppendProperties
  <2>4. \A i : i \in 1..(n + 1) <=> (i \in 1..n \/ i = n + 1)
    BY <1>2
  <2>5. ASSUME NEW i \in 1..n PROVE backups[i].at < clock
    <3>1. backups # <<>> /\ n \in 1..n /\ Last(backups) = backups[n]
      BY <1>2, EmptySeq DEF Last
    <3>2. i < n => backups[i].at < backups[n].at
      BY <1>2, <3>1 DEF AgesRise
    <3>3. backups[i] \in Copied /\ backups[n] \in Copied /\ n \in Nat /\ Last(backups).at < clock
      BY <1>2, <2>1, <3>1
    <3>4. backups[i].at \in Nat /\ backups[n].at \in Nat
      BY <1>3, <3>3
    <3> HIDE DEF n
    <3>5. i = n \/ i < n
      BY <3>3
    <3>6. \A a, b, c \in Nat : (a = b \/ a < b) /\ b < c => a < c
      OBVIOUS
    <3>7. backups[i].at = backups[n].at \/ backups[i].at < backups[n].at
      BY <3>2, <3>5
    <3> QED
      BY <1>2, <3>1, <3>3, <3>4, <3>6, <3>7
  <2>6. AgesRise(backups')
    <3> SUFFICES ASSUME NEW i \in 1..(n + 1), NEW j \in 1..(n + 1), i < j
                 PROVE  backups'[i].at < backups'[j].at
      BY <2>3 DEF AgesRise
    <3>1. i \in 1..n
      BY <1>2
    <3>2. CASE j \in 1..n
      BY <1>2, <2>3, <3>1, <3>2 DEF AgesRise
    <3>3. CASE j = n + 1
      BY <2>2, <2>3, <2>5, <3>1, <3>3
    <3> QED
      BY <2>4, <3>2, <3>3
  <2>7. \A i \in 1..(n + 1) : /\ backups'[i].copy \in flushed
                              /\ 0 < backups'[i].at /\ backups'[i].at <= clock
    BY <1>2, <2>2, <2>3, <2>4
  <2>8. backups' # <<>>
    BY <1>2, <2>3, EmptySeq
  <2>9. last # 0 => \E m \in DOMAIN backups' : m <= Keep /\ backups'[m].at = last
    BY SMTT(40), <1>2, <2>3, <2>4
  <2> QED
    BY <1>1, <1>2, <2>1, <2>3, <2>6, <2>7, <2>8, <2>9 DEF StateInv
<1>5. CASE \E ok \in BOOLEAN : BackupCopies(ok)
  <2> DEFINE n == Len(backups)
  <2>1. backups # <<>>
    BY <1>5 DEF BackupCopies, StateInv
  <2>2. n \in 1..n
    BY <1>2, <2>1, EmptySeq
  <2>3. PICK c \in {file, NoFile} : backups' = [backups EXCEPT ![n].copy = c]
    BY <1>5 DEF BackupCopies
  <2>4. clock' = clock /\ last' = last
    BY <1>5 DEF BackupCopies
  <2> DEFINE e == [backups[n] EXCEPT !.copy = c]
  <2>5. backups' = [backups EXCEPT ![n] = e]
    BY <2>3
  <2>6. c \in flushed /\ c \in Files
    BY <1>2, <2>3
  <2>7. e \in Copied /\ e.at = backups[n].at /\ e.copy = c
    BY <1>2, <2>2, <2>6 DEF Copied
  <2> HIDE DEF e
  <2>8. /\ backups' \in Seq(Copied) /\ DOMAIN backups' = 1..n
        /\ backups'[n] = e /\ \A i \in 1..n : i # n => backups'[i] = backups[i]
    BY <1>2, <2>2, <2>5, <2>7
  <2>9. \A i \in 1..n : backups'[i].at = backups[i].at /\ backups'[i].copy \in flushed
    BY <1>2, <2>6, <2>7, <2>8
  <2>10. backups' # <<>>
    BY SMTT(40), <2>2, <2>8, EmptySeq
  <2>11. AgesRise(backups')
    BY <1>2, <2>8, <2>9 DEF AgesRise
  <2> QED
    BY <1>1, <1>2, <2>4, <2>8, <2>9, <2>10, <2>11 DEF StateInv
<1>6. CASE BackupEnds
  <2> DEFINE kept == Rotated(backups, Keep)
  <2>1. Keep \in Nat \ {0}
    BY StateAssumption
  <2>2. /\ kept \in Seq(Copied) /\ Len(kept) <= Keep /\ Len(kept) <= Len(backups)
        /\ Len(backups) > 0 => Len(kept) > 0
        /\ \A i \in 1..Len(kept) : kept[i] = backups[Len(backups) - Len(kept) + i]
    <3>1. /\ kept \in Seq(Copied) /\ Len(kept) <= Len(backups)
          /\ Len(kept) = IF Len(backups) > Keep THEN Keep ELSE Len(backups)
          /\ \A i \in 1..Len(kept) : kept[i] = backups[Len(backups) - Len(kept) + i]
      BY <1>2, <2>1, RotatedIs
    <3> HIDE DEF kept
    <3>2. \A l, n \in Nat, m \in Nat \ {0} :
            l = (IF n > m THEN m ELSE n) => l <= m /\ (n > 0 => l > 0)
      OBVIOUS
    <3>3. Len(kept) \in Nat
      BY <3>1
    <3>4. Len(kept) <= Keep /\ (Len(backups) > 0 => Len(kept) > 0)
      BY <1>2, <2>1, <3>1, <3>2, <3>3
    <3> QED
      BY <3>1, <3>4
  <2>3. PICK k \in 1..Len(kept) : backups' = Rotated(kept, k)
    BY <1>6 DEF BackupEnds
  <2>4. last' = Last(backups).at /\ run' = "none" /\ clock' = clock
    BY <1>6 DEF BackupEnds
  <2> HIDE DEF kept
  <2>5. k \in Nat \ {0} /\ k <= Len(kept) /\ Len(kept) \in Nat
    BY <2>2
  <2>6. /\ backups' \in Seq(Copied) /\ Len(backups') = k
        /\ \A i \in 1..k : backups'[i] = kept[Len(kept) - k + i]
    <3>1. PICK s \in Seq(Copied) : s = kept
      BY <2>2
    <3>2. PICK r : r = Rotated(s, k)
      OBVIOUS
    <3>3. k \in Nat \ {0}
      BY <2>5
    <3>4. /\ r \in Seq(Copied)
          /\ Len(r) = IF Len(s) > k THEN k ELSE Len(s)
          /\ \A i \in 1..Len(r) : r[i] = s[Len(s) - Len(r) + i]
      BY <3>2, <3>3, RotatedIs, Zenon
    <3>5. Len(r) = k
      BY <2>5, <3>1, <3>4
    <3>6. backups' = r
      BY <2>3, <3>1, <3>2, Zenon
    <3> QED
      BY <3>1, <3>4, <3>5, <3>6, Zenon
  <2> DEFINE off == Len(backups) - k
  <2>7. off \in Nat /\ \A i \in 1..k : off + i \in 1..Len(backups) /\ off + k = Len(backups)
    BY <1>2, <2>2, <2>5
  <2>8. \A i \in 1..k : backups'[i] = backups[off + i]
    <3>1. ASSUME NEW i \in 1..k
          PROVE  /\ Len(kept) - k + i \in 1..Len(kept)
                 /\ Len(backups) - Len(kept) + (Len(kept) - k + i) = off + i
      BY <1>2, <2>2, <2>5
    <3> HIDE DEF off
    <3> QED
      BY Zenon, <2>2, <2>6, <3>1
  <2> HIDE DEF off
  <2>9. DOMAIN backups' = 1..k /\ k \in 1..k
    BY <2>5, <2>6, LenProperties
  <2>10. AgesRise(backups')
    <3> SUFFICES ASSUME NEW i \in 1..k, NEW j \in 1..k, i < j PROVE backups'[i].at < backups'[j].at
      BY <2>9 DEF AgesRise
    <3>1. off + i \in 1..Len(backups) /\ off + j \in 1..Len(backups) /\ off + i < off + j
      BY SMTT(40), <2>7
    <3> QED
      BY <1>2, <2>8, <3>1 DEF AgesRise
  <2>11. \A i \in 1..k : /\ backups'[i].copy \in flushed
                         /\ 0 < backups'[i].at /\ backups'[i].at <= clock
    BY Zenon, <1>2, <2>7, <2>8
  <2>12. Last(backups) = backups[Len(backups)]
    BY DEF Last
  <2>13. backups'[k].at = last'
    BY <2>4, <2>7, <2>8, <2>9, <2>12
  <2>14. k <= Keep
    BY <2>1, <2>2, <2>5
  <2>15. last' \in Nat
    BY <1>2, <1>3, <2>6, <2>9, <2>13
  <2> QED
    BY <1>1, <1>2, <2>4, <2>6, <2>9, <2>10, <2>11, <2>13, <2>14, <2>15 DEF StateInv
<1>7. CASE ClockTick
  <2>1. clock' = clock + 1 /\ UNCHANGED <<backups, run, last>>
    BY <1>7 DEF ClockTick
  <2>2. \A i \in DOMAIN backups : backups[i].at <= clock + 1
    BY <1>2, <1>3
  <2>3. clock + 1 \in Nat \ {0}
    BY <1>2
  <2> QED
    BY <1>1, <2>1, <2>2, <2>3 DEF StateInv
<1> QED
  BY <1>4, <1>5, <1>6, <1>7 DEF BackupStep

LEMMA StateKeeps == StateInv /\ [Next]_vars => StateInv'
<1>1. StateInv /\ UNCHANGED engineStateVars => StateInv'
  BY DEF StateInv, engineStateVars
<1> QED
  BY <1>1, StateSteps, StoreKeeps, BackupKeeps

LEMMA StateIsKept == StateInv => StateKept
<1> SUFFICES ASSUME StateInv PROVE StateKept
  OBVIOUS
<1> DEFINE Q == {i \in DOMAIN backups : backups[i].at <= last}
<1>1. /\ DOMAIN backups = 1..Len(backups) /\ last \in Nat /\ Keep \in Nat /\ AgesRise(backups)
      /\ \A i \in DOMAIN backups : 0 < backups[i].at /\ backups[i].at \in Nat
  <2>1. /\ backups \in Seq(Copied) /\ last \in Nat /\ AgesRise(backups)
        /\ \A i \in DOMAIN backups : 0 < backups[i].at
    BY DEF StateInv
  <2>2. Keep \in Nat
    BY StateAssumption
  <2>3. \A i \in DOMAIN backups : backups[i] \in Copied
    BY <2>1
  <2>4. \A b \in Copied : b.at \in Nat
    BY DEF Copied
  <2> QED
    BY <2>1, <2>2, <2>3, <2>4
<1>2. Cardinality(Q) <= Keep
  <2>1. CASE last = 0
    <3>1. Q = {}
      BY <1>1, <2>1
    <3> HIDE DEF Q
    <3> QED
      BY <1>1, <3>1, FS_EmptySet
  <2>2. CASE last # 0
    <3>1. PICK m \in DOMAIN backups : m <= Keep /\ backups[m].at = last
      BY <2>2 DEF StateInv
    <3>2. Q \subseteq 1..m
      <4> SUFFICES ASSUME NEW i \in DOMAIN backups, backups[i].at <= last PROVE i \in 1..m
        OBVIOUS
      <4>1. ~(m < i)
        BY <1>1, <3>1 DEF AgesRise
      <4> QED
        BY <1>1, <4>1
    <3> HIDE DEF Q
    <3>3. m \in Nat /\ IsFiniteSet(1..m) /\ Cardinality(1..m) = m
      BY <1>1, FS_Interval
    <3>4. Cardinality(Q) <= m /\ Cardinality(Q) \in Nat
      BY <3>2, <3>3, FS_Subset, FS_CardinalityType
    <3> QED
      BY <1>1, <3>1, <3>3, <3>4
  <2> QED
    BY <2>1, <2>2
<1>3. last # 0 => \E i \in DOMAIN backups : backups[i].at = last
  BY DEF StateInv
<1> QED
  BY <1>2, <1>3 DEF StateKept, SnapshotsOnly, NewestKept, StateInv

-----------------------------------------------------------------------------
(* What the order of a finite set is: each of its elements has a place, and*)
(* no two have the same.                                                   *)
LEMMA InOrderIs ==
  ASSUME NEW S, IsFiniteSet(S), NEW before,
         \A x \in S : <<x, x>> \notin before,
         \A x, y, z \in S : <<x, y>> \in before /\ <<y, z>> \in before => <<x, z>> \in before,
         \A x, y \in S : x # y => <<x, y>> \in before \/ <<y, x>> \in before
  PROVE  LET s == InOrder(S, before)  n == Cardinality(S)
         IN /\ n \in Nat /\ s \in [1..n -> S]
            /\ \A i, j \in 1..n : i < j => <<s[i], s[j]>> \in before
            /\ \A i, j \in 1..n : i # j => s[i] # s[j]
            /\ \A x \in S : \E i \in 1..n : s[i] = x
<1> DEFINE s == InOrder(S, before)
           n == Cardinality(S)
           Below(x) == {y \in S : <<y, x>> \in before}
           rank == [x \in S |-> Cardinality(Below(x))]
<1>1. n \in Nat
  BY FS_CardinalityType
<1>2. \A x \in S : IsFiniteSet(Below(x)) /\ rank[x] \in Nat
  <2> TAKE x \in S
  <2>1. Below(x) \subseteq S /\ rank[x] = Cardinality(Below(x))
    OBVIOUS
  <2> HIDE DEF Below, rank
  <2> QED
    BY <2>1, FS_Subset, FS_CardinalityType
<1>21. \A x \in S : rank[x] \in Nat
  <2> HIDE DEF Below, rank
  <2> QED
    BY <1>2
<1>3. ASSUME NEW x \in S PROVE rank[x] < n
  <2>1. Below(x) \subseteq S /\ Below(x) # S /\ rank[x] = Cardinality(Below(x))
    OBVIOUS
  <2> HIDE DEF Below, rank
  <2>2. Cardinality(Below(x)) <= n /\ n # Cardinality(Below(x))
    BY <2>1, FS_Subset
  <2> HIDE DEF n
  <2> QED
    BY <1>1, <1>2, <2>1, <2>2
<1>4. ASSUME NEW x \in S, NEW y \in S, <<x, y>> \in before PROVE rank[x] < rank[y]
  <2>1. /\ Below(x) \subseteq Below(y) /\ Below(x) # Below(y)
        /\ rank[x] = Cardinality(Below(x)) /\ rank[y] = Cardinality(Below(y))
    BY <1>4
  <2>2. IsFiniteSet(Below(y)) /\ rank[x] \in Nat /\ rank[y] \in Nat
    BY <1>2
  <2> HIDE DEF Below, rank
  <2>3. Cardinality(Below(x)) <= Cardinality(Below(y)) /\ Cardinality(Below(y)) # Cardinality(Below(x))
    BY <2>1, <2>2, FS_Subset
  <2> QED
    BY <2>1, <2>2, <2>3
<1>5. ASSUME NEW x \in S, NEW y \in S, x # y PROVE rank[x] # rank[y]
  <2>1. rank[x] < rank[y] \/ rank[y] < rank[x]
    BY <1>4, <1>5
  <2>2. rank[x] \in Nat /\ rank[y] \in Nat
    BY <1>21
  <2> HIDE DEF rank
  <2> QED
    BY <2>1, <2>2
<1> DEFINE places == 0..(n - 1)
<1>6. IsFiniteSet(places) /\ Cardinality(places) = n
  <2> HIDE DEF n
  <2>1. 0 \in Int /\ n - 1 \in Int /\ (IF 0 > n - 1 THEN 0 ELSE n - 1 - 0 + 1) = n
    BY <1>1
  <2> QED
    BY <2>1, FS_Interval
<1>7. rank \in Surjection(S, places)
  <2> HIDE DEF n
  <2>1. rank = [x \in S |-> rank[x]]
    OBVIOUS
  <2> HIDE DEF rank
  <2>2. ASSUME NEW x \in S PROVE rank[x] \in places
    <3>1. rank[x] < n /\ rank[x] \in Nat
      BY <1>3, <1>21
    <3> QED
      BY <1>1, <3>1
  <2>3. rank \in Injection(S, places)
    BY <1>5, <2>1, <2>2 DEF Injection, IsInjective
  <2> HIDE DEF places
  <2> QED
    BY <1>6, <2>3, FS_Injection DEF n
<1>8. ASSUME NEW i \in 1..n PROVE s[i] \in S /\ rank[s[i]] = i - 1
  <2>1. i - 1 \in places
    BY <1>1
  <2>2. \E x \in S : rank[x] = i - 1
    BY <1>7, <2>1 DEF Surjection
  <2>3. s[i] = CHOOSE x \in S : Cardinality(Below(x)) = i - 1
    BY DEF InOrder
  <2>4. \A x \in S : rank[x] = Cardinality(Below(x))
    OBVIOUS
  <2> HIDE DEF s, Below, rank, n
  <2>5. \E x \in S : Cardinality(Below(x)) = i - 1
    BY <2>2, <2>4
  <2>6. s[i] \in S /\ Cardinality(Below(s[i])) = i - 1
    BY <2>3, <2>5
  <2> QED
    BY <2>4, <2>6
<1>9. s = [i \in 1..n |-> s[i]]
  <2> DEFINE c(i) == CHOOSE x \in S : Cardinality({y \in S : <<y, x>> \in before}) = i - 1
  <2>1. s = [i \in 1..n |-> c(i)]
    BY DEF InOrder
  <2> HIDE DEF c, s, n
  <2> QED
    BY <2>1
<1> HIDE DEF s, rank, Below
<1>10. s \in [1..n -> S]
  BY <1>8, <1>9
<1>11. ASSUME NEW i \in 1..n, NEW j \in 1..n, i # j PROVE s[i] # s[j]
  <2> HIDE DEF n
  <2>1. i - 1 # j - 1
    BY <1>1, <1>11
  <2> QED
    BY <1>8, <2>1
<1>12. ASSUME NEW i \in 1..n, NEW j \in 1..n, i < j PROVE <<s[i], s[j]>> \in before
  <2> HIDE DEF n
  <2>1. i # j /\ ~(j - 1 < i - 1)
    BY <1>1, <1>12
  <2>2. s[i] # s[j]
    BY <1>11, <2>1
  <2>3. ~(<<s[j], s[i]>> \in before)
    BY <1>4, <1>8, <2>1
  <2> QED
    BY <1>8, <2>2, <2>3
<1>13. ASSUME NEW x \in S PROVE \E i \in 1..n : s[i] = x
  <2> HIDE DEF n
  <2>1. rank[x] + 1 \in 1..n /\ (rank[x] + 1) - 1 = rank[x]
    BY <1>1, <1>21, <1>3
  <2>2. s[rank[x] + 1] \in S /\ rank[s[rank[x] + 1]] = rank[x]
    BY <1>8, <2>1
  <2> QED
    BY <1>5, <2>1, <2>2
<1> QED
  BY <1>1, <1>10, <1>11, <1>12, <1>13 DEF s

-----------------------------------------------------------------------------
(* The genomes: the numbers tell them apart, in memory and in each table;  *)
(* what is open, until Genetic degrades, is what is in memory; and with a  *)
(* file of its own its population is whole.                                *)
Genomes == [id : Nat, fitness : Nat, generation : Nat]
Tables  == [genomes : SUBSET Genomes, rows : Nat, policies : Nat]

Distinct(p)   == \A i, j \in DOMAIN p : i # j => p[i].id # p[j].id
Numbered(gs)  == \A g, h \in gs : g.id = h.id => g = h

LearningInv ==
  /\ shared \in BOOLEAN /\ counter \in Nat /\ generation \in Nat
  /\ degraded \in [Engines -> BOOLEAN]
  /\ disk \in Tables /\ IsFiniteSet(disk.genomes) /\ Numbered(disk.genomes)
  /\ work \in Tables /\ IsFiniteSet(work.genomes) /\ Numbered(work.genomes)
  /\ population \in Seq(Genomes) /\ Distinct(population)
  /\ \A i \in DOMAIN population : population[i].id <= counter
  /\ ~degraded["genetic"] => work.genomes = Range(population)
  /\ ~shared => /\ Cardinality(disk.genomes) = PopulationSize
                /\ ~degraded["genetic"] => Len(population) = PopulationSize
                /\ degraded["genetic"] => disk.genomes = frozen

(* A list with distinct numbers has as many genomes as places.             *)
LEMMA PopulationIs ==
  ASSUME NEW p \in Seq(Genomes), Distinct(p)
  PROVE  /\ IsFiniteSet(Range(p)) /\ Cardinality(Range(p)) = Len(p)
         /\ Numbered(Range(p)) /\ Range(p) \subseteq Genomes
<1>1. DOMAIN p = 1..Len(p) /\ Len(p) \in Nat /\ \A i \in DOMAIN p : p[i] \in Genomes
  OBVIOUS
<1>2. IsFiniteSet(DOMAIN p) /\ Cardinality(DOMAIN p) = Len(p)
  BY <1>1, FS_Interval
<1>3. p \in Surjection(DOMAIN p, Range(p)) /\ p \in Injection(DOMAIN p, Range(p))
  <2>1. p \in [DOMAIN p -> Range(p)]
    BY <1>1 DEF Range
  <2>2. \A i, j \in DOMAIN p : p[i] = p[j] => i = j
    BY DEF Distinct
  <2> QED
    BY <2>1, <2>2 DEF Surjection, Injection, IsInjective, Range
<1>4. IsFiniteSet(Range(p)) /\ Cardinality(Range(p)) = Len(p)
  BY <1>2, <1>3, FS_Surjection
<1>5. Numbered(Range(p)) /\ Range(p) \subseteq Genomes
  BY <1>1 DEF Numbered, Range, Distinct
<1> QED
  BY <1>4, <1>5

(* Sorting leaves every genome, once.                                      *)
LEMMA SortedIs ==
  ASSUME NEW p \in Seq(Genomes), Distinct(p)
  PROVE  /\ Sorted(p) \in Seq(Genomes) /\ Len(Sorted(p)) = Len(p)
         /\ Distinct(Sorted(p)) /\ Range(Sorted(p)) = Range(p)
<1> DEFINE D == DOMAIN p
           B == ByFitness(p)
           f == InOrder(D, B)
           s == Sorted(p)
<1>1. D = 1..Len(p) /\ Len(p) \in Nat /\ \A i \in D : p[i] \in Genomes
  OBVIOUS
<1>2. IsFiniteSet(D) /\ Cardinality(D) = Len(p)
  BY <1>1, FS_Interval
<1>3. \A i, j \in D : <<i, j>> \in B <=> \/ p[i].fitness > p[j].fitness
                                         \/ p[i].fitness = p[j].fitness /\ i < j
  BY DEF ByFitness
<1>4. \A i \in D : i \in Nat /\ p[i].fitness \in Nat
  BY <1>1 DEF Genomes
<1> HIDE DEF B, D
<1>5. \A i \in D : <<i, i>> \notin B
  BY <1>3, <1>4
<1>6. \A i, j \in D : i # j => <<i, j>> \in B \/ <<j, i>> \in B
  BY <1>3, <1>4
<1>7. \A i, j, k \in D : <<i, j>> \in B /\ <<j, k>> \in B => <<i, k>> \in B
  BY <1>3, <1>4
<1>8. /\ f \in [D -> D] /\ \A i, j \in D : i # j => f[i] # f[j]
      /\ \A x \in D : \E i \in D : f[i] = x
  <2>1. 1..Cardinality(D) = D
    BY <1>1, <1>2
  <2>2. /\ f \in [1..Cardinality(D) -> D]
        /\ \A i, j \in 1..Cardinality(D) : i # j => f[i] # f[j]
        /\ \A x \in D : \E i \in 1..Cardinality(D) : f[i] = x
    BY <1>2, <1>5, <1>6, <1>7, InOrderIs
  <2> HIDE DEF f
  <2> QED
    BY <2>1, <2>2
<1>9. s = [k \in D |-> p[f[k]]]
  BY DEF Sorted, D, B
<1> HIDE DEF s, f
<1>10. s \in [1..Len(p) -> Genomes] /\ \A k \in D : s[k] = p[f[k]]
  BY <1>1, <1>8, <1>9
<1>11. s \in Seq(Genomes) /\ Len(s) = Len(p) /\ DOMAIN s = D
  BY <1>1, <1>10
<1>12. Distinct(s)
  <2> SUFFICES ASSUME NEW i \in D, NEW j \in D, i # j PROVE s[i].id # s[j].id
    BY <1>11 DEF Distinct
  <2>1. f[i] \in D /\ f[j] \in D /\ f[i] # f[j]
    BY <1>8
  <2> QED
    BY <1>10, <2>1 DEF Distinct, D
<1>13. Range(s) = Range(p)
  <2>1. Range(s) = {s[k] : k \in D} /\ Range(p) = {p[k] : k \in D}
    BY <1>11 DEF Range, D
  <2> QED
    BY <1>8, <1>10, <2>1
<1> QED
  BY <1>11, <1>12, <1>13 DEF s

(* The bottom of the list is out, the rest stays.                          *)
LEMMA DividedIs ==
  ASSUME NEW p \in Seq(Genomes), Distinct(p), Len(p) >= 2 * ReplaceCount
  PROVE  /\ Survivors(p) \in Seq(Genomes) /\ Len(Survivors(p)) = Len(p) - ReplaceCount
         /\ Distinct(Survivors(p)) /\ Range(Survivors(p)) = Range(p) \ Doomed(p)
<1> DEFINE s == Sorted(p)
           n == Len(p)
           k == Len(p) - ReplaceCount
           a == SubSeq(s, 1, k)
           b == SubSeq(s, k + 1, n)
<1>1. /\ s \in Seq(Genomes) /\ Len(s) = n /\ Distinct(s) /\ Range(s) = Range(p)
  BY SortedIs
<1>2. n \in Nat /\ k \in Nat /\ k <= n /\ 1 <= k
  BY LearningAssumption
<1>3. Survivors(p) = a /\ Doomed(p) = Range(b)
  BY DEF Survivors, Doomed
<1> HIDE DEF s, n
<1>4. DOMAIN s = 1..n /\ \A i \in 1..n : s[i] \in Genomes
  BY <1>1
<1> HIDE DEF k
<1>5. a \in Seq(Genomes) /\ Len(a) = k /\ \A i \in 1..k : a[i] = s[i]
  <2>1. 1 \in 1..n /\ k \in (1 - 1)..n /\ k - 1 + 1 = k /\ (\A i \in 1..k : 1 + i - 1 = i)
    BY <1>2
  <2>2. \A i \in 1..n : s[i] \in Genomes
    BY <1>4
  <2> HIDE DEF a
  <2> QED
    BY <1>1, <1>2, <2>1, <2>2, SubSeqProperties DEF a
<1>6. Len(b) = n - k /\ DOMAIN b = 1..(n - k) /\ \A i \in 1..(n - k) : b[i] = s[k + i]
  <2>1. k + 1 \in 1..(n + 1) /\ n \in k..n /\ n - (k + 1) + 1 = n - k
        /\ (\A i \in 1..(n - k) : k + 1 + i - 1 = k + i)
    BY <1>2
  <2> QED
    BY <1>1, <1>2, <1>4, <2>1, SubSeqProperties
<1> HIDE DEF a, b
<1>9. DOMAIN a = 1..k
  BY <1>5
<1>7. Distinct(a)
  <2> SUFFICES ASSUME NEW i \in 1..k, NEW j \in 1..k, i # j PROVE a[i].id # a[j].id
    BY <1>9 DEF Distinct
  <2>1. i \in 1..n /\ j \in 1..n
    BY <1>2
  <2> QED
    BY <1>1, <1>4, <1>5, <2>1 DEF Distinct
<1>8. Range(a) = Range(s) \ Range(b)
  <2>1. /\ Range(s) = {s[i] : i \in 1..n} /\ Range(a) = {a[i] : i \in 1..k}
        /\ Range(b) = {b[i] : i \in 1..(n - k)}
    BY <1>4, <1>6, <1>9 DEF Range
  <2>2. \A i \in 1..n : i \in 1..k \/ \E j \in 1..(n - k) : i = k + j
    <3> TAKE i \in 1..n
    <3>1. i \in 1..k \/ (i - k \in 1..(n - k) /\ i = k + (i - k))
      BY <1>2
    <3> QED
      BY <3>1
  <2>3. \A i \in 1..k, j \in 1..(n - k) : i \in 1..n /\ k + j \in 1..n /\ i # k + j
    BY <1>2
  <2>4. ASSUME NEW i \in 1..k, NEW j \in 1..(n - k) PROVE a[i] # b[j]
    <3>1. i \in 1..n /\ k + j \in 1..n /\ i # k + j
      BY <2>3
    <3>2. s[i].id # s[k + j].id
      BY <1>1, <1>4, <3>1 DEF Distinct
    <3> QED
      BY <1>5, <1>6, <3>2
  <2>5. \A i \in 1..n : s[i] \in Range(a) \/ s[i] \in Range(b)
    BY <1>5, <1>6, <2>1, <2>2
  <2>6. ASSUME NEW i \in 1..k PROVE a[i] \in Range(s) /\ a[i] \notin Range(b)
    <3>1. i \in 1..n
      BY <1>2
    <3> QED
      BY <1>5, <2>1, <2>4, <3>1
  <2> QED
    BY <2>1, <2>5, <2>6
<1> QED
  BY <1>1, <1>3, <1>5, <1>7, <1>8 DEF a, k, n

(* A generation is bred from a list p, its numbers above all of p's.       *)
LEMMA BredIs ==
  ASSUME LearningInv, Len(population) >= 2 * ReplaceCount
  PROVE  LET bred == Survivors(population) \o Children
         IN /\ bred \in Seq(Genomes) /\ Len(bred) = Len(population) /\ Distinct(bred)
            /\ \A i \in DOMAIN bred : bred[i].id <= counter + ReplaceCount
            /\ Range(bred) = (Range(population) \ Doomed(population)) \cup Range(Children)
<1> DEFINE a == Survivors(population)
           c == Children
           R == ReplaceCount
           k == Len(a)
           bred == a \o c
<1>1. /\ counter \in Nat /\ generation \in Nat /\ R \in Nat
      /\ population \in Seq(Genomes) /\ Distinct(population)
      /\ \A i \in DOMAIN population : population[i].id <= counter
  BY LearningAssumption DEF LearningInv
<1>2. /\ a \in Seq(Genomes) /\ k = Len(population) - R /\ Distinct(a)
      /\ Range(a) = Range(population) \ Doomed(population)
  BY <1>1, DividedIs
<1>3. \A i \in 1..R : Genome(counter + i, 0, generation + 1) \in Genomes
  BY <1>1 DEF Genome, Genomes
<1>4. /\ c \in Seq(Genomes) /\ Len(c) = R /\ DOMAIN c = 1..R
      /\ \A i \in 1..R : c[i].id = counter + i
  BY <1>1, <1>3 DEF Children, Genome
<1>5. Len(population) \in Nat /\ k \in Nat /\ DOMAIN a = 1..k
  BY <1>1, <1>2
<1>6. \A i \in 1..k : a[i].id <= counter /\ a[i].id \in Nat
  <2>1. \A i \in 1..k : a[i] \in Range(population)
    BY <1>2, <1>5 DEF Range
  <2>2. \A g \in Range(population) : g.id <= counter /\ g.id \in Nat
    <3>1. \A i \in DOMAIN population : population[i] \in Genomes
      BY <1>1
    <3>2. \A g \in Genomes : g.id \in Nat
      BY DEF Genomes
    <3> QED
      BY <1>1, <3>1, <3>2 DEF Range
  <2> HIDE DEF a, k
  <2> QED
    BY <2>1, <2>2
<1> HIDE DEF a, c, R
<1>7. /\ bred \in Seq(Genomes) /\ Len(bred) = k + R
      /\ \A i \in 1..(k + R) : bred[i] = IF i <= k THEN a[i] ELSE c[i - k]
  BY <1>2, <1>4, ConcatProperties
<1> HIDE DEF k, bred
<1>8. DOMAIN bred = 1..(k + R) /\ Len(bred) = Len(population)
  BY <1>1, <1>2, <1>5, <1>7
<1>9. ASSUME NEW i \in 1..(k + R)
      PROVE  \/ i \in 1..k /\ bred[i] = a[i]
             \/ i - k \in 1..R /\ i > k /\ bred[i] = c[i - k]
  BY <1>1, <1>5, <1>7
<1>10. \A i \in 1..(k + R) : bred[i].id <= counter + R
  BY SMTT(40), <1>1, <1>4, <1>6, <1>9
<1>11. Distinct(bred)
  <2> SUFFICES ASSUME NEW i \in 1..(k + R), NEW j \in 1..(k + R), i # j
               PROVE  bred[i].id # bred[j].id
    BY <1>8 DEF Distinct
  <2>1. \A l, m \in 1..k : l # m => a[l].id # a[m].id
    BY <1>2, <1>5 DEF Distinct
  <2>2. \A l \in 1..k, m \in 1..R : a[l].id # c[m].id
    <3> SUFFICES ASSUME NEW l \in 1..k, NEW m \in 1..R PROVE a[l].id # counter + m
      BY <1>4
    <3>1. a[l].id <= counter /\ a[l].id \in Nat
      BY <1>6
    <3> QED
      BY <1>1, <3>1
  <2>3. \A l, m \in 1..R : l # m => c[l].id # c[m].id
    BY <1>1, <1>4
  <2>4. i > k /\ j > k => i - k # j - k
    BY <1>1, <1>5
  <2> QED
    BY <1>9, <2>1, <2>2, <2>3, <2>4
<1>12. Range(bred) = Range(a) \cup Range(c)
  <2>1. /\ Range(bred) = {bred[i] : i \in 1..(k + R)} /\ Range(a) = {a[i] : i \in 1..k}
        /\ Range(c) = {c[i] : i \in 1..R}
    BY <1>4, <1>5, <1>8 DEF Range
  <2>2. \A i \in 1..k : i \in 1..(k + R) /\ bred[i] = a[i]
    BY <1>1, <1>5, <1>7
  <2>3. \A i \in 1..R : k + i \in 1..(k + R) /\ bred[k + i] = c[i]
    BY <1>1, <1>5, <1>7
  <2> QED
    BY <1>9, <2>1, <2>2, <2>3
<1> QED
  BY <1>2, <1>7, <1>8, <1>10, <1>11, <1>12 DEF a, bred, c, R

(* A commit of Genetic puts its table on disk.                             *)
LEMMA CommitOfGenetic ==
  ASSUME LearningInv, NEW w \in Tables
  PROVE  /\ Committed("genetic", w) \in Tables
         /\ Committed("genetic", w).genomes = w.genomes
<1>1. disk \in Tables
  BY DEF LearningInv
<1> QED
  BY <1>1 DEF Committed, Tables

(* One of Mesh leaves the genomes on disk, or puts all that is open there. *)
LEMMA CommitOfMesh ==
  ASSUME LearningInv, NEW w \in Tables, w.genomes = work.genomes
  PROVE  /\ Committed("mesh", w) \in Tables
         /\ Committed("mesh", w).genomes = IF shared THEN work.genomes ELSE disk.genomes
<1>1. disk \in Tables
  BY DEF LearningInv
<1> QED
  BY <1>1 DEF Committed, Tables

LEMMA EvolveKeeps ==
  ASSUME LearningInv, Evolve \/ EvolveFailsAtCommit
  PROVE  LearningInv'
<1> DEFINE bred == Survivors(population) \o Children
           G == (work.genomes \ Doomed(population)) \cup Range(Children)
           w == [work EXCEPT !.genomes = G]
<1>1. /\ ~degraded["genetic"] /\ Len(population) >= 2 * ReplaceCount
      /\ work' = w /\ population' = bred /\ shared' = shared
      /\ generation' = generation + 1 /\ counter' = counter + ReplaceCount
  BY DEF Evolve, EvolveFailsAtCommit
<1>2. /\ shared \in BOOLEAN /\ counter \in Nat /\ generation \in Nat
      /\ degraded \in [Engines -> BOOLEAN]
      /\ disk \in Tables /\ IsFiniteSet(disk.genomes) /\ Numbered(disk.genomes)
      /\ work \in Tables /\ work.genomes = Range(population)
      /\ ~shared => /\ Cardinality(disk.genomes) = PopulationSize
                    /\ Len(population) = PopulationSize
  BY <1>1 DEF LearningInv
<1>3. ReplaceCount \in Nat
  BY LearningAssumption
<1>4. /\ bred \in Seq(Genomes) /\ Len(bred) = Len(population) /\ Distinct(bred)
      /\ \A i \in DOMAIN bred : bred[i].id <= counter + ReplaceCount
      /\ Range(bred) = G
  BY <1>1, <1>2, BredIs
<1> HIDE DEF bred, G
<1>5. /\ IsFiniteSet(G) /\ Cardinality(G) = Len(population)
      /\ Numbered(G) /\ G \subseteq Genomes
  BY <1>4, PopulationIs
<1>6. w \in Tables /\ w.genomes = G
  BY <1>2, <1>5 DEF Tables
<1> HIDE DEF w
<1>7. /\ shared' \in BOOLEAN /\ counter' \in Nat /\ generation' \in Nat
      /\ work' \in Tables /\ IsFiniteSet(work'.genomes) /\ Numbered(work'.genomes)
      /\ population' \in Seq(Genomes) /\ Distinct(population')
      /\ \A i \in DOMAIN population' : population'[i].id <= counter'
      /\ work'.genomes = Range(population')
      /\ Len(population') = Len(population)
  BY <1>1, <1>2, <1>3, <1>4, <1>5, <1>6
<1>8. CASE Evolve
  <2>1. disk' = Committed("genetic", w) /\ degraded' = degraded
    BY <1>1, <1>8 DEF Evolve
  <2>2. disk' \in Tables /\ disk'.genomes = G
    BY <1>6, <2>1, CommitOfGenetic
  <2> QED
    BY <1>1, <1>2, <1>5, <1>7, <2>1, <2>2 DEF LearningInv, Numbered, Distinct
<1>9. CASE EvolveFailsAtCommit
  <2>1. /\ disk' = disk /\ frozen' = disk.genomes
        /\ degraded' = [degraded EXCEPT !["genetic"] = TRUE]
    BY <1>9 DEF EvolveFailsAtCommit, Degrades
  <2>2. degraded' \in [Engines -> BOOLEAN] /\ degraded'["genetic"]
    BY <1>2, <2>1 DEF Engines
  <2> QED
    BY <1>1, <1>2, <1>7, <2>1, <2>2 DEF LearningInv, Numbered, Distinct
<1> QED
  BY <1>8, <1>9

LEMMA HaltKeeps ==
  ASSUME LearningInv, NEW e, EvolveFailsAtDeletes \/ (e \in Engines /\ VolumeReached(e))
  PROVE  LearningInv'
<1>1. /\ shared \in BOOLEAN /\ counter \in Nat /\ generation \in Nat
      /\ degraded \in [Engines -> BOOLEAN]
      /\ disk \in Tables /\ IsFiniteSet(disk.genomes) /\ Numbered(disk.genomes)
      /\ work \in Tables /\ IsFiniteSet(work.genomes) /\ Numbered(work.genomes)
      /\ population \in Seq(Genomes) /\ Distinct(population)
      /\ \A i \in DOMAIN population : population[i].id <= counter
      /\ ~shared => Cardinality(disk.genomes) = PopulationSize
  BY DEF LearningInv
<1>2. UNCHANGED <<shared, disk, population, generation>>
  BY DEF EvolveFailsAtDeletes, VolumeReached, Deleted
<1>3. CASE EvolveFailsAtDeletes
  <2>1. /\ counter' = counter + ReplaceCount /\ frozen' = disk.genomes
        /\ degraded' = [degraded EXCEPT !["genetic"] = TRUE]
    BY <1>3 DEF EvolveFailsAtDeletes, Degrades
  <2>2. PICK gs : work' = [work EXCEPT !.genomes = @ \ gs]
    BY <1>3 DEF EvolveFailsAtDeletes, Deleted
  <2>3. work' \in Tables /\ work'.genomes = work.genomes \ gs
    BY <1>1, <2>2 DEF Tables
  <2>4. work'.genomes \subseteq work.genomes
    BY <2>3
  <2>5. IsFiniteSet(work'.genomes) /\ Numbered(work'.genomes)
    BY <1>1, <2>4, FS_Subset DEF Numbered
  <2>6. degraded' \in [Engines -> BOOLEAN] /\ degraded'["genetic"]
    BY <1>1, <2>1 DEF Engines
  <2>7. \A i \in DOMAIN population : population[i].id <= counter + ReplaceCount
    <3>1. \A i \in DOMAIN population : population[i].id \in Nat
      <4>1. \A i \in DOMAIN population : population[i] \in Genomes
        BY <1>1
      <4> QED
        BY <4>1 DEF Genomes
    <3> QED
      BY <1>1, <3>1, LearningAssumption
  <2>8. counter' \in Nat
    BY <1>1, <2>1, LearningAssumption
  <2> QED
    BY <1>1, <1>2, <2>1, <2>3, <2>5, <2>6, <2>7, <2>8 DEF LearningInv, Numbered, Distinct
<1>4. CASE e \in Engines /\ VolumeReached(e)
  <2>1. /\ UNCHANGED <<work, counter>>
        /\ degraded' = [degraded EXCEPT ![e] = TRUE]
        /\ frozen' = IF e = "genetic" THEN disk.genomes ELSE frozen
    BY <1>4 DEF VolumeReached, Degrades
  <2>2. /\ degraded' \in [Engines -> BOOLEAN] /\ (degraded["genetic"] => degraded'["genetic"])
        /\ e = "genetic" => degraded'["genetic"]
        /\ e # "genetic" => degraded'["genetic"] = degraded["genetic"]
    BY <1>1, <1>4, <2>1 DEF Engines
  <2> QED
    BY <1>1, <1>2, <2>1, <2>2 DEF LearningInv, Numbered, Distinct
<1> QED
  BY <1>3, <1>4

LEMMA FitnessKeeps ==
  ASSUME LearningInv, NEW is, NEW fit \in 0..TopFitness, NEW ok \in BOOLEAN,
         FitnessUpdated(is, fit, ok)
  PROVE  LearningInv'
<1> DEFINE fitted == Refit(is, fit)
           G == {g \in work.genomes : \A i \in is : g.id # population[i].id}
                  \cup {fitted[i] : i \in is}
           w == [work EXCEPT !.genomes = G]
           D == DOMAIN population
<1>1. /\ shared \in BOOLEAN /\ counter \in Nat /\ generation \in Nat
      /\ degraded \in [Engines -> BOOLEAN]
      /\ disk \in Tables /\ IsFiniteSet(disk.genomes) /\ Numbered(disk.genomes)
      /\ work \in Tables
      /\ population \in Seq(Genomes) /\ Distinct(population)
      /\ \A i \in D : population[i].id <= counter
      /\ D = 1..Len(population) /\ \A i \in D : population[i] \in Genomes
  BY DEF LearningInv
<1>2. /\ ~degraded["genetic"] /\ is \subseteq D
      /\ population' = fitted /\ work' = w
      /\ disk' = (IF ok THEN Committed("genetic", w) ELSE disk)
      /\ UNCHANGED <<shared, generation, counter, degraded, frozen>>
  BY DEF FitnessUpdated, Stored
<1>3. /\ work.genomes = Range(population)
      /\ ~shared => /\ Cardinality(disk.genomes) = PopulationSize
                    /\ Len(population) = PopulationSize
  BY <1>2 DEF LearningInv
<1>4. fit \in Nat
  BY LearningAssumption
<1>5. \A g \in Genomes : [g EXCEPT !.fitness = fit] \in Genomes
                         /\ [g EXCEPT !.fitness = fit].id = g.id
  BY <1>4 DEF Genomes
<1>6. /\ fitted = [i \in D |-> fitted[i]]
      /\ \A i \in D : /\ fitted[i] \in Genomes /\ fitted[i].id = population[i].id
                      /\ i \notin is => fitted[i] = population[i]
  BY <1>1, <1>5 DEF Refit
<1> HIDE DEF fitted
<1>7. fitted \in Seq(Genomes) /\ Len(fitted) = Len(population) /\ DOMAIN fitted = D
  <2>1. fitted \in [1..Len(population) -> Genomes]
    BY <1>1, <1>6
  <2> QED
    BY <1>1, <2>1
<1>8. Distinct(fitted) /\ \A i \in DOMAIN fitted : fitted[i].id <= counter
  BY <1>1, <1>6, <1>7 DEF Distinct
<1>9. Range(fitted) = G
  <2>1. /\ Range(fitted) = {fitted[i] : i \in D} /\ work.genomes = {population[i] : i \in D}
    BY <1>3, <1>7 DEF Range
  <2>2. ASSUME NEW i \in D PROVE fitted[i] \in G
    <3>1. CASE i \in is
      BY <3>1
    <3>2. CASE i \notin is
      <4>1. \A j \in is : population[i].id # population[j].id
        BY <1>1, <1>2, <3>2 DEF Distinct
      <4> QED
        BY <1>6, <2>1, <3>2, <4>1
    <3> QED
      BY <3>1, <3>2
  <2>3. ASSUME NEW g \in G PROVE g \in Range(fitted)
    <3>1. CASE \E i \in is : g = fitted[i]
      BY <1>2, <2>1, <3>1
    <3>2. CASE g \in work.genomes /\ \A i \in is : g.id # population[i].id
      <4>1. PICK i \in D : g = population[i]
        BY <2>1, <3>2
      <4>2. i \notin is
        BY <3>2, <4>1
      <4> QED
        BY <1>6, <2>1, <4>1, <4>2
    <3> QED
      BY <3>1, <3>2
  <2> HIDE DEF G
  <2> QED
    BY <2>1, <2>2, <2>3
<1> HIDE DEF G
<1>10. /\ IsFiniteSet(G) /\ Cardinality(G) = Len(population)
       /\ Numbered(G) /\ G \subseteq Genomes
  BY <1>7, <1>8, <1>9, PopulationIs
<1>11. w \in Tables /\ w.genomes = G
  BY <1>1, <1>10 DEF Tables
<1> HIDE DEF w
<1>12. /\ disk' \in Tables /\ IsFiniteSet(disk'.genomes) /\ Numbered(disk'.genomes)
       /\ ~shared => Cardinality(disk'.genomes) = PopulationSize
  <2>1. Committed("genetic", w) \in Tables /\ Committed("genetic", w).genomes = G
    BY <1>11, CommitOfGenetic
  <2>2. CASE ok
    <3>1. disk' \in Tables /\ disk'.genomes = G
      BY <1>2, <2>1, <2>2
    <3> QED
      BY <1>3, <1>10, <3>1
  <2>3. CASE ~ok
    <3>1. disk' = disk
      BY <1>2, <2>3
    <3> QED
      BY <1>1, <1>3, <3>1
  <2> QED
    BY <2>2, <2>3
<1>13. /\ work' \in Tables /\ IsFiniteSet(work'.genomes) /\ Numbered(work'.genomes)
       /\ work'.genomes = Range(population')
       /\ population' \in Seq(Genomes) /\ Distinct(population')
       /\ Len(population') = Len(population)
       /\ \A i \in DOMAIN population' : population'[i].id <= counter'
  BY <1>2, <1>7, <1>8, <1>9, <1>10, <1>11
<1> QED
  BY <1>1, <1>2, <1>3, <1>12, <1>13 DEF LearningInv, Numbered, Distinct

LEMMA MeshKeeps ==
  ASSUME LearningInv, NEW pruned, NEW ok \in BOOLEAN, ReportStored(ok) \/ Aggregate(pruned, ok)
  PROVE  LearningInv'
<1>1. /\ shared \in BOOLEAN /\ counter \in Nat /\ generation \in Nat
      /\ degraded \in [Engines -> BOOLEAN]
      /\ disk \in Tables /\ IsFiniteSet(disk.genomes) /\ Numbered(disk.genomes)
      /\ work \in Tables /\ IsFiniteSet(work.genomes) /\ Numbered(work.genomes)
  BY DEF LearningInv
<1>2. UNCHANGED <<shared, population, generation, counter>>
  BY DEF ReportStored, Aggregate
<1>3. work' \in Tables /\ work'.genomes = work.genomes
  <2>1. CASE ReportStored(ok)
    BY <1>1, <2>1 DEF ReportStored, Tables
  <2>2. CASE Aggregate(pruned, ok)
    <3>1. pruned \in 0..work.rows /\ work' = [work EXCEPT !.policies = work.rows, !.rows = @ - pruned]
      BY <2>2 DEF Aggregate
    <3>2. work.rows \in Nat /\ work.rows - pruned \in Nat
      BY <1>1, <3>1 DEF Tables
    <3> QED
      BY <1>1, <3>1, <3>2 DEF Tables
  <2> QED
    BY <2>1, <2>2
<1>4. /\ degraded' \in [Engines -> BOOLEAN] /\ degraded'["genetic"] = degraded["genetic"]
      /\ frozen' = frozen
  BY <1>1 DEF ReportStored, Aggregate, Degrades, Engines
<1>5. disk' = disk \/ disk' = Committed("mesh", work')
  BY DEF ReportStored, Aggregate
<1>6. /\ disk' \in Tables
      /\ disk'.genomes = disk.genomes \/ (shared /\ disk'.genomes = work.genomes)
  <2>1. /\ Committed("mesh", work') \in Tables
        /\ Committed("mesh", work').genomes = IF shared THEN work.genomes ELSE disk.genomes
    <3> DEFINE w == work'
    <3>1. w \in Tables /\ w.genomes = work.genomes
      BY <1>3
    <3> HIDE DEF w
    <3>2. /\ Committed("mesh", w) \in Tables
          /\ Committed("mesh", w).genomes = IF shared THEN work.genomes ELSE disk.genomes
      BY <3>1, CommitOfMesh
    <3> QED
      BY <3>2 DEF w
  <2> QED
    BY <1>1, <1>5, <2>1
<1> QED
  BY <1>1, <1>2, <1>3, <1>4, <1>6 DEF LearningInv, Numbered, Distinct

LEMMA OpenFailsKeeps ==
  ASSUME LearningInv, OpenFails
  PROVE  LearningInv'
<1>1. /\ shared \in BOOLEAN /\ disk \in Tables
      /\ IsFiniteSet(disk.genomes) /\ Numbered(disk.genomes)
      /\ ~shared => Cardinality(disk.genomes) = PopulationSize
  BY DEF LearningInv
<1>2. /\ work' = disk /\ population' = <<>> /\ generation' = 0 /\ counter' = 0
      /\ frozen' = disk.genomes /\ UNCHANGED <<shared, disk>>
      /\ degraded' \in [Engines -> BOOLEAN] /\ degraded'["genetic"]
  BY DEF OpenFails, Engines
<1>3. <<>> \in Seq(Genomes) /\ DOMAIN <<>> = {}
  BY EmptySeq
<1> QED
  BY <1>1, <1>2, <1>3 DEF LearningInv, Numbered, Distinct

(* In such an order a set that is not empty has a last.                    *)
LEMMA LastIs ==
  ASSUME NEW S, IsFiniteSet(S), S # {}, NEW before,
         \A x \in S : <<x, x>> \notin before,
         \A x, y, z \in S : <<x, y>> \in before /\ <<y, z>> \in before => <<x, z>> \in before,
         \A x, y \in S : x # y => <<x, y>> \in before \/ <<y, x>> \in before
  PROVE  \E x \in S : \A y \in S : y = x \/ <<y, x>> \in before
<1> DEFINE s == InOrder(S, before)
           n == Cardinality(S)
<1>1. /\ n \in Nat /\ s \in [1..n -> S]
      /\ \A i, j \in 1..n : i < j => <<s[i], s[j]>> \in before
      /\ \A x \in S : \E i \in 1..n : s[i] = x
  BY InOrderIs
<1> HIDE DEF s, n
<1>2. n \in 1..n
  <2>1. 1..n # {}
    BY <1>1
  <2> QED
    BY <1>1, <2>1
<1>3. ASSUME NEW y \in S PROVE y = s[n] \/ <<y, s[n]>> \in before
  <2>1. PICK i \in 1..n : s[i] = y
    BY <1>1
  <2>2. i = n \/ i < n
    BY <1>1
  <2> QED
    BY <1>1, <1>2, <2>1, <2>2
<1> QED
  BY <1>1, <1>2, <1>3

(* One of the genomes is of the latest generation.                         *)
LEMMA LatestIs ==
  ASSUME NEW gs \in SUBSET Genomes, IsFiniteSet(gs), Numbered(gs), gs # {}
  PROVE  \E g \in gs : \A h \in gs : g.generation >= h.generation
<1> DEFINE B == {e \in gs \X gs : \/ e[1].generation < e[2].generation
                                  \/ e[1].generation = e[2].generation /\ e[1].id < e[2].id}
<1>1. \A x, y \in gs : <<x, y>> \in B <=> \/ x.generation < y.generation
                                          \/ x.generation = y.generation /\ x.id < y.id
  OBVIOUS
<1>2. \A x \in gs : x.id \in Nat /\ x.generation \in Nat
  BY DEF Genomes
<1> HIDE DEF B
<1>3. \A x \in gs : <<x, x>> \notin B
  BY <1>1, <1>2
<1>4. \A x, y \in gs : x # y => <<x, y>> \in B \/ <<y, x>> \in B
  BY <1>1, <1>2 DEF Numbered
<1>5. \A x, y, z \in gs : <<x, y>> \in B /\ <<y, z>> \in B => <<x, z>> \in B
  BY <1>1, <1>2
<1>6. PICK x \in gs : \A y \in gs : y = x \/ <<y, x>> \in B
  BY <1>3, <1>4, <1>5, LastIs
<1>7. ASSUME NEW y \in gs PROVE x.generation >= y.generation
  <2>1. x.generation \in Nat /\ y.generation \in Nat
    BY <1>2
  <2>2. CASE y = x
    BY <2>1, <2>2
  <2>3. CASE <<y, x>> \in B
    <3>1. y.generation < x.generation \/ y.generation = x.generation
      BY <1>1, <2>3
    <3> QED
      BY <2>1, <3>1
  <2> QED
    BY <1>6, <2>2, <2>3
<1> QED
  BY <1>7

LEMMA SeededIs ==
  /\ Seeded \in Seq(Genomes) /\ Len(Seeded) = PopulationSize /\ Distinct(Seeded)
  /\ \A i, j \in DOMAIN Seeded : i <= j => Seeded[i].id <= Seeded[j].id
  /\ Len(Seeded) > 0
<1>1. PopulationSize \in Nat /\ PopulationSize > 0
  BY LearningAssumption
<1>2. \A i \in 1..PopulationSize : Genome(i, 0, 0) \in Genomes /\ Genome(i, 0, 0).id = i
  BY <1>1 DEF Genome, Genomes
<1>3. Seeded \in [1..PopulationSize -> Genomes] /\ \A i \in 1..PopulationSize : Seeded[i].id = i
  BY <1>2 DEF Seeded
<1>4. Seeded \in Seq(Genomes) /\ Len(Seeded) = PopulationSize /\ DOMAIN Seeded = 1..PopulationSize
  BY <1>1, <1>3
<1> QED
  BY <1>1, <1>3, <1>4 DEF Distinct

(* The table in the order of the numbers.                                  *)
LEMMA LoadedIs ==
  ASSUME NEW gs \in SUBSET Genomes, IsFiniteSet(gs), Numbered(gs), gs # {}
  PROVE  LET p == InOrder(gs, ByNumber(gs))
         IN /\ p \in Seq(Genomes) /\ Len(p) = Cardinality(gs) /\ Distinct(p) /\ Range(p) = gs
            /\ \A i, j \in DOMAIN p : i <= j => p[i].id <= p[j].id
            /\ Len(p) > 0
<1> DEFINE B == ByNumber(gs)
           p == InOrder(gs, B)
           n == Cardinality(gs)
<1>1. \A x, y \in gs : <<x, y>> \in B <=> x.id < y.id
  BY DEF ByNumber
<1>2. \A x \in gs : x.id \in Nat
  BY DEF Genomes
<1> HIDE DEF B
<1>3. /\ n \in Nat /\ p \in [1..n -> gs]
      /\ \A i, j \in 1..n : i < j => <<p[i], p[j]>> \in B
      /\ \A x \in gs : \E i \in 1..n : p[i] = x
  <2>1. \A x \in gs : <<x, x>> \notin B
    BY <1>1, <1>2
  <2>2. \A x, y \in gs : x # y => <<x, y>> \in B \/ <<y, x>> \in B
    BY <1>1, <1>2 DEF Numbered
  <2>3. \A x, y, z \in gs : <<x, y>> \in B /\ <<y, z>> \in B => <<x, z>> \in B
    BY <1>1, <1>2
  <2> QED
    BY <2>1, <2>2, <2>3, InOrderIs
<1> HIDE DEF p, n
<1>4. p \in Seq(Genomes) /\ Len(p) = n /\ DOMAIN p = 1..n
  BY <1>3
<1>5. \A i, j \in 1..n : i < j => p[i].id < p[j].id
  BY <1>1, <1>3
<1>6. \A i \in 1..n : p[i].id \in Nat
  BY <1>2, <1>3
<1>7. Distinct(p) /\ \A i, j \in DOMAIN p : i <= j => p[i].id <= p[j].id
  <2>1. ASSUME NEW i \in 1..n, NEW j \in 1..n, i # j PROVE p[i].id # p[j].id
    <3>1. i < j \/ j < i
      BY <1>3, <2>1
    <3>2. p[i].id < p[j].id \/ p[j].id < p[i].id
      BY <1>5, <3>1
    <3>3. p[i].id \in Nat /\ p[j].id \in Nat
      BY <1>6
    <3> QED
      BY <3>2, <3>3
  <2>2. ASSUME NEW i \in 1..n, NEW j \in 1..n, i <= j PROVE p[i].id <= p[j].id
    <3>1. i < j \/ i = j
      BY <1>3, <2>2
    <3>2. p[i].id < p[j].id \/ p[i].id = p[j].id
      BY <1>5, <3>1
    <3>3. p[i].id \in Nat /\ p[j].id \in Nat
      BY <1>6
    <3> QED
      BY <3>2, <3>3
  <2> QED
    BY <1>4, <2>1, <2>2 DEF Distinct
<1>8. Range(p) = gs
  <2>1. Range(p) = {p[i] : i \in 1..n}
    BY <1>4 DEF Range
  <2> QED
    BY <1>3, <2>1
<1>9. n > 0
  BY <1>3
<1> QED
  BY <1>4, <1>7, <1>8, <1>9 DEF p, n, B

LEMMA RestartKeeps ==
  ASSUME LearningInv, Restart
  PROVE  LearningInv'
<1> DEFINE gs == disk.genomes
           p == IF gs = {} THEN Seeded ELSE InOrder(gs, ByNumber(gs))
           T == {g.generation : g \in Range(p)}
<1>1. /\ shared \in BOOLEAN /\ disk \in Tables /\ IsFiniteSet(gs) /\ Numbered(gs)
      /\ gs \in SUBSET Genomes
      /\ ~shared => Cardinality(gs) = PopulationSize
  BY DEF LearningInv, Tables
<1>2. /\ p \in Seq(Genomes) /\ Distinct(p) /\ Len(p) > 0
      /\ \A i, j \in DOMAIN p : i <= j => p[i].id <= p[j].id
      /\ ~shared => Len(p) = PopulationSize
  <2>1. CASE gs = {}
    <3>1. p = Seeded
      BY <2>1
    <3> HIDE DEF p
    <3> QED
      BY <3>1, SeededIs
  <2>2. CASE gs # {}
    <3>1. p = InOrder(gs, ByNumber(gs))
      BY <2>2
    <3> HIDE DEF p, gs
    <3> QED
      BY <1>1, <2>2, <3>1, LoadedIs
  <2> QED
    BY <2>1, <2>2
<1>3. /\ population' = p /\ disk' = [disk EXCEPT !.genomes = Range(p)] /\ work' = disk'
      /\ generation' = CHOOSE n \in T : \A g \in Range(p) : n >= g.generation
      /\ counter' = Last(p).id
      /\ degraded' = [e \in Engines |-> FALSE] /\ UNCHANGED shared
  BY DEF Restart
<1> HIDE DEF p
<1>4. /\ IsFiniteSet(Range(p)) /\ Cardinality(Range(p)) = Len(p)
      /\ Numbered(Range(p)) /\ Range(p) \subseteq Genomes
  BY <1>2, PopulationIs
<1>5. Len(p) \in DOMAIN p /\ DOMAIN p = 1..Len(p) /\ Last(p) = p[Len(p)]
  BY <1>2 DEF Last
<1>6. counter' \in Nat /\ \A i \in DOMAIN p : p[i].id <= counter'
  <2>1. p[Len(p)] \in Genomes /\ \A i \in DOMAIN p : i <= Len(p)
    BY <1>2, <1>5
  <2>2. \A i \in DOMAIN p : p[i].id <= p[Len(p)].id
    BY <1>2, <1>5, <2>1
  <2>3. p[Len(p)].id \in Nat
    BY <2>1 DEF Genomes
  <2> QED
    BY <1>3, <1>5, <2>2, <2>3
<1>7. generation' \in Nat
  <2>1. Range(p) # {}
    BY <1>5 DEF Range
  <2>2. PICK g \in Range(p) : \A h \in Range(p) : g.generation >= h.generation
    BY <1>4, <2>1, LatestIs
  <2>3. g.generation \in T
    OBVIOUS
  <2> DEFINE latest(n) == \A h \in Range(p) : n >= h.generation
  <2>4. generation' = CHOOSE n \in T : latest(n)
    BY <1>3
  <2>5. latest(g.generation)
    BY <2>2
  <2>6. T \subseteq Nat
    BY <1>4 DEF Genomes
  <2> HIDE DEF T, latest
  <2>7. \E n \in T : latest(n)
    BY <2>3, <2>5
  <2>8. generation' \in T
    BY <2>4, <2>7
  <2> QED
    BY <2>6, <2>8
<1>8. disk' \in Tables /\ disk'.genomes = Range(p)
  BY <1>1, <1>3, <1>4 DEF Tables
<1>9. degraded' \in [Engines -> BOOLEAN] /\ ~degraded'["genetic"]
  BY <1>3 DEF Engines
<1> QED
  BY <1>1, <1>2, <1>3, <1>4, <1>6, <1>7, <1>8, <1>9 DEF LearningInv, Numbered, Distinct

LearningStep ==
  \/ Evolve \/ EvolveFailsAtDeletes \/ EvolveFailsAtCommit \/ Restart \/ OpenFails
  \/ \E e \in Engines : VolumeReached(e)
  \/ \E is \in SUBSET DOMAIN population, fit \in 0..TopFitness, ok \in BOOLEAN :
       FitnessUpdated(is, fit, ok)
  \/ \E ok \in BOOLEAN : ReportStored(ok)
  \/ \E pruned \in 0..MaxRows, ok \in BOOLEAN : Aggregate(pruned, ok)

LEMMA LearningSteps == [Next]_vars => LearningStep \/ UNCHANGED learningVars
<1>1. UNCHANGED vars => UNCHANGED learningVars
  BY DEF vars
<1>2. ASSUME NEW part, part # "learning", In(part) PROVE UNCHANGED learningVars
  BY <1>2 DEF In
<1>3. Next => LearningStep \/ UNCHANGED learningVars
  BY <1>2, Zenon DEF Next, LearningStep
<1> QED
  BY <1>1, <1>3

LEMMA LearningKeeps == LearningInv /\ [Next]_vars => LearningInv'
<1>1. LearningInv /\ UNCHANGED learningVars => LearningInv'
  BY DEF LearningInv, learningVars, Numbered, Distinct
<1>2. LearningInv /\ LearningStep => LearningInv'
  BY EvolveKeeps, HaltKeeps, FitnessKeeps, MeshKeeps, OpenFailsKeeps, RestartKeeps, Zenon
     DEF LearningStep
<1> QED
  BY <1>1, <1>2, LearningSteps

LEMMA LearningStarts == Init => LearningInv
<1> SUFFICES ASSUME LearningInit PROVE LearningInv
  BY DEF Init
<1> DEFINE gs == Range(Seeded)
<1>1. /\ shared \in BOOLEAN /\ counter = PopulationSize /\ generation = 0
      /\ disk = [genomes |-> gs, rows |-> 0, policies |-> 0] /\ work = disk
      /\ population = Seeded
      /\ degraded \in [Engines -> BOOLEAN] /\ ~degraded["genetic"]
  BY LearningAssumption DEF LearningInit, Engines
<1>2. Seeded \in Seq(Genomes) /\ Len(Seeded) = PopulationSize /\ Distinct(Seeded)
  BY SeededIs
<1>3. IsFiniteSet(gs) /\ Cardinality(gs) = PopulationSize /\ Numbered(gs) /\ gs \subseteq Genomes
  BY <1>2, PopulationIs
<1>4. PopulationSize \in Nat /\ \A i \in DOMAIN Seeded : Seeded[i].id <= PopulationSize
  BY LearningAssumption DEF Seeded, Genome
<1> HIDE DEF gs
<1>5. disk \in Tables /\ disk.genomes = gs /\ work = disk
  BY <1>1, <1>3 DEF Tables
<1> QED
  BY <1>1, <1>2, <1>3, <1>4, <1>5 DEF LearningInv, gs

(* What the engines keep over restarts.  No two genomes of the file or of  *)
(* memory have one number, and a Genetic with a file of its own keeps its  *)
(* whole population there, untouched once it degrades, at whatever         *)
(* statement an error comes; state.json and its copies are snapshots that a*)
(* flush took, and the last finished copy is among the newest Keep.        *)
THEOREM StoresAreKept == Spec => []StoresKept
<1>1. LearningInv => GenomesKept
  BY DEF LearningInv, GenomesKept, NumbersUnique, PopulationKept, Numbered, Distinct
<1>2. LearningInv /\ StateInv => StoresKept
  BY <1>1, StateIsKept DEF StoresKept
<1>3. Init => LearningInv /\ StateInv
  BY LearningStarts, StateStarts
<1>4. LearningInv /\ StateInv /\ [Next]_vars => LearningInv' /\ StateInv'
  BY LearningKeeps, StateKeeps
<1> QED
  BY <1>2, <1>3, <1>4, PTL DEF Spec

-----------------------------------------------------------------------------
(* The codecs in the behaviours of the engines.                            *)
LEMMA ChaosSteps == [Next]_vars => ChaosStep \/ UNCHANGED chaosVars
<1>1. UNCHANGED vars => UNCHANGED chaosVars
  BY DEF vars
<1>2. ASSUME NEW part, part # "chaos", In(part) PROVE UNCHANGED chaosVars
  BY <1>2 DEF In
<1>3. Next => ChaosStep \/ UNCHANGED chaosVars
  BY <1>2, Zenon DEF Next, ChaosStep
<1> QED
  BY <1>1, <1>3

LEMMA ChaosKeeps == ChaosInv /\ [Next]_vars => ChaosInv'
<1>1. ChaosInv /\ UNCHANGED chaosVars => ChaosInv'
  <2> SUFFICES ASSUME ChaosInv, UNCHANGED chaosVars PROVE ChaosInv'
    OBVIOUS
  <2>1. UNCHANGED <<seedOf, bucket, sent, wire, buffer, results>>
    BY DEF chaosVars
  <2>2. \A m, b : EncodePacket(m, b)' = EncodePacket(m, b)
    BY <2>1 DEF EncodePacket, Control, Frame
  <2>3. \A b, c : Alike(b, c)' = Alike(b, c)
    BY <2>1 DEF Alike, Frame
  <2>4. ChaosTyped' /\ Stream' = Stream /\ Waiting' = Waiting /\ RecordsDecode'
    BY <2>1, <2>3 DEF ChaosInv, ChaosTyped, Stream, Waiting, RecordsDecode
  <2> QED BY <2>1, <2>2, <2>4 DEF ChaosInv
<1>2. ChaosInv /\ ChaosStep => ChaosInv'
  BY ChaosTickKeeps, EncodeKeeps, ReceiveKeeps DEF ChaosStep
<1> QED
  BY <1>1, <1>2, ChaosSteps

LEMMA FecSteps == [Next]_vars => FecStep \/ UNCHANGED fecVars
<1>1. UNCHANGED vars => UNCHANGED fecVars
  BY DEF vars
<1>2. ASSUME NEW part, part # "fec", In(part) PROVE UNCHANGED fecVars
  BY <1>2 DEF In
<1>3. Next => FecStep \/ UNCHANGED fecVars
  BY <1>2, Zenon DEF Next, FecStep
<1> QED
  BY <1>1, <1>3

LEMMA FecKeeps == FecInv /\ [Next]_vars => FecInv'
<1>1. FecInv /\ UNCHANGED fecVars => FecInv'
  BY DEF FecInv, Groups, fecVars, Arrived
<1>2. FecInv /\ FecStep => FecInv'
  BY LoseBlockKeeps DEF FecStep
<1> QED BY <1>1, <1>2, FecSteps

LEMMA ResponseSteps == [Next]_vars => AppStarts \/ AppSends \/ ResponseRests
<1>1. UNCHANGED responseVars => ResponseRests
  BY DEF responseVars, ResponseRests
<1>2. UNCHANGED vars => ResponseRests
  BY <1>1 DEF vars
<1>3. ASSUME NEW part, part # "response", In(part) PROVE ResponseRests
  BY <1>1, <1>3 DEF In
<1>4. AppFails => ResponseRests
  BY DEF AppFails, ResponseRests
<1>5. Next => AppStarts \/ AppSends \/ ResponseRests
  BY <1>3, <1>4, Zenon DEF Next
<1> QED BY <1>2, <1>5

LEMMA ResponseKeeps == ResponseInv /\ [Next]_vars => ResponseInv'
  BY AppStartsKeeps, AppSendsKeeps, RestKeeps, ResponseSteps

LEMMA CodecsStart == Init => ChaosInv /\ FecInv /\ ResponseInv
BY ChaosStarts, FecStarts, ResponseStarts DEF Init

-----------------------------------------------------------------------------
(* The types of the parts, as bounds that a run reaches.  The manager: what*)
(* is in the pipelines has a place in the order, and what the emergency    *)
(* stop has yet to stop was registered.                                    *)
EngineBound ==
  /\ toggles \in [Names -> {"none", "on", "off"}] /\ piped \subseteq order
  /\ shed \in [fired : BOOLEAN, left : SUBSET (Names \X Numbers)]

LEMMA PipelinesAreOrdered == \A es, on, ord : Pipelines(es, on, ord) \subseteq ord
BY DEF Pipelines

LEMMA RecordIsTyped ==
  ASSUME NEW n, NEW on, toggles \in [Names -> {"none", "on", "off"}], Record(n, on)
  PROVE  toggles' \in [Names -> {"none", "on", "off"}]
BY DEF Record

LEMMA RebuiltIsOrdered ==
  ASSUME NEW es, NEW on, Rebuilt(es, on), order' = order
  PROVE  piped' \subseteq order'
BY PipelinesAreOrdered DEF Rebuilt

LEMMA ManagerBounds ==
  ASSUME ManagerTyped, EngineBound, ManagerStep
  PROVE  EngineBound'
<1>1. ASSUME NEW b, Boot(b) PROVE EngineBound'
  <2>1. /\ toggles' = toggles /\ shed' = [fired |-> FALSE, left |-> {}]
        /\ piped' = Booted(toggles, b).piped /\ order' = Booted(toggles, b).order
    BY <1>1 DEF Boot
  <2>2. piped' \subseteq order'
    BY <2>1, PipelinesAreOrdered DEF Booted
  <2> QED BY <2>1, <2>2 DEF EngineBound
<1>2. ASSUME NEW r \in Togglers, NEW n \in Names, NEW on \in BOOLEAN, ToggleAtOnce(r, n, on)
      PROVE  EngineBound'
  <2>1. order' = order /\ shed' = shed /\ Record(n, on) /\ Rebuilt(engines', running)
    BY <1>2 DEF ToggleAtOnce
  <2> QED BY <2>1, RecordIsTyped, RebuiltIsOrdered DEF EngineBound
<1>3. ASSUME NEW r \in Togglers, NEW n \in Names,
             EnableRefused(r, n) \/ EnableBegins(r, n) \/ DisableBegins(r, n)
      PROVE  EngineBound'
  <2>1. UNCHANGED <<order, shed, toggles, piped>>
    BY <1>3 DEF EnableRefused, EnableBegins, DisableBegins
  <2> QED BY <2>1 DEF EngineBound
<1>4. ASSUME NEW r \in Togglers, StartSucceeds(r) PROVE EngineBound'
  <2>1. /\ order' = order /\ shed' = shed /\ Record(toggle[r].name, TRUE)
        /\ Rebuilt(engines', running')
    BY <1>4 DEF StartSucceeds
  <2> QED BY <2>1, RecordIsTyped, RebuiltIsOrdered DEF EngineBound
<1>5. ASSUME NEW r \in Togglers, KidStarts(r) PROVE EngineBound'
  <2>1. /\ order' = order /\ shed' = shed /\ Record(toggle[r].name, TRUE)
        /\ Rebuilt(engines, running')
    BY <1>5 DEF KidStarts
  <2> QED BY <2>1, RecordIsTyped, RebuiltIsOrdered DEF EngineBound
<1>6. ASSUME NEW r \in Togglers, StartFails(r) PROVE EngineBound'
  <2>1. UNCHANGED <<order, shed, toggles, piped>>
    BY <1>6 DEF StartFails
  <2> QED BY <2>1 DEF EngineBound
<1>7. ASSUME NEW r \in Togglers, StopEnds(r) PROVE EngineBound'
  <2>1. /\ order' = order /\ shed' = shed /\ Record(toggle[r].name, FALSE)
        /\ Rebuilt(engines', running')
    BY <1>7 DEF StopEnds
  <2> QED BY <2>1, RecordIsTyped, RebuiltIsOrdered DEF EngineBound
<1>8. ASSUME NEW r \in Togglers, NEW c \in Inside, StopsKid(r, c) PROVE EngineBound'
  <2>1. UNCHANGED <<order, shed, toggles, piped>>
    BY <1>8 DEF StopsKid
  <2> QED BY <2>1 DEF EngineBound
<1>9. ASSUME EmergencyBegins PROVE EngineBound'
  <2>1. /\ UNCHANGED <<order, toggles, piped>>
        /\ shed' = [fired |-> TRUE, left |-> {Object(n) : n \in {m \in Names : engines[m] # 0}}]
    BY <1>9 DEF EmergencyBegins
  <2>2. \A m \in Names : engines[m] # 0 => engines[m] \in Numbers
    BY EngineAssumption DEF ManagerTyped, Numbers
  <2>3. {Object(n) : n \in {m \in Names : engines[m] # 0}} \subseteq Names \X Numbers
    BY <2>2 DEF Object
  <2> QED BY <2>1, <2>3 DEF EngineBound
<1>10. ASSUME NEW o, EmergencyStops(o) PROVE EngineBound'
  <2>1. /\ UNCHANGED <<order, toggles>> /\ shed' = [shed EXCEPT !.left = @ \ {o}]
        /\ Rebuilt(engines', running') \/ UNCHANGED piped
    BY <1>10 DEF EmergencyStops
  <2>2. piped' \subseteq order'
    BY <2>1, RebuiltIsOrdered DEF EngineBound
  <2>3. shed' \in [fired : BOOLEAN, left : SUBSET (Names \X Numbers)]
    BY <2>1 DEF EngineBound
  <2> QED BY <2>1, <2>2, <2>3 DEF EngineBound
<1> QED
  BY <1>1, <1>2, <1>3, <1>4, <1>5, <1>6, <1>7, <1>8, <1>9, <1>10, Zenon DEF ManagerStep

LEMMA BoundStarts == Init => EngineBound
<1> SUFFICES ASSUME Init PROVE EngineBound
  OBVIOUS
<1>1. /\ piped = Booted(Undecided, {}).piped /\ order = Booted(Undecided, {}).order
      /\ toggles = Undecided /\ shed = [fired |-> FALSE, left |-> {}]
  BY DEF Init, EngineInit
<1>2. piped \subseteq order
  BY <1>1, PipelinesAreOrdered DEF Booted
<1> QED BY <1>1, <1>2 DEF EngineBound, Undecided

LEMMA EnginesAreTyped == Spec => []EngineTypeOK
<1>1. EngineBound /\ UNCHANGED engineVars => EngineBound'
  BY DEF engineVars, EngineBound
<1>2. ManagerInv => ManagerTyped
  BY DEF ManagerInv
<1>3. EngineBound /\ ManagerInv /\ scope \subseteq Names /\ [Next]_vars => EngineBound'
  BY <1>1, <1>2, ManagerSteps, ManagerBounds
<1>4. EngineBound /\ ManagerInv => EngineTypeOK
  <2> SUFFICES ASSUME EngineBound, ManagerInv PROVE EngineTypeOK
    OBVIOUS
  <2>1. \A r \in Togglers : toggle[r].pc \in {"idle", "starting", "startingKid", "stopping", "stoppingKid"}
    BY DEF ManagerInv, ManagerTyped, Awaited
  <2> QED BY <2>1 DEF EngineBound, ManagerInv, ManagerTyped, EngineTypeOK
<1> QED
  BY <1>3, <1>4, BoundStarts, ManagerIsGood, ScopeIsNames, PTL DEF Spec

LEMMA GuardsAreTyped == Spec => []GuardTypeOK
<1>1. GuardInv => GuardTypeOK
  BY DEF GuardInv, BreakerInv, BusInv, RateInv, GuardTypeOK
<1> QED BY <1>1, GuardsAreInvariant, PTL

(* The warm pool: a socket that its transport knows closed was opened.     *)
WarmMoves ==
  \/ \E t \in Targets : \/ TakeWarm(t) \/ DialBegins(t) \/ WarmBegins(t) \/ WarmConnects(t)
                        \/ WarmFails(t)
                        \/ \E ok \in BOOLEAN : DialEnds(t, ok)
  \/ \E s : WarmReset(s)
  \/ WarmTick \/ WarmStops
  \/ UNCHANGED warmVars

LEMMA WarmMovesOnly == [Next]_vars => WarmMoves
<1>1. UNCHANGED vars => UNCHANGED warmVars
  BY DEF vars
<1>2. ASSUME NEW part, part # "warm", In(part)
      PROVE  UNCHANGED warmVars
  BY <1>2 DEF In
<1>3. Next => WarmMoves
  BY <1>2, Zenon DEF Next, WarmMoves
<1> QED
  BY <1>1, <1>3 DEF WarmMoves

LEMMA WarmTypesKeep ==
  ASSUME WarmTypeOK, WarmInv, WarmMoves
  PROVE  WarmTypeOK'
<1>1. Pooled \subseteq 1..MaxSockets
  <2>1. Pooled \subseteq 1..opened /\ opened \in Nat /\ opened <= MaxSockets
    BY WarmAssumption DEF WarmInv, WarmTypeOK
  <2> QED BY <2>1, WarmAssumption
<1>2. ASSUME NEW t \in Targets, TakeWarm(t) \/ DialBegins(t) PROVE WarmTypeOK'
  <2>1. UNCHANGED <<opened, dials, warming, throttled, gone>>
    BY <1>2 DEF TakeWarm, DialBegins
  <2> QED BY <2>1 DEF WarmTypeOK
<1>3. ASSUME NEW t \in Targets, WarmBegins(t) \/ WarmFails(t) PROVE WarmTypeOK'
  <2>1. /\ UNCHANGED <<opened, dials, throttled, gone>>
        /\ \E w \in {"none", "started", "dialing"} : warming' = [warming EXCEPT ![t] = w]
    BY <1>3 DEF WarmBegins, WarmFails
  <2> QED BY <2>1 DEF WarmTypeOK
<1>4. ASSUME NEW t \in Targets, WarmConnects(t) PROVE WarmTypeOK'
  <2>1. /\ UNCHANGED <<dials, throttled, gone>>
        /\ warming' = [warming EXCEPT ![t] = "none"] /\ opened < MaxSockets /\ opened' = opened + 1
    BY <1>4 DEF WarmConnects
  <2>2. opened' \in 0..MaxSockets
    BY <2>1, WarmAssumption DEF WarmTypeOK
  <2>3. warming' \in [Targets -> {"none", "started", "dialing"}]
    BY <2>1 DEF WarmTypeOK
  <2> QED BY <2>1, <2>2, <2>3 DEF WarmTypeOK
<1>5. ASSUME NEW t \in Targets, NEW ok \in BOOLEAN, DialEnds(t, ok) PROVE WarmTypeOK'
  <2>1. UNCHANGED <<opened, gone>>
    BY <1>5 DEF DialEnds
  <2>2. \/ UNCHANGED dials
        \/ dials' = [dials EXCEPT ![t] = IF dials[t] < 2 THEN dials[t] + 1 ELSE 2]
    BY <1>5, Zenon DEF DialEnds
  <2>3. dials' \in [Targets -> 0..2]
    BY <2>2 DEF WarmTypeOK
  <2>4. \/ UNCHANGED <<throttled, warming>>
        \/ /\ throttled' = [throttled EXCEPT ![t] = Throttle]
           /\ warming' = [warming EXCEPT ![t] = "started"]
    BY <1>5, Zenon DEF DialEnds
  <2>5. /\ warming' \in [Targets -> {"none", "started", "dialing"}]
        /\ throttled' \in [Targets -> 0..Throttle]
    BY <2>4, WarmAssumption DEF WarmTypeOK
  <2> QED BY <2>1, <2>3, <2>5 DEF WarmTypeOK
<1>6. ASSUME NEW s, WarmReset(s) PROVE WarmTypeOK'
  BY <1>6, <1>1 DEF WarmReset, WarmTypeOK
<1>7. ASSUME WarmTick PROVE WarmTypeOK'
  <2>1. /\ UNCHANGED <<opened, dials, warming, gone>>
        /\ throttled' = [t \in Targets |-> IF throttled[t] > 0 THEN throttled[t] - 1 ELSE 0]
    BY <1>7 DEF WarmTick
  <2>2. throttled' \in [Targets -> 0..Throttle]
    BY <2>1, WarmAssumption DEF WarmTypeOK
  <2> QED BY <2>1, <2>2 DEF WarmTypeOK
<1>8. ASSUME WarmStops PROVE WarmTypeOK'
  BY <1>8 DEF WarmStops, WarmTypeOK
<1>9. ASSUME UNCHANGED warmVars PROVE WarmTypeOK'
  BY <1>9 DEF warmVars, WarmTypeOK
<1> QED
  BY <1>2, <1>3, <1>4, <1>5, <1>6, <1>7, <1>8, <1>9, Zenon DEF WarmMoves

LEMMA WarmIsTyped == Spec => []WarmTypeOK
<1>1. Init => WarmTypeOK
  BY WarmAssumption DEF Init, WarmInit, WarmTypeOK
<1>2. WarmInv /\ [Next]_vars => WarmInv'
  BY WarmSteps, WarmKeeps
<1>3. WarmTypeOK /\ WarmInv /\ [Next]_vars => WarmTypeOK'
  BY WarmMovesOnly, WarmTypesKeep
<1> QED
  BY <1>1, <1>2, <1>3, WarmStarts, PTL DEF Spec

(* The store: what was flushed, and so what a boot loads, is of decisions  *)
(* that were made.                                                         *)
Edited == [Payloads -> -1..MaxEdits]
StateBound == EngineStateTypeOK /\ \A f \in flushed : f.snap \in Edited

LEMMA StoreBounds ==
  ASSUME StateInv, StateBound, StoreStep
  PROVE  StateBound'
<1>1. /\ data \in Edited /\ dirty \in BOOLEAN /\ edits \in 0..MaxEdits
      /\ \A f \in flushed : f.snap \in Edited
      /\ file \in flushed /\ MaxEdits \in Nat
  BY StateAssumption DEF StateInv, StateBound, EngineStateTypeOK, Edited
<1>2. UNCHANGED <<clock, last>> /\ (run' = run \/ run' = "none")
  BY DEF StoreStep, GetPayload, SetPayload, MutatePayload, FlushState, StateRestart, backupVars
<1>3. /\ data' \in Edited /\ dirty' \in BOOLEAN /\ edits' \in 0..MaxEdits
      /\ \A f \in flushed' : f.snap \in Edited
  <2>1. CASE \E e \in Payloads : GetPayload(e) \/ SetPayload(e) \/ MutatePayload(e)
    <3>1. PICK e \in Payloads : GetPayload(e) \/ SetPayload(e) \/ MutatePayload(e)
      BY <2>1
    <3>0. /\ edits' = edits \/ (edits < MaxEdits /\ edits' = edits + 1)
          /\ flushed' = flushed /\ (dirty' = dirty \/ dirty' = TRUE)
      BY <3>1, Zenon DEF GetPayload, SetPayload, MutatePayload
    <3>4. edits' \in 0..MaxEdits
      BY <1>1, <3>0
    <3>2. edits' \in 0..MaxEdits /\ flushed' = flushed /\ dirty' \in BOOLEAN
      BY <1>1, <3>0, <3>4, Zenon
    <3>3. edits' \in -1..MaxEdits /\ 0 \in -1..MaxEdits
      BY <1>1, <3>2
    <3>5. data' \in Edited
      BY <1>1, <3>1, <3>3 DEF GetPayload, SetPayload, MutatePayload, Edited
    <3> QED BY <1>1, <3>2, <3>5
  <2>2. CASE \E ok \in BOOLEAN : FlushState(ok)
    <3>1. /\ data' = data /\ edits' = edits /\ dirty' = FALSE
          /\ flushed' = flushed \cup {Whole(data)}
      BY <2>2 DEF FlushState
    <3>2. Whole(data).snap = data
      BY DEF Whole
    <3> QED BY <1>1, <3>1, <3>2
  <2>3. CASE StateRestart
    <3>1. data' = file.snap /\ edits' = edits /\ flushed' = flushed /\ dirty' = FALSE
      BY <2>3 DEF StateRestart
    <3> QED BY <1>1, <3>1
  <2> QED BY <2>1, <2>2, <2>3 DEF StoreStep
<1> QED
  BY <1>2, <1>3 DEF StateBound, EngineStateTypeOK, Edited

LEMMA BackupBounds ==
  ASSUME StateInv, StateBound, BackupStep
  PROVE  StateBound'
<1>1. UNCHANGED <<data, dirty, edits, flushed>>
  BY DEF BackupStep, BackupBegins, BackupCopies, BackupEnds, ClockTick, storeVars
<1>2. /\ clock \in 1..MaxSeconds /\ last \in 0..clock /\ MaxSeconds \in Nat
      /\ run \in {"none", "copying", "manifest"}
  BY StateAssumption DEF StateBound, EngineStateTypeOK
<1>3. /\ clock' \in 1..MaxSeconds /\ last' \in 0..clock'
      /\ run' \in {"none", "copying", "manifest"}
  <2>1. CASE BackupBegins
    BY <1>2, <2>1 DEF BackupBegins
  <2>2. CASE \E ok \in BOOLEAN : BackupCopies(ok)
    BY <1>2, <2>2 DEF BackupCopies
  <2>3. CASE BackupEnds
    <3>1. clock' = clock /\ last' = Last(backups).at /\ run = "manifest" /\ run' = "none"
      BY <2>3 DEF BackupEnds
    <3>2. backups \in Seq(Copied) /\ backups # <<>>
      BY <3>1 DEF StateInv
    <3>3. Len(backups) \in DOMAIN backups /\ Last(backups) = backups[Len(backups)]
      BY <3>2 DEF Last
    <3>4. 0 < Last(backups).at /\ Last(backups).at <= clock
      BY <3>3 DEF StateInv
    <3>5. Last(backups) \in Copied
      BY <3>2, <3>3
    <3>6. Last(backups).at \in Nat
      BY <3>5 DEF Copied
    <3> QED BY <1>2, <3>1, <3>4, <3>6
  <2>4. CASE ClockTick
    BY <1>2, <2>4 DEF ClockTick
  <2> QED BY <2>1, <2>2, <2>3, <2>4 DEF BackupStep
<1> QED
  BY <1>1, <1>3 DEF StateBound, EngineStateTypeOK, Edited

LEMMA StateIsTyped == Spec => []EngineStateTypeOK
<1>1. Init => StateBound
  <2> SUFFICES ASSUME EngineStateInit PROVE StateBound
    BY DEF Init
  <2>1. Empty \in Edited /\ NoFile.snap = Empty
    BY StateAssumption DEF Empty, Edited, NoFile
  <2>2. /\ data = Empty /\ dirty = FALSE /\ edits = 0 /\ flushed = {NoFile}
        /\ clock = 1 /\ last = 0 /\ run = "none"
    BY DEF EngineStateInit
  <2>3. data \in Edited /\ \A f \in flushed : f.snap \in Edited
    BY <2>1, <2>2
  <2>4. edits \in 0..MaxEdits /\ clock \in 1..MaxSeconds /\ last \in 0..clock
    BY <2>2, StateAssumption
  <2> QED BY <2>2, <2>3, <2>4 DEF StateBound, EngineStateTypeOK, Edited
<1>2. StateBound /\ UNCHANGED engineStateVars => StateBound'
  BY DEF engineStateVars, StateBound, EngineStateTypeOK
<1>3. StateBound /\ StateInv /\ [Next]_vars => StateBound'
  BY <1>2, StateSteps, StoreBounds, BackupBounds
<1>4. StateBound => EngineStateTypeOK
  BY DEF StateBound
<1> QED
  BY <1>1, <1>3, <1>4, StateStarts, StateKeeps, PTL DEF Spec

(* Genetic and Mesh: a table has no more genomes than were seeded, and they*)
(* are numbered within the bound, on disk and in what is open; so a commit *)
(* of either engine, which mixes the two, leaves it so.                    *)
TableOK(t) ==
  /\ IsFiniteSet(t.genomes) /\ Cardinality(t.genomes) <= PopulationSize
  /\ \A g \in t.genomes : g.id <= MaxGenomes
  /\ t.rows <= MaxRows

LearningBound ==
  /\ Len(population) <= PopulationSize /\ counter <= MaxGenomes
  /\ TableOK(disk) /\ TableOK(work)

LEMMA CommitBounds ==
  ASSUME NEW e, NEW w \in Tables, disk \in Tables, TableOK(disk), TableOK(w)
  PROVE  TableOK(Committed(e, w))
BY DEF Committed, TableOK, Tables

(* A list with distinct numbers within the bounds makes a table that is.   *)
LEMMA ListBounds ==
  ASSUME NEW p \in Seq(Genomes), Distinct(p), Len(p) <= PopulationSize,
         \A i \in DOMAIN p : p[i].id <= MaxGenomes,
         NEW t \in Tables, t.rows <= MaxRows
  PROVE  TableOK([t EXCEPT !.genomes = Range(p)])
<1>1. IsFiniteSet(Range(p)) /\ Cardinality(Range(p)) = Len(p)
  BY PopulationIs
<1>2. \A g \in Range(p) : g.id <= MaxGenomes
  BY DEF Range
<1> QED BY <1>1, <1>2 DEF TableOK, Tables

LEMMA EvolveBounds ==
  ASSUME LearningInv, LearningBound, Evolve \/ EvolveFailsAtCommit
  PROVE  LearningBound'
<1> DEFINE bred == Survivors(population) \o Children
           G == (work.genomes \ Doomed(population)) \cup Range(Children)
           w == [work EXCEPT !.genomes = G]
<1>1. /\ ~degraded["genetic"] /\ Len(population) >= 2 * ReplaceCount
      /\ counter + ReplaceCount <= MaxGenomes
      /\ work' = w /\ population' = bred /\ counter' = counter + ReplaceCount
      /\ disk' = Committed("genetic", w) \/ disk' = disk
  BY DEF Evolve, EvolveFailsAtCommit
<1>2. /\ counter \in Nat /\ disk \in Tables /\ work \in Tables
      /\ work.genomes = Range(population) /\ TableOK(disk) /\ work.rows <= MaxRows
      /\ Len(population) <= PopulationSize
  BY <1>1 DEF LearningInv, LearningBound, TableOK
<1>3. /\ bred \in Seq(Genomes) /\ Len(bred) = Len(population) /\ Distinct(bred)
      /\ \A i \in DOMAIN bred : bred[i].id <= counter + ReplaceCount
      /\ Range(bred) = G
  BY <1>1, <1>2, BredIs
<1> HIDE DEF bred, G
<1>4. \A i \in DOMAIN bred : bred[i] \in Genomes
  BY <1>3
<1>5. \A i \in DOMAIN bred : bred[i].id \in Nat
  BY <1>4 DEF Genomes
<1>6. \A i \in DOMAIN bred : bred[i].id <= MaxGenomes
  BY <1>1, <1>2, <1>3, <1>5, LearningAssumption
<1>7. TableOK(w)
  BY <1>2, <1>3, <1>6, ListBounds
<1>8. G \in SUBSET Genomes
  BY <1>3, PopulationIs
<1>9. w \in Tables
  BY <1>2, <1>8 DEF Tables
<1> HIDE DEF w
<1>10. TableOK(disk')
  BY <1>1, <1>2, <1>7, <1>9, CommitBounds
<1>11. TableOK(work') /\ Len(population') <= PopulationSize /\ counter' <= MaxGenomes
  BY <1>1, <1>2, <1>3, <1>7
<1>12. TableOK(work)' /\ TableOK(disk)'
  BY <1>10, <1>11 DEF TableOK
<1> QED BY <1>11, <1>12 DEF LearningBound

LEMMA HaltBounds ==
  ASSUME LearningInv, LearningBound, NEW e,
         EvolveFailsAtDeletes \/ (e \in Engines /\ VolumeReached(e))
  PROVE  LearningBound'
<1>1. disk' = disk /\ population' = population
  BY DEF EvolveFailsAtDeletes, VolumeReached, Deleted
<1>2. counter' <= MaxGenomes
  BY DEF EvolveFailsAtDeletes, VolumeReached, LearningBound
<1>3. work \in Tables /\ TableOK(work) /\ TableOK(disk) /\ Len(population) <= PopulationSize
  BY DEF LearningInv, LearningBound
<1>4. TableOK(work')
  <2>1. CASE EvolveFailsAtDeletes
    <3>1. PICK gs : work' = [work EXCEPT !.genomes = @ \ gs]
      BY <2>1 DEF EvolveFailsAtDeletes, Deleted
    <3>2. work'.genomes = work.genomes \ gs /\ work'.rows = work.rows
      BY <1>3, <3>1 DEF Tables
    <3>3. work'.genomes \subseteq work.genomes
      BY <3>2
    <3>4. /\ IsFiniteSet(work'.genomes) /\ Cardinality(work'.genomes) <= Cardinality(work.genomes)
          /\ Cardinality(work'.genomes) \in Nat /\ Cardinality(work.genomes) \in Nat
      BY <1>3, <3>3, FS_Subset, FS_CardinalityType DEF TableOK
    <3>5. Cardinality(work'.genomes) <= PopulationSize
      BY <1>3, <3>4, LearningAssumption DEF TableOK
    <3> QED BY <1>3, <3>2, <3>3, <3>4, <3>5 DEF TableOK
  <2>2. CASE e \in Engines /\ VolumeReached(e)
    <3>1. work' = work
      BY <2>2 DEF VolumeReached
    <3> QED BY <1>3, <3>1
  <2> QED BY <2>1, <2>2
<1>5. TableOK(work)' /\ TableOK(disk)'
  BY <1>1, <1>3, <1>4 DEF TableOK
<1> QED BY <1>1, <1>2, <1>3, <1>5 DEF LearningBound

LEMMA FitnessBounds ==
  ASSUME LearningInv, LearningBound, NEW is, NEW fit \in 0..TopFitness, NEW ok \in BOOLEAN,
         FitnessUpdated(is, fit, ok)
  PROVE  LearningBound'
<1>1. LearningInv'
  BY FitnessKeeps
<1>2. /\ ~degraded["genetic"] /\ population' = Refit(is, fit) /\ work' = Stored(is, fit)
      /\ disk' = Committed("genetic", work') \/ disk' = disk
      /\ counter' = counter /\ degraded' = degraded
  BY DEF FitnessUpdated
<1>3. /\ population' \in Seq(Genomes) /\ Distinct(population') /\ counter \in Nat
      /\ \A i \in DOMAIN population' : population'[i].id <= counter
      /\ work' \in Tables /\ work'.genomes = Range(population')
  BY <1>1, <1>2 DEF LearningInv, Distinct
<1>4. /\ counter <= MaxGenomes /\ Len(population) <= PopulationSize /\ TableOK(disk)
      /\ disk \in Tables /\ work \in Tables /\ work.rows <= MaxRows
      /\ population \in Seq(Genomes)
  BY DEF LearningInv, LearningBound, TableOK
<1>5. Len(population') = Len(population)
  <2>1. DOMAIN population' = DOMAIN population
    BY <1>2 DEF Refit
  <2> QED BY <1>3, <1>4, <2>1
<1>6. work'.rows <= MaxRows
  BY <1>2, <1>4 DEF Stored, Tables
<1>7. \A i \in DOMAIN population' : population'[i].id <= MaxGenomes
  <2>1. \A i \in DOMAIN population' : population'[i] \in Genomes
    BY <1>3
  <2>2. \A i \in DOMAIN population' : population'[i].id \in Nat
    BY <2>1 DEF Genomes
  <2> QED BY <1>3, <1>4, <2>2, LearningAssumption
<1>8. TableOK(work')
  <2>1. PICK q : q = population'
    OBVIOUS
  <2>2. PICK t : t = work'
    OBVIOUS
  <2>3. TableOK([t EXCEPT !.genomes = Range(q)])
    BY <1>3, <1>4, <1>5, <1>6, <1>7, <2>1, <2>2, ListBounds
  <2>4. [t EXCEPT !.genomes = Range(q)] = t
    BY <1>3, <2>1, <2>2 DEF Tables
  <2> QED BY <2>2, <2>3, <2>4
<1>9. TableOK(disk')
  BY <1>2, <1>3, <1>4, <1>8, CommitBounds
<1>10. TableOK(work)' /\ TableOK(disk)'
  BY <1>8, <1>9 DEF TableOK
<1> QED BY <1>2, <1>4, <1>5, <1>10 DEF LearningBound

LEMMA MeshBounds ==
  ASSUME LearningInv, LearningBound, NEW pruned, NEW ok \in BOOLEAN,
         ReportStored(ok) \/ Aggregate(pruned, ok)
  PROVE  LearningBound'
<1>1. work \in Tables /\ disk \in Tables /\ TableOK(work) /\ TableOK(disk)
  BY DEF LearningInv, LearningBound
<1>2. UNCHANGED <<population, counter>> /\ (disk' = Committed("mesh", work') \/ disk' = disk)
  BY DEF ReportStored, Aggregate
<1>3. work' \in Tables /\ TableOK(work')
  <2>1. work.rows \in Nat /\ work.rows <= MaxRows /\ MaxRows \in Nat
    BY <1>1, LearningAssumption DEF Tables, TableOK
  <2>2. CASE ReportStored(ok)
    <3>1. work.rows < MaxRows /\ work' = [work EXCEPT !.rows = @ + 1]
      BY <2>2 DEF ReportStored
    <3>2. work.rows + 1 \in Nat /\ work.rows + 1 <= MaxRows
      BY <2>1, <3>1
    <3> QED BY <1>1, <3>1, <3>2 DEF TableOK, Tables
  <2>3. CASE Aggregate(pruned, ok)
    <3>1. pruned \in 0..work.rows /\ work' = [work EXCEPT !.policies = work.rows, !.rows = @ - pruned]
      BY <2>3 DEF Aggregate
    <3>2. PICK k \in Nat : k = work.rows - pruned /\ k <= MaxRows
      BY <2>1, <3>1
    <3>3. work' = [work EXCEPT !.policies = work.rows, !.rows = k]
      BY <3>1, <3>2
    <3> QED BY <1>1, <2>1, <3>2, <3>3 DEF TableOK, Tables
  <2> QED BY <2>2, <2>3
<1>4. TableOK(disk')
  BY <1>1, <1>2, <1>3, CommitBounds
<1>5. TableOK(work)' /\ TableOK(disk)'
  BY <1>3, <1>4 DEF TableOK
<1> QED BY <1>2, <1>5 DEF LearningBound

LEMMA OpenFailsBounds ==
  ASSUME LearningInv, LearningBound, OpenFails
  PROVE  LearningBound'
<1>1. work' = disk /\ population' = <<>> /\ counter' = 0 /\ disk' = disk
  BY DEF OpenFails
<1>2. TableOK(work)' /\ TableOK(disk)'
  BY <1>1 DEF TableOK, LearningBound
<1>3. Len(<<>>) = 0
  BY EmptySeq
<1> QED BY <1>1, <1>2, <1>3, LearningAssumption DEF LearningBound

LEMMA RestartBounds ==
  ASSUME LearningInv, LearningBound, Restart
  PROVE  LearningBound'
<1> DEFINE gs == disk.genomes
           p == IF gs = {} THEN Seeded ELSE InOrder(gs, ByNumber(gs))
<1>1. /\ population' = p /\ disk' = [disk EXCEPT !.genomes = Range(p)] /\ work' = disk'
      /\ counter' = Last(p).id
  BY DEF Restart
<1>2. /\ disk \in Tables /\ IsFiniteSet(gs) /\ Numbered(gs) /\ gs \in SUBSET Genomes
      /\ Cardinality(gs) <= PopulationSize /\ disk.rows <= MaxRows
      /\ \A g \in gs : g.id <= MaxGenomes
  BY DEF LearningInv, LearningBound, TableOK, Tables
<1>3. /\ p \in Seq(Genomes) /\ Distinct(p) /\ 0 < Len(p) /\ Len(p) <= PopulationSize
      /\ \A g \in Range(p) : g.id <= MaxGenomes
  <2>1. CASE gs = {}
    <3>1. p = Seeded
      BY <2>1
    <3> HIDE DEF p
    <3>2. \A i \in 1..PopulationSize : Genome(i, 0, 0).id <= MaxGenomes
      BY LearningAssumption DEF Genome
    <3>3. \A g \in Range(Seeded) : g.id <= MaxGenomes
      BY <3>2 DEF Seeded, Range
    <3> QED BY <3>1, <3>3, SeededIs, LearningAssumption
  <2>2. CASE gs # {}
    <3>1. p = InOrder(gs, ByNumber(gs))
      BY <2>2
    <3> HIDE DEF p, gs
    <3> QED BY <1>2, <2>2, <3>1, LoadedIs
  <2> QED BY <2>1, <2>2
<1> HIDE DEF p, gs
<1>4. \A i \in DOMAIN p : p[i] \in Range(p)
  BY DEF Range
<1>5. Len(p) \in DOMAIN p /\ Last(p) = p[Len(p)]
  BY <1>3 DEF Last
<1>6. counter' <= MaxGenomes
  BY <1>1, <1>3, <1>4, <1>5
<1>7. TableOK(disk')
  BY <1>1, <1>2, <1>3, <1>4, ListBounds
<1>8. TableOK(work)' /\ TableOK(disk)'
  BY <1>1, <1>7 DEF TableOK
<1> QED BY <1>1, <1>3, <1>6, <1>8 DEF LearningBound

LEMMA LearningIsTyped == Spec => []LearningTypeOK
<1>1. Init => LearningBound
  <2> SUFFICES ASSUME LearningInit PROVE LearningBound
    BY DEF Init
  <2>1. LearningAssumption /\ PopulationSize <= MaxGenomes /\ PopulationSize \in Nat /\ 0 <= MaxRows
    BY LearningAssumption
  <2>2. /\ population = Seeded /\ counter = PopulationSize /\ work = disk
        /\ disk = [genomes |-> Range(Seeded), rows |-> 0, policies |-> 0]
    BY DEF LearningInit
  <2>3. /\ IsFiniteSet(Range(Seeded)) /\ Cardinality(Range(Seeded)) = PopulationSize
        /\ Len(Seeded) = PopulationSize
    BY SeededIs, PopulationIs
  <2>4. \A i \in 1..PopulationSize : Genome(i, 0, 0).id <= MaxGenomes
    BY <2>1 DEF Genome
  <2>5. \A g \in Range(Seeded) : g.id <= MaxGenomes
    BY <2>4 DEF Seeded, Range
  <2>6. TableOK(disk)
    BY <2>1, <2>2, <2>3, <2>5 DEF TableOK
  <2> QED BY <2>1, <2>2, <2>3, <2>6 DEF LearningBound
<1>2. LearningBound /\ UNCHANGED learningVars => LearningBound'
  BY DEF learningVars, LearningBound, TableOK
<1>3. LearningInv /\ LearningBound /\ LearningStep => LearningBound'
  BY EvolveBounds, HaltBounds, FitnessBounds, MeshBounds, OpenFailsBounds, RestartBounds, Zenon
     DEF LearningStep
<1>4. LearningInv /\ LearningBound /\ [Next]_vars => LearningBound'
  BY <1>2, <1>3, LearningSteps
<1>5. LearningInv /\ LearningBound => LearningTypeOK
  <2> SUFFICES ASSUME LearningInv, LearningBound PROVE LearningTypeOK
    OBVIOUS
  <2>1. work.rows \in Nat /\ disk.rows \in Nat
    BY DEF LearningInv, Tables
  <2>2. counter \in 0..MaxGenomes /\ work.rows \in 0..MaxRows /\ disk.rows \in 0..MaxRows
    BY <2>1, LearningAssumption DEF LearningInv, LearningBound, TableOK
  <2> QED BY <2>2 DEF LearningInv, LearningBound, LearningTypeOK
<1> QED
  BY <1>1, <1>4, <1>5, LearningStarts, LearningKeeps, PTL DEF Spec

(* Records come out in the order in which they went in, each as what it    *)
(* was, if it is read in the window it was encoded in or in the next,      *)
(* whatever the pieces it came in and whatever the seeds; except in a      *)
(* window whose control frames are alike although its padding is not.      *)
THEOREM RecordsAreDecoded == Spec => []RecordsDecode
<1>1. ChaosInv => RecordsDecode
  BY DEF ChaosInv
<1> QED
  BY <1>1, CodecsStart, ChaosKeeps, PTL DEF Spec

(* Whatever is lost of a group, however long its blocks and however many   *)
(* its parities: it is recovered to what was sent when each class with a   *)
(* loss lost one block and kept its parity, and not otherwise.             *)
THEOREM GroupsAreRecovered == Spec => []FecHolds
BY CodecsStart, FecKeeps, FecIsKept, PTL DEF Spec

(* Whatever pieces the application sends a response in, and wherever it    *)
(* fails, a response that fits in the buffer reaches the server as one     *)
(* start and then its body, every chunk once and in order, with a length   *)
(* that is its own.                                                        *)
THEOREM ResponsesAreKept == Spec => []ResponseKept
BY CodecsStart, ResponseKeeps, ResponseIsKept, PTL DEF Spec

(* What comes back out of the engines' transformations is what went in, and*)
(* every variable of every part has its type, within the bounds.           *)
THEOREM CodecsAreKept == Spec => []CodecsHold
<1>1. Spec => []ChaosTypeOK
  BY CodecsStart, ChaosKeeps, ChaosIsTyped, PTL DEF Spec
<1>2. Spec => []ResponseTypeOK
  BY CodecsStart, ResponseKeeps, ResponseIsTyped, PTL DEF Spec
<1>3. /\ EngineTypeOK /\ GuardTypeOK /\ ChaosTypeOK /\ LearningTypeOK /\ WarmTypeOK
      /\ EngineStateTypeOK /\ ResponseTypeOK /\ RecordsDecode /\ FecHolds /\ ResponseKept
      => CodecsHold
  BY DEF CodecsHold, EnginesTypeOK
<1> QED
  BY <1>1, <1>2, <1>3, EnginesAreTyped, GuardsAreTyped, LearningIsTyped, WarmIsTyped, StateIsTyped,
     RecordsAreDecoded, GroupsAreRecovered, ResponsesAreKept, PTL
=============================================================================
