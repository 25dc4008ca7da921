---------------------------- MODULE EngineManager ----------------------------
(***************************************************************************)
(* The engines of one host (engines/manager.py) and the merged module that *)
(* runs a group of them inside itself (engines/consolidated/facade.py):    *)
(* what the boot starts, what the operator's toggles start and stop while  *)
(* starts and stops are awaited, what the memory guard sheds, and what is  *)
(* remembered for the next boot.                                           *)
(*                                                                         *)
(* An engine object is <<name, number>>: an engine that is enabled anew is *)
(* a new object.  A number is used again when its object is garbage.       *)
(*                                                                         *)
(* Left out: what engines compute; the order inside a pipeline, and kinds  *)
(* of pipelines; one group stands for the four.  A stop that raises counts *)
(* as done, as it does in the code.                                        *)
(***************************************************************************)
EXTENDS Naturals

CONSTANTS
  Plain,        \* engines outside the group
  Inside,       \* the engines of the group
  Module,       \* the merged module
  Togglers,     \* requests of the operator at a time
  DefaultOn,    \* engines whose flag is on
  ExplicitOff,  \* engines switched off in the environment
  CoreOnly,     \* engines that do not run in this host
  MergedOn,     \* the flag of the merged module
  MaxObjects    \* bound: objects of one engine at a time

Names   == Plain \cup Inside \cup {Module}
Numbers == 1..MaxObjects

ASSUME EngineAssumption ==
  /\ Module \notin Plain \cup Inside /\ Plain \cap Inside = {}
  /\ MaxObjects \in Nat \ {0} /\ MergedOn \in BOOLEAN
  /\ Module \notin CoreOnly

VARIABLES
  running,   \* the engine objects that are active
  engines,   \* engines[n]: the object registered as n; 0 when none is or it is dead
  children,  \* children[m]: the objects inside module object m
  toggles,   \* the operator's recorded decisions, memory and file
  order,     \* active_order, as a set
  piped,     \* the engines in the pipelines
  toggle,    \* what each request is at
  shed       \* the emergency stop: the objects it has yet to stop

engineVars == <<running, engines, children, toggles, order, piped, toggle, shed>>

NoKids == [c \in Inside |-> 0]
AtRest == [pc |-> "idle", name |-> Module, num |-> 0, left |-> {}]

Object(n)    == <<n, engines[n]>>
Active(n)    == engines[n] # 0 /\ Object(n) \in running
Kids(m)      == {<<c, children[m][c]>> : c \in {d \in Inside : children[m][d] # 0}}
Pipelines(es, on, ord) == {n \in ord : es[n] # 0 /\ <<n, es[n]>> \in on}

(* The numbers of n that nothing refers to.                                *)
Free(n) ==
  {k \in Numbers :
     /\ <<n, k>> \notin running /\ engines[n] # k
     /\ \A m \in Numbers : <<n, k>> \notin Kids(m)
     /\ \A r \in Togglers : toggle[r].pc = "idle" \/ <<toggle[r].name, toggle[r].num>> # <<n, k>>}
New(n) == CHOOSE k \in Free(n) : \A j \in Free(n) : k <= j

-----------------------------------------------------------------------------
(* A boot.  broken is what fails to start this time.                       *)
EffectiveOrder == Plain \cup (IF MergedOn THEN {Module} ELSE Inside)

(* _activate's refusals: another host, a kill switch, off by default.      *)
EnvDisabled(n, force) ==
  \/ n \in ExplicitOff
  \/ ~force /\ (IF n = Module THEN ~MergedOn ELSE n \notin DefaultOn)

(* Mutant of Activates: force overrides the kill switch too.               *)
ActivatesForced(n, force, broken) ==
  n \notin CoreOnly /\ (force \/ ~EnvDisabled(n, force)) /\ n \notin broken

Activates(n, force, broken) ==
  n \notin CoreOnly /\ ~EnvDisabled(n, force) /\ n \notin broken

(* Children are built by host and kill switch alone; a broken one stays    *)
(* inside, inactive.                                                       *)
Instantiated == Inside \ (CoreOnly \cup ExplicitOff)

(* Mutant of Started: the fallback starts what was disabled, after the pass*)
(* that re-applies the disables.                                           *)
StartedForcing(decided, broken) ==
  LET alone == {n \in EffectiveOrder : Activates(n, decided[n] = "on", broken) /\ decided[n] # "off"}
  IN alone \cup (IF MergedOn /\ Module \notin alone
                 THEN {c \in Inside : Activates(c, TRUE, broken)}
                 ELSE {})

(* What a boot leaves running under its own name: the order with the       *)
(* recorded enables forced, the group one by one when the module failed,   *)
(* less the recorded disables.                                             *)
Started(decided, broken) ==
  LET alone    == {n \in EffectiveOrder : Activates(n, decided[n] = "on", broken)}
      fallback == IF MergedOn /\ Module \notin alone
                  THEN {c \in Inside : Activates(c, TRUE, broken)}
                  ELSE {}
  IN {n \in alone \cup fallback : decided[n] # "off"}

(* The module's children that a boot leaves active: they are registered    *)
(* under their names, so that the recorded disables reach them.            *)
StartedInside(decided, broken) ==
  IF MergedOn /\ Module \in Started(decided, broken)
  THEN {c \in Instantiated \ broken : decided[c] # "off"}
  ELSE {}

(* A module that fails gives its place in the order to its children.       *)
FellBack(decided, broken) == MergedOn /\ ~Activates(Module, decided[Module] = "on", broken)

BootOrder(decided, broken) ==
  IF FellBack(decided, broken) THEN Plain \cup Inside ELSE EffectiveOrder

(* Every engine that was tried is registered, and so are the children.     *)
BootEngines(decided, broken) ==
  LET tried == BootOrder(decided, broken) \cup (IF MergedOn THEN {Module} ELSE {})
               \cup (IF MergedOn /\ ~FellBack(decided, broken) THEN Instantiated ELSE {})
  IN [n \in Names |-> IF n \in tried THEN 1 ELSE 0]

BootRunning(decided, broken) ==
  {<<n, 1>> : n \in Started(decided, broken) \cup StartedInside(decided, broken)}

BootChildren(decided, broken) ==
  [m \in Numbers |->
     [c \in Inside |->
        IF m = 1 /\ MergedOn /\ Module \in Started(decided, broken) /\ c \in Instantiated
        THEN 1 ELSE 0]]

Booted(decided, broken) ==
  [running  |-> BootRunning(decided, broken),
   engines  |-> BootEngines(decided, broken),
   children |-> BootChildren(decided, broken),
   order    |-> BootOrder(decided, broken),
   piped    |-> Pipelines(BootEngines(decided, broken), BootRunning(decided, broken),
                          BootOrder(decided, broken))]

Undecided == [n \in Names |-> "none"]

(* The first boot, when nothing is recorded and nothing breaks.            *)
EngineInit ==
  LET b == Booted(Undecided, {})
  IN /\ running = b.running /\ engines = b.engines /\ children = b.children
     /\ order = b.order /\ piped = b.piped /\ toggles = Undecided
     /\ toggle = [r \in Togglers |-> AtRest]
     /\ shed = [fired |-> FALSE, left |-> {}]

(* A stop or a kill of the host and its next boot.                         *)
Boot(broken) ==
  LET b == Booted(toggles, broken)
  IN /\ running' = b.running /\ engines' = b.engines /\ children' = b.children
     /\ order' = b.order /\ piped' = b.piped
     /\ toggle' = [r \in Togglers |-> AtRest]
     /\ shed' = [fired |-> FALSE, left |-> {}]
     /\ UNCHANGED toggles

-----------------------------------------------------------------------------
(* The registry once rs' request is over, without the objects that are dead*)
(* for good: stopped, and no child that a module or a request can start.   *)
Kept(on, kids, rs) ==
  [n \in Names |->
     IF \/ <<n, engines[n]>> \in on
        \/ n \in Inside /\ \E m \in Numbers : kids[m][n] = engines[n]
        \/ \E r \in Togglers \ rs : toggle[r].pc = "startingKid" /\ toggle[r].name = n
                                     /\ toggle[r].num = engines[n]
     THEN engines[n] ELSE 0]

(* Toggles.  A child of an active module is toggled inside it.             *)
Within(n, enabled) ==
  /\ n \in Inside /\ Active(Module)
  /\ enabled => children[engines[Module]][n] # 0

Kid(n) == <<n, children[engines[Module]][n]>>

Record(n, enabled) == toggles' = [toggles EXCEPT ![n] = IF enabled THEN "on" ELSE "off"]

(* Mutant of Rebuilt: the pipelines stay as they were.                     *)
RebuiltNever(es, on) == UNCHANGED piped

Rebuilt(es, on) == piped' = Pipelines(es, on, order)

Awaits(r, pc, n, k, left) ==
  toggle' = [toggle EXCEPT ![r] = [pc |-> pc, name |-> n, num |-> k, left |-> left]]

Done(r) == toggle' = [toggle EXCEPT ![r] = AtRest]

(* A toggle that has nothing to await.                                     *)
ToggleAtOnce(r, n, enabled) ==
  /\ toggle[r].pc = "idle"
  /\ \/ /\ Within(n, enabled)
        /\ enabled <=> Kid(n) \in running
        /\ UNCHANGED engines
     \/ /\ ~Within(n, enabled) /\ ~enabled /\ ~Active(n)
        /\ UNCHANGED engines
     \/ /\ ~Within(n, enabled) /\ enabled /\ ~Active(n)
        /\ n \in CoreOnly
        /\ engines' = [engines EXCEPT ![n] = 0]
  /\ Rebuilt(engines', running)
  /\ Record(n, enabled)
  /\ UNCHANGED <<running, children, order, toggle, shed>>

(* The kill switch wins: the object is registered, inactive, and the       *)
(* decision is not recorded.                                               *)
EnableRefused(r, n) ==
  /\ toggle[r].pc = "idle" /\ ~Within(n, TRUE) /\ ~Active(n)
  /\ n \in ExplicitOff \ CoreOnly
  /\ engines' = [engines EXCEPT ![n] = 0]
  /\ UNCHANGED <<running, children, toggles, order, piped, toggle, shed>>

EnableBegins(r, n) ==
  /\ toggle[r].pc = "idle"
  /\ \/ Within(n, TRUE) /\ Kid(n) \notin running /\ Awaits(r, "startingKid", n, Kid(n)[2], {})
     \/ /\ ~Within(n, TRUE) /\ ~Active(n) /\ Activates(n, TRUE, {}) /\ Free(n) # {}
        /\ Awaits(r, "starting", n, New(n), {})
  /\ UNCHANGED <<running, engines, children, toggles, order, piped, shed>>

(* A new module builds its children and registers those whose name is not  *)
(* taken by an active engine.                                              *)
StartSucceeds(r) ==
  LET n == toggle[r].name  k == toggle[r].num
      kids == IF n = Module THEN Instantiated ELSE {}
  IN /\ toggle[r].pc = "starting"
     /\ \A c \in kids : Free(c) # {}
     /\ \E broken \in SUBSET kids :
          /\ running' = running \cup {<<n, k>>} \cup {<<c, New(c)>> : c \in kids \ broken}
          /\ engines' = [e \in Names |->
               IF e = n THEN k
               ELSE IF e \in kids /\ ~Active(e) THEN New(e) ELSE engines[e]]
          /\ children' = IF n = Module
                         THEN [children EXCEPT ![k] = [c \in Inside |-> IF c \in kids THEN New(c) ELSE 0]]
                         ELSE children
          /\ Rebuilt(engines', running')
     /\ Record(n, TRUE)
     /\ Done(r)
     /\ UNCHANGED <<order, shed>>

(* Inside the module the decision is recorded whether the child started or *)
(* not.                                                                    *)
KidStarts(r) ==
  /\ toggle[r].pc = "startingKid"
  /\ \/ running' = running \cup {<<toggle[r].name, toggle[r].num>>}
     \/ UNCHANGED running
  /\ Rebuilt(engines, running')
  /\ Record(toggle[r].name, TRUE)
  /\ Done(r)
  /\ UNCHANGED <<engines, children, order, shed>>

(* The object that failed is registered, inactive, whatever was there.     *)
StartFails(r) ==
  /\ toggle[r].pc = "starting"
  /\ engines' = [engines EXCEPT ![toggle[r].name] = 0]
  /\ Done(r)
  /\ UNCHANGED <<running, children, toggles, order, piped, shed>>

DisableBegins(r, n) ==
  /\ toggle[r].pc = "idle"
  /\ \/ Within(n, FALSE) /\ Kid(n) \in running /\ Awaits(r, "stoppingKid", n, Kid(n)[2], {})
     \/ /\ ~Within(n, FALSE) /\ Active(n)
        /\ Awaits(r, "stopping", n, engines[n], IF n = Module THEN Inside ELSE {})
  /\ UNCHANGED <<running, engines, children, toggles, order, piped, shed>>

(* A module stops its children one by one, each awaited.                   *)
StopsKid(r, c) ==
  /\ toggle[r].pc = "stopping" /\ c \in toggle[r].left
  /\ running' = running \ {<<c, children[toggle[r].num][c]>>}
  /\ toggle' = [toggle EXCEPT ![r].left = @ \ {c}]
  /\ UNCHANGED <<engines, children, toggles, order, piped, shed>>

StopEnds(r) ==
  LET n == toggle[r].name  k == toggle[r].num
  IN /\ toggle[r].pc \in {"stopping", "stoppingKid"} /\ toggle[r].left = {}
     /\ running' = running \ {<<n, k>>}
     /\ children' = IF n = Module THEN [children EXCEPT ![k] = NoKids] ELSE children
     /\ engines' = Kept(running', children', {r})
     /\ Rebuilt(engines', running')
     /\ Record(n, FALSE)
     /\ Done(r)
     /\ UNCHANGED <<order, shed>>

-----------------------------------------------------------------------------
(* The emergency stop: a snapshot of the registered engines, those that    *)
(* are active stopped one after the other, then empty pipelines.           *)
EmergencyBegins ==
  /\ ~shed.fired
  /\ shed' = [fired |-> TRUE, left |-> {Object(n) : n \in {m \in Names : engines[m] # 0}}]
  /\ UNCHANGED <<running, engines, children, toggles, order, piped, toggle>>

EmergencyStops(o) ==
  LET kids == IF o[1] = Module /\ o \in running THEN Kids(o[2]) ELSE {}
  IN /\ o \in shed.left
     /\ running' = running \ ({o} \cup kids)
     /\ children' = IF o[1] = Module /\ o \in running
                    THEN [children EXCEPT ![o[2]] = NoKids] ELSE children
     /\ engines' = Kept(running', children', {})
     /\ shed' = [shed EXCEPT !.left = @ \ {o}]
     /\ IF shed.left = {o} THEN Rebuilt(engines', running') ELSE UNCHANGED piped
     /\ UNCHANGED <<toggles, order, toggle>>

-----------------------------------------------------------------------------
EngineTypeOK ==
  /\ running \subseteq Names \X Numbers
  /\ engines \in [Names -> 0..MaxObjects]
  /\ children \in [Numbers -> [Inside -> 0..MaxObjects]]
  /\ toggles \in [Names -> {"none", "on", "off"}]
  /\ order \subseteq Names /\ piped \subseteq order
  /\ \A r \in Togglers : toggle[r].pc \in {"idle", "starting", "startingKid", "stopping", "stoppingKid"}
  /\ shed.left \subseteq Names \X Numbers

(* "the env kill-switch always wins": an engine switched off in the        *)
(* environment, or made for another host, never runs here, neither by a    *)
(* recorded or a hot enable, nor by the fallback, nor inside a module.     *)
KillSwitchHolds == \A o \in running : o[1] \notin ExplicitOff \cup CoreOnly

(* After every decision the next boot applies all of them: what was        *)
(* disabled does not run, alone or inside the module, whatever its default *)
(* and whatever the fallback starts; an engine outside the group that was  *)
(* enabled runs, unless it breaks.                                         *)
BootAppliesDecisions ==
  [][toggles' # toggles =>
       \A broken \in SUBSET Names :
         LET up == Started(toggles', broken) \cup StartedInside(toggles', broken)
         IN /\ \A n \in up : toggles'[n] # "off"
            /\ \A n \in Plain \ (CoreOnly \cup ExplicitOff \cup broken) :
                 toggles'[n] = "on" => n \in up]_engineVars

(* "active: it is actually in the pipeline now": a registered engine that  *)
(* is active, and whose place in the order the boot kept, is processed,    *)
(* whichever of the toggles, the fallback or the module made it active.    *)
ActiveIsPiped == \A n \in order : Active(n) => n \in piped

(* "a child toggled while its merged module is active routes into the      *)
(* module (no double instantiation)": no engine of the group runs twice.   *)
NoDoubleInstantiation ==
  \A c \in Inside : \A k, j \in Numbers : {<<c, k>>, <<c, j>>} \subseteq running => k = j

(* "Remember the operator's decision so the next boot re-applies it": what *)
(* was enabled runs after a boot at which nothing breaks.                  *)
DecisionsSurvive ==
  \A n \in Names \ (CoreOnly \cup ExplicitOff) :
    toggles[n] = "on" => n \in Started(toggles, {}) \cup StartedInside(toggles, {})
=============================================================================
