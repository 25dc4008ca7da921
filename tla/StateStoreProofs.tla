--------------------------- MODULE StateStoreProofs ---------------------------
(***************************************************************************)
(* Proofs about StateStore, for any amount of traffic, of edits and of     *)
(* tasks: the state file is a DurableState, it never goes back, and the    *)
(* debounce forgets no request.                                            *)
(*                                                                         *)
(* And about its neighbours in MCCoreLiveness: the pool of Xray processes, *)
(* whose counts are those of its tunnels, and the bucket of a link, which  *)
(* passes what one filled at every tick would.                             *)
(***************************************************************************)
EXTENDS MCCoreLiveness, FiniteSetTheorems, SequenceTheorems, TLAPS

(* While a save holds the loop its snapshot is the state of the Core, and  *)
(* the state of a running Core covers its file and what it asked to save.  *)
SaverInv ==
  /\ io # "none" => phase = "up" /\ tmp = mem
  /\ phase = "up" => Covers(mem, asked)
  /\ phase = "up" /\ disk \in States => Covers(mem, disk)

IInv == TypeOK /\ SaverInv

USE StateStoreAssumption

(* Covers is an order with least element Fresh.                            *)
LEMMA CoversOrder ==
  /\ \A s \in States : Covers(s, s)
  /\ \A s, t, u \in States : Covers(s, t) /\ Covers(t, u) => Covers(s, u)
  /\ \A s \in States : Covers(s, Fresh)
<1>1. \A s \in States : s.used \in Nat /\ s.edits \in Nat
  BY DEF States
<1>2. Fresh.used = 0 /\ Fresh.edits = 0
  BY DEF Fresh
<1>3. \A s \in States : Covers(s, s)
  BY <1>1 DEF Covers
<1>4. \A s, t, u \in States : Covers(s, t) /\ Covers(t, u) => Covers(s, u)
  BY <1>1 DEF Covers
<1>5. \A s \in States : Covers(s, Fresh)
  BY <1>1, <1>2 DEF Covers
<1> QED BY <1>3, <1>4, <1>5

(* The Core starts down and without a file.                                *)
LEMMA InitInv == Init => IInv
<1> SUFFICES ASSUME Init
             PROVE  TypeOK /\ SaverInv
  BY DEF IInv
<1>1. Fresh \in States
  BY DEF Fresh, States
<1>2. TypeOK
  BY <1>1 DEF Init, TypeOK
<1>3. SaverInv
  BY DEF Init, SaverInv
<1> QED BY <1>2, <1>3

(* The state of the Core only grows while it runs.                         *)
LEMMA Grows ==
  ASSUME TypeOK, Count \/ Edit
  PROVE  mem' \in States /\ Covers(mem', mem)
<1>1. mem.used \in Nat /\ mem.edits \in Nat
  BY DEF TypeOK, States
<1>2. CASE Count
  <2>1. mem' = [mem EXCEPT !.used = @ + 1]
    BY <1>2 DEF Count
  <2> QED BY <1>1, <2>1 DEF TypeOK, States, Covers
<1>3. CASE Edit
  <2>1. mem' = [mem EXCEPT !.edits = @ + 1]
    BY <1>3 DEF Edit
  <2> QED BY <1>1, <2>1 DEF TypeOK, States, Covers
<1> QED BY <1>2, <1>3

(* Every action keeps the types and the order of memory, file and request. *)
LEMMA StepInv == IInv /\ [Next]_vars => IInv'
<1> SUFFICES ASSUME IInv, [Next]_vars
             PROVE  IInv'
  OBVIOUS
<1> USE DEF IInv
<1>0. Fresh \in States
  BY DEF Fresh, States
<1>1. CASE Count
  <2>1. mem' \in States /\ Covers(mem', mem)
    BY <1>1, Grows
  <2>2. TypeOK'
    BY <1>1, <2>1 DEF Count, TypeOK, saverVars, histVars
  <2>3. SaverInv'
    BY <1>1, <2>1, CoversOrder DEF Count, Running, SaverInv, TypeOK, saverVars, histVars
  <2> QED BY <2>2, <2>3
<1>2. CASE Edit
  <2>1. mem' \in States /\ Covers(mem', mem)
    BY <1>2, Grows
  <2>2. TypeOK'
    BY <1>2, <2>1 DEF Edit, Request, TypeOK
  <2>3. SaverInv'
    BY <1>2, <2>1, CoversOrder DEF Edit, Request, Running, SaverInv, TypeOK
  <2> QED BY <2>2, <2>3
<1>3. CASE TunnelEnds
  <2>1. TypeOK'
    BY <1>3 DEF TunnelEnds, Request, TypeOK
  <2>2. SaverInv'
    BY <1>3, CoversOrder DEF TunnelEnds, Request, Running, SaverInv, TypeOK
  <2> QED BY <2>1, <2>2
<1>4. CASE StartTask
  BY <1>4 DEF StartTask, Running, TypeOK, SaverInv, histVars
<1>5. CASE SaverWakes \/ Flush \/ Shutdown
  BY <1>5 DEF SaverWakes, Flush, Shutdown, Snapshot, Running, TypeOK, SaverInv, histVars
<1>6. CASE Replace
  <2>1. tmp = mem /\ phase = "up"
    BY <1>6 DEF Replace, SaverInv
  <2>2. TypeOK'
    BY <1>6, <2>1 DEF Replace, AfterSave, TypeOK
  <2>3. SaverInv'
    BY <1>6, <2>1, CoversOrder DEF Replace, AfterSave, TypeOK, SaverInv
  <2> QED BY <2>2, <2>3
<1>7. CASE SaveFails
  <2>1. phase = "up"
    BY <1>7 DEF SaveFails, SaverInv
  <2>2. TypeOK'
    BY <1>7 DEF SaveFails, AfterSave, TypeOK
  <2>3. SaverInv'
    BY <1>7, <2>1 DEF SaveFails, AfterSave, TypeOK, SaverInv
  <2> QED BY <2>2, <2>3
<1>8. CASE Crash
  BY <1>8 DEF Crash, TypeOK, SaverInv, histVars
<1>9. CASE Rot
  <2>1. disk' \notin States
    BY <1>9 DEF Rot, States
  <2>2. TypeOK'
    BY <1>9 DEF Rot, TypeOK, saverVars
  <2>3. SaverInv'
    BY <1>9, <2>1 DEF Rot, SaverInv, saverVars
  <2> QED BY <2>2, <2>3
<1>10. CASE Start
  <2>1. mem' \in States /\ asked' = Fresh
    BY <1>0, <1>10 DEF Start
  <2>2. TypeOK'
    BY <1>0, <1>10, <2>1 DEF Start, TypeOK
  <2>3. disk' \in States => mem' = disk'
    BY <1>10 DEF Start, States
  <2>4. io' = "none"
    BY <1>10 DEF Start, SaverInv
  <2>5. Covers(mem', asked')
    BY <2>1, CoversOrder
  <2>6. disk' \in States => Covers(mem', disk')
    BY <2>1, <2>3, CoversOrder
  <2>7. SaverInv'
    BY <2>4, <2>5, <2>6 DEF SaverInv
  <2> QED BY <2>2, <2>7
<1>11. CASE UNCHANGED vars
  BY <1>11 DEF vars, saverVars, histVars, TypeOK, SaverInv
<1> QED
  BY <1>1, <1>2, <1>3, <1>4, <1>5, <1>6, <1>7, <1>8, <1>9, <1>10, <1>11 DEF Next

(* Every variable has its type in every reachable state.                   *)
THEOREM StateStoreTypes == Spec => []TypeOK
BY InitInv, StepInv, PTL DEF Spec, IInv

-----------------------------------------------------------------------------
(* However requests, saves and starts interleave, a requested save is on   *)
(* disk or under way, as long as the disk does what it is told.            *)
THEOREM RequestsAreKept == Spec => []NoRequestForgotten
<1>1. Init => NoRequestForgotten
  BY DEF Init, NoRequestForgotten
<1>2. IInv /\ NoRequestForgotten /\ [Next]_vars => NoRequestForgotten'
  <2> SUFFICES ASSUME IInv, NoRequestForgotten, [Next]_vars, phase' = "up", ~refused'
               PROVE  Saved(asked)' \/ (asked = Fresh)' \/ (tasks > 0)' \/ pending'
    BY DEF NoRequestForgotten
  <2> USE DEF IInv
  <2>1. CASE Count
    BY <2>1 DEF Count, Running, NoRequestForgotten, Saved, saverVars, histVars
  <2>2. CASE Edit \/ TunnelEnds
    BY <2>2 DEF Edit, TunnelEnds, Request, TypeOK
  <2>3. CASE StartTask
    BY <2>3 DEF StartTask
  <2>4. CASE SaverWakes \/ Flush \/ Shutdown
    BY <2>4 DEF SaverWakes, Flush, Shutdown, Snapshot, Running, NoRequestForgotten,
                Saved, histVars
  <2>5. CASE Replace
    <3>1. tmp = mem /\ phase = "up" /\ Covers(mem, asked) /\ mem \in States
      BY <2>5 DEF Replace, SaverInv, TypeOK
    <3>2. Saved(asked)'
      BY <2>5, <3>1 DEF Replace, AfterSave, Saved, Covers
    <3> QED BY <3>2
  <2>6. CASE SaveFails
    BY <2>6 DEF SaveFails
  <2>7. CASE Crash
    BY <2>7 DEF Crash
  <2>8. CASE Rot
    BY <2>8 DEF Rot
  <2>9. CASE Start
    BY <2>9 DEF Start
  <2>10. CASE UNCHANGED vars
    BY <2>10 DEF vars, saverVars, histVars, NoRequestForgotten, Saved
  <2> QED
    BY <2>1, <2>2, <2>3, <2>4, <2>5, <2>6, <2>7, <2>8, <2>9, <2>10 DEF Next
<1> QED BY <1>1, <1>2, InitInv, StepInv, PTL DEF Spec

(* A readable copy is never replaced by an older one.                      *)
THEOREM FileOnlyAdvances == Spec => FileNeverGoesBack
<1>1. IInv /\ [Next]_vars => [(disk \in States /\ disk' \in States) => Covers(disk', disk)]_vars
  <2> SUFFICES ASSUME IInv, [Next]_vars, disk \in States, disk' \in States
               PROVE  Covers(disk', disk)
    OBVIOUS
  <2> USE DEF IInv
  <2>1. CASE UNCHANGED disk
    BY <2>1, CoversOrder
  <2>2. CASE Replace
    BY <2>2 DEF Replace, SaverInv
  <2>3. CASE Rot
    BY <2>3 DEF Rot, States
  <2>4. CASE Start
    BY <2>1, <2>4 DEF Start, States
  <2> QED
    BY <2>1, <2>2, <2>3, <2>4
    DEF Next, Count, Edit, TunnelEnds, StartTask, SaverWakes, Flush, Shutdown, Snapshot,
        SaveFails, Crash, vars
<1> QED BY <1>1, InitInv, StepInv, PTL DEF Spec, FileNeverGoesBack

(* StateStore implements DurableState: a save is Persist, a start is       *)
(* Restart, a kill or a last save that fails is Stop, rot is Lose, traffic *)
(* and edits are Work, and everything else is a stutter.                   *)
THEOREM StateStoreIsDurable == Spec => RefinesDurableState
<1> DEFINE up == phase = "up"
           durable == IF disk \in States THEN disk ELSE Fresh
<1> USE DEF Durable!Empty, Durable!State, Fresh
<1>1. Init => Durable!Init
  BY DEF Init, Durable!Init, States
<1>2. IInv /\ [Next]_vars => [Durable!Next]_<<up, mem, durable>>
  <2> SUFFICES ASSUME IInv, [Next]_vars
               PROVE  [Durable!Next]_<<up, mem, durable>>
    OBVIOUS
  <2> USE DEF IInv
  <2>1. CASE Count \/ Edit
    <3>1. mem' \in States /\ Covers(mem', mem)
      BY <2>1, Grows
    <3>2. up /\ UNCHANGED <<phase, disk>>
      BY <2>1 DEF Count, Edit, Running
    <3>3. Durable!Work
      BY <3>1, <3>2 DEF Durable!Work, Covers, States
    <3> QED BY <3>3 DEF Durable!Next
  <2>2. CASE UNCHANGED <<phase, mem, disk>>
    BY <2>2
  <2>3. CASE Replace
    <3>1. disk' = mem /\ mem \in States /\ UNCHANGED mem /\ up /\ up' \in BOOLEAN
      BY <2>3 DEF Replace, AfterSave, SaverInv, TypeOK
    <3>2. Durable!Persist
      BY <3>1 DEF Durable!Persist
    <3> QED BY <3>2 DEF Durable!Next
  <2>4. CASE SaveFails
    <3>1. up /\ UNCHANGED <<mem, disk>> /\ phase' \in {"up", "down"}
      BY <2>4 DEF SaveFails, AfterSave, SaverInv, TypeOK
    <3>2. phase' = "down" => Durable!Stop
      BY <3>1 DEF Durable!Stop
    <3>3. phase' = "up" => UNCHANGED <<phase, mem, disk>>
      BY <3>1
    <3> QED BY <3>1, <3>2, <3>3 DEF Durable!Next
  <2>5. CASE Crash
    <3>1. Durable!Stop
      BY <2>5 DEF Crash, Durable!Stop
    <3> QED BY <3>1 DEF Durable!Next
  <2>6. CASE Rot
    <3>1. disk' \notin States /\ UNCHANGED <<phase, mem>>
      BY <2>6 DEF Rot, States
    <3>2. Durable!Lose
      BY <3>1 DEF Durable!Lose
    <3> QED BY <3>2 DEF Durable!Next
  <2>7. CASE Start
    <3>1. ~up /\ up' /\ mem' = durable
      BY <2>7 DEF Start
    <3>2. durable' = durable
      BY <2>7 DEF Start, States
    <3>3. Durable!Restart
      BY <3>1, <3>2 DEF Durable!Restart
    <3> QED BY <3>3 DEF Durable!Next
  <2> QED
    BY <2>1, <2>2, <2>3, <2>4, <2>5, <2>6, <2>7
    DEF Next, TunnelEnds, StartTask, SaverWakes, Flush, Shutdown, Snapshot, vars
<1> QED BY <1>1, <1>2, InitInv, StepInv, PTL DEF Spec, RefinesDurableState, Durable!Spec

-----------------------------------------------------------------------------
(* The pool of Xray processes (XrayRuntime).                               *)
(* Who is in the line at the lock, and that only its first one starts or   *)
(* stops a process.                                                        *)
AtLock == {"acquire", "starting", "release", "stopping"}

LineOk ==
  /\ line \in Seq(VTunnels \cup {Closer})
  /\ \A i, j \in 1..Len(line) : line[i] = line[j] => i = j

LineInv ==
  /\ LineOk
  /\ \A t \in VTunnels : t \in ToSet(line) <=> handler[t] \in AtLock
  /\ Closer \in ToSet(line) <=> shut \in {"asked", "closing"}
  /\ \A t \in VTunnels : handler[t] \in {"starting", "stopping"} => HoldsLock(t)
  /\ shut = "closing" => HoldsLock(Closer)

XrayTyped ==
  /\ XrayTypeOK
  /\ entries \in [VLinks -> [proc : VTunnels \cup {NoProc}, refs : Nat]]
  /\ mine \in [VTunnels -> VTunnels \cup {NoProc}]
  /\ shut \in {"no", "asked", "closing", "closed"}

(* An entry counts the tunnels that were given its process.                *)
Counted(u) ==
  /\ entries[u] = NoEntry \/ (entries[u].proc \in VTunnels /\ entries[u].refs # 0)
  /\ entries[u].refs = Cardinality(Users(u))
  /\ \A t \in Users(u) : mine[t] = entries[u].proc

(* While a process is being started or stopped there is room for it.       *)
Changing == \E t \in VTunnels : handler[t] \in {"starting", "stopping"}

RoomKept ==
  /\ Cardinality(InUse) <= MaxRuntimes
  /\ Changing => Cardinality(InUse) < MaxRuntimes
  /\ \A t \in VTunnels : handler[t] = "starting" => entries[LinkOf[t]] = NoEntry

Owned(p) ==
  \/ \E u \in VLinks : entries[u].proc = p
  \/ handler[p] = "starting"
  \/ \E t \in VTunnels : handler[t] = "stopping" /\ mine[t] = p

PoolInv ==
  /\ \A t \in VTunnels : handler[t] \in {"holding", "release", "stopping"} => mine[t] \in VTunnels
  /\ ShuttingDown => InUse = {} /\ ~Changing
  /\ shut = "closed" => live = {}
  /\ ~ShuttingDown => /\ \A u \in VLinks : Counted(u)
                      /\ RoomKept
                      /\ \A p \in live : Owned(p)

XrayInv == XrayTyped /\ LineInv /\ PoolInv

(* The line: one joins at its end, the first one leaves.                   *)
LEMMA LineJoins ==
  ASSUME LineOk, NEW x \in VTunnels \cup {Closer}, x \notin ToSet(line), line' = Append(line, x)
  PROVE  /\ LineOk' /\ ToSet(line)' = ToSet(line) \cup {x}
         /\ \A y : HoldsLock(y) => HoldsLock(y)'
<1>1. line \in Seq(VTunnels \cup {Closer}) /\ Len(line) \in Nat
  BY LenProperties DEF LineOk
<1>2. /\ line' \in Seq(VTunnels \cup {Closer}) /\ Len(line') = Len(line) + 1
      /\ \A i \in 1..Len(line) : line'[i] = line[i]
      /\ line'[Len(line) + 1] = x
  BY <1>1, AppendProperties
<1>3. /\ ToSet(line) = {line[i] : i \in 1..Len(line)}
      /\ ToSet(line)' = {line'[i] : i \in 1..Len(line')}
  BY <1>1, <1>2, LenProperties DEF ToSet
<1>4. ToSet(line)' = ToSet(line) \cup {x}
  BY <1>1, <1>2, <1>3
<1>5. ASSUME NEW i \in 1..Len(line'), NEW j \in 1..Len(line'), line'[i] = line'[j]
      PROVE  i = j
  <2>1. CASE i \in 1..Len(line) /\ j \in 1..Len(line)
    BY <1>2, <1>5, <2>1 DEF LineOk
  <2>2. CASE i = Len(line) + 1 \/ j = Len(line) + 1
    BY <1>1, <1>2, <1>3, <1>5, <2>2
  <2> QED
    BY <1>1, <1>2, <2>1, <2>2
<1>6. ASSUME NEW y, HoldsLock(y) PROVE HoldsLock(y)'
  <2>1. Len(line) # 0 /\ line[1] = y
    BY <1>1, <1>6, EmptySeq DEF HoldsLock
  <2>2. line'[1] = y /\ line' # <<>>
    BY <1>1, <1>2, <2>1, EmptySeq
  <2> QED
    BY <1>2, <2>2 DEF HoldsLock
<1> QED
  BY <1>2, <1>4, <1>5, <1>6 DEF LineOk

LEMMA LineLeaves ==
  ASSUME LineOk, NEW x, HoldsLock(x), line' = Tail(line)
  PROVE  LineOk' /\ ToSet(line)' = ToSet(line) \ {x} /\ x \in ToSet(line)
<1>1. /\ line \in Seq(VTunnels \cup {Closer}) /\ Len(line) \in Nat /\ line # <<>>
      /\ line[1] = x
  BY LenProperties DEF LineOk, HoldsLock
<1>2. /\ line' \in Seq(VTunnels \cup {Closer}) /\ Len(line') = Len(line) - 1
      /\ \A i \in 1..Len(line') : line'[i] = line[i + 1]
  BY <1>1, HeadTailProperties
<1>3. Len(line) # 0
  BY <1>1, EmptySeq
<1>4. /\ ToSet(line) = {line[i] : i \in 1..Len(line)}
      /\ ToSet(line)' = {line'[i] : i \in 1..Len(line')}
  BY <1>1, <1>2, LenProperties DEF ToSet
<1>5. ToSet(line)' = ToSet(line) \ {x}
  <2>1. ASSUME NEW y \in ToSet(line)' PROVE y \in ToSet(line) \ {x}
    <3>1. PICK i \in 1..Len(line') : y = line'[i]
      BY <1>4, <2>1
    <3>2. i + 1 \in 1..Len(line) /\ y = line[i + 1] /\ 1 \in 1..Len(line) /\ i + 1 # 1
      BY <1>1, <1>2, <1>3, <3>1
    <3> QED
      BY <1>1, <1>4, <3>2 DEF LineOk
  <2>2. ASSUME NEW y \in ToSet(line) \ {x} PROVE y \in ToSet(line)'
    <3>1. PICK i \in 1..Len(line) : y = line[i]
      BY <1>4, <2>2
    <3>2. i # 1 /\ i - 1 \in 1..Len(line') /\ (i - 1) + 1 = i
      BY <1>1, <1>2, <2>2, <3>1
    <3> QED
      BY <1>2, <1>4, <3>1, <3>2
  <2> QED
    BY <2>1, <2>2
<1>6. ASSUME NEW i \in 1..Len(line'), NEW j \in 1..Len(line'), line'[i] = line'[j]
      PROVE  i = j
  <2>1. i + 1 \in 1..Len(line) /\ j + 1 \in 1..Len(line) /\ line[i + 1] = line[j + 1]
    BY <1>1, <1>2, <1>6
  <2>2. i + 1 = j + 1
    BY <2>1 DEF LineOk
  <2> QED
    BY <1>1, <1>2, <2>2
<1> QED
  BY <1>1, <1>2, <1>3, <1>4, <1>5, <1>6 DEF LineOk

LEMMA OneHolder ==
  /\ \A x, y : HoldsLock(x) /\ HoldsLock(y) => x = y
  /\ LineOk => \A x : HoldsLock(x) => x \in ToSet(line)
<1>1. ASSUME LineOk, NEW x, HoldsLock(x) PROVE x \in ToSet(line)
  <2>1. line \in Seq(VTunnels \cup {Closer}) /\ Len(line) \in Nat /\ line[1] = x /\ Len(line) # 0
    BY <1>1, LenProperties, EmptySeq DEF LineOk, HoldsLock
  <2> QED
    BY <2>1, LenProperties DEF ToSet
<1> QED
  BY <1>1 DEF HoldsLock

(* What becomes of the line when a tunnel goes on.                         *)
LEMMA TunnelJoins ==
  ASSUME XrayInv, NEW t \in VTunnels, NEW v \in {"acquire", "release"}, handler[t] \notin AtLock,
         handler' = [handler EXCEPT ![t] = v], line' = Append(line, t), shut' = shut
  PROVE  LineInv'
<1>1. t \notin ToSet(line) /\ LineOk /\ t # Closer
  BY XrayAssumption DEF XrayInv, LineInv
<1>2. /\ LineOk' /\ ToSet(line)' = ToSet(line) \cup {t}
      /\ \A y : HoldsLock(y) => HoldsLock(y)'
  BY <1>1, LineJoins
<1>3. handler'[t] = v /\ \A s \in VTunnels \ {t} : handler'[s] = handler[s]
  BY DEF XrayInv, XrayTyped, XrayTypeOK
<1> QED
  BY <1>1, <1>2, <1>3 DEF XrayInv, LineInv, AtLock

LEMMA TunnelLeaves ==
  ASSUME XrayInv, NEW t \in VTunnels, NEW v, v \notin AtLock, HoldsLock(t),
         handler' = [handler EXCEPT ![t] = v], line' = Tail(line), shut' = shut
  PROVE  LineInv' /\ ~Changing'
<1>1. LineOk /\ t # Closer
  BY XrayAssumption DEF XrayInv, LineInv
<1>2. LineOk' /\ ToSet(line)' = ToSet(line) \ {t}
  BY <1>1, LineLeaves
<1>3. handler'[t] = v /\ \A s \in VTunnels \ {t} : handler'[s] = handler[s]
  BY DEF XrayInv, XrayTyped, XrayTypeOK
<1>4. \A s \in VTunnels \ {t} : handler[s] \notin {"starting", "stopping"}
  BY OneHolder DEF XrayInv, LineInv
<1>5. shut # "closing"
  BY <1>1, OneHolder DEF XrayInv, LineInv
<1>6. v \notin {"starting", "stopping"}
  BY DEF AtLock
<1> QED
  BY <1>1, <1>2, <1>3, <1>4, <1>5, <1>6 DEF XrayInv, LineInv, AtLock, Changing

LEMMA TunnelStays ==
  ASSUME XrayInv, NEW t \in VTunnels, NEW v \in AtLock, HoldsLock(t), handler[t] \in AtLock,
         handler' = [handler EXCEPT ![t] = v], line' = line, shut' = shut
  PROVE  LineInv'
<1>1. handler'[t] = v /\ \A s \in VTunnels \ {t} : handler'[s] = handler[s]
  BY DEF XrayInv, XrayTyped, XrayTypeOK
<1>2. HoldsLock(t)' /\ \A y : HoldsLock(y)' <=> HoldsLock(y)
  BY DEF HoldsLock
<1>3. LineOk' /\ ToSet(line)' = ToSet(line)
  BY DEF XrayInv, LineInv, LineOk
<1> QED
  BY <1>1, <1>2, <1>3 DEF XrayInv, LineInv

(* The users of a runtime, when one tunnel goes on.                        *)
LEMMA UsersMove ==
  ASSUME XrayInv, NEW t \in VTunnels, NEW v, handler' = [handler EXCEPT ![t] = v]
  PROVE  /\ \A u \in VLinks : IsFiniteSet(Users(u)) /\ Cardinality(Users(u)) \in Nat
         /\ \A u \in VLinks \ {LinkOf[t]} : Users(u)' = Users(u)
         /\ v \in {"holding", "release"} => Users(LinkOf[t])' = Users(LinkOf[t]) \cup {t}
         /\ v \notin {"holding", "release"} => Users(LinkOf[t])' = Users(LinkOf[t]) \ {t}
         /\ handler[t] \in {"holding", "release"} <=> t \in Users(LinkOf[t])
         /\ LinkOf[t] \in VLinks
<1>1. handler'[t] = v /\ \A s \in VTunnels \ {t} : handler'[s] = handler[s]
  BY DEF XrayInv, XrayTyped, XrayTypeOK
<1>2. \A u \in VLinks : IsFiniteSet(Users(u)) /\ Cardinality(Users(u)) \in Nat
  <2>1. \A u \in VLinks : Users(u) \subseteq VTunnels
    BY DEF Users
  <2> QED
    BY <2>1, XrayAssumption, FS_Subset, FS_CardinalityType
<1> QED
  BY <1>1, <1>2, XrayAssumption DEF Users

LEMMA InUseFinite == IsFiniteSet(InUse) /\ Cardinality(InUse) \in Nat
<1>1. InUse \subseteq VLinks
  BY DEF InUse
<1> QED
  BY <1>1, XrayAssumption, FS_Subset, FS_CardinalityType

(* A tunnel goes on that neither has a runtime nor gets one, or has it and *)
(* keeps it.                                                               *)
LEMMA PoolStays ==
  ASSUME XrayInv, NEW t \in VTunnels, NEW v, handler' = [handler EXCEPT ![t] = v],
         \/ handler[t] \in {"out", "acquire"} /\ v \in {"acquire", "done"}
         \/ handler[t] = "holding" /\ v = "release",
         UNCHANGED <<entries, mine, live, shut>>
  PROVE  PoolInv'
<1>1. handler'[t] = v /\ \A s \in VTunnels \ {t} : handler'[s] = handler[s]
  BY DEF XrayInv, XrayTyped, XrayTypeOK
<1>2. \A u \in VLinks : Users(u)' = Users(u)
  <2>1. CASE handler[t] = "holding" /\ v = "release"
    <3>1. t \in Users(LinkOf[t]) /\ Users(LinkOf[t])' = Users(LinkOf[t]) \cup {t}
      BY <2>1, UsersMove
    <3> QED
      BY <3>1, UsersMove
  <2>2. CASE handler[t] \in {"out", "acquire"} /\ v \in {"acquire", "done"}
    <3>1. t \notin Users(LinkOf[t]) /\ Users(LinkOf[t])' = Users(LinkOf[t]) \ {t}
      BY <2>2, UsersMove
    <3> QED
      BY <3>1, UsersMove
  <2> QED
    BY <2>1, <2>2
<1>3. (Changing' <=> Changing) /\ InUse' = InUse /\ (ShuttingDown' <=> ShuttingDown)
  BY <1>1 DEF Changing, InUse, ShuttingDown
<1>4. ASSUME NEW p \in live, Owned(p) PROVE Owned(p)'
  BY <1>1, <1>4 DEF Owned, XrayInv, XrayTyped, XrayTypeOK
<1>5. ASSUME NEW u \in VLinks, Counted(u) PROVE Counted(u)'
  BY <1>2, <1>5 DEF Counted
<1>6. ASSUME RoomKept PROVE RoomKept'
  BY <1>1, <1>3, <1>6 DEF RoomKept
<1>7. \A s \in VTunnels : handler'[s] \in {"holding", "release", "stopping"} => mine'[s] \in VTunnels
  BY <1>1 DEF XrayInv, PoolInv
<1> QED
  BY <1>3, <1>4, <1>5, <1>6, <1>7 DEF XrayInv, PoolInv

(* Types of a step that moves a tunnel.                                    *)
LEMMA MovedTyped ==
  ASSUME XrayInv, LineInv', NEW t \in VTunnels,
         NEW v \in {"out", "acquire", "starting", "holding", "release", "stopping", "done"},
         handler' = [handler EXCEPT ![t] = v], live' \subseteq VTunnels, shut' = shut,
         entries' \in [VLinks -> [proc : VTunnels \cup {NoProc}, refs : Nat]],
         mine' \in [VTunnels -> VTunnels \cup {NoProc}]
  PROVE  XrayTyped'
<1>1. ToSet(line') \subseteq VTunnels \cup {Closer}
  BY DEF LineInv, LineOk, ToSet
<1>2. handler' \in [VTunnels -> {"out", "acquire", "starting", "holding", "release", "stopping", "done"}]
  BY DEF XrayInv, XrayTyped, XrayTypeOK
<1> QED
  BY <1>1, <1>2 DEF XrayInv, XrayTyped, XrayTypeOK

LEMMA AcquireKeeps == ASSUME XrayInv, NEW t \in VTunnels, AcquireRuntime(t) PROVE XrayInv'
<1>1. /\ handler[t] = "out" /\ handler' = [handler EXCEPT ![t] = "acquire"]
      /\ line' = Append(line, t) /\ UNCHANGED <<entries, mine, live, shut>>
  BY DEF AcquireRuntime
<1>2. LineInv' /\ PoolInv'
  BY <1>1, TunnelJoins, PoolStays DEF AtLock
<1>3. XrayTyped'
  BY <1>1, <1>2, MovedTyped DEF XrayInv, XrayTyped, XrayTypeOK
<1> QED
  BY <1>2, <1>3 DEF XrayInv

LEMMA EndKeeps == ASSUME XrayInv, NEW t \in VTunnels, EndTunnel(t) PROVE XrayInv'
<1>1. /\ handler[t] = "holding" /\ handler' = [handler EXCEPT ![t] = "release"]
      /\ line' = Append(line, t) /\ UNCHANGED <<entries, mine, live, shut>>
  BY DEF EndTunnel
<1>2. LineInv' /\ PoolInv'
  BY <1>1, TunnelJoins, PoolStays DEF AtLock
<1>3. XrayTyped'
  BY <1>1, <1>2, MovedTyped DEF XrayInv, XrayTyped, XrayTypeOK
<1> QED
  BY <1>2, <1>3 DEF XrayInv

(* The lock has one holder: while it decides nothing is started or stopped.*)
LEMMA NothingChanges ==
  ASSUME XrayInv, NEW t \in VTunnels, HoldsLock(t), handler[t] \in {"acquire", "release"}
  PROVE  ~Changing
BY OneHolder DEF XrayInv, LineInv, Changing

LEMMA DecideKeeps ==
  ASSUME XrayInv, NEW t \in VTunnels, NEW valid \in BOOLEAN, Decide(t, valid)
  PROVE  XrayInv'
<1> DEFINE u == LinkOf[t]
<1>1. HoldsLock(t) /\ handler[t] = "acquire" /\ shut' = shut /\ ~Changing
      /\ u \in VLinks
  BY NothingChanges, XrayAssumption DEF Decide
<1>2. CASE RefuseTunnel(t) /\ UNCHANGED <<entries, mine, live>>
  <2>1. handler' = [handler EXCEPT ![t] = "done"] /\ line' = Tail(line)
    BY <1>2 DEF RefuseTunnel
  <2>2. LineInv' /\ PoolInv'
    BY <1>1, <1>2, <2>1, TunnelLeaves, PoolStays DEF AtLock
  <2>3. XrayTyped'
    BY <1>1, <1>2, <2>1, <2>2, MovedTyped DEF XrayInv, XrayTyped, XrayTypeOK
  <2> QED
    BY <2>2, <2>3 DEF XrayInv
<1>3. CASE /\ ~ShuttingDown /\ entries[u] # NoEntry /\ entries[u].proc \in live
           /\ entries' = [entries EXCEPT ![u].refs = @ + 1]
           /\ mine' = [mine EXCEPT ![t] = entries[u].proc]
           /\ handler' = [handler EXCEPT ![t] = "holding"] /\ line' = Tail(line)
           /\ UNCHANGED live
  <2>1. LineInv' /\ ~Changing'
    BY <1>1, <1>3, TunnelLeaves DEF AtLock
  <2>2. /\ entries \in [VLinks -> [proc : VTunnels \cup {NoProc}, refs : Nat]]
        /\ mine \in [VTunnels -> VTunnels \cup {NoProc}] /\ live \subseteq VTunnels
        /\ entries[u].refs \in Nat
    BY <1>1 DEF XrayInv, XrayTyped, XrayTypeOK
  <2>3. /\ entries' \in [VLinks -> [proc : VTunnels \cup {NoProc}, refs : Nat]]
        /\ mine' \in [VTunnels -> VTunnels \cup {NoProc}]
        /\ entries'[u].proc = entries[u].proc /\ entries'[u].refs = entries[u].refs + 1
        /\ \A w \in VLinks \ {u} : entries'[w] = entries[w]
        /\ mine'[t] = entries[u].proc /\ \A s \in VTunnels \ {t} : mine'[s] = mine[s]
    BY <1>1, <1>3, <2>2
  <2>4. XrayTyped'
    BY <1>1, <1>3, <2>1, <2>2, <2>3, MovedTyped
  <2>5. /\ handler'[t] = "holding" /\ \A s \in VTunnels \ {t} : handler'[s] = handler[s]
        /\ (ShuttingDown' <=> ShuttingDown)
    BY <1>1, <1>3 DEF XrayInv, XrayTyped, XrayTypeOK, ShuttingDown
  <2>6. /\ \A w \in VLinks \ {u} : Users(w)' = Users(w)
        /\ Users(u)' = Users(u) \cup {t} /\ t \notin Users(u)
        /\ IsFiniteSet(Users(u)) /\ Cardinality(Users(u)) \in Nat
    BY <1>1, <1>3, UsersMove
  <2>7. /\ \A w \in VLinks : Counted(w)
        /\ RoomKept /\ \A p \in live : Owned(p)
    BY <1>3 DEF XrayInv, PoolInv
  <2>8. ASSUME NEW w \in VLinks PROVE Counted(w)'
    <3>1. CASE w = u
      <4>1. Cardinality(Users(u)') = Cardinality(Users(u)) + 1
        BY <2>6, FS_AddElement
      <4>2. \A s \in Users(u)' : mine'[s] = entries'[u].proc
        <5>1. \A s \in Users(u) : s \in VTunnels \ {t} /\ mine[s] = entries[u].proc
          <6>1. Users(u) \subseteq VTunnels
            BY DEF Users
          <6> QED
            BY <1>1, <2>6, <2>7, <6>1 DEF Counted
        <5> QED
          BY <2>3, <2>6, <5>1
      <4>3. entries'[u].proc \in VTunnels /\ entries'[u].refs # 0
        BY <1>1, <1>3, <2>2, <2>3, <2>7 DEF Counted
      <4> QED
        BY <1>1, <2>2, <2>3, <2>7, <3>1, <4>1, <4>2, <4>3 DEF Counted
    <3>2. CASE w # u
      <4>1. t \notin Users(w)
        BY <3>2 DEF Users
      <4>2. \A s \in Users(w) : mine'[s] = mine[s]
        BY <2>3, <4>1 DEF Users
      <4> QED
        BY <2>3, <2>6, <2>7, <3>2, <4>2 DEF Counted
    <3> QED
      BY <3>1, <3>2
  <2>9. InUse' = InUse
    BY <1>1, <1>3, <2>2, <2>3 DEF InUse, NoEntry
  <2>10. RoomKept'
    BY <2>1, <2>7, <2>9 DEF RoomKept, Changing
  <2>11. ASSUME NEW p \in live PROVE Owned(p)'
    <3>1. \E w \in VLinks : entries[w].proc = p
      BY <1>1, <2>2, <2>7, <2>11 DEF Owned, Changing
    <3> QED
      BY <2>3, <3>1 DEF Owned
  <2>12. mine'[t] \in VTunnels
    BY <1>1, <1>3, <2>3, <2>7 DEF Counted
  <2>13. PoolInv'
    BY <1>1, <1>3, <2>3, <2>5, <2>8, <2>10, <2>11, <2>12 DEF XrayInv, PoolInv, ShuttingDown
  <2> QED
    BY <2>1, <2>4, <2>13 DEF XrayInv
<1>4. CASE /\ ~ShuttingDown /\ entries[u] = NoEntry /\ Cardinality(InUse) < MaxRuntimes
           /\ live' = live \cup {t}
           /\ handler' = [handler EXCEPT ![t] = "starting"]
           /\ UNCHANGED <<line, entries, mine>>
  <2>1. LineInv'
    BY <1>1, <1>4, TunnelStays DEF AtLock
  <2>2. XrayTyped'
    BY <1>1, <1>4, <2>1, MovedTyped DEF XrayInv, XrayTyped, XrayTypeOK
  <2>3. /\ handler'[t] = "starting" /\ \A s \in VTunnels \ {t} : handler'[s] = handler[s]
        /\ (ShuttingDown' <=> ShuttingDown)
    BY <1>1, <1>4 DEF XrayInv, XrayTyped, XrayTypeOK, ShuttingDown
  <2>4. \A w \in VLinks : Users(w)' = Users(w)
    <3>1. PICK v : v = "starting" /\ handler[t] = "acquire" /\ handler' = [handler EXCEPT ![t] = v]
      BY <1>1, <1>4
    <3>2. \A w \in VLinks \ {u} : Users(w)' = Users(w)
      BY <3>1, UsersMove
    <3>3. Users(u)' = Users(u) \ {t}
      <4>1. v \notin {"holding", "release"}
        BY <3>1
      <4>2. handler' = [handler EXCEPT ![t] = v]
        BY <3>1
      <4> QED
        BY Zenon, <4>1, <4>2, UsersMove
    <3>4. t \notin Users(u)
      BY <3>1, UsersMove
    <3> QED
      BY <3>2, <3>3, <3>4
  <2>5. /\ \A w \in VLinks : Counted(w)
        /\ RoomKept /\ \A p \in live : Owned(p)
    BY <1>4 DEF XrayInv, PoolInv
  <2>6. \A w \in VLinks : Counted(w)'
    BY <1>4, <2>4, <2>5 DEF Counted
  <2>7. RoomKept'
    <3>1. InUse' = InUse
      BY <1>4 DEF InUse
    <3>2. \A s \in VTunnels : handler'[s] = "starting" => s = t
      BY <1>1, <2>3 DEF Changing
    <3> QED
      BY <1>4, <2>5, <3>1, <3>2 DEF RoomKept
  <2>8. ASSUME NEW p \in live' PROVE Owned(p)'
    <3>1. CASE p = t
      BY <2>3, <3>1 DEF Owned
    <3>2. CASE p # t
      <4>1. p \in live /\ p \in VTunnels
        BY <1>4, <2>8, <3>2 DEF XrayInv, XrayTyped, XrayTypeOK
      <4>2. \E w \in VLinks : entries[w].proc = p
        BY <1>1, <2>5, <4>1 DEF Owned, Changing
      <4> QED
        BY <1>4, <4>2 DEF Owned
    <3> QED
      BY <3>1, <3>2
  <2>9. PoolInv'
    BY <1>1, <1>4, <2>3, <2>6, <2>7, <2>8 DEF XrayInv, PoolInv, ShuttingDown
  <2> QED
    BY <2>1, <2>2, <2>9 DEF XrayInv
<1> QED
  BY <1>2, <1>3, <1>4 DEF Decide

LEMMA StartedKeeps == ASSUME XrayInv, NEW t \in VTunnels, Started(t) PROVE XrayInv'
<1> DEFINE u == LinkOf[t]
           e == [proc |-> t, refs |-> 1]
<1>1. /\ handler[t] = "starting" /\ HoldsLock(t) /\ u \in VLinks
      /\ entries' = [entries EXCEPT ![u] = e] /\ mine' = [mine EXCEPT ![t] = t]
      /\ handler' = [handler EXCEPT ![t] = "holding"] /\ line' = Tail(line)
      /\ UNCHANGED <<live, shut>>
  BY XrayAssumption DEF Started, XrayInv, LineInv
<1>2. Changing /\ ~ShuttingDown
  BY <1>1 DEF Changing, XrayInv, PoolInv
<1>3. /\ \A w \in VLinks : Counted(w)
      /\ RoomKept /\ \A p \in live : Owned(p)
  BY <1>2 DEF XrayInv, PoolInv
<1>4. LineInv' /\ ~Changing'
  BY <1>1, TunnelLeaves DEF AtLock
<1>5. /\ entries \in [VLinks -> [proc : VTunnels \cup {NoProc}, refs : Nat]]
      /\ mine \in [VTunnels -> VTunnels \cup {NoProc}] /\ live \subseteq VTunnels
  BY DEF XrayInv, XrayTyped, XrayTypeOK
<1>6. e \in [proc : VTunnels \cup {NoProc}, refs : Nat] /\ e.proc = t /\ e.refs = 1
  OBVIOUS
<1> HIDE DEF e
<1>7. /\ entries' \in [VLinks -> [proc : VTunnels \cup {NoProc}, refs : Nat]]
      /\ mine' \in [VTunnels -> VTunnels \cup {NoProc}]
      /\ entries'[u] = e /\ \A w \in VLinks \ {u} : entries'[w] = entries[w]
      /\ mine'[t] = t /\ \A s \in VTunnels \ {t} : mine'[s] = mine[s]
  BY <1>1, <1>5, <1>6
<1>8. XrayTyped'
  BY <1>1, <1>4, <1>5, <1>7, MovedTyped
<1>9. /\ handler'[t] = "holding" /\ \A s \in VTunnels \ {t} : handler'[s] = handler[s]
      /\ (ShuttingDown' <=> ShuttingDown)
  BY <1>1 DEF XrayInv, XrayTyped, XrayTypeOK, ShuttingDown
<1>10. entries[u] = NoEntry /\ Cardinality(InUse) < MaxRuntimes
  BY <1>1, <1>2, <1>3 DEF RoomKept
<1>11. Users(u) = {}
  <2>1. entries[u].refs = 0
    BY <1>10 DEF NoEntry
  <2>2. Cardinality(Users(u)) = 0 /\ IsFiniteSet(Users(u))
    BY <1>1, <1>3, <2>1, UsersMove DEF Counted
  <2> QED
    BY <2>2, FS_EmptySet
<1>12. Users(u)' = {t} /\ \A w \in VLinks \ {u} : Users(w)' = Users(w)
  BY <1>1, <1>11, UsersMove
<1>13. ASSUME NEW w \in VLinks PROVE Counted(w)'
  <2>1. CASE w = u
    <3>1. Cardinality(Users(u)') = 1
      BY <1>12, FS_Singleton
    <3> QED
      BY <1>6, <1>7, <1>12, <2>1, <3>1 DEF Counted
  <2>2. CASE w # u
    <3>1. \A s \in Users(w) : s \in VTunnels \ {t}
      BY <2>2 DEF Users
    <3> QED
      BY <1>3, <1>7, <1>12, <2>2, <3>1 DEF Counted
  <2> QED
    BY <2>1, <2>2
<1>14. RoomKept'
  <2>1. InUse' = InUse \cup {u} /\ u \notin InUse
    <3>1. e # NoEntry
      BY <1>6 DEF NoEntry
    <3> QED
      BY <1>1, <1>7, <1>10, <3>1 DEF InUse
  <2>2. Cardinality(InUse') = Cardinality(InUse) + 1
    BY <2>1, InUseFinite, FS_AddElement
  <2>3. Cardinality(InUse') <= MaxRuntimes
    BY <1>10, <2>2, InUseFinite, XrayAssumption
  <2> QED
    BY <1>4, <2>3 DEF RoomKept, Changing
<1>15. ASSUME NEW p \in live PROVE Owned(p)'
  <2>1. CASE \E w \in VLinks : entries[w].proc = p
    <3>1. PICK w \in VLinks : entries[w].proc = p
      BY <2>1
    <3>2. p \in VTunnels /\ p # NoProc
      BY <1>5, XrayAssumption
    <3>3. w # u
      BY <1>10, <3>1, <3>2 DEF NoEntry
    <3> QED
      BY <1>7, <3>1, <3>3 DEF Owned
  <2>2. CASE handler[p] = "starting"
    <3>1. p = t
      BY <1>1, <1>5, <2>2, OneHolder DEF XrayInv, LineInv
    <3> QED
      BY <1>1, <1>6, <1>7, <3>1 DEF Owned
  <2>3. ~\E s \in VTunnels : handler[s] = "stopping" /\ mine[s] = p
    BY <1>1, OneHolder DEF XrayInv, LineInv
  <2> QED
    BY <1>3, <2>1, <2>2, <2>3 DEF Owned
<1>16. PoolInv'
  BY <1>1, <1>2, <1>7, <1>9, <1>13, <1>14, <1>15 DEF XrayInv, PoolInv, ShuttingDown
<1> QED
  BY <1>4, <1>8, <1>16 DEF XrayInv

(* A process ends, and whoever was starting or stopping it lets go.        *)
LEMMA FewerProcesses ==
  ASSUME XrayInv, NEW t \in VTunnels, HoldsLock(t), handler[t] \in {"starting", "stopping"},
         handler' = [handler EXCEPT ![t] = "done"], line' = Tail(line),
         live' = live \ {IF handler[t] = "starting" THEN t ELSE mine[t]},
         UNCHANGED <<entries, mine, shut>>
  PROVE  XrayInv'
<1>1. LineInv' /\ ~Changing'
  BY TunnelLeaves DEF AtLock
<1>2. XrayTyped'
  BY <1>1, MovedTyped DEF XrayInv, XrayTyped, XrayTypeOK
<1>3. Changing /\ ~ShuttingDown
  BY DEF Changing, XrayInv, PoolInv
<1>4. /\ \A w \in VLinks : Counted(w)
      /\ RoomKept /\ \A p \in live : Owned(p)
  BY <1>3 DEF XrayInv, PoolInv
<1>5. PICK v : v = "done" /\ handler' = [handler EXCEPT ![t] = v]
  OBVIOUS
<1>6. \A w \in VLinks : Users(w)' = Users(w)
  <2>1. v \notin {"holding", "release"}
    BY <1>5
  <2>2. /\ \A w \in VLinks \ {LinkOf[t]} : Users(w)' = Users(w)
        /\ Users(LinkOf[t])' = Users(LinkOf[t]) \ {t}
        /\ (handler[t] \in {"holding", "release"} <=> t \in Users(LinkOf[t]))
    BY Zenon, <1>5, <2>1, UsersMove
  <2> QED
    BY <2>2
<1>7. /\ handler'[t] = "done" /\ \A s \in VTunnels \ {t} : handler'[s] = handler[s]
      /\ InUse' = InUse /\ (ShuttingDown' <=> ShuttingDown)
  BY DEF XrayInv, XrayTyped, XrayTypeOK, InUse, ShuttingDown
<1>8. \A w \in VLinks : Counted(w)'
  BY <1>4, <1>6 DEF Counted
<1>9. RoomKept'
  BY <1>1, <1>4, <1>7 DEF RoomKept, Changing
<1>10. ASSUME NEW p \in live' PROVE Owned(p)'
  <2>1. p \in live /\ p \in VTunnels
    BY <1>10 DEF XrayInv, XrayTyped, XrayTypeOK
  <2>2. \A s \in VTunnels : handler[s] \in {"starting", "stopping"} => s = t
    BY OneHolder DEF XrayInv, LineInv
  <2>3. \E w \in VLinks : entries[w].proc = p
    BY <1>4, <1>10, <2>1, <2>2 DEF Owned
  <2> QED
    BY <2>3 DEF Owned
<1>11. PoolInv'
  BY <1>3, <1>7, <1>8, <1>9, <1>10 DEF XrayInv, PoolInv, ShuttingDown
<1> QED
  BY <1>1, <1>2, <1>11 DEF XrayInv

LEMMA StartFailsKeeps == ASSUME XrayInv, NEW t \in VTunnels, StartFails(t) PROVE XrayInv'
<1>1. HoldsLock(t)
  BY DEF StartFails, XrayInv, LineInv
<1> QED
  BY <1>1, FewerProcesses DEF StartFails, RefuseTunnel

LEMMA StoppedKeeps == ASSUME XrayInv, NEW t \in VTunnels, Stopped(t) PROVE XrayInv'
<1>1. HoldsLock(t)
  BY DEF Stopped, XrayInv, LineInv
<1> QED
  BY <1>1, FewerProcesses DEF Stopped

LEMMA ReleaseKeeps == ASSUME XrayInv, NEW t \in VTunnels, ReleaseRuntime(t) PROVE XrayInv'
<1> DEFINE u == LinkOf[t]
<1>1. /\ HoldsLock(t) /\ handler[t] = "release" /\ ~Changing /\ u \in VLinks
      /\ UNCHANGED <<mine, live, shut>> /\ mine[t] \in VTunnels
  BY NothingChanges, XrayAssumption DEF ReleaseRuntime, XrayInv, PoolInv
<1>2. /\ entries \in [VLinks -> [proc : VTunnels \cup {NoProc}, refs : Nat]]
      /\ mine \in [VTunnels -> VTunnels \cup {NoProc}] /\ live \subseteq VTunnels
      /\ entries[u].refs \in Nat
  BY <1>1 DEF XrayInv, XrayTyped, XrayTypeOK
<1>3. ASSUME NEW v, handler' = [handler EXCEPT ![t] = v], v \notin {"holding", "release"}
      PROVE  /\ \A w \in VLinks \ {u} : Users(w)' = Users(w)
             /\ Users(u)' = Users(u) \ {t} /\ t \in Users(u)
             /\ IsFiniteSet(Users(u)) /\ Cardinality(Users(u)) \in Nat
  <2>1. /\ \A w \in VLinks \ {u} : Users(w)' = Users(w)
        /\ Users(u)' = Users(u) \ {t}
        /\ (handler[t] \in {"holding", "release"} <=> t \in Users(u))
        /\ IsFiniteSet(Users(u)) /\ Cardinality(Users(u)) \in Nat
    BY Zenon, <1>1, <1>3, UsersMove
  <2> QED
    BY <1>1, <2>1
<1>4. ~ShuttingDown => /\ \A w \in VLinks : Counted(w)
                       /\ RoomKept /\ \A p \in live : Owned(p)
  BY DEF XrayInv, PoolInv
<1>5. ASSUME NEW w \in VLinks \ {u}, Counted(w), entries'[w] = entries[w], Users(w)' = Users(w)
      PROVE  Counted(w)'
  BY <1>1, <1>5 DEF Counted
<1>6. CASE /\ entries[u].proc = mine[t] /\ LastOut(entries[u])
           /\ entries' = [entries EXCEPT ![u] = NoEntry]
           /\ handler' = [handler EXCEPT ![t] = "stopping"]
           /\ UNCHANGED line
  <2>1. LineInv'
    BY <1>1, <1>6, TunnelStays DEF AtLock
  <2>2. NoEntry \in [proc : VTunnels \cup {NoProc}, refs : Nat]
    BY DEF NoEntry
  <2>3. /\ entries' \in [VLinks -> [proc : VTunnels \cup {NoProc}, refs : Nat]]
        /\ entries'[u] = NoEntry /\ \A w \in VLinks \ {u} : entries'[w] = entries[w]
    BY <1>1, <1>2, <1>6, <2>2
  <2>4. XrayTyped'
    BY <1>1, <1>2, <1>6, <2>1, <2>3, MovedTyped
  <2>5. entries[u] # NoEntry /\ entries[u].refs = 1
    BY <1>6 DEF LastOut, NoEntry
  <2>6. ~ShuttingDown
    BY <1>1, <2>5 DEF XrayInv, PoolInv, InUse
  <2>7. /\ \A w \in VLinks \ {u} : Users(w)' = Users(w)
        /\ Users(u)' = Users(u) \ {t} /\ t \in Users(u)
        /\ IsFiniteSet(Users(u)) /\ Cardinality(Users(u)) \in Nat
    <3>1. PICK v : v = "stopping" /\ handler' = [handler EXCEPT ![t] = v]
      BY <1>6
    <3>2. v \notin {"holding", "release"}
      BY <3>1
    <3> QED
      BY Zenon, <1>3, <3>1, <3>2
  <2>8. Users(u)' = {} /\ Cardinality(Users(u)') = 0
    <3>1. Cardinality(Users(u)) = 1
      BY <1>1, <1>4, <2>5, <2>6 DEF Counted
    <3>2. Cardinality(Users(u) \ {t}) = 0 /\ IsFiniteSet(Users(u) \ {t})
      BY <2>7, <3>1, FS_RemoveElement
    <3> QED
      BY <2>7, <3>2, FS_EmptySet
  <2>9. ASSUME NEW w \in VLinks PROVE Counted(w)'
    <3>1. CASE w = u
      <4>1. entries'[u] = NoEntry /\ entries'[u].refs = 0
        BY <2>3 DEF NoEntry
      <4>2. Counted(u)'
        BY <2>8, <4>1 DEF Counted
      <4> QED
        BY <3>1, <4>2
    <3>2. CASE w # u
      BY <1>4, <1>5, <2>3, <2>6, <2>7, <3>2
    <3> QED
      BY <3>1, <3>2
  <2>10. /\ handler'[t] = "stopping" /\ \A s \in VTunnels \ {t} : handler'[s] = handler[s]
         /\ (ShuttingDown' <=> ShuttingDown)
    BY <1>1, <1>6 DEF XrayInv, XrayTyped, XrayTypeOK, ShuttingDown
  <2>11. RoomKept'
    <3>1. InUse' = InUse \ {u} /\ u \in InUse
      BY <1>1, <2>3, <2>5 DEF InUse
    <3>2. Cardinality(InUse') = Cardinality(InUse) - 1
      BY <3>1, InUseFinite, FS_RemoveElement
    <3>3. Cardinality(InUse') < MaxRuntimes /\ Cardinality(InUse') <= MaxRuntimes
      BY <1>4, <2>6, <3>2, InUseFinite, XrayAssumption DEF RoomKept
    <3>4. \A s \in VTunnels : handler'[s] # "starting"
      BY <1>1, <2>10 DEF Changing
    <3> QED
      BY <3>3, <3>4 DEF RoomKept
  <2>12. ASSUME NEW p \in live PROVE Owned(p)'
    <3>1. PICK w \in VLinks : entries[w].proc = p
      BY <1>1, <1>2, <1>4, <2>6, <2>12 DEF Owned, Changing
    <3>2. CASE w = u
      BY <1>1, <1>6, <2>10, <3>1, <3>2 DEF Owned
    <3>3. CASE w # u
      BY <2>3, <3>1, <3>3 DEF Owned
    <3> QED
      BY <3>2, <3>3
  <2>13. PoolInv'
    BY <1>1, <2>6, <2>9, <2>10, <2>11, <2>12 DEF XrayInv, PoolInv, ShuttingDown
  <2> QED
    BY <2>1, <2>4, <2>13 DEF XrayInv
<1>7. CASE /\ ~(entries[u].proc = mine[t] /\ LastOut(entries[u]))
           /\ entries' = IF entries[u].proc = mine[t] THEN [entries EXCEPT ![u].refs = @ - 1]
                                                      ELSE entries
           /\ handler' = [handler EXCEPT ![t] = "done"] /\ line' = Tail(line)
  <2>1. LineInv' /\ ~Changing'
    BY <1>1, <1>7, TunnelLeaves DEF AtLock
  <2>2. /\ handler'[t] = "done" /\ \A s \in VTunnels \ {t} : handler'[s] = handler[s]
        /\ (ShuttingDown' <=> ShuttingDown)
    BY <1>1, <1>7 DEF XrayInv, XrayTyped, XrayTypeOK, ShuttingDown
  <2>3. /\ \A w \in VLinks \ {u} : Users(w)' = Users(w)
        /\ Users(u)' = Users(u) \ {t} /\ t \in Users(u)
        /\ IsFiniteSet(Users(u)) /\ Cardinality(Users(u)) \in Nat
    <3>1. PICK v : v = "done" /\ handler' = [handler EXCEPT ![t] = v]
      BY <1>7
    <3>2. v \notin {"holding", "release"}
      BY <3>1
    <3> QED
      BY Zenon, <1>3, <3>1, <3>2
  <2>4. CASE ShuttingDown
    <3>1. entries[u] = NoEntry
      BY <1>1, <2>4 DEF XrayInv, PoolInv, InUse
    <3>2. entries' = entries
      BY <1>1, <1>7, <3>1, XrayAssumption DEF NoEntry
    <3>3. XrayTyped'
      BY <1>1, <1>2, <1>7, <2>1, <3>2, MovedTyped
    <3>4. PoolInv'
      BY <1>1, <2>1, <2>2, <2>4, <3>2 DEF XrayInv, PoolInv, InUse, ShuttingDown
    <3> QED
      BY <2>1, <3>3, <3>4 DEF XrayInv
  <2>5. CASE ~ShuttingDown
    <3>1. entries[u].proc = mine[t] /\ entries[u].refs = Cardinality(Users(u))
      BY <1>1, <1>4, <2>3, <2>5 DEF Counted
    <3>2. entries[u].refs # 1 /\ entries' = [entries EXCEPT ![u].refs = @ - 1]
      BY <1>7, <3>1 DEF LastOut
    <3>3. Cardinality(Users(u) \ {t}) = Cardinality(Users(u)) - 1
      BY <2>3, FS_RemoveElement
    <3>4. Cardinality(Users(u) \ {t}) \in Nat
      BY <2>3, FS_RemoveElement, FS_CardinalityType
    <3>5. entries[u].refs - 1 \in Nat \ {0}
      BY <1>2, <2>3, <3>1, <3>2, <3>3, <3>4
    <3>6. /\ entries' \in [VLinks -> [proc : VTunnels \cup {NoProc}, refs : Nat]]
          /\ entries'[u].proc = entries[u].proc /\ entries'[u].refs = entries[u].refs - 1
          /\ \A w \in VLinks \ {u} : entries'[w] = entries[w]
      BY <1>1, <1>2, <3>2, <3>5
    <3>7. XrayTyped'
      BY <1>1, <1>2, <1>7, <2>1, <3>6, MovedTyped
    <3>8. ASSUME NEW w \in VLinks PROVE Counted(w)'
      <4>1. CASE w = u
        BY <1>1, <1>4, <2>3, <2>5, <3>1, <3>3, <3>5, <3>6, <4>1 DEF Counted
      <4>2. CASE w # u
        BY <1>4, <1>5, <2>3, <2>5, <3>6, <4>2
      <4> QED
        BY <4>1, <4>2
    <3>9. entries[u] # NoEntry /\ entries'[u] # NoEntry
      <4>1. entries[u].refs # 0 /\ entries'[u].refs # 0
        BY <1>2, <3>5, <3>6
      <4> QED
        BY <4>1 DEF NoEntry
    <3>10. InUse' = InUse
      BY <1>1, <3>6, <3>9 DEF InUse
    <3>11. RoomKept'
      BY <1>4, <2>1, <2>5, <3>10 DEF RoomKept, Changing
    <3>12. ASSUME NEW p \in live PROVE Owned(p)'
      <4>1. \E w \in VLinks : entries[w].proc = p
        BY <1>1, <1>2, <1>4, <2>5, <3>12 DEF Owned, Changing
      <4> QED
        BY <3>6, <4>1 DEF Owned
    <3>13. PoolInv'
      BY <1>1, <2>2, <2>5, <3>8, <3>11, <3>12 DEF XrayInv, PoolInv, ShuttingDown
    <3> QED
      BY <2>1, <3>7, <3>13 DEF XrayInv
  <2> QED
    BY <2>4, <2>5
<1> QED
  BY <1>6, <1>7 DEF ReleaseRuntime

(* Processes end on their own, or the Core is asked to close.              *)
LEMMA PoolUnmoved ==
  ASSUME XrayInv, UNCHANGED <<handler, entries, mine>>, live' \subseteq live,
         shut' = shut \/ (shut = "no" /\ shut' = "asked")
  PROVE  PoolInv'
<1>1. /\ InUse' = InUse /\ (Changing' <=> Changing) /\ (ShuttingDown' <=> ShuttingDown)
      /\ \A u \in VLinks : Users(u)' = Users(u)
  BY DEF InUse, Changing, ShuttingDown, Users
<1>2. ASSUME NEW u \in VLinks, Counted(u) PROVE Counted(u)'
  BY <1>1, <1>2 DEF Counted
<1>3. RoomKept => RoomKept'
  BY <1>1 DEF RoomKept
<1>4. \A p \in live : Owned(p) => Owned(p)'
  BY DEF Owned
<1>5. shut' = "closed" => live' = {}
  BY DEF XrayInv, PoolInv
<1>6. \A t \in VTunnels : handler'[t] \in {"holding", "release", "stopping"} => mine'[t] \in VTunnels
  BY DEF XrayInv, PoolInv
<1> QED
  BY <1>1, <1>2, <1>3, <1>4, <1>5, <1>6 DEF XrayInv, PoolInv

LEMMA DiesKeeps == ASSUME XrayInv, NEW p, XrayDies(p) PROVE XrayInv'
<1>1. live' = live \ {p} /\ UNCHANGED <<handler, line, entries, mine, shut>>
  BY DEF XrayDies
<1>2. LineInv'
  BY <1>1 DEF XrayInv, LineInv, LineOk, HoldsLock
<1>3. XrayTyped'
  BY <1>1 DEF XrayInv, XrayTyped, XrayTypeOK
<1>4. PoolInv'
  BY <1>1, PoolUnmoved
<1> QED
  BY <1>2, <1>3, <1>4 DEF XrayInv

LEMMA ShutDownKeeps == ASSUME XrayInv, ShutDown PROVE XrayInv'
<1>1. /\ shut = "no" /\ shut' = "asked" /\ line' = Append(line, Closer)
      /\ UNCHANGED <<handler, entries, mine, live>>
  BY DEF ShutDown
<1>2. /\ LineOk' /\ ToSet(line)' = ToSet(line) \cup {Closer}
      /\ \A y : HoldsLock(y) => HoldsLock(y)'
  BY <1>1, LineJoins DEF XrayInv, LineInv
<1>3. LineInv'
  BY <1>1, <1>2, XrayAssumption DEF XrayInv, LineInv
<1>4. XrayTyped'
  <2>1. ToSet(line') \subseteq VTunnels \cup {Closer}
    BY <1>2 DEF LineOk, ToSet
  <2> QED
    BY <1>1, <2>1 DEF XrayInv, XrayTyped, XrayTypeOK
<1>5. PoolInv'
  BY <1>1, PoolUnmoved
<1> QED
  BY <1>3, <1>4, <1>5 DEF XrayInv

(* While the Core closes it has the lock: no tunnel starts or stops one.   *)
LEMMA CloseKeeps == ASSUME XrayInv, CloseRuntimes \/ CloseOne PROVE XrayInv'
<1>1. /\ HoldsLock(Closer) /\ shut \in {"asked", "closing"}
      /\ \A t \in VTunnels : handler[t] \notin {"starting", "stopping"}
  <2>1. HoldsLock(Closer) /\ shut \in {"asked", "closing"}
    BY DEF CloseRuntimes, CloseOne, XrayInv, LineInv
  <2> QED
    BY <2>1, OneHolder, XrayAssumption DEF XrayInv, LineInv
<1>2. UNCHANGED <<handler, mine>>
  BY DEF CloseRuntimes, CloseOne
<1>3. ~Changing'
  BY <1>1, <1>2 DEF Changing
<1>4. ASSUME line' = line, shut' = "closing" PROVE LineInv'
  BY <1>1, <1>2, <1>4 DEF XrayInv, LineInv, LineOk, HoldsLock
<1>5. CASE CloseRuntimes
  <2>1. /\ entries' = [u \in VLinks |-> NoEntry] /\ shut' = "closing"
        /\ line' = line /\ live' = live
    BY <1>5 DEF CloseRuntimes
  <2>2. InUse' = {}
    BY <2>1 DEF InUse
  <2>3. XrayTyped'
    BY <1>2, <2>1 DEF XrayInv, XrayTyped, XrayTypeOK, NoEntry
  <2>4. PoolInv'
    BY <1>2, <1>3, <2>1, <2>2 DEF XrayInv, PoolInv, ShuttingDown
  <2> QED
    BY <1>4, <2>1, <2>3, <2>4 DEF XrayInv
<1>6. ASSUME NEW p \in live, live' = live \ {p}, UNCHANGED <<line, shut, entries>>, shut = "closing"
      PROVE  XrayInv'
  <2>1. XrayTyped'
    BY <1>2, <1>6 DEF XrayInv, XrayTyped, XrayTypeOK
  <2>2. PoolInv'
    BY <1>2, <1>3, <1>6 DEF XrayInv, PoolInv, ShuttingDown, InUse
  <2> QED
    BY <1>4, <1>6, <2>1, <2>2 DEF XrayInv
<1>7. ASSUME live = {}, shut' = "closed", line' = Tail(line), UNCHANGED <<live, entries>>,
             shut = "closing"
      PROVE  XrayInv'
  <2>1. LineOk' /\ ToSet(line)' = ToSet(line) \ {Closer}
    BY <1>1, <1>7, LineLeaves DEF XrayInv, LineInv
  <2>2. LineInv'
    BY <1>1, <1>2, <1>7, <2>1, XrayAssumption DEF XrayInv, LineInv
  <2>3. XrayTyped'
    BY <1>2, <1>7, <2>1 DEF XrayInv, XrayTyped, XrayTypeOK
  <2>4. PoolInv'
    BY <1>2, <1>3, <1>7 DEF XrayInv, PoolInv, ShuttingDown, InUse
  <2> QED
    BY <2>2, <2>3, <2>4 DEF XrayInv
<1> QED
  BY <1>5, <1>6, <1>7 DEF CloseOne

LEMMA XrayStep == XrayInv /\ [CoreNext]_coreVars => XrayInv'
<1> SUFFICES ASSUME XrayInv, [CoreNext]_coreVars PROVE XrayInv'
  OBVIOUS
<1>1. CASE UNCHANGED xrayVars
  <2>1. XrayTyped'
    BY <1>1 DEF xrayVars, XrayInv, XrayTyped, XrayTypeOK
  <2>2. LineInv'
    BY <1>1 DEF xrayVars, XrayInv, LineInv, LineOk, HoldsLock
  <2>3. PoolInv'
    BY <1>1, PoolUnmoved DEF xrayVars
  <2> QED
    BY <2>1, <2>2, <2>3 DEF XrayInv
<1>2. \/ UNCHANGED xrayVars
      \/ \E t \in VTunnels :
           \/ AcquireRuntime(t) \/ Started(t) \/ StartFails(t) \/ XrayDies(t)
           \/ EndTunnel(t) \/ ReleaseRuntime(t) \/ Stopped(t)
           \/ \E valid \in BOOLEAN : Decide(t, valid)
      \/ ShutDown \/ CloseRuntimes \/ CloseOne
  BY Zenon DEF CoreNext, In, coreVars
<1> QED
  BY <1>1, <1>2, AcquireKeeps, StartedKeeps, StartFailsKeeps, DiesKeeps, EndKeeps, ReleaseKeeps,
     StoppedKeeps, DecideKeeps, ShutDownKeeps, CloseKeeps

LEMMA XrayStarts == CoreInit => XrayInv
<1> SUFFICES ASSUME CoreInit PROVE XrayInv
  OBVIOUS
<1>1. /\ handler = [t \in VTunnels |-> "out"] /\ mine = [t \in VTunnels |-> NoProc]
      /\ line = <<>> /\ entries = [u \in VLinks |-> NoEntry]
      /\ live = {} /\ shut = "no"
  BY DEF CoreInit, XrayInit
<1>2. LineOk /\ ToSet(line) = {}
  BY <1>1, EmptySeq DEF LineOk, ToSet
<1>3. XrayTyped
  BY <1>1, <1>2 DEF XrayTyped, XrayTypeOK, NoEntry
<1>4. LineInv
  BY <1>1, <1>2 DEF LineInv, AtLock
<1>5. InUse = {} /\ ~Changing /\ \A u \in VLinks : Users(u) = {}
  BY <1>1 DEF InUse, Changing, Users
<1>6. RoomKept
  BY <1>1, <1>5, FS_EmptySet, XrayAssumption DEF RoomKept, Changing
<1>7. ASSUME NEW u \in VLinks PROVE Counted(u)
  <2>1. entries[u] = NoEntry /\ entries[u].refs = 0
    BY <1>1 DEF NoEntry
  <2> QED
    BY <1>5, <2>1, FS_EmptySet DEF Counted
<1>8. PoolInv
  BY <1>1, <1>5, <1>6, <1>7 DEF PoolInv, ShuttingDown
<1> QED
  BY <1>3, <1>4, <1>8 DEF XrayInv

(* A process is the one of an entry, or the one that is started or stopped.*)
LEMMA ProcessesFit ==
  ASSUME XrayInv, ~ShuttingDown
  PROVE  Cardinality(live) <= MaxRuntimes
<1> DEFINE E == {entries[u].proc : u \in InUse}
           B == {p \in VTunnels : \/ handler[p] = "starting"
                                  \/ \E t \in VTunnels : handler[t] = "stopping" /\ mine[t] = p}
<1>1. RoomKept /\ \A p \in live : Owned(p)
  BY DEF XrayInv, PoolInv
<1>2. live \subseteq E \cup B
  <2> SUFFICES ASSUME NEW p \in live PROVE p \in E \cup B
    OBVIOUS
  <2>1. p \in VTunnels /\ p # NoProc
    BY XrayAssumption DEF XrayInv, XrayTyped, XrayTypeOK
  <2>2. ASSUME NEW u \in VLinks, entries[u].proc = p PROVE u \in InUse
    BY <2>1, <2>2 DEF InUse, NoEntry
  <2> QED
    BY <1>1, <2>1, <2>2 DEF Owned
<1>3. IsFiniteSet(E) /\ Cardinality(E) \in Nat /\ Cardinality(E) <= Cardinality(InUse)
  <2> DEFINE f == [u \in InUse |-> entries[u].proc]
  <2>1. f \in Surjection(InUse, E)
    BY DEF Surjection
  <2> QED
    BY <2>1, InUseFinite, FS_Surjection, FS_CardinalityType
<1>4. IsFiniteSet(B) /\ Cardinality(B) \in Nat
  BY XrayAssumption, FS_Subset, FS_CardinalityType
<1>5. CASE ~Changing
  <2>1. B = {}
    BY <1>5 DEF Changing
  <2> QED
    BY <1>1, <1>2, <1>3, <2>1, FS_Subset, FS_CardinalityType, InUseFinite, XrayAssumption DEF RoomKept
<1>6. CASE Changing
  <2>1. PICK t \in VTunnels : handler[t] \in {"starting", "stopping"}
    BY <1>6 DEF Changing
  <2>2. \A s \in VTunnels : handler[s] \in {"starting", "stopping"} => s = t
    BY <2>1, OneHolder DEF XrayInv, LineInv
  <2>3. PICK x : B \subseteq {x}
    <3>1. CASE handler[t] = "starting"
      <4>1. B \subseteq {t}
        BY <2>2, <3>1
      <4> QED
        BY <4>1
    <3>2. CASE handler[t] = "stopping"
      <4>1. B \subseteq {mine[t]}
        BY <2>2, <3>2
      <4> QED
        BY <4>1
    <3> QED
      BY <2>1, <3>1, <3>2
  <2> HIDE DEF E, B
  <2>4. live \subseteq E \cup {x}
    BY <1>2, <2>3
  <2>5. IsFiniteSet(E \cup {x}) /\ Cardinality(E \cup {x}) <= Cardinality(E) + 1
    BY <1>3, FS_AddElement
  <2>6. Cardinality(live) <= Cardinality(E \cup {x})
    BY <2>4, <2>5, FS_Subset
  <2>7. Cardinality(InUse) < MaxRuntimes
    BY <1>1, <1>6 DEF RoomKept
  <2>8. Cardinality(live) \in Nat /\ Cardinality(E \cup {x}) \in Nat
    BY <2>4, <2>5, FS_Subset, FS_CardinalityType
  <2> QED
    BY <1>3, <2>5, <2>6, <2>7, <2>8, InUseFinite, XrayAssumption
<1> QED
  BY <1>5, <1>6

LEMMA XrayHolds == XrayInv => RuntimesHold
<1> SUFFICES ASSUME XrayInv PROVE RuntimesCount /\ NothingLeft
  BY DEF RuntimesHold, XrayInv, XrayTyped
<1>1. RuntimesCount
  BY ProcessesFit DEF RuntimesCount, XrayInv, PoolInv, Counted, Owned
<1>2. NothingLeft
  <2>1. CASE shut = "closed"
    BY <2>1 DEF NothingLeft, XrayInv, PoolInv, ShuttingDown
  <2>2. CASE shut # "closed" /\ (\A t \in VTunnels : handler[t] \in {"out", "done"}) /\ line = <<>>
    <3>1. ~ShuttingDown
      BY <2>2 DEF ShuttingDown, XrayInv, LineInv, HoldsLock
    <3>2. \A u \in VLinks : Users(u) = {} /\ Counted(u)
      BY <2>2, <3>1 DEF Users, XrayInv, PoolInv
    <3>3. \A u \in VLinks : entries[u] = NoEntry
      BY <3>2, FS_EmptySet DEF Counted
    <3>4. live = {}
      <4>1. SUFFICES ASSUME NEW p \in live PROVE FALSE
        OBVIOUS
      <4>2. Owned(p) /\ p \in VTunnels /\ p # NoProc
        BY <3>1, <4>1, XrayAssumption DEF XrayInv, PoolInv, XrayTyped, XrayTypeOK
      <4> QED
        BY <2>2, <3>3, <4>2 DEF Owned, NoEntry
    <3> QED
      BY <3>3, <3>4 DEF NothingLeft, InUse
  <2> QED
    BY <2>1, <2>2 DEF NothingLeft
<1> QED
  BY <1>1, <1>2

(* The pool of Xray processes, for any tunnels and links and any bound: a  *)
(* tunnel that runs has the one process of its link, which counts exactly  *)
(* its tunnels, there are never more processes than allowed, and none is   *)
(* left when all tunnels are gone or the Core has closed.                  *)
THEOREM RuntimesAreCounted == CoreSpec => []RuntimesHold
  BY XrayStarts, XrayStep, XrayHolds, PTL DEF CoreSpec

-----------------------------------------------------------------------------
(* The bandwidth cap of a link (SpeedLimiter).                             *)
(* What a refill would make of a bucket is what one that is filled at every*)
(* tick holds: the age of a bucket stands for the ticks it missed.         *)
Made == {g \in Gens : buckets[g] # Unmade}

BucketRecord == [rate : Nat, tokens : Nat, age : Nat]

SpeedTyped ==
  /\ speed \in Nat /\ current \in Gens \cup {0}
  /\ buckets \in [Gens -> BucketRecord]
  /\ waiter \in [SpeedPumps -> [left : Nat, bucket : Gens \cup {0}, sleep : {0, 1}]]
  /\ counts.edits \in 0..MaxSpeedEdits
  /\ ideal \in [Gens -> Nat]

AsIdeal(b, i) ==
  IF b = Unmade THEN i = 0
  ELSE b.rate > 0 /\ i = Lesser(CapacityOf(b.rate), b.tokens + b.age * b.rate)

SpeedInv ==
  /\ SpeedTyped
  /\ \A g \in Gens : AsIdeal(buckets[g], ideal[g])
  /\ current # 0 => speed > 0 /\ buckets[current].rate = speed
  /\ Cardinality(Made) <= counts.edits + (IF current = 0 THEN 0 ELSE 1)
  /\ \A c \in SpeedPumps : waiter[c] = AtRest \/ (waiter[c].left > 0 /\ waiter[c].bucket \in Made)

LEMMA Products ==
  /\ \A a, r \in Nat : a * r \in Nat
  /\ \A r \in Nat : 0 * r = 0
  /\ \A a, r \in Nat : (a + 1) * r = a * r + r
  /\ \A a, r \in Nat : r > 0 => a * r >= a
<1>1. \A a, r \in Nat : a * r \in Nat
  OBVIOUS
<1>2. \A r \in Nat : 0 * r = 0
  OBVIOUS
<1>3. \A a, r \in Nat : (a + 1) * r = a * r + r
  OBVIOUS
<1>4. \A a, r \in Nat : r > 0 => a * r >= a
  OBVIOUS
<1> QED
  BY <1>1, <1>2, <1>3, <1>4

LEMMA Capacities == \A r \in Nat : CapacityOf(r) \in Nat
  BY SpeedAssumption DEF CapacityOf

(* A tick, counted in the age of a bucket, fills it as if it was refilled, *)
(* also when the age has reached its bound.                                *)
LEMMA TickFills ==
  ASSUME NEW r \in Nat \ {0}, NEW t \in Nat, NEW a \in Nat, NEW K \in Nat
  PROVE  Lesser(K, Lesser(K, t + a * r) + r) = Lesser(K, t + Lesser(a + 1, K) * r)
<1>1. PICK x \in Nat : x = a * r
  BY Products
<1>2. (a + 1) * r = x + r /\ x >= a
  BY <1>1, Products
<1>3. CASE a + 1 <= K
  <2>1. Lesser(a + 1, K) * r = x + r
    BY <1>2, <1>3 DEF Lesser
  <2>2. \A n, m, k \in Nat : Lesser(k, Lesser(k, n) + m) = Lesser(k, n + m)
    BY DEF Lesser
  <2>3. t + x \in Nat /\ t + (x + r) = (t + x) + r
    BY <1>1
  <2> QED
    BY <1>1, <2>1, <2>2, <2>3
<1>4. CASE ~(a + 1 <= K)
  <2>1. Lesser(a + 1, K) = K
    BY <1>4 DEF Lesser
  <2>2. PICK y \in Nat : y = K * r
    BY Products
  <2>3. y >= K
    BY <2>2, Products
  <2>4. Lesser(K, t + y) = K
    BY <2>3 DEF Lesser
  <2>5. Lesser(K, t + x) = K
    BY <1>1, <1>2, <1>4 DEF Lesser
  <2>6. Lesser(K, K + r) = K
    BY DEF Lesser
  <2> QED
    BY <1>1, <2>1, <2>2, <2>4, <2>5, <2>6
<1> QED
  BY <1>3, <1>4

(* One round at a bucket, new or made: it takes what there is.             *)
LEMMA RoundTakes ==
  ASSUME SpeedInv, NEW c \in SpeedPumps, NEW n \in Nat, NEW g \in Gens, NEW b \in BucketRecord,
         \/ b = buckets[g] /\ g \in Made
         \/ /\ buckets[g] = Unmade /\ b.rate > 0
            /\ b.tokens = CapacityOf(b.rate) /\ b.age = 0,
         Round(c, n, g, b)
  PROVE  /\ buckets' \in [Gens -> BucketRecord] /\ ideal' \in [Gens -> Nat]
         /\ \A h \in Gens : AsIdeal(buckets'[h], ideal'[h])
         /\ buckets'[g] # Unmade /\ buckets'[g].rate = b.rate
         /\ \A h \in Gens \ {g} : buckets'[h] = buckets[h]
         /\ waiter' \in [SpeedPumps -> [left : Nat, bucket : Gens \cup {0}, sleep : {0, 1}]]
         /\ \A d \in SpeedPumps \ {c} : waiter'[d] = waiter[d]
         /\ waiter'[c] = AtRest \/ (waiter'[c].left > 0 /\ waiter'[c].bucket = g)
<1> DEFINE K == CapacityOf(b.rate)
           full == Lesser(K, b.tokens + b.age * b.rate)
           take == Taken(n, full)
           rest == n - take
           new == [b EXCEPT !.tokens = full - take, !.age = 0]
           seat == IF rest = 0 THEN AtRest
                   ELSE [left |-> rest, bucket |-> g,
                         sleep |-> IF Lesser(rest, K) >= b.rate THEN 1 ELSE 0]
           was == IF buckets[g] = Unmade THEN K ELSE ideal[g]
<1>1. /\ b.rate \in Nat /\ b.tokens \in Nat /\ b.age \in Nat /\ K \in Nat
      /\ b.age * b.rate \in Nat
  BY Capacities, Products DEF BucketRecord
<1>2. full \in 0..K
  BY <1>1 DEF Lesser
<1>3. b.rate > 0 /\ was = full
  <2>1. CASE b = buckets[g] /\ g \in Made
    BY <2>1 DEF Made, SpeedInv, AsIdeal
  <2>2. CASE /\ buckets[g] = Unmade /\ b.rate > 0
             /\ b.tokens = K /\ b.age = 0
    <3>1. b.age * b.rate = 0
      BY <1>1, <2>2, Products
    <3> QED
      BY <1>1, <2>2, <3>1 DEF Lesser
  <2> QED
    BY <2>1, <2>2
<1>4. /\ buckets' = [buckets EXCEPT ![g] = new]
      /\ ideal' = [ideal EXCEPT ![g] = was - take]
      /\ waiter' = [waiter EXCEPT ![c] = seat]
  <2>1. Refilled(b).tokens = full /\ [Refilled(b) EXCEPT !.tokens = @ - take] = new
    BY DEF Refilled, BucketRecord
  <2> QED
    BY <2>1 DEF Round
<1>5. take \in 0..full /\ rest \in Nat /\ full - take \in Nat /\ was - take \in Nat
  BY <1>1, <1>2, <1>3 DEF Taken, Lesser
<1>6. new \in BucketRecord /\ new.rate = b.rate /\ new.tokens = full - take /\ new.age = 0
  BY <1>5 DEF BucketRecord
<1>7. seat \in [left : Nat, bucket : Gens \cup {0}, sleep : {0, 1}]
  BY <1>5 DEF AtRest
<1>8. seat = AtRest \/ (seat.left > 0 /\ seat.bucket = g)
  BY <1>5
<1>9. new # Unmade /\ AsIdeal(new, was - take)
  <2>1. new # Unmade
    <3>1. Unmade.rate = 0
      BY DEF Unmade
    <3> HIDE DEF new, full, take
    <3> QED
      BY <1>3, <1>6, <3>1
  <2>2. 0 * b.rate = 0
    BY <1>1, Products
  <2>3. Lesser(K, (full - take) + 0 * b.rate) = full - take
    BY <1>1, <1>2, <1>5, <2>2 DEF Lesser
  <2> QED
    BY <1>3, <1>6, <2>1, <2>3 DEF AsIdeal
<1>10. new \in BucketRecord /\ new.rate = b.rate /\ was - take \in Nat
  BY <1>5, <1>6
<1> HIDE DEF K, full, take, rest, new, seat, was
<1>11. /\ buckets' \in [Gens -> BucketRecord] /\ ideal' \in [Gens -> Nat]
       /\ waiter' \in [SpeedPumps -> [left : Nat, bucket : Gens \cup {0}, sleep : {0, 1}]]
  BY <1>4, <1>7, <1>10 DEF SpeedInv, SpeedTyped
<1>12. buckets'[g] = new /\ ideal'[g] = was - take /\ waiter'[c] = seat
  BY <1>4 DEF SpeedInv, SpeedTyped
<1>13. /\ \A h \in Gens \ {g} : buckets'[h] = buckets[h] /\ ideal'[h] = ideal[h]
       /\ \A d \in SpeedPumps \ {c} : waiter'[d] = waiter[d]
  BY <1>4 DEF SpeedInv, SpeedTyped
<1>14. \A h \in Gens : AsIdeal(buckets'[h], ideal'[h])
  <2> SUFFICES ASSUME NEW h \in Gens PROVE AsIdeal(buckets'[h], ideal'[h])
    OBVIOUS
  <2>1. CASE h = g
    BY Zenon, <1>9, <1>12, <2>1
  <2>2. CASE h # g
    <3>1. AsIdeal(buckets[h], ideal[h])
      BY DEF SpeedInv
    <3> QED
      BY <1>13, <2>2, <3>1
  <2> QED
    BY <2>1, <2>2
<1> QED
  BY <1>8, <1>9, <1>10, <1>11, <1>12, <1>13, <1>14

LEMMA MadeMoves ==
  ASSUME NEW g \in Gens, buckets'[g] # Unmade,
         \A h \in Gens \ {g} : buckets'[h] = buckets[h]
  PROVE  Made' = Made \cup {g}
  BY DEF Made

LEMMA MadeSize == Gens = 1..(MaxSpeedEdits + 1) /\ IsFiniteSet(Gens)
                  /\ Cardinality(Gens) = MaxSpeedEdits + 1
                  /\ IsFiniteSet(Made) /\ Cardinality(Made) \in Nat
<1>1. IsFiniteSet(Gens) /\ Cardinality(Gens) = MaxSpeedEdits + 1
  BY SpeedAssumption, FS_Interval DEF Gens
<1>2. Made \subseteq Gens
  BY DEF Made
<1> QED
  BY <1>1, <1>2, FS_Subset, FS_CardinalityType DEF Gens

(* A waiter finds the bucket it waits at.                                  *)
LEMMA WakeKeeps ==
  ASSUME SpeedInv, NEW c \in SpeedPumps, Wake(c)
  PROVE  SpeedInv'
<1> DEFINE n == waiter[c].left
           g == waiter[c].bucket
<1>1. n \in Nat /\ g \in Made /\ g \in Gens /\ buckets[g] \in BucketRecord
  BY DEF SpeedInv, SpeedTyped, Wake, Made
<1>2. Round(c, n, g, buckets[g])
  BY DEF Wake
<1>3. speed' = speed /\ current' = current /\ counts' = counts
  BY DEF Wake
<1> HIDE DEF n, g
<1>4. /\ buckets' \in [Gens -> BucketRecord] /\ ideal' \in [Gens -> Nat]
      /\ \A h \in Gens : AsIdeal(buckets'[h], ideal'[h])
      /\ buckets'[g] # Unmade /\ buckets'[g].rate = buckets[g].rate
      /\ \A h \in Gens \ {g} : buckets'[h] = buckets[h]
      /\ waiter' \in [SpeedPumps -> [left : Nat, bucket : Gens \cup {0}, sleep : {0, 1}]]
      /\ \A d \in SpeedPumps \ {c} : waiter'[d] = waiter[d]
      /\ waiter'[c] = AtRest \/ (waiter'[c].left > 0 /\ waiter'[c].bucket = g)
  BY <1>1, <1>2, RoundTakes
<1>5. Made' = Made
  BY <1>1, <1>4, MadeMoves
<1>6. SpeedTyped'
  BY <1>3, <1>4 DEF SpeedInv, SpeedTyped
<1>7. (current # 0 => speed > 0 /\ buckets[current].rate = speed)'
  BY <1>3, <1>4 DEF SpeedInv, SpeedTyped
<1>8. (\A d \in SpeedPumps : waiter[d] = AtRest \/ (waiter[d].left > 0 /\ waiter[d].bucket \in Made))'
  BY <1>1, <1>4, <1>5 DEF SpeedInv, AtRest
<1>9. (Cardinality(Made) <= counts.edits + (IF current = 0 THEN 0 ELSE 1))'
  BY <1>3, <1>5 DEF SpeedInv
<1> QED
  BY <1>4, <1>6, <1>7, <1>8, <1>9 DEF SpeedInv

(* A bucket is made only when the edits before it leave one unmade.        *)
LEMMA ThrottleKeeps ==
  ASSUME SpeedInv, NEW c \in SpeedPumps, NEW n \in ChunkSizes, Throttle(c, n)
  PROVE  SpeedInv'
<1> DEFINE kept == current # 0 /\ buckets[current].rate = speed
           g == IF kept THEN current ELSE CHOOSE h \in Gens : buckets[h] = Unmade
           b == IF kept THEN buckets[g]
                ELSE [rate |-> speed, tokens |-> CapacityOf(speed), age |-> 0]
<1>1. kept <=> current # 0
  BY DEF SpeedInv
<1>2. n \in Nat /\ speed \in Nat /\ speed > 0 /\ CapacityOf(speed) \in Nat
  BY SpeedAssumption, Capacities DEF SpeedInv, SpeedTyped, Throttle
<1>3. /\ g \in Gens /\ b \in BucketRecord /\ b.rate = speed
      /\ \/ b = buckets[g] /\ g \in Made
         \/ buckets[g] = Unmade /\ b.rate > 0 /\ b.tokens = CapacityOf(b.rate) /\ b.age = 0
      /\ Cardinality(Made \cup {g}) <= counts.edits + 1
  <2>1. CASE kept
    <3>1. g = current /\ g \in Gens /\ b = buckets[g] /\ b.rate = speed /\ b \in BucketRecord
      BY <2>1 DEF SpeedInv, SpeedTyped
    <3>2. Unmade.rate = 0
      BY DEF Unmade
    <3>3. g \in Made
      BY <1>2, <3>1, <3>2 DEF Made
    <3>4. Made \cup {g} = Made
      BY <3>3
    <3>5. Cardinality(Made) <= counts.edits + 1
      BY <1>1, <2>1 DEF SpeedInv
    <3> HIDE DEF g, b, kept
    <3> QED
      BY <3>1, <3>3, <3>4, <3>5
  <2>2. CASE ~kept
    <3>1. g = CHOOSE h \in Gens : buckets[h] = Unmade
      BY <2>2
    <3>2. b.rate = speed /\ b.tokens = CapacityOf(speed) /\ b.age = 0 /\ b \in BucketRecord
      BY <1>2, <2>2 DEF BucketRecord
    <3>3. Cardinality(Made) <= counts.edits /\ counts.edits \in Nat /\ counts.edits <= MaxSpeedEdits
      BY <1>1, <2>2, SpeedAssumption DEF SpeedInv, SpeedTyped
    <3>4. Made # Gens
      BY <3>3, MadeSize, SpeedAssumption
    <3>5. \E h \in Gens : buckets[h] = Unmade
      BY <3>4 DEF Made
    <3> HIDE DEF b, kept
    <3>6. g \in Gens /\ buckets[g] = Unmade
      BY <3>1, <3>5
    <3> HIDE DEF g
    <3>7. g \notin Made
      BY <3>6 DEF Made
    <3>8. Cardinality(Made \cup {g}) = Cardinality(Made) + 1
      BY <3>7, MadeSize, FS_AddElement
    <3> QED
      BY <1>2, <3>2, <3>3, <3>6, <3>8, MadeSize
  <2> QED
    BY <2>1, <2>2
<1>4. Round(c, n, g, b) /\ current' = g /\ speed' = speed
      /\ counts' = [counts EXCEPT !.chunks = @ + 1]
  <2>1. current' = g /\ speed' = speed /\ counts' = [counts EXCEPT !.chunks = @ + 1]
    BY DEF Throttle
  <2>2. Round(c, n, g, IF kept THEN buckets[g]
                       ELSE [rate |-> speed, tokens |-> CapacityOf(speed), age |-> 0])
    BY Zenon DEF Throttle
  <2> QED
    BY Zenon, <2>1, <2>2
<1>5. current' = g /\ speed' = speed /\ counts'.edits = counts.edits
  BY <1>4 DEF SpeedInv, SpeedTyped
<1> HIDE DEF g, b, kept
<1>6. /\ buckets' \in [Gens -> BucketRecord] /\ ideal' \in [Gens -> Nat]
      /\ \A h \in Gens : AsIdeal(buckets'[h], ideal'[h])
      /\ buckets'[g] # Unmade /\ buckets'[g].rate = b.rate
      /\ \A h \in Gens \ {g} : buckets'[h] = buckets[h]
      /\ waiter' \in [SpeedPumps -> [left : Nat, bucket : Gens \cup {0}, sleep : {0, 1}]]
      /\ \A d \in SpeedPumps \ {c} : waiter'[d] = waiter[d]
      /\ waiter'[c] = AtRest \/ (waiter'[c].left > 0 /\ waiter'[c].bucket = g)
  BY <1>2, <1>3, <1>4, RoundTakes
<1>7. Made' = Made \cup {g} /\ g # 0
  BY <1>3, <1>6, MadeMoves DEF Gens
<1>8. SpeedTyped'
  BY <1>2, <1>3, <1>5, <1>6 DEF SpeedInv, SpeedTyped
<1>9. (current # 0 => speed > 0 /\ buckets[current].rate = speed)'
  BY <1>2, <1>3, <1>5, <1>6
<1>10. (\A d \in SpeedPumps : waiter[d] = AtRest \/ (waiter[d].left > 0 /\ waiter[d].bucket \in Made))'
  BY <1>6, <1>7 DEF SpeedInv
<1>11. (Cardinality(Made) <= counts.edits + (IF current = 0 THEN 0 ELSE 1))'
  BY <1>3, <1>5, <1>7
<1> QED
  BY <1>6, <1>8, <1>9, <1>10, <1>11 DEF SpeedInv

LEMMA SetSpeedKeeps ==
  ASSUME SpeedInv, NEW r \in SpeedRates, SetSpeed(r)
  PROVE  SpeedInv'
<1>1. /\ speed' = r /\ current' = 0 /\ buckets' = buckets /\ waiter' = waiter /\ ideal' = ideal
      /\ counts'.edits = counts.edits + 1 /\ counts.edits < MaxSpeedEdits
  BY DEF SetSpeed, SpeedInv, SpeedTyped
<1>2. Made' = Made
  BY <1>1 DEF Made
<1>3. SpeedTyped'
  BY <1>1, SpeedAssumption DEF SpeedInv, SpeedTyped
<1>4. (Cardinality(Made) <= counts.edits + (IF current = 0 THEN 0 ELSE 1))'
  <2>1. counts.edits \in Nat /\ Cardinality(Made) <= counts.edits + 1
    BY MadeSize, SpeedAssumption DEF SpeedInv, SpeedTyped
  <2> QED
    BY <1>1, <1>2, <2>1
<1> QED
  BY <1>1, <1>2, <1>3, <1>4 DEF SpeedInv

(* Time passes for every bucket made, and for no other.                    *)
LEMMA TickAgrees ==
  ASSUME NEW b \in BucketRecord, NEW i \in Nat, AsIdeal(b, i), b # Unmade
  PROVE  /\ [b EXCEPT !.age = Lesser(b.age + 1, CapacityOf(b.rate))] \in BucketRecord
         /\ [b EXCEPT !.age = Lesser(b.age + 1, CapacityOf(b.rate))].rate = b.rate
         /\ [b EXCEPT !.age = Lesser(b.age + 1, CapacityOf(b.rate))] # Unmade
         /\ AsIdeal([b EXCEPT !.age = Lesser(b.age + 1, CapacityOf(b.rate))],
                    Lesser(CapacityOf(b.rate), i + b.rate))
<1> DEFINE K == CapacityOf(b.rate)
           old == Lesser(b.age + 1, K)
           new == [b EXCEPT !.age = old]
<1>1. /\ b.rate \in Nat \ {0} /\ b.tokens \in Nat /\ b.age \in Nat /\ K \in Nat
      /\ i = Lesser(K, b.tokens + b.age * b.rate)
  BY Capacities DEF BucketRecord, AsIdeal
<1>2. old \in Nat
  BY <1>1 DEF Lesser
<1>3. Lesser(K, i + b.rate) = Lesser(K, b.tokens + old * b.rate)
  <2> HIDE DEF K
  <2>1. Lesser(K, Lesser(K, b.tokens + b.age * b.rate) + b.rate)
          = Lesser(K, b.tokens + Lesser(b.age + 1, K) * b.rate)
    <3>1. PICK r \in Nat \ {0}, t \in Nat, a \in Nat, k \in Nat :
            r = b.rate /\ t = b.tokens /\ a = b.age /\ k = K
      BY <1>1
    <3>2. Lesser(k, Lesser(k, t + a * r) + r) = Lesser(k, t + Lesser(a + 1, k) * r)
      BY TickFills
    <3> QED
      BY Zenon, <3>1, <3>2
  <2> QED
    BY Zenon, <1>1, <2>1
<1> HIDE DEF old, K
<1>4. new \in BucketRecord /\ new.rate = b.rate /\ new.tokens = b.tokens /\ new.age = old
  BY <1>2 DEF BucketRecord
<1> HIDE DEF new
<1>5. new # Unmade
  <2>1. Unmade.rate = 0
    BY DEF Unmade
  <2> QED
    BY <1>1, <1>4, <2>1
<1>6. AsIdeal(new, Lesser(K, i + b.rate))
  BY <1>1, <1>3, <1>4, <1>5 DEF AsIdeal, K
<1> QED
  BY <1>4, <1>5, <1>6 DEF new, K, old

LEMMA SpeedTickKeeps ==
  ASSUME SpeedInv, SpeedTick
  PROVE  SpeedInv'
<1> DEFINE Older(g) == [buckets[g] EXCEPT !.age = Lesser(buckets[g].age + 1, CapacityOf(buckets[g].rate))]
           Filled(g) == Lesser(CapacityOf(buckets[g].rate), ideal[g] + buckets[g].rate)
<1>1. /\ buckets' = [g \in Gens |-> IF buckets[g] = Unmade THEN Unmade ELSE Older(g)]
      /\ ideal' = [g \in Gens |-> Filled(g)]
      /\ waiter' = [c \in SpeedPumps |-> [waiter[c] EXCEPT !.sleep = 0]]
      /\ speed' = speed /\ current' = current /\ counts' = counts
  BY Zenon DEF SpeedTick
<1>2. \A g \in Gens : buckets[g] \in BucketRecord /\ ideal[g] \in Nat /\ AsIdeal(buckets[g], ideal[g])
  BY DEF SpeedInv, SpeedTyped
<1>3. \A g \in Gens : buckets[g] # Unmade =>
        Older(g) \in BucketRecord /\ Older(g).rate = buckets[g].rate /\ Older(g) # Unmade
        /\ AsIdeal(Older(g), Filled(g))
  BY Zenon, <1>2, TickAgrees
<1>4. \A g \in Gens : buckets[g] = Unmade => Filled(g) = 0
  <2> SUFFICES ASSUME NEW g \in Gens, buckets[g] = Unmade PROVE Filled(g) = 0
    OBVIOUS
  <2>1. ideal[g] = 0 /\ buckets[g].rate = 0
    BY <1>2 DEF AsIdeal, Unmade
  <2>2. PICK k \in Nat : k = CapacityOf(buckets[g].rate)
    BY <2>1, Capacities
  <2> QED
    BY <2>1, <2>2 DEF Lesser
<1>5. \A g \in Gens : Filled(g) \in Nat
  <2> SUFFICES ASSUME NEW g \in Gens PROVE Filled(g) \in Nat
    OBVIOUS
  <2>1. buckets[g].rate \in Nat /\ ideal[g] \in Nat /\ CapacityOf(buckets[g].rate) \in Nat
    BY <1>2, Capacities DEF BucketRecord
  <2> QED
    BY <2>1 DEF Lesser
<1> HIDE DEF Older, Filled
<1>6. Unmade \in BucketRecord
  BY DEF Unmade, BucketRecord
<1>7. buckets' \in [Gens -> BucketRecord] /\ ideal' \in [Gens -> Nat]
  BY <1>1, <1>3, <1>5, <1>6
<1>8. \A g \in Gens : buckets[g] = Unmade => buckets'[g] = Unmade
  BY <1>1
<1>9. \A g \in Gens : buckets[g] # Unmade =>
        buckets'[g] = Older(g) /\ buckets'[g] # Unmade /\ buckets'[g].rate = buckets[g].rate
  BY <1>1, <1>3
<1>10. Made' = Made
  BY <1>8, <1>9 DEF Made
<1>11. (\A g \in Gens : AsIdeal(buckets[g], ideal[g]))'
  <2> SUFFICES ASSUME NEW g \in Gens PROVE AsIdeal(buckets'[g], ideal'[g])
    OBVIOUS
  <2>1. ideal'[g] = Filled(g)
    BY <1>1
  <2>2. CASE buckets[g] = Unmade
    BY <1>4, <1>8, <2>1, <2>2 DEF AsIdeal
  <2>3. CASE buckets[g] # Unmade
    BY Zenon, <1>3, <1>9, <2>1, <2>3
  <2> QED
    BY <2>2, <2>3
<1>12. \A c \in SpeedPumps : waiter[c] \in [left : Nat, bucket : Gens \cup {0}, sleep : {0, 1}]
  BY DEF SpeedInv, SpeedTyped
<1>13. \A c \in SpeedPumps :
         /\ waiter'[c] \in [left : Nat, bucket : Gens \cup {0}, sleep : {0, 1}]
         /\ waiter'[c].left = waiter[c].left /\ waiter'[c].bucket = waiter[c].bucket
         /\ waiter[c] = AtRest => waiter'[c] = AtRest
  BY <1>1, <1>12 DEF AtRest
<1>14. waiter' \in [SpeedPumps -> [left : Nat, bucket : Gens \cup {0}, sleep : {0, 1}]]
  BY <1>1, <1>13
<1>15. SpeedTyped'
  BY <1>1, <1>7, <1>14 DEF SpeedInv, SpeedTyped
<1>16. (\A c \in SpeedPumps : waiter[c] = AtRest \/ (waiter[c].left > 0 /\ waiter[c].bucket \in Made))'
  BY <1>10, <1>13 DEF SpeedInv
<1>17. (current # 0 => speed > 0 /\ buckets[current].rate = speed)'
  <2> SUFFICES ASSUME current # 0 PROVE speed > 0 /\ buckets'[current].rate = speed
    BY <1>1
  <2>1. current \in Gens /\ speed > 0 /\ buckets[current].rate = speed
    BY DEF SpeedInv, SpeedTyped
  <2>2. Unmade.rate = 0
    BY DEF Unmade
  <2>3. speed \in Nat
    BY DEF SpeedInv, SpeedTyped
  <2> QED
    BY <1>9, <2>1, <2>2, <2>3
<1>18. (Cardinality(Made) <= counts.edits + (IF current = 0 THEN 0 ELSE 1))'
  BY <1>1, <1>10 DEF SpeedInv
<1> QED
  BY <1>11, <1>15, <1>16, <1>17, <1>18 DEF SpeedInv

LEMMA SpeedStarts == CoreInit => SpeedInv
<1> SUFFICES ASSUME SpeedInit PROVE SpeedInv
  BY DEF CoreInit
<1>1. Unmade \in BucketRecord
  BY DEF Unmade, BucketRecord
<1>2. SpeedTyped
  BY <1>1, SpeedAssumption DEF SpeedInit, SpeedTyped, AtRest
<1>3. Made = {}
  BY DEF Made, SpeedInit
<1>4. Cardinality(Made) = 0
  BY <1>3, FS_EmptySet
<1> QED
  BY <1>2, <1>4 DEF SpeedInit, SpeedInv, AsIdeal

LEMMA SpeedStep == SpeedInv /\ [CoreNext]_coreVars => SpeedInv'
<1> SUFFICES ASSUME SpeedInv, [CoreNext]_coreVars PROVE SpeedInv'
  OBVIOUS
<1>1. ASSUME UNCHANGED speedVars PROVE SpeedInv'
  BY <1>1 DEF speedVars, SpeedInv, SpeedTyped, Made
<1>2. CASE \E c \in SpeedPumps, n \in ChunkSizes : Throttle(c, n)
  BY <1>2, ThrottleKeeps
<1>3. CASE \E c \in SpeedPumps : Wake(c)
  BY <1>3, WakeKeeps
<1>4. CASE \E r \in SpeedRates : SetSpeed(r)
  BY <1>4, SetSpeedKeeps
<1>5. CASE SpeedTick
  BY <1>5, SpeedTickKeeps
<1>6. CASE In("saver") \/ In("xray") \/ UNCHANGED coreVars
  <2>1. UNCHANGED speedVars
    BY <1>6 DEF In, coreVars
  <2> QED
    BY Zenon, <1>1, <2>1
<1>7. \/ In("saver") \/ In("xray") \/ UNCHANGED coreVars
      \/ \E c \in SpeedPumps, n \in ChunkSizes : Throttle(c, n)
      \/ \E c \in SpeedPumps : Wake(c)
      \/ \E r \in SpeedRates : SetSpeed(r)
      \/ SpeedTick
  BY Zenon DEF CoreNext
<1> QED
  BY Zenon, <1>2, <1>3, <1>4, <1>5, <1>6, <1>7

LEMMA SpeedRespects == SpeedInv => RatesRespected
<1> SUFFICES ASSUME SpeedInv PROVE RatesRespected
  OBVIOUS
<1>1. \A g \in Gens : ideal[g] >= 0 /\ buckets[g].tokens >= 0
  BY DEF SpeedInv, SpeedTyped, BucketRecord
<1>2. Cardinality({g \in Gens : buckets[g] # Unmade}) <= counts.edits + 1
  <2>1. Cardinality(Made) <= counts.edits + 1
    BY MadeSize, SpeedAssumption DEF SpeedInv, SpeedTyped
  <2> QED
    BY <2>1 DEF Made
<1>3. \A c \in SpeedPumps : waiter[c].left > 0 => buckets[waiter[c].bucket] # Unmade
  BY DEF SpeedInv, AtRest, Made
<1> QED
  BY <1>1, <1>2, <1>3 DEF RatesRespected

(* However many pumps draw on the bandwidth cap of a link, and whenever it *)
(* is edited under them, no bucket passes more than one that is filled at  *)
(* every tick, a bucket beyond the first is made for an edit only, and     *)
(* every chunk that waits has a bucket it waits at.                        *)
THEOREM RatesAreKept == CoreSpec => []RatesRespected
<1>1. CoreInit => SpeedInv
  BY SpeedStarts
<1>2. SpeedInv /\ [CoreNext]_coreVars => SpeedInv'
  BY SpeedStep
<1>3. SpeedInv => RatesRespected
  BY SpeedRespects
<1> QED
  BY <1>1, <1>2, <1>3, PTL DEF CoreSpec
=============================================================================
