----------------------- MODULE ChannelRegistryProofs -----------------------
(* Proofs about ChannelRegistry, for every set of threads, names and types. *)
EXTENDS ChannelRegistry, TLAPS

(* The lock: exactly the thread in a locked phase holds it. *)
LockInv == \A t \in Threads : pc[t] \in Locked <=> holder = t

(* In the slot vector s, id is the slot of channel n. *)
NamesSlot(s, id, n) == id \in DOMAIN s /\ s[id].name = n

StaticSlots == \A n \in Names : IsStatic(n) => NamesSlot(slots, IdOf(n), n)

(* The store is one slot behind the registry exactly between the push of a  *)
(* meta and the push of its slot. *)
GrowthInv ==
  /\ (\A t \in Threads : pc[t] # "slot") => Len(slots) = NStatic + Len(dynMetas)
  /\ \A t \in Threads : pc[t] = "slot" =>
       /\ Len(slots) + 1 = NStatic + Len(dynMetas)
       /\ got[t] = Len(slots) + 1
  /\ \A t \in Threads : pc[t] = "publish" => NamesSlot(slots, got[t], req[t].name)

(* Every id in use, wherever it is kept, names its channel's slot. *)
RouteInv == \A n \in Names : topicMap[n].id # 0 => NamesSlot(slots, topicMap[n].id, n)

HeldInv == \A t \in Threads : pc[t] \in {"seed", "route", "emit"} =>
             NamesSlot(slots, got[t], req[t].name)

NonePanicked == \A t \in Threads : pc[t] # "panicked"

(* Every stored sample lies in the slot of its channel. *)
InOwnSlot == \A w \in stored : w[1] \in DOMAIN slots /\ slots[w[1]].name = w[2]

(* A loader never enters the phases of the other registrants. *)
LoaderInv == \A t \in Loaders :
  pc[t] \in Locked \cup {"idle", "lookup", "acquire", "loaded"}

SafetyInv ==
  /\ TypeOK /\ LockInv /\ StaticSlots /\ GrowthInv
  /\ IdsInStep /\ RouteInv /\ HeldInv /\ NonePanicked /\ InOwnSlot

(* A registry built from the configuration is well typed. *)
LEMMA TypeInit == Init => TypeOK
<1>. USE RegistryAssumption
<1>1. (CHOOSE y \in Types : TRUE) \in Types
  OBVIOUS
<1>2. (CHOOSE c \in Channel : TRUE) \in Channel
  <2>1. \E n \in Names, y \in Types : [name |-> n, ty |-> y] \in Channel
    BY DEF Channel
  <2>. QED
    BY <2>1
<1>. QED
  BY <1>1, <1>2 DEF Init, TypeOK, Phases

(* Every variable keeps its type through every action of every registrant. *)
THEOREM TypeCorrect == Spec => []TypeOK
<1>. USE RegistryAssumption
<1>2. TypeOK /\ [Next]_vars => TypeOK'
  <2>. SUFFICES ASSUME TypeOK, [Next]_vars PROVE TypeOK'
    OBVIOUS
  <2>. USE DEF TypeOK, Goto, Phases, Locked, registry, threads
  <2>a. ASSUME NEW t \in Threads
        PROVE AfterRegister(t) \in {"seed", "emit", "loaded"}
    BY DEF AfterRegister
  <2>b. ASSUME NEW t \in Threads PROVE req[t].name \in Names /\ req[t].ty \in Types
    BY DEF Channel
  <2>c. NStatic \in Nat
    BY DEF NStatic
  <2>e. \A t \in Threads : \A c \in Wanted[t] : c \in Channel
    OBVIOUS
  <2>0. ASSUME NEW n \in Names PROVE IdOf(n) \in Nat
    <3>1. CASE IsStatic(n)
      <4>1. (CHOOSE i \in 1..NStatic : Static[i].name = n) \in 1..NStatic
        BY <3>1 DEF IsStatic
      <4>. QED
        BY <3>1, <4>1, <2>c DEF IdOf
    <3>2. CASE ~IsStatic(n)
      BY <3>2 DEF IdOf
    <3>. QED
      BY <3>1, <3>2
  <2>1. ASSUME NEW t \in Threads, NEW c \in Channel,
               StartDrop(t, c) \/ BuildScript(t, c) \/ StartLoad(t, c)
        PROVE TypeOK'
    <3>1. CASE StartDrop(t, c)
      BY <3>1 DEF StartDrop
    <3>2. CASE BuildScript(t, c)
      BY <3>2 DEF BuildScript
    <3>3. CASE StartLoad(t, c)
      BY <3>3 DEF StartLoad
    <3>. QED
      BY <2>1, <3>1, <3>2, <3>3
  <2>2. ASSUME NEW t \in Threads, FirstSample(t) PROVE TypeOK'
    BY <2>2 DEF FirstSample
  <2>3. ASSUME NEW t \in Threads, Lookup(t) PROVE TypeOK'
    <3>1. IdOf(req[t].name) \in Nat
      BY <2>0, <2>b
    <3>2. CASE Return(t, IdOf(req[t].name))
      <4>1. got' \in [Threads -> Nat]
        BY <3>1, <3>2 DEF Return
      <4>2. pc' \in [Threads -> Phases]
        BY <3>2, <2>a DEF Return
      <4>. QED
        BY <2>3, <4>1, <4>2 DEF Lookup
    <3>3. CASE Goto(t, "acquire") /\ UNCHANGED got
      BY <2>3, <3>3 DEF Lookup
    <3>. QED
      BY <2>3, <3>2, <3>3 DEF Lookup
  <2>4. ASSUME NEW t \in Threads, Acquire(t) PROVE TypeOK'
    <3>1. CASE FoundUnderLock(t)
      BY <2>4, <3>1, <2>a, <2>b DEF Acquire, FoundUnderLock, Return
    <3>2. CASE NewUnderLock(t)
      BY <2>4, <3>2 DEF Acquire, NewUnderLock
    <3>. QED
      BY <2>4, <3>1, <3>2 DEF Acquire
  <2>5. ASSUME NEW t \in Threads, PushConfig(t) PROVE TypeOK'
    BY <2>5, <2>a, <2>b, <2>c DEF PushConfig
  <2>6. ASSUME NEW t \in Threads, PushMeta(t) PROVE TypeOK'
    BY <2>6, <2>a, <2>b, <2>c DEF PushMeta, FreshId, NStatic
  <2>7. ASSUME NEW t \in Threads, PushSlot(t) PROVE TypeOK'
    BY <2>7, <2>a, <2>b, <2>c DEF PushSlot
  <2>8. ASSUME NEW t \in Threads, Publish(t) PROVE TypeOK'
    BY <2>8, <2>a, <2>b, <2>c DEF Publish
  <2>d. ASSUME NEW t \in Threads, NEW phase \in Phases, Write(t, phase)
        PROVE pc' \in [Threads -> Phases] /\ stored' \subseteq Nat \X Names
    <3>1. "panicked" \in Phases /\ <<got[t], req[t].name>> \in Nat \X Names
      BY <2>b
    <3>2. pc' \in [Threads -> Phases]
      BY <2>d, <3>1 DEF Write
    <3>3. stored' \subseteq Nat \X Names
      BY <2>d, <3>1 DEF Write, Stores
    <3>. QED
      BY <3>2, <3>3
  <2>9. ASSUME NEW t \in Threads, Seed(t) PROVE TypeOK'
    BY <2>9, <2>d DEF Seed
  <2>10. ASSUME NEW t \in Threads, Route(t) PROVE TypeOK'
    BY <2>10, <2>a, <2>b, <2>c DEF Route
  <2>11. ASSUME NEW t \in Threads, Emit(t) PROVE TypeOK'
    BY <2>11, <2>d DEF Emit
  <2>12. ASSUME NEW n \in Names, Ingest(n) PROVE TypeOK'
    BY <2>12, <2>a, <2>b, <2>c DEF Ingest, Stores
  <2>13. CASE UNCHANGED vars
    BY <2>13 DEF vars
  <2>. QED
    BY <2>1, <2>2, <2>3, <2>4, <2>5, <2>6, <2>7, <2>8, <2>9, <2>10, <2>11,
       <2>12, <2>13, <2>e DEF Next, Step, Register
<1>. QED
  BY TypeInit, <1>2, PTL DEF Spec

-----------------------------------------------------------------------------
(* The slot of a channel keeps its place when the vector grows. *)
LEMMA NamesSlotAppend ==
  ASSUME NEW s \in Seq(Channel), NEW c \in Channel, NEW id, NEW n,
         NamesSlot(s, id, n)
  PROVE  NamesSlot(Append(s, c), id, n)
BY DEF NamesSlot

(* The slot appended last is the slot of its channel. *)
LEMMA NamesSlotLast ==
  ASSUME NEW s \in Seq(Channel), NEW c \in Channel
  PROVE  NamesSlot(Append(s, c), Len(s) + 1, c.name)
BY DEF NamesSlot

(* At most one thread is in a locked phase. *)
LEMMA LockExclusive ==
  ASSUME LockInv, NEW t \in Threads, NEW u \in Threads,
         pc[t] \in Locked, pc[u] \in Locked
  PROVE  t = u
BY DEF LockInv

(* Until a load starts every registrant appends the slot of its channel, and   *)
(* no step breaks the agreement of registry, store and routing table. *)
LEMMA SafetyStep ==
  ASSUME NoReplay, NoReplay', SafetyInv, TypeOK', [Next]_vars
  PROVE  SafetyInv'
<1>. USE RegistryAssumption DEF SafetyInv
<1>a. ASSUME NEW t \in Threads, pc[t] # "idle" \/ pc'[t] # "idle"
      PROVE  t \notin Loaders /\ AfterRegister(t) \in {"seed", "emit"}
  BY <1>a DEF AfterRegister, Threads, NoReplay
<1>b. ASSUME NEW t \in Threads
      PROVE  req[t] \in Channel /\ req[t].name \in Names /\ got[t] \in Nat
  BY DEF TypeOK, Channel
<1>c. NStatic \in Nat /\ slots \in Seq(Channel) /\ dynMetas \in Seq(Channel)
  BY DEF NStatic, TypeOK
<1>d. StaticSlots' <=> \A n \in Names : IsStatic(n) => NamesSlot(slots', IdOf(n), n)
  BY DEF StaticSlots, IsStatic, IdOf, NStatic, NamesSlot
(* Steps that leave the store, the ids and the lock alone. *)
<1>1. ASSUME NEW t \in Threads, NEW c \in Channel,
             StartDrop(t, c) \/ BuildScript(t, c)
      PROVE  SafetyInv'
  <2>1. UNCHANGED <<registry, slots, stored, topicMap, got>>
    BY <1>1 DEF StartDrop, BuildScript
  <2>2. pc[t] \in {"idle", "reserved", "emit"}
    BY <1>1 DEF StartDrop, BuildScript
  <2>3. /\ pc'[t] \in {"lookup", "reserved"}
        /\ \A u \in Threads \ {t} : pc'[u] = pc[u] /\ req'[u] = req[u]
    BY <1>1 DEF StartDrop, BuildScript, Goto, TypeOK
  <2>4. LockInv' /\ GrowthInv'
    BY <2>1, <2>2, <2>3 DEF registry, LockInv, Locked, GrowthInv, NamesSlot, NStatic
  <2>5. HeldInv' /\ NonePanicked'
    BY <2>1, <2>2, <2>3 DEF HeldInv, NonePanicked, NamesSlot
  <2>6. StaticSlots' /\ IdsInStep' /\ RouteInv' /\ InOwnSlot'
    BY <2>1, <1>d DEF registry, StaticSlots, IdsInStep, RouteInv, InOwnSlot, NamesSlot
  <2>. QED
    BY <2>4, <2>5, <2>6
<1>2. ASSUME NEW t \in Threads, FirstSample(t)
      PROVE  SafetyInv'
  BY <1>2, <1>d DEF FirstSample, Goto, TypeOK, registry, LockInv, Locked, StaticSlots,
     GrowthInv, IdsInStep, RouteInv, HeldInv, NonePanicked, InOwnSlot, NamesSlot
<1>3. ASSUME NEW t \in Threads, NEW id, NamesSlot(slots, id, req[t].name), Return(t, id),
             pc[t] \in {"lookup", "acquire"}, UNCHANGED <<registry, slots, stored, topicMap, req>>
      PROVE  SafetyInv'
  <2>1. /\ pc'[t] \in {"seed", "emit"} /\ got'[t] = id
        /\ \A u \in Threads \ {t} : pc'[u] = pc[u] /\ got'[u] = got[u]
    BY <1>3, <1>a DEF Return, Goto, TypeOK
  <2>2. LockInv' /\ GrowthInv'
    BY <1>3, <2>1 DEF registry, LockInv, Locked, GrowthInv, NamesSlot, NStatic
  <2>3. HeldInv' /\ NonePanicked'
    BY <1>3, <2>1 DEF HeldInv, NonePanicked, NamesSlot
  <2>4. StaticSlots' /\ IdsInStep' /\ RouteInv' /\ InOwnSlot'
    BY <1>3, <1>d DEF registry, StaticSlots, IdsInStep, RouteInv, InOwnSlot, NamesSlot
  <2>. QED
    BY <2>2, <2>3, <2>4
<1>4. ASSUME NEW t \in Threads, Lookup(t)
      PROVE  SafetyInv'
  <2>1. CASE IdOf(req[t].name) # 0 /\ Return(t, IdOf(req[t].name))
    <3>1. NamesSlot(slots, IdOf(req[t].name), req[t].name)
      BY <2>1, <1>b DEF StaticSlots, IdsInStep, IdOf, NamesSlot
    <3>. QED
      BY <1>4, <2>1, <3>1, <1>3 DEF Lookup, Locked
  <2>2. CASE Goto(t, "acquire") /\ UNCHANGED got
    BY <1>4, <2>2, <1>d, SMTT(30) DEF Lookup, Goto, TypeOK, registry, LockInv, Locked, StaticSlots,
       GrowthInv, IdsInStep, RouteInv, HeldInv, NonePanicked, InOwnSlot, NamesSlot
  <2>. QED
    BY <1>4, <2>1, <2>2 DEF Lookup
(* Steps that take, use or release the lock. *)
<1>5. ASSUME NEW t \in Threads, Acquire(t)
      PROVE  SafetyInv'
  <2>1. CASE FoundUnderLock(t)
    <3>1. NamesSlot(slots, dynIds[req[t].name], req[t].name)
      BY <2>1, <1>b DEF FoundUnderLock, IdsInStep, NamesSlot
    <3>. QED
      BY <1>5, <2>1, <3>1, <1>3 DEF Acquire, FoundUnderLock, Locked, registry
  <2>2. CASE NewUnderLock(t)
    <3>1. \A u \in Threads : pc[u] \notin Locked
      BY <1>5 DEF Acquire, LockInv
    <3>2. /\ pc'[t] = "config" /\ holder' = t
          /\ \A u \in Threads \ {t} : pc'[u] = pc[u]
      BY <2>2 DEF NewUnderLock, Goto, TypeOK
    <3>3. LockInv'
      BY <3>1, <3>2 DEF LockInv, Locked
    <3>. QED
      BY <1>5, <2>2, <3>2, <3>3, <1>d DEF Acquire, NewUnderLock, StaticSlots,
         GrowthInv, IdsInStep, RouteInv, HeldInv, NonePanicked, InOwnSlot, NamesSlot
  <2>. QED
    BY <1>5, <2>1, <2>2 DEF Acquire
<1>6. ASSUME NEW t \in Threads, PushConfig(t)
      PROVE  SafetyInv'
  BY <1>6, <1>d, SMTT(30) DEF PushConfig, Goto, TypeOK, LockInv, Locked, StaticSlots,
     GrowthInv, IdsInStep, RouteInv, HeldInv, NonePanicked, InOwnSlot, NamesSlot
<1>7. ASSUME NEW t \in Threads, PushMeta(t)
      PROVE  SafetyInv'
  <2>1. /\ pc[t] = "meta" /\ pc'[t] = "slot" /\ got'[t] = NStatic + Len(dynMetas) + 1
        /\ \A u \in Threads \ {t} : pc'[u] = pc[u] /\ got'[u] = got[u]
    BY <1>7 DEF PushMeta, FreshId, Goto, TypeOK
  <2>2. \A u \in Threads \ {t} : pc[u] \notin Locked
    BY <2>1, LockExclusive DEF Locked
  <2>3. LockInv'
    BY <1>7, <2>1 DEF PushMeta, LockInv, Locked
  <2>4. Len(slots) = NStatic + Len(dynMetas)
    BY <2>1, <2>2 DEF GrowthInv, Locked
  <2>5. Len(dynMetas') = Len(dynMetas) + 1
    BY <1>7, <1>b, <1>c DEF PushMeta
  <2>6. GrowthInv'
    <3>1. slots' = slots /\ NStatic' = NStatic /\ Len(slots) \in Nat /\ Len(dynMetas) \in Nat
      BY <1>7, <1>c DEF PushMeta, NStatic
    <3>2. \A u \in Threads : pc'[u] \in {"slot", "publish"} => u = t
      BY <2>1, <2>2 DEF Locked
    <3>3. Len(slots') + 1 = NStatic' + Len(dynMetas') /\ got'[t] = Len(slots') + 1
      BY <2>1, <2>4, <2>5, <3>1, <1>c
    <3>. QED
      BY <2>1, <3>1, <3>2, <3>3 DEF GrowthInv
  <2>7. HeldInv' /\ NonePanicked'
    BY <1>7, <2>1 DEF PushMeta, HeldInv, NonePanicked, NamesSlot
  <2>8. StaticSlots' /\ IdsInStep' /\ RouteInv' /\ InOwnSlot'
    BY <1>7, <1>d DEF PushMeta, StaticSlots, IdsInStep, RouteInv, InOwnSlot, NamesSlot
  <2>. QED
    BY <2>3, <2>6, <2>7, <2>8
<1>8. ASSUME NEW t \in Threads, PushSlot(t)
      PROVE  SafetyInv'
  <2>1. /\ pc[t] = "slot" /\ pc'[t] = "publish"
        /\ \A u \in Threads \ {t} : pc'[u] = pc[u]
    BY <1>8 DEF PushSlot, Goto, TypeOK
  <2>2. slots' = Append(slots, req[t])
    BY <1>8, <2>1, <1>a DEF PushSlot
  <2>3. \A u \in Threads \ {t} : pc[u] \notin Locked
    BY <2>1, LockExclusive DEF Locked
  <2>4. LockInv'
    BY <1>8, <2>1 DEF PushSlot, LockInv, Locked, registry
  <2>5. Len(slots') = Len(slots) + 1
    BY <2>2, <1>b, <1>c
  <2>6. NamesSlot(slots', got[t], req[t].name)
    BY <2>1, <2>2, <1>b, <1>c, NamesSlotLast DEF GrowthInv
  <2>7. \A id, n : NamesSlot(slots, id, n) => NamesSlot(slots', id, n)
    BY <2>2, <1>b, <1>c, NamesSlotAppend
  <2>8. GrowthInv'
    BY <1>8, <2>1, <2>3, <2>5, <2>6 DEF PushSlot, GrowthInv, Locked, registry, NStatic
  <2>9. IdsInStep' /\ InOwnSlot'
    BY <1>8, <2>7 DEF PushSlot, IdsInStep, InOwnSlot, NamesSlot, registry
  <2>10. RouteInv' /\ HeldInv' /\ NonePanicked'
    BY <1>8, <2>1, <2>7 DEF PushSlot, RouteInv, HeldInv, NonePanicked
  <2>. QED
    BY <2>4, <2>7, <2>8, <2>9, <2>10, <1>d DEF StaticSlots
<1>9. ASSUME NEW t \in Threads, Publish(t)
      PROVE  SafetyInv'
  <2>1. /\ pc[t] = "publish" /\ pc'[t] \in {"seed", "emit"} /\ holder' = Nobody
        /\ \A u \in Threads \ {t} : pc'[u] = pc[u]
    BY <1>9, <1>a DEF Publish, Goto, TypeOK
  <2>2. \A u \in Threads \ {t} : pc[u] \notin Locked
    BY <2>1, LockExclusive DEF Locked
  <2>3. LockInv'
    BY <2>1, <2>2 DEF LockInv, Locked
  <2>4. NamesSlot(slots, got[t], req[t].name)
    BY <2>1 DEF GrowthInv
  <2>5. GrowthInv' /\ HeldInv' /\ NonePanicked'
    BY <1>9, <2>1, <2>2, <2>4 DEF Publish, GrowthInv, HeldInv, NonePanicked, Locked, NStatic
  <2>6. IdsInStep'
    BY <1>9, <2>4, <1>b DEF Publish, IdsInStep, NamesSlot, TypeOK
  <2>7. StaticSlots'
    BY <1>9 DEF Publish, StaticSlots, IsStatic, IdOf, NStatic
  <2>. QED
    BY <1>9, <2>3, <2>5, <2>6, <2>7 DEF Publish, RouteInv, InOwnSlot
(* Steps that write samples. *)
<1>10. ASSUME NEW t \in Threads, NEW phase \in {"route", "emit"}, Write(t, phase),
              pc[t] \in {"seed", "emit"}, UNCHANGED <<registry, slots, topicMap, req, got>>
       PROVE  SafetyInv'
  <2>1. NamesSlot(slots, got[t], req[t].name)
    BY <1>10 DEF HeldInv
  <2>2. Stores(got[t], req[t].ty, req[t].name) /\ Goto(t, phase)
    BY <1>10, <2>1 DEF Write, NamesSlot
  <2>3. InOwnSlot'
    BY <1>10, <2>1, <2>2 DEF Stores, InOwnSlot, NamesSlot
  <2>. QED
    BY <1>10, <2>1, <2>2, <2>3, <1>d, SMTT(30) DEF Goto, TypeOK, registry, LockInv, Locked, StaticSlots,
       GrowthInv, IdsInStep, RouteInv, HeldInv, NonePanicked, NamesSlot
<1>11. ASSUME NEW t \in Threads, Seed(t) \/ Emit(t)
       PROVE  SafetyInv'
  BY <1>11, <1>10 DEF Seed, Emit
<1>12. ASSUME NEW t \in Threads, Route(t)
       PROVE  SafetyInv'
  BY <1>12, <1>b, <1>d, SMTT(30) DEF Route, Goto, TypeOK, registry, LockInv, Locked, StaticSlots,
     GrowthInv, IdsInStep, RouteInv, HeldInv, NonePanicked, InOwnSlot, NamesSlot
<1>13. ASSUME NEW n \in Names, Ingest(n)
       PROVE  SafetyInv'
  <2>1. NamesSlot(slots, topicMap[n].id, n)
    BY <1>13, <1>c DEF Ingest, RouteInv
  <2>2. InOwnSlot'
    BY <1>13, <2>1 DEF Ingest, Stores, InOwnSlot, NamesSlot
  <2>. QED
    BY <1>13, <2>2, <1>d DEF Ingest, registry, threads, LockInv, StaticSlots, GrowthInv,
       IdsInStep, RouteInv, HeldInv, NonePanicked, NamesSlot
<1>14. ASSUME NEW t \in Threads, NEW c \in Channel, StartLoad(t, c)
       PROVE  FALSE
  BY <1>14 DEF StartLoad, Goto, TypeOK, NoReplay
<1>e. \A t \in Threads : \A c \in Wanted[t] : c \in Channel
  OBVIOUS
<1>15. CASE UNCHANGED vars
  BY <1>15, <1>d DEF vars, LockInv, StaticSlots, GrowthInv, IdsInStep, RouteInv, HeldInv,
     NonePanicked, InOwnSlot, NamesSlot
<1>. QED
  BY <1>1, <1>2, <1>4, <1>5, <1>6, <1>7, <1>8, <1>9, <1>11, <1>12, <1>13, <1>14, <1>15,
     <1>e DEF Next, Step, Register

(* Init satisfies the invariant: the store has a slot for every configured  *)
(* channel and no registration is under way. *)
LEMMA SafetyInit == Init => SafetyInv
<1>. SUFFICES ASSUME Init PROVE SafetyInv
  OBVIOUS
<1>1. TypeOK
  BY TypeInit
<1>2. StaticSlots
  <2>. SUFFICES ASSUME NEW n \in Names, IsStatic(n) PROVE NamesSlot(slots, IdOf(n), n)
    BY DEF StaticSlots
  <2>1. PICK i \in 1..NStatic : Static[i].name = n
    BY DEF IsStatic
  <2>2. IdOf(n) \in 1..NStatic /\ Static[IdOf(n)].name = n
    BY <2>1 DEF IdOf, IsStatic
  <2>. QED
    BY <2>2, RegistryAssumption DEF Init, NamesSlot, NStatic
<1>3. LockInv /\ GrowthInv /\ IdsInStep /\ RouteInv /\ HeldInv /\ NonePanicked /\ InOwnSlot
  BY RegistryAssumption DEF Init, LockInv, Locked, GrowthInv, IdsInStep, RouteInv, HeldInv,
     NonePanicked, InOwnSlot, NStatic
<1>. QED
  BY <1>1, <1>2, <1>3 DEF SafetyInv

(* A loader stays in its own phases, and once it has started it never is    *)
(* idle again. *)
LEMMA LoaderStep ==
  ASSUME TypeOK, LoaderInv, [Next]_vars
  PROVE  LoaderInv' /\ (NoReplay' => NoReplay)
<1>. USE RegistryAssumption
<1>. SUFFICES ASSUME NEW u \in Loaders
              PROVE  /\ pc'[u] \in Locked \cup {"idle", "lookup", "acquire", "loaded"}
                     /\ pc'[u] = "idle" => pc[u] = "idle"
  BY DEF LoaderInv, NoReplay
<1>1. /\ u \in Threads /\ u \notin Droppers /\ u \notin Scripts /\ AfterRegister(u) = "loaded"
      /\ pc[u] \in Locked \cup {"idle", "lookup", "acquire", "loaded"}
  BY DEF LoaderInv, Threads, AfterRegister
<1>2. ASSUME NEW t \in Threads, Step(t), t = u
      PROVE  /\ pc'[u] \in Locked \cup {"loaded", "acquire"}
  <2>. USE <1>1, <1>2 DEF Goto, TypeOK, Locked
  <2>1. CASE Lookup(t)
    BY <2>1 DEF Lookup, Return
  <2>2. CASE Acquire(t)
    BY <2>2 DEF Acquire, FoundUnderLock, NewUnderLock, Return
  <2>3. CASE PushConfig(t) \/ PushMeta(t) \/ PushSlot(t) \/ Publish(t)
    BY <2>3 DEF PushConfig, PushMeta, PushSlot, Publish
  <2>4. ~(FirstSample(t) \/ Seed(t) \/ Route(t) \/ Emit(t))
    BY DEF FirstSample, Seed, Route, Emit
  <2>. QED
    BY <2>1, <2>2, <2>3, <2>4 DEF Step, Register
<1>3. ASSUME NEW t \in Threads, Step(t), t # u
      PROVE  pc'[u] = pc[u]
  <2>. USE <1>1, <1>3 DEF Goto, TypeOK
  <2>1. CASE Lookup(t) \/ Acquire(t)
    BY <2>1 DEF Lookup, Acquire, FoundUnderLock, NewUnderLock, Return
  <2>2. CASE PushConfig(t) \/ PushMeta(t) \/ PushSlot(t) \/ Publish(t)
    BY <2>2 DEF PushConfig, PushMeta, PushSlot, Publish
  <2>3. CASE FirstSample(t) \/ Route(t)
    BY <2>3 DEF FirstSample, Route
  <2>4. CASE Seed(t) \/ Emit(t)
    BY <2>4 DEF Seed, Emit, Write
  <2>. QED
    BY <2>1, <2>2, <2>3, <2>4 DEF Step, Register
<1>4. ASSUME NEW t \in Threads, NEW c, StartDrop(t, c) \/ BuildScript(t, c) \/ StartLoad(t, c)
      PROVE  pc'[u] = pc[u] \/ pc'[u] = "lookup"
  BY <1>1, <1>4 DEF StartDrop, BuildScript, StartLoad, Goto, TypeOK
<1>5. ASSUME NEW n \in Names, Ingest(n)
      PROVE  pc'[u] = pc[u]
  BY <1>5 DEF Ingest, threads
<1>6. CASE UNCHANGED vars
  BY <1>1, <1>6 DEF vars
<1>. QED
  BY <1>1, <1>2, <1>3, <1>4, <1>5, <1>6 DEF Next, Locked

(* As long as every registrant appends the store slot under the lock that   *)
(* assigns the id, which is until a recording is opened, and whatever the   *)
(* number of threads and channels: published ids and slots agree, no write  *)
(* is out of range, and no sample lands in the slot of another channel. *)
THEOREM LiveRegistrySafe == Spec => []WritesHitOwnSlot
<1>. DEFINE LiveInv == LoaderInv /\ (NoReplay => SafetyInv)
<1>1. Init => LiveInv
  BY SafetyInit DEF Init, LoaderInv, Threads
<1>2. TypeOK /\ TypeOK' /\ LiveInv /\ [Next]_vars => LiveInv'
  BY LoaderStep, SafetyStep
<1>3. LiveInv => WritesHitOwnSlot
  BY DEF SafetyInv, Lockstep, WritesHitOwnSlot, NoPanic, NoCrossTalk, NonePanicked, InOwnSlot
<1>. QED
  BY TypeCorrect, <1>1, <1>2, <1>3, PTL DEF Spec


-----------------------------------------------------------------------------
(* The registry on its own, loaders included. Between the push of a meta    *)
(* and its publication the last meta is the one of the lock holder, whose   *)
(* name has no id yet; every other meta is published under its own index.   *)
PendingInv ==
  /\ \A t \in Threads : pc[t] \in Locked => dynIds[req[t].name] = 0
  /\ \A t \in Threads : pc[t] \in {"slot", "publish"} =>
       /\ Len(dynMetas) # 0 /\ dynMetas[Len(dynMetas)] = req[t]
       /\ got[t] = NStatic + Len(dynMetas)

PublishedInv ==
  \A i \in 1..Len(dynMetas) :
    \/ dynIds[dynMetas[i].name] = NStatic + i
    \/ i = Len(dynMetas) /\ \E t \in Threads : pc[t] \in {"slot", "publish"}

ConfigInv ==
  /\ (\A t \in Threads : pc[t] # "meta") => dynConfigs = dynMetas
  /\ \A t \in Threads : pc[t] = "meta" => dynConfigs = Append(dynMetas, req[t])

NamesInv == TypeOK /\ LockInv /\ PendingInv /\ PublishedInv /\ ConfigInv

IdsKept == \A n \in Names : dynIds[n] # 0 => dynIds'[n] = dynIds[n]

(* Every step of every registrant keeps the naming invariant. *)
LEMMA NamesStep ==
  ASSUME NamesInv, TypeOK', [Next]_vars
  PROVE  NamesInv' /\ IdsKept
<1>. USE RegistryAssumption DEF NamesInv
<1>a. ASSUME NEW t \in Threads
      PROVE  AfterRegister(t) \in {"seed", "emit", "loaded"}
  BY DEF AfterRegister
<1>b. ASSUME NEW t \in Threads
      PROVE  req[t] \in Channel /\ req[t].name \in Names /\ got[t] \in Nat
  BY DEF TypeOK, Channel
<1>c. NStatic \in Nat /\ dynConfigs \in Seq(Channel) /\ dynMetas \in Seq(Channel)
  BY DEF NStatic, TypeOK
<1>d. ASSUME NEW i \in 1..Len(dynMetas)
      PROVE  dynMetas[i].name \in Names
  <2>1. dynMetas[i] \in Channel
    BY <1>c
  <2>. QED
    BY <2>1 DEF Channel
(* A thread outside the lock moves to a phase outside the lock. *)
<1>1. ASSUME NEW t \in Threads, pc[t] \notin Locked, pc'[t] \notin Locked,
             \A u \in Threads \ {t} : pc'[u] = pc[u] /\ req'[u] = req[u] /\ got'[u] = got[u],
             UNCHANGED registry
      PROVE  NamesInv' /\ IdsKept
  <2>1. LockInv'
    BY <1>1 DEF LockInv, registry
  <2>2. PendingInv' /\ ConfigInv'
    BY <1>1 DEF PendingInv, ConfigInv, registry, Locked, NStatic
  <2>3. PublishedInv'
    BY <1>1 DEF PublishedInv, registry, Locked, NStatic
  <2>. QED
    BY <1>1, <2>1, <2>2, <2>3 DEF IdsKept, registry
<1>2. ASSUME NEW t \in Threads, NEW c \in Channel,
             StartDrop(t, c) \/ BuildScript(t, c) \/ StartLoad(t, c)
      PROVE  NamesInv' /\ IdsKept
  <2>1. /\ pc[t] \in {"idle", "reserved", "emit", "loaded"} /\ pc'[t] \in {"lookup", "reserved"}
        /\ \A u \in Threads \ {t} : pc'[u] = pc[u] /\ req'[u] = req[u]
        /\ UNCHANGED <<registry, got>>
    BY <1>2 DEF StartDrop, BuildScript, StartLoad, Goto, TypeOK
  <2>. QED
    BY <1>1, <2>1 DEF Locked
<1>3. ASSUME NEW t \in Threads, FirstSample(t) \/ Lookup(t)
      PROVE  NamesInv' /\ IdsKept
  <2>1. /\ pc[t] \in {"reserved", "lookup"} /\ pc'[t] \in {"lookup", "acquire", "seed", "emit", "loaded"}
        /\ \A u \in Threads \ {t} : pc'[u] = pc[u] /\ got'[u] = got[u]
        /\ UNCHANGED <<registry, req>>
    BY <1>3, <1>a DEF FirstSample, Lookup, Return, Goto, TypeOK
  <2>. QED
    BY <1>1, <2>1 DEF Locked
<1>4. ASSUME NEW t \in Threads, Acquire(t)
      PROVE  NamesInv' /\ IdsKept
  <2>1. CASE FoundUnderLock(t)
    <3>1. /\ pc[t] = "acquire" /\ pc'[t] \in {"seed", "emit", "loaded"}
          /\ \A u \in Threads \ {t} : pc'[u] = pc[u] /\ got'[u] = got[u]
          /\ UNCHANGED <<registry, req>>
      BY <1>4, <2>1, <1>a DEF Acquire, FoundUnderLock, Return, Goto, TypeOK, registry
    <3>. QED
      BY <1>1, <3>1 DEF Locked
  <2>2. CASE NewUnderLock(t)
    <3>1. \A u \in Threads : pc[u] \notin Locked
      BY <1>4 DEF Acquire, LockInv
    <3>2. /\ pc'[t] = "config" /\ holder' = t /\ dynIds[req[t].name] = 0
          /\ \A u \in Threads \ {t} : pc'[u] = pc[u]
          /\ UNCHANGED <<dynConfigs, dynMetas, dynIds, req, got>>
      BY <1>4, <2>2 DEF Acquire, NewUnderLock, Goto, TypeOK
    <3>3. LockInv'
      BY <3>1, <3>2 DEF LockInv, Locked
    <3>4. PendingInv' /\ ConfigInv'
      BY <3>1, <3>2 DEF PendingInv, ConfigInv, Locked, NStatic
    <3>5. PublishedInv'
      BY <3>1, <3>2 DEF PublishedInv, Locked, NStatic
    <3>. QED
      BY <3>2, <3>3, <3>4, <3>5 DEF IdsKept
  <2>. QED
    BY <1>4, <2>1, <2>2 DEF Acquire
(* The lock holder works through its phases alone. *)
<1>5. ASSUME NEW t \in Threads, pc[t] \in Locked, pc'[t] \in Locked,
             \A u \in Threads \ {t} : pc'[u] = pc[u],
             holder' = holder
      PROVE  /\ LockInv'
             /\ \A u \in Threads : u # t => pc'[u] \notin Locked /\ pc[u] \notin Locked
  <2>1. \A u \in Threads : u # t => pc[u] \notin Locked
    BY <1>5, LockExclusive
  <2>. QED
    BY <1>5, <2>1 DEF LockInv
<1>6. ASSUME NEW t \in Threads, PushConfig(t)
      PROVE  NamesInv' /\ IdsKept
  <2>1. /\ pc[t] = "config" /\ pc'[t] = "meta"
        /\ \A u \in Threads \ {t} : pc'[u] = pc[u]
        /\ dynConfigs' = Append(dynConfigs, req[t])
        /\ UNCHANGED <<dynMetas, dynIds, holder, req, got>>
    BY <1>6 DEF PushConfig, Goto, TypeOK
  <2>2. LockInv' /\ \A u \in Threads : u # t => pc'[u] \notin Locked /\ pc[u] \notin Locked
    BY <1>5, <2>1 DEF Locked
  <2>3. PendingInv' /\ ConfigInv'
    BY <2>1, <2>2 DEF PendingInv, ConfigInv, Locked, NStatic
  <2>4. PublishedInv'
    BY <2>1, <2>2 DEF PublishedInv, Locked, NStatic
  <2>. QED
    BY <2>1, <2>2, <2>3, <2>4 DEF IdsKept
<1>7. ASSUME NEW t \in Threads, PushMeta(t)
      PROVE  NamesInv' /\ IdsKept
  <2>1. /\ pc[t] = "meta" /\ pc'[t] = "slot" /\ got'[t] = NStatic + Len(dynMetas) + 1
        /\ \A u \in Threads \ {t} : pc'[u] = pc[u] /\ got'[u] = got[u]
        /\ dynMetas' = Append(dynMetas, req[t])
        /\ UNCHANGED <<dynConfigs, dynIds, holder, req>>
    BY <1>7 DEF PushMeta, FreshId, Goto, TypeOK
  <2>2. LockInv' /\ \A u \in Threads : u # t => pc'[u] \notin Locked /\ pc[u] \notin Locked
    BY <1>5, <2>1 DEF Locked
  <2>3. /\ Len(dynMetas') = Len(dynMetas) + 1 /\ dynMetas'[Len(dynMetas')] = req[t]
        /\ \A i \in 1..Len(dynMetas) : dynMetas'[i] = dynMetas[i]
    BY <2>1, <1>b, <1>c
  <2>4. NStatic' = NStatic /\ Len(dynMetas) \in Nat
    BY <1>c DEF NStatic
  <2>5. PendingInv'
    <3>1. dynIds'[req'[t].name] = 0
      BY <2>1 DEF PendingInv, Locked
    <3>2. Len(dynMetas') # 0 /\ got'[t] = NStatic' + Len(dynMetas')
      BY <2>1, <2>3, <2>4, <1>c
    <3>. QED
      BY <2>1, <2>2, <2>3, <3>1, <3>2 DEF PendingInv, Locked
  <2>6. ConfigInv'
    BY <2>1, <2>2 DEF ConfigInv, Locked
  <2>7. PublishedInv'
    <3>. SUFFICES ASSUME NEW i \in 1..Len(dynMetas'), i # Len(dynMetas')
                  PROVE  dynIds'[dynMetas'[i].name] = NStatic' + i
      BY <2>1 DEF PublishedInv
    <3>1. i \in 1..Len(dynMetas)
      BY <2>3, <2>4
    <3>2. \A u \in Threads : pc[u] \notin {"slot", "publish"}
      BY <2>1, <2>2 DEF Locked
    <3>. QED
      BY <2>1, <2>3, <2>4, <3>1, <3>2 DEF PublishedInv
  <2>. QED
    BY <2>1, <2>2, <2>5, <2>6, <2>7 DEF IdsKept
<1>8. ASSUME NEW t \in Threads, PushSlot(t)
      PROVE  NamesInv' /\ IdsKept
  <2>1. /\ pc[t] = "slot" /\ pc'[t] = "publish"
        /\ \A u \in Threads \ {t} : pc'[u] = pc[u]
        /\ UNCHANGED <<registry, req, got>>
    BY <1>8 DEF PushSlot, Goto, TypeOK
  <2>2. LockInv' /\ \A u \in Threads : u # t => pc'[u] \notin Locked /\ pc[u] \notin Locked
    BY <1>5, <2>1 DEF Locked, registry
  <2>3. PendingInv' /\ ConfigInv'
    BY <2>1, <2>2 DEF PendingInv, ConfigInv, Locked, NStatic, registry
  <2>4. PublishedInv'
    BY <2>1, <2>2 DEF PublishedInv, Locked, NStatic, registry
  <2>. QED
    BY <2>1, <2>2, <2>3, <2>4 DEF IdsKept, registry
<1>9. ASSUME NEW t \in Threads, Publish(t)
      PROVE  NamesInv' /\ IdsKept
  <2>1. /\ pc[t] = "publish" /\ pc'[t] \in {"seed", "emit", "loaded"} /\ holder' = Nobody
        /\ \A u \in Threads \ {t} : pc'[u] = pc[u]
        /\ dynIds' = [dynIds EXCEPT ![req[t].name] = got[t]]
        /\ UNCHANGED <<dynConfigs, dynMetas, req, got>>
    BY <1>9, <1>a DEF Publish, Goto, TypeOK
  <2>2. \A u \in Threads : pc'[u] \notin Locked /\ (u # t => pc[u] \notin Locked)
    BY <2>1, LockExclusive DEF Locked
  <2>3. LockInv' /\ PendingInv'
    BY <2>1, <2>2 DEF LockInv, PendingInv, Locked
  <2>4. ConfigInv'
    BY <2>1, <2>2 DEF ConfigInv, Locked
  <2>5. IdsKept
    BY <2>1, <1>b DEF IdsKept, PendingInv, Locked, TypeOK
  <2>6. PublishedInv'
    <3>. SUFFICES ASSUME NEW i \in 1..Len(dynMetas)
                  PROVE  dynIds'[dynMetas[i].name] = NStatic + i
      BY <2>1 DEF PublishedInv, NStatic
    <3>1. CASE i = Len(dynMetas)
      BY <2>1, <3>1, <1>b DEF PendingInv, TypeOK
    <3>2. CASE i # Len(dynMetas)
      <4>1. dynIds[dynMetas[i].name] = NStatic + i /\ NStatic + i # 0
        BY <3>2, <1>c DEF PublishedInv
      <4>. QED
        BY <4>1, <2>5, <1>d DEF IdsKept
    <3>. QED
      BY <3>1, <3>2
  <2>. QED
    BY <2>3, <2>4, <2>5, <2>6
<1>10. ASSUME NEW t \in Threads, Seed(t) \/ Route(t) \/ Emit(t)
       PROVE  NamesInv' /\ IdsKept
  <2>1. /\ pc[t] \in {"seed", "route", "emit"} /\ pc'[t] \in {"route", "idle", "emit", "panicked"}
        /\ \A u \in Threads \ {t} : pc'[u] = pc[u]
        /\ UNCHANGED <<registry, req, got>>
    BY <1>10 DEF Seed, Route, Emit, Write, Goto, TypeOK
  <2>. QED
    BY <1>1, <2>1 DEF Locked
<1>11. ASSUME UNCHANGED <<registry, threads>>
       PROVE  NamesInv' /\ IdsKept
  BY <1>11 DEF registry, threads, LockInv, PendingInv, PublishedInv, ConfigInv, IdsKept, NStatic
<1>12. ASSUME NEW n \in Names, Ingest(n)
       PROVE  NamesInv' /\ IdsKept
  BY <1>11, <1>12 DEF Ingest
<1>13. CASE UNCHANGED vars
  BY <1>11, <1>13 DEF vars, registry, threads
<1>e. \A t \in Threads : \A c \in Wanted[t] : c \in Channel
  OBVIOUS
<1>. QED
  BY <1>2, <1>3, <1>4, <1>6, <1>7, <1>8, <1>9, <1>10, <1>12, <1>13, <1>e
     DEF Next, Step, Register

(* Init satisfies the naming invariant: nothing is published yet. *)
LEMMA NamesInit == Init => NamesInv
BY TypeInit, RegistryAssumption DEF Init, NamesInv, LockInv, Locked, PendingInv, PublishedInv,
   ConfigInv

(* The naming invariant holds of every behaviour. *)
LEMMA NamesInvariant == Spec => []NamesInv
<1>1. NamesInv /\ TypeOK' /\ [Next]_vars => NamesInv'
  BY NamesStep
<1>. QED
  BY NamesInit, TypeCorrect, <1>1, PTL DEF Spec

(* A channel is published under one id, from the naming invariant. *)
LEMMA UniqueFromInv == NamesInv => NamesUnique
<1>. SUFFICES ASSUME NamesInv, NEW i \in 1..Len(dynMetas), NEW j \in 1..Len(dynMetas),
                     dynMetas[i].name = dynMetas[j].name
              PROVE  i = j
  BY DEF NamesUnique
<1>1. NStatic \in Nat /\ Len(dynMetas) \in Nat
  BY RegistryAssumption DEF NStatic, NamesInv, TypeOK
<1>2. ASSUME NEW k \in 1..Len(dynMetas), dynIds[dynMetas[k].name] # NStatic + k
      PROVE  k = Len(dynMetas) /\ dynIds[dynMetas[k].name] = 0
  BY <1>2 DEF NamesInv, PublishedInv, PendingInv, Locked
<1>. QED
  BY <1>1, <1>2

(* A published id has its configuration, from the naming invariant. *)
LEMMA ConfigFromInv == NamesInv => VisibleHasConfig
<1>. SUFFICES ASSUME NamesInv PROVE VisibleHasConfig
  OBVIOUS
<1>1. dynMetas \in Seq(Channel) /\ \A t \in Threads : req[t] \in Channel
  BY DEF NamesInv, TypeOK
<1>2. CASE \A t \in Threads : pc[t] # "meta"
  BY <1>1, <1>2 DEF NamesInv, ConfigInv, VisibleHasConfig
<1>3. CASE \E t \in Threads : pc[t] = "meta"
  <2>. PICK t \in Threads : dynConfigs = Append(dynMetas, req[t])
    BY <1>3 DEF NamesInv, ConfigInv
  <2>. QED
    BY <1>1 DEF VisibleHasConfig
<1>. QED
  BY <1>2, <1>3

(* Whoever registers, replay loaders included: a name is registered once,   *)
(* and a lock-free reader finds the config of every channel it can see. *)
THEOREM RegistryConsistent == Spec => []ReadersConsistent
<1>1. NamesInv => ReadersConsistent
  BY UniqueFromInv, ConfigFromInv DEF ReadersConsistent
<1>. QED
  BY <1>1, NamesInvariant, PTL

(* An id given out stays the id of its name in every later state. *)
THEOREM IdsNeverChange == Spec => IdsStable
<1>1. NamesInv /\ TypeOK' /\ [Next]_vars => [IdsKept]_vars
  BY NamesStep
<1>. QED
  BY NamesInvariant, TypeCorrect, <1>1, PTL DEF Spec, IdsStable, IdsKept
=============================================================================
