---------------------------- MODULE ScriptProofs ----------------------------
(* Proofs about scripts: the engine's lists, for every set of instances and  *)
(* channel names and for any number of commands, and one runner, for any     *)
(* number of inputs and samples, any window and any hop.                     *)
EXTENDS MCScripts, FiniteSetTheorems, SequenceTheorems, WellFoundedInduction, TLAPS

(* No name is owned twice, whether its owner runs, was refused or is        *)
(* disabled: what makes the outputs of the running instances disjoint. *)
Apart == \A i, j \in Ids : i # j => owned[i] \cap owned[j] = {}

EngineInv == TypeOK /\ Apart /\ ListedOnce /\ OwnNamesNeverRefused

(* What loading or removing an instance needs of the state and keeps. *)
Lists == <<runners, failed, owned>>

ListsOK ==
  /\ runners \in SUBSET [id: Ids, outs: Outputs]
  /\ failed \in SUBSET [id: Ids, outs: Outputs, reason: {"error", "collision"}]
  /\ owned \in [Ids -> SUBSET Names]
  /\ \A r \in runners : r.outs = owned[r.id]

ListsInv == ListsOK /\ Apart /\ ListedOnce /\ OwnNamesNeverRefused

-----------------------------------------------------------------------------
(* A refusal takes the instance out of the running ones, keeps its names    *)
(* and, when it is for a collision, names a channel it does not own. *)
LEMMA RefuseKeeps ==
  ASSUME ListsInv, NEW ins \in Instance, NEW reason \in {"error", "collision"},
         Refuse(ins, reason),
         reason = "collision" => ~(ins.outs \subseteq owned[ins.id])
  PROVE  ListsInv'
<1>. DEFINE entry == [id |-> ins.id, outs |-> ins.outs, reason |-> reason]
<1>0. ins.id \in Ids /\ ins.outs \in Outputs
  BY DEF Instance
<1>1. entry \in [id: Ids, outs: Outputs, reason: {"error", "collision"}]
  BY <1>0
<1>2. owned' = owned /\ runners' = {r \in runners : r.id # ins.id}
  BY DEF Refuse, Without
<1>3. failed' = {f \in failed : f.id # ins.id} \cup {entry}
  BY DEF Refuse, Without
<1>. HIDE DEF entry
<1>4. entry.id = ins.id /\ entry.outs = ins.outs /\ entry.reason = reason
  BY DEF entry
<1>5. ListsOK'
  BY <1>1, <1>2, <1>3 DEF ListsInv, ListsOK
<1>6. Apart'
  BY <1>2 DEF ListsInv, Apart
<1>7. ListedOnce'
  BY <1>2, <1>3, <1>4 DEF ListsInv, ListedOnce
<1>8. OwnNamesNeverRefused'
  BY <1>2, <1>3, <1>4 DEF ListsInv, OwnNamesNeverRefused
<1>. QED
  BY <1>5, <1>6, <1>7, <1>8 DEF ListsInv

(* An instance is loaded only with names no other instance owns. *)
LEMMA LoadsKeeps ==
  ASSUME ListsInv, NEW ins \in Instance, Loads(ins)
  PROVE  ListsInv'
<1>. USE EngineAssumption
<1>. DEFINE entry == [id |-> ins.id, outs |-> ins.outs]
<1>0. ins.id \in Ids /\ ins.outs \in Outputs /\ ins.outs \subseteq Names
  BY DEF Instance
<1>1. entry \in [id: Ids, outs: Outputs]
  BY <1>0
<1>2. runners' = {r \in runners : r.id # ins.id} \cup {entry}
  BY DEF Loads, Without
<1>3. failed' = {f \in failed : f.id # ins.id}
  BY DEF Loads, Without
<1>4. owned' = [owned EXCEPT ![ins.id] = ins.outs]
  BY DEF Loads
<1>. HIDE DEF entry
<1>5. entry.id = ins.id /\ entry.outs = ins.outs
  BY DEF entry
<1>a. owned'[ins.id] = ins.outs
  BY <1>0, <1>4 DEF ListsInv, ListsOK
<1>b. ASSUME NEW i \in Ids, i # ins.id PROVE owned'[i] = owned[i]
  BY <1>b, <1>4 DEF ListsInv, ListsOK
<1>6. ListsOK'
  <2>1. runners' \in SUBSET [id: Ids, outs: Outputs]
    BY <1>1, <1>2 DEF ListsInv, ListsOK
  <2>2. owned' \in [Ids -> SUBSET Names]
    BY <1>0, <1>4 DEF ListsInv, ListsOK
  <2>3. failed' \in SUBSET [id: Ids, outs: Outputs, reason: {"error", "collision"}]
    BY <1>3 DEF ListsInv, ListsOK
  <2>4. ASSUME NEW r \in runners' PROVE r.outs = owned'[r.id]
    <3>1. CASE r = entry
      BY <3>1, <1>5, <1>a
    <3>2. CASE r \in runners /\ r.id # ins.id
      <4>1. r.id \in Ids /\ r.outs = owned[r.id]
        BY <3>2 DEF ListsInv, ListsOK
      <4>. QED
        BY <3>2, <4>1, <1>b
    <3>. QED
      BY <3>1, <3>2, <1>2
  <2>. QED
    BY <2>1, <2>2, <2>3, <2>4 DEF ListsOK
<1>7. Apart'
  <2>1. ASSUME NEW o \in Ids, o # ins.id PROVE ins.outs \cap owned[o] = {}
    BY <2>1 DEF Loads, Taken
  <2>2. ASSUME NEW i \in Ids, NEW j \in Ids, i # j
        PROVE owned'[i] \cap owned'[j] = {}
    <3>1. CASE i = ins.id
      BY <2>1, <2>2, <3>1, <1>a, <1>b
    <3>2. CASE j = ins.id
      BY <2>1, <2>2, <3>2, <1>a, <1>b
    <3>3. CASE i # ins.id /\ j # ins.id
      BY <2>2, <3>3, <1>b DEF ListsInv, Apart
    <3>. QED
      BY <3>1, <3>2, <3>3
  <2>. QED
    BY <2>2 DEF Apart
<1>8. ListedOnce'
  BY <1>2, <1>3, <1>5 DEF ListsInv, ListedOnce
<1>9. OwnNamesNeverRefused'
  <2>1. ASSUME NEW f \in failed' PROVE f \in failed /\ owned'[f.id] = owned[f.id]
    <3>1. f \in failed /\ f.id # ins.id
      BY <1>3
    <3>2. f.id \in Ids
      BY <3>1 DEF ListsInv, ListsOK
    <3>. QED
      BY <3>1, <3>2, <1>b
  <2>. QED
    BY <2>1 DEF ListsInv, OwnNamesNeverRefused
<1>. QED
  BY <1>6, <1>7, <1>8, <1>9 DEF ListsInv

(* A disabled instance leaves both lists and keeps its names. *)
LEMMA DisabledKeeps ==
  ASSUME ListsInv, NEW ins \in Instance, LoadDisabled(ins)
  PROVE  ListsInv'
BY DEF LoadDisabled, Without, ListsInv, ListsOK, Apart, ListedOnce, OwnNamesNeverRefused

(* A removed instance leaves both lists and owns nothing. *)
LEMMA RemoveKeeps ==
  ASSUME ListsInv, NEW id \in Ids, RemoveInstance(id)
  PROVE  ListsInv'
<1>1. /\ runners' = {r \in runners : r.id # id}
      /\ failed' = {f \in failed : f.id # id}
      /\ owned' = [owned EXCEPT ![id] = {}]
  BY DEF RemoveInstance, Without
<1>2. ASSUME NEW i \in Ids PROVE owned'[i] = IF i = id THEN {} ELSE owned[i]
  BY <1>1 DEF ListsInv, ListsOK
<1>3. ListsOK'
  BY <1>1, <1>2 DEF ListsInv, ListsOK
<1>4. Apart'
  BY <1>2 DEF ListsInv, Apart
<1>5. ListedOnce'
  BY <1>1 DEF ListsInv, ListedOnce
<1>6. OwnNamesNeverRefused'
  BY <1>1, <1>2 DEF ListsInv, ListsOK, OwnNamesNeverRefused
<1>. QED
  BY <1>3, <1>4, <1>5, <1>6 DEF ListsInv

(* Whatever loading an instance comes to, the lists stay consistent. *)
LEMMA LoadIntoKeeps ==
  ASSUME ListsInv, NEW ins \in Instance, LoadInto(ins)
  PROVE  ListsInv'
<1>1. CASE LoadFails(ins)
  BY <1>1, RefuseKeeps DEF LoadFails
<1>2. CASE LoadRefused(ins)
  <2>1. PICK n \in ins.outs : Taken(ins.id, n)
    BY <1>2 DEF LoadRefused
  <2>2. ins.id \in Ids
    BY DEF Instance
  <2>3. n \notin owned[ins.id]
    BY <2>1, <2>2 DEF Taken, ListsInv, Apart
  <2>. QED
    BY <1>2, <2>3, RefuseKeeps DEF LoadRefused
<1>3. CASE Loads(ins)
  BY <1>3, LoadsKeeps
<1>4. CASE LoadDisabled(ins)
  BY <1>4, DisabledKeeps
<1>. QED
  BY <1>1, <1>2, <1>3, <1>4 DEF LoadInto

-----------------------------------------------------------------------------
(* The first sample of an output registers its name to the runner it is of. *)
LEMMA TickTypes ==
  ASSUME TypeOK, Tick
  PROVE  channels' \in [Names -> Ids \cup {Other, Nobody}]
<1>1. PICK active \in SUBSET runners :
        channels' = [n \in Names |->
          IF channels[n] = Nobody /\ \E r \in active : n \in r.outs
          THEN (CHOOSE r \in active : n \in r.outs).id ELSE channels[n]]
  BY DEF Tick
<1>2. ASSUME NEW n \in Names, \E r \in active : n \in r.outs
      PROVE (CHOOSE r \in active : n \in r.outs).id \in Ids
  <2>1. (CHOOSE r \in active : n \in r.outs) \in active
    BY <1>2
  <2>. QED
    BY <2>1, <1>1 DEF TypeOK
<1>. QED
  BY <1>1, <1>2 DEF TypeOK

(* The engine and the UI start with no instance loaded. *)
LEMMA EngineInit == Init => EngineInv
<1>. SUFFICES ASSUME Init PROVE EngineInv
  OBVIOUS
<1>. USE EngineAssumption DEF Init
<1>1. instances \in SUBSET Instance
  OBVIOUS
<1>2. TypeOK
  BY <1>1 DEF TypeOK
<1>3. Apart /\ ListedOnce /\ OwnNamesNeverRefused
  BY DEF Apart, ListedOnce, OwnNamesNeverRefused
<1>. QED
  BY <1>2, <1>3 DEF EngineInv

(* Every command, tick and registration keeps the invariant. *)
LEMMA EngineStep == EngineInv /\ [Next]_vars => EngineInv'
<1>. SUFFICES ASSUME EngineInv, [Next]_vars PROVE EngineInv'
  OBVIOUS
<1>. USE EngineAssumption
<1>0. TypeOK /\ ListsInv
  BY DEF EngineInv, TypeOK, ListsInv, ListsOK
<1>l. ASSUME UNCHANGED Lists PROVE ListsInv'
  BY <1>0, <1>l DEF Lists, ListsInv, ListsOK, Apart, ListedOnce, OwnNamesNeverRefused
<1>. DEFINE RestOK ==
       /\ instances \in SUBSET Instance
       /\ commands \in Seq(Command) /\ given \in Nat
       /\ startup \in Seq(Instance)
       /\ pc \in {"recv", "tick"}
       /\ channels \in [Names -> Ids \cup {Other, Nobody}]
<1>r. RestOK
  BY <1>0 DEF TypeOK
<1>i. ASSUME RestOK', ListsInv' PROVE EngineInv'
  BY <1>i DEF EngineInv, TypeOK, ListsInv, ListsOK
<1>1. ASSUME NEW ins \in Instance, Upsert(ins) PROVE EngineInv'
  <2>1. [kind |-> "upsert", inst |-> ins] \in Command
    BY DEF Command
  <2>2. RestOK'
    BY <1>1, <1>r, <2>1 DEF Upsert, Without
  <2>. QED
    BY <1>1, <1>l, <1>i, <2>2 DEF Upsert, Lists
<1>2. ASSUME NEW id \in Ids, Remove(id) PROVE EngineInv'
  <2>1. [kind |-> "remove", id |-> id] \in Command
    BY DEF Command
  <2>2. RestOK'
    BY <1>2, <1>r, <2>1 DEF Remove, Without
  <2>. QED
    BY <1>2, <1>l, <1>i, <2>2 DEF Remove, Lists
<1>3. ASSUME NEW n \in Names, RegisterOther(n) PROVE EngineInv'
  <2>1. RestOK'
    BY <1>3, <1>r DEF RegisterOther, ui
  <2>. QED
    BY <1>3, <1>l, <1>i, <2>1 DEF RegisterOther, Lists
<1>4. CASE Startup
  <2>1. Head(startup) \in Instance /\ Tail(startup) \in Seq(Instance)
    BY <1>4, <1>r DEF Startup
  <2>2. RestOK'
    BY <1>4, <1>r, <2>1 DEF Startup, ui
  <2>. QED
    BY <1>4, <1>0, <1>i, <2>1, <2>2, LoadIntoKeeps DEF Startup
<1>5. CASE Receive
  <2>1. Head(commands) \in Command /\ Tail(commands) \in Seq(Command)
    BY <1>5, <1>r DEF Receive
  <2>2. RestOK'
    BY <1>5, <1>r, <2>1 DEF Receive
  <2>3. CASE Head(commands).kind = "upsert" /\ LoadInto(Head(commands).inst)
    <3>1. Head(commands).inst \in Instance
      BY <2>1, <2>3 DEF Command
    <3>. QED
      BY <1>0, <1>i, <2>2, <2>3, <3>1, LoadIntoKeeps
  <2>4. CASE Head(commands).kind = "remove" /\ RemoveInstance(Head(commands).id)
    <3>1. Head(commands).id \in Ids
      BY <2>1, <2>4 DEF Command
    <3>. QED
      BY <1>0, <1>i, <2>2, <2>4, <3>1, RemoveKeeps
  <2>. QED
    BY <1>5, <2>3, <2>4 DEF Receive
<1>6. CASE TimeoutOfTick
  <2>1. RestOK'
    BY <1>6, <1>r DEF TimeoutOfTick, ui
  <2>. QED
    BY <1>6, <1>l, <1>i, <2>1 DEF TimeoutOfTick, Lists
<1>7. CASE Tick
  <2>1. channels' \in [Names -> Ids \cup {Other, Nobody}]
    BY <1>0, <1>7, TickTypes
  <2>2. RestOK'
    BY <1>7, <1>r, <2>1 DEF Tick, ui
  <2>. QED
    BY <1>7, <1>l, <1>i, <2>2 DEF Tick, Lists
<1>8. CASE UNCHANGED vars
  <2>1. RestOK'
    BY <1>8, <1>r DEF vars
  <2>. QED
    BY <1>8, <1>l, <1>i, <2>1 DEF vars, Lists
<1>. QED
  BY <1>1, <1>2, <1>3, <1>4, <1>5, <1>6, <1>7, <1>8 DEF Next, Engine

(* The invariant holds of every behaviour. *)
LEMMA EngineInvariant == Spec => []EngineInv
BY EngineInit, EngineStep, PTL DEF Spec

-----------------------------------------------------------------------------
(* What the engine keeps about instances is well typed, and a runner writes *)
(* exactly to the names its instance owns. *)
THEOREM EngineTypeCorrect == Spec => []TypeOK
<1>1. EngineInv => TypeOK
  BY DEF EngineInv
<1>. QED
  BY <1>1, EngineInvariant, PTL

(* Two running scripts never write to one channel, whatever sequence of     *)
(* edits, refusals, removals and registrations led there. *)
THEOREM ScriptsNeverShareAnOutput == Spec => []OutputsDisjoint
<1>1. EngineInv => OutputsDisjoint
  <2>. SUFFICES ASSUME EngineInv, NEW r \in runners, NEW q \in runners, r.id # q.id
                PROVE  r.outs \cap q.outs = {}
    BY DEF OutputsDisjoint
  <2>1. r.id \in Ids /\ q.id \in Ids /\ r.outs = owned[r.id] /\ q.outs = owned[q.id]
    BY DEF EngineInv, TypeOK
  <2>. QED
    BY <2>1 DEF EngineInv, Apart
<1>. QED
  BY <1>1, EngineInvariant, PTL

(* An instance is listed once, as running or as failed, and a name it owns  *)
(* is never the reason it is refused. *)
THEOREM StatusIsConsistent == Spec => [](ListedOnce /\ OwnNamesNeverRefused)
<1>1. EngineInv => ListedOnce /\ OwnNamesNeverRefused
  BY DEF EngineInv
<1>. QED
  BY <1>1, EngineInvariant, PTL
-----------------------------------------------------------------------------
(* What the engine has still to carry out decides what it will list: for    *)
(* every id the last configured instance or command that concerns it agrees *)
(* with the UI, and with none left the engine agrees already.               *)

Of(command) == IF command.kind = "upsert" THEN command.inst.id ELSE command.id
Result(command) == IF command.kind = "upsert" THEN {command.inst} ELSE {}

StartsLater(id, k) == \E j \in 1..Len(startup) : j > k /\ startup[j].id = id
FollowsLater(id, k) == \E j \in 1..Len(commands) : j > k /\ Of(commands[j]) = id

Settled(id) == ~StartsLater(id, 0) /\ ~FollowsLater(id, 0)

Entry(x) == [id |-> x.id, outs |-> x.outs]
Wanted(id) == {Entry(x) : x \in {i \in instances : i.enabled /\ i.id = id}}
Listed(id) == {r \in runners : r.id = id} \cup {Entry(f) : f \in {g \in failed : g.id = id}}
InstancesOf(id) == {i \in instances : i.id = id}

SettledAgree == \A id \in Ids : Settled(id) => Wanted(id) = Listed(id)

LastCommandAgrees ==
  \A k \in 1..Len(commands) :
    ~FollowsLater(Of(commands[k]), k) =>
      InstancesOf(Of(commands[k])) = Result(commands[k])

LastStartAgrees ==
  \A k \in 1..Len(startup) :
    ~StartsLater(startup[k].id, k) /\ ~FollowsLater(startup[k].id, 0) =>
      InstancesOf(startup[k].id) = {startup[k]}

Agreement == SettledAgree /\ LastCommandAgrees /\ LastStartAgrees
(* An id is taken off both lists, and off nothing else. *)
LEMMA WithoutLists ==
  ASSUME NEW gone, NEW id,
         runners' = Without(runners, gone), failed' = Without(failed, gone)
  PROVE  Listed(id)' = IF id = gone THEN {} ELSE Listed(id)
<1>1. /\ {r \in runners' : r.id = id} = IF id = gone THEN {} ELSE {r \in runners : r.id = id}
      /\ {f \in failed' : f.id = id} = IF id = gone THEN {} ELSE {f \in failed : f.id = id}
  BY DEF Without
<1>. QED
  BY <1>1 DEF Listed

(* What the engine lists of an instance it loaded: the instance, running or *)
(* failed, if it is enabled, and of the others what it listed before. *)
LEMMA LoadLists ==
  ASSUME NEW ins \in Instance, LoadInto(ins), NEW id
  PROVE  Listed(id)' = IF id # ins.id THEN Listed(id)
                       ELSE IF ins.enabled THEN {Entry(ins)} ELSE {}
<1>1. CASE LoadFails(ins) \/ LoadRefused(ins)
  <2>1. PICK reason \in {"error", "collision"} : Refuse(ins, reason)
    BY <1>1 DEF LoadFails, LoadRefused
  <2>. DEFINE f == [id |-> ins.id, outs |-> ins.outs, reason |-> reason]
  <2>2. /\ runners' = {r \in runners : r.id # ins.id}
        /\ failed' = {g \in failed : g.id # ins.id} \cup {f}
    BY <2>1 DEF Refuse, Without
  <2>3. f.id = ins.id /\ Entry(f) = Entry(ins)
    BY DEF Entry
  <2>. HIDE DEF f
  <2>4. ins.enabled
    BY <1>1 DEF LoadFails, LoadRefused
  <2>5. CASE id = ins.id
    <3>1. {r \in runners' : r.id = id} = {} /\ {g \in failed' : g.id = id} = {f}
      BY <2>2, <2>3, <2>5
    <3>2. Listed(id)' = {Entry(f)}
      BY <3>1 DEF Listed
    <3>. QED
      BY <2>3, <2>4, <2>5, <3>2
  <2>6. CASE id # ins.id
    <3>1. /\ {r \in runners' : r.id = id} = {r \in runners : r.id = id}
          /\ {g \in failed' : g.id = id} = {g \in failed : g.id = id}
      BY <2>2, <2>3, <2>6
    <3>. QED
      BY <2>6, <3>1 DEF Listed
  <2>. QED
    BY <2>5, <2>6
<1>2. CASE Loads(ins)
  <2>. DEFINE r1 == [id |-> ins.id, outs |-> ins.outs]
  <2>2. /\ runners' = {r \in runners : r.id # ins.id} \cup {r1}
        /\ failed' = {g \in failed : g.id # ins.id} /\ ins.enabled
    BY <1>2 DEF Loads, Without
  <2>3. r1.id = ins.id /\ r1 = Entry(ins)
    BY DEF Entry
  <2>. HIDE DEF r1
  <2>5. CASE id = ins.id
    <3>1. {r \in runners' : r.id = id} = {r1} /\ {g \in failed' : g.id = id} = {}
      BY <2>2, <2>3, <2>5
    <3>2. Listed(id)' = {r1}
      BY <3>1 DEF Listed
    <3>. QED
      BY <2>2, <2>3, <2>5, <3>2
  <2>6. CASE id # ins.id
    <3>1. /\ {r \in runners' : r.id = id} = {r \in runners : r.id = id}
          /\ {g \in failed' : g.id = id} = {g \in failed : g.id = id}
      BY <2>2, <2>3, <2>6
    <3>. QED
      BY <2>6, <3>1 DEF Listed
  <2>. QED
    BY <2>5, <2>6
<1>3. CASE LoadDisabled(ins)
  <2>1. /\ runners' = Without(runners, ins.id) /\ failed' = Without(failed, ins.id)
        /\ ~ins.enabled
    BY <1>3 DEF LoadDisabled
  <2>. QED
    BY <2>1, WithoutLists
<1>. QED
  BY <1>1, <1>2, <1>3 DEF LoadInto

(* The UI has agreed with the configuration before anything was carried out. *)
LEMMA AgreementInit == Init => Agreement
<1>. SUFFICES ASSUME Init PROVE Agreement
  OBVIOUS
<1>1. /\ instances = {Config[i] : i \in 1..Len(Config)} /\ startup = Config
      /\ commands = << >> /\ runners = {} /\ failed = {}
  BY DEF Init
<1>2. ASSUME NEW id \in Ids, Settled(id) PROVE Wanted(id) = Listed(id)
  <2>1. \A i \in instances : i.id # id
    BY <1>1, <1>2, EngineAssumption DEF Settled, StartsLater
  <2>2. Wanted(id) = {}
    BY <2>1 DEF Wanted
  <2>3. Listed(id) = {}
    BY <1>1 DEF Listed
  <2>. QED
    BY <2>2, <2>3
<1>3. LastCommandAgrees
  BY <1>1 DEF LastCommandAgrees
<1>4. ASSUME NEW k \in 1..Len(startup)
      PROVE  InstancesOf(startup[k].id) = {startup[k]}
  BY <1>1, EngineAssumption DEF InstancesOf
<1>. QED
  BY <1>2, <1>3, <1>4 DEF Agreement, SettledAgree, LastStartAgrees

(* The UI lists what it asked for last: a command given settles its id      *)
(* anew and leaves the other ids as they were. *)
LEMMA CommandAgrees ==
  ASSUME EngineInv, Agreement, NEW command \in Command,
         commands' = Append(commands, command),
         \A id \in Ids : InstancesOf(id)' = IF id = Of(command) THEN Result(command)
                                           ELSE InstancesOf(id),
         UNCHANGED <<startup, runners, failed>>
  PROVE  Agreement'
<1>0. commands \in Seq(Command) /\ startup \in Seq(Instance)
  BY DEF EngineInv, TypeOK
<1>1. /\ Len(commands') = Len(commands) + 1
      /\ commands'[Len(commands) + 1] = command
      /\ \A k \in 1..Len(commands) : commands'[k] = commands[k]
      /\ Len(commands) \in Nat
  BY <1>0
<1>2. Of(command) \in Ids
  BY DEF Of, Command, Instance
<1>3. ASSUME NEW id, NEW k \in Nat, k <= Len(commands), ~FollowsLater(id, k)'
      PROVE  ~FollowsLater(id, k) /\ id # Of(command)
  BY <1>1, <1>3 DEF FollowsLater
<1>4. SettledAgree'
  <2>. SUFFICES ASSUME NEW id \in Ids, Settled(id)' PROVE (Wanted(id) = Listed(id))'
    BY DEF SettledAgree
  <2>1. Settled(id) /\ id # Of(command)
    BY <1>1, <1>3 DEF Settled, StartsLater
  <2>2. InstancesOf(id)' = InstancesOf(id)
    BY <2>1
  <2>3. {i \in instances' : i.enabled /\ i.id = id} = {i \in instances : i.enabled /\ i.id = id}
    BY <2>2 DEF InstancesOf
  <2>4. Wanted(id)' = Wanted(id)
    BY <2>3 DEF Wanted
  <2>5. Listed(id)' = Listed(id)
    BY DEF Listed
  <2>. QED
    BY <2>1, <2>4, <2>5 DEF Agreement, SettledAgree
<1>5. LastCommandAgrees'
  <2>. SUFFICES ASSUME NEW k \in 1..Len(commands'), NEW id, id = Of(commands'[k]),
                       ~FollowsLater(id, k)'
                PROVE  InstancesOf(id)' = Result(commands'[k])
    BY DEF LastCommandAgrees, Of, Result, FollowsLater, InstancesOf
  <2>1. CASE k = Len(commands) + 1
    BY <1>1, <1>2, <2>1
  <2>2. CASE k \in 1..Len(commands)
    <3>1. commands'[k] = commands[k] /\ commands[k] \in Command
      BY <1>0, <1>1, <2>2
    <3>2. ~FollowsLater(id, k) /\ id # Of(command)
      BY <1>1, <1>3, <2>2
    <3>3. id \in Ids
      BY <3>1 DEF Of, Command, Instance
    <3>4. InstancesOf(id)' = InstancesOf(id)
      BY <3>2, <3>3
    <3>. QED
      BY <2>2, <3>1, <3>2, <3>4 DEF Agreement, LastCommandAgrees
  <2>. QED
    BY <1>1, <2>1, <2>2
<1>6. LastStartAgrees'
  <2>. SUFFICES ASSUME NEW k \in 1..Len(startup), ~StartsLater(startup[k].id, k),
                       ~FollowsLater(startup[k].id, 0)'
                PROVE  InstancesOf(startup[k].id)' = {startup[k]}
    BY DEF LastStartAgrees, StartsLater
  <2>1. startup[k].id \in Ids
    <3>1. startup[k] \in Instance
      BY <1>0
    <3>. QED
      BY <3>1 DEF Instance
  <2>2. ~FollowsLater(startup[k].id, 0) /\ startup[k].id # Of(command)
    BY <1>1, <1>3
  <2>. QED
    BY <2>1, <2>2 DEF Agreement, LastStartAgrees
<1>. QED
  BY <1>4, <1>5, <1>6 DEF Agreement
(* Nothing the UI or the engine lists changes: time passes, samples are     *)
(* written, channels are registered. *)
LEMMA AgreementStutters ==
  ASSUME Agreement, UNCHANGED <<instances, commands, startup, runners, failed>>
  PROVE  Agreement'
<1>1. ASSUME NEW id PROVE /\ InstancesOf(id)' = InstancesOf(id)
                          /\ Wanted(id)' = Wanted(id) /\ Listed(id)' = Listed(id)
  BY DEF InstancesOf, Wanted, Listed
<1>2. ASSUME NEW id, NEW k
      PROVE  StartsLater(id, k)' = StartsLater(id, k) /\ FollowsLater(id, k)' = FollowsLater(id, k)
  BY DEF StartsLater, FollowsLater, Of
<1>3. SettledAgree'
  BY <1>1, <1>2 DEF Agreement, SettledAgree, Settled
<1>4. LastCommandAgrees'
  BY DEF Agreement, LastCommandAgrees, FollowsLater, InstancesOf, Of, Result
<1>5. LastStartAgrees'
  BY DEF Agreement, LastStartAgrees, StartsLater, FollowsLater, InstancesOf, Of
<1>. QED
  BY <1>3, <1>4, <1>5 DEF Agreement

(* The UI wants a single instance if it is enabled. *)
LEMMA OneWanted ==
  ASSUME NEW id, NEW ins, InstancesOf(id) = {ins}
  PROVE  Wanted(id) = IF ins.enabled THEN {Entry(ins)} ELSE {}
<1>1. {i \in instances : i.enabled /\ i.id = id} = {i \in InstancesOf(id) : i.enabled}
  BY DEF InstancesOf
<1>. QED
  BY <1>1 DEF Wanted

(* A configured instance is loaded at startup. *)
LEMMA StartupAgrees == ASSUME EngineInv, Agreement, Startup PROVE Agreement'
<1>. DEFINE h == startup[1]
<1>0. startup \in Seq(Instance) /\ startup # << >> /\ commands \in Seq(Command)
  BY DEF EngineInv, TypeOK, Startup
<1>1. /\ h \in Instance /\ h = Head(startup) /\ LoadInto(h)
      /\ Len(startup) \in Nat \ {0} /\ Len(startup') = Len(startup) - 1
      /\ \A k \in 1..Len(startup') : startup'[k] = startup[k + 1]
      /\ UNCHANGED <<instances, commands>>
  BY <1>0 DEF Startup, ui
<1>. HIDE DEF h
<1>2. ASSUME NEW id, NEW k \in Nat, ~StartsLater(id, k)' PROVE ~StartsLater(id, k + 1)
  <2>. SUFFICES ASSUME NEW j \in 1..Len(startup), j > k + 1, startup[j].id = id PROVE FALSE
    BY DEF StartsLater
  <2>1. j - 1 \in 1..Len(startup') /\ j - 1 > k /\ startup'[j - 1] = startup[j]
    BY <1>1
  <2>. QED
    BY <1>2, <2>1 DEF StartsLater
<1>3. ASSUME NEW id, NEW k \in Nat PROVE FollowsLater(id, k)' = FollowsLater(id, k)
  BY <1>1 DEF FollowsLater, Of
<1>4. ASSUME NEW id PROVE InstancesOf(id)' = InstancesOf(id) /\ Wanted(id)' = Wanted(id)
  BY <1>1 DEF InstancesOf, Wanted
<1>5. SettledAgree'
  <2>. SUFFICES ASSUME NEW id \in Ids, ~StartsLater(id, 0)', ~FollowsLater(id, 0)
                PROVE  Wanted(id) = Listed(id)'
    BY <1>3, <1>4 DEF SettledAgree, Settled
  <2>1. ~StartsLater(id, 1)
    BY <1>2
  <2>2. CASE id = h.id
    <3>0. 1 \in 1..Len(startup) /\ startup[1] = h
      BY <1>1 DEF h
    <3>1. InstancesOf(id) = {h}
      BY <2>1, <2>2, <3>0 DEF Agreement, LastStartAgrees
    <3>2. Wanted(id) = IF h.enabled THEN {Entry(h)} ELSE {}
      BY <3>1, OneWanted
    <3>. QED
      BY <1>1, <2>2, <3>2, LoadLists
  <2>3. CASE id # h.id
    <3>1. ~StartsLater(id, 0)
      BY <1>1, <2>1, <2>3 DEF StartsLater, h
    <3>2. Wanted(id) = Listed(id)
      BY <3>1 DEF Agreement, SettledAgree, Settled
    <3>. QED
      BY <1>1, <2>3, <3>2, LoadLists
  <2>. QED
    BY <2>2, <2>3
<1>6. LastCommandAgrees'
  BY <1>1 DEF Agreement, LastCommandAgrees, FollowsLater, InstancesOf, Of, Result
<1>7. LastStartAgrees'
  <2>. SUFFICES ASSUME NEW k \in 1..Len(startup'), NEW id, id = startup'[k].id,
                       ~StartsLater(id, k)', ~FollowsLater(id, 0)'
                PROVE  InstancesOf(id)' = {startup'[k]}
    BY DEF LastStartAgrees, StartsLater, FollowsLater, InstancesOf, Of
  <2>1. k + 1 \in 1..Len(startup) /\ startup'[k] = startup[k + 1]
    BY <1>1
  <2>2. ~StartsLater(id, k + 1)
    BY <1>2, <2>1
  <2>3. ~FollowsLater(id, 0) /\ InstancesOf(id)' = InstancesOf(id)
    BY <1>3, <1>4
  <2>. QED
    BY <2>1, <2>2, <2>3 DEF Agreement, LastStartAgrees
<1>. QED
  BY <1>5, <1>6, <1>7 DEF Agreement

(* The oldest command is carried out. *)
LEMMA ReceiveAgrees == ASSUME EngineInv, Agreement, Receive PROVE Agreement'
<1>. DEFINE c == commands[1]
<1>0. commands \in Seq(Command) /\ commands # << >>
  BY DEF EngineInv, TypeOK, Receive
<1>1. /\ c \in Command /\ c = Head(commands) /\ startup = << >>
      /\ Len(commands) \in Nat \ {0} /\ Len(commands') = Len(commands) - 1
      /\ \A k \in 1..Len(commands') : commands'[k] = commands[k + 1]
      /\ UNCHANGED <<instances, startup>>
  BY <1>0 DEF Receive
<1>. HIDE DEF c
<1>2. ASSUME NEW id, NEW k \in Nat, ~FollowsLater(id, k)' PROVE ~FollowsLater(id, k + 1)
  <2>. SUFFICES ASSUME NEW j \in 1..Len(commands), j > k + 1, Of(commands[j]) = id
                PROVE  FALSE
    BY DEF FollowsLater
  <2>1. j - 1 \in 1..Len(commands') /\ j - 1 > k /\ commands'[j - 1] = commands[j]
    BY <1>1
  <2>. QED
    BY <1>2, <2>1 DEF FollowsLater, Of
<1>3. ASSUME NEW id PROVE InstancesOf(id)' = InstancesOf(id) /\ Wanted(id)' = Wanted(id)
  BY <1>1 DEF InstancesOf, Wanted
<1>4. ASSUME NEW id
      PROVE  Listed(id)' = IF id # Of(c) THEN Listed(id)
                           ELSE {Entry(i) : i \in {r \in Result(c) : r.enabled}}
  <2>1. CASE c.kind = "upsert" /\ LoadInto(c.inst)
    <3>1. c.inst \in Instance /\ Of(c) = c.inst.id /\ Result(c) = {c.inst}
      BY <1>1, <2>1 DEF Command, Of, Result
    <3>2. {Entry(i) : i \in {r \in Result(c) : r.enabled}}
            = IF c.inst.enabled THEN {Entry(c.inst)} ELSE {}
      BY <3>1
    <3>. QED
      BY <2>1, <3>1, <3>2, LoadLists
  <2>2. CASE c.kind = "remove" /\ RemoveInstance(c.id)
    <3>1. Of(c) = c.id /\ Result(c) = {}
      BY <2>2 DEF Of, Result
    <3>2. runners' = Without(runners, c.id) /\ failed' = Without(failed, c.id)
      BY <2>2 DEF RemoveInstance
    <3>. QED
      BY <3>1, <3>2, WithoutLists
  <2>. QED
    BY <1>1, <2>1, <2>2 DEF Receive
<1>5. SettledAgree'
  <2>. SUFFICES ASSUME NEW id \in Ids, ~FollowsLater(id, 0)' PROVE Wanted(id) = Listed(id)'
    BY <1>3 DEF SettledAgree, Settled
  <2>1. ~FollowsLater(id, 1)
    BY <1>2
  <2>2. CASE id = Of(c)
    <3>1. InstancesOf(id) = Result(c)
      BY <1>1, <2>1, <2>2 DEF c, Agreement, LastCommandAgrees
    <3>2. Wanted(id) = {Entry(i) : i \in {r \in Result(c) : r.enabled}}
      BY <3>1 DEF Wanted, InstancesOf
    <3>. QED
      BY <1>4, <2>2, <3>2
  <2>3. CASE id # Of(c)
    <3>1. ~FollowsLater(id, 0) /\ ~StartsLater(id, 0)
      BY <1>1, <2>1, <2>3 DEF FollowsLater, StartsLater, c
    <3>2. Wanted(id) = Listed(id)
      BY <3>1 DEF Agreement, SettledAgree, Settled
    <3>. QED
      BY <1>4, <2>3, <3>2
  <2>. QED
    BY <2>2, <2>3
<1>6. LastCommandAgrees'
  <2>. SUFFICES ASSUME NEW k \in 1..Len(commands'), NEW id, id = Of(commands'[k]),
                       ~FollowsLater(id, k)'
                PROVE  InstancesOf(id) = Result(commands'[k])
    BY <1>1 DEF LastCommandAgrees, Of, Result, FollowsLater, InstancesOf
  <2>1. k + 1 \in 1..Len(commands) /\ commands'[k] = commands[k + 1]
    BY <1>1
  <2>2. ~FollowsLater(id, k + 1)
    BY <1>2
  <2>. QED
    BY <2>1, <2>2 DEF Agreement, LastCommandAgrees
<1>7. LastStartAgrees'
  BY <1>1 DEF LastStartAgrees
<1>. QED
  BY <1>5, <1>6, <1>7 DEF Agreement

(* Every step keeps the agreement. *)
LEMMA AgreementStep == EngineInv /\ Agreement /\ [Next]_vars => Agreement'
<1>. SUFFICES ASSUME EngineInv, Agreement, [Next]_vars PROVE Agreement'
  OBVIOUS
<1>1. ASSUME NEW ins \in Instance, Upsert(ins) PROVE Agreement'
  <2>. DEFINE c == [kind |-> "upsert", inst |-> ins]
  <2>1. c \in Command /\ Of(c) = ins.id /\ Result(c) = {ins}
    BY DEF Command, Of, Result
  <2>. HIDE DEF c
  <2>2. ASSUME NEW id \in Ids
        PROVE  InstancesOf(id)' = IF id = Of(c) THEN Result(c) ELSE InstancesOf(id)
    BY <1>1, <2>1 DEF Upsert, Without, InstancesOf
  <2>3. commands' = Append(commands, c) /\ UNCHANGED <<startup, runners, failed>>
    BY <1>1 DEF Upsert, c
  <2>. QED
    BY <2>1, <2>2, <2>3, CommandAgrees
<1>2. ASSUME NEW gone \in Ids, Remove(gone) PROVE Agreement'
  <2>. DEFINE c == [kind |-> "remove", id |-> gone]
  <2>1. c \in Command /\ Of(c) = gone /\ Result(c) = {}
    BY DEF Command, Of, Result
  <2>. HIDE DEF c
  <2>2. ASSUME NEW id \in Ids
        PROVE  InstancesOf(id)' = IF id = Of(c) THEN Result(c) ELSE InstancesOf(id)
    BY <1>2, <2>1 DEF Remove, Without, InstancesOf
  <2>3. commands' = Append(commands, c) /\ UNCHANGED <<startup, runners, failed>>
    BY <1>2 DEF Remove, c
  <2>. QED
    BY <2>1, <2>2, <2>3, CommandAgrees
<1>3. ASSUME NEW n \in Names, RegisterOther(n) PROVE Agreement'
  BY <1>3, AgreementStutters DEF RegisterOther, ui
<1>4. CASE Startup
  BY <1>4, StartupAgrees
<1>5. CASE Receive
  BY <1>5, ReceiveAgrees
<1>6. CASE TimeoutOfTick \/ Tick
  BY <1>6, AgreementStutters DEF TimeoutOfTick, Tick, ui
<1>7. CASE UNCHANGED vars
  BY <1>7, AgreementStutters DEF vars
<1>. QED
  BY <1>1, <1>2, <1>3, <1>4, <1>5, <1>6, <1>7 DEF Next, Engine

(* Once its queue is empty the engine lists exactly what the UI wants,      *)
(* whatever was edited, refused, enabled or removed while it lagged behind. *)
THEOREM EngineConverges == Spec => []StatusExact
<1>1. EngineInv /\ Agreement => Converged
  <2>. SUFFICES ASSUME EngineInv, Agreement, commands = << >>, startup = << >>
                PROVE  {Entry(i) : i \in {j \in instances : j.enabled}}
                         = runners \cup {Entry(f) : f \in failed}
    BY DEF Converged, Entry
  <2>1. ASSUME NEW id \in Ids PROVE Wanted(id) = Listed(id)
    BY DEF Agreement, SettledAgree, Settled, StartsLater, FollowsLater
  <2>2. ASSUME NEW i \in instances, i.enabled
        PROVE  Entry(i) \in runners \cup {Entry(f) : f \in failed}
    <3>1. i.id \in Ids
      BY DEF EngineInv, TypeOK, Instance
    <3>2. Entry(i) \in Wanted(i.id)
      BY <2>2 DEF Wanted
    <3>. QED
      BY <2>1, <3>1, <3>2 DEF Listed
  <2>3. ASSUME NEW id \in Ids, NEW e \in Listed(id)
        PROVE  e \in {Entry(i) : i \in {j \in instances : j.enabled}}
    BY <2>1 DEF Wanted
  <2>4. ASSUME NEW r \in runners PROVE r.id \in Ids /\ r \in Listed(r.id)
    BY DEF EngineInv, TypeOK, Listed
  <2>5. ASSUME NEW f \in failed PROVE f.id \in Ids /\ Entry(f) \in Listed(f.id)
    BY DEF EngineInv, TypeOK, Listed
  <2>. QED
    BY <2>2, <2>3, <2>4, <2>5
<1>2. Init => EngineInv /\ Agreement
  BY EngineInit, AgreementInit
<1>3. EngineInv /\ Agreement /\ [Next]_vars => (EngineInv /\ Agreement)'
  BY EngineStep, AgreementStep
<1>4. EngineInv /\ Agreement => StatusExact
  BY <1>1 DEF EngineInv, StatusExact
<1>. QED
  BY <1>2, <1>3, <1>4, PTL DEF Spec

-----------------------------------------------------------------------------
(* The runner: what one script is fed and publishes.                        *)

LEMMA LeastOf ==
  ASSUME NEW S \in SUBSET Nat, S # {}
  PROVE  \E x \in S : \A y \in S : x <= y
<1>1. IsWellFoundedOn({ss \in Nat \X Nat : ss[1] < ss[2]}, Nat)
  BY NatLessThanWellFounded DEF OpToRel
<1>2. PICK x \in S : \A y \in S : <<y, x>> \notin {ss \in Nat \X Nat : ss[1] < ss[2]}
  BY <1>1, WFMin
<1>3. \A y \in S : x <= y
  <2>. TAKE y \in S
  <2>1. x \in Nat /\ y \in Nat /\ ~(y < x)
    BY <1>2
  <2>. QED
    BY <2>1
<1>. QED
  BY <1>3

LEMMA GreatestOf ==
  ASSUME NEW n \in Nat, NEW S \in SUBSET (0..n), S # {}
  PROVE  \E x \in S : \A y \in S : y <= x
<1>. DEFINE T == {n - x : x \in S}
<1>1. T \in SUBSET Nat /\ T # {}
  <2>1. \A x \in S : n - x \in Nat
    OBVIOUS
  <2>. QED
    BY <2>1
<1>2. PICK t \in T : \A u \in T : t <= u
  BY <1>1, LeastOf
<1>3. PICK x \in S : t = n - x
  BY <1>2
<1>4. \A y \in S : y <= x
  <2>. TAKE y \in S
  <2>1. n - y \in T
    OBVIOUS
  <2>2. n - x <= n - y /\ x \in 0..n /\ y \in 0..n
    BY <1>2, <1>3, <2>1
  <2>. QED
    BY <2>2
<1>. QED
  BY <1>4

LEMMA RunnerMax ==
  ASSUME NEW n \in Nat, NEW S \in SUBSET (0..n), S # {}
  PROVE  Runner!Max(S) \in S /\ \A y \in S : y <= Runner!Max(S)
<1>1. PICK x \in S : \A y \in S : y <= x
  BY GreatestOf
<1>2. \A y \in S : x >= y
  BY <1>1
<1>3. PICK m \in S : m = Runner!Max(S) /\ \A y \in S : m >= y
  BY <1>2 DEF Runner!Max
<1>. QED
  BY <1>3

LEMMA RunnerMin ==
  ASSUME NEW S \in SUBSET Nat, S # {}
  PROVE  Runner!Min(S) \in S /\ \A y \in S : Runner!Min(S) <= y
<1>1. PICK x \in S : \A y \in S : x <= y
  BY LeastOf
<1>. QED
  BY <1>1 DEF Runner!Min

(* Any finite set of positions can be put in order: were there one that     *)
(* cannot, a smallest such would be one that can, with its last position    *)
(* left out.                                                                *)
Ascending(ks) ==
  {s \in [1..Cardinality(ks) -> ks] : \A a, b \in DOMAIN s : a < b => s[a] < s[b]}

LEMMA AscendingExists ==
  ASSUME NEW n \in Nat, NEW ks \in SUBSET (0..n)
  PROVE  Ascending(ks) # {}
<1>. DEFINE Bad == {c \in Nat : \E S \in SUBSET (0..n) : Cardinality(S) = c /\ Ascending(S) = {}}
<1>f. ASSUME NEW S \in SUBSET (0..n) PROVE IsFiniteSet(S) /\ Cardinality(S) \in Nat
  <2>1. IsFiniteSet(0..n)
    BY FS_Interval
  <2>2. IsFiniteSet(S)
    BY <2>1, FS_Subset
  <2>. QED
    BY <2>2, FS_CardinalityType
<1>. SUFFICES ASSUME Bad # {} PROVE FALSE
  BY <1>f
<1>1. PICK c \in Bad : \A d \in Bad : c <= d
  <2>1. Bad \in SUBSET Nat
    OBVIOUS
  <2>. HIDE DEF Bad
  <2>. QED
    BY <2>1, LeastOf
<1>2. PICK S \in SUBSET (0..n) : Cardinality(S) = c /\ Ascending(S) = {}
  OBVIOUS
<1>3. S # {}
  <2>1. SUFFICES ASSUME S = {} PROVE FALSE
    OBVIOUS
  <2>2. Cardinality({}) = 0
    BY FS_EmptySet
  <2>3. [k \in 1..0 |-> 0] \in Ascending({})
    BY <2>2 DEF Ascending
  <2>. QED
    BY <1>2, <2>1, <2>3
<1>4. PICK m \in S : \A y \in S : y <= m
  BY <1>3, GreatestOf
<1>. DEFINE R == S \ {m}
<1>5. Cardinality(R) = c - 1 /\ c - 1 \in Nat /\ c \in Nat /\ R \in SUBSET (0..n)
  <2>1. IsFiniteSet(S) /\ Cardinality(R) = Cardinality(S) - 1
    BY <1>f, FS_RemoveElement
  <2>2. Cardinality(R) \in Nat
    BY <1>f
  <2>. QED
    BY <1>2, <2>1, <2>2
<1>6. Ascending(R) # {}
  <2>1. c - 1 \notin Bad
    BY <1>1, <1>5
  <2>. HIDE DEF R
  <2>. QED
    BY <1>5, <2>1
<1>7. PICK s \in Ascending(R) : TRUE
  BY <1>6
<1>. DEFINE t == [k \in 1..c |-> IF k = c THEN m ELSE s[k]]
<1>8. s \in [1..(c - 1) -> R] /\ \A a, b \in 1..(c - 1) : a < b => s[a] < s[b]
  BY <1>5, <1>7 DEF Ascending
<1>9. \A r \in R : r \in S /\ r < m
  <2>. TAKE r \in R
  <2>1. r \in S /\ r # m /\ r <= m /\ r \in 0..n /\ m \in 0..n
    BY <1>4
  <2>. QED
    BY <2>1
<1>10. t \in [1..c -> S]
  <2>. HIDE DEF R
  <2>1. ASSUME NEW k \in 1..c PROVE (IF k = c THEN m ELSE s[k]) \in S
    <3>1. k # c => k \in 1..(c - 1)
      BY <1>5
    <3>. QED
      BY <3>1, <1>8, <1>9
  <2>. QED
    BY <2>1
<1>11. ASSUME NEW a \in 1..c, NEW b \in 1..c, a < b PROVE t[a] < t[b]
  <2>. HIDE DEF R
  <2>1. a \in 1..(c - 1) /\ a # c /\ t[a] = s[a]
    BY <1>5, <1>11
  <2>2. CASE b = c
    BY <2>1, <2>2, <1>8, <1>9
  <2>3. CASE b # c
    <3>1. b \in 1..(c - 1)
      BY <1>5, <2>3
    <3>. QED
      BY <2>1, <2>3, <3>1, <1>8, <1>11
  <2>. QED
    BY <2>2, <2>3
<1>12. t \in Ascending(S)
  BY <1>2, <1>10, <1>11 DEF Ascending
<1>. QED
  BY <1>2, <1>12

LEMMA RunnerCounts == \A S : Runner!Cardinality(S) = Cardinality(S)
BY DEF Runner!Cardinality, Cardinality

(* In order, every position of the set comes once.                          *)
LEMMA InOrderIs ==
  ASSUME NEW n \in Nat, NEW ks \in SUBSET (0..n)
  PROVE  /\ IsFiniteSet(ks) /\ Cardinality(ks) \in Nat
         /\ Runner!InOrder(ks) \in [1..Cardinality(ks) -> ks]
         /\ \A a, b \in 1..Cardinality(ks) :
              a < b => Runner!InOrder(ks)[a] < Runner!InOrder(ks)[b]
         /\ \A k \in ks : \E a \in 1..Cardinality(ks) : Runner!InOrder(ks)[a] = k
<1>. DEFINE c == Cardinality(ks)
            s == Runner!InOrder(ks)
<1>1. IsFiniteSet(ks) /\ c \in Nat
  <2>1. IsFiniteSet(0..n)
    BY FS_Interval
  <2>2. IsFiniteSet(ks)
    BY <2>1, FS_Subset
  <2>. QED
    BY <2>2, FS_CardinalityType
<1>2. s \in Ascending(ks)
  <2>1. Runner!InOrder(ks) = CHOOSE x \in [1..Cardinality(ks) -> ks] :
                               \A a, b \in DOMAIN x : a < b => x[a] < x[b]
    BY RunnerCounts DEF Runner!InOrder
  <2>2. PICK x \in Ascending(ks) : TRUE
    BY AscendingExists
  <2>. QED
    BY <2>1, <2>2 DEF Ascending
<1>3. s \in [1..c -> ks] /\ \A a, b \in 1..c : a < b => s[a] < s[b]
  BY <1>2 DEF Ascending
<1>. HIDE DEF s, c
<1>4. \A a, b \in 1..c : s[a] = s[b] => a = b
  <2>. TAKE a, b \in 1..c
  <2>. HAVE s[a] = s[b]
  <2>1. s[a] \in ks /\ s[b] \in ks
    BY <1>3
  <2>2. s[a] \in 0..n /\ s[b] \in 0..n
    BY <2>1
  <2>3. ~(a < b) /\ ~(b < a)
    <3>1. a < b => s[a] < s[b]
      BY <1>3
    <3>2. b < a => s[b] < s[a]
      BY <1>3
    <3>. QED
      BY <2>2, <3>1, <3>2
  <2>. QED
    BY <2>2, <2>3
<1>5. s \in Injection(1..c, ks)
  <2>1. s \in [1..c -> ks] /\ DOMAIN s = 1..c
    BY <1>3
  <2>2. \A a, b \in DOMAIN s : s[a] = s[b] => a = b
    BY <1>4, <2>1
  <2>3. IsInjective(s)
    BY <2>2, Zenon DEF IsInjective
  <2>. QED
    BY <2>1, <2>3, Zenon DEF Injection
<1>6. Cardinality(1..c) = c
  BY <1>1, FS_Interval
<1>7. s \in Surjection(1..c, ks)
  <2>1. Cardinality(1..c) = Cardinality(ks)
    BY <1>6 DEF c
  <2>. QED
    BY <1>1, <1>5, <2>1, FS_Injection
<1>8. \A k \in ks : \E a \in 1..c : s[a] = k
  BY <1>7 DEF Surjection
<1>. QED
  BY <1>1, <1>3, <1>8 DEF s, c

RunnerTypes ==
  /\ mode \in Modes /\ now \in Nat /\ at \in Nat /\ at <= now
  /\ data \in [1..Inputs -> Seq(Nat)]
  /\ step \in {"idle", "snap"}
  /\ snaps \in Seq(SUBSET Nat) /\ Len(snaps) <= Inputs
  /\ \A i \in 1..Len(snaps) : snaps[i] \subseteq 1..Len(data[i])
  /\ fed \in [1..Inputs -> SUBSET Nat]
  /\ \A i \in 1..Inputs : fed[i] \subseteq 1..Len(data[i])
  /\ cursor \in Nat \cup {Runner!Never} /\ lastOut \in Nat \cup {Runner!Never}
  /\ lastHop \in (0..now) \cup {Runner!Never}
  /\ from \in Int /\ out \in Seq(Nat) /\ rebuilt \in Nat

InputsInOrder ==
  \A i \in 1..Inputs : \A j, k \in 1..Len(data[i]) :
    j < k => data[i][j] <= data[i][k] /\ (Strict => data[i][j] < data[i][k])

(* A window holds the samples between its ends, without a gap, though the   *)
(* input has grown since it was taken. *)
WindowOf(i) ==
  \A k \in snaps[i] :
    /\ Runner!FeedFrom <= data[i][k] /\ data[i][k] <= at
    /\ \A j \in 1..k : data[i][j] >= Runner!FeedFrom => j \in snaps[i]

WindowsTaken ==
  step = "snap" =>
    /\ state # "failed"
    /\ \A i \in 1..Len(snaps) : WindowOf(i)
    /\ mode = "reduce" /\ lastHop # Runner!Never => at - lastHop >= Hop

(* Of what an element-wise script was fed, no time is missing; every input  *)
(* was fed up to the cursor. *)
NoTimeMissing ==
  \A i \in 1..Inputs : \A k \in fed[i] : \A j \in 1..k :
    data[i][j] >= from => \E m \in fed[i] : data[i][m] = data[i][j]

FedToCursor ==
  /\ cursor # Runner!Never =>
       /\ from # Runner!Never /\ cursor >= from
       /\ \A i \in 1..Inputs : \E m \in fed[i] : data[i][m] >= cursor
  /\ cursor = Runner!Never /\ state # "failed" => from = Runner!Never

FedSoFar ==
  /\ from = Runner!Never => \A i \in 1..Inputs : fed[i] = {}
  /\ mode = "map" => NoTimeMissing /\ FedToCursor

(* What was published since the runner was first built. *)
PublishedSoFar ==
  rebuilt = 0 =>
    /\ \A a, b \in 1..Len(out) : a < b => out[a] < out[b]
    /\ lastOut = IF out = << >> THEN Runner!Never ELSE out[Len(out)]
    /\ mode = "map" /\ state # "failed" =>
         /\ \A a \in 1..Len(out) : \E k \in fed[1] : data[1][k] = out[a]
         /\ \A k \in fed[1] : \E a \in 1..Len(out) : out[a] = data[1][k]

RunnerInv == RunnerTypes /\ InputsInOrder /\ WindowsTaken /\ FedSoFar /\ PublishedSoFar

LEMMA RunnerInit == Runner!Init => RunnerInv
<1>. SUFFICES ASSUME Runner!Init PROVE RunnerInv
  OBVIOUS
<1>. USE RunnerAssumption DEF Runner!Init
<1>1. \A i \in 1..Inputs : data[i] = << >> /\ fed[i] = {}
  OBVIOUS
<1>2. RunnerTypes
  BY DEF RunnerTypes, Runner!Never
<1>3. InputsInOrder
  BY <1>1 DEF InputsInOrder
<1>4. WindowsTaken
  BY DEF WindowsTaken
<1>5. FedSoFar
  BY <1>1 DEF FedSoFar, NoTimeMissing, FedToCursor
<1>6. PublishedSoFar
  <2>1. fed[1] = {} /\ Len(out) = 0
    BY <1>1
  <2>. QED
    BY <2>1 DEF PublishedSoFar
<1>. QED
  BY <1>2, <1>3, <1>4, <1>5, <1>6 DEF RunnerInv

(* An input that grows keeps what it had, and its order. *)
LEMMA PushKeeps ==
  ASSUME RunnerInv, NEW p \in 1..Inputs, Runner!Push(p)
  PROVE  RunnerInv'
<1>. USE RunnerAssumption
<1>1. PICK ts \in 0..now :
        /\ data[p] # << >> => IF Strict THEN ts > Runner!Last(data[p]) ELSE ts >= Runner!Last(data[p])
        /\ data' = [data EXCEPT ![p] = Append(@, ts)]
  BY DEF Runner!Push
<1>2. UNCHANGED <<now, step, at, snaps, mode, cursor, lastHop, lastOut, state, out, fed, from,
                  rebuilt>>
  BY DEF Runner!Push, Runner!tick, Runner!runner, Runner!history
<1>3. ts \in Nat /\ data[p] \in Seq(Nat) /\ data \in [1..Inputs -> Seq(Nat)]
  BY DEF RunnerInv, RunnerTypes
<1>4. data' \in [1..Inputs -> Seq(Nat)] /\ data'[p] = Append(data[p], ts)
  BY <1>1, <1>3
<1>5. ASSUME NEW i \in 1..Inputs
      PROVE  /\ Len(data[i]) \in Nat /\ Len(data'[i]) \in Nat /\ Len(data[i]) <= Len(data'[i])
             /\ \A k \in 1..Len(data[i]) : data'[i][k] = data[i][k] /\ k \in 1..Len(data'[i])
  <2>1. CASE i # p
    <3>1. data'[i] = data[i] /\ data[i] \in Seq(Nat)
      BY <2>1, <1>1, <1>3
    <3>. QED
      BY <3>1
  <2>2. CASE i = p
    <3>1. /\ Len(Append(data[p], ts)) = Len(data[p]) + 1
          /\ \A k \in 1..Len(data[p]) : Append(data[p], ts)[k] = data[p][k]
      BY <1>3
    <3>2. Len(data[p]) \in Nat
      BY <1>3
    <3>. QED
      BY <2>2, <3>1, <3>2, <1>4
  <2>. QED
    BY <2>1, <2>2
<1>6. RunnerTypes'
  <2>1. \A i \in 1..Len(snaps) : i \in 1..Inputs
    BY DEF RunnerInv, RunnerTypes
  <2>2. \A i \in 1..Inputs : 1..Len(data[i]) \subseteq 1..Len(data'[i])
    BY <1>5
  <2>. QED
    BY <1>2, <1>4, <2>1, <2>2 DEF RunnerInv, RunnerTypes, Runner!Never
<1>7. InputsInOrder'
  <2>. SUFFICES ASSUME NEW i \in 1..Inputs, NEW j \in 1..Len(data'[i]), NEW k \in 1..Len(data'[i]), j < k
                PROVE  data'[i][j] <= data'[i][k] /\ (Strict => data'[i][j] < data'[i][k])
    BY DEF InputsInOrder
  <2>1. CASE j \in 1..Len(data[i]) /\ k \in 1..Len(data[i])
    BY <2>1, <1>5 DEF RunnerInv, InputsInOrder
  <2>2. CASE ~(j \in 1..Len(data[i]) /\ k \in 1..Len(data[i]))
    <3>1. i = p
      BY <2>2, <1>1, <1>3
    <3>2. Len(data'[p]) = Len(data[p]) + 1 /\ data'[p][Len(data[p]) + 1] = ts /\ Len(data[p]) \in Nat
      <4>1. Len(data[p]) \in Nat
        BY <1>3
      <4>2. /\ Len(Append(data[p], ts)) = Len(data[p]) + 1
            /\ Append(data[p], ts)[Len(data[p]) + 1] = ts
        BY <1>3
      <4>. QED
        BY <1>4, <4>1, <4>2
    <3>3. k = Len(data[p]) + 1 /\ j \in 1..Len(data[p])
      BY <2>2, <3>1, <3>2
    <3>4. data'[p][j] = data[p][j] /\ data[p] # << >>
      BY <1>5, <3>3
    <3>5. data[p][j] \in Nat /\ data[p][Len(data[p])] \in Nat
      <4>1. Len(data[p]) \in 1..Len(data[p])
        BY <3>3, <3>2
      <4>. QED
        BY <4>1, <1>3, <3>3, ElementOfSeq
    <3>6. data[p][j] <= data[p][Len(data[p])]
      <4>1. CASE j = Len(data[p])
        BY <4>1, <3>5
      <4>2. CASE j < Len(data[p])
        BY <4>2, <3>3, <3>2 DEF RunnerInv, InputsInOrder
      <4>. QED
        BY <4>1, <4>2, <3>2, <3>3
    <3>7. IF Strict THEN ts > data[p][Len(data[p])] ELSE ts >= data[p][Len(data[p])]
      BY <1>1, <3>4 DEF Runner!Last
    <3>8. data'[i][j] = data[p][j] /\ data'[i][k] = ts
      BY <3>1, <3>2, <3>3, <3>4
    <3>. QED
      BY <3>8, <3>5, <3>6, <3>7, <1>3
  <2>. QED
    BY <2>1, <2>2
<1>8. WindowsTaken'
  <2>1. Runner!FeedFrom' = Runner!FeedFrom
    BY <1>2 DEF Runner!FeedFrom
  <2>2. ASSUME NEW i \in 1..Len(snaps), WindowOf(i) PROVE WindowOf(i)'
    <3>1. i \in 1..Inputs /\ snaps[i] \subseteq 1..Len(data[i])
      BY DEF RunnerInv, RunnerTypes
    <3>2. \A k \in snaps[i] : \A j \in 1..k : j \in 1..Len(data[i]) /\ k \in 1..Len(data[i])
      BY <3>1, <1>5
    <3>. QED
      BY <2>2, <3>1, <3>2, <1>5, <1>2, <2>1 DEF WindowOf
  <2>. QED
    BY <1>2, <2>2 DEF RunnerInv, WindowsTaken
<1>9. \A i \in 1..Inputs : \A k \in fed[i] :
        k \in 1..Len(data[i]) /\ data'[i][k] = data[i][k]
  BY <1>5 DEF RunnerInv, RunnerTypes
<1>10. FedSoFar'
  <2>1. \A i \in 1..Inputs : \A k \in fed[i] : \A j \in 1..k : j \in 1..Len(data[i]) /\ data'[i][j] = data[i][j]
    BY <1>5, <1>9
  <2>2. NoTimeMissing => NoTimeMissing'
    BY <1>2, <1>9, <2>1 DEF NoTimeMissing
  <2>3. FedToCursor => FedToCursor'
    BY <1>2, <1>9 DEF FedToCursor, Runner!Never
  <2>. QED
    BY <1>2, <2>2, <2>3 DEF RunnerInv, FedSoFar, Runner!Never
<1>11. PublishedSoFar'
  <2>1. 1 \in 1..Inputs
    OBVIOUS
  <2>. QED
    BY <1>2, <1>9, <2>1 DEF RunnerInv, PublishedSoFar, Runner!Never
<1>. QED
  BY <1>6, <1>7, <1>8, <1>10, <1>11 DEF RunnerInv

(* What a script was fed and published stays while a tick only looks.       *)
LEMMA LookingKeeps ==
  ASSUME RunnerInv, UNCHANGED <<mode, data, fed, from, cursor, lastHop, lastOut, out, rebuilt>>,
         state' # "failed" => state # "failed"
  PROVE  InputsInOrder' /\ FedSoFar' /\ PublishedSoFar'
<1>1. InputsInOrder'
  BY DEF RunnerInv, InputsInOrder
<1>2. NoTimeMissing => NoTimeMissing'
  BY DEF NoTimeMissing
<1>3. FedToCursor => FedToCursor'
  BY DEF FedToCursor, Runner!Never
<1>4. FedSoFar'
  BY <1>2, <1>3 DEF RunnerInv, FedSoFar, Runner!Never
<1>5. PublishedSoFar'
  BY DEF RunnerInv, PublishedSoFar, Runner!Never
<1>. QED
  BY <1>1, <1>4, <1>5

LEMMA PassKeeps ==
  ASSUME RunnerInv, Runner!Pass
  PROVE  RunnerInv'
<1>1. /\ now' = now + 1
      /\ UNCHANGED <<data, known, step, at, snaps, mode, cursor, lastHop, lastOut, state, out, fed, from, rebuilt>>
  BY DEF Runner!Pass, Runner!tick, Runner!runner, Runner!history
<1>2. RunnerTypes'
  <2>1. now \in Nat /\ now + 1 \in Nat /\ 0..now \subseteq 0..(now + 1) /\ at <= now + 1
    BY DEF RunnerInv, RunnerTypes
  <2>. QED
    BY <1>1, <2>1 DEF RunnerInv, RunnerTypes, Runner!Never
<1>3. \A i : WindowOf(i)' <=> WindowOf(i)
  BY <1>1 DEF WindowOf, Runner!FeedFrom, Runner!Never
<1>4. WindowsTaken'
  BY <1>1, <1>3 DEF RunnerInv, WindowsTaken, Runner!Never
<1>. QED
  BY <1>1, <1>2, <1>4, LookingKeeps DEF RunnerInv

LEMMA MissingInputKeeps ==
  ASSUME RunnerInv, Runner!MissingInput
  PROVE  RunnerInv'
<1>1. /\ step = "idle" /\ state # "failed" /\ state' = "waiting input"
      /\ UNCHANGED <<now, data, mode, step, at, snaps, cursor, lastHop, lastOut, out, fed, from, rebuilt>>
  BY DEF Runner!MissingInput, Runner!Idle, Runner!inputs, Runner!tick, Runner!history
<1>2. RunnerTypes'
  BY <1>1 DEF RunnerInv, RunnerTypes, Runner!Never
<1>3. WindowsTaken'
  BY <1>1 DEF WindowsTaken
<1>. QED
  BY <1>1, <1>2, <1>3, LookingKeeps DEF RunnerInv

LEMMA BeginKeeps ==
  ASSUME RunnerInv, Runner!Begin
  PROVE  RunnerInv'
<1>. USE RunnerAssumption
<1>1. /\ step = "idle" /\ state # "failed" /\ step' = "snap" /\ at' = now /\ snaps' = << >>
      /\ ~Runner!Throttled
      /\ UNCHANGED <<now, data, mode, cursor, lastHop, lastOut, state, out, fed, from, rebuilt>>
  BY DEF Runner!Begin, Runner!Idle, Runner!inputs, Runner!runner, Runner!history
<1>2. RunnerTypes'
  BY <1>1 DEF RunnerInv, RunnerTypes, Runner!Never
<1>3. mode = "reduce" /\ lastHop # Runner!Never => now - lastHop >= Hop
  <2>1. now \in Nat /\ lastHop \in (0..now) \cup {Runner!Never}
    BY DEF RunnerInv, RunnerTypes
  <2>. QED
    BY <1>1, <2>1 DEF Runner!Throttled
<1>4. WindowsTaken'
  BY <1>1, <1>3 DEF WindowsTaken, Runner!Never
<1>. QED
  BY <1>1, <1>2, <1>4, LookingKeeps DEF RunnerInv

(* A window that is taken has every sample between its ends. *)
LEMMA SnapshotKeeps ==
  ASSUME RunnerInv, Runner!Snapshot
  PROVE  RunnerInv'
<1>. DEFINE n == Len(snaps) + 1
            w == {k \in DOMAIN data[n] : Runner!FeedFrom <= data[n][k] /\ data[n][k] <= at}
<1>1. /\ step = "snap" /\ Len(snaps) < Inputs /\ snaps' = Append(snaps, w)
      /\ UNCHANGED <<now, data, step, at, mode, cursor, lastHop, lastOut, state, out, fed, from, rebuilt>>
  BY DEF Runner!Snapshot, Runner!inputs, Runner!runner, Runner!history
<1>2. Len(snaps) \in Nat /\ n \in 1..Inputs /\ snaps \in Seq(SUBSET Nat)
  BY <1>1, RunnerAssumption DEF RunnerInv, RunnerTypes
<1>3. data[n] \in Seq(Nat) /\ DOMAIN data[n] = 1..Len(data[n]) /\ Len(data[n]) \in Nat
  BY <1>2 DEF RunnerInv, RunnerTypes
<1>4. w \subseteq 1..Len(data[n]) /\ w \in SUBSET Nat
  BY <1>3
<1>5. ASSUME NEW k \in w, NEW j \in 1..k, data[n][j] >= Runner!FeedFrom PROVE j \in w
  <2>1. j \in 1..Len(data[n]) /\ k \in 1..Len(data[n]) /\ j <= k /\ data[n][k] <= at
    BY <1>3, <1>4
  <2>2. data[n][j] <= data[n][k]
    <3>1. data[n][k] \in Nat
      BY <1>3, <2>1, ElementOfSeq
    <3>2. j < k => data[n][j] <= data[n][k]
      BY <1>2, <2>1 DEF RunnerInv, InputsInOrder
    <3>. QED
      BY <2>1, <3>1, <3>2
  <2>3. data[n][j] \in Nat /\ data[n][k] \in Nat /\ at \in Nat
    BY <1>3, <2>1, ElementOfSeq DEF RunnerInv, RunnerTypes
  <2>. QED
    BY <2>1, <2>2, <2>3, <1>3, <1>5
<1>. HIDE DEF w
<1>6. /\ Len(snaps') = n /\ snaps'[n] = w /\ snaps' \in Seq(SUBSET Nat)
      /\ \A i \in 1..Len(snaps) : snaps'[i] = snaps[i]
  <2>1. Append(snaps, w) \in Seq(SUBSET Nat) /\ Len(Append(snaps, w)) = n
    BY <1>2, <1>4
  <2>2. Append(snaps, w)[n] = w /\ \A i \in 1..Len(snaps) : Append(snaps, w)[i] = snaps[i]
    BY <1>2, <1>4
  <2>. QED
    BY <1>1, <2>1, <2>2
<1>7. \A i \in 1..n : i = n \/ i \in 1..Len(snaps)
  BY <1>2
<1>8. RunnerTypes'
  <2>1. \A i \in 1..Len(snaps') : snaps'[i] \subseteq 1..Len(data'[i])
    BY <1>1, <1>4, <1>6, <1>7 DEF RunnerInv, RunnerTypes
  <2>2. Len(snaps') <= Inputs
    BY <1>2, <1>6
  <2>. QED
    BY <1>1, <1>6, <2>1, <2>2 DEF RunnerInv, RunnerTypes, Runner!Never
<1>9. WindowsTaken'
  <2>1. Runner!FeedFrom' = Runner!FeedFrom
    BY <1>1 DEF Runner!FeedFrom, Runner!Never
  <2>2. ASSUME NEW i \in 1..Len(snaps) PROVE WindowOf(i)'
    <3>1. WindowOf(i)
      BY <1>1 DEF RunnerInv, WindowsTaken
    <3>. QED
      BY <1>1, <1>6, <2>1, <3>1 DEF WindowOf
  <2>3. ASSUME NEW i, i = n PROVE WindowOf(i)'
    <3>1. \A k \in w : Runner!FeedFrom <= data[n][k] /\ data[n][k] <= at
      BY DEF w
    <3>. QED
      BY <1>1, <1>5, <1>6, <2>1, <2>3, <3>1 DEF WindowOf
  <2>4. ASSUME NEW i \in 1..Len(snaps') PROVE WindowOf(i)'
    BY <1>6, <1>7, <2>2, <2>3
  <2>. QED
    BY <1>1, <2>4 DEF RunnerInv, WindowsTaken, Runner!Never
<1>. QED
  BY <1>1, <1>8, <1>9, LookingKeeps DEF RunnerInv

LEMMA NoDataKeeps ==
  ASSUME RunnerInv, Runner!NoData
  PROVE  RunnerInv'
<1>1. /\ step = "snap" /\ step' = "idle" /\ state' = "waiting data"
      /\ UNCHANGED <<now, data, mode, at, snaps, cursor, lastHop, lastOut, out, fed, from, rebuilt>>
  BY DEF Runner!NoData, Runner!inputs, Runner!history
<1>2. state # "failed"
  BY <1>1 DEF RunnerInv, WindowsTaken
<1>3. RunnerTypes'
  BY <1>1 DEF RunnerInv, RunnerTypes, Runner!Never
<1>4. WindowsTaken'
  BY <1>1 DEF WindowsTaken
<1>. QED
  BY <1>1, <1>2, <1>3, <1>4, LookingKeeps DEF RunnerInv

LEMMA RebuildKeeps ==
  ASSUME RunnerInv, Runner!Rebuild
  PROVE  RunnerInv'
<1>1. /\ step = "idle" /\ rebuilt' = rebuilt + 1 /\ state' = "healthy"
      /\ cursor' = Runner!Never /\ lastHop' = Runner!Never /\ lastOut' = Runner!Never
      /\ from' = Runner!Never /\ fed' = [i \in 1..Inputs |-> {}]
      /\ UNCHANGED <<now, data, mode, step, at, snaps, out>>
  BY DEF Runner!Rebuild, Runner!inputs, Runner!tick
<1>2. rebuilt + 1 # 0 /\ rebuilt + 1 \in Nat
  BY DEF RunnerInv, RunnerTypes
<1>3. Runner!Never \in Int
  BY RunnerAssumption DEF Runner!Never
<1>4. \A i \in 1..Inputs : fed'[i] = {}
  BY <1>1
<1>5. RunnerTypes'
  BY <1>1, <1>2, <1>3, <1>4 DEF RunnerInv, RunnerTypes, Runner!Never
<1>6. InputsInOrder' /\ WindowsTaken' /\ PublishedSoFar'
  BY <1>1, <1>2 DEF RunnerInv, InputsInOrder, WindowsTaken, PublishedSoFar
<1>7. FedSoFar'
  BY <1>1, <1>4 DEF FedSoFar, NoTimeMissing, FedToCursor, Runner!Never
<1>. QED
  BY <1>5, <1>6, <1>7 DEF RunnerInv

(* A run feeds whole windows, which leaves nothing out: what is older than  *)
(* a window and no older than the first was fed before, up to the cursor.   *)
LEMMA FeedKeeps ==
  ASSUME RunnerInv, Runner!HasData, UNCHANGED <<mode, data>>,
         fed' = [i \in 1..Inputs |-> fed[i] \cup snaps[i]],
         from' = IF from = Runner!Never THEN Runner!FeedFrom ELSE from
  PROVE  /\ \A i \in 1..Inputs : i \in 1..Len(snaps) /\ WindowOf(i) /\ snaps[i] # {}
         /\ fed' \in [1..Inputs -> SUBSET Nat]
         /\ \A i \in 1..Inputs : snaps[i] \subseteq 1..Len(data[i]) /\ fed'[i] \subseteq 1..Len(data[i])
         /\ Runner!FeedFrom \in Int /\ from' \in Int /\ from' # Runner!Never
         /\ mode = "map" => NoTimeMissing' /\ from' <= Runner!FeedFrom
<1>. USE RunnerAssumption
<1>. DEFINE ff == Runner!FeedFrom
<1>0. /\ step = "snap" /\ Len(snaps) = Inputs /\ \A i \in 1..Inputs : snaps[i] # {}
  BY DEF Runner!HasData
<1>1. \A i \in 1..Inputs : i \in 1..Len(snaps) /\ WindowOf(i) /\ snaps[i] # {}
  BY <1>0 DEF RunnerInv, WindowsTaken
<1>2. \A i \in 1..Inputs : fed'[i] = fed[i] \cup snaps[i]
  OBVIOUS
<1>3. \A i \in 1..Inputs : snaps[i] \subseteq 1..Len(data[i]) /\ fed[i] \subseteq 1..Len(data[i])
  BY <1>0 DEF RunnerInv, RunnerTypes
<1>4. \A i \in 1..Inputs : snaps[i] \subseteq Nat /\ fed[i] \subseteq Nat
  BY <1>3
<1>5. fed' \in [1..Inputs -> SUBSET Nat]
  BY <1>4
<1>6. /\ at \in Nat /\ cursor \in Nat \cup {Runner!Never} /\ from \in Int
      /\ ff = IF mode = "map" /\ cursor # Runner!Never THEN cursor + 1 ELSE at - Window
  BY DEF RunnerInv, RunnerTypes, Runner!FeedFrom
<1>7. ff \in Int /\ ff > Runner!Never
  BY <1>6 DEF Runner!Never
<1>8. Runner!Never \in Int
  BY DEF Runner!Never
<1>. HIDE DEF ff
<1>9. from' \in Int /\ from' # Runner!Never
  BY <1>6, <1>7, <1>8 DEF ff
<1>10. ASSUME mode = "map", from # Runner!Never
       PROVE  cursor \in Nat /\ ff = cursor + 1 /\ cursor >= from /\ from' = from /\ FedToCursor
  <2>1. FedToCursor /\ state # "failed"
    BY <1>0, <1>10 DEF RunnerInv, FedSoFar, WindowsTaken
  <2>. QED
    BY <2>1, <1>6, <1>10 DEF FedToCursor
<1>11. ASSUME mode = "map" PROVE from' <= ff
  <2>1. CASE from = Runner!Never
    BY <2>1, <1>7 DEF ff
  <2>2. CASE from # Runner!Never
    BY <2>2, <1>10, <1>11, <1>6
  <2>. QED
    BY <2>1, <2>2
<1>12. ASSUME mode = "map" PROVE NoTimeMissing'
  <2>. SUFFICES ASSUME NEW i \in 1..Inputs, NEW k \in fed'[i], NEW j \in 1..k, data[i][j] >= from'
                PROVE  \E m \in fed'[i] : data[i][m] = data[i][j]
    BY DEF NoTimeMissing
  <2>0. NoTimeMissing
    BY <1>12 DEF RunnerInv, FedSoFar
  <2>1. CASE k \in fed[i]
    <3>1. from # Runner!Never
      BY <2>1 DEF RunnerInv, FedSoFar
    <3>2. \E m \in fed[i] : data[i][m] = data[i][j]
      BY <2>0, <2>1, <3>1 DEF NoTimeMissing
    <3>. QED
      BY <3>2, <1>2
  <2>2. CASE k \in snaps[i]
    <3>1. CASE data[i][j] >= ff
      BY <2>2, <3>1, <1>1, <1>2 DEF WindowOf, ff
    <3>2. CASE ~(data[i][j] >= ff)
      <4>1. k \in 1..Len(data[i]) /\ j \in 1..Len(data[i]) /\ Len(data[i]) \in Nat
        <5>1. k \in 1..Len(data[i]) /\ data[i] \in Seq(Nat)
          BY <2>2, <1>3 DEF RunnerInv, RunnerTypes
        <5>. QED
          BY <5>1
      <4>2. data[i][j] \in Nat
        BY <4>1, ElementOfSeq DEF RunnerInv, RunnerTypes
      <4>3. from # Runner!Never
        BY <3>2 DEF ff
      <4>4. data[i][j] <= cursor
        BY <4>2, <4>3, <3>2, <1>10, <1>12
      <4>5. PICK m \in fed[i] : data[i][m] >= cursor
        BY <4>3, <1>10, <1>12, <1>8 DEF FedToCursor, Runner!Never
      <4>6. m \in 1..Len(data[i])
        BY <1>3
      <4>7. data[i][m] \in Nat
        BY <4>6, ElementOfSeq DEF RunnerInv, RunnerTypes
      <4>8. CASE j <= m
        <5>1. j \in 1..m
          BY <4>1, <4>6, <4>8
        <5>. QED
          BY <5>1, <2>0, <4>3, <1>2 DEF NoTimeMissing
      <4>9. CASE m < j
        <5>1. data[i][m] <= data[i][j]
          BY <4>1, <4>6, <4>9 DEF RunnerInv, InputsInOrder
        <5>2. data[i][m] = data[i][j]
          BY <5>1, <4>2, <4>4, <4>5, <4>7, <4>3, <1>10, <1>12
        <5>. QED
          BY <5>2, <1>2
      <4>. QED
        BY <4>1, <4>6, <4>8, <4>9
    <3>. QED
      BY <3>1, <3>2
  <2>. QED
    BY <2>1, <2>2, <1>2
<1>. QED
  BY <1>1, <1>2, <1>3, <1>5, <1>7, <1>9, <1>11, <1>12 DEF ff

LEMMA RunFailsKeeps ==
  ASSUME RunnerInv, Runner!RunFails
  PROVE  RunnerInv'
<1>1. /\ Runner!HasData /\ step' = "idle" /\ state' = "failed"
      /\ fed' = [i \in 1..Inputs |-> fed[i] \cup snaps[i]]
      /\ from' = IF from = Runner!Never THEN Runner!FeedFrom ELSE from
      /\ UNCHANGED <<now, data, mode, at, snaps, cursor, lastHop, lastOut, out, rebuilt>>
  BY DEF Runner!RunFails, Runner!Feed, Runner!inputs
<1>2. /\ fed' \in [1..Inputs -> SUBSET Nat] /\ \A i \in 1..Inputs : fed'[i] \subseteq 1..Len(data[i])
      /\ from' \in Int /\ from' # Runner!Never
      /\ mode = "map" => NoTimeMissing'
  BY <1>1, FeedKeeps
<1>3. RunnerTypes'
  BY <1>1, <1>2 DEF RunnerInv, RunnerTypes, Runner!Never
<1>4. InputsInOrder' /\ WindowsTaken' /\ PublishedSoFar'
  BY <1>1 DEF RunnerInv, InputsInOrder, WindowsTaken, PublishedSoFar, Runner!Never
<1>5. FedToCursor => FedToCursor'
  <2>1. \A i \in 1..Inputs : fed[i] \subseteq fed'[i]
    BY <1>1
  <2>. QED
    BY <1>1, <2>1 DEF FedToCursor, Runner!Never
<1>6. FedSoFar'
  BY <1>1, <1>2, <1>5 DEF RunnerInv, FedSoFar, Runner!Never
<1>. QED
  BY <1>3, <1>4, <1>6 DEF RunnerInv

(* What a run appends: each new time once, in order, all of them newer than *)
(* what was published. *)
Appended == [n \in DOMAIN Runner!InOrder(Runner!Fresh) |-> data[1][Runner!InOrder(Runner!Fresh)[n]]]

LEMMA AppendedIs ==
  ASSUME RunnerInv, Runner!HasData
  PROVE  /\ Appended \in Seq(Nat)
         /\ \A a \in 1..Len(Appended) :
              /\ Appended[a] > lastOut
              /\ \E k \in snaps[1] : data[1][k] = Appended[a]
              /\ \E k \in Runner!Fresh : data[1][k] = Appended[a]
         /\ \A a, b \in 1..Len(Appended) : a < b => Appended[a] < Appended[b]
         /\ IF Runner!Fresh = {} THEN Appended = << >>
            ELSE Len(Appended) > 0 /\ data[1][Runner!Max(Runner!Fresh)] = Appended[Len(Appended)]
         /\ \A k \in Runner!Fresh : \E a \in 1..Len(Appended) : Appended[a] = data[1][k]
<1>. USE RunnerAssumption
<1>. DEFINE N == Len(data[1])
            ks == Runner!Fresh
            s == Runner!InOrder(ks)
            c == Cardinality(ks)
<1>1. 1 \in 1..Inputs /\ data[1] \in Seq(Nat) /\ N \in Nat
  BY DEF RunnerInv, RunnerTypes
<1>2. snaps[1] \subseteq 1..N /\ snaps[1] # {}
  BY <1>1 DEF RunnerInv, RunnerTypes, Runner!HasData
<1>3. Runner!Batch \subseteq snaps[1]
  <2>1. snaps[1] \in SUBSET (0..N)
    BY <1>2, <1>1
  <2>2. Runner!Max(snaps[1]) \in snaps[1]
    BY <1>1, <1>2, <2>1, RunnerMax
  <2>. QED
    BY <2>2 DEF Runner!Batch
<1>4. /\ ks \subseteq snaps[1]
      /\ \A k \in ks : data[1][k] > lastOut
      /\ \A j, k \in ks : j < k => data[1][j] < data[1][k]
  BY <1>3 DEF Runner!Fresh, Runner!Newer
<1>5. \A k \in snaps[1] : k \in 1..N /\ data[1][k] \in Nat
  BY <1>1, <1>2, ElementOfSeq
<1>6. ks \in SUBSET (0..N)
  BY <1>1, <1>2, <1>4
<1>. HIDE DEF ks
<1>7. /\ c \in Nat /\ s \in [1..c -> ks]
      /\ \A a, b \in 1..c : a < b => s[a] < s[b]
      /\ \A k \in ks : \E a \in 1..c : s[a] = k
  BY <1>1, <1>6, InOrderIs
<1>. HIDE DEF s, c
<1>8. Appended = [n \in 1..c |-> data[1][s[n]]]
  BY <1>7 DEF Appended, s, ks
<1>9. \A a \in 1..c : s[a] \in ks /\ data[1][s[a]] \in Nat
  BY <1>4, <1>5, <1>7
<1>10. Appended \in Seq(Nat) /\ Len(Appended) = c /\ \A a \in 1..c : Appended[a] = data[1][s[a]]
  <2>1. Appended \in [1..c -> Nat]
    BY <1>8, <1>9
  <2>2. Appended \in Seq(Nat)
    BY <2>1, <1>7
  <2>3. Len(Appended) = c
    BY <2>1, <2>2, <1>7
  <2>. QED
    BY <2>2, <2>3, <1>8
<1>11. \A a \in 1..c :
         /\ Appended[a] > lastOut
         /\ \E k \in snaps[1] : data[1][k] = Appended[a]
         /\ \E k \in ks : data[1][k] = Appended[a]
  BY <1>4, <1>9, <1>10
<1>12. \A a, b \in 1..c : a < b => Appended[a] < Appended[b]
  <2>. TAKE a, b \in 1..c
  <2>. HAVE a < b
  <2>1. s[a] < s[b] /\ s[a] \in ks /\ s[b] \in ks
    BY <1>7, <1>9
  <2>. QED
    BY <2>1, <1>4, <1>10
<1>13. \A k \in ks : \E a \in 1..c : Appended[a] = data[1][k]
  BY <1>7, <1>10
<1>14. CASE ks = {}
  <2>1. c = 0
    <3>1. c # 0 => 1 \in 1..c
      BY <1>7
    <3>. QED
      BY <3>1, <1>9, <1>14
  <2>2. Appended = << >>
    BY <2>1, <1>10
  <2>. QED
    BY <2>2, <1>10, <1>11, <1>12, <1>13, <1>14 DEF ks
<1>15. CASE ks # {}
  <2>1. /\ Runner!Max(ks) \in ks
        /\ \A y \in ks : y <= Runner!Max(ks)
    BY <1>1, <1>6, <1>15, RunnerMax
  <2>2. PICK a \in 1..c : s[a] = Runner!Max(ks)
    BY <1>7, <2>1
  <2>3. c \in 1..c
    BY <1>7
  <2>4. a = c
    <3>1. s[c] <= s[a] /\ s[c] \in 0..N /\ s[a] \in 0..N
      BY <1>6, <1>9, <2>1, <2>2, <2>3
    <3>2. ~(a < c)
      BY <1>7, <2>3, <3>1
    <3>. QED
      BY <1>7, <3>2
  <2>5. c > 0 /\ data[1][Runner!Max(ks)] = Appended[c]
    BY <1>7, <1>10, <2>2, <2>3, <2>4
  <2>. QED
    BY <2>5, <1>10, <1>11, <1>12, <1>13, <1>15 DEF ks
<1>. QED
  BY <1>14, <1>15

(* Everything fed of the first input is published, now or before. *)
LEMMA FedIsPublished ==
  ASSUME RunnerInv, Runner!HasData, mode = "map", rebuilt = 0,
         from' = IF from = Runner!Never THEN Runner!FeedFrom ELSE from, UNCHANGED <<mode, data>>,
         fed' = [i \in 1..Inputs |-> fed[i] \cup snaps[i]],
         NEW k \in snaps[1]
  PROVE  \/ \E a \in 1..Len(out) : out[a] = data[1][k]
         \/ \E j \in Runner!Fresh : data[1][j] = data[1][k]
<1>. USE RunnerAssumption
<1>. DEFINE N == Len(data[1])
<1>1. 1 \in 1..Inputs /\ data[1] \in Seq(Nat) /\ N \in Nat
  BY DEF RunnerInv, RunnerTypes
<1>2. snaps[1] \subseteq 1..N /\ fed[1] \subseteq 1..N
  BY <1>1 DEF RunnerInv, RunnerTypes, Runner!HasData
<1>3. \A j \in 1..N : data[1][j] \in Nat
  BY <1>1, ElementOfSeq
<1>4. step = "snap" /\ state # "failed" /\ WindowOf(1) /\ from' <= Runner!FeedFrom
  BY <1>1, FeedKeeps DEF RunnerInv, WindowsTaken, Runner!HasData
<1>5. /\ lastOut = IF out = << >> THEN Runner!Never ELSE out[Len(out)]
      /\ \A a \in 1..Len(out) : \E m \in fed[1] : data[1][m] = out[a]
      /\ \A m \in fed[1] : \E a \in 1..Len(out) : out[a] = data[1][m]
  BY <1>4 DEF RunnerInv, PublishedSoFar
<1>6. lastOut \in Nat \cup {Runner!Never} /\ out \in Seq(Nat)
  BY DEF RunnerInv, RunnerTypes
<1>7. CASE ~(data[1][k] > lastOut)
  <2>1. data[1][k] \in Nat /\ data[1][k] <= lastOut
    BY <1>2, <1>3, <1>6, <1>7 DEF Runner!Never
  <2>2. out # << >>
    BY <1>5, <2>1 DEF Runner!Never
  <2>3. Len(out) \in 1..Len(out)
    BY <1>6, <2>2
  <2>4. PICK m \in fed[1] : data[1][m] = lastOut
    BY <1>5, <2>2, <2>3
  <2>5. k \in 1..N /\ m \in 1..N /\ data[1][m] \in Nat
    BY <1>2, <1>3
  <2>6. CASE k <= m
    <3>1. from # Runner!Never /\ from' = from
      BY <1>1 DEF RunnerInv, FedSoFar
    <3>2. data[1][k] >= from
      <4>1. Runner!FeedFrom <= data[1][k] /\ Runner!FeedFrom \in Int /\ from \in Int
        BY <1>4, FeedKeeps DEF WindowOf, RunnerInv, RunnerTypes
      <4>. QED
        BY <4>1, <1>4, <2>1, <3>1
    <3>3. k \in 1..m
      BY <2>5, <2>6
    <3>4. \E l \in fed[1] : data[1][l] = data[1][k]
      BY <1>1, <3>2, <3>3 DEF RunnerInv, FedSoFar, NoTimeMissing
    <3>. QED
      BY <3>4, <1>5
  <2>7. CASE m < k
    <3>1. data[1][m] <= data[1][k]
      BY <1>1, <2>5, <2>7 DEF RunnerInv, InputsInOrder
    <3>2. data[1][k] = out[Len(out)]
      BY <3>1, <2>1, <2>2, <2>4, <2>5, <1>5
    <3>. QED
      BY <3>2, <2>3
  <2>. QED
    BY <2>5, <2>6, <2>7
<1>8. CASE data[1][k] > lastOut
  <2>. DEFINE same == {j \in snaps[1] : data[1][j] = data[1][k]}
  <2>1. same \in SUBSET Nat /\ k \in same
    BY <1>1, <1>2
  <2>2. PICK j \in same : \A y \in same : j <= y
    BY <2>1, LeastOf
  <2>3. ASSUME NEW l \in snaps[1], l < j PROVE data[1][l] < data[1][j]
    <3>1. l \in 1..N /\ j \in 1..N
      BY <1>2
    <3>2. data[1][l] <= data[1][j]
      BY <1>1, <2>3, <3>1 DEF RunnerInv, InputsInOrder
    <3>3. l \notin same
      BY <2>2, <2>3, <3>1
    <3>4. data[1][l] # data[1][j]
      BY <3>3
    <3>. QED
      BY <3>1, <3>2, <3>4, <1>3
  <2>4. j \in Runner!Fresh
    BY <1>8, <2>3 DEF Runner!Fresh, Runner!Batch, Runner!Newer
  <2>. QED
    BY <2>4
<1>. QED
  BY <1>7, <1>8

LEMMA RunKeeps ==
  ASSUME RunnerInv, Runner!Run
  PROVE  RunnerInv'
<1>. USE RunnerAssumption
<1>1. /\ Runner!HasData /\ step' = "idle" /\ state' = "healthy"
      /\ out' = out \o Appended
      /\ lastOut' = IF Runner!Fresh = {} THEN lastOut ELSE data[1][Runner!Max(Runner!Fresh)]
      /\ IF mode = "map" THEN cursor' = Runner!Advanced /\ lastHop' = lastHop
                         ELSE lastHop' = at /\ cursor' = cursor
      /\ fed' = [i \in 1..Inputs |-> fed[i] \cup snaps[i]]
      /\ from' = IF from = Runner!Never THEN Runner!FeedFrom ELSE from
      /\ UNCHANGED <<now, data, mode, at, snaps, rebuilt>>
  BY DEF Runner!Run, Runner!TakeHop, Runner!Feed, Runner!inputs, Appended
<1>2. /\ \A i \in 1..Inputs : i \in 1..Len(snaps) /\ WindowOf(i) /\ snaps[i] # {}
      /\ fed' \in [1..Inputs -> SUBSET Nat]
      /\ \A i \in 1..Inputs : snaps[i] \subseteq 1..Len(data[i]) /\ fed'[i] \subseteq 1..Len(data[i])
      /\ Runner!FeedFrom \in Int /\ from' \in Int /\ from' # Runner!Never
      /\ mode = "map" => NoTimeMissing' /\ from' <= Runner!FeedFrom
  BY <1>1, FeedKeeps
<1>3. ASSUME NEW i \in 1..Inputs
      PROVE  /\ Runner!Max(snaps[i]) \in snaps[i] /\ Runner!Newest(i) \in Nat
             /\ Runner!Newest(i) >= Runner!FeedFrom
  <2>1. data[i] \in Seq(Nat) /\ Len(data[i]) \in Nat /\ snaps[i] # {} /\ snaps[i] \subseteq 1..Len(data[i])
    BY <1>2 DEF RunnerInv, RunnerTypes
  <2>2. snaps[i] \in SUBSET (0..Len(data[i]))
    BY <2>1
  <2>3. Runner!Max(snaps[i]) \in snaps[i]
    BY <2>1, <2>2, RunnerMax
  <2>4. Runner!Newest(i) \in Nat
    BY <2>1, <2>3, ElementOfSeq DEF Runner!Newest
  <2>5. Runner!Newest(i) >= Runner!FeedFrom
    BY <1>2, <2>3, <2>4 DEF WindowOf, Runner!Newest
  <2>. QED
    BY <2>3, <2>4, <2>5
<1>. DEFINE newest == {Runner!Newest(i) : i \in 1..Inputs}
<1>4. Runner!Advanced \in newest /\ \A i \in 1..Inputs : Runner!Advanced <= Runner!Newest(i)
  <2>1. newest \in SUBSET Nat /\ Runner!Newest(1) \in newest
    BY <1>3
  <2>2. Runner!Min(newest) \in newest /\ \A y \in newest : Runner!Min(newest) <= y
    BY <2>1, RunnerMin
  <2>. QED
    BY <2>2 DEF Runner!Advanced
<1>5. Runner!Advanced \in Nat /\ Runner!Advanced >= Runner!FeedFrom
  BY <1>3, <1>4
<1>. HIDE DEF newest
<1>6. /\ out \in Seq(Nat) /\ lastOut \in Nat \cup {Runner!Never} /\ Len(out) \in Nat
      /\ at \in 0..now /\ Runner!Never \in Int /\ Runner!Never < 0
  BY DEF RunnerInv, RunnerTypes, Runner!Never
<1>7. /\ Appended \in Seq(Nat) /\ Len(Appended) \in Nat
      /\ \A a \in 1..Len(Appended) :
           /\ Appended[a] > lastOut
           /\ \E k \in snaps[1] : data[1][k] = Appended[a]
      /\ \A a, b \in 1..Len(Appended) : a < b => Appended[a] < Appended[b]
      /\ IF Runner!Fresh = {} THEN Appended = << >>
         ELSE Len(Appended) > 0 /\ data[1][Runner!Max(Runner!Fresh)] = Appended[Len(Appended)]
      /\ \A k \in Runner!Fresh : \E a \in 1..Len(Appended) : Appended[a] = data[1][k]
  BY <1>1, AppendedIs
<1>. HIDE DEF Appended
<1>8. /\ out' \in Seq(Nat) /\ Len(out') = Len(out) + Len(Appended)
      /\ \A a \in 1..Len(out) : out'[a] = out[a]
      /\ \A a \in 1..Len(Appended) : out'[Len(out) + a] = Appended[a]
  <2>1. out \o Appended \in Seq(Nat) /\ Len(out \o Appended) = Len(out) + Len(Appended)
    BY <1>6, <1>7
  <2>2. \A a \in 1..Len(out) : (out \o Appended)[a] = out[a]
    BY <1>6, <1>7
  <2>3. \A a \in 1..Len(Appended) : (out \o Appended)[Len(out) + a] = Appended[a]
    BY <1>6, <1>7
  <2>. QED
    BY <1>1, <2>1, <2>2, <2>3
<1>9. \A a \in 1..Len(out') : a \in 1..Len(out) \/ \E b \in 1..Len(Appended) : a = Len(out) + b
  <2>. TAKE a \in 1..Len(out')
  <2>1. a \in Nat /\ a > Len(out) => a - Len(out) \in 1..Len(Appended) /\ a = Len(out) + (a - Len(out))
    BY <1>6, <1>7, <1>8
  <2>2. a \in Nat /\ a > 0
    BY <1>6, <1>7, <1>8
  <2>3. CASE a > Len(out)
    BY <2>1, <2>2, <2>3
  <2>4. CASE a <= Len(out)
    BY <2>2, <2>4, <1>6
  <2>. QED
    BY <2>2, <2>3, <2>4, <1>6
<1>10. lastOut' \in Nat \cup {Runner!Never}
  <2>1. CASE Runner!Fresh = {}
    BY <2>1, <1>1, <1>6
  <2>2. CASE Runner!Fresh # {}
    <3>1. Len(Appended) \in 1..Len(Appended)
      BY <2>2, <1>7
    <3>2. Appended[Len(Appended)] \in Nat
      BY <3>1, <1>7, ElementOfSeq
    <3>. QED
      BY <2>2, <3>2, <1>1, <1>7
  <2>. QED
    BY <2>1, <2>2
<1>11. RunnerTypes'
  <2>1. cursor' \in Nat \cup {Runner!Never} /\ lastHop' \in (0..now) \cup {Runner!Never}
    BY <1>1, <1>5, <1>6 DEF RunnerInv, RunnerTypes
  <2>. QED
    BY <1>1, <1>2, <1>8, <1>10, <2>1 DEF RunnerInv, RunnerTypes, Runner!Never
<1>12. InputsInOrder' /\ WindowsTaken'
  BY <1>1 DEF RunnerInv, InputsInOrder, WindowsTaken
<1>13. ASSUME mode = "map" PROVE FedToCursor'
  <2>1. cursor' = Runner!Advanced /\ cursor' \in Nat
    BY <1>1, <1>5, <1>13
  <2>2. cursor' >= from'
    BY <1>2, <1>5, <1>13, <2>1
  <2>3. ASSUME NEW i \in 1..Inputs PROVE \E m \in fed'[i] : data[i][m] >= cursor'
    <3>1. Runner!Max(snaps[i]) \in fed'[i]
      BY <1>1, <1>3
    <3>2. data[i][Runner!Max(snaps[i])] >= cursor'
      BY <1>3, <1>4, <2>1 DEF Runner!Newest
    <3>. QED
      BY <3>1, <3>2
  <2>. QED
    <3>1. cursor' # Runner!Never
      BY <1>6, <2>1
    <3>2. \A i \in 1..Inputs : \E m \in fed'[i] : data'[i][m] >= cursor'
      BY <1>1, <2>3
    <3>3. (Runner!Never)' = Runner!Never
      BY DEF Runner!Never
    <3>. QED
      BY <1>2, <2>2, <3>1, <3>2, <3>3 DEF FedToCursor
<1>14. FedSoFar'
  BY <1>1, <1>2, <1>13 DEF FedSoFar, Runner!Never
<1>15. ASSUME rebuilt = 0
       PROVE  \A a, b \in 1..Len(out') : a < b => out'[a] < out'[b]
  <2>. SUFFICES ASSUME NEW a \in 1..Len(out'), NEW b \in 1..Len(out'), a < b PROVE out'[a] < out'[b]
    OBVIOUS
  <2>0. /\ \A x, y \in 1..Len(out) : x < y => out[x] < out[y]
        /\ lastOut = IF out = << >> THEN Runner!Never ELSE out[Len(out)]
    BY <1>15 DEF RunnerInv, PublishedSoFar
  <2>1. CASE b \in 1..Len(out)
    <3>1. a \in 1..Len(out)
      BY <2>1, <1>6, <1>8
    <3>. QED
      BY <2>0, <2>1, <3>1, <1>8
  <2>2. ASSUME NEW d \in 1..Len(Appended), b = Len(out) + d PROVE out'[a] < out'[b]
    <3>1. out'[b] = Appended[d] /\ Appended[d] > lastOut /\ Appended[d] \in Nat
      <4>1. Appended[d] \in Nat
        BY <1>7, ElementOfSeq
      <4>. QED
        BY <2>2, <4>1, <1>7, <1>8
    <3>2. CASE a \in 1..Len(out)
      <4>1. lastOut = out[Len(out)] /\ Len(out) \in 1..Len(out)
        BY <2>0, <3>2, <1>6
      <4>2. out[a] \in Nat /\ out[Len(out)] \in Nat
        BY <3>2, <4>1, <1>6, ElementOfSeq
      <4>3. a < Len(out) => out[a] < out[Len(out)]
        BY <2>0, <3>2, <4>1
      <4>4. out[a] <= lastOut
        BY <3>2, <4>1, <4>2, <4>3
      <4>5. out'[a] = out[a]
        BY <3>2, <1>8
      <4>6. lastOut \in Nat /\ out[a] < Appended[d]
        BY <3>1, <4>1, <4>2, <4>4
      <4>. QED
        BY <3>1, <4>5, <4>6
    <3>3. ASSUME NEW e \in 1..Len(Appended), a = Len(out) + e PROVE out'[a] < out'[b]
      <4>1. e < d
        BY <2>2, <3>3, <1>6
      <4>2. Appended[e] < Appended[d]
        BY <4>1, <1>7
      <4>. QED
        BY <2>2, <3>3, <4>2, <1>8
    <3>. QED
      BY <3>2, <3>3, <1>9
  <2>. QED
    BY <2>1, <2>2, <1>9
<1>16. ASSUME rebuilt = 0
       PROVE  lastOut' = IF out' = << >> THEN Runner!Never ELSE out'[Len(out')]
  <2>0. lastOut = IF out = << >> THEN Runner!Never ELSE out[Len(out)]
    BY <1>16 DEF RunnerInv, PublishedSoFar
  <2>1. CASE Runner!Fresh = {}
    <3>1. out' = out
      BY <2>1, <1>1, <1>6, <1>7
    <3>. QED
      BY <2>0, <2>1, <3>1, <1>1
  <2>2. CASE Runner!Fresh # {}
    <3>1. lastOut' = Appended[Len(Appended)] /\ Len(Appended) > 0
      BY <2>2, <1>1, <1>7
    <3>2. Len(Appended) \in 1..Len(Appended)
      BY <3>1, <1>7
    <3>3. out'[Len(out')] = Appended[Len(Appended)]
      BY <3>2, <1>8
    <3>4. out' # << >>
      <4>1. Len(out') > 0
        BY <3>1, <1>6, <1>7, <1>8
      <4>. QED
        BY <4>1
    <3>. QED
      BY <3>1, <3>3, <3>4
  <2>. QED
    BY <2>1, <2>2
<1>17. ASSUME rebuilt = 0, mode = "map"
       PROVE  /\ \A a \in 1..Len(out') : \E k \in fed'[1] : data[1][k] = out'[a]
              /\ \A k \in fed'[1] : \E a \in 1..Len(out') : out'[a] = data[1][k]
  <2>0. /\ \A a \in 1..Len(out) : \E k \in fed[1] : data[1][k] = out[a]
        /\ \A k \in fed[1] : \E a \in 1..Len(out) : out[a] = data[1][k]
    <3>1. state # "failed"
      BY <1>1 DEF RunnerInv, WindowsTaken, Runner!HasData
    <3>. QED
      BY <3>1, <1>17 DEF RunnerInv, PublishedSoFar
  <2>1. fed'[1] = fed[1] \cup snaps[1] /\ 1 \in 1..Inputs
    BY <1>1
  <2>2. ASSUME NEW a \in 1..Len(out') PROVE \E k \in fed'[1] : data[1][k] = out'[a]
    <3>1. CASE a \in 1..Len(out)
      BY <3>1, <2>0, <2>1, <1>8
    <3>2. ASSUME NEW b \in 1..Len(Appended), a = Len(out) + b
          PROVE  \E k \in fed'[1] : data[1][k] = out'[a]
      BY <3>2, <2>1, <1>7, <1>8
    <3>. QED
      BY <3>1, <3>2, <1>9
  <2>3. \A a \in 1..Len(out) : a \in 1..Len(out')
    BY <1>6, <1>7, <1>8
  <2>4. \A a \in 1..Len(Appended) : Len(out) + a \in 1..Len(out')
    BY <1>6, <1>7, <1>8
  <2>5. ASSUME NEW k \in fed[1] PROVE \E a \in 1..Len(out') : out'[a] = data[1][k]
    BY <2>0, <2>3, <1>8
  <2>6. ASSUME NEW k \in Runner!Fresh PROVE \E a \in 1..Len(out') : out'[a] = data[1][k]
    <3>1. PICK b \in 1..Len(Appended) : Appended[b] = data[1][k]
      BY <1>7
    <3>. QED
      BY <3>1, <2>4, <1>8
  <2>7. ASSUME NEW k \in snaps[1] PROVE \E a \in 1..Len(out') : out'[a] = data[1][k]
    <3>1. \/ \E a \in 1..Len(out) : out[a] = data[1][k]
          \/ \E j \in Runner!Fresh : data[1][j] = data[1][k]
      BY <1>1, <1>17, FedIsPublished
    <3>2. CASE \E a \in 1..Len(out) : out[a] = data[1][k]
      BY <3>2, <2>3, <1>8
    <3>3. CASE \E j \in Runner!Fresh : data[1][j] = data[1][k]
      BY <3>3, <2>6
    <3>. QED
      BY <3>1, <3>2, <3>3
  <2>. QED
    BY <2>1, <2>2, <2>5, <2>7
<1>18. PublishedSoFar'
  <2>1. (mode = "map")' <=> mode = "map"
    BY <1>1
  <2>. QED
    BY <2>1, <1>1, <1>15, <1>16, <1>17 DEF PublishedSoFar, Runner!Never
<1>. QED
  BY <1>11, <1>12, <1>14, <1>18 DEF RunnerInv

LEMMA RunnerStep ==
  ASSUME RunnerInv, [Runner!Next]_runner_vars
  PROVE  RunnerInv'
<1>1. ASSUME UNCHANGED runner_vars PROVE RunnerInv'
  <2>1. UNCHANGED <<mode, now, data, known, step, at, snaps, cursor, lastHop, lastOut, state, out,
                    fed, from, rebuilt, runs, first>>
    BY <1>1 DEF runner_vars
  <2>2. RunnerTypes'
    BY <2>1 DEF RunnerInv, RunnerTypes, Runner!Never
  <2>3. \A i : WindowOf(i)' <=> WindowOf(i)
    BY <2>1 DEF WindowOf, Runner!FeedFrom, Runner!Never
  <2>4. WindowsTaken'
    BY <2>1, <2>3 DEF RunnerInv, WindowsTaken, Runner!Never
  <2>. QED
    BY <2>1, <2>2, <2>4, LookingKeeps DEF RunnerInv
<1>. QED
  BY <1>1, PassKeeps, PushKeeps, MissingInputKeeps, BeginKeeps, SnapshotKeeps, NoDataKeeps,
     RunFailsKeeps, RunKeeps, RebuildKeeps
  DEF Runner!Next

LEMMA RunnerInvAlways == MCSpec => []RunnerInv
<1>1. MCInit => RunnerInv
  BY RunnerInit DEF MCInit
<1>2. RunnerInv /\ [MCNext]_all_vars => RunnerInv'
  BY RunnerStep DEF MCNext, all_vars
<1>. QED
  BY <1>1, <1>2, PTL DEF MCSpec

(* What the invariant says of what was fed and published.                   *)
LEMMA FedAndPublished ==
  RunnerInv =>
    (Strict => Runner!NothingSkipped) /\ Runner!OutputOnce /\ Runner!OutputComplete
<1>1. ASSUME RunnerInv, Strict PROVE Runner!NothingSkipped
  <2>. SUFFICES ASSUME mode = "map", NEW i \in 1..Inputs, NEW k \in fed[i], NEW j \in 1..k,
                       data[i][j] >= from
                PROVE  j \in fed[i]
    BY DEF Runner!NothingSkipped
  <2>1. PICK m \in fed[i] : data[i][m] = data[i][j]
    BY <1>1 DEF RunnerInv, FedSoFar, NoTimeMissing
  <2>2. /\ data[i] \in Seq(Nat) /\ Len(data[i]) \in Nat
        /\ k \in 1..Len(data[i]) /\ m \in 1..Len(data[i])
    BY <1>1 DEF RunnerInv, RunnerTypes
  <2>3. j \in 1..Len(data[i])
    BY <2>2
  <2>4. data[i][j] \in Nat /\ data[i][m] \in Nat
    BY <2>2, <2>3, ElementOfSeq
  <2>5. (j < m => data[i][j] < data[i][m]) /\ (m < j => data[i][m] < data[i][j])
    BY <1>1, <2>2, <2>3 DEF RunnerInv, InputsInOrder
  <2>6. j = m
    BY <2>1, <2>2, <2>3, <2>4, <2>5
  <2>. QED
    BY <2>6
<1>2. ASSUME RunnerInv PROVE Runner!OutputOnce
  <2>. SUFFICES ASSUME rebuilt = 0, NEW i \in 1..(Len(out) - 1) PROVE out[i] < out[i + 1]
    BY DEF Runner!OutputOnce
  <2>1. Len(out) \in Nat
    BY <1>2 DEF RunnerInv, RunnerTypes
  <2>2. i \in 1..Len(out) /\ i + 1 \in 1..Len(out) /\ i < i + 1
    BY <2>1
  <2>. QED
    BY <1>2, <2>2 DEF RunnerInv, PublishedSoFar
<1>3. ASSUME RunnerInv PROVE Runner!OutputComplete
  <2>. SUFFICES ASSUME mode = "map", state # "failed", rebuilt = 0
                PROVE  Runner!ToSet(out) = {data[1][k] : k \in fed[1]}
    BY DEF Runner!OutputComplete
  <2>1. /\ \A a \in 1..Len(out) : \E k \in fed[1] : data[1][k] = out[a]
        /\ \A k \in fed[1] : \E a \in 1..Len(out) : out[a] = data[1][k]
    BY <1>3 DEF RunnerInv, PublishedSoFar
  <2>2. DOMAIN out = 1..Len(out)
    BY <1>3 DEF RunnerInv, RunnerTypes
  <2>3. Runner!ToSet(out) = {out[a] : a \in 1..Len(out)}
    BY <2>2 DEF Runner!ToSet
  <2>4. \A x \in Runner!ToSet(out) : x \in {data[1][k] : k \in fed[1]}
    BY <2>1, <2>3
  <2>5. \A x \in {data[1][k] : k \in fed[1]} : x \in Runner!ToSet(out)
    BY <2>1, <2>3
  <2>. QED
    BY <2>4, <2>5
<1>. QED
  BY <1>1, <1>2, <1>3

(* Whatever the inputs do between and during its ticks, an element-wise     *)
(* script is fed every sample of a lagging input, no time is published      *)
(* twice or out of order, and what is published is what was fed: for any    *)
(* number of inputs and samples, windows and hops. That inputs do not       *)
(* repeat a time is needed only for the samples, not for the output.        *)
THEOREM ScriptsAreFedAll ==
  MCSpec => [](scene = "runner" =>
                 (Strict => Runner!NothingSkipped) /\ Runner!OutputOnce /\ Runner!OutputComplete)
<1>1. RunnerInv =>
        (scene = "runner" =>
          (Strict => Runner!NothingSkipped) /\ Runner!OutputOnce /\ Runner!OutputComplete)
  BY FedAndPublished
<1>. QED
  BY <1>1, RunnerInvAlways, PTL

(* The same with inputs that do not repeat a time, which is all the feed    *)
(* cursor can tell apart: nothing is skipped, repeated or missing.          *)
THEOREM ScriptsAreExact == ASSUME Strict PROVE MCSpec => []RunnerExact
<1>1. RunnerInv => RunnerExact
  BY FedAndPublished DEF RunnerExact
<1>. QED
  BY <1>1, RunnerInvAlways, PTL

-----------------------------------------------------------------------------
(* A script that reduces. *)

ReduceTypes == runs \in Nat /\ first \in Int

(* What its ticks have in common with the first, over all rebuilds: as much *)
(* time has passed as its runs are worth. A rebuild forgets the last run.   *)
Paced ==
  mode = "reduce" /\ runs > 0 =>
    /\ first <= at
    /\ (runs - 1 - rebuilt) * Hop + first <= at
    /\ state # "failed" =>
         IF lastHop = Runner!Never THEN (runs - rebuilt) * Hop + first <= at
                                   ELSE (runs - 1 - rebuilt) * Hop + first <= lastHop

PaceInv == ReduceTypes /\ Paced

LEMMA HopTimes ==
  \A n \in Int : n * Hop \in Int /\ (n + 1) * Hop = n * Hop + Hop /\ (n <= 0 => n * Hop <= 0)
<1>1. Hop \in Nat
  BY RunnerAssumption
<1>2. ASSUME NEW n \in Int PROVE n * Hop \in Int /\ (n + 1) * Hop = n * Hop + Hop
  BY <1>1
<1>3. ASSUME NEW n \in Int, n <= 0 PROVE n * Hop <= 0
  BY <1>1, <1>3
<1>. QED
  BY <1>2, <1>3

LEMMA PaceInit == Runner!Init => PaceInv
BY RunnerAssumption DEF Runner!Init, PaceInv, ReduceTypes, Paced, Runner!Never

(* A run comes a hop after the last, or after a rebuild. *)
LEMMA RunPaced ==
  ASSUME RunnerInv, PaceInv, Runner!HasData, Runner!Feed, mode = "reduce",
         UNCHANGED <<mode, at, rebuilt>>,
         state' = "failed" \/ lastHop' = at
  PROVE  PaceInv'
<1>. USE RunnerAssumption
<1>1. /\ runs' = runs + 1 /\ first' = IF runs = 0 THEN at ELSE first
      /\ runs \in Nat /\ first \in Int /\ rebuilt \in Nat /\ at \in Nat
      /\ Runner!Never \in Int /\ Runner!Never < 0
      /\ lastHop \in Nat \cup {Runner!Never}
  BY DEF Runner!Feed, PaceInv, ReduceTypes, RunnerInv, RunnerTypes, Runner!Never
<1>2. state # "failed" /\ (lastHop # Runner!Never => at - lastHop >= Hop)
  BY DEF RunnerInv, WindowsTaken, Runner!HasData
<1>3. first' <= at /\ (runs' - 1 - rebuilt) * Hop + first' <= at
  <2>1. CASE runs = 0
    <3>1. runs' - 1 - rebuilt \in Int /\ runs' - 1 - rebuilt <= 0 /\ first' = at
      BY <1>1, <2>1
    <3>. QED
      BY <1>1, <3>1, HopTimes
  <2>2. CASE runs # 0
    <3>1. /\ first' = first /\ first <= at
          /\ IF lastHop = Runner!Never THEN (runs - rebuilt) * Hop + first <= at
                                       ELSE (runs - 1 - rebuilt) * Hop + first <= lastHop
      BY <1>1, <1>2, <2>2 DEF PaceInv, Paced
    <3>2. runs' - 1 - rebuilt = runs - rebuilt /\ (runs - 1 - rebuilt) + 1 = runs - rebuilt
      BY <1>1
    <3>3. /\ (runs - 1 - rebuilt) * Hop \in Int /\ (runs - rebuilt) * Hop \in Int
          /\ (runs - rebuilt) * Hop = (runs - 1 - rebuilt) * Hop + Hop
      <4>1. runs - 1 - rebuilt \in Int /\ runs - rebuilt \in Int
        BY <1>1
      <4>. QED
        BY <3>2, <4>1, HopTimes
    <3>. QED
      BY <1>1, <1>2, <3>1, <3>2, <3>3
  <2>. QED
    BY <2>1, <2>2
<1>4. ReduceTypes'
  BY <1>1 DEF ReduceTypes
<1>5. (Runner!Never)' = Runner!Never
  BY DEF Runner!Never
<1>6. Paced'
  BY <1>1, <1>3, <1>5 DEF Paced
<1>. QED
  BY <1>4, <1>6 DEF PaceInv

(* After a rebuild one run more is free. *)
LEMMA RebuildPaced == ASSUME RunnerInv, PaceInv, Runner!Rebuild PROVE PaceInv'
<1>. USE RunnerAssumption
<1>1. /\ rebuilt' = rebuilt + 1 /\ lastHop' = Runner!Never /\ UNCHANGED <<mode, at, runs, first>>
      /\ runs \in Nat /\ first \in Int /\ rebuilt \in Nat /\ at \in Nat
      /\ (Runner!Never)' = Runner!Never
  BY DEF Runner!Rebuild, Runner!tick, PaceInv, ReduceTypes, RunnerInv, RunnerTypes, Runner!Never
<1>2. ASSUME mode = "reduce", runs > 0
      PROVE  /\ first <= at /\ (runs' - rebuilt') * Hop + first <= at
             /\ (runs' - 1 - rebuilt') * Hop + first <= at
  <2>1. first <= at /\ (runs - 1 - rebuilt) * Hop + first <= at
    BY <1>2 DEF PaceInv, Paced
  <2>2. runs' - rebuilt' = runs - 1 - rebuilt /\ (runs' - 1 - rebuilt') + 1 = runs - 1 - rebuilt
    BY <1>1
  <2>3. /\ (runs' - 1 - rebuilt') * Hop \in Int /\ (runs - 1 - rebuilt) * Hop \in Int
        /\ (runs - 1 - rebuilt) * Hop = (runs' - 1 - rebuilt') * Hop + Hop
    <3>1. runs' - 1 - rebuilt' \in Int /\ runs - 1 - rebuilt \in Int
      BY <1>1
    <3>. QED
      BY <2>2, <3>1, HopTimes
  <2>. QED
    BY <1>1, <2>1, <2>2, <2>3
<1>3. Paced'
  BY <1>1, <1>2 DEF Paced
<1>. QED
  BY <1>1, <1>3 DEF PaceInv, ReduceTypes

LEMMA PaceStep ==
  ASSUME RunnerInv, PaceInv, [Runner!Next]_runner_vars
  PROVE  PaceInv'
<1>. USE RunnerAssumption
<1>0. (Runner!Never)' = Runner!Never
  BY DEF Runner!Never
(* A tick that does not run the script, or an element-wise script.          *)
<1>1. ASSUME UNCHANGED <<mode, runs, first, rebuilt, lastHop>>, at' >= at,
             state' # "failed" => state # "failed", at' \in Nat
      PROVE  PaceInv'
  <2>1. /\ runs \in Nat /\ first \in Int /\ rebuilt \in Nat /\ at \in Nat
        /\ (runs - rebuilt) * Hop \in Int /\ (runs - 1 - rebuilt) * Hop \in Int
    <3>1. runs \in Nat /\ first \in Int /\ rebuilt \in Nat /\ at \in Nat
      BY DEF PaceInv, ReduceTypes, RunnerInv, RunnerTypes
    <3>2. runs - rebuilt \in Int /\ runs - 1 - rebuilt \in Int
      BY <3>1
    <3>. QED
      BY <3>1, <3>2, HopTimes
  <2>0. at \in Nat /\ at' \in Nat /\ at <= at' /\ first \in Int
    BY <1>1, <2>1
  <2>2. PICK a \in Int, b \in Int : a = (runs - rebuilt) * Hop /\ b = (runs - 1 - rebuilt) * Hop
    BY <2>1
  <2>3. Paced <=>
          (mode = "reduce" /\ runs > 0 =>
             /\ first <= at /\ b + first <= at
             /\ state # "failed" => IF lastHop = Runner!Never THEN a + first <= at
                                                              ELSE b + first <= lastHop)
    BY <2>2 DEF Paced
  <2>4. Paced' <=>
          (mode = "reduce" /\ runs > 0 =>
             /\ first <= at' /\ b + first <= at'
             /\ state' # "failed" => IF lastHop = Runner!Never THEN a + first <= at'
                                                               ELSE b + first <= lastHop)
    BY <1>0, <1>1, <2>2 DEF Paced
  <2>5. ASSUME mode = "reduce", runs > 0 PROVE first <= at' /\ b + first <= at'
    <3>1. first <= at /\ b + first <= at
      BY <2>3, <2>5 DEF PaceInv
    <3>2. first <= at'
      BY <2>0, <3>1
    <3>3. b + first <= at'
      BY <2>0, <3>1
    <3>. QED
      BY <3>2, <3>3
  <2>6. ASSUME mode = "reduce", runs > 0, state' # "failed"
        PROVE  IF lastHop = Runner!Never THEN a + first <= at' ELSE b + first <= lastHop
    <3>1. IF lastHop = Runner!Never THEN a + first <= at ELSE b + first <= lastHop
      BY <1>1, <2>3, <2>6 DEF PaceInv
    <3>2. a + first <= at => a + first <= at'
      BY <2>0
    <3>. QED
      BY <3>1, <3>2
  <2>7. Paced'
    BY <2>4, <2>5, <2>6
  <2>. QED
    BY <1>1, <2>1, <2>7 DEF PaceInv, ReduceTypes
<1>2. at \in Nat /\ now \in Nat /\ at <= now /\ at >= at
  BY DEF RunnerInv, RunnerTypes
<1>3. ASSUME mode # "reduce", UNCHANGED <<mode, runs, first>> PROVE PaceInv'
  BY <1>3 DEF PaceInv, ReduceTypes, Paced
<1>4. CASE Runner!Pass \/ \E i \in 1..Inputs : Runner!Push(i)
  BY <1>1, <1>2, <1>4
  DEF Runner!Pass, Runner!Push, Runner!tick, Runner!runner, Runner!history
<1>5. CASE Runner!MissingInput
  BY <1>1, <1>2, <1>5 DEF Runner!MissingInput, Runner!Idle, Runner!tick, Runner!history
<1>6. CASE Runner!Begin
  BY <1>1, <1>2, <1>6 DEF Runner!Begin, Runner!runner, Runner!history
<1>7. CASE Runner!Snapshot
  BY <1>1, <1>2, <1>7 DEF Runner!Snapshot, Runner!runner, Runner!history
<1>8. CASE Runner!NoData
  <2>1. state # "failed"
    BY <1>8 DEF Runner!NoData, RunnerInv, WindowsTaken
  <2>. QED
    BY <1>1, <1>2, <1>8, <2>1 DEF Runner!NoData, Runner!history
<1>9. CASE Runner!RunFails
  <2>1. CASE mode = "reduce"
    BY <1>9, <2>1, RunPaced DEF Runner!RunFails
  <2>2. CASE mode # "reduce"
    BY <1>3, <1>9, <2>2 DEF Runner!RunFails, Runner!Feed
  <2>. QED
    BY <2>1, <2>2
<1>10. CASE Runner!Run
  <2>1. CASE mode = "reduce"
    BY <1>10, <2>1, RunPaced DEF Runner!Run, Runner!TakeHop
  <2>2. CASE mode # "reduce"
    BY <1>3, <1>10, <2>2 DEF Runner!Run, Runner!Feed
  <2>. QED
    BY <2>1, <2>2
<1>11. CASE Runner!Rebuild
  BY <1>11, RebuildPaced
<1>12. CASE UNCHANGED runner_vars
  BY <1>1, <1>2, <1>12 DEF runner_vars
<1>. QED
  BY <1>4, <1>5, <1>6, <1>7, <1>8, <1>9, <1>10, <1>11, <1>12 DEF Runner!Next

(* The newest sample of the first input that was looked at last is what was *)
(* published last; a later window ends no earlier. *)
OrderInv ==
  mode = "reduce" =>
    /\ \A a, b \in 1..Len(out) : a < b => out[a] <= out[b]
    /\ out # << >> =>
         /\ \E k \in 1..Len(data[1]) : data[1][k] = out[Len(out)]
         /\ out[Len(out)] <= at
         /\ step = "snap" /\ Len(snaps) > 0 /\ snaps[1] # {} =>
              \E k \in snaps[1] : out[Len(out)] <= data[1][k]

LEMMA OrderInit == Runner!Init => OrderInv
<1>. SUFFICES ASSUME Runner!Init PROVE OrderInv
  OBVIOUS
<1>1. out = << >> /\ Len(out) = 0
  BY DEF Runner!Init
<1>. QED
  BY <1>1 DEF OrderInv

(* The new window has the last published sample, or only later ones. *)
LEMMA SnapshotOrdered == ASSUME RunnerInv, OrderInv, Runner!Snapshot PROVE OrderInv'
<1>. DEFINE n == Len(snaps) + 1
            w == {k \in DOMAIN data[n] : Runner!FeedFrom <= data[n][k] /\ data[n][k] <= at}
<1>1. /\ snaps' = Append(snaps, w) /\ snaps \in Seq(SUBSET Nat) /\ Len(snaps) \in Nat
      /\ step = "snap" /\ UNCHANGED <<data, step, at, mode, out>>
  BY DEF Runner!Snapshot, Runner!inputs, Runner!runner, RunnerInv, RunnerTypes
<1>2. w \subseteq Nat /\ data[1] \in Seq(Nat) /\ Len(data[1]) \in Nat /\ n \in 1..Inputs
  <2>1. n \in 1..Inputs
    BY <1>1, RunnerAssumption DEF Runner!Snapshot
  <2>. QED
    BY <2>1, RunnerAssumption DEF RunnerInv, RunnerTypes
<1>3. snaps'[1] = IF Len(snaps) = 0 THEN w ELSE snaps[1]
  BY <1>1, <1>2
<1>. HIDE DEF w
<1>4. ASSUME mode = "reduce", out # << >>, snaps'[1] # {}
      PROVE  \E k \in snaps'[1] : out[Len(out)] <= data[1][k]
  <2>1. CASE Len(snaps) # 0
    <3>1. snaps[1] # {} /\ Len(snaps) > 0
      BY <1>1, <1>3, <1>4, <2>1
    <3>. QED
      BY <1>1, <1>3, <1>4, <2>1, <3>1 DEF OrderInv
  <2>2. CASE Len(snaps) = 0
    <3>1. w # {} /\ snaps'[1] = w /\ n = 1
      BY <1>3, <1>4, <2>2
    <3>2. PICK k \in 1..Len(data[1]) : data[1][k] = out[Len(out)] /\ out[Len(out)] <= at
      BY <1>4 DEF OrderInv
    <3>3. PICK m \in w : m \in 1..Len(data[1]) /\ Runner!FeedFrom <= data[1][m]
      BY <1>2, <3>1 DEF w
    <3>4. /\ data[1][k] \in Nat /\ data[1][m] \in Nat /\ at \in Nat
          /\ Runner!FeedFrom = at - Window /\ Window \in Nat
      BY <1>2, <1>4, <3>2, <3>3, ElementOfSeq, RunnerAssumption
      DEF RunnerInv, RunnerTypes, Runner!FeedFrom
    <3>5. CASE at - Window <= data[1][k]
      <4>1. k \in w
        BY <1>2, <3>1, <3>2, <3>4, <3>5 DEF w
      <4>. QED
        BY <3>1, <3>2, <3>4, <4>1
    <3>6. CASE ~(at - Window <= data[1][k])
      <4>1. data[1][k] <= data[1][m]
        BY <3>3, <3>4, <3>6
      <4>. QED
        BY <3>1, <3>2, <3>3, <4>1
    <3>. QED
      BY <3>5, <3>6
  <2>. QED
    BY <2>1, <2>2
<1>. QED
  BY <1>1, <1>4 DEF OrderInv

(* All a run appends is the newest sample of its window, once or not at all.*)
LEMMA AppendsNewest ==
  ASSUME RunnerInv, Runner!HasData, mode = "reduce"
  PROVE  /\ Appended \in Seq(Nat)
         /\ \A a \in 1..Len(Appended) : Appended[a] = Runner!Newest(1)
<1>1. Appended \in Seq(Nat)
  BY AppendedIs
<1>2. \A k \in Runner!Fresh : k = Runner!Max(snaps[1])
  BY DEF Runner!Fresh, Runner!Batch
<1>3. \A a \in 1..Len(Appended) : \E k \in Runner!Fresh : data[1][k] = Appended[a]
  BY AppendedIs
<1>. HIDE DEF Appended
<1>. QED
  BY <1>1, <1>2, <1>3 DEF Runner!Newest

LEMMA RunOrdered == ASSUME RunnerInv, OrderInv, Runner!Run PROVE OrderInv'
<1>. SUFFICES ASSUME mode = "reduce" PROVE OrderInv'
  BY DEF Runner!Run, OrderInv
<1>1. /\ Runner!HasData /\ step' = "idle" /\ out' = out \o Appended
      /\ UNCHANGED <<data, mode, at, snaps>>
  BY DEF Runner!Run, Runner!inputs, Appended
<1>2. Appended \in Seq(Nat) /\ \A a \in 1..Len(Appended) : Appended[a] = Runner!Newest(1)
  BY <1>1, AppendsNewest
<1>. HIDE DEF Appended
<1>3. /\ data[1] \in Seq(Nat) /\ Len(data[1]) \in Nat /\ out \in Seq(Nat)
      /\ snaps[1] # {} /\ snaps[1] \subseteq 1..Len(data[1]) /\ Len(snaps) > 0 /\ WindowOf(1)
      /\ step = "snap" /\ at \in Nat
  BY <1>1, RunnerAssumption DEF RunnerInv, RunnerTypes, Runner!HasData, WindowsTaken
<1>4. /\ Runner!Max(snaps[1]) \in snaps[1]
      /\ \A k \in snaps[1] : k <= Runner!Max(snaps[1])
  <2>1. snaps[1] \in SUBSET (0..Len(data[1]))
    BY <1>3
  <2>. QED
    BY <1>3, <2>1, RunnerMax
<1>. DEFINE top == Runner!Max(snaps[1])
<1>5. top \in 1..Len(data[1]) /\ Runner!Newest(1) = data[1][top] /\ data[1][top] \in Nat
  BY <1>3, <1>4, ElementOfSeq DEF Runner!Newest
<1>6. data[1][top] <= at
  BY <1>3, <1>4 DEF WindowOf
<1>7. ASSUME out # << >> PROVE out[Len(out)] <= data[1][top]
  <2>1. PICK k \in snaps[1] : out[Len(out)] <= data[1][k]
    BY <1>3, <1>7 DEF OrderInv
  <2>2. k \in 1..Len(data[1]) /\ k <= top /\ data[1][k] \in Nat
    BY <1>3, <1>4, ElementOfSeq
  <2>3. data[1][k] <= data[1][top]
    <3>1. k < top => data[1][k] <= data[1][top]
      BY <1>5, <2>2, RunnerAssumption DEF RunnerInv, InputsInOrder
    <3>. QED
      BY <1>5, <2>2, <3>1
  <2>4. Len(out) \in 1..Len(out)
    BY <1>3, <1>7
  <2>5. out[Len(out)] \in Nat
    BY <1>3, <2>4, ElementOfSeq
  <2>. QED
    BY <1>5, <2>1, <2>2, <2>3, <2>5
<1>. HIDE DEF top
<1>8. /\ Len(out) \in Nat /\ Len(Appended) \in Nat /\ Len(out') = Len(out) + Len(Appended)
      /\ \A a \in 1..Len(out) : out'[a] = out[a]
      /\ \A a \in 1..Len(Appended) : out'[Len(out) + a] = data[1][top]
  <2>1. Len(out) \in Nat /\ Len(Appended) \in Nat /\ Len(out \o Appended) = Len(out) + Len(Appended)
    BY <1>2, <1>3
  <2>2. \A a \in 1..Len(out) : (out \o Appended)[a] = out[a]
    BY <1>2, <1>3
  <2>3. \A a \in 1..Len(Appended) : (out \o Appended)[Len(out) + a] = Appended[a]
    BY <1>2, <1>3
  <2>. QED
    BY <1>1, <1>2, <1>5, <2>1, <2>2, <2>3
<1>9. \A a \in 1..Len(out') : a \in 1..Len(out) \/ \E e \in 1..Len(Appended) : a = Len(out) + e
  <2>. SUFFICES ASSUME NEW a \in 1..Len(out'), a \notin 1..Len(out)
                PROVE  \E e \in 1..Len(Appended) : a = Len(out) + e
    OBVIOUS
  <2>1. a - Len(out) \in 1..Len(Appended) /\ a = Len(out) + (a - Len(out))
    BY <1>8
  <2>. QED
    BY <2>1
<1>10. ASSUME NEW a \in 1..Len(out) PROVE out[a] <= data[1][top] /\ out[a] \in Nat
  <2>1. out # << >> /\ Len(out) \in 1..Len(out)
    BY <1>3, <1>8
  <2>2. out[a] \in Nat /\ out[Len(out)] \in Nat
    BY <1>3, <2>1, ElementOfSeq
  <2>3. a < Len(out) => out[a] <= out[Len(out)]
    BY <2>1 DEF OrderInv
  <2>. QED
    BY <1>5, <1>7, <1>8, <2>1, <2>2, <2>3
<1>11. \A a \in 1..Len(out') : a \notin 1..Len(out) => out'[a] = data[1][top]
  BY <1>8, <1>9
<1>12. ASSUME NEW a \in 1..Len(out'), NEW b \in 1..Len(out'), a < b PROVE out'[a] <= out'[b]
  <2>1. CASE b \in 1..Len(out)
    <3>1. a \in 1..Len(out)
      BY <1>8, <1>12, <2>1
    <3>2. out[a] <= out[b]
      BY <1>12, <2>1, <3>1 DEF OrderInv
    <3>. QED
      BY <1>8, <2>1, <3>1, <3>2
  <2>2. CASE b \notin 1..Len(out)
    <3>1. out'[b] = data[1][top]
      BY <1>11, <2>2
    <3>2. CASE a \in 1..Len(out)
      BY <1>8, <1>10, <3>1, <3>2
    <3>3. CASE a \notin 1..Len(out)
      BY <1>5, <1>11, <3>1, <3>3
    <3>. QED
      BY <3>2, <3>3
  <2>. QED
    BY <2>1, <2>2
<1>13. ASSUME out' # << >>
       PROVE  (\E k \in 1..Len(data[1]) : data[1][k] = out'[Len(out')]) /\ out'[Len(out')] <= at
  <2>1. CASE Len(Appended) = 0
    <3>1. Appended = << >>
      BY <1>2, <2>1
    <3>2. out' = out
      BY <1>1, <1>3, <3>1
    <3>. QED
      BY <1>13, <3>2 DEF OrderInv
  <2>2. CASE Len(Appended) # 0
    <3>1. Len(Appended) \in 1..Len(Appended)
      BY <1>8, <2>2
    <3>2. out'[Len(out')] = data[1][top]
      BY <1>8, <3>1
    <3>. QED
      BY <1>5, <1>6, <3>2
  <2>. QED
    BY <2>1, <2>2
<1>. QED
  BY <1>1, <1>12, <1>13 DEF OrderInv

LEMMA OrderStep ==
  ASSUME RunnerInv, OrderInv, [Runner!Next]_runner_vars
  PROVE  OrderInv'
<1>. USE RunnerAssumption
(* A tick that takes no window and publishes nothing. *)
<1>1. ASSUME UNCHANGED <<mode, data, out>>, at' >= at, at' \in Nat,
             step' = "snap" => UNCHANGED <<step, snaps>> \/ Len(snaps') = 0
      PROVE  OrderInv'
  <2>1. at \in Nat /\ out \in Seq(Nat)
    BY DEF RunnerInv, RunnerTypes
  <2>2. ASSUME out # << >> PROVE out[Len(out)] \in Nat
    <3>1. Len(out) \in 1..Len(out)
      BY <2>1, <2>2
    <3>. QED
      BY <2>1, <3>1, ElementOfSeq
  <2>3. ASSUME mode = "reduce", out # << >> PROVE out[Len(out)] <= at'
    <3>1. out[Len(out)] <= at
      BY <2>3 DEF OrderInv
    <3>. QED
      BY <1>1, <2>1, <2>2, <2>3, <3>1
  <2>. QED
    BY <1>1, <2>3 DEF OrderInv
<1>2. at \in Nat /\ now \in Nat /\ at <= now /\ at >= at
  BY DEF RunnerInv, RunnerTypes
<1>3. CASE Runner!Pass
  BY <1>1, <1>2, <1>3 DEF Runner!Pass, Runner!tick, Runner!runner
<1>4. ASSUME NEW i \in 1..Inputs, Runner!Push(i) PROVE OrderInv'
  <2>1. PICK ts \in 0..now : data' = [data EXCEPT ![i] = Append(@, ts)]
    BY <1>4 DEF Runner!Push
  <2>2. /\ UNCHANGED <<mode, step, at, snaps, out>>
        /\ data[1] \in Seq(Nat) /\ data[i] \in Seq(Nat) /\ data \in [1..Inputs -> Seq(Nat)]
    BY <1>4 DEF Runner!Push, Runner!tick, Runner!runner, RunnerInv, RunnerTypes
  <2>3. data'[1] = IF i = 1 THEN Append(data[1], ts) ELSE data[1]
    BY <2>1, <2>2
  <2>4. Len(Append(data[1], ts)) = Len(data[1]) + 1 /\ \A k \in 1..Len(data[1]) : Append(data[1], ts)[k] = data[1][k]
    BY <2>2
  <2>5. Len(data'[1]) >= Len(data[1]) /\ Len(data'[1]) \in Nat /\ Len(data[1]) \in Nat
    BY <2>2, <2>3, <2>4
  <2>6. \A k \in 1..Len(data[1]) : k \in 1..Len(data'[1]) /\ data'[1][k] = data[1][k]
    BY <2>3, <2>4, <2>5
  <2>7. ASSUME Len(snaps) > 0 PROVE snaps[1] \subseteq 1..Len(data[1])
    <3>1. snaps \in Seq(SUBSET Nat) /\ \A k \in 1..Len(snaps) : snaps[k] \subseteq 1..Len(data[k])
      BY DEF RunnerInv, RunnerTypes
    <3>2. Len(snaps) \in Nat /\ 1 \in 1..Len(snaps)
      BY <2>7, <3>1
    <3>. QED
      BY <3>1, <3>2
  <2>8. ASSUME mode = "reduce", out # << >>
        PROVE  \E k \in 1..Len(data'[1]) : data'[1][k] = out[Len(out)]
    <3>1. PICK k \in 1..Len(data[1]) : data[1][k] = out[Len(out)]
      BY <2>8 DEF OrderInv
    <3>. QED
      BY <2>6, <3>1
  <2>9. ASSUME mode = "reduce", out # << >>, step = "snap", Len(snaps) > 0, snaps[1] # {}
        PROVE  \E k \in snaps[1] : out[Len(out)] <= data'[1][k]
    <3>1. PICK k \in snaps[1] : out[Len(out)] <= data[1][k]
      BY <2>9 DEF OrderInv
    <3>2. data'[1][k] = data[1][k]
      BY <2>6, <2>7, <2>9, <3>1
    <3>. QED
      BY <3>1, <3>2
  <2>. QED
    BY <2>2, <2>8, <2>9 DEF OrderInv
<1>5. CASE Runner!MissingInput
  BY <1>1, <1>2, <1>5 DEF Runner!MissingInput, Runner!Idle, Runner!inputs, Runner!tick
<1>6. CASE Runner!Begin
  BY <1>1, <1>2, <1>6 DEF Runner!Begin, Runner!inputs, Runner!runner
<1>7. CASE Runner!Snapshot
  BY <1>7, SnapshotOrdered
<1>8. CASE Runner!NoData
  BY <1>1, <1>2, <1>8 DEF Runner!NoData, Runner!inputs
<1>9. CASE Runner!RunFails
  BY <1>1, <1>2, <1>9 DEF Runner!RunFails, Runner!inputs
<1>10. CASE Runner!Run
  BY <1>10, RunOrdered
<1>11. CASE Runner!Rebuild
  BY <1>1, <1>2, <1>11 DEF Runner!Rebuild, Runner!inputs, Runner!tick
<1>12. CASE UNCHANGED runner_vars
  BY <1>1, <1>2, <1>12 DEF runner_vars
<1>. QED
  BY <1>3, <1>4, <1>5, <1>6, <1>7, <1>8, <1>9, <1>10, <1>11, <1>12 DEF Runner!Next

(* Whatever its ticks find, a script that reduces runs at most once per hop *)
(* and once more per rebuild, and its output stays in order, as the ring it *)
(* is written to relies on; for any hop, window, inputs and rebuilds.       *)
THEOREM ReducersArePaced == MCSpec => []ReducePaced
<1>1. MCInit => RunnerInv /\ PaceInv /\ OrderInv
  BY RunnerInit, PaceInit, OrderInit DEF MCInit
<1>2. RunnerInv /\ PaceInv /\ OrderInv /\ [MCNext]_all_vars => PaceInv' /\ OrderInv'
  BY PaceStep, OrderStep DEF MCNext, all_vars
<1>3. ASSUME RunnerInv, OrderInv PROVE Runner!ReducedOrdered
  <2>1. \A i \in 1..(Len(out) - 1) : i \in 1..Len(out) /\ i + 1 \in 1..Len(out) /\ i < i + 1
    BY <1>3 DEF RunnerInv, RunnerTypes
  <2>. QED
    BY <1>3, <2>1 DEF OrderInv, Runner!ReducedOrdered, Runner!OutputOrdered
<1>4. ASSUME RunnerInv, PaceInv PROVE Runner!ReducedPaced
  <2>. SUFFICES ASSUME mode = "reduce", runs > 0 PROVE (runs - 1 - rebuilt) * Hop <= now - first
    BY DEF Runner!ReducedPaced
  <2>1. /\ (runs - 1 - rebuilt) * Hop + first <= at /\ first \in Int
        /\ runs - 1 - rebuilt \in Int /\ at \in Nat /\ now \in Nat /\ at <= now
    BY <1>4 DEF PaceInv, ReduceTypes, Paced, RunnerInv, RunnerTypes
  <2>2. (runs - 1 - rebuilt) * Hop \in Int
    BY <2>1, HopTimes
  <2>. QED
    BY <2>1, <2>2
<1>5. RunnerInv /\ PaceInv /\ OrderInv => ReducePaced
  BY <1>3, <1>4 DEF ReducePaced
<1>. QED
  BY <1>1, <1>2, <1>5, RunnerInvAlways, PTL DEF MCSpec

-----------------------------------------------------------------------------
(* A script's defaults.                                                     *)

(* The runner of one instance, for what its file says. *)
LEMMA SameNames ==
  ASSUME NEW id, NEW m PROVE Python!default_outputs(id, m) = Python!DefaultOutputs(id, m)
<1>1. ASSUME NEW x, NEW y PROVE <<x, y>> \o << >> = <<x, y>>
  OBVIOUS
<1>2. ASSUME NEW x, NEW y, NEW z PROVE <<x, y>> \o <<z>> = <<x, y, z>>
  <2>. DEFINE S == {x, y, z}
              l == <<x, y>>
              r == <<z>>
              t == <<x, y, z>>
  <2>1. l \in Seq(S) /\ r \in Seq(S) /\ t \in Seq(S)
    OBVIOUS
  <2>2. Len(l) = 2 /\ Len(r) = 1 /\ Len(t) = 3
    OBVIOUS
  <2>3. l[1] = x /\ l[2] = y /\ r[1] = z /\ t[1] = x /\ t[2] = y /\ t[3] = z
    OBVIOUS
  <2>. HIDE DEF S, l, r, t
  <2>4. /\ l \o r \in Seq(S)
        /\ Len(l \o r) = 3
        /\ \A i \in 1..3 : (l \o r)[i] = IF i <= 2 THEN l[i] ELSE r[i - 2]
    BY <2>1, <2>2, ConcatProperties
  <2>5. \A i \in 1..3 : (l \o r)[i] = t[i]
    <3>1. (l \o r)[1] = l[1] /\ (l \o r)[2] = l[2] /\ (l \o r)[3] = r[1]
      BY <2>4
    <3>2. (l \o r)[1] = t[1] /\ (l \o r)[2] = t[2] /\ (l \o r)[3] = t[3]
      BY <3>1, <2>3, Zenon
    <3>3. \A i \in 1..3 : i = 1 \/ i = 2 \/ i = 3
      OBVIOUS
    <3>. QED
      BY <3>2, <3>3, Zenon
  <2>6. l \o r = t
    BY <2>1, <2>2, <2>4, <2>5, SeqEqual
  <2>. QED
    BY <2>6 DEF l, r, t
<1>3. ASSUME NEW x, NEW y, NEW z, NEW n
      PROVE  <<x, y>> \o (IF n = 1 THEN << >> ELSE <<z>>)
               = IF n = 1 THEN <<x, y>> ELSE <<x, y, z>>
  BY <1>1, <1>2, Zenon
<1>. QED
  BY <1>3 DEF Python!default_outputs, Python!DefaultOutputs

(* A file says one thing of itself, whether it is peeked at or loaded. *)
LEMMA LoadIsPeek ==
  ASSUME NEW script, NEW m \in Python!peek_meta(script), NEW l \in Python!load(script)
  PROVE  l = m
<1>1. l \in Python!extract_meta(Files[script]) /\ m \in Python!extract_meta(Files[script])
  BY Zenon DEF Python!peek_meta, Python!load
<1>. QED
  BY <1>1 DEF Python!extract_meta

(* A row that is filled with what the engine would take anyway stands for   *)
(* the same runner.                                                         *)
LEMMA FilledIsSame ==
  ASSUME NEW x \in Overrides, NEW m \in Python!peek_meta(x.script)
  PROVE  LET row == [x EXCEPT !.inputs = Python!InputsOf(x, m),
                              !.outputs = IF @ = None THEN Python!default_outputs(x.id, m) ELSE @]
         IN Python!build_runner(row) = Python!build_runner(x)
<1>. DEFINE row == [x EXCEPT !.inputs = Python!InputsOf(x, m),
                             !.outputs = IF @ = None THEN Python!default_outputs(x.id, m) ELSE @]
<1>1. x = [id |-> x.id, script |-> x.script, inputs |-> x.inputs, outputs |-> x.outputs]
  BY OverridesAssumption
<1>2. /\ row.id = x.id /\ row.script = x.script /\ row.inputs = Python!InputsOf(x, m)
      /\ row.outputs = IF x.outputs = None THEN Python!default_outputs(x.id, m) ELSE x.outputs
  BY <1>1
<1>. HIDE DEF row
<1>3. Python!InputsOf(row, m) = Python!InputsOf(x, m)
  BY <1>2 DEF Python!InputsOf
<1>4. (IF row.outputs = None THEN Python!DefaultOutputs(row.id, m) ELSE row.outputs)
        = (IF x.outputs = None THEN Python!DefaultOutputs(x.id, m) ELSE x.outputs)
  BY <1>2, SameNames
<1>5. (row.inputs # None /\ Len(row.inputs) # Len(m.inputs))
        <=> (x.inputs # None /\ Len(x.inputs) # Len(m.inputs))
  BY <1>2 DEF Python!InputsOf
<1>6. \A l \in Python!load(x.script) : l = m
  BY LoadIsPeek
<1>7. Python!load(row.script) = Python!load(x.script)
  BY <1>2
<1>. DEFINE From(y, l) ==
       LET inputs == Python!InputsOf(y, l)
           raw == IF y.outputs = None THEN Python!DefaultOutputs(y.id, l) ELSE y.outputs
           names == [i \in DOMAIN raw |-> Python!expand_output_name(raw[i].name, inputs)]
       IN IF \/ y.inputs # None /\ Len(y.inputs) # Len(l.inputs)
             \/ \E i \in DOMAIN raw : Python!parse_sample_type(raw[i].type) = {} \/ names[i] = {}
          THEN {}
          ELSE {r \in {[inputs |-> inputs, mode |-> l.mode, hop_ms |-> l.hop_ms,
                        n |-> Len(l.outputs),
                        outputs |-> [i \in DOMAIN raw |->
                          [name |-> CHOOSE s \in names[i] : TRUE, type |-> raw[i].type]]]} :
                Python!validate_meta(r)}
<1>8. From(row, m) = From(x, m)
  BY <1>3, <1>4, <1>5
<1>9. /\ Python!build_runner(row) = UNION {From(row, l) : l \in Python!load(row.script)}
      /\ Python!build_runner(x) = UNION {From(x, l) : l \in Python!load(x.script)}
  BY DEF Python!build_runner
<1>. HIDE DEF From
<1>10. {From(row, l) : l \in Python!load(row.script)} = {From(x, l) : l \in Python!load(x.script)}
  BY <1>6, <1>7, <1>8
<1>11. Python!build_runner(row) = Python!build_runner(x)
  BY <1>9, <1>10
<1>. QED
  BY <1>11 DEF row

Configured == inst \in Overrides

(* The editor's defaults are those the engine takes: a row that is filled   *)
(* with them and applied unchanged runs the same, whatever the script's     *)
(* file, its inputs and its outputs are.                                    *)
THEOREM ApplyingDefaultsChangesNothing == 
  MCSpec => [](scene = "python" => Python!ApplyChangesNothing)
<1>1. MCInit => Configured
  BY DEF Configured, MCInit, Python!Init
<1>2. Configured /\ [MCNext]_all_vars => Configured'
  BY DEF Configured, MCNext, all_vars, python_vars, Python!Next, Python!Load, Python!Tick
<1>3. Configured => (scene = "python" => Python!ApplyChangesNothing)
  BY FilledIsSame DEF Configured, Python!ApplyChangesNothing
<1>. QED
  BY <1>1, <1>2, <1>3, PTL DEF MCSpec
=============================================================================
