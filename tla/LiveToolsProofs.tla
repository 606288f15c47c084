--------------------------- MODULE LiveToolsProofs ---------------------------
(***************************************************************************)
(* Theorems about LiveTools for any registries, mounts and changes.  The   *)
(* inductive invariant says what a scan still owes (every publisher that   *)
(* was there all along is found or still ahead), that a generation that    *)
(* has not moved vouches for the entry it was read with, and that the      *)
(* second look-up sees only registries mounted since the gates passed.     *)
(***************************************************************************)
EXTENDS LiveTools, SequenceTheorems, TLAPS

\* The parts of TypeOK, by the group of variables they type.
RegistryTyped ==
  /\ tool \in [Registries -> Definitions]
  /\ gen \in [Registries -> Nat] /\ dispatcher \in [Registries -> Nat]
  /\ changes \in 0..MaxChanges
MountsTyped ==
  /\ mounts \in Seq(Externals)
  /\ \A i, j \in DOMAIN mounts : mounts[i] = mounts[j] => i = j
ScanTyped ==
  /\ at \in [Threads -> {"idle", "mounted", "scoping", "gating"} \cup Scanning]
  /\ todo \in [Threads -> Seq(Registries)]
  /\ found \in [Threads -> Registries \cup {None}]
  /\ rivals \in [Threads -> SUBSET Registries]
CallTyped ==
  /\ surface \in BOOLEAN /\ binding \in Bindings
  /\ outcome \in {"none", "error", "raised", "ran"}
  /\ reachable \subseteq Registries
HostTyped ==
  disabled \in BOOLEAN /\ mounting \in Externals \cup {None} /\ disturbed \in BOOLEAN

ScanSees ==
  \A t \in Threads : \A r \in rivals[t] :
    Publishes(r) /\ (r = found[t] \/ r \in Range(todo[t]))

BindingFresh ==
  at["agent"] \in {"gating", "refinding"} =>
    LET r == binding.registry
    IN  /\ r \in Registries /\ binding.gen <= gen[r]
        /\ binding.gen = gen[r] => /\ tool[r] = binding.def
                                   /\ dispatcher[r] = binding.dispatcher

StillReachable ==
  at["agent"] = "refinding" =>
    Range(todo["agent"]) \subseteq reachable
    /\ (found["agent"] # None => found["agent"] \in reachable)

IInv == TypeOK /\ ScanSees /\ BindingFresh /\ StillReachable

LEMMA TypeParts ==
  TypeOK <=> RegistryTyped /\ MountsTyped /\ ScanTyped /\ CallTyped /\ HostTyped
BY DEF TypeOK, RegistryTyped, MountsTyped, ScanTyped, CallTyped, HostTyped

LEMMA TypePartsNext ==
  TypeOK' <=> RegistryTyped' /\ MountsTyped' /\ ScanTyped' /\ CallTyped' /\ HostTyped'
BY DEF TypeOK, RegistryTyped, MountsTyped, ScanTyped, CallTyped, HostTyped

\* Taking one element out of a sequence of distinct ones.
LEMMA DetachKeeps ==
  ASSUME MountsTyped, NEW r, Detach(r)
  PROVE  MountsTyped' /\ Range(mounts') \subseteq Range(mounts)
<1>1. PICK i \in DOMAIN mounts : mounts' = RemoveAt(mounts, i)
  BY DEF Detach
<1>2. i \in 1..Len(mounts) /\ Len(mounts) \in Nat /\ mounts \in Seq(Externals)
  BY DEF MountsTyped
<1>3. /\ mounts' \in Seq(Externals)
      /\ Len(mounts') = Len(mounts) - 1
      /\ \A k \in 1..Len(mounts') : mounts'[k] = mounts[IF k < i THEN k ELSE k + 1]
  <2> DEFINE head == SubSeq(mounts, 1, i - 1)
             rest == SubSeq(mounts, i + 1, Len(mounts))
  <2>1. /\ head \in Seq(Externals) /\ Len(head) = i - 1
        /\ \A k \in 1..(i - 1) : head[k] = mounts[k]
    BY <1>2
  <2>2. /\ rest \in Seq(Externals) /\ Len(rest) = Len(mounts) - i
        /\ \A k \in 1..(Len(mounts) - i) : rest[k] = mounts[i + k]
    BY <1>2
  <2>3. mounts' = head \o rest
    BY <1>1 DEF RemoveAt
  <2> HIDE DEF head, rest
  <2>4. /\ head \o rest \in Seq(Externals) /\ Len(head \o rest) = Len(head) + Len(rest)
        /\ \A k \in 1..Len(head) : (head \o rest)[k] = head[k]
        /\ \A k \in 1..(Len(head) + Len(rest)) :
             k > Len(head) => (head \o rest)[k] = rest[k - Len(head)]
    <3>1. /\ head \o rest \in Seq(Externals)
          /\ Len(head \o rest) = Len(head) + Len(rest)
          /\ \A k \in 1..(Len(head) + Len(rest)) :
               (head \o rest)[k] = IF k <= Len(head) THEN head[k]
                                                    ELSE rest[k - Len(head)]
      BY <2>1, <2>2, ConcatProperties, Zenon
    <3>2. Len(head) \in Nat /\ Len(rest) \in Nat
      BY <2>1, <2>2
    <3> QED
      BY <3>1, <3>2
  <2>5. Len(mounts') = Len(mounts) - 1
    BY <2>1, <2>2, <2>3, <2>4, <1>2
  <2>6. ASSUME NEW k \in 1..Len(mounts')
        PROVE  mounts'[k] = mounts[IF k < i THEN k ELSE k + 1]
    <3>1. CASE k < i
      BY <3>1, <2>1, <2>3, <2>4, <2>5, <2>6, <1>2
    <3>2. CASE ~(k < i)
      <4>1. k > Len(head) /\ k \in 1..(Len(head) + Len(rest))
            /\ k - Len(head) \in 1..(Len(mounts) - i)
            /\ i + (k - Len(head)) = k + 1
        BY <3>2, <2>1, <2>2, <2>5, <2>6, <1>2
      <4> QED
        BY <3>2, <4>1, <2>2, <2>3, <2>4
    <3> QED
      BY <3>1, <3>2
  <2> QED
    BY <2>3, <2>4, <2>5, <2>6
<1>4. DOMAIN mounts' = 1..(Len(mounts) - 1) /\ DOMAIN mounts = 1..Len(mounts)
  BY <1>2, <1>3
<1>5. ASSUME NEW k \in DOMAIN mounts', NEW l \in DOMAIN mounts', mounts'[k] = mounts'[l]
      PROVE  k = l
  <2>1. (IF k < i THEN k ELSE k + 1) = (IF l < i THEN l ELSE l + 1)
    BY <1>2, <1>3, <1>4, <1>5 DEF MountsTyped
  <2> QED
    BY <2>1, <1>2, <1>4
<1>6. ASSUME NEW k \in DOMAIN mounts'
      PROVE  mounts'[k] \in Range(mounts)
  BY <1>2, <1>3, <1>4 DEF Range
<1> QED
  BY <1>3, <1>5, <1>6 DEF MountsTyped, Range

LEMMA EntriesAreMounted ==
  ASSUME MountsTyped
  PROVE  Entries \in Seq(Registries) /\ Range(Entries) = Mounted /\ Mounted \subseteq Registries
<1>1. mounts \in Seq(Registries) /\ Local \in Registries
  BY DEF MountsTyped, Registries
<1>2. Entries \in Seq(Registries) /\ Len(Entries) = Len(mounts) + 1
      /\ Entries[1] = Local /\ \A i \in 1..Len(mounts) : Entries[i + 1] = mounts[i]
  BY <1>1 DEF Entries
<1>3. DOMAIN Entries = 1..(Len(mounts) + 1) /\ DOMAIN mounts = 1..Len(mounts)
      /\ Len(mounts) \in Nat
  BY <1>1, <1>2
<1>4. ASSUME NEW x \in Range(Entries) PROVE x \in Mounted
  <2>1. PICK i \in 1..(Len(mounts) + 1) : x = Entries[i]
    BY <1>3, <1>4 DEF Range
  <2>2. CASE i = 1
    BY <2>1, <2>2, <1>2 DEF Mounted
  <2>3. CASE i # 1
    <3>1. i - 1 \in 1..Len(mounts) /\ (i - 1) + 1 = i
      BY <2>1, <2>3, <1>3
    <3>2. x = mounts[i - 1]
      BY <3>1, <2>1, <1>2
    <3> QED
      BY <3>1, <3>2, <1>3 DEF Mounted, Range
  <2> QED
    BY <2>2, <2>3
<1>5. ASSUME NEW x \in Mounted PROVE x \in Range(Entries)
  <2>1. CASE x = Local
    BY <2>1, <1>2, <1>3 DEF Range
  <2>2. CASE x \in Range(mounts)
    <3>1. PICK i \in 1..Len(mounts) : x = mounts[i]
      BY <2>2, <1>3 DEF Range
    <3>2. i + 1 \in DOMAIN Entries /\ Entries[i + 1] = x
      BY <3>1, <1>2, <1>3
    <3> QED
      BY <3>2 DEF Range
  <2> QED
    BY <2>1, <2>2, <1>5 DEF Mounted
<1>6. Mounted \subseteq Registries
  BY <1>1, <1>3 DEF Mounted, Range
<1> QED
  BY <1>2, <1>4, <1>5, <1>6

\* A scan begins: all that publish now are still ahead.
LEMMA StartKeeps ==
  ASSUME TypeOK, NEW t \in Threads, NEW place \in Scanning, StartScan(t, place),
         UNCHANGED tool
  PROVE  ScanTyped' /\ (ScanSees => ScanSees')
<1>1. ScanTyped /\ Entries \in Seq(Registries) /\ Range(Entries) = Mounted
      /\ Mounted \subseteq Registries
  BY TypeParts, EntriesAreMounted
<1>2. {r \in Mounted : Publishes(r)} \in SUBSET Registries
  BY <1>1
<1>3. ScanTyped'
  BY <1>1, <1>2 DEF StartScan, ScanTyped
<1>4. ASSUME ScanSees, NEW u \in Threads, NEW r \in rivals'[u]
      PROVE  Publishes(r)' /\ (r = found'[u] \/ r \in Range(todo'[u]))
  <2>1. CASE u = t
    <3>1. rivals'[u] = {x \in Mounted : Publishes(x)} /\ todo'[u] = Entries
      BY <2>1, <1>1 DEF StartScan, ScanTyped
    <3> QED
      BY <3>1, <1>1, <1>4 DEF Publishes
  <2>2. CASE u # t
    <3>1. rivals'[u] = rivals[u] /\ todo'[u] = todo[u] /\ found'[u] = found[u]
      BY <2>2, <1>1 DEF StartScan, ScanTyped
    <3> QED
      BY <3>1, <1>4 DEF ScanSees, Publishes
  <2> QED
    BY <2>1, <2>2
<1> QED
  BY <1>3, <1>4 DEF ScanSees

\* A scan ends: it owes nothing any more.
LEMMA EndKeeps ==
  ASSUME TypeOK, NEW t \in Threads, NEW place \in {"idle", "scoping", "gating"},
         EndScan(t, place), UNCHANGED tool
  PROVE  ScanTyped' /\ (ScanSees => ScanSees')
<1>1. ScanTyped /\ <<>> \in Seq(Registries)
  BY TypeParts
<1>2. ScanTyped'
  BY <1>1 DEF EndScan, ScanTyped
<1>3. ASSUME ScanSees, NEW u \in Threads, NEW r \in rivals'[u]
      PROVE  Publishes(r)' /\ (r = found'[u] \/ r \in Range(todo'[u]))
  <2>1. u # t
    BY <1>1, <1>3 DEF EndScan, ScanTyped
  <2>2. rivals'[u] = rivals[u] /\ todo'[u] = todo[u] /\ found'[u] = found[u]
    BY <2>1, <1>1 DEF EndScan, ScanTyped
  <2> QED
    BY <2>2, <1>3 DEF ScanSees, Publishes
<1> QED
  BY <1>2, <1>3 DEF ScanSees

\* The head of a scan that is not over, and what is left behind it.
LEMMA HeadAndRest ==
  ASSUME ScanTyped, NEW t \in Threads, todo[t] # <<>>
  PROVE  /\ Head(todo[t]) \in Registries /\ Tail(todo[t]) \in Seq(Registries)
         /\ Range(todo[t]) = {Head(todo[t])} \cup Range(Tail(todo[t]))
<1> DEFINE s == todo[t]
<1>1. s \in Seq(Registries) /\ s # <<>>
  BY DEF ScanTyped
<1> HIDE DEF s
<1>2. /\ Len(s) \in Nat /\ Len(s) > 0 /\ Head(s) = s[1] /\ Head(s) \in Registries
      /\ Tail(s) \in Seq(Registries) /\ Len(Tail(s)) = Len(s) - 1
      /\ \A i \in 1..(Len(s) - 1) : Tail(s)[i] = s[i + 1]
  BY <1>1
<1>3. DOMAIN s = 1..Len(s) /\ DOMAIN Tail(s) = 1..(Len(s) - 1)
  BY <1>1, <1>2
<1>4. ASSUME NEW i \in 1..Len(s) PROVE s[i] \in {Head(s)} \cup Range(Tail(s))
  <2>1. CASE i = 1
    BY <2>1, <1>2
  <2>2. CASE i # 1
    <3>1. i - 1 \in 1..(Len(s) - 1) /\ (i - 1) + 1 = i
      BY <2>2, <1>2
    <3> QED
      BY <3>1, <1>2, <1>3 DEF Range
  <2> QED
    BY <2>1, <2>2
<1>5. ASSUME NEW i \in 1..(Len(s) - 1) PROVE Tail(s)[i] \in Range(s)
  BY <1>2, <1>3 DEF Range
<1>6. Head(s) \in Range(s)
  BY <1>2, <1>3 DEF Range
<1>7. Range(s) = {Head(s)} \cup Range(Tail(s))
  BY <1>3, <1>4, <1>5, <1>6 DEF Range
<1> QED
  BY <1>2, <1>7 DEF s

\* One registry is read: a publisher that was ahead is now the one found.
LEMMA PassKeeps ==
  ASSUME TypeOK, NEW t \in Threads, Pass(t)
  PROVE  ScanTyped' /\ (ScanSees => ScanSees')
<1> DEFINE r == Head(todo[t])
<1>1. ScanTyped /\ todo[t] # <<>>
  BY TypeParts DEF Pass, Scans
<1>2. /\ r \in Registries /\ Tail(todo[t]) \in Seq(Registries)
      /\ Range(todo[t]) = {r} \cup Range(Tail(todo[t]))
  BY <1>1, HeadAndRest
<1>3. /\ found' = [found EXCEPT ![t] = IF Publishes(r) THEN r ELSE @]
      /\ todo' = [todo EXCEPT ![t] = Tail(@)]
      /\ rivals' = rivals /\ at' = at /\ tool' = tool
  BY DEF Pass, registryVars
<1>4. Publishes(r) => found[t] = None
  BY <1>1 DEF Pass, Conflict
<1> HIDE DEF r
<1>5. ScanTyped'
  BY <1>1, <1>2, <1>3 DEF ScanTyped
<1>6. ASSUME ScanSees, NEW u \in Threads, NEW x \in rivals'[u]
      PROVE  Publishes(x)' /\ (x = found'[u] \/ x \in Range(todo'[u]))
  <2>1. Publishes(x)' /\ Publishes(x) /\ (x = found[u] \/ x \in Range(todo[u]))
    BY <1>3, <1>6 DEF ScanSees, Publishes
  <2>2. CASE u # t
    BY <2>1, <2>2, <1>1, <1>3 DEF ScanTyped
  <2>3. CASE u = t
    <3>1. /\ found'[u] = IF Publishes(r) THEN r ELSE found[u]
          /\ Range(todo'[u]) = Range(Tail(todo[u]))
      BY <2>3, <1>1, <1>3 DEF ScanTyped
    <3>2. x \in Registries
      BY <1>1, <1>3, <1>6 DEF ScanTyped
    <3>3. x # None
      BY <3>2, LiveToolsAssumption DEF LiveToolsAssumption, Registries
    <3> QED
      BY <2>1, <2>3, <3>1, <3>3, <1>2, <1>4
  <2> QED
    BY <2>2, <2>3
<1> QED
  BY <1>5, <1>6 DEF ScanSees

-------------------------------------------------------------------------------
(* Each group of variables, over the actions that change it.               *)

LEMMA InitIInv == Init => IInv
<1> SUFFICES ASSUME Init PROVE IInv
  OBVIOUS
<1>1. RegistryTyped
  <2>1. Absent \in Definitions /\ [made |-> 1, shown |-> TRUE] \in Definitions
    BY DEF Absent, Definitions
  <2>2. tool \in [Registries -> Definitions]
    BY <2>1 DEF Init
  <2>3. gen \in [Registries -> Nat] /\ dispatcher \in [Registries -> Nat]
    BY DEF Init
  <2>4. changes \in 0..MaxChanges
    BY LiveToolsAssumption DEF Init, LiveToolsAssumption
  <2> QED
    BY <2>2, <2>3, <2>4 DEF RegistryTyped
<1>2. MountsTyped /\ HostTyped
  <2>1. mounts \in Seq(Externals) /\ DOMAIN mounts = {}
    BY DEF Init
  <2> QED
    BY <2>1 DEF Init, MountsTyped, HostTyped
<1>3. ScanTyped
  BY DEF Init, ScanTyped, Scanning, Threads
<1>4. CallTyped
  BY DEF Init, CallTyped, Bindings, Unbound, Definitions, Absent
<1>5. \A t \in Threads : rivals[t] = {} /\ at[t] = "idle"
  BY DEF Init
<1>6. ScanSees /\ BindingFresh /\ StillReachable
  BY <1>5 DEF ScanSees, BindingFresh, StillReachable, Threads
<1> QED
  BY <1>1, <1>2, <1>3, <1>4, <1>6, TypeParts DEF IInv

\* What an owner's change does to one registry.
LEMMA OwnerStep ==
  ASSUME TypeOK, Owner
  PROVE  /\ RegistryTyped'
         /\ UNCHANGED <<mounts, disabled, scanVars, callVars, mounting, disturbed>>
         /\ \A t \in Threads : /\ rivals'[t] \subseteq rivals[t]
                              /\ \A x \in rivals'[t] : Publishes(x) => Publishes(x)'
         /\ \A x \in Registries : gen'[x] >= gen[x]
         /\ \A x \in Registries : gen'[x] = gen[x] => UNCHANGED <<tool[x], dispatcher[x]>>
         /\ rivals' \in [Threads -> SUBSET Registries]
<1>1. PICK r \in Registries : \/ AddTool(r) \/ RemoveTool(r) \/ SetExposure(r)
                              \/ SetDispatcher(r) \/ ChangeOther(r)
  BY DEF Owner
<1>2. RegistryTyped /\ ScanTyped
  BY TypeParts
<1>3. ChangeOf(r)
  BY <1>1 DEF AddTool, RemoveTool, SetExposure, SetDispatcher, ChangeOther
<1>4. UNCHANGED <<mounts, disabled, scanVars, callVars, mounting, disturbed>>
  BY <1>3 DEF ChangeOf
<1>5. changes' \in 0..MaxChanges
  <2>1. changes \in 0..MaxChanges /\ changes < MaxChanges /\ changes' = changes + 1
    BY <1>2, <1>3 DEF ChangeOf, RegistryTyped
  <2> QED
    BY <2>1, LiveToolsAssumption DEF LiveToolsAssumption
<1>6. gen' \in [Registries -> Nat] /\ gen'[r] = gen[r] + 1
      /\ \A x \in Registries \ {r} : gen'[x] = gen[x]
  BY <1>2, <1>3 DEF ChangeOf, RegistryTyped
<1>7. /\ tool' \in [Registries -> Definitions]
      /\ \A x \in Registries \ {r} : tool'[x] = tool[x]
  <2>1. CASE AddTool(r)
    <3>1. PICK shown \in BOOLEAN :
            tool' = [tool EXCEPT ![r] = [made |-> gen[r] + 1, shown |-> shown]]
      BY <2>1 DEF AddTool
    <3>2. [made |-> gen[r] + 1, shown |-> shown] \in Definitions
      BY <1>2 DEF RegistryTyped, Definitions
    <3> QED
      BY <1>2, <3>1, <3>2 DEF RegistryTyped
  <2>2. CASE RemoveTool(r)
    <3>1. Absent \in Definitions
      BY DEF Absent, Definitions
    <3> QED
      BY <1>2, <2>2, <3>1 DEF RemoveTool, RegistryTyped
  <2>3. CASE SetExposure(r)
    <3>1. PICK shown \in BOOLEAN : tool' = [tool EXCEPT ![r].shown = shown]
      BY <2>3 DEF SetExposure
    <3>2. tool' = [tool EXCEPT ![r] = [tool[r] EXCEPT !.shown = shown]]
      BY <3>1
    <3>3. [tool[r] EXCEPT !.shown = shown] \in Definitions
      BY <1>2 DEF RegistryTyped, Definitions
    <3> QED
      BY <1>2, <3>2, <3>3 DEF RegistryTyped
  <2>4. CASE SetDispatcher(r) \/ ChangeOther(r)
    BY <1>2, <2>4 DEF SetDispatcher, ChangeOther, RegistryTyped
  <2> QED
    BY <1>1, <2>1, <2>2, <2>3, <2>4
<1>8. /\ dispatcher' \in [Registries -> Nat]
      /\ \A x \in Registries \ {r} : dispatcher'[x] = dispatcher[x]
  <2>1. CASE SetDispatcher(r)
    BY <1>2, <2>1 DEF SetDispatcher, RegistryTyped
  <2>2. CASE ~SetDispatcher(r)
    BY <1>1, <1>2, <2>2 DEF AddTool, RemoveTool, SetExposure, ChangeOther, RegistryTyped
  <2> QED
    BY <2>1, <2>2
<1>9. CASE RemoveTool(r)
  <2>1. rivals' = [t \in Threads |-> rivals[t] \ {r}]
    BY <1>9 DEF RemoveTool
  <2>2. \A t \in Threads : rivals[t] \in SUBSET Registries
    BY <1>2 DEF ScanTyped
  <2>3. \A t \in Threads : rivals'[t] = rivals[t] \ {r}
    BY <2>1
  <2>4. rivals' \in [Threads -> SUBSET Registries]
    BY <2>1, <2>2
  <2>5. \A t \in Threads : rivals'[t] \subseteq Registries \ {r}
    BY <2>2, <2>3
  <2>6. \A t \in Threads : \A x \in rivals'[t] : tool'[x] = tool[x]
    BY <1>7, <2>5
  <2>7. \A t \in Threads : \A x \in rivals'[t] : Publishes(x) => Publishes(x)'
    BY <2>6 DEF Publishes
  <2>8. \A x \in Registries : gen'[x] >= gen[x]
    BY <1>2, <1>6 DEF RegistryTyped
  <2>9. \A x \in Registries : gen'[x] = gen[x] => x # r
    BY <1>2, <1>6 DEF RegistryTyped
  <2> QED
    BY <1>2, <1>4, <1>5, <1>6, <1>7, <1>8, <2>3, <2>4, <2>7, <2>8, <2>9
       DEF RegistryTyped
<1>10. CASE ~RemoveTool(r)
  <2>1. rivals' = rivals
    BY <1>1, <1>10 DEF AddTool, SetExposure, SetDispatcher, ChangeOther
  <2>2. Publishes(r) => Publishes(r)'
    <3>1. CASE AddTool(r)
      BY <3>1 DEF AddTool
    <3>2. CASE SetExposure(r)
      BY <3>2, <1>2 DEF SetExposure, Publishes, RegistryTyped, Definitions
    <3>3. CASE SetDispatcher(r) \/ ChangeOther(r)
      BY <3>3 DEF SetDispatcher, ChangeOther, Publishes
    <3> QED
      BY <1>1, <1>10, <3>1, <3>2, <3>3
  <2>3. \A x \in Registries : Publishes(x) => Publishes(x)'
    BY <2>2, <1>7 DEF Publishes
  <2>4. \A t \in Threads : rivals[t] \subseteq Registries
    BY <1>2 DEF ScanTyped
  <2>5. \A x \in Registries : gen'[x] >= gen[x]
    BY <1>2, <1>6 DEF RegistryTyped
  <2>6. \A x \in Registries : gen'[x] = gen[x] => x # r
    BY <1>2, <1>6 DEF RegistryTyped
  <2>7. rivals' \in [Threads -> SUBSET Registries]
    BY <2>1, <1>2 DEF ScanTyped
  <2> QED
    BY <1>4, <1>5, <1>6, <1>7, <1>8, <2>1, <2>3, <2>4, <2>5, <2>6, <2>7
       DEF RegistryTyped
<1> QED
  BY <1>9, <1>10

LEMMA ScansStep ==
  ASSUME TypeOK, ScanSees, Next
  PROVE  ScanTyped' /\ ScanSees'
<1>1. CASE Owner
  <2>1. ScanTyped
    BY TypeParts
  <2>2. ScanTyped'
    BY <1>1, <2>1, OwnerStep DEF ScanTyped, scanVars
  <2>3. ScanSees'
    BY <1>1, OwnerStep DEF ScanSees, scanVars
  <2> QED
    BY <2>2, <2>3
<1>2. CASE MountLists \/ MountValidates
  <2>1. \E place \in Scanning : StartScan("host", place)
    BY <1>2 DEF MountLists, MountValidates, Scanning
  <2> QED
    BY <1>2, <2>1, StartKeeps DEF MountLists, MountValidates, registryVars, Threads
<1>3. CASE CallStart \/ CallInScope \/ GateAllows
  <2>1. \E place \in Scanning : StartScan("agent", place)
    BY <1>3 DEF CallStart, CallInScope, GateAllows, Scanning
  <2> QED
    BY <1>3, <2>1, StartKeeps DEF CallStart, CallInScope, GateAllows, registryVars, Threads
<1>4. CASE MountReturns \/ MountRefused
  BY <1>4, EndKeeps DEF MountReturns, MountRefused, registryVars, Threads
<1>5. CASE Narrow \/ CallBinds
  <2>1. EndScan("agent", "scoping") \/ EndScan("agent", "gating")
    BY <1>5 DEF Narrow, CallBinds
  <2> QED
    BY <1>5, <2>1, EndKeeps DEF Narrow, CallBinds, registryVars, Threads
<1>6. CASE \/ CallConflicts \/ CallBlocked \/ CallUnknown \/ GateRefuses \/ CallMoved
           \/ CallStale \/ Dispatch
  <2>1. EndScan("agent", "idle") /\ UNCHANGED tool
    BY <1>6 DEF CallConflicts, CallBlocked, CallUnknown, GateRefuses, CallMoved, CallStale,
                Dispatch, EndCall, registryVars
  <2> QED
    BY <2>1, EndKeeps DEF Threads
<1>7. CASE Pass("host") \/ Pass("agent")
  BY <1>7, PassKeeps DEF Threads
<1>8. CASE DisableOrEnable \/ \E r \in Externals : Unmount(r)
  <2>1. UNCHANGED <<tool, at, todo, found, rivals>>
    BY <1>8 DEF DisableOrEnable, Unmount, registryVars, scanVars
  <2> QED
    BY <2>1, TypeParts DEF ScanTyped, ScanSees, Publishes
<1>9. CASE \E r \in Externals : MountStart(r)
  <2>1. UNCHANGED <<tool, todo, found, rivals>> /\ at' = [at EXCEPT !["host"] = "mounted"]
    BY <1>9 DEF MountStart, registryVars
  <2> QED
    BY <2>1, TypeParts DEF ScanTyped, ScanSees, Publishes
<1> QED
  BY <1>1, <1>2, <1>3, <1>4, <1>5, <1>6, <1>7, <1>8, <1>9 DEF Next, Host, Call

LEMMA MountsStep ==
  ASSUME TypeOK, Next
  PROVE  MountsTyped'
<1>1. MountsTyped
  BY TypeParts
<1>2. CASE \E r \in Externals : MountStart(r)
  <2>1. PICK r \in Externals : r \notin Range(mounts) /\ mounts' = Append(mounts, r)
    BY <1>2 DEF MountStart
  <2>2. /\ mounts' \in Seq(Externals) /\ Len(mounts') = Len(mounts) + 1
        /\ mounts'[Len(mounts) + 1] = r
        /\ \A i \in 1..Len(mounts) : mounts'[i] = mounts[i]
        /\ Len(mounts) \in Nat
    BY <1>1, <2>1 DEF MountsTyped
  <2>3. DOMAIN mounts' = 1..(Len(mounts) + 1) /\ DOMAIN mounts = 1..Len(mounts)
    BY <1>1, <2>2 DEF MountsTyped
  <2>4. \A i \in 1..Len(mounts) : mounts[i] # r
    BY <2>1, <2>3 DEF Range
  <2>5. ASSUME NEW i \in DOMAIN mounts', NEW j \in DOMAIN mounts', mounts'[i] = mounts'[j]
        PROVE  i = j
    <3>1. CASE i \in 1..Len(mounts) /\ j \in 1..Len(mounts)
      BY <3>1, <1>1, <2>2, <2>3, <2>5 DEF MountsTyped
    <3>2. CASE i = Len(mounts) + 1 \/ j = Len(mounts) + 1
      BY <3>2, <2>2, <2>3, <2>4, <2>5
    <3> QED
      BY <3>1, <3>2, <2>2, <2>3
  <2> QED
    BY <2>2, <2>5 DEF MountsTyped
<1>3. CASE MountRefused \/ \E r \in Externals : Unmount(r)
  <2>1. UNCHANGED mounts \/ Detach(mounting) \/ \E r \in Externals : Detach(r)
    BY <1>3 DEF MountRefused, Unmount
  <2> QED
    BY <1>1, <2>1, DetachKeeps DEF MountsTyped
<1>4. CASE Owner
  BY <1>1, <1>4, OwnerStep DEF MountsTyped
<1>5. CASE \/ DisableOrEnable \/ Pass("host") \/ MountLists \/ MountValidates \/ MountReturns
           \/ Call
  <2>1. UNCHANGED mounts
    BY <1>5 DEF DisableOrEnable, Pass, MountLists, MountValidates, MountReturns, Call,
       CallStart, CallConflicts, Narrow, CallBlocked, CallInScope, CallUnknown, CallBinds,
       GateRefuses, GateAllows, CallMoved, CallStale, Dispatch
  <2> QED
    BY <1>1, <2>1 DEF MountsTyped
<1> QED
  BY <1>2, <1>3, <1>4, <1>5 DEF Next, Host

LEMMA HostStep ==
  ASSUME TypeOK, Next
  PROVE  HostTyped'
<1>1. HostTyped
  BY TypeParts
<1>2. CASE Owner
  BY <1>1, <1>2, OwnerStep DEF HostTyped
<1>3. CASE Host
  BY <1>1, <1>3 DEF Host, HostTyped, DisableOrEnable, Pass, MountLists, MountValidates,
     MountReturns, MountRefused, MountStart, Unmount
<1>4. CASE Call
  BY <1>1, <1>4 DEF Call, HostTyped, Pass, CallStart, CallConflicts, Narrow, CallBlocked,
     CallInScope, CallUnknown, CallBinds, GateRefuses, GateAllows, CallMoved, CallStale,
     Dispatch
<1> QED
  BY <1>2, <1>3, <1>4 DEF Next

LEMMA EndCallKeeps ==
  ASSUME NEW o \in {"error", "raised", "ran"}, EndCall(o)
  PROVE  CallTyped'
<1>1. Unbound \in Bindings
  BY DEF Unbound, Bindings, Definitions, Absent
<1> QED
  BY <1>1 DEF EndCall, CallTyped

\* Where the agent is after a step that begins or ends a scan, or moves the host.
LEMMA AgentStep ==
  ASSUME TypeOK, Next
  PROVE  /\ Owner \/ Host => at'["agent"] = at["agent"] /\ UNCHANGED <<surface, binding, outcome>>
         /\ CallBinds => at'["agent"] = "gating"
         /\ GateAllows => at'["agent"] = "refinding"
         /\ Pass("agent") => at' = at
         /\ CallStart \/ Narrow \/ CallInScope => at'["agent"] \notin {"gating", "refinding"}
         /\ CallBinds \/ GateAllows \/ CallStart \/ Narrow \/ CallInScope =>
              UNCHANGED registryVars
<1>1. ScanTyped
  BY TypeParts
<1>2. \A place : StartScan("host", place) \/ EndScan("host", place) =>
        at'["agent"] = at["agent"]
  BY <1>1 DEF StartScan, EndScan, ScanTyped, Threads
<1>3. \A place : StartScan("agent", place) \/ EndScan("agent", place) =>
        at'["agent"] = place
  BY <1>1 DEF StartScan, EndScan, ScanTyped, Threads
<1>4. Owner => at' = at /\ UNCHANGED <<surface, binding, outcome>>
  BY OwnerStep DEF scanVars, callVars
<1>5. Host => at'["agent"] = at["agent"] /\ UNCHANGED <<surface, binding, outcome>>
  <2>1. DisableOrEnable \/ Pass("host") \/ (\E r \in Externals : Unmount(r)) => at' = at
    BY DEF DisableOrEnable, Pass, Unmount, scanVars
  <2>2. (\E r \in Externals : MountStart(r)) => at'["agent"] = at["agent"]
    BY <1>1 DEF MountStart, ScanTyped, Threads
  <2>3. MountLists \/ MountValidates \/ MountReturns \/ MountRefused =>
          at'["agent"] = at["agent"]
    BY <1>2 DEF MountLists, MountValidates, MountReturns, MountRefused
  <2>4. Host => UNCHANGED <<binding, outcome>>
    BY DEF Host, DisableOrEnable, Pass, Unmount, MountStart, MountLists, MountValidates,
           MountReturns, MountRefused, callVars
  <2>5. Host => surface' = surface
    BY DEF Host, DisableOrEnable, Pass, Unmount, MountStart, MountLists, MountValidates,
           MountReturns, MountRefused, callVars
  <2> QED
    BY <2>1, <2>2, <2>3, <2>4, <2>5 DEF Host
<1>6. CallBinds => at'["agent"] = "gating"
  BY <1>3 DEF CallBinds
<1>7. GateAllows => at'["agent"] = "refinding"
  BY <1>3 DEF GateAllows
<1>8. Pass("agent") => at' = at
  BY DEF Pass
<1>9. CallStart \/ Narrow \/ CallInScope => at'["agent"] \notin {"gating", "refinding"}
  BY <1>3 DEF CallStart, Narrow, CallInScope
<1>10. CallBinds \/ GateAllows \/ CallStart \/ Narrow \/ CallInScope => UNCHANGED registryVars
  BY DEF CallBinds, GateAllows, CallStart, Narrow, CallInScope
<1> QED
  BY <1>4, <1>5, <1>6, <1>7, <1>8, <1>9, <1>10

Ends == CallConflicts \/ CallBlocked \/ CallUnknown \/ GateRefuses \/ CallMoved \/ CallStale
        \/ Dispatch

LEMMA EndsStep ==
  ASSUME TypeOK, Ends
  PROVE  CallTyped' /\ at'["agent"] # "gating" /\ at'["agent"] # "refinding"
<1>1. EndCall("error") \/ EndCall("raised") \/ EndCall("ran")
  BY DEF Ends, CallConflicts, CallBlocked, CallUnknown, GateRefuses, CallMoved, CallStale,
         Dispatch
<1>2. ScanTyped
  BY TypeParts
<1>3. \A o : EndCall(o) => at'["agent"] = "idle"
  BY <1>2 DEF EndCall, EndScan, ScanTyped, Threads
<1> QED
  BY <1>1, <1>3, EndCallKeeps

LEMMA CallStep ==
  ASSUME TypeOK, Next
  PROVE  CallTyped'
<1>1. CallTyped /\ RegistryTyped /\ MountsTyped /\ ScanTyped
  BY TypeParts
<1>2. Mounted \subseteq Registries
  BY <1>1, EntriesAreMounted
<1>3. CASE Owner
  BY <1>1, <1>3, OwnerStep DEF CallTyped, callVars
<1>4. CASE Host
  <2>1. UNCHANGED <<surface, binding, outcome>>
    BY <1>4, AgentStep
  <2>2. reachable' \subseteq Registries
    BY <1>1, <1>4 DEF CallTyped, Host, DisableOrEnable, Pass, Unmount, MountStart, MountLists,
       MountValidates, MountReturns, MountRefused, callVars, Registries
  <2> QED
    BY <1>1, <2>1, <2>2 DEF CallTyped
<1>5. CASE Ends
  BY <1>5, EndsStep
<1>6. CASE Pass("agent")
  <2>1. /\ UNCHANGED <<binding, outcome, reachable>>
        /\ surface' = surface \/ surface' = tool[Head(todo["agent"])].shown
    BY <1>6 DEF Pass
  <2>2. Head(todo["agent"]) \in Registries
    BY <1>1, <1>6, HeadAndRest DEF Pass, Scans, Threads
  <2>3. tool[Head(todo["agent"])].shown \in BOOLEAN
    BY <1>1, <2>2 DEF RegistryTyped, Definitions
  <2> QED
    BY <1>1, <2>1, <2>3 DEF CallTyped
<1>7. CASE CallStart \/ Narrow \/ CallInScope
  <2>1. surface' \in BOOLEAN
    BY <1>1, <1>7 DEF CallStart, Narrow, CallInScope, CallTyped
  <2>2. UNCHANGED <<binding, reachable>> /\ outcome' \in {outcome, "none"}
    BY <1>7 DEF CallStart, Narrow, CallInScope
  <2> QED
    BY <1>1, <2>1, <2>2 DEF CallTyped
<1>8. CASE CallBinds
  <2> DEFINE r == found["agent"]
  <2>1. r \in Registries
    BY <1>1, <1>8 DEF CallBinds, ScanTyped, Threads
  <2>2. gen[r] \in Nat /\ tool[r] \in Definitions /\ dispatcher[r] \in Nat
    BY <1>1, <2>1 DEF RegistryTyped
  <2>3. binding' = [registry |-> r, gen |-> gen[r], def |-> tool[r],
                    dispatcher |-> dispatcher[r]]
    BY <1>8 DEF CallBinds
  <2>4. binding' \in Bindings
    BY <2>1, <2>2, <2>3 DEF Bindings
  <2> QED
    BY <1>1, <1>8, <2>4 DEF CallBinds, CallTyped
<1>9. CASE GateAllows
  BY <1>1, <1>2, <1>9 DEF GateAllows, CallTyped
<1> QED
  BY <1>3, <1>4, <1>5, <1>6, <1>7, <1>8, <1>9 DEF Next, Call, Ends

LEMMA BindingStep ==
  ASSUME TypeOK, BindingFresh, Next
  PROVE  BindingFresh'
<1>1. RegistryTyped /\ ScanTyped /\ CallTyped
  BY TypeParts
<1>2. CASE Owner
  <2>1. at' = at /\ binding' = binding
    BY <1>2, OwnerStep DEF scanVars, callVars
  <2> DEFINE r == binding.registry
  <2>2. SUFFICES ASSUME at["agent"] \in {"gating", "refinding"}
                 PROVE  /\ r \in Registries /\ binding.gen <= gen'[r]
                        /\ binding.gen = gen'[r] => /\ tool'[r] = binding.def
                                                    /\ dispatcher'[r] = binding.dispatcher
    BY <2>1 DEF BindingFresh
  <2>3. /\ r \in Registries /\ binding.gen <= gen[r]
        /\ binding.gen = gen[r] => tool[r] = binding.def /\ dispatcher[r] = binding.dispatcher
    BY <2>2 DEF BindingFresh
  <2>4. gen[r] \in Nat /\ gen'[r] \in Nat /\ binding.gen \in Nat /\ gen'[r] >= gen[r]
    BY <1>1, <1>2, <2>3, OwnerStep DEF RegistryTyped, CallTyped, Bindings
  <2>5. binding.gen = gen'[r] => gen'[r] = gen[r]
    BY <2>3, <2>4
  <2>6. gen'[r] = gen[r] => tool'[r] = tool[r] /\ dispatcher'[r] = dispatcher[r]
    BY <1>2, <2>3, OwnerStep
  <2>7. binding.gen <= gen'[r]
    BY <2>3, <2>4
  <2> QED
    BY <2>3, <2>5, <2>6, <2>7
<1>3. CASE Host
  <2>1. UNCHANGED registryVars
    BY <1>3 DEF Host, DisableOrEnable, Pass, Unmount, MountStart, MountLists, MountValidates,
       MountReturns, MountRefused
  <2>2. at'["agent"] = at["agent"] /\ binding' = binding
    BY <1>3, AgentStep
  <2> QED
    BY <2>1, <2>2 DEF BindingFresh, registryVars
<1>4. CASE Ends
  BY <1>4, EndsStep DEF BindingFresh
<1>5. CASE Pass("agent")
  BY <1>5 DEF Pass, BindingFresh, registryVars
<1>6. CASE CallStart \/ Narrow \/ CallInScope
  BY <1>6, AgentStep DEF BindingFresh
<1>7. CASE CallBinds
  <2> DEFINE r == found["agent"]
  <2>1. r \in Registries
    BY <1>1, <1>7 DEF CallBinds, ScanTyped, Threads
  <2>2. binding' = [registry |-> r, gen |-> gen[r], def |-> tool[r],
                    dispatcher |-> dispatcher[r]]
    BY <1>7 DEF CallBinds
  <2>3. gen[r] \in Nat /\ UNCHANGED <<gen, tool, dispatcher>>
    BY <1>1, <1>7, <2>1 DEF RegistryTyped, CallBinds, registryVars
  <2> QED
    BY <2>1, <2>2, <2>3 DEF BindingFresh
<1>8. CASE GateAllows
  <2>1. at["agent"] = "gating" /\ UNCHANGED <<registryVars, binding>>
    BY <1>8 DEF GateAllows
  <2> QED
    BY <2>1 DEF BindingFresh, registryVars
<1> QED
  BY <1>2, <1>3, <1>4, <1>5, <1>6, <1>7, <1>8 DEF Next, Call, Ends

LEMMA ReachStep ==
  ASSUME TypeOK, StillReachable, Next
  PROVE  StillReachable'
<1>1. ScanTyped /\ MountsTyped
  BY TypeParts
<1>2. CASE Owner
  BY <1>2, OwnerStep DEF StillReachable, scanVars, callVars
<1>3. CASE Host
  <2>1. at'["agent"] = at["agent"]
    BY <1>3, AgentStep
  <2>2. todo'["agent"] = todo["agent"] /\ found'["agent"] = found["agent"]
    <3>1. \A place : StartScan("host", place) \/ EndScan("host", place) =>
            todo'["agent"] = todo["agent"] /\ found'["agent"] = found["agent"]
      BY <1>1 DEF StartScan, EndScan, ScanTyped, Threads
    <3>2. Pass("host") => todo'["agent"] = todo["agent"] /\ found'["agent"] = found["agent"]
      BY <1>1 DEF Pass, ScanTyped, Threads
    <3>3. CASE MountLists \/ MountValidates \/ MountReturns \/ MountRefused
      BY <3>1, <3>3 DEF MountLists, MountValidates, MountReturns, MountRefused
    <3>4. CASE DisableOrEnable \/ \E r \in Externals : MountStart(r) \/ Unmount(r)
      BY <3>4 DEF DisableOrEnable, MountStart, Unmount, scanVars
    <3> QED
      BY <1>3, <3>2, <3>3, <3>4 DEF Host
  <2>3. reachable \subseteq reachable'
    BY <1>3 DEF Host, DisableOrEnable, Pass, Unmount, MountStart, MountLists, MountValidates,
       MountReturns, MountRefused, callVars
  <2> QED
    BY <2>1, <2>2, <2>3 DEF StillReachable
<1>4. CASE Ends
  BY <1>4, EndsStep DEF StillReachable
<1>5. CASE Pass("agent")
  <2>1. todo["agent"] # <<>> /\ at' = at /\ reachable' = reachable
    BY <1>5 DEF Pass, Scans
  <2>2. Range(todo["agent"]) = {Head(todo["agent"])} \cup Range(Tail(todo["agent"]))
    BY <1>1, <2>1, HeadAndRest DEF Threads
  <2>3. todo'["agent"] = Tail(todo["agent"])
        /\ found'["agent"] \in {found["agent"], Head(todo["agent"])}
    BY <1>1, <1>5 DEF Pass, ScanTyped, Threads
  <2> QED
    BY <2>1, <2>2, <2>3 DEF StillReachable
<1>6. CASE CallStart \/ Narrow \/ CallInScope \/ CallBinds
  BY <1>6, AgentStep DEF StillReachable
<1>7. CASE GateAllows
  <2>1. todo'["agent"] = Entries /\ found'["agent"] = None /\ reachable' = Mounted
    BY <1>1, <1>7 DEF GateAllows, StartScan, ScanTyped, Threads
  <2> QED
    BY <2>1, <1>1, EntriesAreMounted DEF StillReachable
<1> QED
  BY <1>2, <1>3, <1>4, <1>5, <1>6, <1>7 DEF Next, Call, Ends

LEMMA Stutter ==
  ASSUME IInv, UNCHANGED vars
  PROVE  IInv'
<1>1. UNCHANGED <<registryVars, mounts, disabled, scanVars, callVars, mounting, rivals,
                  disturbed>>
  BY DEF vars
<1>2. RegistryTyped /\ MountsTyped /\ ScanTyped /\ CallTyped /\ HostTyped
  BY TypeParts DEF IInv
<1>3. RegistryTyped' /\ MountsTyped' /\ ScanTyped' /\ CallTyped' /\ HostTyped'
  BY <1>1, <1>2 DEF RegistryTyped, MountsTyped, ScanTyped, CallTyped, HostTyped,
     registryVars, scanVars, callVars
<1>4. ScanSees' /\ BindingFresh' /\ StillReachable'
  BY <1>1 DEF IInv, ScanSees, BindingFresh, StillReachable, Publishes, registryVars,
     scanVars, callVars
<1> QED
  BY <1>3, <1>4, TypePartsNext DEF IInv

LEMMA InvariantStep == IInv /\ [Next]_vars => IInv'
<1>1. ASSUME IInv, Next PROVE IInv'
  <2>1. RegistryTyped'
    <3>1. CASE Owner
      BY <1>1, <3>1, OwnerStep DEF IInv
    <3>2. CASE Host \/ Call
      <4>1. UNCHANGED registryVars
        BY <3>2 DEF Host, DisableOrEnable, Pass, Unmount, MountStart, MountLists,
           MountValidates, MountReturns, MountRefused, Call, CallStart, CallConflicts,
           Narrow, CallBlocked, CallInScope, CallUnknown, CallBinds, GateRefuses,
           GateAllows, CallMoved, CallStale, Dispatch
      <4> QED
        BY <1>1, <4>1, TypeParts DEF IInv, RegistryTyped, registryVars
    <3> QED
      BY <1>1, <3>1, <3>2 DEF Next
  <2>2. MountsTyped' /\ HostTyped' /\ CallTyped'
    BY <1>1, MountsStep, HostStep, CallStep DEF IInv
  <2>3. ScanTyped' /\ ScanSees'
    BY <1>1, ScansStep DEF IInv
  <2>4. BindingFresh' /\ StillReachable'
    BY <1>1, BindingStep, ReachStep DEF IInv
  <2> QED
    BY <2>1, <2>2, <2>3, <2>4, TypePartsNext DEF IInv
<1> QED
  BY <1>1, Stutter

LEMMA Invariance == Spec => []IInv
BY InitIInv, InvariantStep, PTL DEF Spec

-------------------------------------------------------------------------------
\* Every variable keeps its type, and no registry is mounted twice.
THEOREM Typed == Spec => []TypeOK
<1>1. IInv => TypeOK
  BY DEF IInv
<1> QED
  BY <1>1, Invariance, PTL

\* Two registries that publish the name all through a scan never shadow each other
\* silently, for any number of registries and whatever changes meanwhile.
THEOREM Unshadowed == Spec => []NoSilentShadow
<1>1. IInv => NoSilentShadow
  BY DEF IInv, ScanSees, NoSilentShadow, Range
<1> QED
  BY <1>1, Invariance, PTL

LEMMA RunsByDispatch ==
  ASSUME IInv, [Next]_vars, Runs
  PROVE  Dispatch
<1>1. Next
  BY DEF Runs, vars, callVars
<1>2. ~(Owner \/ Host)
  BY <1>1, AgentStep DEF IInv, Runs
<1>3. Call
  BY <1>1, <1>2 DEF Next
<1> QED
  BY <1>3 DEF Runs, Call, Pass, CallStart, CallConflicts, Narrow, CallBlocked, CallInScope,
     CallUnknown, CallBinds, GateRefuses, GateAllows, CallMoved, CallStale, Dispatch,
     EndCall, callVars

\* What is dispatched is what was bound, gated and approved, and it is still what the
\* registry publishes, after any sequence of changes in between.
THEOREM ApprovedIsRun == Spec => ReplacedNeverRuns
<1>1. ASSUME IInv, [Next]_vars, Runs
      PROVE  /\ tool[binding.registry] = binding.def
             /\ dispatcher[binding.registry] = binding.dispatcher
  <2>1. Dispatch
    BY <1>1, RunsByDispatch
  <2> QED
    BY <1>1, <2>1 DEF Dispatch, Scanned, IInv, BindingFresh
<1> QED
  BY <1>1, Invariance, PTL DEF Spec, ReplacedNeverRuns

\* A registry that left while the gates were asking runs nothing.
THEOREM OutIsOut == Spec => UnmountedStaysOut
<1>1. ASSUME IInv, [Next]_vars, Runs
      PROVE  binding.registry \in reachable
  <2>1. Dispatch
    BY <1>1, RunsByDispatch
  <2>2. /\ at["agent"] = "refinding" /\ found["agent"] = binding.registry
        /\ binding.registry \in Registries
    BY <1>1, <2>1 DEF Dispatch, Scanned, IInv, BindingFresh
  <2>3. binding.registry # None
    BY <2>2, LiveToolsAssumption DEF LiveToolsAssumption, Registries
  <2> QED
    BY <1>1, <2>2, <2>3 DEF IInv, StillReachable
<1> QED
  BY <1>1, Invariance, PTL DEF Spec, UnmountedStaysOut
===============================================================================
