---------------------------- MODULE RuleMapsProofs ----------------------------
(***************************************************************************)
(* Proof about RuleMaps: an instance of owLSM that runs alone evaluates    *)
(* its own rules, whatever earlier instances have left behind.             *)
(***************************************************************************)
EXTENDS RuleMaps, TLAPS

ObjT == [entries : [Ids -> Nat], frozen : BOOLEAN]
PinT == [Maps -> Objs \cup {NoMap}]
InstT == [pc : {"off", "setup", "open", "loaded", "attached", "detached",
                "exited", "failed", "dead"},
          config : Configs, next : 1 .. 4, left : SUBSET Ids,
          fd : Objs \cup {NoMap}, maps : PinT]

TypeInv ==
  pins \in PinT /\ objs \in [Objs -> ObjT] /\ inst \in [Instances -> InstT]

Active(i) == inst[i].pc \in {"setup", "open", "loaded", "attached", "detached"}

\* Instances start in their order, and one at a time.
OneAtATime ==
  /\ \A i, j \in Instances : i < j /\ inst[j].pc # "off" => inst[i].pc # "off"
  /\ \A i, j \in Instances : Active(i) /\ Active(j) => i = j

\* Map o holds what instance i is to have under the name m, for good.
Complete(i, m, o) ==
  inst[i].config[m] # {} =>
    /\ o \in Objs /\ objs[o].frozen
    /\ \A k \in inst[i].config[m] : objs[o].entries[k] = i

\* The map that i fills is pinned under the name it is for, and lacks what is
\* left to be written.
FillingOK(i) ==
  inst[i].fd # NoMap =>
    /\ inst[i].next <= 3 /\ pins[Name(i)] = inst[i].fd
    /\ \A k \in inst[i].config[Name(i)] : k \notin inst[i].left =>
         objs[inst[i].fd].entries[k] = i

\* What instance i has done so far, by where it is.
ProgressOK(i) ==
  /\ inst[i].pc # "open" => inst[i].fd = NoMap
  /\ inst[i].pc \in {"off", "setup"} => inst[i].next = 1
  /\ inst[i].pc \notin {"loaded", "attached", "detached"} => inst[i].maps = Unpinned
  /\ inst[i].pc = "open" =>
       /\ \A k \in 1 .. 3 : k < inst[i].next => Complete(i, MapOrder[k], pins[MapOrder[k]])
       /\ FillingOK(i)
  /\ inst[i].pc \in {"loaded", "attached", "detached"} =>
       \A m \in Maps : Complete(i, m, inst[i].maps[m])

MapsInv == TypeInv /\ OneAtATime /\ \A i \in Instances : ProgressOK(i)

\* The names are distinct.
LEMMA MapFacts ==
  /\ Maps = {MapOrder[1], MapOrder[2], MapOrder[3]} /\ Len(MapOrder) = 3
  /\ \A k, l \in 1 .. 3 : MapOrder[k] = MapOrder[l] => k = l
  /\ \A k \in 1 .. 3 : MapOrder[k] \in Maps
  /\ 1 \in Objs /\ 2 \in Objs /\ 3 \in Objs /\ NoMap \notin Objs
  <1>1. /\ Len(MapOrder) = 3 /\ DOMAIN MapOrder = 1 .. 3
        /\ MapOrder[1] = "predicates_map" /\ MapOrder[2] = "rules_ips_map"
        /\ MapOrder[3] = "exec_rules"
    BY DEF MapOrder
  <1>2. Maps = {MapOrder[1], MapOrder[2], MapOrder[3]}
    BY <1>1 DEF Maps
  <1>3. \A k, l \in 1 .. 3 : MapOrder[k] = MapOrder[l] => k = l
    BY <1>1
  <1>4. 1 \in Objs /\ 2 \in Objs /\ 3 \in Objs /\ NoMap \notin Objs
    BY <1>1, BoundAssumption DEF Objs, NoMap
  <1>5. \A k \in 1 .. 3 : MapOrder[k] \in Maps
    BY <1>1 DEF Maps
  <1> QED BY <1>1, <1>2, <1>3, <1>4, <1>5

\* What is kept is what it was, and a map that is freed is a map.
LEMMA KeptFacts ==
  ASSUME TypeInv, NEW p, NEW is
  PROVE  /\ Kept(p, is) \in [Objs -> ObjT]
         /\ \A o \in Objs : o \in Held(p, is) => Kept(p, is)[o] = objs[o]
  <1>1. EmptyMap \in ObjT
    BY DEF EmptyMap, ObjT
  <1> QED BY <1>1 DEF Kept, TypeInv

\* While i alone is active and has no map open, the maps in use are the pinned ones.
LEMMA HeldFacts ==
  ASSUME MapsInv, NEW i \in Instances, inst[i].pc = "open", inst[i].fd = NoMap,
         NEW o \in Held(pins, inst)
  PROVE  o = NoMap \/ \E m \in Maps : pins[m] = o
  <1>1. ASSUME NEW j \in Instances
        PROVE  inst[j].fd = NoMap /\ inst[j].maps = Unpinned
    <2>1. j # i => inst[j].pc \notin {"setup", "open", "loaded", "attached", "detached"}
      BY DEF MapsInv, OneAtATime, Active
    <2> QED BY <2>1 DEF MapsInv, ProgressOK
  <1> QED BY <1>1 DEF Held, Unpinned

\* So there is a map for a name that has none.
LEMMA NewObjFacts ==
  ASSUME MapsInv, NEW i \in Instances, inst[i].pc = "open", inst[i].fd = NoMap,
         NEW m \in Maps, pins[m] = NoMap
  PROVE  NewObj \in Objs
  <1>1. \E o \in Objs : \A n \in Maps : pins[n] # o
    BY MapFacts
  <1>2. \E o \in Objs : o \notin Held(pins, inst)
    BY <1>1, HeldFacts, MapFacts
  <1> QED BY <1>2 DEF NewObj

LEMMA CleanupType ==
  ASSUME TypeInv, NEW p \in cleanupOwlsmDirectory
  PROVE  p \in PinT
  <1> PICK kept \in IF "cleanup_fails" \in env THEN SUBSET Maps ELSE {{}} :
             p = [m \in Maps |-> IF m \in kept THEN pins[m] ELSE NoMap]
    BY DEF cleanupOwlsmDirectory
  <1> QED BY DEF PinT, TypeInv

\* There are maps for all names that have none.
LEMMA CreatedFacts ==
  ASSUME MapsInv, NEW i \in Instances, inst[i].pc = "open", inst[i].fd = NoMap
  PROVE  LET missing == {m \in Maps : pins[m] = NoMap}
         IN  \E f \in [missing -> Objs \ Held(pins, inst)] :
               \A m, n \in missing : f[m] = f[n] => m = n
  <1> DEFINE missing == {m \in Maps : pins[m] = NoMap}
             Free == Objs \ Held(pins, inst)
  <1>1. \A o \in Objs : (\A m \in Maps : pins[m] # o) => o \in Free
    BY HeldFacts, MapFacts
  <1>2. \A m \in Maps : pins[m] \in Objs \cup {NoMap}
    BY DEF MapsInv, TypeInv, PinT
  <1> HIDE DEF Free
  <1> SUFFICES \E f \in [missing -> Free] : \A m, n \in missing : f[m] = f[n] => m = n
    BY DEF Free
  <1>3. CASE missing = {}
    <2> DEFINE f == [m \in missing |-> NoMap]
    <2>1. f \in [missing -> Free]
      BY <1>3
    <2> QED BY <1>3, <2>1
  <1>4. ASSUME NEW a \in Maps, missing = {a}
        PROVE  \E f \in [missing -> Free] : \A m, n \in missing : f[m] = f[n] => m = n
    <2>1. PICK o \in Objs : \A m \in Maps : pins[m] # o
      BY <1>4, MapFacts
    <2> DEFINE f == [m \in missing |-> o]
    <2>2. f \in [missing -> Free]
      BY <1>1, <2>1
    <2> QED BY <1>4, <2>2
  <1>5. ASSUME NEW a \in Maps, NEW b \in Maps, a # b, missing = {a, b}
        PROVE  \E f \in [missing -> Free] : \A m, n \in missing : f[m] = f[n] => m = n
    <2>1. PICK o \in Objs, o2 \in Objs : o # o2 /\ \A m \in Maps : pins[m] # o /\ pins[m] # o2
      BY <1>5, MapFacts
    <2> DEFINE f == [m \in missing |-> IF m = a THEN o ELSE o2]
    <2>2. f \in [missing -> Free]
      BY <1>1, <2>1
    <2>3. \A m, n \in missing : f[m] = f[n] => m = n
      BY <1>5, <2>1
    <2> QED BY <2>2, <2>3
  <1>6. CASE missing = Maps
    <2> DEFINE f == [m \in missing |-> IF m = MapOrder[1] THEN 1
                                       ELSE IF m = MapOrder[2] THEN 2 ELSE 3]
    <2>1. f \in [missing -> Free]
      BY <1>1, <1>6, MapFacts
    <2>2. \A m, n \in missing : f[m] = f[n] => m = n
      BY <1>6, MapFacts
    <2> QED BY <2>1, <2>2
  <1>7. \/ missing = {} \/ missing = Maps
        \/ \E a \in Maps : missing = {a}
        \/ \E a, b \in Maps : a # b /\ missing = {a, b}
    <2> DEFINE x == MapOrder[1]
               y == MapOrder[2]
               z == MapOrder[3]
    <2>1. Maps = {x, y, z} /\ x # y /\ x # z /\ y # z
      BY MapFacts
    <2> HIDE DEF x, y, z
    <2>2. missing \subseteq {x, y, z}
      BY <2>1
    <2> HIDE DEF missing
    <2>3. \/ missing = {} \/ missing = {x} \/ missing = {y} \/ missing = {z}
          \/ missing = {x, y} \/ missing = {x, z} \/ missing = {y, z}
          \/ missing = {x, y, z}
      BY <2>2
    <2> QED BY <2>1, <2>3
  <1> QED BY <1>3, <1>4, <1>5, <1>6, <1>7

LEMMA InitMaps == Init => MapsInv
  <1> SUFFICES ASSUME Init PROVE MapsInv
    OBVIOUS
  <1>1. Unpinned \in PinT /\ EmptyMap \in ObjT
    BY DEF Unpinned, PinT, EmptyMap, ObjT
  <1>2. NotStarted \in InstT
    BY <1>1 DEF NotStarted, InstT, Configs
  <1>3. TypeInv
    BY <1>1, <1>2 DEF Init, TypeInv
  <1>4. \A i \in Instances : inst[i] = NotStarted
    BY DEF Init
  <1>5. OneAtATime
    BY <1>4 DEF OneAtATime, Active, NotStarted
  <1>6. ASSUME NEW i \in Instances PROVE ProgressOK(i)
    <2>1. /\ inst[i].pc = "off" /\ inst[i].fd = NoMap /\ inst[i].next = 1
          /\ inst[i].maps = Unpinned
      BY <1>4 DEF NotStarted
    <2> QED BY <2>1 DEF ProgressOK
  <1> QED BY <1>3, <1>5, <1>6 DEF MapsInv

\* Every action keeps the invariant while instances do not overlap.
LEMMA NextMaps ==
  ASSUME "overlap" \notin env, MapsInv, [Next]_vars
  PROVE  MapsInv'
  <1>t. TypeInv /\ OneAtATime /\ \A i \in Instances : ProgressOK(i) /\ inst[i] \in InstT
    BY DEF MapsInv, TypeInv
  <1>u. Unpinned \in PinT /\ NoMap \notin Objs
    BY MapFacts DEF Unpinned, PinT
  \* A step of the one active instance concerns no other.
  <1>o. ASSUME NEW i \in Instances, Active(i), inst'[i].pc # "off",
               \A j \in Instances : j # i => inst'[j] = inst[j]
        PROVE  OneAtATime' /\ \A j \in Instances : j # i => ProgressOK(j)'
    <2>1. OneAtATime'
      BY <1>o, <1>t DEF OneAtATime, Active
    <2>2. ASSUME NEW j \in Instances, j # i PROVE ProgressOK(j)'
      <3>1. ~Active(j) /\ inst'[j] = inst[j] /\ ProgressOK(j)
        BY <1>o, <1>t, <2>2 DEF OneAtATime
      <3> QED BY <3>1 DEF ProgressOK, Active
    <2> QED BY <2>1, <2>2
  <1>i. ASSUME NEW i \in Instances, NEW r \in InstT, Active(i), r.pc # "off",
               inst' = [inst EXCEPT ![i] = r], pins' \in PinT, objs' \in [Objs -> ObjT],
               ProgressOK(i)'
        PROVE  MapsInv'
    <2>1. TypeInv'
      BY <1>i, <1>t DEF TypeInv
    <2>2. inst'[i] = r /\ \A j \in Instances : j # i => inst'[j] = inst[j]
      BY <1>i, <1>t DEF TypeInv
    <2>3. OneAtATime' /\ \A j \in Instances : j # i => ProgressOK(j)'
      BY <1>i, <1>o, <2>2
    <2> QED BY <1>i, <2>1, <2>3 DEF MapsInv
  \* The end of an instance.
  <1>e. ASSUME NEW i \in Instances, Active(i), NEW pc \in {"exited", "failed", "dead"},
               Ends(i, pc), pins' \in PinT, objs' \in [Objs -> ObjT]
        PROVE  MapsInv'
    <2> DEFINE r == [NotStarted EXCEPT !.pc = pc]
    <2>1. r \in InstT /\ r.pc = pc /\ r.fd = NoMap /\ r.maps = Unpinned
      BY <1>u DEF NotStarted, InstT, Configs
    <2>2. inst' = [inst EXCEPT ![i] = r]
      BY <1>e DEF Ends
    <2> HIDE DEF r
    <2>3. inst'[i] = r
      BY <1>t, <2>2 DEF TypeInv
    <2>4. ProgressOK(i)'
      BY <2>1, <2>3 DEF ProgressOK
    <2> QED BY <1>e, <1>i, <2>1, <2>2, <2>4
  <1>f. ASSUME NEW i \in Instances, Active(i), Throw(i)
        PROVE  MapsInv'
    <2>1. Ends(i, "failed") /\ pins' \in PinT /\ objs' \in [Objs -> ObjT]
      BY <1>f, <1>t, KeptFacts DEF Throw, TypeInv
    <2> QED BY <1>e, <1>f, <2>1
  <1>1. ASSUME NEW i \in Instances, Start(i)
        PROVE  MapsInv'
    <2>1. PICK c \in Configs : inst' = [inst EXCEPT ![i].pc = "setup", ![i].config = c]
      BY <1>1 DEF Start
    <2> DEFINE r == [inst[i] EXCEPT !.pc = "setup", !.config = c]
    <2>2. inst' = [inst EXCEPT ![i] = r] /\ r \in InstT
      BY <1>t, <2>1 DEF TypeInv, InstT
    <2>3. /\ r.pc = "setup" /\ r.fd = inst[i].fd /\ r.next = inst[i].next
          /\ r.maps = inst[i].maps /\ inst[i].pc = "off"
      BY <1>1, <1>t DEF InstT, Start
    <2> HIDE DEF r
    <2>4. inst'[i] = r /\ \A j \in Instances : j # i => inst'[j] = inst[j]
      BY <1>t, <2>2 DEF TypeInv
    <2>5. \A j \in Instances : j # i => ~Active(j) /\ (j < i => inst[j].pc # "off")
                                        /\ (i < j => inst[j].pc = "off")
      <3> SUFFICES ASSUME NEW j \in Instances, j # i
                   PROVE  /\ ~Active(j) /\ (j < i => inst[j].pc # "off")
                          /\ (i < j => inst[j].pc = "off")
        OBVIOUS
      <3>1. j < i \/ i < j
        BY InstanceAssumption
      <3>2. j < i => inst[j].pc # "off" /\ Gone(j)
        BY <1>1 DEF Start
      <3>3. i < j => inst[j].pc = "off"
        BY <1>t, <2>3 DEF OneAtATime
      <3>4. j < i => ~(i < j)
        BY InstanceAssumption
      <3> QED BY <3>1, <3>2, <3>3, <3>4 DEF Gone, Active
    <2>6. OneAtATime'
      <3>1. \A a, b \in Instances : a < b => ~(b < a) /\ a # b
        BY InstanceAssumption
      <3> QED BY <1>t, <2>3, <2>4, <2>5, <3>1 DEF OneAtATime, Active
    <2>7. TypeInv'
      BY <1>1, <1>t, <2>2 DEF TypeInv, Start
    <2>8. ProgressOK(i)'
      BY <1>t, <2>3, <2>4 DEF ProgressOK
    <2>9. ASSUME NEW j \in Instances, j # i PROVE ProgressOK(j)'
      <3>1. ~Active(j) /\ inst'[j] = inst[j] /\ ProgressOK(j)
        BY <1>t, <2>4, <2>5, <2>9
      <3> QED BY <3>1 DEF ProgressOK, Active
    <2> QED BY <2>6, <2>7, <2>8, <2>9 DEF MapsInv
  <1>2. ASSUME NEW i \in Instances, start(i)
        PROVE  MapsInv'
    <2> DEFINE r == [inst[i] EXCEPT !.pc = "open"]
    <2>1. inst' = [inst EXCEPT ![i] = r] /\ r \in InstT
      BY <1>2, <1>t DEF start, TypeInv, InstT
    <2>2. /\ r.pc = "open" /\ r.fd = inst[i].fd /\ r.next = inst[i].next
          /\ r.maps = inst[i].maps /\ inst[i].pc = "setup" /\ Active(i)
      BY <1>2, <1>t DEF InstT, start, Active
    <2>3. pins' \in PinT /\ objs' \in [Objs -> ObjT]
      BY <1>2, <1>t, CleanupType, KeptFacts DEF start, TypeInv
    <2> HIDE DEF r
    <2>4. inst'[i] = r
      BY <1>t, <2>1 DEF TypeInv
    <2>5. r.fd = NoMap /\ r.next = 1 /\ r.maps = Unpinned
      BY <1>t, <2>2 DEF ProgressOK
    <2>6. ProgressOK(i)'
      BY <2>2, <2>4, <2>5 DEF ProgressOK, FillingOK
    <2> QED BY <1>i, <2>1, <2>2, <2>3, <2>6
  <1>3. ASSUME NEW i \in Instances, Skip(i)
        PROVE  MapsInv'
    <2> DEFINE r == [inst[i] EXCEPT !.next = @ + 1]
    <2>1. /\ inst[i].pc = "open" /\ inst[i].next \in 1 .. 3 /\ inst[i].fd = NoMap
          /\ inst[i].config[MapOrder[inst[i].next]] = {}
          /\ inst' = [inst EXCEPT ![i].next = @ + 1] /\ UNCHANGED <<pins, objs>> /\ Active(i)
      BY <1>3, <1>t, MapFacts DEF Skip, Populating, Skipped, Name, InstT, Active
    <2>2. inst' = [inst EXCEPT ![i] = r] /\ r \in InstT
      BY <1>t, <2>1 DEF TypeInv, InstT
    <2>3. /\ r.pc = "open" /\ r.fd = NoMap /\ r.next = inst[i].next + 1
          /\ r.config = inst[i].config /\ r.maps = inst[i].maps
      BY <1>t, <2>1 DEF InstT
    <2> HIDE DEF r
    <2>4. inst'[i] = r
      BY <1>t, <2>2 DEF TypeInv
    <2>5. ASSUME NEW k \in 1 .. 3, k < r.next
          PROVE  Complete(i, MapOrder[k], pins[MapOrder[k]])'
      <3>1. k < inst[i].next => Complete(i, MapOrder[k], pins[MapOrder[k]])
        BY <1>t, <2>1 DEF ProgressOK
      <3>2. k < inst[i].next \/ k = inst[i].next
        BY <2>1, <2>3, <2>5
      <3> QED BY <2>1, <2>3, <2>4, <3>1, <3>2 DEF Complete
    <2>6. inst[i].maps = Unpinned
      BY <1>t, <2>1 DEF ProgressOK
    <2>7. ProgressOK(i)'
      BY <2>3, <2>4, <2>5, <2>6 DEF ProgressOK, FillingOK
    <2> QED BY <1>i, <1>t, <2>1, <2>2, <2>3, <2>7 DEF TypeInv
  <1>4. ASSUME NEW i \in Instances, create_pin_map(i)
        PROVE  MapsInv'
    <2> DEFINE n == inst[i].next
               m == MapOrder[n]
    <2>1. /\ inst[i].pc = "open" /\ n \in 1 .. 3 /\ inst[i].fd = NoMap /\ Active(i)
          /\ m \in Maps /\ Name(i) = m
      BY <1>4, <1>t, MapFacts DEF create_pin_map, Populating, Name, InstT, Active
    <2>2. CASE Throw(i)
      BY <1>f, <2>1, <2>2
    <2>3. ASSUME NEW o \in Objs, pins' = [pins EXCEPT ![m] = o],
                 Filling(i, o, inst[i].config[m]), objs' = objs
          PROVE  MapsInv'
      <3> DEFINE r == [inst[i] EXCEPT !.fd = o, !.left = inst[i].config[m]]
      <3>1. inst[i].config[m] \subseteq Ids
        BY <1>t, <2>1 DEF InstT, Configs
      <3>2. inst' = [inst EXCEPT ![i] = r] /\ r \in InstT
        BY <1>t, <2>3, <3>1 DEF TypeInv, InstT, Filling
      <3>3. /\ r.pc = "open" /\ r.fd = o /\ r.next = n /\ r.left = inst[i].config[m]
            /\ r.config = inst[i].config /\ r.maps = inst[i].maps
        BY <1>t, <2>1 DEF InstT
      <3> HIDE DEF r
      <3>4. inst'[i] = r /\ pins' \in PinT /\ pins'[m] = o
            /\ \A x \in Maps : x # m => pins'[x] = pins[x]
        BY <1>t, <2>1, <2>3, <3>2 DEF TypeInv, PinT
      <3>5. ASSUME NEW k \in 1 .. 3, k < r.next
            PROVE  Complete(i, MapOrder[k], pins[MapOrder[k]])'
        <4>1. Complete(i, MapOrder[k], pins[MapOrder[k]])
          BY <1>t, <2>1, <3>3, <3>5 DEF ProgressOK
        <4>2. MapOrder[k] # m /\ MapOrder[k] \in Maps
          BY <2>1, <3>3, <3>5, MapFacts
        <4>3. pins'[MapOrder[k]] = pins[MapOrder[k]]
          BY <3>4, <4>2
        <4> QED BY <2>3, <3>3, <3>4, <4>1, <4>3 DEF Complete
      <3>6. inst[i].maps = Unpinned
        BY <1>t, <2>1 DEF ProgressOK
      <3>7. FillingOK(i)'
        BY <2>1, <3>3, <3>4 DEF FillingOK, Name
      <3>8. ProgressOK(i)'
        BY <3>3, <3>4, <3>5, <3>6, <3>7 DEF ProgressOK
      <3> QED BY <1>i, <1>t, <2>1, <2>3, <3>2, <3>3, <3>4, <3>8 DEF TypeInv
    <2>4. CASE pins[m] # NoMap /\ Filling(i, pins[m], inst[i].config[m])
               /\ UNCHANGED <<pins, objs>>
      <3>1. pins[m] \in Objs /\ pins = [pins EXCEPT ![m] = pins[m]]
        BY <1>t, <2>1, <2>4 DEF TypeInv, PinT
      <3> QED BY <2>3, <2>4, <3>1
    <2>5. CASE pins[m] = NoMap /\ Created(i)
      <3>1. NewObj \in Objs
        BY <2>1, <2>5, NewObjFacts
      <3>2. pins' = [pins EXCEPT ![m] = NewObj] /\ Filling(i, NewObj, inst[i].config[m])
            /\ objs' = objs
        BY <2>1, <2>5 DEF Created
      <3> QED BY <2>3, <3>1, <3>2
    <2> QED BY <1>4, <2>1, <2>2, <2>4, <2>5 DEF create_pin_map
  <1>5. ASSUME NEW i \in Instances, update_elem(i)
        PROVE  MapsInv'
    <2> DEFINE n == inst[i].next
               m == MapOrder[n]
               o == inst[i].fd
    <2>1. /\ inst[i].pc = "open" /\ n \in 1 .. 3 /\ o # NoMap /\ o \in Objs /\ Active(i)
          /\ m \in Maps /\ Name(i) = m
      BY <1>5, <1>t, MapFacts DEF update_elem, Populating, Name, InstT, Active
    <2>2. CASE Throw(i)
      BY <1>f, <2>1, <2>2
    <2>3. ASSUME NEW k \in inst[i].left, ~objs[o].frozen, pins' = pins,
                 objs' = [objs EXCEPT ![o].entries[k] = i],
                 inst' = [inst EXCEPT ![i].left = @ \ {k}]
          PROVE  MapsInv'
      <3> DEFINE r == [inst[i] EXCEPT !.left = @ \ {k}]
      <3>1. k \in Ids /\ i \in Nat
        BY <1>t, <2>3, InstanceAssumption DEF InstT
      <3>2. inst' = [inst EXCEPT ![i] = r] /\ r \in InstT
        BY <1>t, <2>3 DEF TypeInv, InstT
      <3>3. /\ r.pc = "open" /\ r.fd = o /\ r.next = n /\ r.left = inst[i].left \ {k}
            /\ r.config = inst[i].config /\ r.maps = inst[i].maps
        BY <1>t, <2>1 DEF InstT
      <3> HIDE DEF r
      <3>4. inst'[i] = r
        BY <1>t, <3>2 DEF TypeInv
      <3>5. /\ objs' \in [Objs -> ObjT]
            /\ \A x \in Objs : x # o => objs'[x] = objs[x]
            /\ objs'[o].entries[k] = i
            /\ \A l \in Ids : l # k => objs'[o].entries[l] = objs[o].entries[l]
        BY <1>t, <2>1, <2>3, <3>1 DEF TypeInv, ObjT
      <3>6. ASSUME NEW x \in 1 .. 3, x < r.next
            PROVE  Complete(i, MapOrder[x], pins[MapOrder[x]])'
        <4>1. Complete(i, MapOrder[x], pins[MapOrder[x]])
          BY <1>t, <2>1, <3>3, <3>6 DEF ProgressOK
        <4> QED BY <2>3, <3>3, <3>4, <3>5, <4>1 DEF Complete
      <3>7. /\ inst[i].maps = Unpinned /\ pins[m] = o /\ inst[i].config[m] \subseteq Ids
            /\ \A l \in inst[i].config[m] : l \notin inst[i].left => objs[o].entries[l] = i
        BY <1>t, <2>1 DEF ProgressOK, FillingOK, InstT, Configs
      <3>8. FillingOK(i)'
        <4>1. \A l \in r.config[m] : l \notin r.left => objs'[o].entries[l] = i
          BY <3>3, <3>5, <3>7
        <4> QED BY <2>1, <2>3, <3>3, <3>4, <3>7, <4>1 DEF FillingOK, Name
      <3>9. ProgressOK(i)'
        BY <3>3, <3>4, <3>6, <3>7, <3>8 DEF ProgressOK
      <3> QED BY <1>i, <1>t, <2>1, <2>3, <3>2, <3>3, <3>5, <3>9 DEF TypeInv
    <2> QED BY <1>5, <2>2, <2>3 DEF update_elem
  <1>6. ASSUME NEW i \in Instances, freeze_map(i)
        PROVE  MapsInv'
    <2> DEFINE n == inst[i].next
               m == MapOrder[n]
               o == inst[i].fd
    <2>1. /\ inst[i].pc = "open" /\ n \in 1 .. 3 /\ o # NoMap /\ o \in Objs /\ Active(i)
          /\ m \in Maps /\ Name(i) = m /\ inst[i].left = {}
      BY <1>6, <1>t, MapFacts DEF freeze_map, Populating, Name, InstT, Active
    <2>2. CASE Throw(i)
      BY <1>f, <2>1, <2>2
    <2>3. CASE /\ ~objs[o].frozen /\ pins' = pins
               /\ objs' = [objs EXCEPT ![o].frozen = TRUE]
               /\ inst' = [inst EXCEPT ![i].fd = NoMap, ![i].next = @ + 1]
      <3> DEFINE r == [inst[i] EXCEPT !.fd = NoMap, !.next = @ + 1]
      <3>1. inst' = [inst EXCEPT ![i] = r] /\ r \in InstT
        BY <1>t, <2>1, <2>3 DEF TypeInv, InstT
      <3>2. /\ r.pc = "open" /\ r.fd = NoMap /\ r.next = n + 1
            /\ r.config = inst[i].config /\ r.maps = inst[i].maps
        BY <1>t, <2>1 DEF InstT
      <3> HIDE DEF r
      <3>3. inst'[i] = r
        BY <1>t, <3>1 DEF TypeInv
      <3>4. /\ objs' \in [Objs -> ObjT]
            /\ \A x \in Objs : x # o => objs'[x] = objs[x]
            /\ objs'[o].entries = objs[o].entries /\ objs'[o].frozen
        BY <1>t, <2>1, <2>3 DEF TypeInv, ObjT
      <3>5. /\ inst[i].maps = Unpinned /\ pins[m] = o
            /\ \A l \in inst[i].config[m] : objs[o].entries[l] = i
        BY <1>t, <2>1 DEF ProgressOK, FillingOK
      <3>6. ASSUME NEW x \in 1 .. 3, x < r.next
            PROVE  Complete(i, MapOrder[x], pins[MapOrder[x]])'
        <4>1. CASE x < n
          <5>1. Complete(i, MapOrder[x], pins[MapOrder[x]])
            BY <1>t, <2>1, <4>1 DEF ProgressOK
          <5> QED BY <2>3, <3>2, <3>3, <3>4, <5>1 DEF Complete
        <4>2. CASE x = n
          BY <2>1, <2>3, <3>2, <3>3, <3>4, <3>5, <4>2 DEF Complete
        <4> QED BY <2>1, <3>2, <3>6, <4>1, <4>2
      <3>7. ProgressOK(i)'
        BY <3>2, <3>3, <3>5, <3>6 DEF ProgressOK, FillingOK
      <3> QED BY <1>i, <1>t, <2>1, <2>3, <3>1, <3>2, <3>4, <3>7 DEF TypeInv
    <2> QED BY <1>6, <2>2, <2>3 DEF freeze_map
  <1>7. ASSUME NEW i \in Instances, bpfLoad(i)
        PROVE  MapsInv'
    <2> DEFINE missing == {m \in Maps : pins[m] = NoMap}
               F == [missing -> Objs \ Held(pins, inst)]
               created == CHOOSE f \in F : \A m, n \in missing : f[m] = f[n] => m = n
               bound == [m \in Maps |-> IF m \in missing THEN created[m] ELSE pins[m]]
               r == [inst[i] EXCEPT !.pc = "loaded", !.maps = bound]
    <2>1. inst[i].pc = "open" /\ inst[i].next = 4 /\ Active(i)
      BY <1>7, <1>t, MapFacts DEF bpfLoad, InstT, Active
    <2>2. CASE Throw(i)
      BY <1>f, <2>1, <2>2
    <2>3. CASE /\ pins' = bound /\ objs' = objs
               /\ inst' = [inst EXCEPT ![i].pc = "loaded", ![i].maps = bound]
      <3>1. inst[i].fd = NoMap
        BY <1>t, <2>1 DEF ProgressOK, FillingOK
      <3>2. created \in F
        <4>1. \E f \in F : \A m, n \in missing : f[m] = f[n] => m = n
          BY <2>1, <3>1, CreatedFacts
        <4> HIDE DEF F, missing
        <4> QED BY <4>1
      <3> HIDE DEF created
      <3>3. bound \in PinT /\ \A m \in Maps : pins[m] # NoMap => bound[m] = pins[m]
        BY <1>t, <3>2 DEF TypeInv, PinT
      <3> HIDE DEF bound
      <3>4. inst' = [inst EXCEPT ![i] = r] /\ r \in InstT
        BY <1>t, <2>3, <3>3 DEF TypeInv, InstT
      <3>5. /\ r.pc = "loaded" /\ r.fd = NoMap /\ r.config = inst[i].config
            /\ r.maps = bound
        BY <1>t, <2>1, <3>1 DEF InstT
      <3> HIDE DEF r
      <3>6. inst'[i] = r
        BY <1>t, <3>4 DEF TypeInv
      <3>7. ASSUME NEW m \in Maps PROVE Complete(i, m, inst[i].maps[m])'
        <4>1. Complete(i, m, pins[m])
          <5>1. PICK k \in 1 .. 3 : m = MapOrder[k]
            BY MapFacts
          <5> QED BY <1>t, <2>1, <5>1 DEF ProgressOK
        <4>2. inst[i].config[m] # {} => bound[m] = pins[m]
          BY <1>u, <3>3, <4>1 DEF Complete
        <4> QED BY <2>3, <3>5, <3>6, <4>1, <4>2 DEF Complete
      <3>8. ProgressOK(i)'
        BY <3>5, <3>6, <3>7 DEF ProgressOK
      <3> QED BY <1>i, <1>t, <2>1, <2>3, <3>3, <3>4, <3>5, <3>8 DEF TypeInv
    <2> QED BY <1>7, <2>2, <2>3 DEF bpfLoad
  \* Steps to the next state of a loaded instance.
  <1>l. ASSUME NEW i \in Instances, NEW pc \in {"attached", "detached"},
               inst[i].pc \in {"loaded", "attached"}, inst' = [inst EXCEPT ![i].pc = pc],
               UNCHANGED <<pins, objs>>
        PROVE  MapsInv'
    <2> DEFINE r == [inst[i] EXCEPT !.pc = pc]
    <2>1. inst' = [inst EXCEPT ![i] = r] /\ r \in InstT
      BY <1>l, <1>t DEF TypeInv, InstT
    <2>2. /\ r.pc = pc /\ r.fd = inst[i].fd /\ r.config = inst[i].config
          /\ r.maps = inst[i].maps /\ Active(i)
      BY <1>l, <1>t DEF InstT, Active
    <2> HIDE DEF r
    <2>3. inst'[i] = r
      BY <1>t, <2>1 DEF TypeInv
    <2>4. inst[i].fd = NoMap /\ \A m \in Maps : Complete(i, m, inst[i].maps[m])
      BY <1>l, <1>t DEF ProgressOK
    <2>5. \A m \in Maps : Complete(i, m, inst[i].maps[m])'
      BY <1>l, <2>2, <2>3, <2>4 DEF Complete
    <2>6. ProgressOK(i)'
      BY <1>l, <2>2, <2>3, <2>4, <2>5 DEF ProgressOK
    <2> QED BY <1>i, <1>l, <1>t, <2>1, <2>2, <2>6 DEF TypeInv
  <1>8. ASSUME NEW i \in Instances, bpfAttach(i)
        PROVE  MapsInv'
    <2>1. Active(i)
      BY <1>8 DEF bpfAttach, Active
    <2> QED BY <1>8, <1>f, <1>l, <2>1 DEF bpfAttach
  <1>9. ASSUME NEW i \in Instances, bpfDetach(i)
        PROVE  MapsInv'
    BY <1>9, <1>l DEF bpfDetach
  <1>10. ASSUME NEW i \in Instances, bpfDestroy(i)
         PROVE  MapsInv'
    <2>1. Active(i) /\ pins' \in PinT /\ objs' \in [Objs -> ObjT] /\ Ends(i, "exited")
      BY <1>10, <1>t, CleanupType, KeptFacts DEF bpfDestroy, Active
    <2> QED BY <1>e, <2>1
  <1>11. ASSUME NEW i \in Instances, Die(i)
         PROVE  MapsInv'
    <2>1. Active(i)
      BY <1>11, <1>t DEF Die, Gone, Active, InstT
    <2>2. pins' \in PinT /\ objs' \in [Objs -> ObjT] /\ Ends(i, "dead")
      BY <1>11, <1>t, KeptFacts DEF Die, TypeInv
    <2> QED BY <1>e, <2>1, <2>2
  <1>12. CASE UNCHANGED vars
    BY <1>12 DEF vars, MapsInv, TypeInv, OneAtATime, Active, ProgressOK, Complete, FillingOK, Name
  <1> QED BY <1>1, <1>2, <1>3, <1>4, <1>5, <1>6, <1>7, <1>8, <1>9, <1>10, <1>11, <1>12
          DEF Next, Setup

LEMMA EnvKept == [Next]_vars => env' = env
  BY DEF Next, Setup, Start, start, Skip, create_pin_map, update_elem, freeze_map, bpfLoad,
         bpfAttach, bpfDetach, bpfDestroy, Die, Throw, vars

\* If owLSM is started when no instance of it runs, then while it is attached
\* the maps that its programs read are frozen and hold every entry of its own
\* configuration, wherever the instances before it were killed, whatever the
\* cleaning of the directory has left, and whatever cannot be pinned or loaded.
THEOREM LoadedCorrect == Spec => []("overlap" \notin env => LoadedIsCurrent)
  <1>1. ASSUME "overlap" \notin env => MapsInv
        PROVE  "overlap" \notin env => LoadedIsCurrent
    BY <1>1 DEF MapsInv, ProgressOK, Complete, LoadedIsCurrent
  <1>2. ASSUME "overlap" \notin env => MapsInv, [Next]_vars
        PROVE  ("overlap" \notin env => MapsInv)'
    BY <1>2, EnvKept, NextMaps
  <1> QED BY <1>1, <1>2, InitMaps, PTL DEF Spec
=============================================================================
