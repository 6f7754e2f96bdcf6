-------------------------- MODULE DeviceModelProofs --------------------------
(***************************************************************************)
(* What the device model promises for any number of objects and cells, any *)
(* levels and any contents of a class.  A cell that is taken for a new     *)
(* object is fresh for everybody, because what somebody points to is not   *)
(* gone, and what was read is forgotten when its pointers are handed on:   *)
(* so the types, who shares with whom, and what the objects say are proved *)
(* together.                                                               *)
(***************************************************************************)
EXTENDS DeviceModel, TLAPS

DeviceRecords(D) == [uuid : Uuids, deviceType : {"s", "d"}, class : D]
BuilderRecords(D) == [uuid : Uuids, class : D \cup {None}]
RoomRecords(L, S) == [location : L \cup {None}, set : S]

(* The conjuncts of TypeOK, one idea each. *)
DeviceType ==
  /\ deviceBuilder \in BuilderRecords(DOMAIN class)
  /\ device \in [DOMAIN device -> DeviceRecords(DOMAIN class)]
  /\ class \in [DOMAIN class -> Classes]
  /\ DOMAIN class \subseteq Cells

MapType ==
  /\ map \in [DOMAIN map -> DOMAIN device]
  /\ renamed \subseteq DOMAIN map /\ DOMAIN map \subseteq Uuids

RoomType ==
  /\ roomBuilder \in RoomRecords(DOMAIN location, DOMAIN set)
  /\ room \in [DOMAIN room -> RoomRecords(DOMAIN location, DOMAIN set)]
  /\ location \in [DOMAIN location -> Int]
  /\ set \in [DOMAIN set -> SUBSET Links]
  /\ DOMAIN location \cup DOMAIN set \subseteq Cells

ObjectType ==
  /\ DOMAIN read \subseteq DOMAIN device \cup DOMAIN room
  /\ DOMAIN device \cap DOMAIN room = {}
  /\ DOMAIN device \cup DOMAIN room \subseteq Objects

(* What was read says what the text said. *)
DevicesAsRead ==
  \A o \in DOMAIN read \cap DOMAIN device : DeviceContent(device[o]) = read[o]

RoomsAsRead ==
  \A o \in DOMAIN read \cap DOMAIN room : RoomContent(room[o]) = read[o]

DeviceInv ==
  /\ DeviceType /\ MapType /\ ObjectType
  /\ ReadDevicesAlone /\ DevicesAsRead /\ StoredUnderUuid

RoomInv == RoomType /\ ObjectType /\ ReadRoomsAlone /\ RoomsAsRead

(* The two halves make up the inductive invariant. *)
LEMMA InvParts == Inv <=> DeviceInv /\ RoomInv
BY DEF Inv, TypeOK, DeviceInv, RoomInv, DeviceType, MapType, RoomType, ObjectType,
   DevicesAsRead, RoomsAsRead, ReadStaysAsRead, DeviceRecords, BuilderRecords,
   RoomRecords

-----------------------------------------------------------------------------
(* Put, Keep, Passed and Forget. *)

(* Put changes the value of one argument. *)
LEMMA PutMap ==
  ASSUME NEW f, NEW x, NEW v
  PROVE  /\ DOMAIN Put(f, x, v) = DOMAIN f \cup {x}
         /\ \A y \in DOMAIN f \cup {x} : Put(f, x, v)[y] = IF y = x THEN v ELSE f[y]
BY DEF Put

(* Put keeps the type of a function. *)
LEMMA PutTyped ==
  ASSUME NEW S, NEW T, NEW f \in [S -> T], NEW x, NEW v \in T
  PROVE  Put(f, x, v) \in [S \cup {x} -> T]
BY DEF Put

(* Keep forgets some arguments and changes none. *)
LEMMA KeepMap ==
  ASSUME NEW f, NEW S
  PROVE  /\ DOMAIN Keep(f, S) = S \cap DOMAIN f
         /\ \A y \in S \cap DOMAIN f : Keep(f, S)[y] = f[y]
BY DEF Keep, Restrict

(* Keep keeps the type of a function. *)
LEMMA KeepTyped ==
  ASSUME NEW D, NEW T, NEW f \in [D -> T], NEW S
  PROVE  Keep(f, S) \in [S \cap D -> T]
BY DEF Keep, Restrict

(* Passing a pointer writes to no object that was there. *)
LEMMA PassedMap ==
  ASSUME NEW f, NEW x, NEW v
  PROVE  /\ DOMAIN f \subseteq DOMAIN Passed(f, x, v)
         /\ \A y \in DOMAIN f : Passed(f, x, v)[y] = f[y]
         /\ x # None => x \in DOMAIN Passed(f, x, v)
         /\ DOMAIN Passed(f, x, v) \subseteq DOMAIN f \cup ({x} \ {None})
BY DEF Passed, Put

(* Passing a pointer to a new object keeps the type. *)
LEMMA PassedTyped ==
  ASSUME NEW T, NEW f, f \in [DOMAIN f -> T], NEW x, NEW v \in T
  PROVE  Passed(f, x, v) \in [DOMAIN Passed(f, x, v) -> T]
<1>1. CASE x \in DOMAIN f \cup {None}
  BY <1>1 DEF Passed
<1>2. CASE x \notin DOMAIN f \cup {None}
  <2>1. Passed(f, x, v) = Put(f, x, v)
    BY <1>2 DEF Passed
  <2>2. Put(f, x, v) \in [DOMAIN f \cup {x} -> T]
    BY PutTyped
  <2>3. DOMAIN Put(f, x, v) = DOMAIN f \cup {x}
    BY PutMap
  <2> QED
    BY <2>1, <2>2, <2>3
<1> QED
  BY <1>1, <1>2

(* What is still read after Forget was read before, from the same text. *)
LEMMA Forgotten ==
  ASSUME NEW S, Forget(S)
  PROVE  \A o \in DOMAIN read' : o \in DOMAIN read /\ o \notin S /\ read'[o] = read[o]
BY KeepMap DEF Forget

-----------------------------------------------------------------------------
(* JSON. *)

(* parse of what toJson wrote is the device with its class in place. *)
LEMMA JsonBack ==
  ASSUME DeviceType, NEW o \in DOMAIN device
  PROVE  ParseDevice(DeviceJson(o)) = [device[o] EXCEPT !.class = class[device[o].class]]
<1>1. device[o] \in [uuid : Uuids, deviceType : {"s", "d"}, class : DOMAIN class]
  BY DEF DeviceType, DeviceRecords
<1>2. class[device[o].class] \in Classes
  BY <1>1 DEF DeviceType
<1>3. ASSUME NEW c \in Classes PROVE ParseClass(ClassJson(c)) = c
  BY DEF ParseClass, ClassJson, BoolJson, Classes
<1>4. ParseClass(ClassJson(class[device[o].class])) = class[device[o].class]
  BY <1>2, <1>3
<1>5. ParseDevice(DeviceJson(o)) =
        [uuid |-> device[o].uuid, deviceType |-> device[o].deviceType,
         class |-> class[device[o].class]]
  BY <1>1, <1>4 DEF ParseDevice, DeviceJson
<1> QED
  BY <1>1, <1>5

-----------------------------------------------------------------------------
(* Steps of devices. *)

(* The classes of devices and of the builder are cells that are there. *)
LEMMA DeviceFields ==
  ASSUME DeviceType
  PROVE  /\ \A o \in DOMAIN device : /\ device[o].class \in DOMAIN class
                                     /\ device[o].uuid \in Uuids
                                     /\ device[o] \in DeviceRecords(DOMAIN class)
         /\ deviceBuilder.class \in DOMAIN class \cup {None}
         /\ deviceBuilder.uuid \in Uuids
         /\ \A c \in DOMAIN class : c # None
BY DeviceModelAssumption DEF DeviceType, DeviceRecords, BuilderRecords

(* What a larger set of cells allows. *)
LEMMA MoreCells ==
  ASSUME NEW D, NEW E, D \subseteq E
  PROVE  /\ DeviceRecords(D) \subseteq DeviceRecords(E)
         /\ BuilderRecords(D) \subseteq BuilderRecords(E)
BY DEF DeviceRecords, BuilderRecords

(* The pointer that is passed for a class. *)
LEMMA PassedClass ==
  ASSUME DeviceType, NEW c \in Cells \cup {None}, NEW v \in Classes,
         NEW f, f = Passed(class, c, v)
  PROVE  /\ f \in [DOMAIN f -> Classes]
         /\ DOMAIN class \subseteq DOMAIN f /\ DOMAIN f \subseteq Cells
         /\ \A k \in DOMAIN class : f[k] = class[k]
         /\ c \in DOMAIN f \cup {None}
<1>1. f \in [DOMAIN f -> Classes]
  BY PassedTyped DEF DeviceType
<1>2. DOMAIN f \subseteq DOMAIN class \cup ({c} \ {None})
  BY PassedMap
<1>3. DOMAIN f \subseteq Cells
  BY <1>2 DEF DeviceType
<1> QED
  BY <1>1, <1>3, PassedMap

(* Whoever is still read after a step is as it was, alone, and nobody wrote to
   its class; the rest is of the right type; then all is as it should be.  The
   function f is class', with those that nobody holds any more. *)
LEMMA DevicesKept ==
  ASSUME DeviceInv,
         NEW f, f \in [DOMAIN f -> Classes], DOMAIN f \subseteq Cells,
         class' = f \/ class' = Keep(f, HeldClasses'),
         device' \in [DOMAIN device' -> DeviceRecords(DOMAIN f)],
         deviceBuilder' \in BuilderRecords(DOMAIN f),
         \A o \in DOMAIN read' \cap DOMAIN device' :
           /\ o \in DOMAIN read \cap DOMAIN device
           /\ read'[o] = read[o]
           /\ device'[o] = device[o]
           /\ f[device[o].class] = class[device[o].class]
           /\ deviceBuilder'.class # device[o].class
           /\ \A p \in DOMAIN device' : device'[p].class = device[o].class => p = o
  PROVE  DeviceType' /\ ReadDevicesAlone' /\ DevicesAsRead'
<1>1. /\ \A k \in HeldClasses' \cap DOMAIN f : k \in DOMAIN class' /\ class'[k] = f[k]
      /\ class' \in [DOMAIN class' -> Classes]
      /\ DOMAIN class' \subseteq Cells
  <2>1. CASE class' = f
    BY <2>1
  <2>2. CASE class' = Keep(f, HeldClasses')
    <3>1. DOMAIN class' = HeldClasses' \cap DOMAIN f
      BY <2>2, KeepMap
    <3>2. class' \in [HeldClasses' \cap DOMAIN f -> Classes]
      BY <2>2, KeepTyped
    <3>3. \A k \in HeldClasses' \cap DOMAIN f : class'[k] = f[k]
      BY <2>2 DEF Keep, Restrict
    <3> QED
      BY <3>1, <3>2, <3>3
  <2> QED
    BY <2>1, <2>2
<1>2. /\ \A p \in DOMAIN device' :
           /\ device'[p].class \in HeldClasses' \cap DOMAIN f
           /\ device'[p] \in DeviceRecords(DOMAIN f)
      /\ deviceBuilder'.class \in (HeldClasses' \cap DOMAIN f) \cup {None}
  BY DEF HeldClasses, DeviceRecords, BuilderRecords
<1>3. DeviceType'
  <2>1. \A p \in DOMAIN device' : device'[p] \in DeviceRecords(DOMAIN class')
    BY <1>1, <1>2 DEF DeviceRecords
  <2>2. deviceBuilder' \in BuilderRecords(DOMAIN class')
    BY <1>1, <1>2 DEF BuilderRecords
  <2>3. device' \in [DOMAIN device' -> DeviceRecords(DOMAIN class')]
    BY <2>1
  <2> QED
    BY <1>1, <2>2, <2>3 DEF DeviceType
<1>4. ReadDevicesAlone'
  <2>1. ASSUME NEW o \in DOMAIN read' \cap DOMAIN device'
        PROVE  /\ device'[o].class # deviceBuilder'.class
               /\ \A p \in DOMAIN device' : device'[p].class = device'[o].class => p = o
    OBVIOUS
  <2> QED
    BY <2>1 DEF ReadDevicesAlone, ClassHolders
<1>5. ASSUME NEW o \in DOMAIN read' \cap DOMAIN device'
      PROVE  DeviceContent(device[o])' = read'[o]
  <2>1. /\ o \in DOMAIN read \cap DOMAIN device
        /\ device'[o] = device[o] /\ read'[o] = read[o]
        /\ class'[device[o].class] = class[device[o].class]
    BY <1>1, <1>2
  <2>2. DeviceContent(device[o]) = read[o]
    BY <2>1 DEF DeviceInv, DevicesAsRead
  <2> QED
    BY <2>1, <2>2 DEF DeviceContent
<1> QED
  BY <1>3, <1>4, <1>5 DEF DevicesAsRead

(* The builder's class is passed: whoever was read and has it is forgotten. *)
LEMMA BuilderSetDeviceClassInv ==
  ASSUME DeviceInv, NEW c \in Cells \cup {None}, NEW v \in Classes,
         BuilderSetDeviceClass(c, v)
  PROVE  DeviceInv'
<1> DEFINE f == Passed(class, c, v)
<1>0. DeviceType
  BY DEF DeviceInv
<1>1. /\ deviceBuilder' = [deviceBuilder EXCEPT !.class = c]
      /\ UNCHANGED <<device, map, renamed, room>>
      /\ class' = Keep(f, HeldClasses')
      /\ Forget(ClassHolders(c))
  BY DEF BuilderSetDeviceClass, roomVars
<1>2. /\ f \in [DOMAIN f -> Classes]
      /\ DOMAIN class \subseteq DOMAIN f /\ DOMAIN f \subseteq Cells
      /\ \A k \in DOMAIN class : f[k] = class[k]
      /\ c \in DOMAIN f \cup {None}
  BY <1>0, PassedClass
<1> HIDE DEF f
<1>3. device' \in [DOMAIN device' -> DeviceRecords(DOMAIN f)]
  BY <1>0, <1>1, <1>2, MoreCells DEF DeviceType
<1>4. deviceBuilder' \in BuilderRecords(DOMAIN f) /\ deviceBuilder'.class = c
  BY <1>0, <1>1, <1>2 DEF DeviceType, BuilderRecords
<1>5. \A o \in DOMAIN read' : o \in DOMAIN read /\ o \notin ClassHolders(c)
                              /\ read'[o] = read[o]
  BY <1>1, Forgotten
<1>6. \A o \in DOMAIN device : device[o].class \in DOMAIN class
  BY <1>0, DeviceFields
<1>7. ASSUME NEW o \in DOMAIN read' \cap DOMAIN device'
      PROVE  /\ o \in DOMAIN read \cap DOMAIN device
             /\ read'[o] = read[o]
             /\ device'[o] = device[o]
             /\ f[device[o].class] = class[device[o].class]
             /\ deviceBuilder'.class # device[o].class
             /\ \A p \in DOMAIN device' : device'[p].class = device[o].class => p = o
  BY <1>1, <1>2, <1>4, <1>5, <1>6 DEF ClassHolders, DeviceInv, ReadDevicesAlone
<1>8. DeviceType' /\ ReadDevicesAlone' /\ DevicesAsRead'
  BY <1>1, <1>2, <1>3, <1>4, <1>7, DevicesKept
<1>9. MapType' /\ ObjectType' /\ StoredUnderUuid'
  BY <1>1, <1>5 DEF DeviceInv, MapType, ObjectType, StoredUnderUuid
<1> QED
  BY <1>8, <1>9 DEF DeviceInv

(* A new object takes a place that was free. *)
LEMMA NewDeviceTyped ==
  ASSUME NEW D, DeviceType, DOMAIN class \subseteq D, NEW o, NEW r \in DeviceRecords(D),
         o \notin DOMAIN device, device' = Put(device, o, r)
  PROVE  /\ DOMAIN device' = DOMAIN device \cup {o}
         /\ device'[o] = r
         /\ \A p \in DOMAIN device : device'[p] = device[p]
         /\ device' \in [DOMAIN device' -> DeviceRecords(D)]
<1>1. /\ DOMAIN device' = DOMAIN device \cup {o}
      /\ \A p \in DOMAIN device \cup {o} : device'[p] = IF p = o THEN r ELSE device[p]
  BY DEF Put
<1>2. device \in [DOMAIN device -> DeviceRecords(D)]
  BY MoreCells DEF DeviceType
<1>3. device' \in [DOMAIN device \cup {o} -> DeviceRecords(D)]
  BY <1>2, PutTyped
<1> QED
  BY <1>1, <1>3

(* A device that a builder or a constructor makes has the class that is passed;
   a builder passes its own, which no device that was read has. *)
LEMMA MadeInv ==
  ASSUME DeviceInv, NEW o \in Free, NEW c \in Cells, NEW v \in Classes,
         NEW r \in DeviceRecords({c}),
         device' = Put(device, o, r),
         class' = Passed(class, c, v),
         UNCHANGED <<deviceBuilder, map, renamed, room>>,
         \A p \in DOMAIN read' : p \in DOMAIN read /\ read'[p] = read[p],
         \A p \in DOMAIN read' \cap DOMAIN device : device[p].class # c
  PROVE  DeviceInv'
<1> DEFINE f == Passed(class, c, v)
<1>0. DeviceType
  BY DEF DeviceInv
<1>2. /\ f \in [DOMAIN f -> Classes]
      /\ DOMAIN class \subseteq DOMAIN f /\ DOMAIN f \subseteq Cells
      /\ \A k \in DOMAIN class : f[k] = class[k]
      /\ c \in DOMAIN f \cup {None}
  BY <1>0, PassedClass
<1>3. class' = f
  OBVIOUS
<1> HIDE DEF f
<1>4. r \in DeviceRecords(DOMAIN f) /\ r.class = c
  BY <1>2, DeviceModelAssumption DEF DeviceRecords
<1>5. o \notin DOMAIN device /\ o \notin DOMAIN room /\ o \in Objects
  BY DEF Free
<1>6. /\ DOMAIN device' = DOMAIN device \cup {o}
      /\ device'[o] = r
      /\ \A p \in DOMAIN device : device'[p] = device[p]
      /\ device' \in [DOMAIN device' -> DeviceRecords(DOMAIN f)]
  BY <1>0, <1>2, <1>4, <1>5, NewDeviceTyped
<1>7. deviceBuilder' \in BuilderRecords(DOMAIN f)
  BY <1>0, <1>2, MoreCells DEF DeviceType
<1>8. \A p \in DOMAIN read' : p # o
  BY <1>5 DEF DeviceInv, ObjectType
<1>9. \A p \in DOMAIN device : device[p].class \in DOMAIN class
  BY <1>0, DeviceFields
<1>10. ASSUME NEW p \in DOMAIN read' \cap DOMAIN device'
       PROVE  /\ p \in DOMAIN read \cap DOMAIN device
              /\ read'[p] = read[p]
              /\ device'[p] = device[p]
              /\ f[device[p].class] = class[device[p].class]
              /\ deviceBuilder'.class # device[p].class
              /\ \A q \in DOMAIN device' : device'[q].class = device[p].class => q = p
  BY <1>2, <1>4, <1>6, <1>8, <1>9 DEF ClassHolders, DeviceInv, ReadDevicesAlone
<1>11. DeviceType' /\ ReadDevicesAlone' /\ DevicesAsRead'
  BY <1>2, <1>3, <1>6, <1>7, <1>10, DevicesKept
<1>12. MapType'
  BY <1>6 DEF DeviceInv, MapType
<1>13. ObjectType'
  BY <1>5, <1>6 DEF DeviceInv, ObjectType
<1>14. StoredUnderUuid'
  BY <1>6 DEF DeviceInv, MapType, StoredUnderUuid
<1> QED
  BY <1>11, <1>12, <1>13, <1>14 DEF DeviceInv

(* A builder passes its own class. *)
LEMMA BuildDeviceInv ==
  ASSUME DeviceInv, NEW o \in Objects, NEW type \in {"s", "d"}, BuildDevice(o, type)
  PROVE  DeviceInv'
<1> DEFINE r == [uuid |-> deviceBuilder.uuid, deviceType |-> type,
                 class |-> deviceBuilder.class]
           c == deviceBuilder.class
<1>1. /\ o \in Free
      /\ c # None
      /\ device' = Put(device, o, r)
      /\ UNCHANGED <<deviceBuilder, class, map, renamed, room, read>>
  BY DEF BuildDevice, roomVars
<1>2. c \in DOMAIN class /\ deviceBuilder.uuid \in Uuids
  BY <1>1, DeviceFields DEF DeviceInv
<1>3. c \in Cells /\ class[c] \in Classes
  BY <1>2 DEF DeviceInv, DeviceType
<1>4. r \in DeviceRecords({c})
  BY <1>2 DEF DeviceRecords
<1>5. class' = Passed(class, c, class[c])
  BY <1>1, <1>2 DEF Passed
<1>6. \A p \in DOMAIN read' \cap DOMAIN device : device[p].class # c
  BY <1>1 DEF DeviceInv, ReadDevicesAlone
<1> HIDE DEF r, c
<1> QED
  BY <1>1, <1>3, <1>4, <1>5, <1>6, MadeInv

(* A constructor passes any class; whoever was read and has it is forgotten. *)
LEMMA NewDeviceInv ==
  ASSUME DeviceInv, NEW o \in Objects, NEW u \in Uuids, NEW type \in {"s", "d"},
         NEW c \in Cells, NEW v \in Classes, NewDevice(o, u, type, c, v)
  PROVE  DeviceInv'
<1> DEFINE r == [uuid |-> u, deviceType |-> type, class |-> c]
<1>1. /\ o \in Free
      /\ device' = Put(device, o, r)
      /\ class' = Passed(class, c, v)
      /\ Forget(ClassHolders(c))
      /\ UNCHANGED <<deviceBuilder, map, renamed, room>>
  BY DEF NewDevice, roomVars
<1>2. r \in DeviceRecords({c})
  BY DEF DeviceRecords
<1> HIDE DEF r
<1>3. \A p \in DOMAIN read' : p \in DOMAIN read /\ p \notin ClassHolders(c)
                              /\ read'[p] = read[p]
  BY <1>1, Forgotten
<1>4. \A p \in DOMAIN read' \cap DOMAIN device : device[p].class # c
  BY <1>3 DEF ClassHolders
<1> QED
  BY <1>1, <1>2, <1>3, <1>4, MadeInv

(* parse makes a class of its own, with what the text says. *)
LEMMA ParseIntoInv ==
  ASSUME DeviceInv, NEW o \in Objects, NEW p \in Objects, NEW c \in Cells,
         ParseInto(o, p, c)
  PROVE  DeviceInv'
<1> DEFINE d == ParseDevice(DeviceJson(p))
           new == [d EXCEPT !.class = c]
           D == DOMAIN class \cup {c}
<1>0. DeviceType
  BY DEF DeviceInv
<1>1. /\ o \notin DOMAIN device /\ o \notin DOMAIN room
      /\ p \in DOMAIN device
      /\ c \notin DOMAIN class
      /\ device' = Put(device, o, new)
      /\ class' = Put(class, c, d.class)
      /\ read' = Put(read, o, DeviceContent(device[p]))
      /\ UNCHANGED <<deviceBuilder, map, renamed, room>>
  BY DEF ParseInto, roomVars, Free
<1>2. d = [device[p] EXCEPT !.class = class[device[p].class]]
  BY <1>0, <1>1, JsonBack
<1>3. device[p] \in DeviceRecords(DOMAIN class) /\ device[p].class \in DOMAIN class
  BY <1>0, <1>1, DeviceFields
<1>4. d.class = class[device[p].class] /\ d.class \in Classes
  BY <1>0, <1>2, <1>3 DEF DeviceType, DeviceRecords
<1>5. new \in DeviceRecords(D) /\ new.class = c /\ new.uuid = device[p].uuid
  BY <1>2, <1>3 DEF DeviceRecords
<1> HIDE DEF new, d
<1>6. /\ DOMAIN class' = D /\ class' \in [D -> Classes]
      /\ class'[c] = d.class
      /\ \A k \in DOMAIN class : class'[k] = class[k]
  BY <1>0, <1>1, <1>4, PutTyped DEF Put, DeviceType
<1>7. /\ DOMAIN device' = DOMAIN device \cup {o}
      /\ device'[o] = new
      /\ \A q \in DOMAIN device : device'[q] = device[q]
      /\ device' \in [DOMAIN device' -> DeviceRecords(D)]
  BY <1>0, <1>1, <1>5, NewDeviceTyped
<1>8. D \subseteq Cells /\ deviceBuilder' \in BuilderRecords(D)
  BY <1>0, <1>1, MoreCells DEF DeviceType
<1>9. DeviceType'
  BY <1>6, <1>7, <1>8 DEF DeviceType
<1>10. /\ \A q \in DOMAIN device : device[q].class \in DOMAIN class
       /\ deviceBuilder.class \in DOMAIN class \cup {None}
       /\ c # None
  BY <1>0, DeviceFields, DeviceModelAssumption
<1>11. /\ DOMAIN read' = DOMAIN read \cup {o}
       /\ read'[o] = DeviceContent(device[p])
       /\ \A q \in DOMAIN read \ {o} : read'[q] = read[q]
  BY <1>1 DEF Put
<1>12. ReadDevicesAlone'
  <2>1. ASSUME NEW q \in DOMAIN read' \cap DOMAIN device'
        PROVE  /\ device'[q].class # deviceBuilder'.class
               /\ \A x \in DOMAIN device' : device'[x].class = device'[q].class => x = q
    <3>1. CASE q = o
      BY <1>1, <1>5, <1>7, <1>10, <3>1
    <3>2. CASE q # o
      BY <1>1, <1>5, <1>7, <1>10, <1>11, <3>2
      DEF DeviceInv, ReadDevicesAlone, ClassHolders
    <3> QED
      BY <3>1, <3>2
  <2> QED
    BY <2>1 DEF ReadDevicesAlone, ClassHolders
<1>13. ASSUME NEW q \in DOMAIN read' \cap DOMAIN device'
       PROVE  DeviceContent(device[q])' = read'[q]
  <2>1. CASE q = o
    <3>1. device'[o].uuid = device[p].uuid /\ device'[o].class = c
      BY <1>5, <1>7
    <3>2. class'[c] = class[device[p].class] /\ device[p].class # None
      BY <1>3, <1>4, <1>6, <1>8, DeviceModelAssumption
    <3> QED
      BY <1>10, <1>11, <2>1, <3>1, <3>2 DEF DeviceContent
  <2>2. CASE q # o
    <3>1. q \in DOMAIN read \cap DOMAIN device /\ device'[q] = device[q]
          /\ read'[q] = read[q]
      BY <1>7, <1>11, <2>2
    <3>2. class'[device[q].class] = class[device[q].class]
      BY <1>6, <1>10, <3>1
    <3>3. DeviceContent(device[q]) = read[q]
      BY <3>1 DEF DeviceInv, DevicesAsRead
    <3> QED
      BY <3>1, <3>2, <3>3 DEF DeviceContent
  <2> QED
    BY <2>1, <2>2
<1>14. DevicesAsRead'
  BY <1>13 DEF DevicesAsRead
<1>15. MapType'
  BY <1>1, <1>7 DEF DeviceInv, MapType
<1>16. ObjectType'
  BY <1>1, <1>7, <1>11 DEF DeviceInv, ObjectType
<1>17. StoredUnderUuid'
  BY <1>1, <1>7 DEF DeviceInv, MapType, StoredUnderUuid
<1> QED
  BY <1>9, <1>12, <1>14, <1>15, <1>16, <1>17 DEF DeviceInv

(* A new uuid makes the keys of the device renamed ones. *)
LEMMA SetUuidInv ==
  ASSUME DeviceInv, NEW o \in Objects, NEW u \in Uuids, SetUuid(o, u)
  PROVE  DeviceInv'
<1>0. DeviceType
  BY DEF DeviceInv
<1>1. /\ o \in DOMAIN device
      /\ device' = [device EXCEPT ![o].uuid = u]
      /\ renamed' = renamed \cup {k \in DOMAIN map : map[k] = o}
      /\ Forget({o})
      /\ UNCHANGED <<deviceBuilder, class, map, room>>
  BY DEF SetUuid, roomVars
<1>2. /\ DOMAIN device' = DOMAIN device
      /\ \A p \in DOMAIN device : device'[p].class = device[p].class
      /\ \A p \in DOMAIN device \ {o} : device'[p] = device[p]
      /\ device' \in [DOMAIN device' -> DeviceRecords(DOMAIN class)]
  BY <1>0, <1>1 DEF DeviceType, DeviceRecords
<1>3. \A p \in DOMAIN read' : p \in DOMAIN read /\ p # o /\ read'[p] = read[p]
  BY <1>1, Forgotten
<1>4. ASSUME NEW p \in DOMAIN read' \cap DOMAIN device'
      PROVE  /\ p \in DOMAIN read \cap DOMAIN device
             /\ read'[p] = read[p]
             /\ device'[p] = device[p]
             /\ class[device[p].class] = class[device[p].class]
             /\ deviceBuilder'.class # device[p].class
             /\ \A q \in DOMAIN device' : device'[q].class = device[p].class => q = p
  BY <1>1, <1>2, <1>3 DEF ClassHolders, DeviceInv, ReadDevicesAlone
<1>5. DeviceType' /\ ReadDevicesAlone' /\ DevicesAsRead'
  BY <1>0, <1>1, <1>2, <1>4, DevicesKept DEF DeviceType
<1>6. MapType'
  BY <1>1, <1>2 DEF DeviceInv, MapType
<1>7. ObjectType'
  BY <1>1, <1>2, <1>3 DEF DeviceInv, ObjectType
<1>8. StoredUnderUuid'
  <2>1. \A k \in DOMAIN map' \ renamed' : k \in DOMAIN map \ renamed /\ map[k] # o
    BY <1>1
  <2>2. \A k \in DOMAIN map : map[k] \in DOMAIN device
    BY DEF DeviceInv, MapType
  <2> QED
    BY <1>1, <1>2, <2>1, <2>2 DEF DeviceInv, StoredUnderUuid
<1> QED
  BY <1>5, <1>6, <1>7, <1>8 DEF DeviceInv

(* Setting the states of one device is no matter of the others that were read:
   they have other classes. *)
LEMMA SetStatesInv ==
  ASSUME DeviceInv, NEW o \in Objects, NEW v \in Classes, SetStates(o, v)
  PROVE  DeviceInv'
<1>0. DeviceType
  BY DEF DeviceInv
<1>1. /\ o \in DOMAIN device
      /\ class' = [class EXCEPT ![device[o].class].alertState = v.alertState,
                                ![device[o].class].aliveState = v.aliveState]
      /\ Forget({o})
      /\ UNCHANGED <<deviceBuilder, device, map, renamed, room>>
  BY DEF SetStates, roomVars
<1>2. v.alertState \in BOOLEAN /\ v.aliveState \in BOOLEAN
  BY DEF Classes
<1>3. /\ DOMAIN class' = DOMAIN class
      /\ class' \in [DOMAIN class -> Classes]
      /\ \A k \in DOMAIN class \ {device[o].class} : class'[k] = class[k]
  <2> DEFINE half == [class EXCEPT ![device[o].class].alertState = v.alertState]
  <2>1. half \in [DOMAIN class -> Classes]
    BY <1>0, <1>2 DEF DeviceType, Classes
  <2>2. class' = [half EXCEPT ![device[o].class].aliveState = v.aliveState]
    BY <1>1
  <2>3. \A k \in DOMAIN class \ {device[o].class} : half[k] = class[k]
    OBVIOUS
  <2> HIDE DEF half
  <2>4. class' \in [DOMAIN class -> Classes]
    BY <1>2, <2>1, <2>2 DEF Classes
  <2> QED
    BY <2>1, <2>2, <2>3, <2>4
<1>4. \A p \in DOMAIN read' : p \in DOMAIN read /\ p # o /\ read'[p] = read[p]
  BY <1>1, Forgotten
<1>5. \A p \in DOMAIN device : device[p].class \in DOMAIN class
  BY <1>0, DeviceFields
<1>6. ASSUME NEW p \in DOMAIN read' \cap DOMAIN device'
      PROVE  /\ p \in DOMAIN read \cap DOMAIN device
             /\ read'[p] = read[p]
             /\ device'[p] = device[p]
             /\ class'[device[p].class] = class[device[p].class]
             /\ deviceBuilder'.class # device[p].class
             /\ \A q \in DOMAIN device' : device'[q].class = device[p].class => q = p
  BY <1>1, <1>3, <1>4, <1>5 DEF ClassHolders, DeviceInv, ReadDevicesAlone
<1>7. DeviceType' /\ ReadDevicesAlone' /\ DevicesAsRead'
  <2> DEFINE f == class'
  <2>1. /\ f \in [DOMAIN f -> Classes] /\ DOMAIN f = DOMAIN class
        /\ DOMAIN f \subseteq Cells
    BY <1>0, <1>3 DEF DeviceType
  <2>2. /\ device' \in [DOMAIN device' -> DeviceRecords(DOMAIN f)]
        /\ deviceBuilder' \in BuilderRecords(DOMAIN f)
    BY <1>0, <1>1, <2>1 DEF DeviceType
  <2>3. class' = f
    OBVIOUS
  <2> HIDE DEF f
  <2> QED
    BY <1>6, <2>1, <2>2, <2>3, DevicesKept
<1>8. MapType' /\ ObjectType' /\ StoredUnderUuid'
  BY <1>1, <1>4 DEF DeviceInv, MapType, ObjectType, StoredUnderUuid
<1> QED
  BY <1>7, <1>8 DEF DeviceInv

(* The class is passed: whoever was read and has it is forgotten, and so is the
   device that gets it. *)
LEMMA SetDeviceClassInv ==
  ASSUME DeviceInv, NEW o \in Objects, NEW c \in Cells, NEW v \in Classes,
         SetDeviceClass(o, c, v)
  PROVE  DeviceInv'
<1> DEFINE f == Passed(class, c, v)
<1>0. DeviceType /\ c # None
  BY DeviceModelAssumption DEF DeviceInv
<1>1. /\ o \in DOMAIN device
      /\ device' = [device EXCEPT ![o].class = c]
      /\ class' = Keep(f, HeldClasses')
      /\ Forget({o} \cup ClassHolders(c))
      /\ UNCHANGED <<deviceBuilder, map, renamed, room>>
  BY DEF SetDeviceClass, roomVars
<1>2. /\ f \in [DOMAIN f -> Classes]
      /\ DOMAIN class \subseteq DOMAIN f /\ DOMAIN f \subseteq Cells
      /\ \A k \in DOMAIN class : f[k] = class[k]
      /\ c \in DOMAIN f \cup {None}
  BY <1>0, PassedClass
<1> HIDE DEF f
<1>3. /\ DOMAIN device' = DOMAIN device
      /\ device'[o].class = c
      /\ \A p \in DOMAIN device \ {o} : device'[p] = device[p]
      /\ \A p \in DOMAIN device : device'[p].uuid = device[p].uuid
      /\ device' \in [DOMAIN device' -> DeviceRecords(DOMAIN f)]
  BY <1>0, <1>1, <1>2 DEF DeviceType, DeviceRecords
<1>4. deviceBuilder' \in BuilderRecords(DOMAIN f)
  BY <1>0, <1>1, <1>2, MoreCells DEF DeviceType
<1>5. \A p \in DOMAIN read' : /\ p \in DOMAIN read /\ read'[p] = read[p]
                              /\ p \notin {o} \cup ClassHolders(c)
  BY <1>1, Forgotten
<1>6. \A p \in DOMAIN device : device[p].class \in DOMAIN class
  BY <1>0, DeviceFields
<1>7. ASSUME NEW p \in DOMAIN read' \cap DOMAIN device'
      PROVE  /\ p \in DOMAIN read \cap DOMAIN device
             /\ read'[p] = read[p]
             /\ device'[p] = device[p]
             /\ f[device[p].class] = class[device[p].class]
             /\ deviceBuilder'.class # device[p].class
             /\ \A q \in DOMAIN device' : device'[q].class = device[p].class => q = p
  BY <1>1, <1>2, <1>3, <1>5, <1>6 DEF ClassHolders, DeviceInv, ReadDevicesAlone
<1>8. DeviceType' /\ ReadDevicesAlone' /\ DevicesAsRead'
  BY <1>1, <1>2, <1>3, <1>4, <1>7, DevicesKept
<1>9. MapType'
  BY <1>1, <1>3 DEF DeviceInv, MapType
<1>10. ObjectType'
  BY <1>1, <1>3, <1>5 DEF DeviceInv, ObjectType
<1>11. StoredUnderUuid'
  BY <1>1, <1>3 DEF DeviceInv, MapType, StoredUnderUuid
<1> QED
  BY <1>8, <1>9, <1>10, <1>11 DEF DeviceInv

(* A class that somebody still points to outlives a device. *)
LEMMA DropDeviceInv ==
  ASSUME DeviceInv, NEW o \in Objects, DropDevice(o)
  PROVE  DeviceInv'
<1>0. DeviceType
  BY DEF DeviceInv
<1>1. /\ o \in DOMAIN device
      /\ \A k \in DOMAIN map : map[k] # o
      /\ device' = Keep(device, Objects \ {o})
      /\ class' = Keep(class, HeldClasses')
      /\ Forget({o})
      /\ UNCHANGED <<deviceBuilder, map, renamed, room>>
  BY DEF DropDevice, roomVars, Range
<1>2. DOMAIN device \subseteq Objects
  BY DEF DeviceInv, ObjectType
<1>3. /\ DOMAIN device' = DOMAIN device \ {o}
      /\ \A p \in DOMAIN device \ {o} : device'[p] = device[p]
      /\ device' \in [DOMAIN device' -> DeviceRecords(DOMAIN class)]
  BY <1>0, <1>1, <1>2 DEF Keep, Restrict, DeviceType
<1>4. \A p \in DOMAIN read' : p \in DOMAIN read /\ p # o /\ read'[p] = read[p]
  BY <1>1, Forgotten
<1>5. ASSUME NEW p \in DOMAIN read' \cap DOMAIN device'
      PROVE  /\ p \in DOMAIN read \cap DOMAIN device
             /\ read'[p] = read[p]
             /\ device'[p] = device[p]
             /\ class[device[p].class] = class[device[p].class]
             /\ deviceBuilder'.class # device[p].class
             /\ \A q \in DOMAIN device' : device'[q].class = device[p].class => q = p
  <2>1. deviceBuilder' = deviceBuilder /\ p \in DOMAIN device /\ p # o
        /\ p \in DOMAIN read /\ device'[p] = device[p] /\ read'[p] = read[p]
    BY <1>1, <1>3, <1>4
  <2>2. /\ device[p].class # deviceBuilder.class
        /\ \A q \in DOMAIN device : device[q].class = device[p].class => q = p
    BY <2>1 DEF ClassHolders, DeviceInv, ReadDevicesAlone
  <2> QED
    BY <1>3, <2>1, <2>2
<1>6. DeviceType' /\ ReadDevicesAlone' /\ DevicesAsRead'
  BY <1>0, <1>1, <1>3, <1>5, DevicesKept DEF DeviceType
<1>7. MapType'
  BY <1>1, <1>3 DEF DeviceInv, MapType
<1>8. ObjectType'
  BY <1>1, <1>3, <1>4 DEF DeviceInv, ObjectType
<1>9. StoredUnderUuid'
  BY <1>1, <1>3 DEF DeviceInv, MapType, StoredUnderUuid
<1> QED
  BY <1>6, <1>7, <1>8, <1>9 DEF DeviceInv

(* A device is stored under its uuid, unless the key is taken. *)
LEMMA MapAddInv ==
  ASSUME DeviceInv, NEW o \in Objects, MapAdd(o)
  PROVE  DeviceInv'
<1> DEFINE u == device[o].uuid
<1>1. /\ o \in DOMAIN device
      /\ map' = IF u \in DOMAIN map THEN map ELSE Put(map, u, o)
      /\ UNCHANGED <<deviceBuilder, device, class, renamed, room, read>>
  BY DEF MapAdd, roomVars
<1>2. DeviceType' /\ ObjectType' /\ ReadDevicesAlone' /\ DevicesAsRead'
  BY <1>1 DEF DeviceInv, DeviceType, ObjectType, ReadDevicesAlone, ClassHolders,
     DevicesAsRead, DeviceContent
<1>3. u \in Uuids
  BY <1>1, DeviceFields DEF DeviceInv
<1> HIDE DEF u
<1>4. CASE u \in DOMAIN map
  BY <1>1, <1>2, <1>4 DEF DeviceInv, MapType, StoredUnderUuid
<1>5. CASE u \notin DOMAIN map
  <2>1. map' = [k \in DOMAIN map \cup {u} |-> IF k = u THEN o ELSE map[k]]
    BY <1>1, <1>5 DEF Put
  <2>2. MapType'
    BY <1>1, <1>3, <2>1 DEF DeviceInv, MapType
  <2>3. device[o].uuid = u
    BY DEF u
  <2>4. StoredUnderUuid'
    BY <1>1, <1>5, <2>1, <2>3 DEF DeviceInv, StoredUnderUuid
  <2> QED
    BY <1>2, <2>2, <2>4 DEF DeviceInv
<1> QED
  BY <1>4, <1>5

(* A copy has the class of the original, and both share it from now on. *)
LEMMA MapAddCopyInv ==
  ASSUME DeviceInv, NEW o \in Objects, NEW copy \in Objects, MapAddCopy(o, copy)
  PROVE  DeviceInv'
<1> DEFINE u == device[o].uuid
           r == device[o]
<1>0. DeviceType
  BY DEF DeviceInv
<1>1. /\ o \in DOMAIN device
      /\ copy \notin DOMAIN device /\ copy \notin DOMAIN room
      /\ u \notin DOMAIN map
      /\ device' = Put(device, copy, r)
      /\ map' = [k \in DOMAIN map \cup {u} |-> IF k = u THEN copy ELSE map[k]]
      /\ Forget({o})
      /\ UNCHANGED <<deviceBuilder, class, renamed, room>>
  BY DEF MapAddCopy, roomVars, Free, Put
<1>2. /\ r \in DeviceRecords(DOMAIN class) /\ u \in Uuids
      /\ r.uuid = u /\ r.class = device[o].class
  BY <1>0, <1>1, DeviceFields
<1> HIDE DEF u, r
<1>3. /\ DOMAIN device' = DOMAIN device \cup {copy}
      /\ device'[copy] = r
      /\ \A p \in DOMAIN device : device'[p] = device[p]
      /\ device' \in [DOMAIN device' -> DeviceRecords(DOMAIN class)]
  BY <1>0, <1>1, <1>2, NewDeviceTyped
<1>4. \A p \in DOMAIN read' : p \in DOMAIN read /\ p # o /\ read'[p] = read[p]
  BY <1>1, Forgotten
<1>5. \A p \in DOMAIN read' : p # copy
  BY <1>1, <1>4 DEF DeviceInv, ObjectType
<1>6. ASSUME NEW p \in DOMAIN read' \cap DOMAIN device'
      PROVE  /\ p \in DOMAIN read \cap DOMAIN device
             /\ read'[p] = read[p]
             /\ device'[p] = device[p]
             /\ class[device[p].class] = class[device[p].class]
             /\ deviceBuilder'.class # device[p].class
             /\ \A q \in DOMAIN device' : device'[q].class = device[p].class => q = p
  BY <1>1, <1>2, <1>3, <1>4, <1>5 DEF ClassHolders, DeviceInv, ReadDevicesAlone
<1>7. DeviceType' /\ ReadDevicesAlone' /\ DevicesAsRead'
  BY <1>0, <1>1, <1>3, <1>6, DevicesKept DEF DeviceType
<1>8. MapType'
  BY <1>1, <1>2, <1>3 DEF DeviceInv, MapType
<1>9. ObjectType'
  BY <1>1, <1>3, <1>4 DEF DeviceInv, ObjectType
<1>10. StoredUnderUuid'
  BY <1>1, <1>2, <1>3 DEF DeviceInv, MapType, StoredUnderUuid
<1> QED
  BY <1>7, <1>8, <1>9, <1>10 DEF DeviceInv

(* What is left in a map is as it was. *)
LEMMA MapRemoveInv ==
  ASSUME DeviceInv, NEW keys, MapRemove(keys)
  PROVE  DeviceInv'
<1>1. /\ map' = Keep(map, Uuids \ keys)
      /\ renamed' = renamed \ keys
      /\ UNCHANGED <<deviceBuilder, device, class, room, read>>
  BY DEF MapRemove, roomVars
<1>2. DeviceType' /\ ObjectType' /\ ReadDevicesAlone' /\ DevicesAsRead'
  BY <1>1 DEF DeviceInv, DeviceType, ObjectType, ReadDevicesAlone, ClassHolders,
     DevicesAsRead, DeviceContent
<1>3. /\ DOMAIN map' = (Uuids \ keys) \cap DOMAIN map
      /\ \A k \in DOMAIN map' : map'[k] = map[k]
      /\ map' \in [DOMAIN map' -> DOMAIN device]
  BY <1>1 DEF Keep, Restrict, DeviceInv, MapType
<1>4. MapType'
  BY <1>1, <1>3 DEF DeviceInv, MapType
<1>5. StoredUnderUuid'
  BY <1>1, <1>3 DEF DeviceInv, StoredUnderUuid
<1> QED
  BY <1>2, <1>4, <1>5 DEF DeviceInv

(* The uuid of a builder is no matter of sharing. *)
LEMMA BuilderSetUuidInv ==
  ASSUME DeviceInv, NEW u \in Uuids, BuilderSetUuid(u)
  PROVE  DeviceInv'
<1>1. /\ deviceBuilder' = [deviceBuilder EXCEPT !.uuid = u]
      /\ UNCHANGED <<device, class, map, renamed, room, read>>
  BY DEF BuilderSetUuid, roomVars
<1>2. DeviceType' /\ deviceBuilder'.class = deviceBuilder.class
  BY <1>1 DEF DeviceInv, DeviceType, BuilderRecords
<1> QED
  BY <1>1, <1>2 DEF DeviceInv, MapType, ObjectType, ReadDevicesAlone, ClassHolders,
     DevicesAsRead, DeviceContent, StoredUnderUuid

(* Every step of devices keeps what is promised of them. *)
LEMMA DeviceStep ==
  ASSUME DeviceInv, DeviceNext PROVE DeviceInv'
<1>1. NewClasses \subseteq Classes
  BY DeviceModelAssumption
<1>2. ASSUME NEW o \in Objects, NEW u \in Uuids, NEW type \in {"s", "d"},
             NEW c \in Cells, NEW v \in NewClasses, NewDevice(o, u, type, c, v)
      PROVE  DeviceInv'
  BY <1>1, <1>2, NewDeviceInv
<1>3. ASSUME NEW o \in Objects, NEW c \in Cells, NEW v \in NewClasses,
             SetDeviceClass(o, c, v)
      PROVE  DeviceInv'
  BY <1>1, <1>3, SetDeviceClassInv
<1>4. ASSUME NEW c \in Cells \cup {None}, NEW v \in NewClasses,
             BuilderSetDeviceClass(c, v)
      PROVE  DeviceInv'
  BY <1>1, <1>4, BuilderSetDeviceClassInv
<1>5. ASSUME NEW o \in Objects, NEW v \in NewClasses, SetStates(o, v) PROVE DeviceInv'
  BY <1>1, <1>5, SetStatesInv
<1>6. ASSUME NEW o \in Objects,
             \/ \E type \in {"s", "d"} : BuildDevice(o, type)
             \/ \E p \in Objects, c \in Cells : ParseInto(o, p, c)
             \/ \E u \in Uuids : SetUuid(o, u)
             \/ DropDevice(o)
             \/ MapAdd(o)
             \/ \E copy \in Objects : MapAddCopy(o, copy)
      PROVE  DeviceInv'
  BY <1>6, BuildDeviceInv, ParseIntoInv, SetUuidInv, DropDeviceInv, MapAddInv,
     MapAddCopyInv
<1> QED
  BY <1>2, <1>3, <1>4, <1>5, <1>6, BuilderSetUuidInv, MapRemoveInv DEF DeviceNext

-----------------------------------------------------------------------------
(* Steps of rooms. *)

(* The parts of rooms and of the builder are cells that are there. *)
LEMMA RoomFields ==
  ASSUME RoomType
  PROVE  /\ \A o \in DOMAIN room : /\ room[o].location \in DOMAIN location \cup {None}
                                   /\ room[o].set \in DOMAIN set
         /\ roomBuilder.location \in DOMAIN location \cup {None}
         /\ roomBuilder.set \in DOMAIN set
         /\ \A c \in DOMAIN location : c # None
BY DeviceModelAssumption DEF RoomType, RoomRecords

(* What larger sets of cells allow. *)
LEMMA MoreParts ==
  ASSUME NEW L, NEW M, L \subseteq M, NEW S, NEW T, S \subseteq T
  PROVE  RoomRecords(L, S) \subseteq RoomRecords(M, T)
BY DEF RoomRecords

(* The pointer that is passed for a location. *)
LEMMA PassedLocation ==
  ASSUME RoomType, NEW c \in Cells \cup {None}, NEW level \in Int,
         NEW f, f = Passed(location, c, level)
  PROVE  /\ f \in [DOMAIN f -> Int]
         /\ DOMAIN location \subseteq DOMAIN f /\ DOMAIN f \subseteq Cells
         /\ \A k \in DOMAIN location : f[k] = location[k]
         /\ c \in DOMAIN f \cup {None}
<1>1. f \in [DOMAIN f -> Int]
  BY PassedTyped DEF RoomType
<1>2. DOMAIN f \subseteq DOMAIN location \cup ({c} \ {None})
  BY PassedMap
<1>3. DOMAIN f \subseteq Cells
  BY <1>2 DEF RoomType
<1> QED
  BY <1>1, <1>3, PassedMap

(* The pointer that is passed for a set. *)
LEMMA PassedSet ==
  ASSUME RoomType, NEW s \in Cells, NEW g, g = Passed(set, s, {})
  PROVE  /\ g \in [DOMAIN g -> SUBSET Links]
         /\ DOMAIN set \subseteq DOMAIN g /\ DOMAIN g \subseteq Cells
         /\ \A k \in DOMAIN set : g[k] = set[k]
         /\ s \in DOMAIN g
<1>1. g \in [DOMAIN g -> SUBSET Links]
  BY PassedTyped DEF RoomType
<1>2. DOMAIN g \subseteq DOMAIN set \cup ({s} \ {None})
  BY PassedMap
<1>3. DOMAIN g \subseteq Cells
  BY <1>2 DEF RoomType
<1>4. s # None
  BY DeviceModelAssumption
<1> QED
  BY <1>1, <1>3, <1>4, PassedMap

(* What somebody holds stays, with what it says. *)
LEMMA CellsKept ==
  ASSUME NEW T, NEW f, f \in [DOMAIN f -> T], DOMAIN f \subseteq Cells,
         NEW H, NEW after, after = f \/ after = Keep(f, H)
  PROVE  /\ \A k \in H \cap DOMAIN f : k \in DOMAIN after /\ after[k] = f[k]
         /\ after \in [DOMAIN after -> T]
         /\ DOMAIN after \subseteq Cells
<1>1. CASE after = f
  BY <1>1
<1>2. CASE after = Keep(f, H)
  <2>1. DOMAIN after = H \cap DOMAIN f
    BY <1>2, KeepMap
  <2>2. after \in [H \cap DOMAIN f -> T]
    BY <1>2, KeepTyped
  <2>3. \A k \in H \cap DOMAIN f : after[k] = f[k]
    BY <1>2 DEF Keep, Restrict
  <2> QED
    BY <2>1, <2>2, <2>3
<1> QED
  BY <1>1, <1>2

(* As for devices: whoever is still read after a step is as it was, alone, and
   nobody wrote to its parts. *)
LEMMA RoomsKept ==
  ASSUME RoomInv,
         NEW f, f \in [DOMAIN f -> Int], DOMAIN f \subseteq Cells,
         location' = f \/ location' = Keep(f, HeldLocations'),
         NEW g, g \in [DOMAIN g -> SUBSET Links], DOMAIN g \subseteq Cells,
         set' = g \/ set' = Keep(g, HeldSets'),
         room' \in [DOMAIN room' -> RoomRecords(DOMAIN f, DOMAIN g)],
         roomBuilder' \in RoomRecords(DOMAIN f, DOMAIN g),
         \A o \in DOMAIN read' \cap DOMAIN room' :
           /\ o \in DOMAIN read \cap DOMAIN room
           /\ read'[o] = read[o]
           /\ room'[o] = room[o]
           /\ f[room[o].location] = location[room[o].location]
           /\ g[room[o].set] = set[room[o].set]
           /\ roomBuilder'.location # room[o].location
           /\ roomBuilder'.set # room[o].set
           /\ \A p \in DOMAIN room' : \/ room'[p].location = room[o].location
                                      \/ room'[p].set = room[o].set
                                      => p = o
  PROVE  RoomType' /\ ReadRoomsAlone' /\ RoomsAsRead'
<1>1. /\ \A k \in HeldLocations' \cap DOMAIN f :
           k \in DOMAIN location' /\ location'[k] = f[k]
      /\ location' \in [DOMAIN location' -> Int]
      /\ DOMAIN location' \subseteq Cells
  <2> DEFINE H == HeldLocations'
             after == location'
  <2>1. after = f \/ after = Keep(f, H)
    OBVIOUS
  <2> HIDE DEF H, after
  <2>2. /\ \A k \in H \cap DOMAIN f : k \in DOMAIN after /\ after[k] = f[k]
        /\ after \in [DOMAIN after -> Int]
        /\ DOMAIN after \subseteq Cells
    BY <2>1, CellsKept
  <2> QED
    BY <2>2 DEF H, after
<1>2. /\ \A k \in HeldSets' \cap DOMAIN g : k \in DOMAIN set' /\ set'[k] = g[k]
      /\ set' \in [DOMAIN set' -> SUBSET Links]
      /\ DOMAIN set' \subseteq Cells
  <2> DEFINE H == HeldSets'
             after == set'
  <2>1. after = g \/ after = Keep(g, H)
    OBVIOUS
  <2> HIDE DEF H, after
  <2>2. /\ \A k \in H \cap DOMAIN g : k \in DOMAIN after /\ after[k] = g[k]
        /\ after \in [DOMAIN after -> SUBSET Links]
        /\ DOMAIN after \subseteq Cells
    BY <2>1, CellsKept
  <2> QED
    BY <2>2 DEF H, after
<1>3. /\ \A p \in DOMAIN room' :
           /\ room'[p].location \in (HeldLocations' \cap DOMAIN f) \cup {None}
           /\ room'[p].set \in HeldSets' \cap DOMAIN g
           /\ room'[p] \in RoomRecords(DOMAIN f, DOMAIN g)
      /\ roomBuilder'.location \in (HeldLocations' \cap DOMAIN f) \cup {None}
      /\ roomBuilder'.set \in HeldSets' \cap DOMAIN g
  BY DEF HeldLocations, HeldSets, RoomRecords
<1>4. RoomType'
  <2>1. \A p \in DOMAIN room' : room'[p] \in RoomRecords(DOMAIN location', DOMAIN set')
    BY <1>1, <1>2, <1>3 DEF RoomRecords
  <2>2. roomBuilder' \in RoomRecords(DOMAIN location', DOMAIN set')
    BY <1>1, <1>2, <1>3 DEF RoomRecords
  <2>3. room' \in [DOMAIN room' -> RoomRecords(DOMAIN location', DOMAIN set')]
    BY <2>1
  <2> QED
    BY <1>1, <1>2, <2>2, <2>3 DEF RoomType
<1>5. ASSUME NEW o \in DOMAIN read' \cap DOMAIN room'
      PROVE  /\ o \in DOMAIN read \cap DOMAIN room
             /\ room'[o] = room[o] /\ read'[o] = read[o]
             /\ room[o].location # None
             /\ RoomContent(room[o]) = read[o]
  BY DEF RoomInv, ReadRoomsAlone, RoomsAsRead
<1>6. ReadRoomsAlone'
  <2>1. ASSUME NEW o \in DOMAIN read' \cap DOMAIN room'
        PROVE  /\ room'[o].location \notin {None, roomBuilder'.location}
               /\ room'[o].set # roomBuilder'.set
               /\ \A p \in DOMAIN room' : \/ room'[p].location = room'[o].location
                                          \/ room'[p].set = room'[o].set
                                          => p = o
    BY <1>5
  <2> QED
    BY <2>1 DEF ReadRoomsAlone, LocationHolders, SetHolders
<1>7. ASSUME NEW o \in DOMAIN read' \cap DOMAIN room'
      PROVE  RoomContent(room[o])' = read'[o]
  <2>1. /\ location'[room[o].location] = location[room[o].location]
        /\ set'[room[o].set] = set[room[o].set]
    BY <1>1, <1>2, <1>3, <1>5
  <2>2. RoomContent(room[o])' =
          <<location'[room[o].location], set'[room[o].set]>>
    BY <1>5 DEF RoomContent
  <2>3. RoomContent(room[o]) = <<location[room[o].location], set[room[o].set]>>
    BY <1>5 DEF RoomContent
  <2> QED
    BY <1>5, <2>1, <2>2, <2>3
<1> QED
  BY <1>4, <1>6, <1>7 DEF RoomsAsRead

(* A room that was read is alone, without the sets of holders. *)
LEMMA RoomAlone ==
  ASSUME RoomInv, NEW o \in DOMAIN read \cap DOMAIN room
  PROVE  /\ room[o].location # roomBuilder.location
         /\ room[o].location \in DOMAIN location
         /\ room[o].set # roomBuilder.set
         /\ room[o].set \in DOMAIN set
         /\ \A p \in DOMAIN room : \/ room[p].location = room[o].location
                                   \/ room[p].set = room[o].set
                                   => p = o
BY RoomFields DEF RoomInv, ReadRoomsAlone, LocationHolders, SetHolders

(* The builder's location is passed, which may be nullptr. *)
LEMMA BuilderSetLocationInv ==
  ASSUME RoomInv, NEW c \in Cells \cup {None}, NEW level \in Int,
         BuilderSetLocation(c, level)
  PROVE  RoomInv'
<1> DEFINE f == Passed(location, c, level)
<1>0. RoomType
  BY DEF RoomInv
<1>1. /\ roomBuilder' = [roomBuilder EXCEPT !.location = c]
      /\ UNCHANGED <<device, room, set>>
      /\ location' = Keep(f, HeldLocations')
      /\ Forget(LocationHolders(c))
  BY DEF BuilderSetLocation, deviceVars
<1>2. /\ f \in [DOMAIN f -> Int]
      /\ DOMAIN location \subseteq DOMAIN f /\ DOMAIN f \subseteq Cells
      /\ \A k \in DOMAIN location : f[k] = location[k]
      /\ c \in DOMAIN f \cup {None}
  BY <1>0, PassedLocation
<1> HIDE DEF f
<1>3. room' \in [DOMAIN room' -> RoomRecords(DOMAIN f, DOMAIN set)]
  BY <1>0, <1>1, <1>2, MoreParts DEF RoomType
<1>4. /\ roomBuilder' \in RoomRecords(DOMAIN f, DOMAIN set)
      /\ roomBuilder'.location = c /\ roomBuilder'.set = roomBuilder.set
  BY <1>0, <1>1, <1>2 DEF RoomType, RoomRecords
<1>5. \A o \in DOMAIN read' : o \in DOMAIN read /\ o \notin LocationHolders(c)
                              /\ read'[o] = read[o]
  BY <1>1, Forgotten
<1>6. ASSUME NEW o \in DOMAIN read' \cap DOMAIN room'
      PROVE  /\ o \in DOMAIN read \cap DOMAIN room
             /\ read'[o] = read[o]
             /\ room'[o] = room[o]
             /\ f[room[o].location] = location[room[o].location]
             /\ set[room[o].set] = set[room[o].set]
             /\ roomBuilder'.location # room[o].location
             /\ roomBuilder'.set # room[o].set
             /\ \A p \in DOMAIN room' : \/ room'[p].location = room[o].location
                                        \/ room'[p].set = room[o].set
                                        => p = o
  <2>1. o \in DOMAIN read \cap DOMAIN room /\ room' = room /\ read'[o] = read[o]
    BY <1>1, <1>5
  <2>2. room[o].location # c
    BY <1>5, <2>1 DEF LocationHolders
  <2> QED
    BY <1>2, <1>4, <2>1, <2>2, RoomAlone
<1>7. RoomType' /\ ReadRoomsAlone' /\ RoomsAsRead'
  BY <1>0, <1>1, <1>2, <1>3, <1>4, <1>6, RoomsKept DEF RoomType
<1>8. ObjectType'
  BY <1>1, <1>5 DEF RoomInv, ObjectType
<1> QED
  BY <1>7, <1>8 DEF RoomInv

(* One of the builder's sets is passed. *)
LEMMA BuilderSetSetInv ==
  ASSUME RoomInv, NEW s \in Cells, BuilderSetSet(s)
  PROVE  RoomInv'
<1> DEFINE g == Passed(set, s, {})
<1>0. RoomType
  BY DEF RoomInv
<1>1. /\ roomBuilder' = [roomBuilder EXCEPT !.set = s]
      /\ UNCHANGED <<device, room, location>>
      /\ set' = Keep(g, HeldSets')
      /\ Forget(SetHolders(s))
  BY DEF BuilderSetSet, deviceVars
<1>2. /\ g \in [DOMAIN g -> SUBSET Links]
      /\ DOMAIN set \subseteq DOMAIN g /\ DOMAIN g \subseteq Cells
      /\ \A k \in DOMAIN set : g[k] = set[k]
      /\ s \in DOMAIN g
  BY <1>0, PassedSet
<1> HIDE DEF g
<1>3. room' \in [DOMAIN room' -> RoomRecords(DOMAIN location, DOMAIN g)]
  BY <1>0, <1>1, <1>2, MoreParts DEF RoomType
<1>4. /\ roomBuilder' \in RoomRecords(DOMAIN location, DOMAIN g)
      /\ roomBuilder'.set = s /\ roomBuilder'.location = roomBuilder.location
  BY <1>0, <1>1, <1>2 DEF RoomType, RoomRecords
<1>5. \A o \in DOMAIN read' : o \in DOMAIN read /\ o \notin SetHolders(s)
                              /\ read'[o] = read[o]
  BY <1>1, Forgotten
<1>6. ASSUME NEW o \in DOMAIN read' \cap DOMAIN room'
      PROVE  /\ o \in DOMAIN read \cap DOMAIN room
             /\ read'[o] = read[o]
             /\ room'[o] = room[o]
             /\ location[room[o].location] = location[room[o].location]
             /\ g[room[o].set] = set[room[o].set]
             /\ roomBuilder'.location # room[o].location
             /\ roomBuilder'.set # room[o].set
             /\ \A p \in DOMAIN room' : \/ room'[p].location = room[o].location
                                        \/ room'[p].set = room[o].set
                                        => p = o
  <2>1. o \in DOMAIN read \cap DOMAIN room /\ room' = room /\ read'[o] = read[o]
    BY <1>1, <1>5
  <2>2. room[o].set # s
    BY <1>5, <2>1 DEF SetHolders
  <2> QED
    BY <1>2, <1>4, <2>1, <2>2, RoomAlone
<1>7. RoomType' /\ ReadRoomsAlone' /\ RoomsAsRead'
  BY <1>0, <1>1, <1>2, <1>3, <1>4, <1>6, RoomsKept DEF RoomType
<1>8. ObjectType'
  BY <1>1, <1>5 DEF RoomInv, ObjectType
<1> QED
  BY <1>7, <1>8 DEF RoomInv

(* A new room takes a place that was free. *)
LEMMA NewRoomTyped ==
  ASSUME NEW L, NEW S, RoomType, DOMAIN location \subseteq L, DOMAIN set \subseteq S,
         NEW o, NEW r \in RoomRecords(L, S),
         o \notin DOMAIN room, room' = Put(room, o, r)
  PROVE  /\ DOMAIN room' = DOMAIN room \cup {o}
         /\ room'[o] = r
         /\ \A p \in DOMAIN room : room'[p] = room[p]
         /\ room' \in [DOMAIN room' -> RoomRecords(L, S)]
<1>1. /\ DOMAIN room' = DOMAIN room \cup {o}
      /\ \A p \in DOMAIN room \cup {o} : room'[p] = IF p = o THEN r ELSE room[p]
  BY DEF Put
<1>2. room \in [DOMAIN room -> RoomRecords(L, S)]
  BY MoreParts DEF RoomType
<1>3. room' \in [DOMAIN room \cup {o} -> RoomRecords(L, S)]
  BY <1>2, PutTyped
<1> QED
  BY <1>1, <1>3

(* A room that is built has the builder's parts, which no room that was read has. *)
LEMMA BuildRoomInv ==
  ASSUME RoomInv, NEW o \in Objects, BuildRoom(o)
  PROVE  RoomInv'
<1>0. RoomType
  BY DEF RoomInv
<1>1. /\ o \notin DOMAIN device /\ o \notin DOMAIN room
      /\ room' = Put(room, o, roomBuilder)
      /\ UNCHANGED <<device, roomBuilder, location, set, read>>
  BY DEF BuildRoom, deviceVars, Free
<1>2. roomBuilder \in RoomRecords(DOMAIN location, DOMAIN set)
  BY <1>0 DEF RoomType
<1>3. /\ DOMAIN room' = DOMAIN room \cup {o}
      /\ room'[o] = roomBuilder
      /\ \A p \in DOMAIN room : room'[p] = room[p]
      /\ room' \in [DOMAIN room' -> RoomRecords(DOMAIN location, DOMAIN set)]
  BY <1>0, <1>1, <1>2, NewRoomTyped
<1>4. o \notin DOMAIN read
  BY <1>1 DEF RoomInv, ObjectType
<1>5. ASSUME NEW p \in DOMAIN read' \cap DOMAIN room'
      PROVE  /\ p \in DOMAIN read \cap DOMAIN room
             /\ read'[p] = read[p]
             /\ room'[p] = room[p]
             /\ location[room[p].location] = location[room[p].location]
             /\ set[room[p].set] = set[room[p].set]
             /\ roomBuilder'.location # room[p].location
             /\ roomBuilder'.set # room[p].set
             /\ \A q \in DOMAIN room' : \/ room'[q].location = room[p].location
                                        \/ room'[q].set = room[p].set
                                        => q = p
  <2>1. p \in DOMAIN read \cap DOMAIN room /\ room'[p] = room[p]
    BY <1>1, <1>3, <1>4
  <2> QED
    BY <1>1, <1>3, <2>1, RoomAlone
<1>6. RoomType' /\ ReadRoomsAlone' /\ RoomsAsRead'
  BY <1>0, <1>1, <1>2, <1>3, <1>5, RoomsKept DEF RoomType
<1>7. ObjectType'
  BY <1>1, <1>3 DEF RoomInv, ObjectType
<1> QED
  BY <1>6, <1>7 DEF RoomInv

(* The constructor stores the pointer that is passed and makes new sets. *)
LEMMA NewRoomInv ==
  ASSUME RoomInv, NEW o \in Objects, NEW c \in Cells \cup {None}, NEW level \in Int,
         NEW s \in Cells, NewRoom(o, c, level, s)
  PROVE  RoomInv'
<1> DEFINE f == Passed(location, c, level)
           g == Put(set, s, {})
           r == [location |-> c, set |-> s]
<1>0. RoomType
  BY DEF RoomInv
<1>1. /\ o \notin DOMAIN device /\ o \notin DOMAIN room
      /\ s \notin DOMAIN set
      /\ room' = Put(room, o, r)
      /\ location' = f /\ set' = g
      /\ Forget(LocationHolders(c))
      /\ UNCHANGED <<device, roomBuilder>>
  BY DEF NewRoom, deviceVars, Free
<1>2. /\ f \in [DOMAIN f -> Int]
      /\ DOMAIN location \subseteq DOMAIN f /\ DOMAIN f \subseteq Cells
      /\ \A k \in DOMAIN location : f[k] = location[k]
      /\ c \in DOMAIN f \cup {None}
  BY <1>0, PassedLocation
<1>3. /\ DOMAIN g = DOMAIN set \cup {s}
      /\ g \in [DOMAIN set \cup {s} -> SUBSET Links]
      /\ \A k \in DOMAIN set : g[k] = set[k]
  <2>1. set \in [DOMAIN set -> SUBSET Links] /\ {} \in SUBSET Links
    BY <1>0 DEF RoomType
  <2>2. g \in [DOMAIN set \cup {s} -> SUBSET Links]
    BY <2>1, PutTyped
  <2> QED
    BY <1>1, <2>2 DEF Put
<1> HIDE DEF f, g
<1>4. r \in RoomRecords(DOMAIN f, DOMAIN g) /\ r.location = c /\ r.set = s
  BY <1>2, <1>3 DEF RoomRecords
<1> HIDE DEF r
<1>5. /\ DOMAIN room' = DOMAIN room \cup {o}
      /\ room'[o] = r
      /\ \A p \in DOMAIN room : room'[p] = room[p]
      /\ room' \in [DOMAIN room' -> RoomRecords(DOMAIN f, DOMAIN g)]
  BY <1>0, <1>1, <1>2, <1>3, <1>4, NewRoomTyped
<1>6. roomBuilder' \in RoomRecords(DOMAIN f, DOMAIN g)
  BY <1>0, <1>1, <1>2, <1>3, MoreParts DEF RoomType
<1>7. \A p \in DOMAIN read' : /\ p \in DOMAIN read /\ p \notin LocationHolders(c)
                              /\ read'[p] = read[p]
  BY <1>1, Forgotten
<1>8. o \notin DOMAIN read
  BY <1>1 DEF RoomInv, ObjectType
<1>9. ASSUME NEW p \in DOMAIN read' \cap DOMAIN room'
      PROVE  /\ p \in DOMAIN read \cap DOMAIN room
             /\ read'[p] = read[p]
             /\ room'[p] = room[p]
             /\ f[room[p].location] = location[room[p].location]
             /\ g[room[p].set] = set[room[p].set]
             /\ roomBuilder'.location # room[p].location
             /\ roomBuilder'.set # room[p].set
             /\ \A q \in DOMAIN room' : \/ room'[q].location = room[p].location
                                        \/ room'[q].set = room[p].set
                                        => q = p
  <2>1. /\ p \in DOMAIN read \cap DOMAIN room /\ room'[p] = room[p]
        /\ read'[p] = read[p]
    BY <1>5, <1>7, <1>8
  <2>2. room[p].location # c
    BY <1>7, <2>1 DEF LocationHolders
  <2>3. /\ room[p].location # roomBuilder.location
        /\ room[p].location \in DOMAIN location
        /\ room[p].set # roomBuilder.set
        /\ room[p].set \in DOMAIN set
        /\ \A q \in DOMAIN room : \/ room[q].location = room[p].location
                                  \/ room[q].set = room[p].set
                                  => q = p
    BY <2>1, RoomAlone
  <2>4. roomBuilder' = roomBuilder
    BY <1>1
  <2> QED
    BY <1>1, <1>2, <1>3, <1>4, <1>5, <2>1, <2>2, <2>3, <2>4
<1>10. RoomType' /\ ReadRoomsAlone' /\ RoomsAsRead'
  <2>1. g \in [DOMAIN g -> SUBSET Links] /\ DOMAIN g \subseteq Cells
    BY <1>0, <1>3 DEF RoomType
  <2> QED
    BY <1>1, <1>2, <1>5, <1>6, <1>9, <2>1, RoomsKept
<1>11. ObjectType'
  BY <1>1, <1>5, <1>7 DEF RoomInv, ObjectType
<1> QED
  BY <1>10, <1>11 DEF RoomInv

(* parse makes parts of its own, with what the text says. *)
LEMMA ParseRoomInv ==
  ASSUME RoomInv, NEW o \in Objects, NEW p \in Objects, NEW c \in Cells,
         NEW s \in Cells, ParseRoom(o, p, c, s)
  PROVE  RoomInv'
<1> DEFINE r == [location |-> c, set |-> s]
           L == DOMAIN location \cup {c}
           S == DOMAIN set \cup {s}
<1>0. RoomType /\ c # None
  BY DeviceModelAssumption DEF RoomInv
<1>1. /\ o \notin DOMAIN device /\ o \notin DOMAIN room
      /\ p \in DOMAIN room /\ room[p].location # None
      /\ c \notin DOMAIN location /\ s \notin DOMAIN set
      /\ room' = Put(room, o, r)
      /\ location' = Put(location, c, location[room[p].location])
      /\ set' = Put(set, s, set[room[p].set])
      /\ read' = Put(read, o, RoomContent(room[p]))
      /\ UNCHANGED <<device, roomBuilder>>
  BY DEF ParseRoom, deviceVars, Free
<1>2. room[p].location \in DOMAIN location /\ room[p].set \in DOMAIN set
  BY <1>0, <1>1, RoomFields
<1>3. location[room[p].location] \in Int /\ set[room[p].set] \in SUBSET Links
  BY <1>0, <1>2 DEF RoomType
<1>4. /\ DOMAIN location' = L /\ location' \in [L -> Int]
      /\ location'[c] = location[room[p].location]
      /\ \A k \in DOMAIN location : location'[k] = location[k]
  BY <1>0, <1>1, <1>3, PutTyped DEF Put, RoomType
<1>5. /\ DOMAIN set' = S /\ set' \in [S -> SUBSET Links]
      /\ set'[s] = set[room[p].set]
      /\ \A k \in DOMAIN set : set'[k] = set[k]
  BY <1>0, <1>1, <1>3, PutTyped DEF Put, RoomType
<1>6. r \in RoomRecords(L, S) /\ r.location = c /\ r.set = s
  BY DEF RoomRecords
<1> HIDE DEF r
<1>7. /\ DOMAIN room' = DOMAIN room \cup {o}
      /\ room'[o] = r
      /\ \A q \in DOMAIN room : room'[q] = room[q]
      /\ room' \in [DOMAIN room' -> RoomRecords(L, S)]
  BY <1>0, <1>1, <1>6, NewRoomTyped
<1>8. L \cup S \subseteq Cells /\ roomBuilder' \in RoomRecords(L, S)
  BY <1>0, <1>1, MoreParts DEF RoomType
<1>9. RoomType'
  BY <1>4, <1>5, <1>7, <1>8 DEF RoomType
<1>10. /\ DOMAIN read' = DOMAIN read \cup {o}
       /\ read'[o] = RoomContent(room[p])
       /\ \A q \in DOMAIN read \ {o} : read'[q] = read[q]
  BY <1>1 DEF Put
<1>11. /\ \A q \in DOMAIN room : room[q].location # c /\ room[q].set # s
       /\ roomBuilder'.location # c /\ roomBuilder'.set # s
  BY <1>0, <1>1, RoomFields
<1>12. ReadRoomsAlone'
  <2>1. ASSUME NEW q \in DOMAIN read' \cap DOMAIN room'
        PROVE  /\ room'[q].location \notin {None, roomBuilder'.location}
               /\ room'[q].set # roomBuilder'.set
               /\ \A x \in DOMAIN room' : \/ room'[x].location = room'[q].location
                                          \/ room'[x].set = room'[q].set
                                          => x = q
    <3>1. CASE q = o
      BY <1>0, <1>6, <1>7, <1>11, <3>1
    <3>2. CASE q # o
      <4>1. q \in DOMAIN read \cap DOMAIN room /\ room'[q] = room[q]
            /\ roomBuilder' = roomBuilder
        BY <1>1, <1>7, <1>10, <3>2
      <4>2. /\ room[q].location # roomBuilder.location /\ room[q].location # None
            /\ room[q].set # roomBuilder.set
            /\ \A x \in DOMAIN room : \/ room[x].location = room[q].location
                                      \/ room[x].set = room[q].set
                                      => x = q
        BY <4>1, <1>0, RoomAlone, RoomFields
      <4> QED
        BY <1>6, <1>7, <1>11, <4>1, <4>2
    <3> QED
      BY <3>1, <3>2
  <2> QED
    BY <2>1 DEF ReadRoomsAlone, LocationHolders, SetHolders
<1>13. ASSUME NEW q \in DOMAIN read' \cap DOMAIN room'
       PROVE  RoomContent(room[q])' = read'[q]
  <2>1. CASE q = o
    <3>1. RoomContent(room[q])' = <<location'[c], set'[s]>>
      BY <1>0, <1>6, <1>7, <2>1 DEF RoomContent
    <3>2. RoomContent(room[p]) = <<location[room[p].location], set[room[p].set]>>
      BY <1>1 DEF RoomContent
    <3> QED
      BY <1>4, <1>5, <1>10, <2>1, <3>1, <3>2
  <2>2. CASE q # o
    <3>1. q \in DOMAIN read \cap DOMAIN room /\ room'[q] = room[q]
          /\ read'[q] = read[q]
      BY <1>7, <1>10, <2>2
    <3>2. /\ location'[room[q].location] = location[room[q].location]
          /\ set'[room[q].set] = set[room[q].set]
      BY <1>4, <1>5, <3>1, RoomAlone
    <3>3. RoomContent(room[q]) = read[q]
      BY <3>1 DEF RoomInv, RoomsAsRead
    <3>4. RoomContent(room[q])' = RoomContent(room[q])
      BY <3>1, <3>2 DEF RoomContent
    <3> QED
      BY <3>1, <3>3, <3>4
  <2> QED
    BY <2>1, <2>2
<1>14. RoomsAsRead'
  BY <1>13 DEF RoomsAsRead
<1>15. ObjectType'
  BY <1>1, <1>7, <1>10 DEF RoomInv, ObjectType
<1> QED
  BY <1>9, <1>12, <1>14, <1>15 DEF RoomInv

(* Setting the level of one room is no matter of the others that were read. *)
LEMMA SetLevelInv ==
  ASSUME RoomInv, NEW o \in Objects, NEW level \in Int, SetLevel(o, level)
  PROVE  RoomInv'
<1> DEFINE f == [location EXCEPT ![room[o].location] = level]
<1>0. RoomType
  BY DEF RoomInv
<1>1. /\ o \in DOMAIN room /\ room[o].location # None
      /\ location' = f
      /\ Forget({o})
      /\ UNCHANGED <<device, roomBuilder, room, set>>
  BY DEF SetLevel, deviceVars
<1>2. /\ DOMAIN f = DOMAIN location /\ f \in [DOMAIN location -> Int]
      /\ \A k \in DOMAIN location \ {room[o].location} : f[k] = location[k]
  BY <1>0 DEF RoomType
<1> HIDE DEF f
<1>3. \A p \in DOMAIN read' : p \in DOMAIN read /\ p # o /\ read'[p] = read[p]
  BY <1>1, Forgotten
<1>4. ASSUME NEW p \in DOMAIN read' \cap DOMAIN room'
      PROVE  /\ p \in DOMAIN read \cap DOMAIN room
             /\ read'[p] = read[p]
             /\ room'[p] = room[p]
             /\ f[room[p].location] = location[room[p].location]
             /\ set[room[p].set] = set[room[p].set]
             /\ roomBuilder'.location # room[p].location
             /\ roomBuilder'.set # room[p].set
             /\ \A q \in DOMAIN room' : \/ room'[q].location = room[p].location
                                        \/ room'[q].set = room[p].set
                                        => q = p
  <2>1. p \in DOMAIN read \cap DOMAIN room /\ p # o /\ read'[p] = read[p]
    BY <1>1, <1>3
  <2> QED
    BY <1>1, <1>2, <2>1, RoomAlone
<1>5. /\ room' \in [DOMAIN room' -> RoomRecords(DOMAIN f, DOMAIN set)]
      /\ roomBuilder' \in RoomRecords(DOMAIN f, DOMAIN set)
  BY <1>0, <1>1, <1>2 DEF RoomType
<1>6. /\ f \in [DOMAIN f -> Int] /\ DOMAIN f \subseteq Cells
      /\ set \in [DOMAIN set -> SUBSET Links] /\ DOMAIN set \subseteq Cells
      /\ set' = set
  BY <1>0, <1>1, <1>2 DEF RoomType
<1>7. RoomType' /\ ReadRoomsAlone' /\ RoomsAsRead'
  BY <1>1, <1>4, <1>5, <1>6, RoomsKept
<1>8. ObjectType'
  BY <1>1, <1>3 DEF RoomInv, ObjectType
<1> QED
  BY <1>7, <1>8 DEF RoomInv

(* The same for a set, written through a room or through the builder. *)
LEMMA ContentInv ==
  ASSUME RoomInv, NEW s, NEW links \in SUBSET Links,
         set' = [set EXCEPT ![s] = links],
         UNCHANGED <<device, roomBuilder, room, location>>,
         \A p \in DOMAIN read' : p \in DOMAIN read /\ read'[p] = read[p],
         \A p \in DOMAIN read' \cap DOMAIN room : room[p].set # s
  PROVE  RoomInv'
<1> DEFINE g == [set EXCEPT ![s] = links]
<1>0. RoomType
  BY DEF RoomInv
<1>1. set' = g
  OBVIOUS
<1>2. /\ DOMAIN g = DOMAIN set /\ g \in [DOMAIN set -> SUBSET Links]
      /\ \A k \in DOMAIN set \ {s} : g[k] = set[k]
  BY <1>0 DEF RoomType
<1> HIDE DEF g
<1>3. ASSUME NEW p \in DOMAIN read' \cap DOMAIN room'
      PROVE  /\ p \in DOMAIN read \cap DOMAIN room
             /\ read'[p] = read[p]
             /\ room'[p] = room[p]
             /\ location[room[p].location] = location[room[p].location]
             /\ g[room[p].set] = set[room[p].set]
             /\ roomBuilder'.location # room[p].location
             /\ roomBuilder'.set # room[p].set
             /\ \A q \in DOMAIN room' : \/ room'[q].location = room[p].location
                                        \/ room'[q].set = room[p].set
                                        => q = p
  <2>1. p \in DOMAIN read \cap DOMAIN room /\ room[p].set # s /\ read'[p] = read[p]
    OBVIOUS
  <2> QED
    BY <1>2, <2>1, RoomAlone
<1>4. /\ room' \in [DOMAIN room' -> RoomRecords(DOMAIN location, DOMAIN g)]
      /\ roomBuilder' \in RoomRecords(DOMAIN location, DOMAIN g)
  BY <1>0, <1>2 DEF RoomType
<1>5. /\ g \in [DOMAIN g -> SUBSET Links] /\ DOMAIN g \subseteq Cells
      /\ location \in [DOMAIN location -> Int] /\ DOMAIN location \subseteq Cells
      /\ location' = location
  BY <1>0, <1>2 DEF RoomType
<1>6. RoomType' /\ ReadRoomsAlone' /\ RoomsAsRead'
  BY <1>1, <1>3, <1>4, <1>5, RoomsKept
<1>7. ObjectType'
  BY DEF RoomInv, ObjectType
<1> QED
  BY <1>6, <1>7 DEF RoomInv

(* Parts that somebody still points to outlive a room. *)
LEMMA DropRoomInv ==
  ASSUME RoomInv, NEW o \in Objects, DropRoom(o)
  PROVE  RoomInv'
<1>0. RoomType
  BY DEF RoomInv
<1>1. /\ o \in DOMAIN room
      /\ room' = Keep(room, Objects \ {o})
      /\ location' = Keep(location, HeldLocations')
      /\ set' = Keep(set, HeldSets')
      /\ Forget({o})
      /\ UNCHANGED <<device, roomBuilder>>
  BY DEF DropRoom, deviceVars
<1>2. DOMAIN room \subseteq Objects
  BY DEF RoomInv, ObjectType
<1>3. /\ DOMAIN room' = DOMAIN room \ {o}
      /\ \A p \in DOMAIN room \ {o} : room'[p] = room[p]
      /\ room' \in [DOMAIN room' -> RoomRecords(DOMAIN location, DOMAIN set)]
  BY <1>0, <1>1, <1>2 DEF Keep, Restrict, RoomType
<1>4. \A p \in DOMAIN read' : p \in DOMAIN read /\ p # o /\ read'[p] = read[p]
  BY <1>1, Forgotten
<1>5. ASSUME NEW p \in DOMAIN read' \cap DOMAIN room'
      PROVE  /\ p \in DOMAIN read \cap DOMAIN room
             /\ read'[p] = read[p]
             /\ room'[p] = room[p]
             /\ location[room[p].location] = location[room[p].location]
             /\ set[room[p].set] = set[room[p].set]
             /\ roomBuilder'.location # room[p].location
             /\ roomBuilder'.set # room[p].set
             /\ \A q \in DOMAIN room' : \/ room'[q].location = room[p].location
                                        \/ room'[q].set = room[p].set
                                        => q = p
  <2>1. /\ p \in DOMAIN read \cap DOMAIN room /\ room'[p] = room[p]
        /\ read'[p] = read[p] /\ roomBuilder' = roomBuilder
    BY <1>1, <1>3, <1>4
  <2>2. /\ room[p].location # roomBuilder.location
        /\ room[p].set # roomBuilder.set
        /\ \A q \in DOMAIN room : \/ room[q].location = room[p].location
                                  \/ room[q].set = room[p].set
                                  => q = p
    BY <2>1, RoomAlone
  <2> QED
    BY <1>3, <2>1, <2>2
<1>6. /\ location \in [DOMAIN location -> Int] /\ DOMAIN location \subseteq Cells
      /\ set \in [DOMAIN set -> SUBSET Links] /\ DOMAIN set \subseteq Cells
      /\ roomBuilder' \in RoomRecords(DOMAIN location, DOMAIN set)
  BY <1>0, <1>1 DEF RoomType
<1>7. RoomType' /\ ReadRoomsAlone' /\ RoomsAsRead'
  BY <1>1, <1>3, <1>5, <1>6, RoomsKept
<1>8. ObjectType'
  BY <1>1, <1>3, <1>4 DEF RoomInv, ObjectType
<1> QED
  BY <1>7, <1>8 DEF RoomInv

(* Every step of rooms keeps what is promised of them. *)
LEMMA RoomStep ==
  ASSUME RoomInv, RoomNext PROVE RoomInv'
<1>1. Levels \subseteq Int
  BY DeviceModelAssumption
<1>2. ASSUME NEW link \in Links, BuilderAdd(link) PROVE RoomInv'
  <2>1. /\ set[roomBuilder.set] \in SUBSET Links
        /\ set' = [set EXCEPT ![roomBuilder.set] = set[roomBuilder.set] \cup {link}]
        /\ UNCHANGED <<device, roomBuilder, room, location, read>>
    BY <1>2, RoomFields DEF RoomInv, RoomType, BuilderAdd, deviceVars
  <2>2. \A p \in DOMAIN read' \cap DOMAIN room : room[p].set # roomBuilder.set
    BY <2>1, RoomAlone
  <2>3. set[roomBuilder.set] \cup {link} \in SUBSET Links
    BY <2>1
  <2> QED
    BY <2>1, <2>2, <2>3, ContentInv
<1>3. ASSUME NEW o \in Objects, NEW links \in SUBSET Links, ChangeSet(o, links)
      PROVE  RoomInv'
  <2>1. /\ o \in DOMAIN room
        /\ set' = [set EXCEPT ![room[o].set] = links]
        /\ Forget({o})
        /\ UNCHANGED <<device, roomBuilder, room, location>>
    BY <1>3 DEF ChangeSet, deviceVars
  <2>2. \A p \in DOMAIN read' : p \in DOMAIN read /\ p # o /\ read'[p] = read[p]
    BY <2>1, Forgotten
  <2>3. \A p \in DOMAIN read' \cap DOMAIN room : room[p].set # room[o].set
    BY <2>1, <2>2, RoomAlone
  <2> QED
    BY <2>1, <2>2, <2>3, ContentInv
<1>4. ASSUME NEW o \in Objects, NEW c \in Cells \cup {None}, NEW s \in Cells,
             NEW level \in Levels, NewRoom(o, c, level, s)
      PROVE  RoomInv'
  BY <1>1, <1>4, NewRoomInv
<1>5. ASSUME NEW o \in Objects, NEW p \in Objects, NEW c \in Cells, NEW s \in Cells,
             ParseRoom(o, p, c, s)
      PROVE  RoomInv'
  BY <1>5, ParseRoomInv
<1>6. ASSUME NEW o \in Objects,
             \/ BuildRoom(o)
             \/ \E level \in Levels : SetLevel(o, level)
             \/ DropRoom(o)
      PROVE  RoomInv'
  BY <1>1, <1>6, BuildRoomInv, SetLevelInv, DropRoomInv
<1>7. ASSUME NEW c \in Cells \cup {None}, NEW level \in Levels,
             BuilderSetLocation(c, level)
      PROVE  RoomInv'
  BY <1>1, <1>7, BuilderSetLocationInv
<1> QED
  BY <1>2, <1>3, <1>4, <1>5, <1>6, <1>7, BuilderSetSetInv DEF RoomNext

-----------------------------------------------------------------------------
(* The theorems. *)

(* A builder is all there is in the beginning. *)
LEMMA InitInv == Init => Inv
<1> SUFFICES ASSUME Init PROVE Inv
  OBVIOUS
<1>1. /\ device = <<>> /\ class = <<>> /\ map = <<>> /\ room = <<>>
      /\ location = <<>> /\ read = <<>> /\ renamed = {}
  BY DEF Init
<1>2. /\ DOMAIN device = {} /\ DOMAIN class = {} /\ DOMAIN map = {}
      /\ DOMAIN room = {} /\ DOMAIN location = {} /\ DOMAIN read = {}
  BY <1>1
<1>3. DeviceType
  <2>1. deviceBuilder \in BuilderRecords(DOMAIN class)
    BY DeviceModelAssumption DEF Init, BuilderRecords
  <2>2. device \in [DOMAIN device -> DeviceRecords(DOMAIN class)]
    BY <1>1, <1>2
  <2>3. class \in [DOMAIN class -> Classes]
    BY <1>1, <1>2
  <2> QED
    BY <1>2, <2>1, <2>2, <2>3 DEF DeviceType
<1>4. MapType
  <2>1. map \in [DOMAIN map -> DOMAIN device]
    BY <1>1, <1>2
  <2> QED
    BY <1>1, <1>2, <2>1 DEF MapType
<1>5. RoomType
  <2>1. PICK s \in Cells : /\ roomBuilder = [location |-> None, set |-> s]
                           /\ set = [x \in {s} |-> {}]
    BY DEF Init
  <2>2. DOMAIN set = {s} /\ set \in [DOMAIN set -> SUBSET Links]
    BY <2>1
  <2>3. roomBuilder \in RoomRecords(DOMAIN location, DOMAIN set)
    BY <2>1, <2>2 DEF RoomRecords
  <2>4. room \in [DOMAIN room -> RoomRecords(DOMAIN location, DOMAIN set)]
    BY <1>1, <1>2
  <2>5. location \in [DOMAIN location -> Int]
    BY <1>1, <1>2
  <2> QED
    BY <1>2, <2>2, <2>3, <2>4, <2>5 DEF RoomType
<1>6. ObjectType
  BY <1>2 DEF ObjectType
<1>7. ReadDevicesAlone /\ DevicesAsRead /\ ReadRoomsAlone /\ RoomsAsRead
  BY <1>2 DEF ReadDevicesAlone, DevicesAsRead, ReadRoomsAlone, RoomsAsRead
<1>8. StoredUnderUuid
  BY <1>2 DEF StoredUnderUuid
<1> QED
  BY <1>3, <1>4, <1>5, <1>6, <1>7, <1>8, InvParts DEF DeviceInv, RoomInv

(* Steps of devices leave rooms alone, and what is known of them. *)
LEMMA DevicesApart ==
  ASSUME ObjectType, DeviceNext
  PROVE  /\ UNCHANGED roomVars
         /\ \A r \in DOMAIN read' \cap DOMAIN room :
              r \in DOMAIN read /\ read'[r] = read[r]
<1>1. /\ UNCHANGED roomVars
      /\ \/ read' = read
         \/ \E S : Forget(S)
         \/ \E o \in Free : \E v : read' = Put(read, o, v)
  <2>1. ASSUME NEW u \in Uuids, BuilderSetUuid(u)
        PROVE  UNCHANGED roomVars /\ read' = read
    BY <2>1 DEF BuilderSetUuid
  <2>2. ASSUME NEW c, NEW v, BuilderSetDeviceClass(c, v)
        PROVE  UNCHANGED roomVars /\ \E S : Forget(S)
    BY <2>2 DEF BuilderSetDeviceClass
  <2>3. ASSUME NEW o, NEW type, BuildDevice(o, type)
        PROVE  UNCHANGED roomVars /\ read' = read
    BY <2>3 DEF BuildDevice
  <2>4. ASSUME NEW o, NEW u, NEW type, NEW c, NEW v, NewDevice(o, u, type, c, v)
        PROVE  UNCHANGED roomVars /\ \E S : Forget(S)
    BY <2>4 DEF NewDevice
  <2>5. ASSUME NEW o, NEW p, NEW c, ParseInto(o, p, c)
        PROVE  UNCHANGED roomVars /\ \E q \in Free : \E v : read' = Put(read, q, v)
    BY <2>5 DEF ParseInto
  <2>6. ASSUME NEW o, NEW u, SetUuid(o, u)
        PROVE  UNCHANGED roomVars /\ \E S : Forget(S)
    BY <2>6 DEF SetUuid
  <2>7. ASSUME NEW o, NEW v, SetStates(o, v)
        PROVE  UNCHANGED roomVars /\ \E S : Forget(S)
    BY <2>7 DEF SetStates
  <2>8. ASSUME NEW o, NEW c, NEW v, SetDeviceClass(o, c, v)
        PROVE  UNCHANGED roomVars /\ \E S : Forget(S)
    BY <2>8 DEF SetDeviceClass
  <2>9. ASSUME NEW o, DropDevice(o)
        PROVE  UNCHANGED roomVars /\ \E S : Forget(S)
    BY <2>9 DEF DropDevice
  <2>10. ASSUME NEW o, MapAdd(o) PROVE UNCHANGED roomVars /\ read' = read
    BY <2>10 DEF MapAdd
  <2>11. ASSUME NEW o, NEW copy, MapAddCopy(o, copy)
         PROVE  UNCHANGED roomVars /\ \E S : Forget(S)
    BY <2>11 DEF MapAddCopy
  <2>12. ASSUME NEW keys, MapRemove(keys) PROVE UNCHANGED roomVars /\ read' = read
    BY <2>12 DEF MapRemove
  <2> QED
    BY <2>1, <2>2, <2>3, <2>4, <2>5, <2>6, <2>7, <2>8, <2>9, <2>10, <2>11, <2>12
    DEF DeviceNext
<1>2. ASSUME NEW S, Forget(S)
      PROVE  \A r \in DOMAIN read' : r \in DOMAIN read /\ read'[r] = read[r]
  BY <1>2, Forgotten
<1>3. ASSUME NEW o \in Free, NEW v, read' = Put(read, o, v)
      PROVE  \A r \in DOMAIN read' \cap DOMAIN room :
               r \in DOMAIN read /\ read'[r] = read[r]
  BY <1>3 DEF Put, Free
<1> QED
  BY <1>1, <1>2, <1>3

(* The other way round. *)
LEMMA RoomsApart ==
  ASSUME ObjectType, RoomNext
  PROVE  /\ UNCHANGED deviceVars
         /\ \A d \in DOMAIN read' \cap DOMAIN device :
              d \in DOMAIN read /\ read'[d] = read[d]
<1>1. /\ UNCHANGED deviceVars
      /\ \/ read' = read
         \/ \E S : Forget(S)
         \/ \E o \in Free : \E v : read' = Put(read, o, v)
  <2>1. ASSUME NEW c, NEW level, BuilderSetLocation(c, level)
        PROVE  UNCHANGED deviceVars /\ \E S : Forget(S)
    BY <2>1 DEF BuilderSetLocation
  <2>2. ASSUME NEW s, BuilderSetSet(s)
        PROVE  UNCHANGED deviceVars /\ \E S : Forget(S)
    BY <2>2 DEF BuilderSetSet
  <2>3. ASSUME NEW link, BuilderAdd(link) PROVE UNCHANGED deviceVars /\ read' = read
    BY <2>3 DEF BuilderAdd
  <2>4. ASSUME NEW o, BuildRoom(o) PROVE UNCHANGED deviceVars /\ read' = read
    BY <2>4 DEF BuildRoom
  <2>5. ASSUME NEW o, NEW c, NEW level, NEW s, NewRoom(o, c, level, s)
        PROVE  UNCHANGED deviceVars /\ \E S : Forget(S)
    BY <2>5 DEF NewRoom
  <2>6. ASSUME NEW o, NEW p, NEW c, NEW s, ParseRoom(o, p, c, s)
        PROVE  UNCHANGED deviceVars /\ \E q \in Free : \E v : read' = Put(read, q, v)
    BY <2>6 DEF ParseRoom
  <2>7. ASSUME NEW o, NEW level, SetLevel(o, level)
        PROVE  UNCHANGED deviceVars /\ \E S : Forget(S)
    BY <2>7 DEF SetLevel
  <2>8. ASSUME NEW o, NEW links, ChangeSet(o, links)
        PROVE  UNCHANGED deviceVars /\ \E S : Forget(S)
    BY <2>8 DEF ChangeSet
  <2>9. ASSUME NEW o, DropRoom(o)
        PROVE  UNCHANGED deviceVars /\ \E S : Forget(S)
    BY <2>9 DEF DropRoom
  <2> QED
    BY <2>1, <2>2, <2>3, <2>4, <2>5, <2>6, <2>7, <2>8, <2>9 DEF RoomNext
<1>2. ASSUME NEW S, Forget(S)
      PROVE  \A d \in DOMAIN read' : d \in DOMAIN read /\ read'[d] = read[d]
  BY <1>2, Forgotten
<1>3. ASSUME NEW o \in Free, NEW v, read' = Put(read, o, v)
      PROVE  \A d \in DOMAIN read' \cap DOMAIN device :
               d \in DOMAIN read /\ read'[d] = read[d]
  BY <1>3 DEF Put, Free
<1> QED
  BY <1>1, <1>2, <1>3

(* Every step keeps both halves. *)
LEMMA InvStep == Inv /\ [Next]_vars => DeviceInv' /\ RoomInv'
<1> SUFFICES ASSUME Inv, [Next]_vars PROVE DeviceInv' /\ RoomInv'
  OBVIOUS
<1>0. DeviceInv /\ RoomInv
  BY InvParts
<1>1. CASE DeviceNext
  <2>1. DeviceInv'
    BY <1>0, <1>1, DeviceStep
  <2>2. /\ UNCHANGED <<roomBuilder, room, location, set>>
        /\ \A r \in DOMAIN read' \cap DOMAIN room :
             r \in DOMAIN read /\ read'[r] = read[r]
    BY <1>0, <1>1, DevicesApart DEF RoomInv, roomVars
  <2>3. RoomType'
    BY <1>0, <2>2 DEF RoomInv, RoomType
  <2>4. ReadRoomsAlone'
    BY <1>0, <2>2 DEF RoomInv, ReadRoomsAlone, LocationHolders, SetHolders
  <2>5. RoomsAsRead'
    BY <1>0, <2>2 DEF RoomInv, RoomsAsRead, RoomContent
  <2> QED
    BY <2>1, <2>3, <2>4, <2>5 DEF DeviceInv, RoomInv
<1>2. CASE RoomNext
  <2>1. RoomInv'
    BY <1>0, <1>2, RoomStep
  <2>2. /\ UNCHANGED <<deviceBuilder, device, class, map, renamed>>
        /\ \A d \in DOMAIN read' \cap DOMAIN device :
             d \in DOMAIN read /\ read'[d] = read[d]
    BY <1>0, <1>2, RoomsApart DEF RoomInv, deviceVars
  <2>3. DeviceType' /\ MapType' /\ StoredUnderUuid'
    BY <1>0, <2>2 DEF DeviceInv, DeviceType, MapType, StoredUnderUuid
  <2>4. ReadDevicesAlone'
    BY <1>0, <2>2 DEF DeviceInv, ReadDevicesAlone, ClassHolders
  <2>5. DevicesAsRead'
    BY <1>0, <2>2 DEF DeviceInv, DevicesAsRead, DeviceContent
  <2> QED
    BY <2>1, <2>3, <2>4, <2>5 DEF DeviceInv, RoomInv
<1>3. CASE UNCHANGED vars
  <2>1. UNCHANGED <<deviceBuilder, device, class, map, renamed, roomBuilder, room,
                    location, set, read>>
    BY <1>3 DEF vars, deviceVars, roomVars
  <2>2. /\ DeviceType' /\ MapType' /\ ObjectType' /\ StoredUnderUuid'
        /\ ReadDevicesAlone' /\ DevicesAsRead'
    BY <1>0, <2>1 DEF DeviceInv, DeviceType, MapType, ObjectType, StoredUnderUuid,
       ReadDevicesAlone, ClassHolders, DevicesAsRead, DeviceContent
  <2>3. RoomType' /\ ReadRoomsAlone' /\ RoomsAsRead'
    BY <1>0, <2>1 DEF RoomInv, RoomType, ReadRoomsAlone, LocationHolders, SetHolders,
       RoomsAsRead, RoomContent
  <2> QED
    BY <2>2, <2>3 DEF DeviceInv, RoomInv
<1> QED
  BY <1>1, <1>2, <1>3 DEF Next

(* The inductive invariant: types, who shares with whom, what the objects say
   and the keys of the map, along every sequence of calls. *)
THEOREM InvHolds == Spec => []Inv
BY InitInv, InvStep, InvParts, PTL DEF Spec

(* No device, room or builder points to an object that is gone. *)
THEOREM TypesHold == Spec => []TypeOK
<1>1. Inv => TypeOK
  BY DEF Inv
<1> QED
  BY <1>1, InvHolds, PTL

(* A device or a room that was read says what the text said until somebody
   changes it or hands on its pointers, whatever else is called and whoever
   shares with whom. *)
THEOREM ReadStays == Spec => []ReadStaysAsRead
<1>1. Inv => ReadStaysAsRead
  BY DEF Inv
<1> QED
  BY <1>1, InvHolds, PTL

(* The server reads the device that the client wrote, whatever was done to it. *)
THEOREM JsonIsRead == Spec => []JsonReadsBack
<1>1. Inv => JsonReadsBack
  BY InvParts, JsonBack DEF DeviceInv, JsonReadsBack
<1> QED
  BY <1>1, InvHolds, PTL

(* A map that is written and read has the devices under their own uuids, and none
   of them is lost to another. *)
THEOREM MapsAreRead == Spec => []MapReadsBack
<1>1. Inv => MapReadsBack
  <2> SUFFICES ASSUME Inv PROVE MapReadsBack
    OBVIOUS
  <2>1. ASSUME NEW k \in DOMAIN map PROVE ParsedUnder(k) = device[map[k]].uuid
    <3>1. DeviceType /\ map[k] \in DOMAIN device
      BY InvParts DEF DeviceInv, MapType
    <3>2. device[map[k]] \in [uuid : Uuids, deviceType : {"s", "d"}, class : DOMAIN class]
      BY <3>1 DEF DeviceType, DeviceRecords
    <3> QED
      BY <3>1, <3>2, JsonBack DEF ParsedUnder
  <2>2. \A k \in DOMAIN map \ renamed : ParsedUnder(k) = k
    BY <2>1 DEF Inv, StoredUnderUuid
  <2> QED
    BY <2>1, <2>2 DEF MapReadsBack
<1> QED
  BY <1>1, InvHolds, PTL

-----------------------------------------------------------------------------
(* Who changes together with whom.                                           *)

DevicesPrivate ==
  \A o \in DOMAIN read \cap DOMAIN device \cap DOMAIN device' : ~SameDevice(o) =>
    /\ \A p \in DOMAIN device \cap DOMAIN device' : p = o \/ SameDevice(p)
    /\ DeviceContent(deviceBuilder)' = DeviceContent(deviceBuilder)

RoomsPrivate ==
  \A o \in DOMAIN read \cap DOMAIN room \cap DOMAIN room' : ~SameRoom(o) =>
    /\ \A p \in DOMAIN room \cap DOMAIN room' : p = o \/ SameRoom(p)
    /\ RoomContent(roomBuilder)' = RoomContent(roomBuilder)

(* A device says the same if it is the same and nobody wrote to its class. *)
LEMMA SameDeviceIf ==
  ASSUME NEW p, device'[p] = device[p],
         class'[device[p].class] = class[device[p].class]
  PROVE  SameDevice(p)
BY DEF SameDevice, DeviceContent

(* The same for what the builder would build. *)
LEMMA SameBuilderIf ==
  ASSUME UNCHANGED deviceBuilder,
         \/ deviceBuilder.class = None
         \/ class'[deviceBuilder.class] = class[deviceBuilder.class]
  PROVE  DeviceContent(deviceBuilder)' = DeviceContent(deviceBuilder)
BY DEF DeviceContent

(* Making objects and letting go of others writes to none that is held. *)
LEMMA HeldClassesStay ==
  ASSUME NEW f, DOMAIN class \subseteq DOMAIN f,
         \A k \in DOMAIN class : f[k] = class[k],
         class' = f \/ class' = Keep(f, HeldClasses')
  PROVE  /\ \A p \in DOMAIN device' : device'[p].class \in DOMAIN class
              => class'[device'[p].class] = class[device'[p].class]
         /\ deviceBuilder'.class \in DOMAIN class
              => class'[deviceBuilder'.class] = class[deviceBuilder'.class]
<1>1. \A k \in HeldClasses' \cap DOMAIN f : class'[k] = f[k]
  BY DEF Keep, Restrict
<1>2. /\ deviceBuilder'.class \in HeldClasses'
      /\ \A p \in DOMAIN device' : device'[p].class \in HeldClasses'
  BY DEF HeldClasses
<1> QED
  BY <1>1, <1>2

(* A step that makes one device x say something else, and no other. *)
LEMMA OneDeviceChanges ==
  ASSUME DeviceType, NEW x, UNCHANGED deviceBuilder,
         \A p \in (DOMAIN device \cap DOMAIN device') \ {x} : device'[p] = device[p],
         NEW f, DOMAIN class \subseteq DOMAIN f,
         \A k \in DOMAIN class : f[k] = class[k],
         class' = f \/ class' = Keep(f, HeldClasses')
  PROVE  DevicesPrivate
<1>1. DeviceContent(deviceBuilder)' = DeviceContent(deviceBuilder)
  BY DeviceFields, HeldClassesStay, SameBuilderIf
<1>2. \A p \in (DOMAIN device \cap DOMAIN device') \ {x} : SameDevice(p)
  BY DeviceFields, HeldClassesStay, SameDeviceIf
<1> QED
  BY <1>1, <1>2 DEF DevicesPrivate

(* Every step of devices changes a device that was read alone. *)
LEMMA DevicesStepApart ==
  ASSUME DeviceInv, DeviceNext PROVE DevicesPrivate
<1>0. DeviceType
  BY DEF DeviceInv
<1>1. ASSUME NEW u \in Uuids, BuilderSetUuid(u) PROVE DevicesPrivate
  BY <1>1, SameDeviceIf DEF BuilderSetUuid, DevicesPrivate
<1>2. ASSUME NEW c \in Cells \cup {None}, NEW v \in NewClasses,
             BuilderSetDeviceClass(c, v)
      PROVE  DevicesPrivate
  <2>1. UNCHANGED device /\ class' = Keep(Passed(class, c, v), HeldClasses')
    BY <1>2 DEF BuilderSetDeviceClass
  <2>2. \A p \in DOMAIN device : class'[device[p].class] = class[device[p].class]
    BY <1>0, <2>1, PassedMap, DeviceFields, HeldClassesStay
  <2> QED
    BY <2>1, <2>2, SameDeviceIf DEF DevicesPrivate
<1>3. ASSUME NEW o \in Objects,
             \/ \E type \in {"s", "d"} : BuildDevice(o, type)
             \/ \E copy \in Objects : MapAddCopy(o, copy)
      PROVE  DevicesPrivate
  <2>1. /\ UNCHANGED <<deviceBuilder, class>>
        /\ \A p \in DOMAIN device : device'[p] = device[p]
    BY <1>3 DEF BuildDevice, MapAddCopy, Free, Put
  <2> QED
    BY <1>0, <2>1, OneDeviceChanges
<1>4. ASSUME NEW o \in Objects, NEW u \in Uuids, NEW type \in {"s", "d"},
             NEW c \in Cells, NEW v \in NewClasses, NewDevice(o, u, type, c, v)
      PROVE  DevicesPrivate
  <2>1. /\ UNCHANGED deviceBuilder
        /\ class' = Passed(class, c, v)
        /\ \A p \in DOMAIN device : device'[p] = device[p]
    BY <1>4 DEF NewDevice, Free, Put
  <2> QED
    BY <1>0, <2>1, PassedMap, OneDeviceChanges
<1>5. ASSUME NEW o \in Objects, NEW p \in Objects, NEW c \in Cells, ParseInto(o, p, c)
      PROVE  DevicesPrivate
  <2> DEFINE v == ParseDevice(DeviceJson(p)).class
  <2>1. /\ c \notin DOMAIN class
        /\ UNCHANGED deviceBuilder
        /\ class' = Put(class, c, v)
        /\ \A q \in DOMAIN device : device'[q] = device[q]
    BY <1>5 DEF ParseInto, Free, Put
  <2>2. /\ DOMAIN class \subseteq DOMAIN Put(class, c, v)
        /\ \A k \in DOMAIN class : Put(class, c, v)[k] = class[k]
    BY <2>1 DEF Put
  <2> QED
    BY <1>0, <2>1, <2>2, OneDeviceChanges
<1>6. ASSUME NEW o \in Objects, NEW u \in Uuids, SetUuid(o, u) PROVE DevicesPrivate
  <2>1. /\ UNCHANGED <<deviceBuilder, class>>
        /\ \A p \in (DOMAIN device \cap DOMAIN device') \ {o} : device'[p] = device[p]
    BY <1>6 DEF SetUuid
  <2> QED
    BY <1>0, <2>1, OneDeviceChanges
<1>7. ASSUME NEW o \in Objects, NEW v \in NewClasses, SetStates(o, v)
      PROVE  DevicesPrivate
  <2>1. /\ o \in DOMAIN device
        /\ UNCHANGED <<deviceBuilder, device>>
        /\ \A k \in DOMAIN class : k # device[o].class => class'[k] = class[k]
    BY <1>7 DEF SetStates
  <2>2. \A p \in DOMAIN device : device[p].class # device[o].class => SameDevice(p)
    BY <1>0, <2>1, DeviceFields, SameDeviceIf
  <2> SUFFICES ASSUME NEW q \in DOMAIN read \cap DOMAIN device,
                      device[q].class = device[o].class
               PROVE  /\ \A p \in DOMAIN device : p = q \/ SameDevice(p)
                      /\ DeviceContent(deviceBuilder)' = DeviceContent(deviceBuilder)
    BY <2>1, <2>2 DEF DevicesPrivate
  <2>3. /\ deviceBuilder.class # device[o].class
        /\ \A p \in DOMAIN device : device[p].class = device[o].class => p = q
    BY DEF DeviceInv, ReadDevicesAlone, ClassHolders
  <2> QED
    BY <1>0, <2>1, <2>2, <2>3, DeviceFields, SameBuilderIf
<1>8. ASSUME NEW o \in Objects, NEW c \in Cells, NEW v \in NewClasses,
             SetDeviceClass(o, c, v)
      PROVE  DevicesPrivate
  <2>1. /\ UNCHANGED deviceBuilder
        /\ class' = Keep(Passed(class, c, v), HeldClasses')
        /\ \A q \in (DOMAIN device \cap DOMAIN device') \ {o} : device'[q] = device[q]
    BY <1>8 DEF SetDeviceClass
  <2> QED
    BY <1>0, <2>1, PassedMap, OneDeviceChanges
<1>9. ASSUME NEW o \in Objects, DropDevice(o) PROVE DevicesPrivate
  <2>1. /\ UNCHANGED deviceBuilder
        /\ class' = Keep(class, HeldClasses')
        /\ device' = Keep(device, Objects \ {o})
    BY <1>9 DEF DropDevice
  <2>2. \A q \in DOMAIN device \cap DOMAIN device' : device'[q] = device[q]
    BY <2>1, KeepMap
  <2> QED
    BY <1>0, <2>1, <2>2, OneDeviceChanges
<1>10. ASSUME UNCHANGED <<deviceBuilder, device, class>> PROVE DevicesPrivate
  BY <1>0, <1>10, OneDeviceChanges
<1> QED
  BY <1>1, <1>2, <1>3, <1>4, <1>5, <1>6, <1>7, <1>8, <1>9, <1>10
  DEF DeviceNext, MapAdd, MapRemove

(* The same for rooms. *)
LEMMA SameRoomIf ==
  ASSUME NEW p, room'[p] = room[p], set'[room[p].set] = set[room[p].set],
         room[p].location = None
           \/ location'[room[p].location] = location[room[p].location]
  PROVE  SameRoom(p)
BY DEF SameRoom, RoomContent

(* The same for what the builder would build. *)
LEMMA SameRoomBuilderIf ==
  ASSUME UNCHANGED roomBuilder,
         set'[roomBuilder.set] = set[roomBuilder.set],
         roomBuilder.location = None
           \/ location'[roomBuilder.location] = location[roomBuilder.location]
  PROVE  RoomContent(roomBuilder)' = RoomContent(roomBuilder)
BY DEF RoomContent

(* As for classes: what is held is not written to. *)
LEMMA HeldPartsStay ==
  ASSUME NEW f, DOMAIN location \subseteq DOMAIN f,
         \A k \in DOMAIN location : f[k] = location[k],
         location' = f \/ location' = Keep(f, HeldLocations'),
         NEW g, DOMAIN set \subseteq DOMAIN g,
         \A k \in DOMAIN set : g[k] = set[k],
         set' = g \/ set' = Keep(g, HeldSets')
  PROVE  /\ \A p \in DOMAIN room' :
              /\ room'[p].location \in DOMAIN location
                   => location'[room'[p].location] = location[room'[p].location]
              /\ room'[p].set \in DOMAIN set
                   => set'[room'[p].set] = set[room'[p].set]
         /\ roomBuilder'.location \in DOMAIN location
              => location'[roomBuilder'.location] = location[roomBuilder'.location]
         /\ roomBuilder'.set \in DOMAIN set
              => set'[roomBuilder'.set] = set[roomBuilder'.set]
<1>1. /\ \A k \in HeldLocations' \cap DOMAIN f : location'[k] = f[k]
      /\ \A k \in HeldSets' \cap DOMAIN g : set'[k] = g[k]
  BY DEF Keep, Restrict
<1>2. /\ roomBuilder'.location \in HeldLocations' /\ roomBuilder'.set \in HeldSets'
      /\ \A p \in DOMAIN room' :
           room'[p].location \in HeldLocations' /\ room'[p].set \in HeldSets'
  BY DEF HeldLocations, HeldSets
<1> QED
  BY <1>1, <1>2

(* Rooms that stay as they are say the same, and so does the builder, if nobody
   wrote to a location or to a set. *)
LEMMA RoomsSayTheSame ==
  ASSUME RoomType,
         \A p \in DOMAIN room \cap DOMAIN room' : room'[p] = room[p],
         NEW f, DOMAIN location \subseteq DOMAIN f,
         \A k \in DOMAIN location : f[k] = location[k],
         location' = f \/ location' = Keep(f, HeldLocations'),
         NEW g, DOMAIN set \subseteq DOMAIN g,
         \A k \in DOMAIN set : g[k] = set[k],
         set' = g \/ set' = Keep(g, HeldSets')
  PROVE  RoomsPrivate
<1>1. \A p \in DOMAIN room \cap DOMAIN room' : SameRoom(p)
  BY RoomFields, HeldPartsStay, SameRoomIf
<1> QED
  BY <1>1 DEF RoomsPrivate

(* Writing to a location or to a set: a room that was read and points to it is
   the only one who does. *)
LEMMA LevelWritten ==
  ASSUME RoomInv, UNCHANGED <<room, roomBuilder, set>>,
         NEW c, \A k \in DOMAIN location \ {c} : location'[k] = location[k]
  PROVE  RoomsPrivate
<1>0. RoomType
  BY DEF RoomInv
<1>1. \A p \in DOMAIN room : room[p].location # c => SameRoom(p)
  BY <1>0, RoomFields, SameRoomIf
<1> SUFFICES ASSUME NEW o \in DOMAIN read \cap DOMAIN room, room[o].location = c
             PROVE  /\ \A p \in DOMAIN room : p = o \/ SameRoom(p)
                    /\ RoomContent(roomBuilder)' = RoomContent(roomBuilder)
  BY <1>1 DEF RoomsPrivate
<1>2. /\ roomBuilder.location # c
      /\ \A p \in DOMAIN room : room[p].location = c => p = o
  BY RoomAlone
<1> QED
  BY <1>0, <1>1, <1>2, RoomFields, SameRoomBuilderIf

(* The same for a set. *)
LEMMA SetWritten ==
  ASSUME RoomInv, UNCHANGED <<room, roomBuilder, location>>,
         NEW s, \A k \in DOMAIN set \ {s} : set'[k] = set[k]
  PROVE  RoomsPrivate
<1>0. RoomType
  BY DEF RoomInv
<1>1. \A p \in DOMAIN room : room[p].set # s => SameRoom(p)
  BY <1>0, RoomFields, SameRoomIf
<1> SUFFICES ASSUME NEW o \in DOMAIN read \cap DOMAIN room, room[o].set = s
             PROVE  /\ \A p \in DOMAIN room : p = o \/ SameRoom(p)
                    /\ RoomContent(roomBuilder)' = RoomContent(roomBuilder)
  BY <1>1 DEF RoomsPrivate
<1>2. /\ roomBuilder.set # s
      /\ \A p \in DOMAIN room : room[p].set = s => p = o
  BY RoomAlone
<1> QED
  BY <1>0, <1>1, <1>2, RoomFields, SameRoomBuilderIf

(* Every step of rooms changes a room that was read alone. *)
LEMMA RoomsStepApart ==
  ASSUME RoomInv, RoomNext PROVE RoomsPrivate
<1>0. RoomType
  BY DEF RoomInv
<1>1. ASSUME NEW c \in Cells \cup {None}, NEW level \in Levels,
             BuilderSetLocation(c, level)
      PROVE  RoomsPrivate
  <2>1. /\ UNCHANGED <<room, set>>
        /\ location' = Keep(Passed(location, c, level), HeldLocations')
    BY <1>1 DEF BuilderSetLocation
  <2> QED
    BY <1>0, <2>1, PassedMap, RoomsSayTheSame
<1>2. ASSUME NEW s \in Cells, BuilderSetSet(s) PROVE RoomsPrivate
  <2>1. /\ UNCHANGED <<room, location>>
        /\ set' = Keep(Passed(set, s, {}), HeldSets')
    BY <1>2 DEF BuilderSetSet
  <2> QED
    BY <1>0, <2>1, PassedMap, RoomsSayTheSame
<1>3. ASSUME NEW link \in Links, BuilderAdd(link) PROVE RoomsPrivate
  BY <1>3, SetWritten DEF BuilderAdd
<1>4. ASSUME NEW o \in Objects, BuildRoom(o) PROVE RoomsPrivate
  <2>1. /\ UNCHANGED <<location, set>>
        /\ \A p \in DOMAIN room : room'[p] = room[p]
    BY <1>4 DEF BuildRoom, Free, Put
  <2> QED
    BY <1>0, <2>1, RoomsSayTheSame
<1>5. ASSUME NEW o, NEW r, NEW f, NEW s, NEW links,
             o \in Free, s \notin DOMAIN set,
             room' = Put(room, o, r),
             DOMAIN location \subseteq DOMAIN f,
             \A k \in DOMAIN location : f[k] = location[k],
             location' = f,
             set' = Put(set, s, links)
      PROVE  RoomsPrivate
  <2>1. \A p \in DOMAIN room : room'[p] = room[p]
    BY <1>5 DEF Put, Free
  <2>2. /\ DOMAIN set \subseteq DOMAIN Put(set, s, links)
        /\ \A k \in DOMAIN set : Put(set, s, links)[k] = set[k]
    BY <1>5 DEF Put
  <2> QED
    BY <1>0, <1>5, <2>1, <2>2, RoomsSayTheSame
<1>6. ASSUME NEW o \in Objects, NEW c \in Cells \cup {None}, NEW s \in Cells,
             NEW level \in Levels, NewRoom(o, c, level, s)
      PROVE  RoomsPrivate
  <2>1. /\ o \in Free /\ s \notin DOMAIN set
        /\ room' = Put(room, o, [location |-> c, set |-> s])
        /\ location' = Passed(location, c, level)
        /\ set' = Put(set, s, {})
    BY <1>6 DEF NewRoom
  <2> QED
    BY <2>1, <1>5, PassedMap
<1>7. ASSUME NEW o \in Objects, NEW p \in Objects, NEW c \in Cells, NEW s \in Cells,
             ParseRoom(o, p, c, s)
      PROVE  RoomsPrivate
  <2> DEFINE f == Put(location, c, location[room[p].location])
  <2>1. /\ o \in Free /\ s \notin DOMAIN set
        /\ room' = Put(room, o, [location |-> c, set |-> s])
        /\ location' = f
        /\ set' = Put(set, s, set[room[p].set])
    BY <1>7 DEF ParseRoom
  <2>2. /\ DOMAIN location \subseteq DOMAIN f
        /\ \A k \in DOMAIN location : f[k] = location[k]
    BY <1>7 DEF ParseRoom, Put
  <2> HIDE DEF f
  <2> QED
    BY <2>1, <2>2, <1>5
<1>8. ASSUME NEW o \in Objects, NEW level \in Levels, SetLevel(o, level)
      PROVE  RoomsPrivate
  BY <1>8, LevelWritten DEF SetLevel
<1>9. ASSUME NEW o \in Objects, NEW links \in SUBSET Links, ChangeSet(o, links)
      PROVE  RoomsPrivate
  BY <1>9, SetWritten DEF ChangeSet
<1>10. ASSUME NEW o \in Objects, DropRoom(o) PROVE RoomsPrivate
  <2>1. /\ location' = Keep(location, HeldLocations')
        /\ set' = Keep(set, HeldSets')
        /\ room' = Keep(room, Objects \ {o})
    BY <1>10 DEF DropRoom
  <2>2. \A p \in DOMAIN room \cap DOMAIN room' : room'[p] = room[p]
    BY <2>1, KeepMap
  <2> QED
    BY <1>0, <2>1, <2>2, RoomsSayTheSame
<1> QED
  BY <1>1, <1>2, <1>3, <1>4, <1>6, <1>7, <1>8, <1>9, <1>10 DEF RoomNext

(* Whatever is called, and whoever shares with whom: a call that changes what was
   read from JSON changes nothing else. *)
THEOREM ChangesArePrivate == Spec => ChangesStayPrivate
<1>1. Inv /\ [Next]_vars => [DevicesPrivate /\ RoomsPrivate]_vars
  <2> SUFFICES ASSUME Inv, Next PROVE DevicesPrivate /\ RoomsPrivate
    OBVIOUS
  <2>0. DeviceInv /\ RoomInv /\ ObjectType
    BY InvParts DEF DeviceInv
  <2>1. CASE DeviceNext
    <3>1. UNCHANGED <<roomBuilder, room, location, set>>
      BY <2>0, <2>1, DevicesApart DEF roomVars
    <3>2. RoomsPrivate
      BY <3>1 DEF RoomsPrivate, SameRoom, RoomContent
    <3> QED
      BY <2>0, <2>1, <3>2, DevicesStepApart
  <2>2. CASE RoomNext
    <3>1. UNCHANGED <<deviceBuilder, device, class>>
      BY <2>0, <2>2, RoomsApart DEF deviceVars
    <3>2. DevicesPrivate
      BY <3>1 DEF DevicesPrivate, SameDevice, DeviceContent
    <3> QED
      BY <2>0, <2>2, <3>2, RoomsStepApart
  <2> QED
    BY <2>1, <2>2 DEF Next
<1>2. (DevicesPrivate /\ RoomsPrivate)
      <=> /\ \A o \in DOMAIN read \cap DOMAIN device \cap DOMAIN device' :
               ~SameDevice(o) =>
               /\ \A p \in DOMAIN device \cap DOMAIN device' : p = o \/ SameDevice(p)
               /\ DeviceContent(deviceBuilder)' = DeviceContent(deviceBuilder)
          /\ \A o \in DOMAIN read \cap DOMAIN room \cap DOMAIN room' :
               ~SameRoom(o) =>
               /\ \A p \in DOMAIN room \cap DOMAIN room' : p = o \/ SameRoom(p)
               /\ RoomContent(roomBuilder)' = RoomContent(roomBuilder)
  BY DEF DevicesPrivate, RoomsPrivate
<1> QED
  BY <1>1, <1>2, InvHolds, PTL DEF Spec, ChangesStayPrivate

=============================================================================
