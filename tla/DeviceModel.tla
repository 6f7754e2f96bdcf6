----------------------------- MODULE DeviceModel -----------------------------
(***************************************************************************)
(* The data model of src/model: devices with a device class, rooms with a  *)
(* location and sets of uuids, their builders, DeviceMap, and the JSON     *)
(* that clients send and the server reads.                                 *)
(*                                                                         *)
(* Classes, locations and sets are reached through shared_ptr.  A cell is  *)
(* such an object; it is gone when nothing points to it.  Builders hand    *)
(* out the pointers they hold, setters and constructors store the pointer  *)
(* that the caller passes, a copied device has the pointer of the          *)
(* original, and parse makes new objects: who says what when one of them   *)
(* is changed is what this module is about.  A change through a pointer    *)
(* that a caller kept is one through whoever holds it.                     *)
(*                                                                         *)
(* Plain members that are copied as they are (bluetoothMac, roomId, sensor *)
(* type and value, x, y, the id and the states of a room) are left out,    *)
(* and the set of links stands for staticDevices and dynamicDevices too.   *)
(* nullptr is not passed for a set: the next call on it would be undefined. *)
(***************************************************************************)
EXTENDS Integers, Functions

CONSTANTS
  Uuids,       \* with "", the uuid of a new DeviceBuilder
  Links,       \* elements of a set: ids of rooms (or uuids of devices)
  Objects,     \* bound of the model: devices and rooms at once
  Cells,       \* bound of the model: shared objects of a kind at once
  Levels,      \* levels that callers ask for
  NewClasses,  \* bound of the model: the contents of a class that callers set
  None

Classes == [classId : 1 .. 3, alertState : BOOLEAN, aliveState : BOOLEAN]

ASSUME DeviceModelAssumption ==
  /\ "" \in Uuids
  /\ NewClasses \subseteq Classes
  /\ Levels \subseteq Int
  /\ None \notin Cells

VARIABLES
  deviceBuilder,  \* its uuid and its class
  device,         \* the devices there are
  class,          \* the DeviceClass objects
  map,            \* a DeviceMap: the device stored under each key
  renamed,        \* history: keys whose device got another uuid since
  roomBuilder,    \* its location and its set
  room,           \* the rooms there are
  location,       \* the Location objects: their level
  set,            \* the MySet objects
  read            \* history: the text that devices and rooms were read from,
                  \* until they are changed or their parts are handed on

deviceVars == <<deviceBuilder, device, class, map, renamed>>
roomVars   == <<roomBuilder, room, location, set>>
vars == <<deviceVars, roomVars, read>>

Free == Objects \ (DOMAIN device \cup DOMAIN room)

(* Mutant: a builder does not own its class. *)
HeldClassesOfDevices == {device[o].class : o \in DOMAIN device}

(* What shared_ptr keeps: the cells somebody points to. *)
HeldClasses == {deviceBuilder.class} \cup {device[o].class : o \in DOMAIN device}
HeldLocations == {roomBuilder.location} \cup {room[o].location : o \in DOMAIN room}
HeldSets      == {roomBuilder.set} \cup {room[o].set : o \in DOMAIN room}

Keep(f, S) == Restrict(f, S \cap DOMAIN f)

(* f with the value v for x, a new argument or not. *)
Put(f, x, v) == [y \in DOMAIN f \cup {x} |-> IF y = x THEN v ELSE f[y]]

(* The pointer x is passed: nullptr, that of an object that is there already, or
   that of a new object with the contents v. *)
Passed(f, x, v) == IF x \in DOMAIN f \cup {None} THEN f ELSE Put(f, x, v)

(* Whoever is in S was changed, or what it points to was handed on. *)
Forget(S) == read' = Keep(read, Objects \ S)

ClassHolders(c)    == {o \in DOMAIN device : device[o].class = c}
LocationHolders(c) == {o \in DOMAIN room : room[o].location = c}
SetHolders(s)      == {o \in DOMAIN room : room[o].set = s}

Init ==
  /\ deviceBuilder = [uuid |-> "", class |-> None]
  /\ device = <<>>
  /\ class = <<>>
  /\ map = <<>>
  /\ renamed = {}
  /\ \E s \in Cells : /\ roomBuilder = [location |-> None, set |-> s]
                      /\ set = [x \in {s} |-> {}]
  /\ room = <<>>
  /\ location = <<>>
  /\ read = <<>>

-----------------------------------------------------------------------------
(* JSON.                                                                     *)

BoolJson(b) == IF b THEN 1 ELSE 0

(* Mutant: the keys of the two states are swapped. *)
ClassJsonSwapped(c) ==
  [ci |-> c.classId, ar |-> BoolJson(c.aliveState), al |-> BoolJson(c.alertState)]

ClassJson(c) ==
  [ci |-> c.classId, ar |-> BoolJson(c.alertState), al |-> BoolJson(c.aliveState)]

(* A new object of the class that "ci" names; nullptr if there is none. *)
ParseClass(json) ==
  IF json.ci \in 1 .. 3
  THEN [classId |-> json.ci, alertState |-> json.ar # 0, aliveState |-> json.al # 0]
  ELSE None

DeviceJson(o) ==
  [id |-> device[o].uuid, dt |-> device[o].deviceType,
   cl |-> ClassJson(class[device[o].class])]

(* The device with its class in place; the type follows from the constructor
   that "dt" selects, and a nullptr comes back as None. *)
ParseDevice(json) ==
  IF json.dt \in {"s", "d"}
  THEN [uuid |-> json.id, deviceType |-> json.dt, class |-> ParseClass(json.cl)]
  ELSE None

(* Mutant: a parsed map keeps the keys of the JSON object. *)
ParsedUnderKey(k) == k

(* DeviceMap::parse drops the keys and adds each device under its uuid. *)
ParsedUnder(k) == ParseDevice(DeviceJson(map[k])).uuid

(* What can be read through a device or a room, or through a builder. *)
DeviceContent(d) ==
  <<d.uuid, IF d.class = None THEN None ELSE ClassJson(class[d.class])>>

RoomContent(r) ==
  <<IF r.location = None THEN None ELSE location[r.location], set[r.set]>>

-----------------------------------------------------------------------------
(* Devices.                                                                  *)

BuilderSetUuid(u) ==
  /\ deviceBuilder' = [deviceBuilder EXCEPT !.uuid = u]
  /\ UNCHANGED <<device, class, map, renamed, roomVars, read>>

BuilderSetDeviceClass(c, v) ==
  /\ deviceBuilder' = [deviceBuilder EXCEPT !.class = c]
  /\ UNCHANGED device
  /\ class' = Keep(Passed(class, c, v), HeldClasses')
  /\ Forget(ClassHolders(c))
  /\ UNCHANGED <<map, renamed, roomVars>>

(* buildStatic and buildDynamic; without a class the constructor throws. *)
BuildDevice(o, type) ==
  /\ o \in Free
  /\ deviceBuilder.class # None
  /\ device' = Put(device, o, [uuid |-> deviceBuilder.uuid, deviceType |-> type,
                              class |-> deviceBuilder.class])
  /\ UNCHANGED <<deviceBuilder, class, map, renamed, roomVars, read>>

(* The constructors of StaticDevice and DynamicDevice. *)
NewDevice(o, u, type, c, v) ==
  /\ o \in Free
  /\ device' = Put(device, o, [uuid |-> u, deviceType |-> type, class |-> c])
  /\ class' = Passed(class, c, v)
  /\ Forget(ClassHolders(c))
  /\ UNCHANGED <<deviceBuilder, map, renamed, roomVars>>

(* Mutant: the device that was read points to the class of the original. *)
ParseIntoSharing(o, p, c) ==
  /\ o \in Free
  /\ p \in DOMAIN device
  /\ c = device[p].class
  /\ device' = Put(device, o, device[p])
  /\ read' = Put(read, o, DeviceContent(device[p]))
  /\ UNCHANGED <<deviceBuilder, class, map, renamed, roomVars>>

(* Device::parse of what toJson made of p. *)
ParseInto(o, p, c) ==
  /\ o \in Free
  /\ p \in DOMAIN device
  /\ c \notin DOMAIN class
  /\ LET d == ParseDevice(DeviceJson(p))
     IN  /\ device' = Put(device, o, [d EXCEPT !.class = c])
         /\ class' = Put(class, c, d.class)
  /\ read' = Put(read, o, DeviceContent(device[p]))
  /\ UNCHANGED <<deviceBuilder, map, renamed, roomVars>>

SetUuid(o, u) ==
  /\ o \in DOMAIN device
  /\ u # device[o].uuid
  /\ device' = [device EXCEPT ![o].uuid = u]
  /\ renamed' = renamed \cup {k \in DOMAIN map : map[k] = o}
  /\ Forget({o})
  /\ UNCHANGED <<deviceBuilder, class, map, roomVars>>

(* getDeviceClass()->setAlertState and setAliveState. *)
SetStates(o, v) ==
  /\ o \in DOMAIN device
  /\ class' = [class EXCEPT ![device[o].class].alertState = v.alertState,
                            ![device[o].class].aliveState = v.aliveState]
  /\ Forget({o})
  /\ UNCHANGED <<deviceBuilder, device, map, renamed, roomVars>>

(* A nullptr is refused before anything is assigned. *)
SetDeviceClass(o, c, v) ==
  /\ o \in DOMAIN device
  /\ device' = [device EXCEPT ![o].class = c]
  /\ UNCHANGED deviceBuilder
  /\ class' = Keep(Passed(class, c, v), HeldClasses')
  /\ Forget({o} \cup ClassHolders(c))
  /\ UNCHANGED <<map, renamed, roomVars>>

(* The last pointer goes; a map holds a pointer too. *)
DropDevice(o) ==
  /\ o \in DOMAIN device \ Range(map)
  /\ device' = Keep(device, Objects \ {o})
  /\ UNCHANGED deviceBuilder
  /\ class' = Keep(class, HeldClasses')
  /\ Forget({o})
  /\ UNCHANGED <<map, renamed, roomVars>>

(* insert keeps what is stored under the key already. *)
MapAdd(o) ==
  /\ o \in DOMAIN device
  /\ map' = IF device[o].uuid \in DOMAIN map THEN map
            ELSE Put(map, device[o].uuid, o)
  /\ UNCHANGED <<deviceBuilder, device, class, renamed, roomVars, read>>

(* add(T) stores a copy of the device, and drops it again if the key is there. *)
MapAddCopy(o, copy) ==
  /\ o \in DOMAIN device
  /\ copy \in Free
  /\ device[o].uuid \notin DOMAIN map
  /\ device' = Put(device, copy, device[o])
  /\ map' = Put(map, device[o].uuid, copy)
  /\ Forget({o})
  /\ UNCHANGED <<deviceBuilder, class, renamed, roomVars>>

MapRemove(keys) ==
  /\ map' = Keep(map, Uuids \ keys)
  /\ renamed' = renamed \ keys
  /\ UNCHANGED <<deviceBuilder, device, class, roomVars, read>>

-----------------------------------------------------------------------------
(* Rooms.                                                                    *)

(* Location::setLevel throws before it assigns, also in constructors and in
   LocationBuilder::build. *)
Refused(level) == level = 0

BuilderSetLocation(c, level) ==
  /\ ~Refused(level)
  /\ roomBuilder' = [roomBuilder EXCEPT !.location = c]
  /\ UNCHANGED room
  /\ location' = Keep(Passed(location, c, level), HeldLocations')
  /\ Forget(LocationHolders(c))
  /\ UNCHANGED <<deviceVars, set>>

(* setLinks, setStaticDevices or setDynamicDevices; a new set is empty. *)
BuilderSetSet(s) ==
  /\ roomBuilder' = [roomBuilder EXCEPT !.set = s]
  /\ UNCHANGED room
  /\ set' = Keep(Passed(set, s, {}), HeldSets')
  /\ Forget(SetHolders(s))
  /\ UNCHANGED <<deviceVars, location>>

(* addLink; addStaticDevice and addDynamicDevice add the uuid of a device. *)
BuilderAdd(link) ==
  /\ set' = [set EXCEPT ![roomBuilder.set] = @ \cup {link}]
  /\ UNCHANGED <<deviceVars, roomBuilder, room, location, read>>

(* RoomBuilder::build puts its own pointers in place of what Room made. *)
BuildRoom(o) ==
  /\ o \in Free
  /\ room' = Put(room, o, roomBuilder)
  /\ UNCHANGED <<deviceVars, roomBuilder, location, set, read>>

(* The constructor Room(id, location): the sets are new. *)
NewRoom(o, c, level, s) ==
  /\ o \in Free
  /\ s \notin DOMAIN set
  /\ ~Refused(level)
  /\ room' = Put(room, o, [location |-> c, set |-> s])
  /\ location' = Passed(location, c, level)
  /\ set' = Put(set, s, {})
  /\ Forget(LocationHolders(c))
  /\ UNCHANGED <<deviceVars, roomBuilder>>

(* Mutant: the set is not copied. *)
ParseRoomSharing(o, p, c, s) ==
  /\ o \in Free
  /\ p \in DOMAIN room
  /\ room[p].location # None
  /\ c \notin DOMAIN location
  /\ s = room[p].set
  /\ room' = Put(room, o, [location |-> c, set |-> s])
  /\ location' = Put(location, c, location[room[p].location])
  /\ read' = Put(read, o, RoomContent(room[p]))
  /\ UNCHANGED <<deviceVars, roomBuilder, set>>

(* Room::parse of what toJson made of p, which has no answer for a room without
   a location. *)
ParseRoom(o, p, c, s) ==
  /\ o \in Free
  /\ p \in DOMAIN room
  /\ room[p].location # None
  /\ c \notin DOMAIN location
  /\ s \notin DOMAIN set
  /\ room' = Put(room, o, [location |-> c, set |-> s])
  /\ location' = Put(location, c, location[room[p].location])
  /\ set' = Put(set, s, set[room[p].set])
  /\ read' = Put(read, o, RoomContent(room[p]))
  /\ UNCHANGED <<deviceVars, roomBuilder>>

(* getLocation()->setLevel. *)
SetLevel(o, level) ==
  /\ o \in DOMAIN room
  /\ room[o].location # None
  /\ ~Refused(level)
  /\ location' = [location EXCEPT ![room[o].location] = level]
  /\ Forget({o})
  /\ UNCHANGED <<deviceVars, roomBuilder, room, set>>

(* add, remove and clear of one of the room's sets. *)
ChangeSet(o, links) ==
  /\ o \in DOMAIN room
  /\ \/ \E l \in Links : links \in {set[room[o].set] \cup {l}, set[room[o].set] \ {l}}
     \/ links = {}
  /\ set' = [set EXCEPT ![room[o].set] = links]
  /\ Forget({o})
  /\ UNCHANGED <<deviceVars, roomBuilder, room, location>>

DropRoom(o) ==
  /\ o \in DOMAIN room
  /\ room' = Keep(room, Objects \ {o})
  /\ UNCHANGED roomBuilder
  /\ location' = Keep(location, HeldLocations')
  /\ set' = Keep(set, HeldSets')
  /\ Forget({o})
  /\ UNCHANGED deviceVars

-----------------------------------------------------------------------------

DeviceNext ==
  \/ \E u \in Uuids : BuilderSetUuid(u)
  \/ \E c \in Cells \cup {None}, v \in NewClasses : BuilderSetDeviceClass(c, v)
  \/ \E o \in Objects :
       \/ \E type \in {"s", "d"} : BuildDevice(o, type)
       \/ \E u \in Uuids, type \in {"s", "d"}, c \in Cells, v \in NewClasses :
            NewDevice(o, u, type, c, v)
       \/ \E p \in Objects, c \in Cells : ParseInto(o, p, c)
       \/ \E u \in Uuids : SetUuid(o, u)
       \/ \E v \in NewClasses : SetStates(o, v)
       \/ \E c \in Cells, v \in NewClasses : SetDeviceClass(o, c, v)
       \/ DropDevice(o)
       \/ MapAdd(o)
       \/ \E copy \in Objects : MapAddCopy(o, copy)
  \/ \E keys \in {{u} : u \in Uuids} \cup {Uuids} : MapRemove(keys)

RoomNext ==
  \/ \E c \in Cells \cup {None}, level \in Levels : BuilderSetLocation(c, level)
  \/ \E s \in Cells : BuilderSetSet(s)
  \/ \E link \in Links : BuilderAdd(link)
  \/ \E o \in Objects :
       \/ BuildRoom(o)
       \/ \E c \in Cells \cup {None}, s \in Cells, level \in Levels :
            NewRoom(o, c, level, s)
       \/ \E p \in Objects, c, s \in Cells : ParseRoom(o, p, c, s)
       \/ \E level \in Levels : SetLevel(o, level)
       \/ \E links \in SUBSET Links : ChangeSet(o, links)
       \/ DropRoom(o)

Next == DeviceNext \/ RoomNext

Spec == Init /\ [][Next]_vars

-----------------------------------------------------------------------------
(* Properties.                                                               *)

TypeOK ==
  /\ deviceBuilder \in [uuid : Uuids, class : DOMAIN class \cup {None}]
  /\ device \in [DOMAIN device -> [uuid : Uuids, deviceType : {"s", "d"},
                                   class : DOMAIN class]]
  /\ class \in [DOMAIN class -> Classes]
  /\ map \in [DOMAIN map -> DOMAIN device]
  /\ renamed \subseteq DOMAIN map /\ DOMAIN map \subseteq Uuids
  /\ roomBuilder \in [location : DOMAIN location \cup {None}, set : DOMAIN set]
  /\ room \in [DOMAIN room -> [location : DOMAIN location \cup {None},
                               set : DOMAIN set]]
  /\ location \in [DOMAIN location -> Int]
  /\ set \in [DOMAIN set -> SUBSET Links]
  /\ DOMAIN read \subseteq DOMAIN device \cup DOMAIN room
  /\ DOMAIN device \cap DOMAIN room = {}
  /\ DOMAIN device \cup DOMAIN room \subseteq Objects
  /\ DOMAIN class \cup DOMAIN location \cup DOMAIN set \subseteq Cells

(* What the server parses is the device the client had, class and states
   included, whatever was done to the device before. *)
JsonReadsBack ==
  \A o \in DOMAIN device :
    ParseDevice(DeviceJson(o)) = [device[o] EXCEPT !.class = class[device[o].class]]

(* A device or a room that was read from JSON says what the text said, whatever
   is done to the original, to copies of it and to the builders, for as long as
   nobody changes it or hands on what it points to. *)
ReadStaysAsRead ==
  /\ \A o \in DOMAIN read \cap DOMAIN device : DeviceContent(device[o]) = read[o]
  /\ \A o \in DOMAIN read \cap DOMAIN room : RoomContent(room[o]) = read[o]

SameDevice(o) == DeviceContent(device[o])' = DeviceContent(device[o])
SameRoom(o)   == RoomContent(room[o])' = RoomContent(room[o])

(* The other way round: a call that changes a device or a room as it was read
   changes no other, and nothing that a builder would build. *)
ChangesStayPrivate ==
  [][/\ \A o \in DOMAIN read \cap DOMAIN device \cap DOMAIN device' :
          ~SameDevice(o) =>
            /\ \A p \in DOMAIN device \cap DOMAIN device' : p = o \/ SameDevice(p)
            /\ DeviceContent(deviceBuilder)' = DeviceContent(deviceBuilder)
     /\ \A o \in DOMAIN read \cap DOMAIN room \cap DOMAIN room' :
          ~SameRoom(o) =>
            /\ \A p \in DOMAIN room \cap DOMAIN room' : p = o \/ SameRoom(p)
            /\ RoomContent(roomBuilder)' = RoomContent(roomBuilder)]_vars

(* A DeviceMap that is written and read again has each device under its own
   uuid, and no device takes the place of another one, unless one of them was
   renamed in the map. *)
MapReadsBack ==
  /\ \A k \in DOMAIN map : ParsedUnder(k) = device[map[k]].uuid
  /\ \A k \in DOMAIN map \ renamed : ParsedUnder(k) = k
  /\ \A k, l \in DOMAIN map :
       ParsedUnder(k) = ParsedUnder(l) => k = l \/ {k, l} \cap renamed # {}

-----------------------------------------------------------------------------
(* The inductive invariant behind these properties.                          *)

(* What was read shares its parts with nobody. *)
ReadDevicesAlone ==
  \A o \in DOMAIN read \cap DOMAIN device :
    /\ device[o].class # deviceBuilder.class
    /\ \A p \in ClassHolders(device[o].class) : p = o

ReadRoomsAlone ==
  \A o \in DOMAIN read \cap DOMAIN room :
    /\ room[o].location \notin {None, roomBuilder.location}
    /\ room[o].set # roomBuilder.set
    /\ \A p \in LocationHolders(room[o].location) \cup SetHolders(room[o].set) : p = o

(* A device that was not renamed in the map is stored under its uuid. *)
StoredUnderUuid == \A k \in DOMAIN map \ renamed : device[map[k]].uuid = k

Inv ==
  /\ TypeOK
  /\ ReadDevicesAlone
  /\ ReadRoomsAlone
  /\ ReadStaysAsRead
  /\ StoredUnderUuid

=============================================================================
