--------------------------- MODULE ObjectManager ----------------------------
(***************************************************************************)
(* How a client keeps track of the objects of a DbusObjectServer           *)
(* (properties.hpp): it subscribes to the signals, asks for                *)
(* GetManagedObjects once, and from then on follows InterfacesAdded, which *)
(* DbusObject::register_interface sends, and PropertiesChanged.  Signals   *)
(* and replies share one connection and arrive in the order they were sent.*)
(*                                                                         *)
(* Each object has a path of its own, and each interface one property.  An *)
(* instance is a DbusInterface; it may be registered with several objects, *)
(* and it may be set before it is registered and after it was replaced.    *)
(***************************************************************************)
EXTENDS Naturals, Sequences, SequencesExt, Registry, Mirroring

CONSTANTS
  Instances,   \* DbusInterface instances the application makes
  Interfaces,  \* names of interfaces
  Name         \* the name of each instance

ASSUME ManagerAssumption ==
  /\ Name \in [Instances -> Interfaces]
  /\ Absent \notin Values \cup Instances \cup Objects
  /\ MaxChanges \in Nat

VARIABLES
  constructed,  \* objects that exist
  interfaces,   \* DbusObject::interfaces of each object
  object_name,  \* DbusInterface::object_name of each instance, or Absent
  value,        \* the property of each instance
  endpoint,     \* the static endpoint of register_interface: the object all its signals are from
  client,       \* the type the client unpacks a path as, and the paths its match rules name
  phase,        \* client: "new", "subscribed", "asked" or "answered"
  overlooked,   \* history: objects nobody has told the client of
  speaker       \* history: whose value the client was told last, for each interface, or Absent

server == <<constructed, objects, interfaces, object_name, value, changes, endpoint>>
managerVars == <<server, outbox, client, phase, mirror, overlooked, speaker>>

\* The type an object's path is packed as: a string or an object path.
PathTypes == {"s", "o"}

\* What is known of an interface: nothing (<<>>), that it has no value yet (<<Absent>>), or
\* the value (<<v>>).
NothingKnown == [o \in Objects |-> [i \in Interfaces |-> <<>>]]

ManagerInit ==
  /\ constructed = {} /\ objects = <<>>
  /\ interfaces = [o \in Objects |-> [i \in Interfaces |-> Absent]]
  /\ object_name = [x \in Instances |-> Absent]
  /\ value = [x \in Instances |-> Absent]
  /\ changes = 0 /\ endpoint = Absent
  /\ client \in [type : PathTypes, paths : SUBSET Objects \ {{}}]
  /\ outbox = <<>> /\ phase = "new" /\ mirror = NothingKnown
  /\ overlooked = {} /\ speaker = interfaces

-----------------------------------------------------------------------------
(* Mutations: plausible mistakes, each of which one of the properties below   *)
(* must notice.  No specification uses them.                                  *)

\* InterfacesAdded is sent without the properties.
AddedBare(o, x) ==
  [do |-> "InterfacesAdded", from |-> endpoint, type |-> "s", object |-> o,
   interface |-> Name[x], known |-> <<Absent>>]

\* The interface is put in its place without a signal.
EmitInterfacesAddedNot(o, x) == outbox

-----------------------------------------------------------------------------
(* Messages *)

\* The client makes something of a signal if it has subscribed, a match rule of its names
\* the path the signal is from, and InterfacesAdded holds the type of path it unpacks.
Heard(m) ==
  /\ phase # "new"
  /\ m.from \in client.paths
  /\ m.do = "InterfacesAdded" => m.type = client.type

Emit(m) == IF Heard(m) THEN Append(outbox, m) ELSE outbox

\* InterfacesAdded with the properties the interface has at that moment.  The path of
\* the object is packed as a string.
Added(o, x) ==
  [do |-> "InterfacesAdded", from |-> endpoint, type |-> "s", object |-> o,
   interface |-> Name[x], known |-> <<value[x]>>]

\* PropertiesChanged, from the object it is about; without a change there is nothing in it.
PropertyChanged(x, known) ==
  [do |-> "PropertiesChanged", from |-> object_name[x], type |-> "o", object |-> object_name[x],
   interface |-> Name[x], known |-> known]

\* on_get_managed_objects: every interface of every object, with its properties.
Managed ==
  [o \in Objects |-> [i \in Interfaces |->
     IF o \notin Range(objects) \/ interfaces[o][i] = Absent THEN <<>>
     ELSE <<value[interfaces[o][i]]>>]]

-----------------------------------------------------------------------------
(* The application *)

\* The endpoint is set by the first call of register_interface in the program.
Endpoint(o) == IF endpoint = Absent THEN o ELSE endpoint

\* The constructor of DbusObject.  It registers the Properties interface, which is the same
\* for all objects and left out but for the endpoint.
Construct(o) ==
  /\ o \notin constructed
  /\ constructed' = constructed \cup {o}
  /\ endpoint' = Endpoint(o)
  /\ UNCHANGED <<objects, interfaces, object_name, value, changes, outbox, client, phase,
                 mirror, overlooked, speaker>>

EmitInterfacesAdded(o, x) == Emit(Added(o, x))

\* register_interface: one of the same name is replaced, and from now on the instance
\* sends its signals for this object.
RegisterInterface(o, x) ==
  /\ o \in constructed
  /\ changes < MaxChanges
  /\ changes' = changes + 1
  /\ interfaces' = [interfaces EXCEPT ![o][Name[x]] = x]
  /\ object_name' = [object_name EXCEPT ![x] = o]
  /\ outbox' = EmitInterfacesAdded(o, x)
  /\ speaker' = [speaker EXCEPT ![o][Name[x]] = IF Heard(Added(o, x)) THEN x ELSE Absent]
  /\ UNCHANGED <<constructed, objects, value, endpoint, client, phase, mirror, overlooked>>

Listed(o) == Append(objects, o)

\* register_object: no signal.
RegisterObject(o) ==
  /\ o \in constructed \ Range(objects)
  /\ objects' = Listed(o)
  /\ UNCHANGED <<constructed, interfaces, object_name, value, changes, endpoint, outbox,
                 client, phase, mirror, overlooked, speaker>>

\* set_property, whether or not the object whose path the instance has still has it.
\* Before it is registered the path is empty and libdbus makes no signal of it (the
\* process may also end there, as a behaviour may at any point).
SetProperty(x, v) ==
  LET m == PropertyChanged(x, IF value[x] = v THEN <<>> ELSE <<v>>)
      o == object_name[x]
  IN  /\ changes < MaxChanges
      /\ changes' = changes + 1
      /\ value' = [value EXCEPT ![x] = v]
      /\ outbox' = IF o = Absent THEN outbox ELSE Emit(m)
      /\ speaker' = IF o # Absent /\ Heard(m) /\ m.known # <<>>
                    THEN [speaker EXCEPT ![o][Name[x]] = x] ELSE speaker
      /\ UNCHANGED <<constructed, objects, interfaces, object_name, endpoint, client, phase,
                     mirror, overlooked>>

\* GetManagedObjects is answered.
Answer ==
  /\ phase = "asked"
  /\ phase' = "answered"
  /\ outbox' = Append(outbox, [do |-> "return", managed |-> Managed])
  /\ overlooked' = overlooked \ Range(objects)
  /\ speaker' = [o \in Objects |-> IF o \in Range(objects) THEN interfaces[o] ELSE speaker[o]]
  /\ UNCHANGED <<server, client, mirror>>

-----------------------------------------------------------------------------
(* The client *)

\* The bus has the client's match rules.
Subscribe ==
  /\ phase = "new"
  /\ phase' = "subscribed"
  /\ overlooked' = constructed
  /\ UNCHANGED <<server, outbox, client, mirror, speaker>>

Ask ==
  /\ phase = "subscribed"
  /\ phase' = "asked"
  /\ UNCHANGED <<server, outbox, client, mirror, overlooked, speaker>>

\* The mirror after message m.  A change of an interface the client has not heard
\* of tells it nothing.
Follow(known, m) ==
  CASE m.do = "InterfacesAdded" -> [known EXCEPT ![m.object][m.interface] = m.known]
    [] m.do = "PropertiesChanged" ->
         [known EXCEPT ![m.object][m.interface] =
            IF @ = <<>> \/ m.known = <<>> THEN @ ELSE m.known]
    [] m.do = "return" ->
         [o \in Objects |-> [i \in Interfaces |->
            IF m.managed[o][i] = <<>> THEN known[o][i] ELSE m.managed[o][i]]]

Receive ==
  /\ outbox # <<>>
  /\ mirror' = Follow(mirror, Head(outbox))
  /\ outbox' = Tail(outbox)
  /\ UNCHANGED <<server, client, phase, overlooked, speaker>>

-----------------------------------------------------------------------------
ManagerNext ==
  \/ \E o \in Objects : Construct(o) \/ RegisterObject(o)
  \/ \E o \in Objects, x \in Instances : RegisterInterface(o, x)
  \/ \E x \in Instances, v \in Values : SetProperty(x, v)
  \/ Answer \/ Subscribe \/ Ask \/ Receive

ManagerSpec == ManagerInit /\ [][ManagerNext]_managerVars

-----------------------------------------------------------------------------
(* Properties *)

\* What the client will know once it has received everything that is on its way.
CaughtUp == FoldLeft(Follow, mirror, outbox)

\* What the client knows of an interface is right when it has caught up, in whatever
\* order objects, interfaces and values came: it is the value of the instance it was last
\* told of, for the signals describe every change and the answer to GetManagedObjects does
\* not undo what came before it.  That is the instance in use, unless one that was replaced
\* is set afterwards: it still has the object's path, and speaks in the name of its
\* successor.  An instance that was registered with a second object no longer speaks for
\* the first.  A client that does not hear of a new instance is right again only after the
\* instance's next change, and one hears of changes only of objects it has match rules for.
MirrorIsRight ==
  \A o \in client.paths, i \in Interfaces :
    LET x == speaker[o][i]
    IN  (CaughtUp[o][i] # <<>> /\ x # Absent /\ object_name[x] = o)
          => CaughtUp[o][i] = <<value[x]>>

\* InterfacesAdded reaches a client that unpacks the path as a string, not as the object
\* path that the introspection data declares, and whose match rules accept signals from
\* the object that was constructed first.
HearsAdded == client.type = "s" /\ endpoint \in client.paths

\* A client that hears InterfacesAdded and has had its answer knows every interface of
\* every registered object when it has caught up, except for objects that existed when it
\* subscribed and were registered with the server only after the answer.
NothingMissed ==
  (phase = "answered" /\ HearsAdded) =>
    \A o \in Range(objects) \ overlooked, i \in Interfaces :
      interfaces[o][i] # Absent => CaughtUp[o][i] # <<>>
=============================================================================
