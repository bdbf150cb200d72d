--------------------------- MODULE Introspection ----------------------------
(***************************************************************************)
(* DbusObjectServer::get_xml_for_path (properties.hpp) and a client that   *)
(* walks the tree of objects with it, as busctl or d-feet do: it asks for  *)
(* "/", follows the nodes it is shown and notes the interfaces and methods *)
(* it is told of, while the application goes on registering objects,       *)
(* interfaces and methods.                                                 *)
(*                                                                         *)
(* The answer is a conversion of path strings, so a path is a sequence of  *)
(* characters here.  Of the XML only what a client takes from it is kept:  *)
(* the names of the nodes, and the interfaces with their methods or signals.*)
(***************************************************************************)
EXTENDS Naturals, Sequences, SequencesExt, Registry

CONSTANTS
  Paths,       \* the object paths the application may give them
  Interfaces,  \* names of interfaces, "Properties" among them
  Methods,     \* what register_method may be called with; see Method
  MethodName,  \* the names of methods
  Absent,      \* no such interface or method
  MaxAdded     \* bound: calls of add_interface by the application

Slash == "/"
Root == <<Slash>>

\* A handler: the types of its arguments and of its result, whether the result is
\* a tuple, and the names register_method was given for them, if any.  A signal is
\* registered and described like a method without a result (register_signal).
Method ==
  [name : MethodName, in : Seq(STRING), out : Seq(STRING), tuple : BOOLEAN,
   in_names : Seq(STRING), out_names : Seq(STRING)]

\* An interface of an object: which instance it is, and its methods by name.
Interface == [number : Nat, methods : [MethodName -> Methods \cup {Absent}]]

\* An object path as libdbus accepts it: names that are not empty, a slash before each.
IsPath(p) ==
  /\ p \in Seq(STRING) /\ p # <<>> /\ p[1] = Slash
  /\ p = Root \/ Last(p) # Slash
  /\ \A k \in 2..Len(p) : p[k] = Slash => p[k - 1] # Slash

ASSUME IntrospectionAssumption ==
  /\ \A p \in Paths : IsPath(p)
  /\ "Properties" \in Interfaces
  /\ \A m \in Methods : m \in Method /\ (~m.tuple => Len(m.out) = 1)
  /\ Absent \notin Interface
  /\ MaxAdded \in Nat

VARIABLES
  path,        \* object_name of each object, constant
  interfaces,  \* DbusObject::interfaces of each object
  added,       \* how often the application has called add_interface
  known,       \* client: the paths it has heard of
  asked,       \* client: those it has introspected
  learned,     \* client: what it has been told of interfaces
  atStart      \* history: paths and interfaces registered when the walk began

walkVars == <<path, objects, interfaces, added, known, asked, learned, atStart>>
client == <<known, asked, learned, atStart>>

-----------------------------------------------------------------------------
(* Mutations: plausible mistakes, each of which one of the properties below   *)
(* must notice.  No specification uses them.                                  *)

\* "/" is not turned into the empty string.
NewPathKept(p) == p

\* The length of the subnode is counted from the start of the path.
SubnodeLong(name, newpath) ==
  LET from == Len(newpath) + 2
      slashes == {i \in from..Len(name) : name[i] = Slash}
      length == IF slashes = {} THEN Len(name) ELSE Min(slashes) - 1
  IN  SubSeq(name, from, Min({from + length - 1, Len(name)}))

\* A method that is registered again replaces the first one.
RegisterReplaces(methods, m) == [methods EXCEPT ![m.name] = m]

-----------------------------------------------------------------------------
(* What an interface says of its methods *)

\* arg_types: the names given, and a numbered name for the others.  A result that
\* is not a tuple is numbered as if it were an argument.
ArgTypes(in, tuple, types, names) ==
  [k \in DOMAIN types |->
     [direction |-> IF in THEN "in" ELSE "out",
      name |-> IF k <= Len(names) THEN <<"given", names[k]>>
               ELSE <<IF in \/ ~tuple THEN "arg_" ELSE "out_", k - 1>>,
      type |-> types[k]]]

\* The constructor of LambdaDbusMethod: the arguments, then the result.
Args(m) ==
  ArgTypes(TRUE, TRUE, m.in, m.in_names) \o ArgTypes(FALSE, m.tuple, m.out, m.out_names)

\* register_method uses emplace: the first method of a name stays.
Register(methods, m) ==
  IF methods[m.name] = Absent THEN [methods EXCEPT ![m.name] = m] ELSE methods

\* A new DbusInterface, told apart from others of the same name by its number.
NewInterface(n) == [number |-> n, methods |-> [x \in MethodName |-> Absent]]

-----------------------------------------------------------------------------
(* get_xml_for_path *)

NewPath(p) == IF p = Root THEN <<>> ELSE p

\* The part of an object's name between the path and the next slash.
Subnode(name, newpath) ==
  LET from == Len(newpath) + 2
      slashes == {i \in from..Len(name) : name[i] = Slash}
  IN  SubSeq(name, from, IF slashes = {} THEN Len(name) ELSE Min(slashes) - 1)

\* The objects the answer describes.
Exact(p) == {o \in Range(objects) : path[o] = NewPath(p)}

\* node_names: the subnodes that are shown.
Nodes(p) ==
  {Subnode(path[o], NewPath(p)) :
     o \in {x \in Range(objects) \ Exact(p) : IsPrefix(NewPath(p), path[x])}}

\* The interfaces of the objects at the path.  The Peer, ObjectManager and
\* Introspectable interfaces, which are the same for all, and the properties, whose
\* type is that of the value they have just now, are left out.
Described(p) ==
  UNION {{[path |-> p, interface |-> i, number |-> interfaces[o][i].number,
           args |-> [n \in MethodName |->
                       IF interfaces[o][i].methods[n] = Absent THEN Absent
                       ELSE Args(interfaces[o][i].methods[n])]] :
            i \in {j \in Interfaces : interfaces[o][j] # Absent}} : o \in Exact(p)}

-----------------------------------------------------------------------------
(* The application *)

\* The objects exist from the start, with the interface their constructor adds.
WalkInit ==
  /\ path \in [Objects -> Paths]
  /\ objects = <<>>
  /\ interfaces = [o \in Objects |-> [i \in Interfaces |->
                     IF i = "Properties" THEN NewInterface(0) ELSE Absent]]
  /\ added = 0
  /\ known = {} /\ asked = {} /\ learned = {} /\ atStart = {}

AddObject(o) ==
  /\ o \notin Range(objects)
  /\ objects' = Append(objects, o)
  /\ UNCHANGED <<path, interfaces, added, client>>

\* add_interface: an interface of the same name is replaced.
AddInterface(o, i) ==
  /\ added < MaxAdded
  /\ added' = added + 1
  /\ interfaces' = [interfaces EXCEPT ![o][i] = NewInterface(added')]
  /\ UNCHANGED <<path, objects, client>>

RegisterMethod(o, i, m) ==
  /\ interfaces[o][i] # Absent
  /\ interfaces' = [interfaces EXCEPT ![o][i].methods = Register(@, m)]
  /\ UNCHANGED <<path, objects, added, client>>

-----------------------------------------------------------------------------
(* The client *)

StartWalk ==
  /\ known = {}
  /\ known' = {Root}
  /\ atStart' = UNION {{<<path[o], i>> : i \in {j \in Interfaces : interfaces[o][j] # Absent}} :
                         o \in Range(objects)}
  /\ UNCHANGED <<path, objects, interfaces, added, asked, learned>>

\* The path of a node that was shown at path p; an empty name gives no path.
Child(p, node) == NewPath(p) \o Root \o node

\* The client introspects p; on_introspect answers.
Introspect(p) ==
  /\ p \in known \ asked
  /\ asked' = asked \cup {p}
  /\ known' = known \cup {Child(p, n) : n \in Nodes(p) \ {<<>>}}
  /\ learned' = learned \cup Described(p)
  /\ UNCHANGED <<path, objects, interfaces, added, atStart>>

-----------------------------------------------------------------------------
WalkNext ==
  \/ \E o \in Objects : AddObject(o)
  \/ \E o \in Objects, i \in Interfaces : AddInterface(o, i)
  \/ \E o \in Objects, i \in Interfaces, m \in Methods : RegisterMethod(o, i, m)
  \/ StartWalk
  \/ \E p \in known : Introspect(p)

WalkSpec == WalkInit /\ [][WalkNext]_walkVars

-----------------------------------------------------------------------------
(* Properties *)

WalkOver == known # {} /\ known = asked

\* A walk that has come to its end has seen every object that was registered when
\* it began, and every interface these had, however the paths of the objects
\* overlap and whatever is registered meanwhile.  The object at "/" is the
\* exception: its path is found, but get_xml_for_path does not describe it.
WalkFindsEverything ==
  WalkOver => \A x \in atStart :
    /\ x[1] \in asked
    /\ x[1] # Root => \E l \in learned : <<l.path, l.interface>> = x

\* q is p or lies above it in the tree.
Above(q, p) == q \in {Root, p} \/ (IsPrefix(q, p) /\ p[Len(q) + 1] = Slash)

\* No path continues another in the middle of a name, as "/ab" continues "/a", and
\* no object is at "/".
Separated ==
  \A p, q \in {path[o] : o \in Range(objects)} :
    /\ p # Root
    /\ \A n \in 1..Len(q) :
         (q[n] # Slash /\ (n = Len(q) \/ q[n + 1] = Slash))
           => LET s == SubSeq(q, 1, n) IN IsPrefix(s, p) => Above(s, p)

\* Every node that is shown leads to an object, unless one name continues another.
LeadsSomewhere ==
  Separated => \A q \in known : q = Root \/ \E o \in Range(objects) : Above(q, path[o])

\* What a client has been told of a method stays true as long as the interface is
\* not replaced: the arguments it was told to pass are those that the method which a
\* call finds unpacks, one by one, whatever is registered under the same name later.
DescriptionStaysTrue ==
  \A l \in learned, o \in Objects, n \in MethodName :
    ( /\ \A x \in Objects : path[x] = l.path <=> x = o
      /\ interfaces[o][l.interface] # Absent
      /\ interfaces[o][l.interface].number = l.number
      /\ l.args[n] # Absent ) =>
        LET in == {k \in DOMAIN l.args[n] : l.args[n][k].direction = "in"}
            called == interfaces[o][l.interface].methods[n]
        IN  /\ called # Absent /\ in = DOMAIN called.in
            /\ \A k \in in : l.args[n][k].type = called.in[k]
=============================================================================
