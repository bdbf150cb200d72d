----------------------------- MODULE Properties -----------------------------
(***************************************************************************)
(* The properties of a DbusInterface (properties.hpp) and a client that    *)
(* mirrors them.  The application changes them with set_properties, the    *)
(* client with Set; every change is announced with PropertiesChanged, and  *)
(* Get, GetAll and Set are answered on the same connection, so that all of *)
(* it reaches the client in the order it was sent.                         *)
(*                                                                         *)
(* A map is a function on Names, with Absent for a name that has no entry. *)
(***************************************************************************)
EXTENDS Naturals, Sequences, SequencesExt, Mirroring

CONSTANTS
  Names,       \* property names
  Unknown,     \* the client's mirror before its first GetAll is answered
  MaxUpdates,  \* bound: pairs in one call of set_properties
  MaxCalls,    \* bound: method calls by the client
  ForceAny     \* FALSE: the application forces only values that are stored

ASSUME PropertiesAssumption ==
  /\ Absent \notin Values
  /\ MaxUpdates \in Nat /\ MaxChanges \in Nat /\ MaxCalls \in Nat
  /\ ForceAny \in BOOLEAN

VARIABLES
  properties_map,  \* DbusInterface::properties_map
  requests,        \* method calls on their way to the object server
  calls            \* how often the client has acted

vars == <<properties_map, requests, outbox, mirror, changes, calls>>

Pair == [name : Names, value : Values]
UpdateType == {"VALUE_CHANGE_ONLY", "FORCE"}

\* The calls of org.freedesktop.DBus.Properties; found tells whether the object
\* has the interface the call names.
Request ==
  [do : {"Get"}, found : BOOLEAN, name : Names]
    \cup [do : {"GetAll"}, found : BOOLEAN]
    \cup [do : {"Set"}, found : BOOLEAN, name : Names, value : Values]

Changed(updates) == [do |-> "PropertiesChanged", updates |-> updates]
Return(r, value) == [do |-> "return", to |-> r, value |-> value]
Failed(r) == [do |-> "error", to |-> r]

Init ==
  /\ properties_map = [n \in Names |-> Absent]
  /\ requests = <<>>
  /\ outbox = <<>>
  /\ mirror = Unknown
  /\ changes = 0 /\ calls = 0

-----------------------------------------------------------------------------
(* Mutations: plausible mistakes, each of which one of the properties below   *)
(* must notice.  No specification uses them.                                  *)

\* The changed value is stored and not announced.
UpdateSilently(acc, p) ==
  [map |-> [acc.map EXCEPT ![p.name] = p.value], updates |-> acc.updates]

\* Set is answered before the change is announced.
SetRepliesFirst(r, after) ==
  /\ properties_map' = after.map
  /\ outbox' = outbox \o <<Return(r, Absent), Changed(after.updates)>>

-----------------------------------------------------------------------------
(* DbusInterface *)

\* One turn of the loop of set_properties: a value that differs from the stored
\* one, or has no entry yet, is stored and announced.
Update(acc, p) ==
  IF acc.map[p.name] = p.value
    THEN acc
    ELSE [map |-> [acc.map EXCEPT ![p.name] = p.value], updates |-> Append(acc.updates, p)]

\* set_properties: with FORCE everything is announced and nothing is stored.
SetProperties(v, mode) ==
  IF mode = "FORCE"
    THEN [map |-> properties_map, updates |-> v]
    ELSE FoldLeft(Update, [map |-> properties_map, updates |-> <<>>], v)

\* The application calls set_property or set_properties.  A PropertiesChanged
\* signal is sent even when there is nothing to announce.
ApplicationSets(v, mode) ==
  /\ changes < MaxChanges
  /\ changes' = changes + 1
  /\ (mode = "FORCE" /\ ~ForceAny)
       => \A i \in DOMAIN v : properties_map[v[i].name] = v[i].value
  /\ LET after == SetProperties(v, mode)
     IN  /\ properties_map' = after.map
         /\ outbox' = Append(outbox, Changed(after.updates))
  /\ UNCHANGED <<requests, mirror, calls>>

-----------------------------------------------------------------------------
(* The methods DbusObject registers; an exception becomes an error reply *)

\* Get: the value of the property, or "property not found".
GetReply(r) ==
  IF properties_map[r.name] = Absent THEN Failed(r) ELSE Return(r, properties_map[r.name])

\* Set: set_properties announces the change, then the reply is sent.
SetAndReply(r, after) ==
  /\ properties_map' = after.map
  /\ outbox' = outbox \o <<Changed(after.updates), Return(r, Absent)>>

\* The object server runs the next call.
ServeGet ==
  LET r == Head(requests)
  IN  /\ requests # <<>> /\ r.do \in {"Get", "GetAll"} /\ r.found
      /\ outbox' = Append(outbox,
           IF r.do = "Get" THEN GetReply(r) ELSE Return(r, properties_map))
      /\ requests' = Tail(requests)
      /\ UNCHANGED <<properties_map, mirror, changes, calls>>

ServeSet ==
  LET r == Head(requests)
  IN  /\ requests # <<>> /\ r.do = "Set" /\ r.found
      /\ SetAndReply(r, SetProperties(<<[name |-> r.name, value |-> r.value]>>,
                                      "VALUE_CHANGE_ONLY"))
      /\ requests' = Tail(requests)
      /\ UNCHANGED <<mirror, changes, calls>>

\* "interface not found".
ServeNotFound ==
  /\ requests # <<>> /\ ~Head(requests).found
  /\ outbox' = Append(outbox, Failed(Head(requests)))
  /\ requests' = Tail(requests)
  /\ UNCHANGED <<properties_map, mirror, changes, calls>>

-----------------------------------------------------------------------------
(* The client *)

ClientCalls(r) ==
  /\ calls < MaxCalls
  /\ calls' = calls + 1
  /\ requests' = Append(requests, r)
  /\ UNCHANGED <<properties_map, outbox, mirror, changes>>

Assign(map, p) == [map EXCEPT ![p.name] = p.value]

\* The mirror after the client has received message m: GetAll fills it, signals
\* change it.
Apply(map, m) ==
  CASE m.do = "return" /\ m.to.do = "GetAll" -> m.value
    [] m.do = "PropertiesChanged" /\ map # Unknown -> FoldLeft(Assign, map, m.updates)
    [] OTHER -> map

ClientReceives ==
  /\ outbox # <<>>
  /\ mirror' = Apply(mirror, Head(outbox))
  /\ outbox' = Tail(outbox)
  /\ UNCHANGED <<properties_map, requests, changes, calls>>

-----------------------------------------------------------------------------
Next ==
  \/ \E v \in UNION {[1..n -> Pair] : n \in 0..MaxUpdates}, mode \in UpdateType :
       ApplicationSets(v, mode)
  \/ ServeGet \/ ServeSet \/ ServeNotFound
  \/ \E r \in Request : ClientCalls(r)
  \/ ClientReceives

Spec == Init /\ [][Next]_vars

-----------------------------------------------------------------------------
(* Properties *)

\* What the client will believe once it has received the first n messages.
Believed(n) == FoldLeft(Apply, mirror, SubSeq(outbox, 1, n))

\* A client that has asked for everything once and then only listens has the
\* properties right when it has caught up: set_properties announces every change
\* it makes, in the order it makes them, and nothing else.
MirrorCatchesUp ==
  Believed(Len(outbox)) \in {Unknown, properties_map}

\* A client that believes now learns nothing new from reply m.
Agrees(m, now) ==
  (m.do # "PropertiesChanged" /\ m.to.found /\ now # Unknown) =>
    IF m.do = "error" THEN now[m.to.name] = Absent
    ELSE CASE m.to.do = "Get"    -> now[m.to.name] = m.value /\ m.value # Absent
           [] m.to.do = "GetAll" -> now = m.value
           [] m.to.do = "Set"    -> now[m.to.name] = m.to.value

\* A reply never contradicts the announcements that precede it: the value Get
\* returns has been announced, a missing one has not, and a client that has its
\* reply to Set has already been told of the new value.
RepliesAgree == \A i \in DOMAIN outbox : Agrees(outbox[i], Believed(i - 1))
=============================================================================
