-------------------------------- MODULE Codec -------------------------------
(***************************************************************************)
(* message::packer and message::unpacker (message.hpp), and the type codes *)
(* and signatures of element.hpp: C++ values on one side, the arguments of *)
(* a D-Bus message on the other.                                           *)
(*                                                                         *)
(* A C++ type is a record: a basic type with its code, a variant with the  *)
(* codes of its alternatives, a vector, a map, or a pair.  An argument is  *)
(* a tree of type codes; libdbus keeps it as it is.  A payload is a small  *)
(* number, whatever its type.  Allocation failures and strings that        *)
(* libdbus refuses are left out.                                           *)
(***************************************************************************)
EXTENDS Naturals, Sequences, FiniteSets, SequencesExt

CONSTANTS
  Payloads,      \* what a basic value may be, a set of numbers
  Types,         \* the types that pack and unpack are instantiated with
  MaxItems,      \* bound: elements of a container
  MaxArgs,       \* bound: arguments of a message
  Reused,        \* the types of variables that may hold something before unpack
  Unset          \* a variable that unpack has not written

ASSUME CodecAssumption ==
  /\ Payloads \subseteq Nat
  /\ MaxItems \in Nat /\ MaxArgs \in Nat
  /\ Reused \subseteq Types
  /\ Unset \notin Payloads

Basic(c) == [kind |-> "basic", code |-> c]
Variant(codes) == [kind |-> "variant", codes |-> codes]
Vector(t) == [kind |-> "vector", of |-> t]
PairOf(k, v) == [kind |-> "pair", key |-> k, value |-> v]
Map(k, v) == [kind |-> "map", of |-> PairOf(k, v)]

VARIABLES
  message,  \* the arguments of the message
  packed,   \* history: what was packed, with its type
  result    \* the last unpack: the types asked for, what it returned, and the
            \* variables before and after it

vars == <<message, packed, result>>

RECURSIVE ValuesOf(_)
\* The values of a type, within the bounds.  A map is its set of pairs.
ValuesOf(t) ==
  CASE t.kind = "basic"   -> Payloads
    [] t.kind = "variant" -> [code : t.codes, value : Payloads]
    [] t.kind = "pair"    -> [key : ValuesOf(t.key), value : ValuesOf(t.value)]
    [] t.kind = "vector"  -> UNION {[1..n -> ValuesOf(t.of)] : n \in 0..MaxItems}
    [] t.kind = "map"     ->
         {m \in SUBSET ValuesOf(t.of) :
            /\ Cardinality(m) <= MaxItems
            /\ \A x, y \in m : x.key = y.key => x = y}

-----------------------------------------------------------------------------
(* Mutations: plausible mistakes, each of which one of the properties below   *)
(* must notice.  No specification uses them.                                  *)

\* unpack forgets next(): every variable is read from the first argument.
ArgFirst(i) == IF message # <<>> THEN message[1] ELSE [code |-> "invalid"]

\* The alternatives of the variant are all tried, without a look at the code: the
\* last one wins, with nothing unpacked into it.
TakeVariantLast(t, w, old) ==
  IF w.code # "v" THEN [ok |-> FALSE, value |-> old]
  ELSE [ok |-> TRUE, value |-> [code |-> CHOOSE c \in t.codes : TRUE, value |-> 0]]

\* insert_or_assign in place of emplace: the last pair with a key wins.
EmplaceOver(m, p) == {x \in m : x.key # p.key} \cup {p}

-----------------------------------------------------------------------------
(* element.hpp *)

RECURSIVE Signature(_)
\* element_signature: the type code, or those of a container and what it holds.
Signature(t) ==
  CASE t.kind = "basic"            -> <<t.code>>
    [] t.kind = "variant"          -> <<"v">>
    [] t.kind \in {"vector", "map"} -> <<"a">> \o Signature(t.of)
    [] t.kind = "pair"             -> <<"{">> \o Signature(t.key) \o Signature(t.value) \o <<"}">>

-----------------------------------------------------------------------------
(* packer *)

\* The elements of a container in the order of its iterators: a flat_map is
\* sorted by its keys.
Elements(t, v) ==
  IF t.kind = "map" THEN SetToSortSeq(v, LAMBDA x, y : x.key < y.key) ELSE v

RECURSIVE Pack(_, _)
\* packer::pack for every kind of element.
Pack(t, v) ==
  CASE t.kind = "basic"   -> [code |-> t.code, value |-> v]
    [] t.kind = "variant" -> [code |-> "v", value |-> [code |-> v.code, value |-> v.value]]
    [] t.kind = "pair"    -> [code |-> "e", key |-> Pack(t.key, v.key),
                              value |-> Pack(t.value, v.value)]
    [] OTHER -> LET s == Elements(t, v)
                IN  [code |-> "a", items |-> [i \in DOMAIN s |-> Pack(t.of, s[i])]]

\* message::pack: a packer appends to what the message holds already.
PackArg(t, v) ==
  /\ Len(packed) < MaxArgs
  /\ message' = Append(message, Pack(t, v))
  /\ packed' = Append(packed, [type |-> t, value |-> v])
  /\ UNCHANGED result

-----------------------------------------------------------------------------
(* unpacker *)

\* The argument under the iterator; its code is invalid behind the last one.
Arg(i) == IF i <= Len(message) THEN message[i] ELSE [code |-> "invalid"]

RECURSIVE Fresh(_)
\* A variable nothing was unpacked into.
Fresh(t) ==
  CASE t.kind \in {"basic", "variant"} -> Unset
    [] t.kind = "pair"   -> [key |-> Fresh(t.key), value |-> Fresh(t.value)]
    [] t.kind = "vector" -> <<>>
    [] t.kind = "map"    -> {}

\* The basic types: the code must be the one of the type.
TakeBasic(t, w, old) ==
  IF w.code = t.code THEN [ok |-> TRUE, value |-> w.value] ELSE [ok |-> FALSE, value |-> old]

\* dbus_variant: the alternative with the code of the content; with none the
\* variable keeps its value, and unpack still returns true.
TakeVariant(t, w, old) ==
  IF w.code # "v" THEN [ok |-> FALSE, value |-> old]
  ELSE [ok |-> TRUE,
        value |-> IF w.value.code \in t.codes
                    THEN [code |-> w.value.code, value |-> w.value.value]
                    ELSE old]

\* emplace: the first pair with a key stays.
Emplace(m, p) == IF \E x \in m : x.key = p.key THEN m ELSE m \cup {p}

\* How many elements unpack visits: it stops behind the first that fails.
Visited(got) ==
  LET bad == {i \in DOMAIN got : ~got[i].ok} IN IF bad = {} THEN Len(got) ELSE Min(bad)

RECURSIVE Unpack(_, _, _)
\* unpacker::unpack into a variable that holds old, for every kind of element.  A
\* pair or container fails as soon as one of its parts does, and the variable keeps
\* what was written until then.  A container is never cleared: a vector is unpacked
\* in place behind what it holds, its last, failed element included; a map gets a
\* pair only when all of it could be unpacked.
Unpack(t, w, old) ==
  CASE t.kind = "basic"   -> TakeBasic(t, w, old)
    [] t.kind = "variant" -> TakeVariant(t, w, old)
    [] t.kind = "pair" ->
         IF w.code # "e" THEN [ok |-> FALSE, value |-> old]
         ELSE LET k == Unpack(t.key, w.key, old.key)
                  v == IF k.ok THEN Unpack(t.value, w.value, old.value)
                               ELSE [ok |-> FALSE, value |-> old.value]
              IN  [ok |-> v.ok, value |-> [key |-> k.value, value |-> v.value]]
    [] OTHER ->
         IF w.code # "a" THEN [ok |-> FALSE, value |-> old]
         ELSE LET got == [i \in DOMAIN w.items |-> Unpack(t.of, w.items[i], Fresh(t.of))]
                  seen == SubSeq(got, 1, Visited(got))
                  vals(s) == [i \in DOMAIN s |-> s[i].value]
              IN  [ok |-> \A i \in DOMAIN seen : seen[i].ok,
                   value |-> IF t.kind = "vector" THEN old \o vals(seen)
                             ELSE FoldLeft(Emplace, old, vals(SelectSeq(seen, LAMBDA g : g.ok)))]

\* message::unpack: a new unpacker reads the arguments from the first one on, and
\* stops at the first that fails.
UnpackArgs(ts, old) ==
  LET got == [i \in DOMAIN ts |-> Unpack(ts[i], Arg(i), old[i])]
      n == Visited(got)
  IN  /\ result' = [types |-> ts,
                    ok |-> \A i \in 1..n : got[i].ok,
                    old |-> old,
                    values |-> [i \in DOMAIN ts |-> IF i <= n THEN got[i].value ELSE old[i]]]
      /\ UNCHANGED <<message, packed>>

-----------------------------------------------------------------------------
Nothing == [types |-> <<>>, ok |-> TRUE, old |-> <<>>, values |-> <<>>]

\* new_call, new_return and new_signal make a message without arguments.
NewBare == {<<>>}

\* new_error: the text is an argument already, a string.
NewError == {<<[type |-> Basic("s"), value |-> v]>> : v \in Payloads}

Init ==
  /\ packed \in NewBare \cup NewError
  /\ message = [i \in DOMAIN packed |-> Pack(packed[i].type, packed[i].value)]
  /\ result = Nothing

\* Unpacking changes nothing but its variables: one unpack per message is enough.
\* Each variable is unpacked without a look at the others: it is enough that one that
\* is unpacked alone may hold something.
Next ==
  \/ \E t \in Types : \E v \in ValuesOf(t) : result = Nothing /\ PackArg(t, v)
  \/ \E n \in 1..MaxArgs : \E ts \in [1..n -> Types] :
       result = Nothing /\ UnpackArgs(ts, [i \in 1..n |-> Fresh(ts[i])])
  \/ \E t \in Reused : \E old \in ValuesOf(t) :
       result = Nothing /\ UnpackArgs(<<t>>, <<old>>)

Spec == Init /\ [][Next]_vars

-----------------------------------------------------------------------------
(* Properties *)

\* What one program packs, another reads back into fresh variables of the same types, and
\* it may leave out the last arguments: nested containers, maps and variants come out as they
\* went in.
RoundTrip ==
  (/\ Len(result.types) <= Len(packed)
   /\ \A i \in DOMAIN result.types :
        result.types[i] = packed[i].type /\ result.old[i] = Fresh(packed[i].type))
     => /\ result.ok
        /\ \A i \in DOMAIN result.values : result.values[i] = packed[i].value

RECURSIVE HasEmpty(_, _)
\* Some container in the value is empty.
HasEmpty(t, v) ==
  CASE t.kind \in {"basic", "variant"} -> FALSE
    [] t.kind = "pair" -> HasEmpty(t.key, v.key) \/ HasEmpty(t.value, v.value)
    [] OTHER -> LET s == Elements(t, v)
                IN  s = <<>> \/ \E i \in DOMAIN s : HasEmpty(t.of, s[i])

\* unpack succeeds exactly when there are enough arguments and their signatures are
\* those of the variables.  An empty container is the exception: unpack looks at
\* the types of elements only, so there it may succeed without the signatures
\* being equal.
UnpackChecksSignature ==
  LET n == Len(result.types)
      enough == n <= Len(packed)
      same(i) == Signature(result.types[i]) = Signature(packed[i].type)
  IN  /\ (enough /\ \A i \in 1..n : same(i)) => result.ok
      /\ result.ok =>
           enough /\ \A i \in 1..n : same(i) \/ HasEmpty(packed[i].type, packed[i].value)

\* A container that held something keeps it whatever arrives and whether or not
\* unpack succeeds (message.hpp:405-450): a vector its elements in front, a map its
\* pairs, with the values they had.  And an unpack that succeeds with the packed
\* types adds exactly what was packed: every element behind the old ones, every key
\* that the map did not have.
OldContentSurvives ==
  \A i \in DOMAIN result.types :
    LET t == result.types[i]
        o == result.old[i]
        v == result.values[i]
        exact == result.ok /\ t = packed[i].type
    IN  /\ t.kind = "vector" => /\ IsPrefix(o, v)
                                /\ exact => v = o \o packed[i].value
        /\ t.kind = "map" =>
             /\ o \subseteq v
             /\ exact => v \ o = {p \in packed[i].value : \A x \in o : x.key # p.key}
=============================================================================
