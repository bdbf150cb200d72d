----------------------------- MODULE Connection -----------------------------
(***************************************************************************)
(* The life of a connection and of what hangs on it: opening and closing   *)
(* (connection.hpp, impl/connection.ipp), the names requested on the bus,  *)
(* the match rules (match.hpp, impl/match.ipp) and the shared ownership by *)
(* filters and matches.  The calls to the bus block; each may end with a   *)
(* reply, with an error, or with a timeout after which the bus still       *)
(* carries out what it was asked for, and the connection may be lost.      *)
(*                                                                         *)
(* The bus is modelled as far as a client notices: it keeps one entry per  *)
(* successful AddMatch, owners of names, and forgets all of a client whose *)
(* connection ends.                                                        *)
(***************************************************************************)
EXTENDS Naturals, Sequences, FiniteSets

CONSTANTS
  Matches,   \* match objects, each constructed and destroyed at most once
  Filter,    \* filter objects, likewise
  Rules,     \* match expressions
  Rule,      \* the expression of each match
  Names,     \* names on the bus
  App,       \* the application's own connection_ptr
  MaxOpens,  \* bound: connections opened
  MaxGivenUp \* bound: requests that time out

ASSUME ConnectionAssumption ==
  /\ IsFiniteSet(Rules) /\ Rule \in [Matches -> Rules]
  /\ App \notin Matches \cup Filter /\ Matches \cap Filter = {}
  /\ MaxOpens \in Nat /\ MaxGivenUp \in Nat

VARIABLES
  conn,        \* the DBusConnection: "null", "open" or "lost"
  allocated,   \* DBusConnections that are neither closed nor released
  opens,       \* how many connections were opened
  holders,     \* who holds a connection_ptr
  filters,     \* filters libdbus has a pointer to
  matches,     \* match objects that exist
  terminated,  \* an exception has left a destructor
  rules,       \* bus: how often each rule is in force for this client
  owner,       \* bus: who owns each name
  late,        \* requests on their way that nobody waits for any more
  given_up,    \* how many requests have timed out
  abandoned,   \* history: AddMatch requests of this connection that have timed out, by rule
  added        \* history: matches that were ever constructed

bus == <<rules, owner, late, given_up, abandoned>>
vars == <<conn, allocated, opens, holders, filters, matches, terminated, bus, added>>

\* A name belongs to Nobody, to us ("us"), or to another client, who keeps it ("other") or
\* allows it to be replaced ("other_yields").
Nobody == "nobody"
NoRules == [r \in Rules |-> 0]

Init ==
  /\ conn = "null" /\ allocated = 0 /\ opens = 0
  /\ holders = {} /\ filters = {} /\ matches = {}
  /\ terminated = FALSE
  /\ rules = NoRules
  /\ owner = [n \in Names |-> Nobody]
  /\ late = <<>> /\ given_up = 0 /\ abandoned = NoRules
  /\ added = {}

-----------------------------------------------------------------------------
(* Mutations: plausible mistakes, each of which one of the properties below   *)
(* must notice.  No specification uses them.                                  *)

\* new_match does not look at the error.
NewMatchUnchecked(m, outcome) ==
  /\ matches' = matches \cup {m}
  /\ holders' = holders \cup {m}
  /\ added' = added \cup {m}

\* A filter keeps a plain pointer to its connection.
HoldForgotten(x) == holders

-----------------------------------------------------------------------------
(* Blocking calls *)

\* How a blocking call may end on this connection: requests are carried out in the
\* order they were sent, so a reply can only come when none is on its way.
Outcomes ==
  IF conn = "lost" THEN {"disconnected"}
  ELSE (IF late = <<>> THEN {"ok", "refused"} ELSE {})
         \cup (IF given_up < MaxGivenUp THEN {"timeout"} ELSE {})

\* class error: the DBusError is set by everything but success, and throw_if_set
\* throws then.
Throws(outcome) == outcome # "ok"

\* The client stops waiting for a request, and the bus has not seen it yet.
GiveUp(outcome, request) ==
  IF outcome = "timeout"
    THEN /\ late' = Append(late, request) /\ given_up' = given_up + 1
         /\ abandoned' = IF request.do = "AddMatch"
                           THEN [abandoned EXCEPT ![request.of] = @ + 1] ELSE abandoned
    ELSE UNCHANGED <<late, given_up, abandoned>>

WithRule(r) == [rules EXCEPT ![r] = @ + 1]
WithoutRule(r) == [rules EXCEPT ![r] = @ - 1]

\* What RequestName was told about replacing others and being replaced.
Flags == {"DO_NOT_QUEUE", "REPLACE_EXISTING"}

\* The owner of a name after the bus has dealt with our request for it.
Granted(n) ==
  IF owner[n] \in {Nobody, "us"} \/ (owner[n] = "other_yields" /\ "REPLACE_EXISTING" \in Flags)
    THEN "us" ELSE owner[n]

-----------------------------------------------------------------------------
(* connection *)

\* The constructor succeeds: the connection is private, open and registered.
Open ==
  /\ conn = "null" /\ opens < MaxOpens /\ ~terminated
  /\ opens' = opens + 1
  /\ conn' = "open"
  /\ allocated' = allocated + 1
  /\ holders' = {App}
  /\ UNCHANGED <<filters, matches, terminated, bus, added>>

\* ~impl::connection: dbus_connection_close and dbus_connection_unref.
Closed(n) == n - 1

\* The constructor throws.  Either there is no DBusConnection yet, or
\* dbus_bus_register has failed on one, which the destructor of the part that is
\* constructed closes.
OpenFails(after) ==
  /\ conn = "null" /\ opens < MaxOpens /\ ~terminated
  /\ opens' = opens + 1
  /\ allocated' = CASE after = "open" -> allocated
                    [] after = "register" -> Closed(allocated + 1)
  /\ UNCHANGED <<conn, holders, filters, matches, terminated, bus, added>>

\* A holder gives up its connection_ptr; the last one closes the connection, and
\* the bus forgets the client.
Release(x) ==
  /\ holders' = holders \ {x}
  /\ IF holders' = {}
       THEN /\ conn' = "null" /\ allocated' = Closed(allocated)
            /\ late' = <<>> /\ abandoned' = NoRules
            /\ owner' = [n \in Names |-> IF owner[n] = "us" THEN Nobody ELSE owner[n]]
       ELSE UNCHANGED <<conn, allocated, owner, late, abandoned>>

AppReleases ==
  /\ App \in holders /\ ~terminated
  /\ Release(App)
  /\ rules' = IF holders' = {} THEN NoRules ELSE rules
  /\ UNCHANGED <<opens, filters, matches, terminated, given_up, added>>

\* request_name.  The bus' answer that the name is taken is not an error.
RequestName(n, outcome) ==
  /\ App \in holders /\ ~terminated
  /\ outcome \in Outcomes
  /\ owner' = IF outcome = "ok" THEN [owner EXCEPT ![n] = Granted(n)] ELSE owner
  /\ GiveUp(outcome, [do |-> "RequestName", of |-> n])
  /\ UNCHANGED <<conn, allocated, opens, holders, filters, matches, terminated, rules, added>>

-----------------------------------------------------------------------------
(* filter and match *)

\* A new object copies the connection_ptr.
Hold(x) == holders \cup {x}

NewFilter(f) ==
  /\ App \in holders /\ ~terminated
  /\ f \notin added
  /\ filters' = filters \cup {f}
  /\ holders' = Hold(f)
  /\ added' = added \cup {f}
  /\ UNCHANGED <<conn, allocated, opens, matches, terminated, bus>>

\* ~filter: delete_filter, then the members are destroyed.
DeleteFilter(f) ==
  /\ f \in filters /\ ~terminated
  /\ filters' = filters \ {f}
  /\ Release(f)
  /\ rules' = IF holders' = {} THEN NoRules ELSE rules
  /\ UNCHANGED <<opens, matches, terminated, given_up, added>>

\* The constructor of match after AddMatch has ended: the exception of new_match
\* leaves no object behind.
Constructed(m, outcome) ==
  IF Throws(outcome)
    THEN UNCHANGED <<matches, holders, added>>
    ELSE /\ matches' = matches \cup {m}
         /\ holders' = Hold(m)
         /\ added' = added \cup {m}

NewMatch(m, outcome) ==
  /\ App \in holders /\ ~terminated
  /\ m \notin added
  /\ outcome \in Outcomes
  /\ rules' = IF outcome = "ok" THEN WithRule(Rule[m]) ELSE rules
  /\ GiveUp(outcome, [do |-> "AddMatch", of |-> Rule[m]])
  /\ Constructed(m, outcome)
  /\ UNCHANGED <<conn, allocated, opens, filters, terminated, owner>>

\* ~match: delete_match removes the rule; then the connection_ptr is released.
DeleteMatch(m) ==
  /\ m \in matches /\ ~terminated
  /\ "ok" \in Outcomes
  /\ matches' = matches \ {m}
  /\ Release(m)
  /\ rules' = IF holders' = {} THEN NoRules ELSE WithoutRule(Rule[m])
  /\ UNCHANGED <<opens, filters, terminated, given_up, added>>

\* ~match when RemoveMatch ends with an error: delete_match throws, and the
\* exception cannot leave a destructor.  (The bus does not refuse: it has the rule.)
DeleteMatchThrows(m, outcome) ==
  /\ m \in matches /\ ~terminated
  /\ outcome \in Outcomes /\ outcome # "refused"
  /\ Throws(outcome)
  /\ terminated' = TRUE
  /\ UNCHANGED <<conn, allocated, opens, holders, filters, matches, bus, added>>

-----------------------------------------------------------------------------
(* The bus and the other clients *)

\* The bus carries out a request that has timed out at the client, or refuses to.
BusCatchesUp ==
  /\ conn = "open" /\ late # <<>> /\ ~terminated
  /\ LET r == Head(late)
     IN  \/ UNCHANGED <<rules, owner>>
         \/ r.do = "AddMatch" /\ rules' = WithRule(r.of) /\ UNCHANGED owner
         \/ /\ r.do = "RequestName"
            /\ owner' = [owner EXCEPT ![r.of] = Granted(r.of)] /\ UNCHANGED rules
  /\ late' = Tail(late)
  /\ UNCHANGED <<conn, allocated, opens, holders, filters, matches, terminated, given_up,
                 abandoned, added>>

\* The bus, or the way to it, is gone; the application lives on, since
\* exit_on_disconnect is off.
Lost ==
  /\ conn = "open" /\ ~terminated
  /\ conn' = "lost"
  /\ rules' = NoRules
  /\ owner' = [n \in Names |-> IF owner[n] = "us" THEN Nobody ELSE owner[n]]
  /\ late' = <<>> /\ abandoned' = NoRules
  /\ UNCHANGED <<allocated, opens, holders, filters, matches, terminated, given_up, added>>

\* Another client requests a name, willing to yield it or not, or gives it up.
OtherClient(n, to) ==
  /\ ~terminated
  /\ CASE to = Nobody -> owner[n] \in {"other", "other_yields"}
       [] OTHER -> owner[n] = Nobody \/ (owner[n] = "us" /\ "ALLOW_REPLACEMENT" \in Flags)
  /\ owner' = [owner EXCEPT ![n] = to]
  /\ UNCHANGED <<conn, allocated, opens, holders, filters, matches, terminated, rules, late,
                 given_up, abandoned, added>>

-----------------------------------------------------------------------------
Outcome == {"ok", "refused", "timeout", "disconnected"}

Next ==
  \/ Open \/ AppReleases
  \/ \E after \in {"open", "register"} : OpenFails(after)
  \/ \E n \in Names, outcome \in Outcome : RequestName(n, outcome)
  \/ \E f \in Filter : NewFilter(f) \/ DeleteFilter(f)
  \/ \E m \in Matches : DeleteMatch(m) \/ \E outcome \in Outcome :
       NewMatch(m, outcome) \/ DeleteMatchThrows(m, outcome)
  \/ BusCatchesUp \/ Lost
  \/ \E n \in Names, to \in {Nobody, "other", "other_yields"} : OtherClient(n, to)

Spec == Init /\ [][Next]_vars

-----------------------------------------------------------------------------
(* Properties *)

\* Whether opening fails half-way, and in whichever order the application, the
\* filters and the matches let go: there is exactly one DBusConnection while somebody
\* holds the connection and none afterwards, and a filter or match that exists, whose
\* destructor uses the connection, still finds it.
OwnedExactlyOnce ==
  /\ allocated = IF holders = {} THEN 0 ELSE 1
  /\ (filters # {} \/ matches # {}) => conn # "null"

\* The matches with expression r.
With(r) == {m \in matches : Rule[m] = r}

\* The requests on their way that add rule r.
AddsOnTheWay(r) == {i \in DOMAIN late : late[i] = [do |-> "AddMatch", of |-> r]}

\* As long as the connection is there, each match has its rule in force, also when
\* several matches share an expression and one of them is disposed of, and when
\* calls have timed out before.  A rule is in force or on its way without a match only
\* if AddMatch has timed out for it on this connection, once for each time it did: the
\* constructor of match threw, so no object is left to dispose of.
MatchesInForce ==
  conn = "open" => \A r \in Rules :
    /\ Cardinality(With(r)) <= rules[r]
    /\ rules[r] + Cardinality(AddsOnTheWay(r)) <= Cardinality(With(r)) + abandoned[r]
=============================================================================
