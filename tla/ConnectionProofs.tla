-------------------------- MODULE ConnectionProofs --------------------------
(***************************************************************************)
(* Proofs about Connection for any number of matches, filters, expressions *)
(* and names, and without the bounds on reconnections and timeouts.        *)
(***************************************************************************)
EXTENDS Connection, DataLemmas

\* What a client may have asked the bus for without waiting for the answer.
LateRequest ==
  [do : {"AddMatch"}, of : Rules] \cup [do : {"RequestName"}, of : Names]

Owners == {Nobody, "us", "other", "other_yields"}

\* The types of the variables.
TypesOfConnection ==
  /\ conn \in {"null", "open", "lost"}
  /\ filters \subseteq Filter /\ matches \subseteq Matches
  /\ rules \in [Rules -> Nat]
  /\ owner \in [Names -> Owners]
  /\ late \in Seq(LateRequest) /\ given_up \in Nat /\ abandoned \in [Rules -> Nat]

\* The connection exists exactly as long as it is held, and everything that hangs on
\* it holds it.
Held ==
  /\ conn = "null" <=> holders = {}
  /\ allocated = IF holders = {} THEN 0 ELSE 1
  /\ filters \cup matches \subseteq holders

\* The bus knows nothing of a client it has no connection to.
Forgotten == conn # "open" => rules = NoRules /\ late = <<>> /\ abandoned = NoRules

\* There are only finitely many matches, each constructed once.
MatchesOnce == matches \subseteq added /\ IsFiniteSet(matches)

\* The inductive invariant.
ConnectionInv ==
  TypesOfConnection /\ Held /\ Forgotten /\ MatchesOnce /\ MatchesInForce

-----------------------------------------------------------------------------
\* The requests of a queue that add rule r.
Adding(r) == {[do |-> "AddMatch", of |-> r]}
Adds(q, r) == Cardinality(Hits(q, Adding(r)))

LEMMA LateAdds == \A r : Cardinality(AddsOnTheWay(r)) = Adds(late, r)
BY DEF AddsOnTheWay, Adds, Adding, Hits

\* The bounds of MatchesInForce for one rule.
InForce(r) ==
  /\ Cardinality(With(r)) <= rules[r]
  /\ rules[r] + Adds(late, r) <= Cardinality(With(r)) + abandoned[r]

\* MatchesInForce with the count the lemmas speak of.
LEMMA MatchesInForceParts == MatchesInForce <=> (conn = "open" => \A r \in Rules : InForce(r))
BY LateAdds DEF MatchesInForce, InForce

\* A match that exists on an open connection has its rule in force.
LEMMA HasItsRule ==
  ASSUME ConnectionInv, conn = "open", NEW m \in matches
  PROVE  Rule[m] \in Rules /\ rules[Rule[m]] \in Nat \ {0}
<1>1. Rule[m] \in Rules
  BY ConnectionAssumption DEF ConnectionInv, TypesOfConnection
<1>2. IsFiniteSet(With(Rule[m])) /\ With(Rule[m]) # {}
  BY FS_Subset DEF ConnectionInv, MatchesOnce, With
<1>3. Cardinality(With(Rule[m])) \in Nat \ {0}
  BY <1>2, FS_CardinalityType, FS_EmptySet
<1>4. Cardinality(With(Rule[m])) <= rules[Rule[m]]
  BY <1>1, MatchesInForceParts DEF ConnectionInv, InForce
<1>5. QED  BY <1>1, <1>3, <1>4 DEF ConnectionInv, TypesOfConnection

-----------------------------------------------------------------------------
\* Before the first connection there is nothing.
LEMMA InitConnectionInv == Init => ConnectionInv
<1> SUFFICES ASSUME Init PROVE ConnectionInv
  OBVIOUS
<1>1. TypesOfConnection
  BY DEF Init, TypesOfConnection, NoRules, Nobody, Owners
<1>2. Held /\ Forgotten /\ MatchesOnce
  BY FS_EmptySet DEF Init, Held, Forgotten, MatchesOnce
<1>3. MatchesInForce
  BY DEF Init, MatchesInForce
<1>4. QED  BY <1>1, <1>2, <1>3 DEF ConnectionInv

\* Every step keeps the types: in particular the count of a rule never falls below
\* zero.
LEMMA NextTypes == ConnectionInv /\ [Next]_vars => TypesOfConnection'
<1> SUFFICES ASSUME ConnectionInv, [Next]_vars PROVE TypesOfConnection'
  OBVIOUS
<1> USE ConnectionAssumption DEF ConnectionInv, TypesOfConnection, bus
<1>0. NoRules \in [Rules -> Nat]
  BY DEF NoRules
<1>0a. ASSUME NEW outcome, NEW r \in LateRequest, GiveUp(outcome, r)
       PROVE  /\ late' \in Seq(LateRequest) /\ given_up' \in Nat
              /\ abandoned' \in [Rules -> Nat]
  <2>1. CASE outcome = "timeout"
    <3>1. /\ late' = Append(late, r) /\ given_up' = given_up + 1
          /\ abandoned' = IF r.do = "AddMatch" THEN [abandoned EXCEPT ![r.of] = @ + 1] ELSE abandoned
      BY <1>0a, <2>1 DEF GiveUp
    <3>2. r.do = "AddMatch" => r.of \in Rules
      BY DEF LateRequest
    <3>3. abandoned' \in [Rules -> Nat]
      BY <3>1, <3>2
    <3>4. QED  BY <3>1, <3>3, AppendProperties
  <2>2. CASE outcome # "timeout"
    BY <1>0a, <2>2 DEF GiveUp
  <2>3. QED  BY <2>1, <2>2
<1>1. \A n \in Names : Granted(n) \in Owners
  BY DEF Granted, Owners
<1>2. [n \in Names |-> IF owner[n] = "us" THEN Nobody ELSE owner[n]] \in [Names -> Owners]
  BY DEF Owners
<1>3. \A r \in Rules : WithRule(r) \in [Rules -> Nat]
  BY DEF WithRule
<1>4. ASSUME NEW x, Release(x), rules' \in [Rules -> Nat], UNCHANGED given_up,
             filters' \subseteq filters, matches' \subseteq matches
      PROVE  TypesOfConnection'
  <2>1. CASE holders' = {}
    BY <1>0, <1>2, <1>4, <2>1, EmptySeq DEF Release
  <2>2. CASE holders' # {}
    BY <1>4, <2>2 DEF Release
  <2>3. QED  BY <2>1, <2>2
<1>5. CASE Open
  BY <1>5 DEF Open
<1>6. CASE AppReleases
  BY <1>0, <1>4, <1>6 DEF AppReleases
<1>7. ASSUME NEW after, OpenFails(after) PROVE TypesOfConnection'
  BY <1>7 DEF OpenFails
<1>8. ASSUME NEW n \in Names, NEW outcome, RequestName(n, outcome)
      PROVE  TypesOfConnection'
  <2>1. [do |-> "RequestName", of |-> n] \in LateRequest
    BY DEF LateRequest
  <2>2. owner' \in [Names -> Owners]
    BY <1>1, <1>8 DEF RequestName
  <2>3. late' \in Seq(LateRequest) /\ given_up' \in Nat /\ abandoned' \in [Rules -> Nat]
    BY <1>0a, <1>8, <2>1 DEF RequestName
  <2>4. QED  BY <1>8, <2>2, <2>3 DEF RequestName
<1>9. ASSUME NEW f \in Filter, NewFilter(f) PROVE TypesOfConnection'
  BY <1>9 DEF NewFilter
<1>10. ASSUME NEW f \in Filter, DeleteFilter(f) PROVE TypesOfConnection'
  BY <1>0, <1>4, <1>10 DEF DeleteFilter
<1>11. ASSUME NEW m \in Matches, NEW outcome, NewMatch(m, outcome)
       PROVE  TypesOfConnection'
  <2>1. [do |-> "AddMatch", of |-> Rule[m]] \in LateRequest
    BY DEF LateRequest
  <2>2. late' \in Seq(LateRequest) /\ given_up' \in Nat /\ abandoned' \in [Rules -> Nat]
    BY <1>0a, <1>11, <2>1 DEF NewMatch
  <2>3. rules' \in [Rules -> Nat] /\ matches' \subseteq Matches
    BY <1>3, <1>11 DEF NewMatch, Constructed
  <2>4. QED  BY <1>11, <2>2, <2>3 DEF NewMatch
<1>12. ASSUME NEW m \in Matches, DeleteMatch(m) PROVE TypesOfConnection'
  <2>1. conn = "open" /\ m \in matches
    BY <1>12 DEF DeleteMatch, Outcomes, Held
  <2>2. WithoutRule(Rule[m]) \in [Rules -> Nat]
    BY <2>1, HasItsRule DEF WithoutRule
  <2>3. QED  BY <1>0, <1>4, <1>12, <2>2 DEF DeleteMatch
<1>13. ASSUME NEW m \in Matches, NEW outcome, DeleteMatchThrows(m, outcome)
       PROVE  TypesOfConnection'
  BY <1>13 DEF DeleteMatchThrows
<1>14. CASE BusCatchesUp
  <2>1. Head(late) \in LateRequest /\ Tail(late) \in Seq(LateRequest)
    BY <1>14, HeadTailProperties DEF BusCatchesUp
  <2>2. CASE Head(late).do = "AddMatch"
    BY <1>3, <1>14, <2>1, <2>2 DEF BusCatchesUp, LateRequest
  <2>3. CASE Head(late).do = "RequestName"
    BY <1>1, <1>14, <2>1, <2>3 DEF BusCatchesUp, LateRequest
  <2>4. QED  BY <2>1, <2>2, <2>3 DEF LateRequest
<1>15. CASE Lost
  BY <1>0, <1>2, <1>15 DEF Lost
<1>16. ASSUME NEW n \in Names, NEW to \in {Nobody, "other", "other_yields"}, OtherClient(n, to)
       PROVE  TypesOfConnection'
  BY <1>16 DEF OtherClient, Owners
<1>17. CASE UNCHANGED vars
  BY <1>17 DEF vars
<1>18. QED
  BY <1>5, <1>6, <1>7, <1>8, <1>9, <1>10, <1>11, <1>12, <1>13, <1>14, <1>15, <1>16, <1>17
     DEF Next

\* In whichever order the holders let go, the last one closes the connection.
LEMMA NextHeld ==
  ConnectionInv /\ [Next]_vars => Held' /\ Forgotten' /\ MatchesOnce'
<1> SUFFICES ASSUME ConnectionInv, [Next]_vars
             PROVE  Held' /\ Forgotten' /\ MatchesOnce'
  OBVIOUS
<1> DEFINE Goal == Held' /\ Forgotten' /\ MatchesOnce'
<1> USE ConnectionAssumption
    DEF ConnectionInv, TypesOfConnection, Held, Forgotten, MatchesOnce, bus
<1>1. ASSUME NEW x \in holders, Release(x), UNCHANGED added,
             filters' = filters \ {x}, matches' = matches \ {x},
             holders' = {} => rules' = NoRules,
             conn # "open" => rules' = NoRules
      PROVE  Goal
  <2>1. IsFiniteSet(matches')
    BY <1>1, FS_RemoveElement
  <2>2. QED  BY <1>1, <2>1 DEF Release, Closed
<1>2. CASE Open
  BY <1>2 DEF Open
<1>3. CASE AppReleases
  <2>1. App \notin filters \cup matches
    OBVIOUS
  <2>2. QED  BY <1>1, <1>3, <2>1 DEF AppReleases
<1>4. ASSUME NEW after \in {"open", "register"}, OpenFails(after) PROVE Goal
  BY <1>4 DEF OpenFails, Closed
<1>5. ASSUME NEW n \in Names, NEW outcome, RequestName(n, outcome) PROVE Goal
  BY <1>5 DEF RequestName, GiveUp, Outcomes
<1>6. ASSUME NEW f \in Filter, NewFilter(f) PROVE Goal
  BY <1>6 DEF NewFilter, Hold
<1>7. ASSUME NEW f \in Filter, DeleteFilter(f) PROVE Goal
  <2>1. f \in holders /\ f \notin matches
    BY <1>7 DEF DeleteFilter
  <2>2. QED  BY <1>1, <1>7, <2>1 DEF DeleteFilter
<1>8. ASSUME NEW m \in Matches, NEW outcome, NewMatch(m, outcome) PROVE Goal
  <2>1. IsFiniteSet(matches \cup {m})
    BY FS_AddElement
  <2>2. conn # "open" => outcome = "disconnected"
    BY <1>8 DEF NewMatch, Outcomes
  <2>3. QED  BY <1>8, <2>1, <2>2 DEF NewMatch, Constructed, Hold, Throws, GiveUp
<1>9. ASSUME NEW m \in Matches, DeleteMatch(m) PROVE Goal
  <2>1. m \in holders /\ m \notin filters /\ conn = "open"
    BY <1>9 DEF DeleteMatch, Outcomes
  <2>2. QED  BY <1>1, <1>9, <2>1 DEF DeleteMatch
<1>10. ASSUME NEW m \in Matches, NEW outcome, DeleteMatchThrows(m, outcome) PROVE Goal
  BY <1>10 DEF DeleteMatchThrows
<1>11. CASE BusCatchesUp
  BY <1>11 DEF BusCatchesUp
<1>12. CASE Lost
  BY <1>12 DEF Lost
<1>13. ASSUME NEW n \in Names, NEW to, OtherClient(n, to) PROVE Goal
  BY <1>13 DEF OtherClient
<1>14. CASE UNCHANGED vars
  BY <1>14 DEF vars
<1>15. QED
  BY <1>2, <1>3, <1>4, <1>5, <1>6, <1>7, <1>8, <1>9, <1>10, <1>11, <1>12, <1>13, <1>14
     DEF Next

\* The matches of M with expression r, before and after one of them comes or goes.
WithIn(M, r) == {x \in M : Rule[x] = r}

\* A match more is one more with its expression.
LEMMA OneMatch ==
  ASSUME NEW M, IsFiniteSet(M), NEW m, m \notin M, NEW r
  PROVE  /\ Cardinality(WithIn(M, r)) \in Nat
         /\ Cardinality(WithIn(M \cup {m}, r))
              = Cardinality(WithIn(M, r)) + IF Rule[m] = r THEN 1 ELSE 0
<1>1. IsFiniteSet(WithIn(M, r)) /\ m \notin WithIn(M, r)
  BY FS_Subset DEF WithIn
<1>2. WithIn(M \cup {m}, r) = IF Rule[m] = r THEN WithIn(M, r) \cup {m} ELSE WithIn(M, r)
  BY DEF WithIn
<1>3. /\ Cardinality(WithIn(M, r) \cup {m}) = Cardinality(WithIn(M, r)) + 1
      /\ Cardinality(WithIn(M, r)) \in Nat
  BY <1>1, FS_AddElement, FS_CardinalityType
<1>4. QED  BY <1>2, <1>3

\* AddMatch and RemoveMatch, carried out now, late or never, keep rules and matches
\* in step.
LEMMA NextMatchesInForce == ConnectionInv /\ [Next]_vars => MatchesInForce'
<1> SUFFICES ASSUME ConnectionInv, [Next]_vars, conn' = "open", NEW r \in Rules PROVE InForce(r)'
  <2>1. (MatchesInForce <=> (conn = "open" => \A r \in Rules : InForce(r)))'
    BY MatchesInForceParts, PTL
  <2>2. QED  BY <2>1
<1>0. TypesOfConnection /\ TypesOfConnection' /\ Held /\ Forgotten /\ IsFiniteSet(matches)
  BY NextTypes DEF ConnectionInv, MatchesOnce
<1>q. conn = "open" => InForce(r)
  BY MatchesInForceParts DEF ConnectionInv
<1>n. /\ rules[r] \in Nat /\ abandoned[r] \in Nat /\ rules'[r] \in Nat /\ abandoned'[r] \in Nat
      /\ Adds(late, r) \in Nat /\ Adds(late', r) \in Nat /\ Cardinality(With(r)) \in Nat
  <2>1. IsFiniteSet(With(r))
    BY <1>0, FS_Subset DEF With
  <2>2. ASSUME NEW q \in Seq(LateRequest) PROVE Adds(q, r) \in Nat
    BY HitsFinite DEF Adds
  <2>3. QED  BY <1>0, <2>1, <2>2, FS_CardinalityType DEF TypesOfConnection
<1>a. ASSUME NEW request \in LateRequest, late' = Append(late, request)
      PROVE  Adds(late', r) = Adds(late, r) + IF request \in Adding(r) THEN 1 ELSE 0
  BY <1>0, <1>a, HitsAppend DEF Adds, TypesOfConnection
<1>w. ASSUME UNCHANGED matches PROVE With(r)' = With(r)
  BY <1>w DEF With
<1>1. ASSUME UNCHANGED <<conn, rules, late, matches, abandoned>> PROVE InForce(r)'
  BY <1>q, <1>1, <1>w DEF InForce
<1>2. ASSUME NEW x, Release(x), UNCHANGED matches,
             rules' = IF holders' = {} THEN NoRules ELSE rules
      PROVE  InForce(r)'
  BY <1>1, <1>2 DEF Release
<1>3. CASE Open
  <2>1. rules' = NoRules /\ late' = <<>> /\ matches' = {}
    BY <1>0, <1>3 DEF Open, bus, Held, Forgotten
  <2>2. Adds(late', r) = 0 /\ Cardinality(With(r)') = 0
    <3>1. Hits(late', Adding(r)) = {} /\ With(r)' = {}
      BY <2>1 DEF Hits, With
    <3>2. QED  BY <3>1, FS_EmptySet DEF Adds
  <2>3. rules'[r] = 0 /\ abandoned'[r] \in Nat
    BY <1>n, <2>1 DEF NoRules
  <2>4. QED  BY <2>2, <2>3 DEF InForce
<1>4. ASSUME NEW n \in Names, NEW outcome, RequestName(n, outcome) PROVE InForce(r)'
  <2>1. CASE outcome = "timeout"
    <3> DEFINE request == [do |-> "RequestName", of |-> n]
    <3>1. late' = Append(late, request) /\ UNCHANGED <<conn, rules, matches, abandoned>>
      BY <1>4, <2>1 DEF RequestName, GiveUp
    <3>2. request \in LateRequest /\ request \notin Adding(r)
      BY DEF LateRequest, Adding
    <3> HIDE DEF request
    <3>3. Adds(late', r) = Adds(late, r)
      BY <1>a, <1>n, <3>1, <3>2
    <3>4. QED  BY <1>q, <1>w, <3>1, <3>3 DEF InForce
  <2>2. CASE outcome # "timeout"
    BY <1>1, <1>4, <2>2 DEF RequestName, GiveUp
  <2>3. QED  BY <2>1, <2>2
<1>5. ASSUME NEW m \in Matches, NEW outcome, NewMatch(m, outcome) PROVE InForce(r)'
  <2>0. Rule[m] \in Rules
    BY ConnectionAssumption
  <2>1. CASE outcome = "ok"
    <3>1. /\ rules' = [rules EXCEPT ![Rule[m]] = @ + 1] /\ matches' = matches \cup {m}
          /\ UNCHANGED <<conn, late, abandoned>> /\ m \notin matches
      BY <1>5, <2>1
         DEF NewMatch, GiveUp, Constructed, Throws, WithRule, ConnectionInv, MatchesOnce
    <3>2. Cardinality(With(r)') = Cardinality(With(r)) + IF Rule[m] = r THEN 1 ELSE 0
      <4>1. With(r) = WithIn(matches, r) /\ With(r)' = WithIn(matches \cup {m}, r)
        BY <3>1 DEF With, WithIn
      <4>2. QED  BY <1>0, <3>1, <4>1, OneMatch
    <3>3. rules'[r] = rules[r] + IF Rule[m] = r THEN 1 ELSE 0
      BY <1>0, <2>0, <3>1 DEF TypesOfConnection
    <3>4. QED  BY <1>n, <1>q, <3>1, <3>2, <3>3 DEF InForce
  <2>2. CASE outcome = "timeout"
    <3> DEFINE request == [do |-> "AddMatch", of |-> Rule[m]]
    <3>1. /\ late' = Append(late, request) /\ UNCHANGED <<conn, rules, matches>>
          /\ abandoned' = [abandoned EXCEPT ![Rule[m]] = @ + 1]
      BY <1>5, <2>2 DEF NewMatch, GiveUp, Constructed, Throws
    <3>2. request \in LateRequest /\ (request \in Adding(r) <=> Rule[m] = r)
      BY <2>0 DEF LateRequest, Adding
    <3>3. abandoned'[r] = abandoned[r] + IF Rule[m] = r THEN 1 ELSE 0
      BY <1>0, <2>0, <3>1 DEF TypesOfConnection
    <3> HIDE DEF request
    <3>4. Adds(late', r) = Adds(late, r) + IF Rule[m] = r THEN 1 ELSE 0
      BY <1>a, <3>1, <3>2
    <3>5. QED  BY <1>n, <1>q, <1>w, <3>1, <3>3, <3>4 DEF InForce
  <2>3. CASE outcome \notin {"ok", "timeout"}
    BY <1>1, <1>5, <2>3 DEF NewMatch, GiveUp, Constructed, Throws
  <2>4. QED  BY <2>1, <2>2, <2>3
<1>6. ASSUME NEW m \in Matches, DeleteMatch(m) PROVE InForce(r)'
  <2>1. holders' # {} /\ UNCHANGED <<conn, late, abandoned>>
    BY <1>6 DEF DeleteMatch, Release
  <2>2. /\ rules' = [rules EXCEPT ![Rule[m]] = @ - 1] /\ matches' = matches \ {m}
        /\ m \in matches
    BY <1>6, <2>1 DEF DeleteMatch, WithoutRule
  <2>3. Rule[m] \in Rules /\ rules[Rule[m]] \in Nat \ {0}
    BY <2>1, <2>2, HasItsRule
  <2>4. rules[r] = rules'[r] + IF Rule[m] = r THEN 1 ELSE 0
    BY <1>0, <1>n, <2>2, <2>3 DEF TypesOfConnection
  <2>5. IsFiniteSet(matches') /\ m \notin matches' /\ matches = matches' \cup {m}
    BY <1>0, <2>2, FS_RemoveElement
  <2>6. /\ Cardinality(With(r)') \in Nat
        /\ Cardinality(With(r)) = Cardinality(With(r)') + IF Rule[m] = r THEN 1 ELSE 0
    <3>1. With(r)' = WithIn(matches', r) /\ With(r) = WithIn(matches' \cup {m}, r)
      BY <2>5 DEF With, WithIn
    <3>2. QED  BY <2>5, <3>1, OneMatch
  <2>7. QED  BY <1>n, <1>q, <2>1, <2>4, <2>6 DEF InForce
<1>7. CASE BusCatchesUp
  <2>1. late # <<>> /\ late' = Tail(late) /\ conn = "open" /\ UNCHANGED <<matches, abandoned>>
    BY <1>7 DEF BusCatchesUp
  <2>2. Head(late) \in LateRequest
    BY <1>0, <2>1, HeadTailProperties DEF TypesOfConnection
  <2>3. Adds(late, r) = Adds(late', r) + IF Head(late) \in Adding(r) THEN 1 ELSE 0
    BY <1>0, <2>1, HitsTail DEF Adds, TypesOfConnection
  <2>4. rules'[r] = rules[r] \/ (rules'[r] = rules[r] + 1 /\ Head(late) \in Adding(r))
    <3>1. CASE UNCHANGED rules
      BY <3>1
    <3>2. CASE Head(late).do = "AddMatch" /\ rules' = WithRule(Head(late).of)
      <4>1. Head(late).of \in Rules /\ Head(late) = [do |-> "AddMatch", of |-> Head(late).of]
        BY <2>2, <3>2 DEF LateRequest
      <4>2. rules'[r] = IF Head(late).of = r THEN rules[r] + 1 ELSE rules[r]
        BY <1>0, <3>2, <4>1 DEF WithRule, TypesOfConnection
      <4>3. QED  BY <4>1, <4>2 DEF Adding
    <3>3. QED  BY <1>7, <3>1, <3>2 DEF BusCatchesUp
  <2>5. QED  BY <1>n, <1>q, <1>w, <2>1, <2>3, <2>4 DEF InForce
<1>8. QED
  <2>1. CASE AppReleases \/ \E f \in Filter : DeleteFilter(f)
    BY <1>2, <2>1 DEF AppReleases, DeleteFilter
  <2>2. CASE UNCHANGED <<conn, rules, late, matches, abandoned>>
    BY <1>1, <2>2
  <2>3. QED
    BY <1>3, <1>4, <1>5, <1>6, <1>7, <2>1, <2>2
       DEF Next, vars, bus, OpenFails, NewFilter, DeleteMatchThrows, OtherClient, Lost

\* The invariant holds in every reachable state.
LEMMA ConnectionInvariant == Spec => []ConnectionInv
<1>1. ConnectionInv /\ [Next]_vars => ConnectionInv'
  BY NextTypes, NextHeld, NextMatchesInForce DEF ConnectionInv
<1>2. QED  BY InitConnectionInv, <1>1, PTL DEF Spec

-----------------------------------------------------------------------------
\* Opening may fail half-way and the holders may let go in any order: there is one
\* DBusConnection while somebody holds it and none afterwards, and what still needs
\* it in its destructor finds it.
THEOREM OwnedExactlyOnceAlways == Spec => []OwnedExactlyOnce
<1>1. ConnectionInv => OwnedExactlyOnce
  BY DEF ConnectionInv, Held, OwnedExactlyOnce
<1>2. QED  BY <1>1, ConnectionInvariant, PTL

\* Matches come and go, share expressions, and their calls time out and are carried
\* out late: each match on an open connection has its rule in force, and a rule is
\* there beyond the matches that have it only as often as AddMatch has timed out for it.
THEOREM MatchesInForceAlways == Spec => []MatchesInForce
<1>1. ConnectionInv => MatchesInForce
  BY DEF ConnectionInv
<1>2. QED  BY <1>1, ConnectionInvariant, PTL
=============================================================================
