------------------------------ MODULE FindQuery ------------------------------
(***************************************************************************)
(* One Find command: the constraints PMGDQuery::parse_query_constraints    *)
(* goes through, which decide whether the Find also removes the nodes it   *)
(* returns, and the sum or average PMGDQueryHandler::build_results makes   *)
(* of a property of what was found.                                        *)
(***************************************************************************)
EXTENDS Integers, SequencesExt

CONSTANTS
  FindNow,       \* the time, constant while a command is built
  FindTimes,     \* expiration times
  MaxVal,        \* bound: values of the property that is summed up
  WordSize,      \* width of the size_t the sum is kept in
  MaxFound       \* bound: nodes that match

\* bound: as many values as can be added do not reach the width, so that only a
\* negative total wraps
ASSUME FindAssumption ==
  /\ MaxVal \in Nat /\ MaxFound \in Nat
  /\ 2^WordSize \in Nat /\ MaxVal * MaxFound < 2^WordSize

VARIABLES find, agg

findVars == <<find, agg>>

(***************************************************************************)
(* A constraint [key, form, op, at] compares with one value, with any      *)
(* value of an array (an Or), or with both ends of a range.                *)
(***************************************************************************)
FindOps == {"<", "<=", "==", ">", ">=", "!="}
FindConstraints ==
       [key : {"_deletion", "other"}, form : {"scalar"}, op : {"==", ">"}, at : {{FindNow}}]
  \cup [key : {"_expiration"}, form : {"scalar"}, op : FindOps, at : {{t} : t \in FindTimes}]
  \cup [key : {"_expiration"}, form : {"array"}, op : FindOps, at : {{s, t} : s, t \in FindTimes}]
  \cup [key : {"_expiration"}, form : {"range"}, op : {">=<="}, at : {{s, t} : s, t \in FindTimes}]

FindInit ==
  /\ find = [constraints |-> <<>>, expiring |-> FALSE, deleting |-> FALSE, purge |-> FALSE]
  /\ \E avg \in BOOLEAN, limit \in 0..2 :
       agg = [avg |-> avg, limit |-> limit, found |-> <<>>, count |-> 0, sum |-> 0]

\* what the round for c leaves of expiration_query_match
Matches(c) ==
  /\ find.expiring \/ c.key = "_expiration"
  /\ c.form # "range" => c.op \in {"<", "<=", "=="}
  /\ c.form = "scalar" /\ c.key = "_expiration" => \A t \in c.at : t < 1 + FindNow

\* one round of the loop of parse_query_constraints; a key occurs once in a JSON object
AddConstraint == \E c \in FindConstraints :
  /\ \A i \in DOMAIN find.constraints : find.constraints[i].key # c.key
  /\ LET deleting == find.deleting \/ c.key = "_deletion"
         expiring == IF c.key = "_deletion" THEN find.expiring ELSE Matches(c)
     IN  find' = [constraints |-> Append(find.constraints, c),
                  expiring |-> expiring, deleting |-> deleting,
                  purge |-> find.purge \/ expiring \/ deleting]
  /\ agg.found = <<>>
  /\ UNCHANGED agg

SizeT_int(n) == n % 2^(WordSize - 1)  \* bug: a narrower sum

\* addition in a size_t
SizeT(n) == n % 2^WordSize

\* one more node that matches; the loop of build_results stops at the limit
AddFound == \E v \in -MaxVal..MaxVal :
  /\ Len(agg.found) < MaxFound
  /\ agg' = IF agg.limit = 0 \/ agg.count < agg.limit
              THEN [agg EXCEPT !.found = Append(@, v), !.count = @ + 1, !.sum = SizeT(@ + v)]
              ELSE [agg EXCEPT !.found = Append(@, v)]
  /\ UNCHANGED find

\* the result, with the average rounded down
Aggregate == IF agg.found = <<>> THEN 0
             ELSE IF agg.avg THEN agg.sum \div agg.count ELSE agg.sum

FindNext == AddConstraint \/ AddFound

FindSpec == FindInit /\ [][FindNext]_findVars

(***************************************************************************)
(* Properties.                                                             *)
(***************************************************************************)
Compares(op, t, u) == CASE op = "<" -> t < u [] op = "<=" -> t <= u [] op = "==" -> t = u
                        [] op = ">" -> t > u [] op = ">=" -> t >= u [] op = "!=" -> t # u
\* the expiration times of the nodes that a constraint lets through
Selected(c) == IF c.form = "range" THEN {t \in FindTimes : \E u, v \in c.at : u <= t /\ t <= v}
               ELSE {t \in FindTimes : \E u \in c.at : Compares(c.op, t, u)}
ByTime == {c \in ToSet(find.constraints) : c.key = "_expiration"}

\* "check to ensure that ti,e is in the past" (PMGDQuery.cc:428): a Find without
\* _deletion removes expired nodes only.  The code checks the time of a scalar only.
PurgesOnlyExpired == find.purge /\ ~find.deleting =>
  \A c \in ByTime : Selected(c) \subseteq 0..FindNow

\* The sum and the average are those of the values up to the limit, except that a
\* negative total wraps (the sum is unsigned): the average is then wrong, the sum right
\* modulo the width.
AggregateExact ==
  LET taken == IF agg.limit \in 1..Len(agg.found) THEN SubSeq(agg.found, 1, agg.limit)
               ELSE agg.found
      total == FoldLeft(+, 0, taken)
  IN  /\ ~agg.avg => (Aggregate - total) % 2^WordSize = 0
      /\ agg.avg /\ taken # <<>> => (Aggregate = total \div Len(taken)) = (total >= 0)
=============================================================================
