---------------------------- MODULE NetworkGuard ----------------------------
(***************************************************************************)
(* What a reviewed firewall may change without a new review                  *)
(* (src/backend/app/telemetry/network_guard.py and ruleset_fingerprint of    *)
(* src/scripts/network_export.py).  The exporter hashes the whole ruleset    *)
(* with counters left out; under the terminal guard the members of an        *)
(* enrolled set are left out too, provided nothing but rules that deny what  *)
(* the set names refers to it.                                               *)
(*                                                                           *)
(* A ruleset is a sequence of objects: sets with their members, rules with   *)
(* their expressions, and other objects.  A fingerprint is the value hashed. *)
(* A rule's expressions are tests, counters and, last, a statement.  The     *)
(* reference semantics at the end says which sources a ruleset lets through. *)
(***************************************************************************)
EXTENDS Integers, Sequences, FiniteSets, SequencesExt

CONSTANTS
  Addresses,       \* addresses, of the family of the enrolled set
  OddMembers,      \* members that are not plain addresses: intervals, timeouts, other spellings
  EnrolledSet,     \* the set in dynamic_terminal_sets
  SetLayouts,      \* the definitions a set may have besides its members; "plain" is the reviewable one
  RuleShapes,      \* rules the owner may write, as sequences of expressions
  OtherObjects,    \* objects of other kinds the owner may add: [kind, refers]
  MaxRules,        \* rules of a ruleset
  MaxEdits         \* changes of the firewall of a behaviour

(* Expressions.  `test` with field and set is a lookup of an address in a set, *)
(* `static` a test of ports or protocol, `counter` packets counted so far.     *)

Expressions ==
  [packets : Nat] \cup [static : STRING] \cup [statement : STRING]
    \cup [test : {"saddr"}, op : {"==", "!="}, set : {EnrolledSet}]

ASSUME NetworkGuardAssumption ==
  /\ MaxRules \in Nat /\ MaxEdits \in Nat
  /\ \A exprs \in RuleShapes : exprs \in Seq(Expressions) /\ exprs # <<>>
  /\ \A o \in OtherObjects : o.kind \notin {"set", "rule"}

Lookup(set) == [test |-> "saddr", op |-> "==", set |-> set]
IsCounter(x) == "packets" \in DOMAIN x
IsStatic(x) == "static" \in DOMAIN x
IsTerminal(x) == "statement" \in DOMAIN x /\ x.statement \in {"drop", "reject"}
Refers(x, set) == "set" \in DOMAIN x /\ x.set = set

-----------------------------------------------------------------------------
(* normalized_nft_rules: only exact counters are left out. *)

PlainExpr(x) == IF IsCounter(x) THEN [x EXCEPT !.packets = 0] ELSE x
NormalizedObject(o) ==
  IF o.kind = "rule" THEN [o EXCEPT !.exprs = [i \in DOMAIN @ |-> PlainExpr(@[i])]] ELSE o
Normalized(rules) == [i \in DOMAIN rules |-> NormalizedObject(rules[i])]

-----------------------------------------------------------------------------
(* terminal_set_snapshot. *)

(* Mutant of ReviewedRule: any number of lookups in any direction will do. *)
ReviewedAnyLookup(exprs, set) ==
  /\ Len(exprs) >= 2 /\ IsTerminal(Last(exprs))
  /\ \E i \in 1 .. Len(exprs) - 1 : Refers(exprs[i], set)
  /\ \A i \in 1 .. Len(exprs) - 1 : Refers(exprs[i], set) \/ IsCounter(exprs[i]) \/ IsStatic(exprs[i])
\* _review_rule: one lookup of the source address, equality, static tests and
\* counters besides, and a denial last.
ReviewedRule(exprs, set) ==
  /\ Len(exprs) >= 2 /\ IsTerminal(Last(exprs))
  /\ Cardinality({i \in 1 .. Len(exprs) - 1 : exprs[i] = Lookup(set)}) = 1
  /\ \A i \in 1 .. Len(exprs) - 1 : exprs[i] = Lookup(set) \/ IsCounter(exprs[i]) \/ IsStatic(exprs[i])

\* _reference_paths: does an object use the set anywhere.
Uses(o, set) ==
  CASE o.kind = "rule" -> \E i \in DOMAIN o.exprs : Refers(o.exprs[i], set)
    [] o.kind = "set" -> FALSE
    [] OTHER -> o.refers = set

Definitions(rules, set) == {i \in DOMAIN rules : rules[i].kind = "set" /\ rules[i].name = set}

\* The set is defined once, plainly, its members are plain addresses, and every
\* use of it is a rule that passes; at least one is.
Reviewable(rules, set) ==
  /\ Cardinality(Definitions(rules, set)) = 1
  /\ \A i \in Definitions(rules, set) : rules[i].layout = "plain" /\ rules[i].members \subseteq Addresses
  /\ \A i \in DOMAIN rules : Uses(rules[i], set) =>
       rules[i].kind = "rule" /\ ReviewedRule(rules[i].exprs, set)
  /\ \E i \in DOMAIN rules : Uses(rules[i], set)

Unbound == "reviewed_dynamic_terminal_membership"
TerminalSnapshot(rules, set) ==
  [i \in DOMAIN rules |->
     IF i \in Definitions(rules, set) THEN [rules[i] EXCEPT !.members = Unbound] ELSE rules[i]]

\* unsafe_dynamic_terminal_set: no ruleset is empty.
Refusal == <<>>

\* ruleset_fingerprint under the terminal guard.
Fingerprint(rules) ==
  LET plain == Normalized(rules) IN
  IF Reviewable(plain, EnrolledSet) THEN TerminalSnapshot(plain, EnrolledSet) ELSE Refusal

-----------------------------------------------------------------------------
(* The firewall and its changes. *)

VARIABLES
  firewall,   \* the ruleset in force
  reviewed,   \* the ruleset its owner enrolled
  edits

guardVars == <<firewall, reviewed, edits>>

SetObject(members, layout) == [kind |-> "set", name |-> EnrolledSet, members |-> members, layout |-> layout]
RuleObject(exprs) == [kind |-> "rule", exprs |-> exprs]

GuardInit ==
  /\ \E exprs \in RuleShapes, members \in SUBSET Addresses :
       firewall = <<SetObject(members, "plain"), RuleObject(exprs)>>
  /\ reviewed = firewall /\ edits = 0

EditFirewall(rules) ==
  /\ edits < MaxEdits /\ edits' = edits + 1
  /\ firewall' = rules
  /\ UNCHANGED reviewed

\* The blocking tool changes the members of the set, or something else does.
ChangeMembers ==
  \E members \in SUBSET (Addresses \cup OddMembers), layout \in SetLayouts :
    EditFirewall([firewall EXCEPT ![1] = SetObject(members, layout)])

\* Packets pass.
CountPackets ==
  \E i \in {j \in DOMAIN firewall : firewall[j].kind = "rule"} : \E k \in DOMAIN firewall[i].exprs :
    /\ IsCounter(firewall[i].exprs[k])
    /\ EditFirewall([firewall EXCEPT ![i].exprs[k].packets = @ + 1])

\* A rule or another object is added at the top or at the end, or the last goes.
ChangeRules ==
  \/ \E exprs \in RuleShapes :
       /\ Len(firewall) <= MaxRules
       /\ \/ EditFirewall(Append(firewall, RuleObject(exprs)))
          \/ EditFirewall(<<firewall[1], RuleObject(exprs)>> \o Tail(firewall))
  \/ \E o \in OtherObjects : Len(firewall) <= MaxRules /\ EditFirewall(Append(firewall, o))
  \/ Len(firewall) > 2 /\ EditFirewall(Front(firewall))

GuardNext == ChangeMembers \/ CountPackets \/ ChangeRules
GuardSpec == GuardInit /\ [][GuardNext]_guardVars

-----------------------------------------------------------------------------
(* Properties. *)

\* The reference: does rule r apply to a packet from address a (for some
\* traffic, so static tests hold), and what happens to the packet.
Members(rules) == rules[1].members
Applies(exprs, a, rules) ==
  \A i \in DOMAIN exprs : "test" \in DOMAIN exprs[i] =>
    LET listed == a \in Members(rules) IN IF exprs[i].op = "==" THEN listed ELSE ~listed
Outcome(rules, a) ==
  LET hits == {i \in DOMAIN rules : /\ rules[i].kind = "rule" /\ Applies(rules[i].exprs, a, rules)
                                    /\ "statement" \in DOMAIN Last(rules[i].exprs)}
  IN IF hits = {} THEN "accept" ELSE Last(rules[CHOOSE i \in hits : \A j \in hits : i <= j].exprs).statement

\* While the fingerprint is the reviewed one, an address whose membership did
\* not change meets the same fate as under review, and a change of membership
\* can only deny: an address newly in the set is never let through where it was
\* denied, and one taken out is never denied where it was let through
\* (network_guard.py:3-7, :99-124, :187-192).
ReviewStillHolds ==
  Fingerprint(firewall) # Refusal /\ Fingerprint(firewall) = Fingerprint(reviewed) =>
    \A a \in Addresses :
      LET before == Outcome(reviewed, a)
          current == Outcome(firewall, a)
      IN \/ before = current
         \/ a \in Members(firewall) \ Members(reviewed) /\ current \in {"drop", "reject"}
         \/ a \in Members(reviewed) \ Members(firewall) /\ before \in {"drop", "reject"}
=============================================================================
