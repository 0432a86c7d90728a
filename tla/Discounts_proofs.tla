-------------------------- MODULE Discounts_proofs --------------------------
(***************************************************************************)
(* Proofs about Discounts: the types, the rounding of what an invoice is   *)
(* granted, the limit of a rule's recipients and the rows that refer to a  *)
(* rule, for any rules, discounts, students and handlers.                  *)
(***************************************************************************)
EXTENDS Discounts, FiniteSums

-----------------------------------------------------------------------------
(* Arithmetic.                                                             *)

(* n / d rounded is within half a unit of n / d.                           *)
LEMMA RoundedBound ==
  ASSUME NEW n \in Nat, NEW d \in Nat \ {0}
  PROVE  Rounded(n, d) \in Nat /\ 2 * (d * Rounded(n, d)) <= 2 * n + d
<1> DEFINE q == Rounded(n, d)   p == 2 * n + d   e == 2 * d
<1>1. p \in Nat /\ e \in Nat \ {0}
  OBVIOUS
<1> HIDE DEF p, e
<1>2. p \div e \in Nat /\ e * (p \div e) <= p
  BY <1>1
<1>3. q = p \div e
  BY DEF Rounded, p, e
<1> HIDE DEF q
<1>4. q \in Nat /\ e * q <= p
  BY <1>2, <1>3
<1>5. e * q = 2 * (d * q)
  BY <1>4 DEF e
<1>6. QED BY <1>4, <1>5 DEF p, q

(* A positive factor can be cancelled.                                     *)
LEMMA CancelFactor ==
  ASSUME NEW a \in Int, NEW b \in Int, NEW c \in Nat \ {0}, c * a <= c * b
  PROVE  a <= b
<1>1. SUFFICES ASSUME b + 1 <= a PROVE FALSE
  OBVIOUS
<1>2. PICK k \in Nat : a = b + 1 + k
  BY <1>1
<1>3. c * a = c * b + c + c * k
  BY <1>2
<1>4. c * k \in Nat /\ c * b \in Int /\ c * a \in Int
  BY <1>2
<1>5. QED BY <1>3, <1>4

(* What a discount amounts to is a natural number.                         *)
LEMMA PricesAdd ==
  ASSUME NEW S \in SUBSET Item
  PROVE  SumOf(Price, S) \in Nat
<1> DEFINE f == [x \in S |-> Price[x]]
<1>1. IsFiniteSet(S) /\ \A x \in S : f[x] \in Nat
  BY FS_Subset, DiscountAssumption
<1> HIDE DEF f
<1>2. SumFunctionOnSet(f, S) \in Nat
  BY <1>1, SumNonNegative
<1>3. QED BY <1>2 DEF SumOf, f

TermsOf == [type : {"sibling", "early", "custom", "scholarship"}, auto : BOOLEAN,
            stackable : BOOLEAN, contexts : SUBSET {"enrollment", "recurring"},
            items : SUBSET Item, percent : BOOLEAN, value : Nat,
            max : Nat \cup {None}, threshold : Nat \cup {None}]

LEMMA TermsType == Terms \subseteq TermsOf
  BY DiscountAssumption DEF TermsOf

LEMMA AmountType ==
  ASSUME NEW terms \in Terms, NEW billed \in SUBSET Item
  PROVE  Amount(terms, billed) \in Nat
<1> DEFINE base == SumOf(Price, billed \cap terms.items)
<1>1. base \in Nat
  BY PricesAdd
<1>2. terms.value \in Nat
  BY TermsType DEF TermsOf
<1> HIDE DEF base
<1>3. base * terms.value \in Nat
  BY <1>1, <1>2
<1>4. Rounded(base * terms.value, 100) \in Nat
  <2> DEFINE n == base * terms.value
  <2> HIDE DEF n
  <2>1. n \in Nat
    BY <1>3 DEF n
  <2>2. Rounded(n, 100) \in Nat
    BY <2>1, RoundedBound
  <2>3. QED BY <2>2 DEF n
<1>5. QED BY <1>1, <1>2, <1>4 DEF Amount, base

-----------------------------------------------------------------------------
(* Candidates and lines.                                                   *)

CandidateRow == [id : Rule \cup Discount, rule : Rule,
                 type : {"sibling", "early", "custom", "scholarship"}, stackable : BOOLEAN,
                 items : SUBSET Item, threshold : Nat \cup {None}, limit : Nat \cup {None},
                 amount : Nat]

LineRow == [id : Rule \cup Discount, rule : Rule, stackable : BOOLEAN,
            limit : Nat \cup {None}, amount : Nat, asks : BOOLEAN]

(* An id names one row of a set.                                           *)
Keyed(rowsOf) == \A x, y \in rowsOf : x.id = y.id => x = y

(* What a stacking has to ensure of an invoice's lines under a cap.        *)
Sound(lines, cap) ==
  /\ 2 * Total(lines) <= 2 * cap + Cardinality(lines)
  /\ \A l1, l2 \in lines : l1.stackable \/ l2.stackable \/ l1 = l2

LEMMA CandidateType ==
  ASSUME NEW r \in Rule, NEW id \in Rule \cup Discount, NEW terms \in Terms,
         NEW billed \in SUBSET Item, NEW limit \in Nat \cup {None}
  PROVE  /\ Candidate(id, r, terms, billed, limit) \in CandidateRow
         /\ Candidate(id, r, terms, billed, limit).id = id
         /\ Candidate(id, r, terms, billed, limit).rule = r
         /\ Candidate(id, r, terms, billed, limit).limit = limit
<1>1. Amount(terms, billed) \in Nat
  BY AmountType
<1>2. terms \in TermsOf
  BY TermsType
<1>3. QED BY <1>1, <1>2 DEF Candidate, CandidateRow, TermsOf

(* A keyed set of candidates is finite.                                    *)
LEMMA KeyedIsFinite ==
  ASSUME NEW C \in SUBSET CandidateRow, Keyed(C)
  PROVE  IsFiniteSet(C)
<1>1. IsFiniteSet(Rule \cup Discount)
  BY FS_Union, DiscountAssumption
<1>2. [c \in C |-> c.id] \in Injection(C, Rule \cup Discount)
  BY DEF Keyed, CandidateRow, Injection, IsInjective
<1>3. QED BY <1>1, <1>2, FS_Injection

(* The winners of a stacking are candidates, at most one of them exclusive.*)
LEMMA StackingsChoose ==
  ASSUME NEW C \in SUBSET CandidateRow, NEW W \in Stackings(C)
  PROVE  /\ W \subseteq C
         /\ \A c1, c2 \in W : c1.stackable \/ c2.stackable \/ c1 = c2
  BY DEF Stackings

LEMMA CapType ==
  ASSUME NEW W \in SUBSET CandidateRow, NEW billed \in SUBSET Item
  PROVE  Cap(W, billed) \in Nat
<1> DEFINE base == SumOf(Price, billed \cap UNION {c.items : c \in W})
<1>1. base \in Nat
  BY PricesAdd
<1> DEFINE n == base * MaxPercent
<1> HIDE DEF base
<1>2. n \in Nat
  BY <1>1, DiscountAssumption
<1> HIDE DEF n
<1>3. Rounded(n, 100) \in Nat
  BY <1>2, RoundedBound
<1>4. QED BY <1>3 DEF Cap, n, base

(* The sum of what a keyed set of candidates amounts to.                   *)
LEMMA TotalType ==
  ASSUME NEW W \in SUBSET CandidateRow, Keyed(W)
  PROVE  Total(W) \in Nat
<1> DEFINE f == [c \in W |-> c.amount]
<1>1. IsFiniteSet(W) /\ \A c \in W : f[c] \in Nat
  BY KeyedIsFinite DEF CandidateRow
<1> HIDE DEF f
<1>2. SumFunctionOnSet(f, W) \in Nat
  BY <1>1, SumNonNegative
<1>3. QED BY <1>2 DEF Total, f

(* What is scaled is within half a unit of its share of the cap.           *)
LEMMA ScaledBound ==
  ASSUME NEW amount \in Nat, NEW raw \in Nat, NEW cap \in Nat
  PROVE  /\ Scaled(amount, raw, cap) \in Nat
         /\ raw <= cap => Scaled(amount, raw, cap) = amount
         /\ ~ (raw <= cap) =>
              2 * (raw * Scaled(amount, raw, cap)) <= 2 * (cap * amount) + raw
<1>1. CASE raw <= cap
  BY <1>1 DEF Scaled
<1>2. CASE ~ (raw <= cap)
  <2>1. raw \in Nat \ {0}
    BY <1>2
  <2> DEFINE n == amount * cap
  <2>2. n \in Nat /\ n = cap * amount
    OBVIOUS
  <2>3. Scaled(amount, raw, cap) = Rounded(n, raw)
    BY <1>2 DEF Scaled
  <2> HIDE DEF n
  <2>4. Rounded(n, raw) \in Nat /\ 2 * (raw * Rounded(n, raw)) <= 2 * n + raw
    BY <2>1, <2>2, RoundedBound
  <2>5. QED BY <1>2, <2>2, <2>3, <2>4
<1>3. QED BY <1>1, <1>2

(* The lines of the winners: as many, of the same ids, rules and limits,   *)
(* and sound.                                                              *)
LEMMA LinesSound ==
  ASSUME NEW W \in SUBSET CandidateRow, Keyed(W), NEW cap \in Nat,
         \A c1, c2 \in W : c1.stackable \/ c2.stackable \/ c1 = c2
  PROVE  /\ Lines(W, cap) \subseteq LineRow
         /\ Sound(Lines(W, cap), cap)
         /\ \A l \in Lines(W, cap) : \E c \in W : l.id = c.id /\ l.rule = c.rule /\ l.limit = c.limit
<1> DEFINE raw == Total(W)
           w == [c \in W |-> Scaled(c.amount, raw, cap)]
           f == [c \in W |-> c.amount]
           g == [c \in W |-> [id |-> c.id, rule |-> c.rule, stackable |-> c.stackable,
                              limit |-> c.limit, amount |-> w[c],
                              asks |-> c.threshold # None /\ w[c] > c.threshold]]
           L == {g[c] : c \in W}
<1>1. IsFiniteSet(W) /\ raw \in Nat
  BY KeyedIsFinite, TotalType
<1>2. Lines(W, cap) = L
  BY DEF Lines
<1>3. ASSUME NEW c \in W
      PROVE  /\ w[c] \in Nat /\ f[c] \in Nat /\ f[c] = c.amount
             /\ raw <= cap => w[c] = f[c]
             /\ ~ (raw <= cap) => 2 * (raw * w[c]) <= 2 * (cap * f[c]) + raw
  <2>1. c.amount \in Nat
    BY DEF CandidateRow
  <2> HIDE DEF raw
  <2>2. QED BY <1>1, <2>1, ScaledBound
<1>4. raw = SumFunctionOnSet(f, W)
  BY DEF Total
<1> HIDE DEF raw, f, w
<1>5. ASSUME NEW c \in W
      PROVE  /\ g[c] \in LineRow /\ g[c].id = c.id /\ g[c].rule = c.rule /\ g[c].limit = c.limit
             /\ g[c].stackable = c.stackable /\ g[c].amount = w[c]
  <2>1. c \in CandidateRow /\ w[c] \in Nat
    BY <1>3
  <2>2. QED BY <2>1 DEF CandidateRow, LineRow
<1>6. \A c1, c2 \in W : g[c1] = g[c2] => c1 = c2
  BY <1>5 DEF Keyed
<1> HIDE DEF g
<1>7. Cardinality(L) = Cardinality(W) /\ IsFiniteSet(L)
  <2> DEFINE h == [c \in W |-> g[c]]
  <2>1. h \in Surjection(W, L) /\ h \in Injection(W, L)
    BY <1>6 DEF Surjection, Injection, IsInjective
  <2> HIDE DEF h, L
  <2>2. QED BY <1>1, <2>1, FS_Surjection
<1>8. Total(L) = SumFunctionOnSet(w, W)
  <2> DEFINE a == [l \in L |-> l.amount]
             b == [c \in W |-> a[g[c]]]
  <2>1. \A c \in W : a[g[c]] = w[c] /\ a[g[c]] \in Int
    BY <1>3, <1>5
  <2>2. \A c \in W : b[c] = w[c]
    BY <2>1
  <2>3. SumFunctionOnSet(a, {g[c] : c \in W}) = SumFunctionOnSet(b, W)
    <3> HIDE DEF a
    <3>1. QED BY <1>1, <1>6, <2>1, SumImage
  <2>4. Total(L) = SumFunctionOnSet(a, {g[c] : c \in W})
    BY DEF Total
  <2> HIDE DEF a, b
  <2>5. SumFunctionOnSet(b, W) = SumFunctionOnSet(w, W)
    BY <1>1, <2>2, SumCong
  <2>6. QED BY <2>3, <2>4, <2>5
<1> DEFINE t == SumFunctionOnSet(w, W)
           n == Cardinality(W)
<1>9. t \in Nat /\ n \in Nat
  BY <1>1, <1>3, SumNonNegative, FS_CardinalityType
<1>10. 2 * t <= 2 * cap + n
  <2>1. CASE raw <= cap
    <3>1. t = raw
      <4>1. \A c \in W : w[c] = f[c]
        BY <1>3, <2>1
      <4>2. QED BY <1>1, <1>4, <4>1, SumCong
    <3> HIDE DEF t, n
    <3>2. QED BY <1>1, <1>9, <2>1, <3>1
  <2>2. CASE ~ (raw <= cap)
    <3>1. 2 * (raw * t) <= 2 * (cap * raw) + n * raw
      <4>1. \A c \in W : w[c] \in Nat /\ f[c] \in Nat
                         /\ 2 * (raw * w[c]) <= 2 * (cap * f[c]) + raw
        BY <1>3, <2>2
      <4>2. QED BY <1>1, <1>4, <4>1, SumRounded
    <3> HIDE DEF t, n
    <3>2. raw * (2 * t) <= raw * (2 * cap + n)
      <4>1. /\ raw * (2 * t) = 2 * (raw * t)
            /\ raw * (2 * cap + n) = 2 * (cap * raw) + n * raw
        BY <1>1, <1>9
      <4>2. QED BY <3>1, <4>1
    <3>3. raw \in Nat \ {0}
      BY <1>1, <2>2
    <3> DEFINE lhs == 2 * t   rhs == 2 * cap + n
    <3>4. lhs \in Int /\ rhs \in Int
      BY <1>9
    <3>5. raw * lhs <= raw * rhs
      BY <3>2
    <3> HIDE DEF lhs, rhs
    <3>6. lhs <= rhs
      BY <3>3, <3>4, <3>5, CancelFactor
    <3>7. QED BY <3>6 DEF lhs, rhs
  <2>3. QED BY <2>1, <2>2
<1>11. Sound(L, cap)
  <2>1. 2 * Total(L) <= 2 * cap + Cardinality(L)
    BY <1>7, <1>8, <1>10
  <2>2. \A l1, l2 \in L : l1.stackable \/ l2.stackable \/ l1 = l2
    BY <1>5
  <2>3. QED BY <2>1, <2>2 DEF Sound
<1>12. QED BY <1>2, <1>5, <1>11

-----------------------------------------------------------------------------
(* The types.                                                              *)

RuleStatus == {"absent", "active", "inactive", "archived", "deleted"}

RuleRow == [status : RuleStatus, terms : Terms \cup {None}]

NoDiscount == [status |-> "absent", student |-> None, rule |-> None]

DiscountRow == [status : {"submitted", "approved", "rejected"}, student : Student, rule : Rule]

GrantRow == [lines : SUBSET LineRow, cap : Nat, stored : BOOLEAN]

Pcs == {"idle", "deleteCount", "deleteRule", "auto", "counts", "forced", "grant"}

Locals == [pc : Pcs, kind : {None, "confirm", "service", "run"}, stored : BOOLEAN,
           context : {None, "enrollment", "recurring"}, student : Student \cup {None},
           billed : SUBSET Item, forced : SUBSET Rule, auto : SUBSET (Rule \X Terms),
           candidates : SUBSET CandidateRow, lines : SUBSET LineRow, cap : Nat,
           rule : Rule \cup {None}]

RowsOK ==
  /\ rules \in [Rule -> RuleRow]
  /\ \A r \in Rule : rules[r].status # "absent" => rules[r].terms \in Terms
  /\ discounts \in [Discount -> DiscountRow \cup {NoDiscount}]
  /\ granted \in Seq(GrantRow)

(* A candidate or a line comes from a rule or from a student's discount.   *)
Sourced(c) == c.id = c.rule \/ (c.id \in Discount /\ discounts[c.id].rule = c.rule)

(* What a handler holds.  The discounts of the student are read first, so  *)
(* that up to the counts no candidate has the id of a rule.                *)
LocalOK(l) ==
  /\ l \in Locals
  /\ l.pc \in {"deleteCount", "deleteRule"} => l.rule \in Rule /\ rules[l.rule].status # "absent"
  /\ \A c \in l.candidates \cup l.lines : Sourced(c)
  /\ Keyed(l.candidates)
  /\ l.pc \in {"auto", "counts"} => \A c \in l.candidates : c.id \in Discount
  /\ \A a, b \in l.auto : a[1] = b[1] => a = b
  /\ Sound(l.lines, l.cap)

TypeInv ==
  /\ RowsOK
  /\ eval \in [Request -> Locals]
  /\ \A h \in Request : LocalOK(eval[h])
  /\ \A i \in DOMAIN granted : /\ \A l \in granted[i].lines : Sourced(l)
                               /\ Sound(granted[i].lines, granted[i].cap)

(* No line is sound under any cap.                                         *)
LEMMA NothingIsSound == Sound({}, 0)
<1> DEFINE f == [l \in {} |-> l.amount]
<1>1. IsFiniteSet({}) /\ Cardinality({}) = 0
  BY FS_EmptySet
<1> HIDE DEF f
<1>2. SumFunctionOnSet(f, {}) = 0
  BY <1>1, SumUnfold
<1>3. Total({}) = 0
  BY <1>2 DEF Total, f
<1>4. QED BY <1>1, <1>3 DEF Sound

LEMMA NoEvalOK == LocalOK(NoEval)
  BY NothingIsSound DEF LocalOK, Locals, NoEval, Pcs, Keyed

(* A discount that is there keeps its rule, and so every source stays.     *)
LEMMA SourcesStay ==
  ASSUME RowsOK, RowsOK',
         \A d \in Discount : discounts[d].status # "absent" => discounts'[d].rule = discounts[d].rule,
         NEW c, c.rule \in Rule, Sourced(c)
  PROVE  Sourced(c)'
<1>1. None \notin Rule
  BY DiscountAssumption
<1>2. ASSUME c.id \in Discount, discounts[c.id].rule = c.rule
      PROVE  discounts[c.id].status # "absent"
  <2>1. discounts[c.id] \in DiscountRow \cup {NoDiscount}
    BY <1>2 DEF RowsOK
  <2>2. discounts[c.id] # NoDiscount
    BY <1>1, <1>2 DEF NoDiscount
  <2>3. QED BY <2>1, <2>2 DEF DiscountRow
<1>3. QED BY <1>2 DEF Sourced

RulesStay ==
  /\ \A d \in Discount : discounts[d].status # "absent" => discounts'[d].rule = discounts[d].rule
  /\ \A r \in Rule : rules[r].status # "absent" => rules'[r].status # "absent"

(* What a handler holds stays right when discounts keep their rules and    *)
(* rules stay.                                                             *)
LEMMA LocalsStay ==
  ASSUME RowsOK, RowsOK', RulesStay, NEW l, LocalOK(l)
  PROVE  LocalOK(l)'
<1>1. \A c \in l.candidates \cup l.lines : c.rule \in Rule
  BY DEF LocalOK, Locals, CandidateRow, LineRow
<1>2. \A c \in l.candidates \cup l.lines : Sourced(c)'
  BY <1>1, SourcesStay DEF LocalOK, RulesStay
<1>3. QED BY <1>2 DEF LocalOK, RulesStay

LEMMA GrantsStay ==
  ASSUME TypeInv, RowsOK', RulesStay, NEW i \in DOMAIN granted, NEW l \in granted[i].lines
  PROVE  Sourced(l)'
<1>1. granted[i] \in GrantRow
  BY DEF TypeInv, RowsOK
<1>2. l.rule \in Rule /\ Sourced(l)
  BY <1>1 DEF GrantRow, LineRow, TypeInv
<1>3. QED BY <1>2, SourcesStay DEF TypeInv, RulesStay

(* A step that changes rows, but neither invoices nor handlers.            *)
LEMMA RowsStep ==
  ASSUME TypeInv, RowsOK', RulesStay, UNCHANGED <<granted, eval>>
  PROVE  TypeInv'
<1>1. ASSUME NEW h \in Request PROVE LocalOK(eval[h])'
  <2>1. LocalOK(eval[h]) /\ eval' = eval
    BY DEF TypeInv
  <2>2. ASSUME NEW l, LocalOK(l) PROVE LocalOK(l)'
    BY <2>2, LocalsStay DEF TypeInv
  <2>3. LocalOK(eval'[h])
    BY <2>1
  <2>4. QED BY <2>2, <2>3
<1>2. QED BY <1>1, GrantsStay DEF TypeInv

(* A step of one handler that changes no rows.                             *)
LEMMA LocalStep ==
  ASSUME TypeInv, UNCHANGED rows, NEW h \in Request, NEW l, LocalOK(l), Continue(h, l)
  PROVE  TypeInv'
<1>1. l \in Locals
  BY DEF LocalOK
<1>2. eval' \in [Request -> Locals] /\ \A g \in Request : eval'[g] = IF g = h THEN l ELSE eval[g]
  BY <1>1 DEF TypeInv, Continue
<1>3. ASSUME NEW k, LocalOK(k) PROVE LocalOK(k)'
  BY <1>3 DEF LocalOK, Sourced, rows
<1>4. \A g \in Request : LocalOK(eval'[g])
  BY <1>2 DEF TypeInv
<1>5. \A g \in Request : LocalOK(eval[g])'
  BY <1>3, <1>4
<1>6. QED BY <1>2, <1>5 DEF TypeInv, RowsOK, rows, Sourced

LEMMA StatusStep ==
  ASSUME RowsOK, UNCHANGED <<discounts, granted>>, NEW r \in Rule, rules[r].status # "absent",
         NEW s \in RuleStatus \ {"absent"}, rules' = [rules EXCEPT ![r].status = s]
  PROVE  RowsOK' /\ RulesStay
  BY DEF RowsOK, RulesStay, RuleRow, RuleStatus

(* Changes of rules and of the discounts of students.                      *)
LEMMA RuleChangesKeepTypes ==
  ASSUME TypeInv, NEW r \in Rule, CreateRule(r) \/ UpdateRule(r) \/ SetRuleStatus(r)
  PROVE  TypeInv'
<1>1. RowsOK' /\ RulesStay /\ UNCHANGED <<granted, eval>>
  <2>1. CASE CreateRule(r)
    BY <2>1 DEF TypeInv, CreateRule, RowsOK, RulesStay, RuleRow, RuleStatus
  <2>2. CASE UpdateRule(r)
    BY <2>2 DEF TypeInv, UpdateRule, RowsOK, RulesStay, RuleRow, RuleStatus
  <2>3. CASE SetRuleStatus(r)
    <3>1. rules[r].status # "absent"
      BY <2>3 DEF SetRuleStatus, There
    <3>2. PICK s \in {"active", "inactive", "archived"} :
             rules' = [rules EXCEPT ![r].status = s]
      BY <2>3 DEF SetRuleStatus
    <3>3. QED BY <2>3, <3>1, <3>2, StatusStep DEF TypeInv, SetRuleStatus, RuleStatus
  <2>4. QED BY <2>1, <2>2, <2>3
<1>2. QED BY <1>1, RowsStep

LEMMA DiscountChangesKeepTypes ==
  ASSUME TypeInv, NEW d \in Discount,
         DecideDiscount(d) \/ \E s \in Student, r \in Rule : RequestDiscount(d, s, r)
  PROVE  TypeInv'
<1>1. RowsOK' /\ RulesStay /\ UNCHANGED <<granted, eval>>
  <2>1. CASE DecideDiscount(d)
    <3>1. discounts[d] \in DiscountRow
      BY <2>1 DEF TypeInv, RowsOK, DecideDiscount, NoDiscount
    <3>2. QED BY <2>1, <3>1 DEF TypeInv, DecideDiscount, RowsOK, RulesStay, DiscountRow
  <2>2. ASSUME NEW s \in Student, NEW r \in Rule, RequestDiscount(d, s, r)
        PROVE  RowsOK' /\ RulesStay /\ UNCHANGED <<granted, eval>>
    BY <2>2 DEF TypeInv, RequestDiscount, RowsOK, RulesStay, DiscountRow
  <2>3. QED BY <2>1, <2>2
<1>2. QED BY <1>1, RowsStep

(* The steps of a deletion.                                                *)
LEMMA DeletionsKeepTypes ==
  ASSUME TypeInv, NEW h \in Request,
         (\E r \in Rule : DeleteRuleRead(h, r)) \/ DeleteRuleCount(h) \/ DeleteRuleRow(h)
  PROVE  TypeInv'
<1>1. LocalOK(eval[h]) /\ LocalOK(NoEval) /\ RowsOK
  BY NoEvalOK DEF TypeInv
<1>2. ASSUME NEW r \in Rule, DeleteRuleRead(h, r) PROVE TypeInv'
  <2>1. LocalOK([NoEval EXCEPT !.pc = "deleteCount", !.rule = r])
    <3>1. rules[r].status # "absent"
      BY <1>2 DEF DeleteRuleRead
    <3>2. QED BY <1>1, <3>1 DEF LocalOK, Locals, NoEval, Pcs, Keyed
  <2>2. QED BY <1>2, <2>1, LocalStep DEF DeleteRuleRead
<1>3. ASSUME DeleteRuleCount(h) PROVE TypeInv'
  <2>1. LocalOK([eval[h] EXCEPT !.pc = "deleteRule"])
    BY <1>1, <1>3 DEF LocalOK, Locals, Pcs, DeleteRuleCount, Here
  <2>2. QED BY <1>1, <1>3, <2>1, LocalStep DEF DeleteRuleCount
<1>4. ASSUME DeleteRuleRow(h) PROVE TypeInv'
  <2>1. RowsOK' /\ RulesStay /\ granted' = granted
    <3>1. eval[h].rule \in Rule /\ rules[eval[h].rule].status # "absent"
      BY <1>1, <1>4 DEF LocalOK, DeleteRuleRow, Here
    <3>2. UNCHANGED <<discounts, granted>>
      BY <1>4 DEF DeleteRuleRow
    <3>3. CASE rules' = rules
      BY <1>1, <3>2, <3>3 DEF RowsOK, RulesStay
    <3>4. ASSUME NEW r \in Rule, r = eval[h].rule,
                 rules' = [rules EXCEPT ![r].status = "deleted"]
          PROVE  RowsOK' /\ RulesStay
      BY <1>1, <3>1, <3>2, <3>4, StatusStep DEF RuleStatus
    <3>5. rules' = rules \/ rules' = [rules EXCEPT ![eval[h].rule].status = "deleted"]
      BY <1>4 DEF DeleteRuleRow
    <3>6. QED BY <3>1, <3>2, <3>3, <3>4, <3>5
  <2>2. ASSUME NEW l, LocalOK(l) PROVE LocalOK(l)'
    BY <1>1, <2>1, <2>2, LocalsStay
  <2>3. eval' \in [Request -> Locals] /\ \A g \in Request : LocalOK(eval'[g])
    <3>1. eval' = [eval EXCEPT ![h] = NoEval]
      BY <1>4 DEF DeleteRuleRow, Continue
    <3>2. NoEval \in Locals
      BY <1>1 DEF LocalOK
    <3>3. QED BY <1>1, <3>1, <3>2 DEF TypeInv
  <2>4. \A g \in Request : LocalOK(eval[g])'
    BY <2>2, <2>3
  <2>5. QED BY <2>1, <2>3, <2>4, GrantsStay DEF TypeInv
<1>5. QED BY <1>2, <1>3, <1>4

(* The invoice is inserted.                                                *)
LEMMA GrantKeepsTypes ==
  ASSUME TypeInv, NEW h \in Request, Grant(h)
  PROVE  TypeInv'
<1>1. LocalOK(eval[h]) /\ LocalOK(NoEval) /\ RowsOK
  BY NoEvalOK DEF TypeInv
<1> DEFINE row == [lines |-> eval[h].lines, cap |-> eval[h].cap, stored |-> eval[h].stored]
<1>2. /\ row \in GrantRow /\ Sound(row.lines, row.cap) /\ \A l \in row.lines : Sourced(l)
  BY <1>1 DEF LocalOK, Locals, GrantRow
<1>3. granted' = granted \/ granted' = Append(granted, row)
  BY DEF Grant
<1> HIDE DEF row
<1>4. granted' \in Seq(GrantRow)
  BY <1>1, <1>2, <1>3 DEF RowsOK
<1>5. \A i \in DOMAIN granted' : granted'[i] = row \/ (i \in DOMAIN granted /\ granted'[i] = granted[i])
  <2>1. granted \in Seq(GrantRow)
    BY <1>1 DEF RowsOK
  <2>2. CASE granted' = Append(granted, row)
    BY <2>1, <2>2
  <2>3. QED BY <1>3, <2>2
<1>6. \A i \in DOMAIN granted' : /\ \A l \in granted'[i].lines : Sourced(l)
                                 /\ Sound(granted'[i].lines, granted'[i].cap)
  BY <1>2, <1>5 DEF TypeInv
<1>7. UNCHANGED <<rules, discounts>>
  BY DEF Grant
<1>8. ASSUME NEW l, LocalOK(l) PROVE LocalOK(l)'
  BY <1>7, <1>8 DEF LocalOK, Sourced
<1>9. eval' \in [Request -> Locals] /\ \A g \in Request : LocalOK(eval'[g])
  <2>1. eval' = [eval EXCEPT ![h] = NoEval]
    BY DEF Grant, Continue
  <2>2. NoEval \in Locals
    BY <1>1 DEF LocalOK
  <2>3. QED BY <1>1, <2>1, <2>2 DEF TypeInv
<1>10. \A g \in Request : LocalOK(eval[g])'
  BY <1>8, <1>9
<1>11. RowsOK'
  BY <1>1, <1>4, <1>7 DEF RowsOK
<1>12. QED BY <1>6, <1>7, <1>9, <1>10, <1>11 DEF TypeInv, Sourced

-----------------------------------------------------------------------------
(* The steps of an evaluation.                                             *)

LEMMA ReadApprovedKeepsTypes ==
  ASSUME TypeInv, NEW h \in Request, NEW kind \in {"confirm", "service", "run"},
         NEW stored \in BOOLEAN, NEW s \in Student, ReadApproved(h, kind, stored, s)
  PROVE  TypeInv'
<1> DEFINE usable(context, excluded) ==
             {d \in Discount :
                /\ discounts[d].status = "approved" /\ discounts[d].student = s
                /\ rules[discounts[d].rule].status = "active"
                /\ discounts[d].rule \notin excluded
                /\ InContext(rules[discounts[d].rule].terms, context)}
           cand(d, billed) ==
             Candidate(d, discounts[d].rule, rules[discounts[d].rule].terms, billed, None)
           found(context, excluded, billed) == {cand(d, billed) : d \in usable(context, excluded)}
           new(context, excluded, forced, billed) ==
             [NoEval EXCEPT
                !.pc = "auto", !.kind = kind, !.stored = stored, !.context = context,
                !.student = s, !.billed = billed, !.forced = forced,
                !.candidates = {c \in found(context, excluded, billed) : c.amount > 0}]
<1>1. PICK context \in Contexts(kind), billed \in Basket,
           excluded, forced \in IF kind = "confirm" THEN SUBSET Rule ELSE {{}} :
        Continue(h, new(context, excluded, forced, billed))
  BY DEF ReadApproved
<1>2. /\ context \in {"enrollment", "recurring"} /\ billed \in SUBSET Item
      /\ forced \in SUBSET Rule
  BY DiscountAssumption DEF Contexts
<1> DEFINE U == usable(context, excluded)
           C == {c \in found(context, excluded, billed) : c.amount > 0}
<1>3. ASSUME NEW d \in U
      PROVE  /\ cand(d, billed) \in CandidateRow
             /\ cand(d, billed).id = d /\ cand(d, billed).rule = discounts[d].rule
  <2>1. d \in Discount /\ discounts[d].status = "approved"
        /\ rules[discounts[d].rule].status = "active"
    OBVIOUS
  <2>2. discounts[d] \in DiscountRow
    BY <2>1 DEF TypeInv, RowsOK, NoDiscount
  <2>3. discounts[d].rule \in Rule
    BY <2>2 DEF DiscountRow
  <2>4. RowsOK
    BY DEF TypeInv
  <2>5. d \in Rule \cup Discount /\ None \in Nat \cup {None} /\ rules[discounts[d].rule].terms \in Terms
    BY <2>1, <2>3, <2>4 DEF RowsOK
  <2> DEFINE r == discounts[d].rule   t == rules[discounts[d].rule].terms
  <2> HIDE DEF r, t
  <2> DEFINE limit == None
  <2>6. /\ r \in Rule /\ t \in Terms /\ d \in Rule \cup Discount
        /\ limit \in Nat \cup {None} /\ billed \in SUBSET Item
    BY <1>2, <2>3, <2>5 DEF r, t
  <2>7. cand(d, billed) = Candidate(d, r, t, billed, limit)
    BY DEF r, t
  <2> HIDE DEF limit, cand
  <2>8. /\ Candidate(d, r, t, billed, limit) \in CandidateRow
        /\ Candidate(d, r, t, billed, limit).id = d
        /\ Candidate(d, r, t, billed, limit).rule = r
    BY <2>6, CandidateType
  <2>9. QED BY <2>7, <2>8 DEF r
<1>4. \A c \in C : \E d \in U : c = cand(d, billed)
  OBVIOUS
<1>5. U \subseteq Discount
  OBVIOUS
<1> DEFINE l == new(context, excluded, forced, billed)
<1> HIDE DEF C, U, cand, found
<1>6. l = [NoEval EXCEPT !.pc = "auto", !.kind = kind, !.stored = stored, !.context = context,
                         !.student = s, !.billed = billed, !.forced = forced, !.candidates = C]
  BY DEF l, C
<1>7. C \subseteq CandidateRow /\ Keyed(C) /\ \A c \in C : c.id \in Discount /\ Sourced(c)
  <2>1. C \subseteq CandidateRow
    BY <1>3, <1>4
  <2>2. Keyed(C)
    BY <1>3, <1>4 DEF Keyed
  <2>3. \A c \in C : c.id \in Discount /\ Sourced(c)
    BY <1>3, <1>4, <1>5 DEF Sourced
  <2>4. QED BY <2>1, <2>2, <2>3
<1>8. /\ l \in Locals /\ l.pc = "auto" /\ l.candidates = C /\ l.lines = NoEval.lines
      /\ l.auto = NoEval.auto /\ l.cap = NoEval.cap
  <2>1. NoEval \in Locals
    BY NoEvalOK DEF LocalOK
  <2> DEFINE l1 == [NoEval EXCEPT !.pc = "auto", !.kind = kind, !.stored = stored]
             l2 == [l1 EXCEPT !.context = context, !.student = s, !.billed = billed]
  <2>2. l1 \in Locals /\ l1.pc = "auto" /\ l1.lines = NoEval.lines /\ l1.auto = NoEval.auto
        /\ l1.cap = NoEval.cap
    BY <2>1 DEF Locals, Pcs
  <2>3. l = [l2 EXCEPT !.forced = forced, !.candidates = C]
    BY <1>6
  <2> HIDE DEF l1
  <2>4. l2 \in Locals /\ l2.pc = "auto" /\ l2.lines = l1.lines /\ l2.auto = l1.auto
        /\ l2.cap = l1.cap
    BY <1>2, <2>2 DEF Locals
  <2> HIDE DEF l2
  <2>5. C \in SUBSET CandidateRow /\ forced \in SUBSET Rule
    BY <1>2, <1>7
  <2>6. l \in Locals
    BY <2>3, <2>4, <2>5 DEF Locals
  <2>7. l.pc = l2.pc /\ l.candidates = C /\ l.lines = l2.lines /\ l.auto = l2.auto /\ l.cap = l2.cap
    BY <2>3, <2>4 DEF Locals
  <2>8. QED BY <2>2, <2>4, <2>6, <2>7
<1>9. LocalOK(l)
  <2>1. NoEval.lines = {} /\ NoEval.auto = {} /\ NoEval.cap = 0
    BY DEF NoEval
  <2>2. QED BY <1>7, <1>8, <2>1, NothingIsSound DEF LocalOK
<1>10. Continue(h, l)
  BY <1>1 DEF l, C, U, cand
<1>11. UNCHANGED rows
  BY DEF ReadApproved
<1>12. QED BY <1>9, <1>10, <1>11, LocalStep

LEMMA ReadAutoKeepsTypes ==
  ASSUME TypeInv, NEW h \in Request, ReadAuto(h)
  PROVE  TypeInv'
<1> DEFINE A == {<<r, rules[r].terms>> : r \in {q \in Rule : /\ rules[q].status = "active"
                                                           /\ rules[q].terms.auto}}
           l == [eval[h] EXCEPT !.pc = "counts", !.auto = A]
<1>1. LocalOK(eval[h]) /\ eval[h].pc = "auto"
  BY DEF TypeInv, ReadAuto, Here
<1>2. A \subseteq Rule \X Terms /\ \A a, b \in A : a[1] = b[1] => a = b
  BY DEF TypeInv, RowsOK
<1> HIDE DEF A
<1>3. LocalOK(l)
  BY <1>1, <1>2 DEF LocalOK, Locals, Pcs
<1>4. Continue(h, l) /\ UNCHANGED rows
  BY DEF ReadAuto, A
<1> HIDE DEF l
<1>5. QED BY <1>3, <1>4, LocalStep

LEMMA ReadCountsKeepsTypes ==
  ASSUME TypeInv, NEW h \in Request, ReadCounts(h)
  PROVE  TypeInv'
<1> DEFINE E == eval[h]
           cand(a) == Candidate(a[1], a[1], a[2], E.billed,
                                IF a[1] \in E.forced THEN None ELSE a[2].max)
<1>1. LocalOK(E) /\ E.pc = "counts"
  BY DEF TypeInv, ReadCounts, Here
<1>2. PICK firsts :
        /\ \A c \in firsts : \E a \in E.auto : c = cand(a)
        /\ Continue(h, [E EXCEPT !.pc = "forced", !.auto = {}, !.candidates = @ \cup firsts])
  <2>1. PICK matched \in SUBSET E.auto :
          LET open == {a \in matched \cup {b \in E.auto : b[1] \in E.forced} : InContext(a[2], E.context)}
              found == {cand(a) : a \in open}
              due == {c \in found : c.amount > 0}
          IN  \E firsts \in SUBSET due :
                /\ \A c \in due : \E first \in firsts : first.type = c.type
                /\ \A c1, c2 \in firsts : c1.type = c2.type => c1 = c2
                /\ Continue(h, [E EXCEPT !.pc = "forced", !.auto = {}, !.candidates = @ \cup firsts])
    BY Zenon DEF ReadCounts
  <2> HIDE DEF cand, E
  <2> DEFINE due == {c \in {cand(a) : a \in {a \in matched \cup {b \in E.auto : b[1] \in E.forced} :
                                               InContext(a[2], E.context)}} : c.amount > 0}
  <2>2. PICK firsts \in SUBSET due :
          Continue(h, [E EXCEPT !.pc = "forced", !.auto = {}, !.candidates = @ \cup firsts])
    BY <2>1, Zenon
  <2>3. \A c \in due : \E a \in E.auto : c = cand(a)
    OBVIOUS
  <2>4. \A c \in firsts : \E a \in E.auto : c = cand(a)
    BY <2>3
  <2>5. QED BY <2>2, <2>4
<1>3. ASSUME NEW a \in E.auto
      PROVE  /\ cand(a) \in CandidateRow /\ a[1] \in Rule
             /\ cand(a).id = a[1] /\ cand(a).rule = a[1]
  <2>1. a[1] \in Rule /\ a[2] \in Terms /\ E.billed \in SUBSET Item
    BY <1>1 DEF LocalOK, Locals
  <2>2. (IF a[1] \in E.forced THEN None ELSE a[2].max) \in Nat \cup {None}
    BY <2>1, TermsType DEF TermsOf
  <2> DEFINE r == a[1]   t == a[2]   billed == E.billed
             limit == IF a[1] \in E.forced THEN None ELSE a[2].max
  <2>3. r \in Rule /\ r \in Rule \cup Discount /\ t \in Terms /\ billed \in SUBSET Item
        /\ limit \in Nat \cup {None}
    BY <2>1, <2>2
  <2>4. cand(a) = Candidate(r, r, t, billed, limit)
    OBVIOUS
  <2> HIDE DEF cand, r, t, billed, limit
  <2>5. /\ Candidate(r, r, t, billed, limit) \in CandidateRow
        /\ Candidate(r, r, t, billed, limit).id = r
        /\ Candidate(r, r, t, billed, limit).rule = r
    BY <2>3, CandidateType
  <2>6. QED BY <2>3, <2>4, <2>5 DEF r
<1>4. \A a, b \in E.auto : a[1] = b[1] => a = b
  BY <1>1 DEF LocalOK
<1>5. \A c \in E.candidates : c \in CandidateRow /\ c.id \in Discount /\ Sourced(c)
  BY <1>1 DEF LocalOK, Locals
<1>6. Keyed(E.candidates)
  BY <1>1 DEF LocalOK
<1> DEFINE C == E.candidates \cup firsts
<1> HIDE DEF cand
<1>7. \A c \in firsts : /\ c \in CandidateRow /\ c.id \in Rule /\ c.id = c.rule
                        /\ \E a \in E.auto : c = cand(a) /\ c.id = a[1]
  BY <1>2, <1>3
<1>8. C \subseteq CandidateRow /\ \A c \in C : Sourced(c)
  BY <1>5, <1>7 DEF Sourced
<1>9. Keyed(C)
  <2>1. \A c1, c2 \in firsts : c1.id = c2.id => c1 = c2
    BY <1>4, <1>7
  <2>2. Rule \cap Discount = {}
    BY DiscountAssumption
  <2>3. QED BY <1>5, <1>6, <1>7, <2>1, <2>2 DEF Keyed
<1> DEFINE l == [E EXCEPT !.pc = "forced", !.auto = {}, !.candidates = @ \cup firsts]
<1>10. LocalOK(l)
  <2>1. E \in Locals /\ Sound(E.lines, E.cap) /\ \A c \in E.lines : Sourced(c)
    BY <1>1 DEF LocalOK
  <2> HIDE DEF E, C
  <2>2. /\ l \in Locals /\ l.pc = "forced" /\ l.auto = {} /\ l.candidates = C
        /\ l.lines = E.lines /\ l.cap = E.cap
    BY <1>8, <2>1 DEF Locals, Pcs, C
  <2> HIDE DEF l
  <2>3. QED BY <1>8, <1>9, <2>1, <2>2 DEF LocalOK
<1>11. Continue(h, l) /\ UNCHANGED rows
  BY <1>2 DEF ReadCounts
<1> HIDE DEF l
<1>12. QED BY <1>10, <1>11, LocalStep

LEMMA ReadForcedKeepsTypes ==
  ASSUME TypeInv, NEW h \in Request, ReadForced(h)
  PROVE  TypeInv'
<1> DEFINE E == eval[h]
           cand(r) == Candidate(r, r, rules[r].terms, E.billed, None)
<1>1. LocalOK(E) /\ E.pc = "forced" /\ RowsOK
  BY DEF TypeInv, ReadForced, Here
<1>0. PICK r \in E.forced : \E added :
        /\ added = {} \/ (/\ added = {cand(r)} /\ rules[r].status = "active"
                          /\ \A other \in E.candidates : other.rule # r)
        /\ Continue(h, [E EXCEPT !.forced = @ \ {r}, !.candidates = @ \cup added])
  <2>1. PICK r \in E.forced :
          LET c == cand(r)
              takes == /\ \A other \in E.candidates : other.rule # r
                       /\ rules[r].status = "active"
                       /\ InContext(rules[r].terms, E.context) /\ c.amount > 0
          IN  Continue(h, [E EXCEPT !.forced = @ \ {r},
                                    !.candidates = IF takes THEN @ \cup {c} ELSE @])
    BY DEF ReadForced
  <2> DEFINE takes == /\ \A other \in E.candidates : other.rule # r
                      /\ rules[r].status = "active"
                      /\ InContext(rules[r].terms, E.context) /\ cand(r).amount > 0
             added == IF takes THEN {cand(r)} ELSE {}
  <2>2. (IF takes THEN E.candidates \cup {cand(r)} ELSE E.candidates) = E.candidates \cup added
    OBVIOUS
  <2>3. E.candidates \cup added = IF takes THEN E.candidates \cup {cand(r)} ELSE E.candidates
    BY <2>2
  <2>4. Continue(h, [E EXCEPT !.forced = @ \ {r}, !.candidates = @ \cup added])
    BY <2>1, <2>3
  <2>5. added = {} \/ (/\ added = {cand(r)} /\ rules[r].status = "active"
                       /\ \A other \in E.candidates : other.rule # r)
    OBVIOUS
  <2> HIDE DEF added, cand, E, takes
  <2>6. QED BY <2>4, <2>5
<1>2. PICK added :
        /\ added = {} \/ (/\ added = {cand(r)} /\ rules[r].status = "active"
                          /\ \A other \in E.candidates : other.rule # r)
        /\ Continue(h, [E EXCEPT !.forced = @ \ {r}, !.candidates = @ \cup added])
  BY <1>0
<1> DEFINE C == E.candidates \cup added
<1>3. r \in Rule /\ E.billed \in SUBSET Item
  BY <1>1 DEF LocalOK, Locals
<1>4. \A c \in added : c \in CandidateRow /\ c.id = r /\ c.rule = r
  <2>1. CASE rules[r].status = "active"
    <3>1. cand(r) \in CandidateRow /\ cand(r).id = r /\ cand(r).rule = r
      <4> DEFINE t == rules[r].terms   billed == E.billed   limit == None
      <4>1. /\ r \in Rule \cup Discount /\ limit \in Nat \cup {None} /\ t \in Terms
            /\ billed \in SUBSET Item
        BY <1>1, <1>3, <2>1 DEF RowsOK
      <4>2. cand(r) = Candidate(r, r, t, billed, limit)
        OBVIOUS
      <4> HIDE DEF t, billed, limit, cand
      <4>3. /\ Candidate(r, r, t, billed, limit) \in CandidateRow
            /\ Candidate(r, r, t, billed, limit).id = r
            /\ Candidate(r, r, t, billed, limit).rule = r
        BY <1>3, <4>1, CandidateType
      <4>4. QED BY <4>2, <4>3
    <3> HIDE DEF cand
    <3>2. QED BY <1>2, <3>1
  <2>2. CASE rules[r].status # "active"
    BY <1>2, <2>2
  <2>3. QED BY <2>1, <2>2
<1>5. \A c \in E.candidates : c \in CandidateRow /\ Sourced(c)
  BY <1>1 DEF LocalOK, Locals
<1> HIDE DEF cand
<1>6. C \subseteq CandidateRow /\ \A c \in C : Sourced(c)
  BY <1>4, <1>5 DEF Sourced
<1>7. Keyed(C)
  <2>1. CASE added = {}
    BY <1>1, <2>1 DEF LocalOK
  <2>2. CASE added = {cand(r)} /\ \A other \in E.candidates : other.rule # r
    <3>1. \A c \in E.candidates : c.id # r
      <4>1. r \notin Discount
        BY <1>3, DiscountAssumption
      <4>2. QED BY <1>5, <2>2, <4>1 DEF Sourced
    <3>2. Keyed(E.candidates)
      BY <1>1 DEF LocalOK
    <3>3. QED BY <1>4, <2>2, <3>1, <3>2 DEF Keyed
  <2>3. QED BY <1>2, <2>1, <2>2
<1> DEFINE l == [E EXCEPT !.forced = @ \ {r}, !.candidates = @ \cup added]
<1>8. LocalOK(l)
  <2>1. /\ E \in Locals /\ Sound(E.lines, E.cap) /\ \A c \in E.lines : Sourced(c)
        /\ \A a, b \in E.auto : a[1] = b[1] => a = b
    BY <1>1 DEF LocalOK
  <2> HIDE DEF E, C
  <2>2. /\ l \in Locals /\ l.pc = E.pc /\ l.auto = E.auto /\ l.candidates = C
        /\ l.lines = E.lines /\ l.cap = E.cap
    BY <1>6, <2>1 DEF Locals, Pcs, C
  <2> HIDE DEF l
  <2>3. QED BY <1>1, <1>6, <1>7, <2>1, <2>2 DEF LocalOK
<1>9. Continue(h, l) /\ UNCHANGED rows
  BY <1>2 DEF ReadForced
<1> HIDE DEF l
<1>10. QED BY <1>8, <1>9, LocalStep

LEMMA StackKeepsTypes ==
  ASSUME TypeInv, NEW h \in Request, Stack(h)
  PROVE  TypeInv'
<1> DEFINE E == eval[h]
<1>1. LocalOK(E) /\ E.pc = "forced"
  BY DEF TypeInv, Stack, Here
<1>2. PICK W \in Stackings(E.candidates) :
        \/ Continue(h, NoEval)
        \/ Continue(h, [NoEval EXCEPT !.pc = "grant", !.stored = E.stored,
                                      !.lines = Lines(W, Cap(W, E.billed)),
                                      !.cap = Cap(W, E.billed)])
  BY DEF Stack
<1>3. /\ E.candidates \in SUBSET CandidateRow /\ E.billed \in SUBSET Item
      /\ E.stored \in BOOLEAN
  BY <1>1 DEF LocalOK, Locals
<1> DEFINE cap == Cap(W, E.billed)
           L == Lines(W, cap)
<1>4. /\ W \in SUBSET CandidateRow /\ Keyed(W) /\ \A c \in W : Sourced(c)
      /\ \A c1, c2 \in W : c1.stackable \/ c2.stackable \/ c1 = c2
  <2>1. Keyed(E.candidates) /\ \A c \in E.candidates : Sourced(c)
    BY <1>1 DEF LocalOK
  <2> HIDE DEF E
  <2>2. W \subseteq E.candidates /\ \A c1, c2 \in W : c1.stackable \/ c2.stackable \/ c1 = c2
    BY <1>3, StackingsChoose
  <2>3. QED BY <1>3, <2>1, <2>2 DEF Keyed
<1>5. cap \in Nat
  BY <1>3, <1>4, CapType
<1> HIDE DEF cap
<1>6. /\ L \subseteq LineRow /\ Sound(L, cap)
      /\ \A l \in L : \E c \in W : l.id = c.id /\ l.rule = c.rule
  BY <1>4, <1>5, LinesSound
<1>7. \A l \in L : Sourced(l)
  BY <1>4, <1>6 DEF Sourced
<1> HIDE DEF L
<1> DEFINE l == [NoEval EXCEPT !.pc = "grant", !.stored = E.stored, !.lines = L, !.cap = cap]
<1>8. LocalOK(l)
  <2> HIDE DEF E
  <2>1. NoEval \in Locals
    BY NoEvalOK DEF LocalOK
  <2>2. /\ l \in Locals /\ l.pc = "grant" /\ l.candidates = NoEval.candidates
        /\ l.auto = NoEval.auto /\ l.lines = L /\ l.cap = cap
    BY <1>3, <1>5, <1>6, <2>1 DEF Locals, Pcs
  <2> HIDE DEF l
  <2>3. NoEval.candidates = {} /\ NoEval.auto = {}
    BY DEF NoEval
  <2>4. QED BY <1>6, <1>7, <2>2, <2>3 DEF LocalOK, Keyed
<1>9. Continue(h, NoEval) \/ Continue(h, l)
  BY <1>2 DEF L, cap
<1>10. UNCHANGED rows
  BY DEF Stack
<1> HIDE DEF l
<1>11. QED BY <1>8, <1>9, <1>10, NoEvalOK, LocalStep

LEMMA NextKeepsTypes ==
  ASSUME TypeInv, [Next]_vars
  PROVE  TypeInv'
<1>1. ASSUME UNCHANGED vars PROVE TypeInv'
  <2>1. RowsOK' /\ RulesStay
    BY <1>1 DEF TypeInv, RowsOK, RulesStay, vars, rows
  <2>2. QED BY <1>1, <2>1, RowsStep DEF vars, rows
<1>2. ASSUME NEW r \in Rule, CreateRule(r) \/ UpdateRule(r) \/ SetRuleStatus(r) \/ RefuseDelete(r)
      PROVE  TypeInv'
  BY <1>1, <1>2, RuleChangesKeepTypes DEF RefuseDelete
<1>3. ASSUME NEW d \in Discount,
             DecideDiscount(d) \/ \E s \in Student, r \in Rule : RequestDiscount(d, s, r)
      PROVE  TypeInv'
  BY <1>3, DiscountChangesKeepTypes
<1>4. ASSUME NEW h \in Request, ServeDiscounts(h)
      PROVE  TypeInv'
  <2>1. CASE (\E r \in Rule : DeleteRuleRead(h, r)) \/ DeleteRuleCount(h) \/ DeleteRuleRow(h)
    BY <2>1, DeletionsKeepTypes
  <2>2. ASSUME NEW kind \in {"confirm", "service", "run"}, NEW stored \in BOOLEAN,
               NEW s \in Student, ReadApproved(h, kind, stored, s)
        PROVE  TypeInv'
    BY <2>2, ReadApprovedKeepsTypes
  <2>3. CASE ReadAuto(h) \/ ReadCounts(h) \/ ReadForced(h)
    BY <2>3, ReadAutoKeepsTypes, ReadCountsKeepsTypes, ReadForcedKeepsTypes
  <2>4. CASE Stack(h) \/ Grant(h)
    BY <2>4, StackKeepsTypes, GrantKeepsTypes
  <2>5. CASE EvalFail(h)
    BY <2>5, NoEvalOK, LocalStep DEF EvalFail
  <2>6. QED BY <1>4, <2>1, <2>2, <2>3, <2>4, <2>5 DEF ServeDiscounts
<1>5. QED BY <1>1, <1>2, <1>3, <1>4 DEF Next

LEMMA InitTypes == Init => TypeInv
<1> SUFFICES ASSUME Init PROVE TypeInv
  OBVIOUS
<1>1. RowsOK
  BY DEF Init, RowsOK, RuleRow, RuleStatus, NoDiscount
<1>2. LocalOK(NoEval) /\ NoEval \in Locals
  BY NoEvalOK DEF LocalOK
<1>3. eval = [h \in Request |-> NoEval]
  BY DEF Init
<1>4. eval \in [Request -> Locals] /\ \A h \in Request : LocalOK(eval[h])
  BY <1>2, <1>3
<1>5. DOMAIN granted = {}
  BY DEF Init
<1>6. QED BY <1>1, <1>4, <1>5 DEF TypeInv

LEMMA TypeInvHolds == Spec => []TypeInv
<1>1. TypeInv /\ [Next]_vars => TypeInv'
  BY NextKeepsTypes
<1>2. QED BY <1>1, InitTypes, PTL DEF Spec

(* Every row is well formed in every reachable state: a discount of a      *)
(* student names the student and a rule, and whatever is granted comes     *)
(* from a rule or from such a discount.                                    *)
THEOREM TypeCorrect == Spec => []TypeOK
<1>1. TypeInv => TypeOK
  <2> SUFFICES ASSUME TypeInv PROVE TypeOK
    OBVIOUS
  <2>1. None \notin Terms
    BY DiscountAssumption
  <2>2. /\ rules \in [Rule -> [status : {"absent", "active", "inactive", "archived", "deleted"},
                               terms : Terms \cup {None}]]
        /\ \A r \in Rule : rules[r].status # "absent" => rules[r].terms # None
    BY <2>1 DEF TypeInv, RowsOK, RuleRow, RuleStatus
  <2>3. \A d \in Discount :
          \/ discounts[d] = [status |-> "absent", student |-> None, rule |-> None]
          \/ discounts[d] \in [status : {"submitted", "approved", "rejected"},
                               student : Student, rule : Rule]
    BY DEF TypeInv, RowsOK, NoDiscount, DiscountRow
  <2>4. \A i \in DOMAIN granted : \A l \in granted[i].lines :
          l.amount \in Nat /\ (l.id = l.rule \/ (l.id \in Discount /\ discounts[l.id].rule = l.rule))
    <3> SUFFICES ASSUME NEW i \in DOMAIN granted, NEW l \in granted[i].lines
                 PROVE  l.amount \in Nat /\ Sourced(l)
      BY DEF Sourced
    <3>1. granted[i] \in GrantRow /\ Sourced(l)
      BY DEF TypeInv, RowsOK
    <3>2. QED BY <3>1 DEF GrantRow, LineRow
  <2>5. QED BY <2>2, <2>3, <2>4 DEF TypeOK
<1>2. QED BY <1>1, TypeInvHolds, PTL

(* However automatic, approved and forced discounts meet on an invoice, at *)
(* most one of them does not stack, and together they exceed the cap by    *)
(* half a unit each at most, which the rounding line by line may add.      *)
THEOREM StackingSound == Spec => []StackingIsSound
<1>1. TypeInv => StackingIsSound
  BY DEF TypeInv, StackingIsSound, Sound
<1>2. QED BY <1>1, TypeInvHolds, PTL

-----------------------------------------------------------------------------
(* The rows that refer to a rule.                                          *)

(* What a step does not add was there before.                              *)
LEMMA RuleInUseStays ==
  ASSUME NEW r \in Rule, granted' = granted,
         \A d \in Discount : discounts'[d].rule = r => discounts[d].rule = r,
         RuleInUse(r)'
  PROVE  RuleInUse(r)
  BY DEF RuleInUse, Recipients

(* A transaction stores lines of rules that are there only.                *)
LEMMA GrantUsesThere ==
  ASSUME TypeInv, NEW h \in Request, Grant(h), NEW r \in Rule, Recipients(r)' # {}
  PROVE  Recipients(r) # {} \/ There(r)
<1> DEFINE row == [lines |-> eval[h].lines, cap |-> eval[h].cap, stored |-> eval[h].stored]
<1>1. granted \in Seq(GrantRow)
  BY DEF TypeInv, RowsOK
<1>2. CASE granted' = granted
  BY <1>2 DEF Recipients
<1>3. CASE /\ granted' = Append(granted, row)
           /\ ~ (eval[h].stored /\ \E l \in eval[h].lines : ~ There(l.rule))
  <2>1. PICK i \in DOMAIN granted' : granted'[i].stored /\ \E l \in granted'[i].lines : l.rule = r
    BY DEF Recipients
  <2>2. CASE i \in DOMAIN granted /\ granted'[i] = granted[i]
    BY <2>1, <2>2 DEF Recipients
  <2>3. CASE granted'[i] = row
    BY <1>3, <2>1, <2>3
  <2>4. (i \in DOMAIN granted /\ granted'[i] = granted[i]) \/ granted'[i] = row
    <3> HIDE DEF row
    <3>1. QED BY <1>1, <1>3
  <2>5. QED BY <2>2, <2>3, <2>4
<1>4. QED BY <1>2, <1>3 DEF Grant

LEMMA NextKeepsUsedRules ==
  ASSUME TypeInv, UsedRuleIsKept, [Next]_vars
  PROVE  UsedRuleIsKept'
<1>1. rules \in [Rule -> RuleRow]
  BY DEF TypeInv, RowsOK
<1>2. ASSUME granted' = granted, discounts' = discounts,
             \A r \in Rule : rules'[r].status = "deleted" => rules[r].status = "deleted"
      PROVE  UsedRuleIsKept'
  BY <1>2, RuleInUseStays DEF UsedRuleIsKept
<1>3. ASSUME NEW r \in Rule, CreateRule(r) \/ UpdateRule(r) \/ SetRuleStatus(r)
      PROVE  UsedRuleIsKept'
  <2>1. CASE CreateRule(r)
    BY <1>1, <1>2, <2>1 DEF CreateRule
  <2>2. CASE UpdateRule(r)
    BY <1>1, <1>2, <2>2 DEF UpdateRule, RuleRow
  <2>3. CASE SetRuleStatus(r)
    BY <1>1, <1>2, <2>3 DEF SetRuleStatus, RuleRow
  <2>4. QED BY <1>3, <2>1, <2>2, <2>3
<1>4. ASSUME NEW d \in Discount, NEW s \in Student, NEW q \in Rule, RequestDiscount(d, s, q)
      PROVE  UsedRuleIsKept'
  <2>1. rules' = rules /\ granted' = granted /\ rules[q].status # "deleted"
    BY <1>4 DEF RequestDiscount, There
  <2>2. \A e \in Discount : discounts'[e].rule = discounts[e].rule \/ discounts'[e].rule = q
    BY <1>4 DEF RequestDiscount, TypeInv, RowsOK
  <2>3. ASSUME NEW r \in Rule, rules[r].status = "deleted", RuleInUse(r)'
        PROVE  FALSE
    <3>1. r # q
      BY <2>1, <2>3
    <3>2. RuleInUse(r)
      BY <2>1, <2>2, <2>3, <3>1, RuleInUseStays
    <3>3. QED BY <2>3, <3>2 DEF UsedRuleIsKept
  <2>4. QED BY <2>1, <2>3 DEF UsedRuleIsKept
<1>5. ASSUME NEW d \in Discount, DecideDiscount(d)
      PROVE  UsedRuleIsKept'
  <2>1. rules' = rules /\ granted' = granted
    BY <1>5 DEF DecideDiscount
  <2>2. \A e \in Discount : discounts'[e].rule = discounts[e].rule
    <3>1. discounts[d] \in DiscountRow
      BY <1>5 DEF DecideDiscount, TypeInv, RowsOK, NoDiscount
    <3>2. QED BY <1>5, <3>1 DEF DecideDiscount, TypeInv, RowsOK, DiscountRow
  <2>3. QED BY <2>1, <2>2, RuleInUseStays DEF UsedRuleIsKept
<1>6. ASSUME NEW h \in Request, DeleteRuleRow(h)
      PROVE  UsedRuleIsKept'
  <2>1. granted' = granted /\ discounts' = discounts
    BY <1>6 DEF DeleteRuleRow
  <2>2. \A r \in Rule : rules'[r].status = "deleted" => rules[r].status = "deleted" \/ ~ RuleInUse(r)
    <3>1. CASE rules' = rules
      BY <3>1
    <3>2. CASE /\ ~ RuleInUse(eval[h].rule)
               /\ rules' = [rules EXCEPT ![eval[h].rule].status = "deleted"]
      BY <1>1, <3>2
    <3>3. QED BY <1>6, <3>1, <3>2 DEF DeleteRuleRow
  <2>3. QED BY <2>1, <2>2, RuleInUseStays DEF UsedRuleIsKept
<1>7. ASSUME NEW h \in Request, Grant(h)
      PROVE  UsedRuleIsKept'
  <2>1. rules' = rules /\ discounts' = discounts
    BY <1>7 DEF Grant
  <2>2. ASSUME NEW r \in Rule, rules[r].status = "deleted", RuleInUse(r)'
        PROVE  FALSE
    <3>1. ~ There(r) /\ ~ RuleInUse(r)
      BY <2>2 DEF There, UsedRuleIsKept
    <3>2. Recipients(r)' = {}
      BY <1>7, <3>1, GrantUsesThere DEF RuleInUse
    <3>3. QED BY <2>1, <2>2, <3>1, <3>2 DEF RuleInUse
  <2>3. QED BY <2>1, <2>2 DEF UsedRuleIsKept
<1>8. ASSUME NEW h \in Request, ServeDiscounts(h), ~ DeleteRuleRow(h), ~ Grant(h)
      PROVE  UNCHANGED rows
  BY <1>8 DEF ServeDiscounts, DeleteRuleRead, DeleteRuleCount, ReadApproved, ReadAuto,
              ReadCounts, ReadForced, Stack, EvalFail
<1>9. ASSUME UNCHANGED rows
      PROVE  UsedRuleIsKept'
  BY <1>2, <1>9 DEF rows
<1>10. QED
  BY <1>3, <1>4, <1>5, <1>6, <1>7, <1>8, <1>9 DEF Next, vars, RefuseDelete

(* A rule is deleted only when no discount and no stored line refers to    *)
(* it, and none refers to it afterwards, whatever was requested or granted *)
(* between the count of deleteDiscountRule and its delete.                 *)
THEOREM UsedRulesKept == Spec => []UsedRuleIsKept
<1>1. Init => UsedRuleIsKept
  BY DEF Init, UsedRuleIsKept
<1>2. TypeInv /\ UsedRuleIsKept /\ [Next]_vars => UsedRuleIsKept'
  BY NextKeepsUsedRules
<1>3. QED BY <1>1, <1>2, TypeInvHolds, PTL DEF Spec

-----------------------------------------------------------------------------
(* The limit of a rule's recipients.                                       *)

Entry(x, r, limit) == x.rule = r /\ x.limit = limit

Holders(r, limit) == {i \in Recipients(r) : \E l \in granted[i].lines : l.rule = r /\ l.limit = limit}

(* Handlers that may still grant r under that limit.                       *)
Waits(local, r, limit) == \E x \in local.candidates \cup local.lines : Entry(x, r, limit)

Waiting(r, limit) == {h \in Request : Waits(eval[h], r, limit)}

(* A place is held by an invoice, or waited for by a handler, that was     *)
(* given it when fewer invoices than the limit held one.                   *)
QuotaInv ==
  \A r \in Rule, limit \in Limits :
    Cardinality(Holders(r, limit)) + Cardinality(Waiting(r, limit))
      <= limit + Cardinality(Request) - 1

LEMMA LimitType == \A limit \in Limits : limit \in Nat \ {0} /\ limit # None
<1> SUFFICES ASSUME NEW limit \in Limits PROVE limit \in Nat \ {0} /\ limit # None
  OBVIOUS
<1>1. PICK terms \in Terms : limit = terms.max /\ limit # None
  BY DEF Limits
<1>2. terms.max \in Nat \cup {None} /\ terms.max # 0
  BY TermsType, DiscountAssumption DEF TermsOf
<1>3. QED BY <1>1, <1>2

LEMMA RequestsCount == IsFiniteSet(Request) /\ Cardinality(Request) \in Nat \ {0}
<1>1. IsFiniteSet(Request) /\ Request # {}
  BY DiscountAssumption
<1>2. QED BY <1>1, FS_CardinalityType, FS_EmptySet

LEMMA RecipientsFinite ==
  ASSUME TypeInv, NEW r \in Rule
  PROVE  IsFiniteSet(Recipients(r)) /\ Cardinality(Recipients(r)) \in Nat
<1>1. granted \in Seq(GrantRow)
  BY DEF TypeInv, RowsOK
<1>2. DOMAIN granted = 1..Len(granted) /\ Len(granted) \in Nat
  BY <1>1
<1>3. IsFiniteSet(1..Len(granted))
  BY <1>2, FS_Interval
<1>4. Recipients(r) \subseteq 1..Len(granted)
  BY <1>2 DEF Recipients
<1>5. QED BY <1>3, <1>4, FS_Subset, FS_CardinalityType

LEMMA HoldersFinite ==
  ASSUME TypeInv, NEW r \in Rule, NEW limit
  PROVE  /\ IsFiniteSet(Holders(r, limit)) /\ Cardinality(Holders(r, limit)) \in Nat
         /\ Cardinality(Holders(r, limit)) <= Cardinality(Recipients(r))
<1>1. Holders(r, limit) \subseteq Recipients(r)
  BY DEF Holders
<1>2. QED BY <1>1, RecipientsFinite, FS_Subset, FS_CardinalityType

LEMMA WaitingFinite ==
  ASSUME NEW r, NEW limit
  PROVE  /\ IsFiniteSet(Waiting(r, limit)) /\ Cardinality(Waiting(r, limit)) \in Nat
         /\ Cardinality(Waiting(r, limit)) <= Cardinality(Request)
<1>1. Waiting(r, limit) \subseteq Request
  BY DEF Waiting
<1>2. QED BY <1>1, RequestsCount, FS_Subset, FS_CardinalityType

(* A step that stores nothing, and after which a handler waits only for    *)
(* what it waited for, or for a place that was free.                       *)
LEMMA QuotaStep ==
  ASSUME TypeInv, TypeInv', QuotaInv, granted' = granted,
         NEW h \in Request, \A g \in Request \ {h} : eval'[g] = eval[g],
         \A r \in Rule, limit \in Limits :
           Waits(eval'[h], r, limit) =>
             Waits(eval[h], r, limit) \/ Cardinality(Recipients(r)) < limit
  PROVE  QuotaInv'
<1> SUFFICES ASSUME NEW r \in Rule, NEW limit \in Limits
             PROVE  Cardinality(Holders(r, limit)') + Cardinality(Waiting(r, limit)')
                      <= limit + Cardinality(Request) - 1
  BY DEF QuotaInv
<1>1. /\ limit \in Nat /\ Cardinality(Request) \in Nat /\ Cardinality(Recipients(r)) \in Nat
      /\ Cardinality(Holders(r, limit)) \in Nat
      /\ Cardinality(Holders(r, limit)) <= Cardinality(Recipients(r))
      /\ Cardinality(Waiting(r, limit)) \in Nat
  BY LimitType, RequestsCount, RecipientsFinite, HoldersFinite, WaitingFinite
<1>2. Holders(r, limit)' = Holders(r, limit)
  BY DEF Holders, Recipients
<1>3. Waiting(r, limit)' \subseteq Request
  BY DEF Waiting
<1>4. Cardinality(Waiting(r, limit)') \in Nat /\ Cardinality(Waiting(r, limit)') <= Cardinality(Request)
  BY <1>3, RequestsCount, FS_Subset, FS_CardinalityType
<1>5. CASE Waits(eval'[h], r, limit) /\ ~ Waits(eval[h], r, limit)
  <2>1. Cardinality(Recipients(r)) < limit
    BY <1>5
  <2>2. QED BY <1>1, <1>2, <1>4, <2>1
<1>6. CASE ~ (Waits(eval'[h], r, limit) /\ ~ Waits(eval[h], r, limit))
  <2>1. Waiting(r, limit)' \subseteq Waiting(r, limit)
    BY <1>6 DEF Waiting
  <2>2. Cardinality(Waiting(r, limit)') <= Cardinality(Waiting(r, limit))
    BY <2>1, WaitingFinite, FS_Subset
  <2>3. QED BY <1>1, <1>2, <1>4, <2>2 DEF QuotaInv
<1>7. QED BY <1>5, <1>6

(* A handler that continues with no more than it had.                      *)
LEMMA QuotaLess ==
  ASSUME TypeInv, TypeInv', QuotaInv, granted' = granted, NEW h \in Request, NEW l,
         Continue(h, l),
         \A x \in l.candidates \cup l.lines :
           x.limit # None =>
             \E y \in eval[h].candidates \cup eval[h].lines : y.rule = x.rule /\ y.limit = x.limit
  PROVE  QuotaInv'
<1>1. eval'[h] = l /\ \A g \in Request \ {h} : eval'[g] = eval[g]
  BY DEF TypeInv, Continue
<1>2. \A r \in Rule, limit \in Limits : Waits(l, r, limit) => Waits(eval[h], r, limit)
  BY LimitType DEF Waits, Entry
<1>3. QED BY <1>1, <1>2, QuotaStep

LEMMA NothingWaits == NoEval.candidates = {} /\ NoEval.lines = {}
  BY DEF NoEval

LEMMA ApprovedKeepsQuota ==
  ASSUME TypeInv, TypeInv', QuotaInv, NEW h \in Request, NEW kind \in {"confirm", "service", "run"},
         NEW stored \in BOOLEAN, NEW s \in Student, ReadApproved(h, kind, stored, s)
  PROVE  QuotaInv'
<1>1. PICK l : /\ Continue(h, l) /\ l.lines = NoEval.lines
               /\ \A c \in l.candidates : c.limit = None
  <2> DEFINE cand(d, billed) ==
               Candidate(d, discounts[d].rule, rules[discounts[d].rule].terms, billed, None)
             found(context, excluded, billed) ==
               {cand(d, billed) : d \in {d \in Discount :
                  /\ discounts[d].status = "approved" /\ discounts[d].student = s
                  /\ rules[discounts[d].rule].status = "active"
                  /\ discounts[d].rule \notin excluded
                  /\ InContext(rules[discounts[d].rule].terms, context)}}
             due(context, excluded, billed) == {c \in found(context, excluded, billed) : c.amount > 0}
  <2>1. PICK context \in Contexts(kind), billed \in Basket,
             excluded, forced \in IF kind = "confirm" THEN SUBSET Rule ELSE {{}} :
          Continue(h, [NoEval EXCEPT
            !.pc = "auto", !.kind = kind, !.stored = stored, !.context = context,
            !.student = s, !.billed = billed, !.forced = forced,
            !.candidates = due(context, excluded, billed)])
    BY DEF ReadApproved
  <2> DEFINE C == due(context, excluded, billed)
  <2>2. \A c \in C : c.limit = None
    BY DEF Candidate
  <2> HIDE DEF due
  <2> DEFINE l == [NoEval EXCEPT
               !.pc = "auto", !.kind = kind, !.stored = stored, !.context = context,
               !.student = s, !.billed = billed, !.forced = forced, !.candidates = C]
  <2>3. l.lines = NoEval.lines /\ l.candidates = C
    BY DEF NoEval
  <2> HIDE DEF l
  <2>4. QED BY <2>1, <2>2, <2>3 DEF l
<1>2. granted' = granted
  BY DEF ReadApproved, rows
<1>3. QED BY <1>1, <1>2, NothingWaits, QuotaLess

LEMMA AutoKeepsQuota ==
  ASSUME TypeInv, TypeInv', QuotaInv, NEW h \in Request, ReadAuto(h)
  PROVE  QuotaInv'
<1>1. PICK A : Continue(h, [eval[h] EXCEPT !.pc = "counts", !.auto = A])
  BY DEF ReadAuto
<1> DEFINE l == [eval[h] EXCEPT !.pc = "counts", !.auto = A]
<1>2. eval[h] \in Locals
  BY DEF TypeInv
<1>3. l.candidates = eval[h].candidates /\ l.lines = eval[h].lines
  BY <1>2 DEF Locals
<1>4. granted' = granted /\ Continue(h, l)
  BY <1>1 DEF ReadAuto, rows
<1> HIDE DEF l
<1>5. QED BY <1>3, <1>4, QuotaLess

(* Only here is a place given: an automatic rule is taken with its limit   *)
(* when fewer invoices than that hold one.                                 *)
LEMMA CountsKeepQuota ==
  ASSUME TypeInv, TypeInv', QuotaInv, NEW h \in Request, ReadCounts(h)
  PROVE  QuotaInv'
<1> DEFINE E == eval[h]
           limitOf(a) == IF a[1] \in E.forced THEN None ELSE a[2].max
           cand(a) == Candidate(a[1], a[1], a[2], E.billed, limitOf(a))
<1>1. E \in Locals
  BY DEF TypeInv
<1>2. PICK firsts :
        /\ \A c \in firsts : \E a \in E.auto :
             c = cand(a) /\ (HasPlace(a[1], a[2]) \/ a[1] \in E.forced)
        /\ Continue(h, [E EXCEPT !.pc = "forced", !.auto = {}, !.candidates = @ \cup firsts])
  <2>1. PICK matched \in SUBSET {a \in E.auto : a[2].type # "scholarship" /\ HasPlace(a[1], a[2])} :
          LET open == {a \in matched \cup {b \in E.auto : b[1] \in E.forced} : InContext(a[2], E.context)}
              found == {cand(a) : a \in open}
              due == {c \in found : c.amount > 0}
          IN  \E firsts \in SUBSET due :
                /\ \A c \in due : \E first \in firsts : first.type = c.type
                /\ \A c1, c2 \in firsts : c1.type = c2.type => c1 = c2
                /\ Continue(h, [E EXCEPT !.pc = "forced", !.auto = {}, !.candidates = @ \cup firsts])
    BY Zenon DEF ReadCounts
  <2> HIDE DEF cand, E, limitOf
  <2> DEFINE due == {c \in {cand(a) : a \in {a \in matched \cup {b \in E.auto : b[1] \in E.forced} :
                                               InContext(a[2], E.context)}} : c.amount > 0}
  <2>2. PICK firsts \in SUBSET due :
          Continue(h, [E EXCEPT !.pc = "forced", !.auto = {}, !.candidates = @ \cup firsts])
    BY <2>1, Zenon
  <2>3. \A c \in due : \E a \in E.auto :
          c = cand(a) /\ (HasPlace(a[1], a[2]) \/ a[1] \in E.forced)
    OBVIOUS
  <2>4. \A c \in firsts : \E a \in E.auto :
          c = cand(a) /\ (HasPlace(a[1], a[2]) \/ a[1] \in E.forced)
    BY <2>3
  <2>5. QED BY <2>2, <2>4
<1> DEFINE l == [E EXCEPT !.pc = "forced", !.auto = {}, !.candidates = @ \cup firsts]
<1>3. l.lines = E.lines /\ l.candidates = E.candidates \cup firsts /\ Continue(h, l)
  BY <1>1, <1>2 DEF Locals
<1>4. eval'[h] = l /\ \A g \in Request \ {h} : eval'[g] = eval[g]
  <2> HIDE DEF l
  <2>1. QED BY <1>3 DEF TypeInv, Continue
<1> HIDE DEF l
<1>5. ASSUME NEW r \in Rule, NEW limit \in Limits, Waits(l, r, limit), ~ Waits(E, r, limit)
      PROVE  Cardinality(Recipients(r)) < limit
  <2>1. PICK x \in firsts : Entry(x, r, limit)
    BY <1>3, <1>5 DEF Waits
  <2>2. PICK a \in E.auto : x = cand(a) /\ (HasPlace(a[1], a[2]) \/ a[1] \in E.forced)
    BY <1>2
  <2>3. x.rule = a[1] /\ x.limit = limitOf(a)
    BY <2>2 DEF Candidate
  <2>4. limit # None
    BY LimitType
  <2>5. a[1] = r /\ a[1] \notin E.forced /\ a[2].max = limit
    BY <2>1, <2>3, <2>4 DEF Entry
  <2>6. QED BY <2>2, <2>4, <2>5 DEF HasPlace
<1>6. granted' = granted
  BY DEF ReadCounts, rows
<1>7. QED BY <1>4, <1>5, <1>6, QuotaStep

LEMMA ForcedKeepsQuota ==
  ASSUME TypeInv, TypeInv', QuotaInv, NEW h \in Request, ReadForced(h)
  PROVE  QuotaInv'
<1> DEFINE E == eval[h]
<1>1. E \in Locals
  BY DEF TypeInv
<1>2. PICK F, C :
        /\ Continue(h, [E EXCEPT !.forced = F, !.candidates = C])
        /\ \A c \in C : c \in E.candidates \/ c.limit = None
  <2>1. PICK r \in E.forced, takes \in BOOLEAN :
          Continue(h, [E EXCEPT !.forced = @ \ {r}, !.candidates =
            IF takes THEN @ \cup {Candidate(r, r, rules[r].terms, E.billed, None)} ELSE @])
    BY DEF ReadForced
  <2> DEFINE c == Candidate(r, r, rules[r].terms, E.billed, None)
             C == IF takes THEN E.candidates \cup {c} ELSE E.candidates
  <2>2. c.limit = None
    BY DEF Candidate
  <2> HIDE DEF c
  <2>3. \A x \in C : x \in E.candidates \/ x.limit = None
    BY <2>2
  <2>4. Continue(h, [E EXCEPT !.forced = E.forced \ {r}, !.candidates = C])
    BY <2>1 DEF c
  <2> HIDE DEF C
  <2>5. QED BY <2>3, <2>4
<1> DEFINE l == [E EXCEPT !.forced = F, !.candidates = C]
<1>3. l.lines = E.lines /\ l.candidates = C /\ Continue(h, l)
  BY <1>1, <1>2 DEF Locals
<1>4. granted' = granted
  BY DEF ReadForced, rows
<1> HIDE DEF l
<1>5. \A x \in l.candidates \cup l.lines :
        x.limit # None => \E y \in E.candidates \cup E.lines : y.rule = x.rule /\ y.limit = x.limit
  BY <1>2, <1>3
<1>6. QED BY <1>3, <1>4, <1>5, QuotaLess

LEMMA StackKeepsQuota ==
  ASSUME TypeInv, TypeInv', QuotaInv, NEW h \in Request, Stack(h)
  PROVE  QuotaInv'
<1> DEFINE E == eval[h]
<1>1. E.candidates \in SUBSET CandidateRow
  BY DEF TypeInv, Locals
<1>2. PICK W \in Stackings(E.candidates) :
        \/ Continue(h, NoEval)
        \/ \E cap : Continue(h, [NoEval EXCEPT !.pc = "grant", !.stored = E.stored,
                                               !.lines = Lines(W, cap), !.cap = cap])
  BY DEF Stack
<1>3. W \subseteq E.candidates
  BY <1>1, StackingsChoose
<1>4. ASSUME NEW cap, NEW x \in Lines(W, cap)
      PROVE  \E c \in W : x.rule = c.rule /\ x.limit = c.limit
  BY DEF Lines
<1>5. ASSUME NEW cap, Continue(h, [NoEval EXCEPT !.pc = "grant", !.stored = E.stored,
                                                 !.lines = Lines(W, cap), !.cap = cap])
      PROVE  QuotaInv'
  <2> DEFINE L == Lines(W, cap)
             l == [NoEval EXCEPT !.pc = "grant", !.stored = E.stored, !.lines = L, !.cap = cap]
  <2> HIDE DEF L
  <2>1. l.lines = L /\ l.candidates = {}
    BY DEF NoEval
  <2>2. Continue(h, l) /\ granted' = granted
    BY <1>5 DEF L, Stack, rows
  <2> HIDE DEF l
  <2>3. \A x \in l.candidates \cup l.lines :
          \E y \in E.candidates \cup E.lines : y.rule = x.rule /\ y.limit = x.limit
    BY <1>3, <1>4, <2>1 DEF L
  <2>4. QED BY <2>2, <2>3, QuotaLess
<1>6. CASE Continue(h, NoEval)
  <2>1. granted' = granted
    BY DEF Stack, rows
  <2>2. QED BY <1>6, <2>1, NothingWaits, QuotaLess
<1>7. QED BY <1>2, <1>5, <1>6

(* An invoice takes the place its handler waited for.                      *)
LEMMA GrantKeepsQuota ==
  ASSUME TypeInv, TypeInv', QuotaInv, NEW h \in Request, Grant(h)
  PROVE  QuotaInv'
<1> DEFINE row == [lines |-> eval[h].lines, cap |-> eval[h].cap, stored |-> eval[h].stored]
<1>1. granted \in Seq(GrantRow)
  BY DEF TypeInv, RowsOK
<1>2. Continue(h, NoEval)
  BY DEF Grant
<1>3. CASE granted' = granted
  BY <1>2, <1>3, NothingWaits, QuotaLess
<1>4. CASE granted' = Append(granted, row)
  <2> SUFFICES ASSUME NEW r \in Rule, NEW limit \in Limits
               PROVE  Cardinality(Holders(r, limit)') + Cardinality(Waiting(r, limit)')
                        <= limit + Cardinality(Request) - 1
    BY DEF QuotaInv
  <2> DEFINE n == Len(granted) + 1
             H == Holders(r, limit)   H1 == Holders(r, limit)'
             W == Waiting(r, limit)   W1 == Waiting(r, limit)'
  <2>1. /\ n \notin DOMAIN granted
        /\ \A i \in DOMAIN granted' :
             (i = n /\ granted'[i] = row) \/ (i \in DOMAIN granted /\ granted'[i] = granted[i])
    <3> HIDE DEF row
    <3>1. QED BY <1>1, <1>4
  <2>2. H1 \subseteq H \cup {n} /\ (n \in H1 => Waits(eval[h], r, limit))
    <3>1. ASSUME NEW i \in H1 PROVE i \in H \/ (i = n /\ Waits(eval[h], r, limit))
      <4>1. /\ i \in DOMAIN granted' /\ granted'[i].stored
            /\ \E l \in granted'[i].lines : l.rule = r /\ l.limit = limit
        BY DEF Holders, Recipients
      <4>2. CASE i = n /\ granted'[i] = row
        BY <4>1, <4>2 DEF Waits, Entry
      <4>3. CASE i \in DOMAIN granted /\ granted'[i] = granted[i]
        BY <4>1, <4>3 DEF Holders, Recipients
      <4>4. QED BY <2>1, <4>1, <4>2, <4>3
    <3>2. n \notin H
      BY <2>1 DEF Holders, Recipients
    <3>3. QED BY <3>1, <3>2
  <2>3. W1 \subseteq W \ {h}
    <3>1. eval'[h] = NoEval /\ \A g \in Request \ {h} : eval'[g] = eval[g]
      BY <1>2 DEF TypeInv, Continue
    <3>2. ~ Waits(NoEval, r, limit)
      BY NothingWaits DEF Waits
    <3>3. QED BY <3>1, <3>2 DEF Waiting
  <2>4. IsFiniteSet(H) /\ IsFiniteSet(W) /\ Cardinality(H) \in Nat /\ Cardinality(W) \in Nat
    BY HoldersFinite, WaitingFinite
  <2>5. Cardinality(H) + Cardinality(W) <= limit + Cardinality(Request) - 1
    BY DEF QuotaInv
  <2>6. limit \in Nat /\ Cardinality(Request) \in Nat
    BY LimitType, RequestsCount
  <2>7. n \in H1 => h \in W
    BY <2>2 DEF Waiting
  <2> HIDE DEF n, H, H1, W, W1
  <2>8. CASE n \in H1
    <3>1. IsFiniteSet(H \cup {n}) /\ Cardinality(H \cup {n}) <= Cardinality(H) + 1
          /\ Cardinality(H \cup {n}) \in Nat
      <4>1. Cardinality(H \cup {n}) = IF n \in H THEN Cardinality(H) ELSE Cardinality(H) + 1
        BY <2>4, FS_AddElement
      <4>2. QED BY <2>4, <4>1, FS_AddElement
    <3>2. IsFiniteSet(W \ {h}) /\ Cardinality(W \ {h}) = Cardinality(W) - 1
      BY <2>4, <2>7, <2>8, FS_RemoveElement
    <3>3. /\ Cardinality(H1) <= Cardinality(H \cup {n}) /\ Cardinality(H1) \in Nat
          /\ Cardinality(W1) <= Cardinality(W \ {h}) /\ Cardinality(W1) \in Nat
      BY <2>2, <2>3, <3>1, <3>2, FS_Subset, FS_CardinalityType
    <3>4. QED BY <2>4, <2>5, <2>6, <3>1, <3>2, <3>3 DEF H1, W1
  <2>9. CASE n \notin H1
    <3>1. H1 \subseteq H /\ W1 \subseteq W
      BY <2>2, <2>3, <2>9
    <3>2. /\ Cardinality(H1) <= Cardinality(H) /\ Cardinality(H1) \in Nat
          /\ Cardinality(W1) <= Cardinality(W) /\ Cardinality(W1) \in Nat
      BY <2>4, <3>1, FS_Subset, FS_CardinalityType
    <3>3. QED BY <2>4, <2>5, <2>6, <3>2 DEF H1, W1
  <2>10. QED BY <2>8, <2>9
<1>5. QED BY <1>3, <1>4 DEF Grant

LEMMA DeletionsKeepQuota ==
  ASSUME TypeInv, TypeInv', QuotaInv, NEW h \in Request,
         (\E r \in Rule : DeleteRuleRead(h, r)) \/ DeleteRuleCount(h) \/ DeleteRuleRow(h)
           \/ EvalFail(h)
  PROVE  QuotaInv'
<1>1. eval[h] \in Locals
  BY DEF TypeInv
<1>2. ASSUME NEW r \in Rule, DeleteRuleRead(h, r)
      PROVE  QuotaInv'
  <2> DEFINE l == [NoEval EXCEPT !.pc = "deleteCount", !.rule = r]
  <2>1. l.candidates = {} /\ l.lines = {}
    BY DEF NoEval
  <2>2. Continue(h, l) /\ granted' = granted
    BY <1>2 DEF DeleteRuleRead, rows
  <2> HIDE DEF l
  <2>3. QED BY <2>1, <2>2, QuotaLess
<1>3. CASE DeleteRuleCount(h)
  <2> DEFINE l == [eval[h] EXCEPT !.pc = "deleteRule"]
  <2>1. l.candidates = eval[h].candidates /\ l.lines = eval[h].lines
    BY <1>1 DEF Locals
  <2>2. (Continue(h, l) \/ Continue(h, NoEval)) /\ granted' = granted
    BY <1>3 DEF DeleteRuleCount, rows
  <2> HIDE DEF l
  <2>3. QED BY <2>1, <2>2, NothingWaits, QuotaLess
<1>4. CASE DeleteRuleRow(h) \/ EvalFail(h)
  <2>1. Continue(h, NoEval) /\ granted' = granted
    BY <1>4 DEF DeleteRuleRow, EvalFail, rows
  <2>2. QED BY <2>1, NothingWaits, QuotaLess
<1>5. QED BY <1>2, <1>3, <1>4

LEMMA NextKeepsQuota ==
  ASSUME TypeInv, QuotaInv, [Next]_vars
  PROVE  QuotaInv'
<1>1. TypeInv'
  BY NextKeepsTypes
<1>2. ASSUME UNCHANGED <<granted, eval>>
      PROVE  QuotaInv'
  BY <1>2 DEF QuotaInv, Holders, Recipients, Waiting
<1>3. ASSUME NEW r \in Rule, CreateRule(r) \/ UpdateRule(r) \/ SetRuleStatus(r) \/ RefuseDelete(r)
      PROVE  QuotaInv'
  BY <1>2, <1>3 DEF CreateRule, UpdateRule, SetRuleStatus, RefuseDelete, vars, rows
<1>4. ASSUME NEW d \in Discount,
             DecideDiscount(d) \/ \E s \in Student, r \in Rule : RequestDiscount(d, s, r)
      PROVE  QuotaInv'
  BY <1>2, <1>4 DEF DecideDiscount, RequestDiscount
<1>5. ASSUME NEW h \in Request, ServeDiscounts(h)
      PROVE  QuotaInv'
  <2>1. CASE (\E r \in Rule : DeleteRuleRead(h, r)) \/ DeleteRuleCount(h) \/ DeleteRuleRow(h)
             \/ EvalFail(h)
    BY <1>1, <2>1, DeletionsKeepQuota
  <2>2. ASSUME NEW kind \in {"confirm", "service", "run"}, NEW stored \in BOOLEAN,
               NEW s \in Student, ReadApproved(h, kind, stored, s)
        PROVE  QuotaInv'
    BY <1>1, <2>2, ApprovedKeepsQuota
  <2>3. CASE ReadAuto(h) \/ ReadCounts(h) \/ ReadForced(h)
    BY <1>1, <2>3, AutoKeepsQuota, CountsKeepQuota, ForcedKeepsQuota
  <2>4. CASE Stack(h) \/ Grant(h)
    BY <1>1, <2>4, StackKeepsQuota, GrantKeepsQuota
  <2>5. QED BY <1>5, <2>1, <2>2, <2>3, <2>4 DEF ServeDiscounts
<1>6. QED BY <1>2, <1>3, <1>4, <1>5 DEF Next, vars, rows

LEMMA InitQuota == Init => QuotaInv
<1> SUFFICES ASSUME Init, NEW r \in Rule, NEW limit \in Limits
             PROVE  Cardinality(Holders(r, limit)) + Cardinality(Waiting(r, limit))
                      <= limit + Cardinality(Request) - 1
  BY DEF QuotaInv
<1>1. Holders(r, limit) = {}
  BY DEF Init, Holders, Recipients
<1>2. Waiting(r, limit) = {}
  <2>1. \A h \in Request : eval[h] = NoEval
    BY DEF Init
  <2>2. QED BY <2>1, NothingWaits DEF Waiting, Waits
<1>3. Cardinality(Holders(r, limit)) = 0 /\ Cardinality(Waiting(r, limit)) = 0
  BY <1>1, <1>2, FS_EmptySet
<1>4. QED BY <1>3, LimitType, RequestsCount

(* A rule is granted under one of its limits at most that many times and   *)
(* once more for each further handler: maxRecipients can be overrun by     *)
(* evaluations that counted before the others stored their lines, but by   *)
(* no more than there are of them at once, whatever happens to the rule.   *)
THEOREM QuotaBounded == Spec => []QuotaIsBounded
<1>1. TypeInv /\ QuotaInv => QuotaIsBounded
  <2> SUFFICES ASSUME TypeInv, QuotaInv, NEW r \in Rule, NEW limit \in Limits
               PROVE  Cardinality(Holders(r, limit)) <= limit + Cardinality(Request) - 1
    BY DEF QuotaIsBounded, Holders
  <2>1. Cardinality(Holders(r, limit)) + Cardinality(Waiting(r, limit))
          <= limit + Cardinality(Request) - 1
    BY DEF QuotaInv
  <2>2. QED BY <2>1, HoldersFinite, WaitingFinite, LimitType, RequestsCount
<1>2. TypeInv /\ QuotaInv /\ [Next]_vars => QuotaInv'
  BY NextKeepsQuota
<1>3. QED BY <1>1, <1>2, InitQuota, TypeInvHolds, PTL DEF Spec
=============================================================================
