----------------------------- MODULE Discounts ------------------------------
(***************************************************************************)
(* Discount rules, the discounts of students, and what is granted on an    *)
(* invoice: discounts.service.ts, discount-evaluation.logic.ts and the     *)
(* stacking of packages/shared/src/discounts.ts, for one tenant and one    *)
(* academic year.                                                          *)
(*                                                                         *)
(* An evaluation reads in several statements, and its result is inserted   *)
(* with the invoice by a transaction that reads none of it again.  Which   *)
(* rules a student matches (siblings, ranks, dates, grades) is left open;  *)
(* money is whole units.                                                   *)
(***************************************************************************)
EXTENDS Integers, FiniteSets, FiniteSetsExt, Functions, Sequences

CONSTANTS
  Rule,           \* discount rules that may be created
  Discount,       \* student discounts that may be requested
  Student,        \* students that are billed
  Item,           \* fee items
  Price,          \* Price[x]: what item x costs
  Basket,         \* sets of items that are billed together
  Terms,          \* the terms a rule may be given
  Request,        \* handlers that may be in flight at once
  None,           \* null
  MaxPercent,     \* DEFAULT_DISCOUNT_POLICY.maxCombinedPercent
  MaxInvoices,    \* BOUND: invoices, when an evaluation starts
  MaxEdits        \* BOUND: changes of rules and decisions on discounts

Limits == {terms.max : terms \in Terms} \ {None}

ASSUME DiscountAssumption ==
  /\ IsFiniteSet(Request) /\ Request # {}
  /\ IsFiniteSet(Rule) /\ IsFiniteSet(Discount) /\ IsFiniteSet(Item)
  /\ Price \in [Item -> Nat \ {0}]
  /\ Basket \subseteq SUBSET Item
  /\ Terms \subseteq [type : {"sibling", "early", "custom", "scholarship"}, auto : BOOLEAN,
                      stackable : BOOLEAN, contexts : SUBSET {"enrollment", "recurring"},
                      items : SUBSET Item, percent : BOOLEAN, value : Nat,
                      max : Nat \cup {None}, threshold : Nat \cup {None}]
  /\ \A terms \in Terms : /\ terms.max # 0
                          /\ terms.max # None => terms.type \in {"early", "custom"}
  /\ None \notin Nat \cup Rule \cup Discount \cup Terms
  /\ Rule \cap Discount = {}
  /\ MaxPercent \in 0..100 /\ MaxInvoices \in Nat /\ MaxEdits \in Nat

VARIABLES
  rules,      \* rules[r]: status and terms
  discounts,  \* discounts[d]: a student's discount: status, student, rule
  granted,    \* granted[i]: the discounts in the total of invoice i, the cap they
              \* were under, and whether their lines were stored
  eval,       \* eval[h]: where handler h is and what it has read
  edits       \* BOUND: changes of rules and decisions on discounts so far

rows == <<rules, discounts, granted, edits>>
vars == <<rows, eval>>

NoEval == [pc |-> "idle", kind |-> None, stored |-> FALSE, context |-> None, student |-> None,
           billed |-> {}, forced |-> {}, auto |-> {}, candidates |-> {}, lines |-> {}, cap |-> 0,
           rule |-> None]

Init ==
  /\ rules = [r \in Rule |-> [status |-> "absent", terms |-> None]]
  /\ discounts = [d \in Discount |-> [status |-> "absent", student |-> None, rule |-> None]]
  /\ granted = <<>>
  /\ eval = [h \in Request |-> NoEval]
  /\ edits = 0

Here(h, pc) == eval[h].pc = pc
Continue(h, locals) == eval' = [eval EXCEPT ![h] = locals]
There(r) == rules[r].status \in {"active", "inactive", "archived"}

-----------------------------------------------------------------------------
(* Amounts.                                                                *)

SumOf(f, S) == SumFunctionOnSet([x \in S |-> f[x]], S)

(* Math.round of n / d.                                                    *)
Rounded(n, d) == (2 * n + d) \div (2 * d)

Amount(terms, billed) ==
  LET base == SumOf(Price, billed \cap terms.items)
  IN  IF base = 0 THEN 0
      ELSE IF terms.percent THEN Rounded(base * terms.value, 100)
      ELSE IF terms.value <= base THEN terms.value ELSE base

Total(lines) == SumFunctionOnSet([l \in lines |-> l.amount], lines)

(* A candidate, with the limit it was tested against.                      *)
Candidate(id, r, terms, billed, limit) ==
  [id |-> id, rule |-> r, type |-> terms.type, stackable |-> terms.stackable,
   items |-> terms.items, threshold |-> terms.threshold, limit |-> limit,
   amount |-> Amount(terms, billed)]

(* applyDiscountStacking: everything stackable, and the best of the rest.  *)
(* Between equals the order of the rules decides, which is left open.      *)
Stackings(candidates) ==
  LET exclusive == {c \in candidates : ~ c.stackable}
      best == {c \in exclusive : \A other \in exclusive : other.amount <= c.amount}
  IN  IF exclusive = {} THEN {candidates} ELSE {(candidates \ exclusive) \cup {c} : c \in best}

Cap(winners, billed) ==
  Rounded(SumOf(Price, billed \cap UNION {c.items : c \in winners}) * MaxPercent, 100)

(* Mutant of Scaled: what exceeds the cap is not scaled down.              *)
Unscaled(amount, raw, cap) == amount

Scaled(amount, raw, cap) == IF raw <= cap THEN amount ELSE Rounded(amount * cap, raw)

(* The lines of an invoice, and which of them ask for an approval.         *)
Lines(winners, cap) ==
  LET Granted(c) == Scaled(c.amount, Total(winners), cap)
  IN  {[id |-> c.id, rule |-> c.rule, stackable |-> c.stackable, limit |-> c.limit,
        amount |-> Granted(c),
        asks |-> c.threshold # None /\ Granted(c) > c.threshold] : c \in winners}

(* Invoices that count as grants of r.                                     *)
Recipients(r) ==
  {i \in DOMAIN granted : granted[i].stored /\ \E l \in granted[i].lines : l.rule = r}

-----------------------------------------------------------------------------
(* Rules.                                                                  *)

CreateRule(r) ==
  /\ edits < MaxEdits /\ edits' = edits + 1
  /\ rules[r].status = "absent"
  /\ \E terms \in Terms : rules' = [rules EXCEPT ![r] = [status |-> "active", terms |-> terms]]
  /\ UNCHANGED <<discounts, granted, eval>>

UpdateRule(r) ==
  /\ edits < MaxEdits /\ edits' = edits + 1
  /\ There(r)
  /\ \E terms \in Terms : rules' = [rules EXCEPT ![r].terms = terms]
  /\ UNCHANGED <<discounts, granted, eval>>

(* enable, disable, archive, restore, reactivate: from any status.         *)
SetRuleStatus(r) ==
  /\ edits < MaxEdits /\ edits' = edits + 1
  /\ There(r)
  /\ \E status \in {"active", "inactive", "archived"} :
       rules' = [rules EXCEPT ![r].status = status]
  /\ UNCHANGED <<discounts, granted, eval>>

RuleInUse(r) ==
  (\E d \in Discount : discounts[d].rule = r) \/ Recipients(r) # {}

DeleteRuleRead(h, r) ==
  /\ Here(h, "idle")
  /\ rules[r].status = "archived"
  /\ Continue(h, [NoEval EXCEPT !.pc = "deleteCount", !.rule = r])
  /\ UNCHANGED rows

(* A rule that is not there, or not archived, is not deleted.              *)
RefuseDelete(r) == rules[r].status # "archived" /\ UNCHANGED vars

(* Neither count goes down, so that one step stands for the two.           *)
DeleteRuleCount(h) ==
  /\ Here(h, "deleteCount")
  /\ Continue(h, IF RuleInUse(eval[h].rule) THEN NoEval ELSE [eval[h] EXCEPT !.pc = "deleteRule"])
  /\ UNCHANGED rows

(* Mutant of DeleteRuleRow: the rows that refer to the rule do not count.  *)
DeleteRuleAnyway(h) ==
  /\ Here(h, "deleteRule")
  /\ rules' = [rules EXCEPT ![eval[h].rule].status = "deleted"]
  /\ Continue(h, NoEval)
  /\ UNCHANGED <<discounts, granted, edits>>

(* The foreign keys refuse it when the rule has been used since.           *)
DeleteRuleRow(h) ==
  /\ Here(h, "deleteRule")
  /\ rules' = IF RuleInUse(eval[h].rule) THEN rules
              ELSE [rules EXCEPT ![eval[h].rule].status = "deleted"]
  /\ Continue(h, NoEval)
  /\ UNCHANGED <<discounts, granted, edits>>

-----------------------------------------------------------------------------
(* Discounts of students.                                                  *)

(* requestDiscount: for a rule of any status.                              *)
RequestDiscount(d, s, r) ==
  /\ discounts[d].status = "absent" /\ There(r)
  /\ discounts' = [discounts EXCEPT ![d] = [status |-> "submitted", student |-> s, rule |-> r]]
  /\ UNCHANGED <<rules, granted, edits, eval>>

(* Mutant of DecideDiscount: a discount that nobody requested.             *)
DecideAnyDiscount(d) ==
  /\ edits < MaxEdits /\ edits' = edits + 1
  /\ \E status \in {"approved", "rejected"} :
       discounts' = [discounts EXCEPT ![d].status = status]
  /\ UNCHANGED <<rules, granted, eval>>

(* approveDiscount, rejectDiscount: from any status.                       *)
DecideDiscount(d) ==
  /\ edits < MaxEdits /\ edits' = edits + 1
  /\ discounts[d].status # "absent"
  /\ \E status \in {"approved", "rejected"} :
       discounts' = [discounts EXCEPT ![d].status = status]
  /\ UNCHANGED <<rules, granted, eval>>

-----------------------------------------------------------------------------
(* evaluateDiscountsFromDb.                                                *)

InContext(terms, context) == context \in terms.contexts

(* confirm bills an enrollment; an added service, or a run, a month too.   *)
Contexts(kind) ==
  CASE kind = "confirm" -> {"enrollment"}
    [] kind = "service" -> {"enrollment", "recurring"}
    [] kind = "run" -> {"recurring"}

(* The approved discounts of the student.  Only confirm names rules to     *)
(* exclude and rules to force; a run that nobody triggered stores no lines.*)
ReadApproved(h, kind, stored, s) ==
  /\ Here(h, "idle") /\ Len(granted) < MaxInvoices
  /\ ~ stored => kind = "run"
  /\ \E context \in Contexts(kind), billed \in Basket,
        excluded, forced \in IF kind = "confirm" THEN SUBSET Rule ELSE {{}} :
       LET usable == {d \in Discount :
             /\ discounts[d].status = "approved" /\ discounts[d].student = s
             /\ rules[discounts[d].rule].status = "active"
             /\ discounts[d].rule \notin excluded
             /\ InContext(rules[discounts[d].rule].terms, context)}
           found == {Candidate(d, discounts[d].rule, rules[discounts[d].rule].terms, billed, None) :
                       d \in usable}
       IN  /\ excluded \cap forced = {}
           /\ Continue(h, [NoEval EXCEPT
                !.pc = "auto", !.kind = kind, !.stored = stored, !.context = context,
                !.student = s, !.billed = billed, !.forced = forced,
                !.candidates = {c \in found : c.amount > 0}])
  /\ UNCHANGED rows

ReadAuto(h) ==
  /\ Here(h, "auto")
  /\ Continue(h, [eval[h] EXCEPT !.pc = "counts",
       !.auto = {<<r, rules[r].terms>> : r \in {q \in Rule : /\ rules[q].status = "active"
                                                           /\ rules[q].terms.auto}}])
  /\ UNCHANGED rows

(* Mutant of HasPlace: one recipient too many.                             *)
HasPlaceToo(r, terms) == terms.max = None \/ Cardinality(Recipients(r)) <= terms.max

HasPlace(r, terms) == terms.max = None \/ Cardinality(Recipients(r)) < terms.max

(* The rules that apply by themselves, unless excluded or not matched, and *)
(* the forced ones: for every type the first that amounts to something.    *)
ReadCounts(h) ==
  /\ Here(h, "counts")
  /\ \E matched \in SUBSET {a \in eval[h].auto :
                             /\ a[2].type # "scholarship" /\ HasPlace(a[1], a[2])} :
       LET open == {a \in matched \cup {b \in eval[h].auto : b[1] \in eval[h].forced} :
                      InContext(a[2], eval[h].context)}
           found == {Candidate(a[1], a[1], a[2], eval[h].billed,
                               IF a[1] \in eval[h].forced THEN None ELSE a[2].max) : a \in open}
           due == {c \in found : c.amount > 0}
       IN  \E firsts \in SUBSET due :
             /\ \A c \in due : \E first \in firsts : first.type = c.type
             /\ \A c1, c2 \in firsts : c1.type = c2.type => c1 = c2
             /\ Continue(h, [eval[h] EXCEPT !.pc = "forced", !.auto = {}, !.candidates = @ \cup firsts])
  /\ UNCHANGED rows

(* The other forced rules, one read each: no condition but status, scope   *)
(* and amount.                                                             *)
ReadForced(h) ==
  /\ Here(h, "forced")
  /\ \E r \in eval[h].forced :
       LET c == Candidate(r, r, rules[r].terms, eval[h].billed, None)
           takes == /\ \A other \in eval[h].candidates : other.rule # r
                    /\ rules[r].status = "active"
                    /\ InContext(rules[r].terms, eval[h].context) /\ c.amount > 0
       IN  Continue(h, [eval[h] EXCEPT !.forced = @ \ {r},
                                       !.candidates = IF takes THEN @ \cup {c} ELSE @])
  /\ UNCHANGED rows

Pending(s) == \E d \in Discount : discounts[d].status = "submitted" /\ discounts[d].student = s

NeedsApproval(lines) == \E l \in lines : l.asks

(* confirm is refused while a discount of the student is pending, and asks *)
(* for a permission above a threshold, which an added service never has;   *)
(* the monthly run asks nothing.                                           *)
Stack(h) ==
  /\ Here(h, "forced") /\ eval[h].forced = {}
  /\ \E winners \in Stackings(eval[h].candidates), mayApprove \in BOOLEAN :
       LET cap == Cap(winners, eval[h].billed)
           lines == Lines(winners, cap)
           refused == CASE eval[h].kind = "confirm" ->
                             Pending(eval[h].student) \/ (NeedsApproval(lines) /\ ~ mayApprove)
                        [] eval[h].kind = "service" -> NeedsApproval(lines)
                        [] OTHER -> FALSE
       IN  Continue(h, IF refused THEN NoEval
                       ELSE [NoEval EXCEPT !.pc = "grant", !.stored = eval[h].stored,
                                           !.lines = lines, !.cap = cap])
  /\ UNCHANGED rows

(* The transaction that inserts the invoice; stored lines refer to rules.  *)
Grant(h) ==
  /\ Here(h, "grant")
  /\ granted' = IF eval[h].stored /\ \E l \in eval[h].lines : ~ There(l.rule) THEN granted
                ELSE Append(granted, [lines |-> eval[h].lines, cap |-> eval[h].cap,
                                      stored |-> eval[h].stored])
  /\ Continue(h, NoEval)
  /\ UNCHANGED <<rules, discounts, edits>>

EvalFail(h) ==
  /\ ~ Here(h, "idle") /\ Continue(h, NoEval)
  /\ UNCHANGED rows

ServeDiscounts(h) ==
  \/ \E r \in Rule : DeleteRuleRead(h, r)
  \/ DeleteRuleCount(h) \/ DeleteRuleRow(h)
  \/ \E kind \in {"confirm", "service", "run"}, stored \in BOOLEAN, s \in Student :
       ReadApproved(h, kind, stored, s)
  \/ ReadAuto(h) \/ ReadCounts(h) \/ ReadForced(h) \/ Stack(h) \/ Grant(h)
  \/ EvalFail(h)

Next ==
  \/ \E r \in Rule : CreateRule(r) \/ UpdateRule(r) \/ SetRuleStatus(r) \/ RefuseDelete(r)
  \/ \E d \in Discount, s \in Student, r \in Rule : RequestDiscount(d, s, r)
  \/ \E d \in Discount : DecideDiscount(d)
  \/ \E h \in Request : ServeDiscounts(h)

Spec == Init /\ [][Next]_vars

-----------------------------------------------------------------------------
(* Properties.                                                             *)

(* Every row is well formed, a discount of a student names the student and *)
(* a rule, and what is granted comes from a rule or from such a discount.  *)
TypeOK ==
  /\ rules \in [Rule -> [status : {"absent", "active", "inactive", "archived", "deleted"},
                         terms : Terms \cup {None}]]
  /\ \A r \in Rule : rules[r].status # "absent" => rules[r].terms # None
  /\ \A d \in Discount :
       \/ discounts[d] = [status |-> "absent", student |-> None, rule |-> None]
       \/ discounts[d] \in [status : {"submitted", "approved", "rejected"},
                            student : Student, rule : Rule]
  /\ \A i \in DOMAIN granted : \A l \in granted[i].lines :
       /\ l.amount \in Nat
       /\ l.id = l.rule \/ (l.id \in Discount /\ discounts[l.id].rule = l.rule)

(* maxRecipients is tested against a count read in one statement and used  *)
(* up in another, at the end of a transaction.  Each further handler can   *)
(* exceed it by one invoice, however often the rule's terms are changed    *)
(* meanwhile, and other handlers come and go.                              *)
QuotaIsBounded ==
  \A r \in Rule, limit \in Limits :
    Cardinality({i \in Recipients(r) : \E l \in granted[i].lines : l.rule = r /\ l.limit = limit})
      <= limit + Cardinality(Request) - 1

(* "Caps combined discount at tenant max percent": the discounts of an     *)
(* invoice are scaled to the cap and then rounded one by one, so that they *)
(* may exceed it, by half a unit each at most.  Besides, however approved, *)
(* automatic and forced discounts meet, at most one does not stack.        *)
StackingIsSound ==
  \A i \in DOMAIN granted :
    /\ 2 * Total(granted[i].lines) <= 2 * granted[i].cap + Cardinality(granted[i].lines)
    /\ \A l1, l2 \in granted[i].lines : l1.stackable \/ l2.stackable \/ l1 = l2

(* deleteDiscountRule counts what refers to a rule before it deletes it:   *)
(* whatever is requested or granted in between, no row is left without its *)
(* rule.                                                                   *)
UsedRuleIsKept == \A r \in Rule : rules[r].status = "deleted" => ~ RuleInUse(r)
=============================================================================
