--------------------------- MODULE Payroll_proofs ---------------------------
(* Proofs about Payroll for any staff, catalog, amounts, number of lines   *)
(* and number of handlers and jobs in flight, all of which may fail after  *)
(* any of their statements.                                                *)
EXTENDS Payroll, FiniteSums

CatalogRow == [status : {"absent", "active", "archived", "deleted"}, amount : Amount]
CompRow == [base : Base, items : SUBSET Source]
RunRow == [exists : BOOLEAN, net : Int, paid : Int]
RecordRow == [status : {"absent", "draft", "pending", "paid"}, base : Nat, net : Int]
SlipRow == [rendered : BOOLEAN, base : Nat, net : Int, rows : Seq(RowType),
            settled : BOOLEAN]

(* Where a handler names a member of staff, and where it has a batch.      *)
OnStaff == Adjusting \cup {"compensate", "genRows", "genInsert", "enqueue",
                           "renderLines", "renderPut"}
Batch == Adjusting \cup {"genRecord", "genRows", "genInsert"}
Paying == {"totalsRead", "totalsWrite"}
Generating == {"genRecord", "genRows", "genInsert", "syncRows", "linesDelete",
               "recordUpdate", "linesInsert", "totalsRead"}
Rendering == {"renderLines", "renderPut"}

LocalOK(q) ==
  /\ q \in LocalType
  /\ q.pc \in OnStaff => q.staff \in Staff
  /\ q.pc \in Paying /\ q.pays => q.staff \in Staff
  /\ q.pc \in Batch => q.todo \subseteq Staff
  /\ q.pc = "compensate" => q.todo \subseteq Source
  /\ q.pc = "totalsRead" => q.todo = {}
  /\ q.pc = "deleteSource" => \E x \in Source : q.rows = <<Row(x, 0)>>
  /\ q.all => q.pc \in Generating \cup {"totalsWrite"}

TypeInv ==
  /\ catalog \in [Source -> CatalogRow]
  /\ comp \in [Staff -> CompRow]
  /\ run \in RunRow
  /\ records \in [Staff -> RecordRow]
  /\ lines \in [Staff -> Seq(RowType)]
  /\ jobs \subseteq Staff
  /\ payslip \in [Staff -> SlipRow]
  /\ req \in [Request -> LocalType] /\ \A h \in Request : LocalOK(req[h])
  /\ edits \in Nat

LEMMA TypeInvImpliesTypeOK == TypeInv => TypeOK
  BY DEF TypeInv, TypeOK, CatalogRow, CompRow, RunRow, RecordRow, SlipRow

-----------------------------------------------------------------------------
(* Rows and amounts.                                                       *)

LEMMA Facts ==
  /\ IsFiniteSet(Staff) /\ IsFiniteSet(Source) /\ NoStaff \notin Staff
  /\ Manual \cap Source = {} /\ Program \subseteq Source /\ Package \subseteq Source
  /\ Base \subseteq Nat /\ Amount \subseteq Nat
  BY StaffAssumption, SourceAssumption, AmountAssumption

LEMMA Pcs ==
  /\ OnStaff \subseteq PC /\ Batch \subseteq PC /\ Paying \subseteq PC
  /\ Generating \subseteq PC /\ Rendering \subseteq OnStaff /\ Adjusting \subseteq PC
  /\ {"idle", "deleteSource"} \subseteq PC \ (OnStaff \cup Paying \cup Batch \cup Generating)
  /\ {"compensate", "totalsRead"} \cap (Batch \cup Rendering \cup Adjusting) = {}
  /\ "compensate" \notin Batch \cup Paying \cup Rendering \cup Adjusting
  /\ Paying \cap (OnStaff \cup Batch) = {}
  /\ Adjusting \cap Rendering = {} /\ Rendering \cap (Batch \cup Generating) = {}
  BY DEF PC, OnStaff, Batch, Paying, Generating, Rendering, Adjusting

LEMMA RowOK ==
  ASSUME NEW x \in Source \cup Manual, NEW n \in Nat
  PROVE  Row(x, n) \in RowType /\ Row(x, n).src = x
  BY DEF Row, RowType

LEMMA PriceOK ==
  ASSUME TypeInv, NEW x \in Source, NEW base \in Base
  PROVE  Price(x, base) \in Nat
<1>1. base \in Nat /\ catalog[x].amount \in Nat
  BY Facts DEF TypeInv, CatalogRow
<1>2. base * catalog[x].amount \in Nat
  BY <1>1
<1>3. QED BY <1>1, <1>2 DEF Price

(* The lines an image of the catalog is listed in.                         *)
LEMMA RowsListed ==
  ASSUME NEW I \in SUBSET Source, NEW f \in [I -> RowType]
  PROVE  SetToSeq({f[x] : x \in I}) \in Seq(RowType)
<1> DEFINE S == {f[x] : x \in I}
<1>1. IsFiniteSet(I)
  BY Facts, FS_Subset
<1>2. f \in Surjection(I, S)
  <2>1. f \in [I -> S] /\ \A y \in S : \E x \in I : f[x] = y
    OBVIOUS
  <2> HIDE DEF S
  <2>2. QED BY <2>1 DEF Surjection
<1>3. S \in SUBSET RowType
  OBVIOUS
<1> HIDE DEF S
<1>4. IsFiniteSet(S)
  BY <1>1, <1>2, FS_Surjection
<1>5. SetToSeq(S) \in Seq(RowType)
  BY <1>3, <1>4, SetToSeqType
<1>6. QED BY <1>5 DEF S

LEMMA SumRowsOK ==
  ASSUME NEW rows \in Seq(RowType)
  PROVE  SumRows(rows) \in Int
<1> DEFINE f == [k \in DOMAIN rows |-> rows[k].amount]
<1>1. DOMAIN rows = 1..Len(rows) /\ Len(rows) \in Nat
  OBVIOUS
<1>2. IsFiniteSet(DOMAIN rows)
  BY <1>1, FS_Interval
<1>3. \A k \in DOMAIN rows : f[k] \in Int
  <2>1. \A k \in DOMAIN rows : rows[k] \in RowType
    OBVIOUS
  <2>2. \A x \in RowType : x.amount \in Int
    BY DEF RowType
  <2>3. QED BY <2>1, <2>2
<1>4. DOMAIN f = DOMAIN rows
  OBVIOUS
<1>5. SumRows(rows) = SumFunctionOnSet(f, DOMAIN rows)
  BY <1>4 DEF SumRows, SumFunction
<1> HIDE DEF f
<1>6. QED BY <1>2, <1>3, <1>5, SumType

LEMMA NetOK ==
  ASSUME NEW base \in Nat, NEW rows \in Seq(RowType)
  PROVE  Net(base, rows) \in Int
<1>1. SumRows(rows) \in Int
  BY SumRowsOK
<1>2. QED BY <1>1 DEF Net

LEMMA CompOK ==
  ASSUME TypeInv, NEW s \in Staff
  PROVE  comp[s].base \in Base /\ comp[s].base \in Nat /\ comp[s].items \subseteq Source
  BY Facts DEF TypeInv, CompRow

LEMMA FreshRowsOK ==
  ASSUME TypeInv, NEW s \in Staff
  PROVE  FreshRows(s) \in Seq(RowType)
<1> DEFINE I == (comp[s].items \cap Active) \ Program
           f == [x \in I |-> Row(x, Price(x, comp[s].base))]
<1>1. I \in SUBSET Source
  BY DEF Active
<1>2. \A x \in I : Row(x, Price(x, comp[s].base)) \in RowType
  BY <1>1, CompOK, PriceOK, RowOK
<1>3. FreshRows(s) = SetToSeq({f[x] : x \in I})
  <2>1. {f[x] : x \in I} = {Row(x, Price(x, comp[s].base)) : x \in I}
    OBVIOUS
  <2>2. QED BY <2>1 DEF FreshRows
<1>4. f \in [I -> RowType]
  BY <1>2
<1> HIDE DEF I, f
<1>5. QED BY <1>1, <1>3, <1>4, RowsListed

(* The last line of a source that has one.                                 *)
LEMMA LastLine ==
  ASSUME NEW rows \in Seq(RowType), NEW x \in Sources(rows)
  PROVE  \E k \in DOMAIN rows : /\ rows[k].src = x
                                /\ \A j \in DOMAIN rows : rows[j].src = x => j <= k
<1> DEFINE K == {k \in DOMAIN rows : rows[k].src = x}
           w == [k \in K |-> Len(rows) - k]
<1>1. DOMAIN rows = 1..Len(rows) /\ Len(rows) \in Nat
  OBVIOUS
<1>2. K # {}
  BY DEF Sources
<1>3. \A k \in K : w[k] \in Nat /\ w[k] = Len(rows) - k /\ k \in Nat
  BY <1>1
<1> HIDE DEF w
<1>4. PICK k \in K : \A j \in K : w[k] <= w[j]
  <2> HIDE DEF K
  <2>1. QED BY <1>2, <1>3, LeastWeight
<1>5. \A j \in K : j <= k
  BY <1>1, <1>3, <1>4
<1>6. QED BY <1>5

LEMMA SyncedRowsOK ==
  ASSUME TypeInv, NEW s \in Staff
  PROVE  SyncedRows(s) \in Seq(RowType)
<1> DEFINE assigned == comp[s].items \ Program
           named == Sources(lines[s])
           Kept(x) == CHOOSE k \in DOMAIN lines[s] :
                        /\ lines[s][k].src = x
                        /\ \A j \in DOMAIN lines[s] : lines[s][j].src = x => j <= k
           I == (assigned \cup named) \cap Active
           line(x) == IF x \in named THEN lines[s][Kept(x)]
                      ELSE Row(x, Price(x, comp[s].base))
           f == [x \in I |-> line(x)]
<1>1. I \in SUBSET Source
  BY DEF Active
<1>2. lines[s] \in Seq(RowType)
  BY DEF TypeInv
<1>3. \A x \in named : Kept(x) \in DOMAIN lines[s]
  <2> TAKE x \in named
  <2>1. \E k \in DOMAIN lines[s] :
          /\ lines[s][k].src = x
          /\ \A j \in DOMAIN lines[s] : lines[s][j].src = x => j <= k
    BY <1>2, LastLine
  <2>2. QED BY <2>1
<1> HIDE DEF Kept
<1>4. \A x \in named : lines[s][Kept(x)] \in RowType
  BY <1>2, <1>3
<1>5. \A x \in I : Row(x, Price(x, comp[s].base)) \in RowType
  BY <1>1, CompOK, PriceOK, RowOK
<1>6. f \in [I -> RowType]
  BY <1>4, <1>5
<1>7. SyncedRows(s) = SetToSeq({f[x] : x \in I})
  <2>1. {f[x] : x \in I} = {line(x) : x \in I}
    OBVIOUS
  <2>2. QED BY <2>1 DEF SyncedRows, Kept
<1> HIDE DEF I, f
<1>8. QED BY <1>1, <1>6, <1>7, RowsListed

LEMMA TotalsOK ==
  ASSUME TypeInv
  PROVE  TotalNet \in Int /\ TotalPaid \in Int
<1> DEFINE f == [s \in Staff |-> NetOf(s)]
           g == [s \in Staff |-> IF records[s].status = "paid" THEN NetOf(s) ELSE 0]
<1>1. \A s \in Staff : NetOf(s) \in Int
  BY DEF TypeInv, RecordRow, NetOf
<1>2. \A s \in Staff : f[s] \in Int /\ g[s] \in Int
  BY <1>1
<1>3. DOMAIN f = Staff /\ DOMAIN g = Staff
  OBVIOUS
<1>4. TotalNet = SumFunctionOnSet(f, Staff) /\ TotalPaid = SumFunctionOnSet(g, Staff)
  BY <1>3 DEF TotalNet, TotalPaid, SumFunction
<1> HIDE DEF f, g
<1>5. QED BY <1>2, <1>4, Facts, SumType

-----------------------------------------------------------------------------
(* Locals.                                                                 *)

LEMMA IdleType ==
  /\ Idle \in LocalType /\ Idle.pc = "idle" /\ Idle.todo = {} /\ Idle.rows = <<>>
  /\ Idle.pays = FALSE /\ Idle.all = FALSE /\ Idle.settled = FALSE
<1>1. <<>> \in Seq(RowType)
  OBVIOUS
<1>2. "idle" \in PC
  BY Pcs
<1>3. Idle \in LocalType
  BY <1>1, <1>2 DEF Idle, LocalType
<1>4. QED BY <1>3 DEF Idle

LEMMA IdleOK == LocalOK(Idle)
  BY IdleType, Pcs DEF LocalOK

(* A handler that begins to render the payslip of s.                       *)
LEMMA RenderOK ==
  ASSUME NEW s \in Staff, NEW base \in Nat, NEW net \in Int, NEW settled \in BOOLEAN
  PROVE  LocalOK([Idle EXCEPT !.pc = "renderLines", !.staff = s, !.base = base,
                               !.net = net, !.settled = settled])
<1> DEFINE q == [Idle EXCEPT !.pc = "renderLines", !.staff = s, !.base = base,
                               !.net = net, !.settled = settled]
<1>1. "renderLines" \in PC \ {"compensate", "deleteSource", "totalsRead"} /\ "renderLines" \notin Paying /\ "renderLines" \notin Batch
  BY DEF PC, Paying, Batch, Adjusting
<1>2. /\ q \in LocalType /\ q.pc = "renderLines" /\ q.staff = s /\ q.all = FALSE
  BY <1>1, IdleType DEF LocalType
<1> HIDE DEF q
<1>3. LocalOK(q)
  BY <1>1, <1>2 DEF LocalOK
<1>4. QED BY <1>3 DEF q

(* A handler that goes on to another record, or to the totals.             *)
LEMMA BatchOK ==
  ASSUME NEW todo \in SUBSET Staff, NEW all \in BOOLEAN, NEW pc \in {"genRecord", "totalsRead"},
         pc = "totalsRead" => todo = {}
  PROVE  LocalOK([Idle EXCEPT !.pc = pc, !.todo = todo, !.all = all])
<1> DEFINE q == [Idle EXCEPT !.pc = pc, !.todo = todo, !.all = all]
<1>1. todo \in SUBSET (Staff \cup Source)
  OBVIOUS
<1>2. pc \in PC /\ pc \notin OnStaff /\ pc \in Generating /\ pc \notin {"compensate", "deleteSource"}
  BY DEF PC, OnStaff, Generating, Adjusting
<1>3. /\ q \in LocalType /\ q.pc = pc /\ q.todo = todo /\ q.pays = FALSE
  BY <1>1, <1>2, IdleType DEF LocalType
<1> HIDE DEF q
<1>4. LocalOK(q)
  BY <1>2, <1>3 DEF LocalOK
<1>5. QED BY <1>4 DEF q

LEMMA AfterRecordOK ==
  ASSUME TypeInv, NEW h \in Request, req[h].pc \in Batch
  PROVE  /\ LocalOK(AfterRecord(h))
         /\ AfterRecord(h).pc \in {"genRecord", "totalsRead"}
         /\ AfterRecord(h).todo = req[h].todo /\ AfterRecord(h).all = req[h].all
<1>1. req[h].todo \in SUBSET Staff /\ req[h].all \in BOOLEAN
  BY DEF TypeInv, LocalOK, LocalType
<1>2. CASE req[h].todo # {}
  <2>1. AfterRecord(h) = [Idle EXCEPT !.pc = "genRecord", !.todo = req[h].todo, !.all = req[h].all]
    BY <1>2 DEF AfterRecord
  <2>2. LocalOK(AfterRecord(h))
    BY <1>1, <2>1, BatchOK
  <2>3. QED BY <2>1, <2>2, IdleType DEF LocalType
<1>3. CASE req[h].todo = {}
  <2> DEFINE q == [Idle EXCEPT !.pc = "totalsRead", !.todo = {}, !.all = req[h].all]
  <2>1. AfterRecord(h) = [Idle EXCEPT !.pc = "totalsRead", !.all = req[h].all]
    BY <1>3 DEF AfterRecord
  <2>2. AfterRecord(h) = q
    BY <2>1, IdleType DEF LocalType
  <2>3. LocalOK(q)
    BY <1>1, BatchOK
  <2>4. q.pc = "totalsRead" /\ q.todo = {} /\ q.all = req[h].all
    BY IdleType DEF LocalType
  <2> HIDE DEF q
  <2>5. QED BY <1>3, <2>2, <2>3, <2>4
<1>4. QED BY <1>2, <1>3

-----------------------------------------------------------------------------
(* The invariant.                                                          *)

(* A handler that adjusts a record has one.                                *)
AdjustedExists == \A h \in Request : req[h].pc \in Adjusting => Exists(req[h].staff)

(* What a handler has read of a settled record is what it says.            *)
ReadsOK(h) ==
  req[h].pc \in Rendering /\ req[h].settled =>
    /\ Settled(req[h].staff)
    /\ req[h].base = records[req[h].staff].base /\ req[h].net = records[req[h].staff].net
    /\ req[h].pc = "renderPut" => req[h].rows = lines[req[h].staff]

SlipsOK ==
  \A s \in Staff : payslip[s].settled =>
    /\ Settled(s)
    /\ payslip[s].base = records[s].base /\ payslip[s].net = records[s].net
    /\ payslip[s].rows = lines[s]

PayInv == TypeInv /\ AdjustedExists /\ (\A h \in Request : ReadsOK(h)) /\ SlipsOK

(* Of the staff of a generation whoever is done with has a record.         *)
Covers(q) ==
  q.all /\ q.pc \in Generating =>
    \A s \in Staff : \/ s \in q.todo \/ Exists(s)
                     \/ q.pc \in {"genRows", "genInsert"} /\ s = q.staff

AllCovered == \A h \in Request : Covers(req[h])

-----------------------------------------------------------------------------
(* What a step of any handler does to the records.                         *)

Frozen(s) ==
  /\ records'[s].status \in {"pending", "paid"} /\ lines'[s] = lines[s]
  /\ records'[s].base = records[s].base /\ records'[s].net = records[s].net

TablesOK ==
  /\ catalog' \in [Source -> CatalogRow]
  /\ comp' \in [Staff -> CompRow]
  /\ run' \in RunRow
  /\ records' \in [Staff -> RecordRow]
  /\ lines' \in [Staff -> Seq(RowType)]
  /\ jobs' \subseteq Staff
  /\ payslip' \in [Staff -> SlipRow]
  /\ edits' \in Nat

(* Records stay, and a settled one stays as it is.                         *)
Kept ==
  /\ \A s \in Staff : Exists(s) => records'[s].status # "absent"
  /\ \A s \in Staff : Settled(s) => Frozen(s)

(* What every step shows: types, records that stay, and nobody who begins  *)
(* to adjust a settled record.                                             *)
Safe ==
  /\ TypeInv' /\ Kept /\ AdjustedExists'
  /\ \A s \in Staff, h \in Request : Settled(s) => ~ (req'[h].staff = s /\ req'[h].pc \in Adjusting)

(* No payslip is rendered or looked at anew.                               *)
Unrendered ==
  payslip' = payslip /\ \A h \in Request : req'[h].pc \in Rendering => req'[h] = req[h]

CoversNext(q) ==
  q.all /\ q.pc \in Generating =>
    \A s \in Staff : \/ s \in q.todo \/ records'[s].status # "absent"
                     \/ q.pc \in {"genRows", "genInsert"} /\ s = q.staff

(* The record an adjusting handler has, which is not settled.              *)
MayAdjust(q) ==
  q.pc \in Adjusting => q.staff \in Staff /\ records'[q.staff].status # "absent" /\ ~ Settled(q.staff)

LEMMA TableStep ==
  ASSUME PayInv, TablesOK, Kept, UNCHANGED req
  PROVE  Safe /\ (AllCovered => AllCovered') /\ (UNCHANGED payslip => Unrendered)
<1>1. TypeInv'
  BY DEF PayInv, TypeInv, TablesOK
<1>2. AdjustedExists'
  <2>1. \A h \in Request : req[h].pc \in Adjusting => req[h].staff \in Staff
    BY DEF PayInv, TypeInv, LocalOK, OnStaff
  <2>2. QED BY <2>1 DEF PayInv, Kept, AdjustedExists, Exists
<1>3. \A s \in Staff, h \in Request : Settled(s) => ~ (req'[h].staff = s /\ req'[h].pc \in Adjusting)
  BY DEF Settled, Adjusts
<1>4. AllCovered => AllCovered'
  BY DEF Kept, AllCovered, Covers, Exists
<1>5. UNCHANGED payslip => Unrendered
  BY DEF Unrendered
<1>6. QED BY <1>1, <1>2, <1>3, <1>4, <1>5 DEF Safe

LEMMA HandlerStep ==
  ASSUME PayInv, TablesOK, Kept, NEW h \in Request, NEW q, LocalOK(q), Goto(h, q),
         MayAdjust(q)
  PROVE  /\ Safe
         /\ AllCovered /\ CoversNext(q) => AllCovered'
         /\ UNCHANGED payslip /\ q.pc \notin Rendering => Unrendered
<1>1. req' = [req EXCEPT ![h] = q] /\ req \in [Request -> LocalType]
  BY DEF Goto, PayInv, TypeInv
<1>2. req'[h] = q /\ \A g \in Request \ {h} : req'[g] = req[g]
  BY <1>1
<1>3. TypeInv'
  <2>1. req' \in [Request -> LocalType]
    BY <1>1 DEF LocalOK
  <2>2. \A g \in Request : LocalOK(req'[g])
    BY <1>2 DEF PayInv, TypeInv
  <2>3. QED BY <2>1, <2>2 DEF TypeInv, TablesOK
<1>4. AdjustedExists'
  <2>1. \A g \in Request : req[g].pc \in Adjusting => req[g].staff \in Staff
    BY DEF PayInv, TypeInv, LocalOK, OnStaff
  <2>2. QED BY <1>2, <2>1 DEF PayInv, Kept, AdjustedExists, Exists, MayAdjust
<1>5. \A s \in Staff, g \in Request : Settled(s) => ~ (req'[g].staff = s /\ req'[g].pc \in Adjusting)
  BY <1>2 DEF Settled, Adjusts, MayAdjust
<1>6. AllCovered /\ CoversNext(q) => AllCovered'
  BY <1>2 DEF Kept, AllCovered, Covers, CoversNext, Exists
<1>7. UNCHANGED payslip /\ q.pc \notin Rendering => Unrendered
  BY <1>2 DEF Unrendered
<1>8. QED BY <1>3, <1>4, <1>5, <1>6, <1>7 DEF Safe

(* The rest of the invariant follows when nothing is rendered.             *)
LEMMA SettledStays ==
  ASSUME Safe, NEW s \in Staff, Settled(s)
  PROVE  Settled(s)' /\ Frozen(s)
  BY DEF Safe, Kept, Settled, Adjusts, Frozen

LEMMA SlipsStay ==
  ASSUME PayInv, Safe, UNCHANGED payslip
  PROVE  SlipsOK'
<1>1. \A s \in Staff : Settled(s) => Settled(s)' /\ Frozen(s)
  BY SettledStays
<1>2. QED BY <1>1 DEF PayInv, SlipsOK, Frozen

LEMMA ReadStays ==
  ASSUME PayInv, Safe, NEW h \in Request, req'[h] = req[h]
  PROVE  ReadsOK(h)'
<1>1. SUFFICES ASSUME req'[h].pc \in Rendering, req'[h].settled PROVE ReadsOK(h)'
  BY DEF ReadsOK
<1>2. req[h].pc \in Rendering /\ req[h].settled /\ ReadsOK(h)
  BY <1>1 DEF PayInv
<1>3. PICK s \in Staff : s = req[h].staff
  BY <1>2, Pcs DEF PayInv, TypeInv, LocalOK
<1>4. Settled(s) /\ Settled(s)' /\ Frozen(s)
  BY <1>2, <1>3, SettledStays DEF ReadsOK
<1>5. req'[h].staff = s
  BY <1>3
<1>6. QED BY <1>2, <1>3, <1>4, <1>5 DEF ReadsOK, Frozen

LEMMA UnrenderedInv ==
  ASSUME PayInv, Safe, Unrendered
  PROVE  PayInv'
<1>1. SlipsOK'
  BY SlipsStay DEF Unrendered
<1>2. ASSUME NEW h \in Request PROVE ReadsOK(h)'
  <2>1. SUFFICES ASSUME req'[h].pc \in Rendering PROVE ReadsOK(h)'
    BY DEF ReadsOK
  <2>2. QED BY <2>1, ReadStays DEF Unrendered
<1>3. QED BY <1>1, <1>2 DEF PayInv, Safe

-----------------------------------------------------------------------------
(* Every operation but the rendering of payslips.                          *)

Step == Safe /\ (AllCovered => AllCovered') /\ Unrendered

LEMMA TablesStep ==
  ASSUME PayInv, TablesOK, Kept, UNCHANGED <<payslip, req>>
  PROVE  Step
  BY TableStep DEF Step

LEMMA HandlersStep ==
  ASSUME PayInv, TablesOK, Kept, UNCHANGED payslip, NEW h \in Request, NEW q, LocalOK(q),
         Goto(h, q), MayAdjust(q), q.pc \notin Rendering, AllCovered => CoversNext(q)
  PROVE  Step
  BY HandlerStep DEF Step

(* Neither the records nor their lines change.                             *)
LEMMA RecordsUnchanged ==
  ASSUME PayInv, UNCHANGED <<records, lines>>
  PROVE  /\ Kept /\ records' \in [Staff -> RecordRow] /\ lines' \in [Staff -> Seq(RowType)]
         /\ \A s \in Staff : records'[s] = records[s] /\ lines'[s] = lines[s]
  BY DEF PayInv, TypeInv, Kept, Exists, Settled, Frozen

(* No table changes.                                                       *)
LEMMA AllUnchanged ==
  ASSUME PayInv, UNCHANGED <<tables, output, edits>>
  PROVE  TablesOK /\ Kept /\ UNCHANGED payslip
  BY RecordsUnchanged DEF PayInv, TypeInv, TablesOK, tables, output

(* A handler ends, or goes where it neither adjusts nor generates.         *)
LEMMA EndsStep ==
  ASSUME PayInv, TablesOK, Kept, UNCHANGED payslip, NEW h \in Request, NEW q, LocalOK(q),
         Goto(h, q), q.pc \notin Adjusting, q.pc \notin Rendering,
         q.pc \notin Generating \/ ~ q.all
  PROVE  Step
  BY HandlersStep DEF MayAdjust, CoversNext

LEMMA IdleStep ==
  ASSUME PayInv, TablesOK, Kept, UNCHANGED payslip, NEW h \in Request, Goto(h, Idle)
  PROVE  Step
<1>1. LocalOK(Idle) /\ Idle.pc = "idle"
  BY IdleOK, IdleType
<1>2. Idle.pc \notin Adjusting /\ Idle.pc \notin Rendering /\ Idle.pc \notin Generating
  BY <1>1 DEF Adjusting, Rendering, Generating
<1>3. QED BY <1>1, <1>2, EndsStep

(* The record a handler adjusts is there and is not settled.               *)
LEMMA Adjuster ==
  ASSUME PayInv, NEW h \in Request, req[h].pc \in Adjusting
  PROVE  /\ req[h].staff \in Staff /\ Exists(req[h].staff) /\ ~ Settled(req[h].staff)
         /\ req[h].todo \subseteq Staff /\ req[h] \in LocalType
         /\ req[h].all => req[h].pc \in Generating
<1>1. LocalOK(req[h])
  BY DEF PayInv, TypeInv
<1>2. req[h].staff \in Staff /\ req[h].todo \subseteq Staff /\ req[h] \in LocalType
  BY <1>1 DEF LocalOK, OnStaff, Batch
<1>3. ~ Settled(req[h].staff)
  BY <1>2 DEF Settled, Adjusts
<1>4. req[h].pc # "totalsWrite"
  BY DEF Adjusting
<1>5. QED BY <1>1, <1>2, <1>3, <1>4 DEF PayInv, AdjustedExists, LocalOK

(* A handler goes on with the record it adjusts.                           *)
LEMMA AdjustStep ==
  ASSUME PayInv, TablesOK, Kept, UNCHANGED payslip, NEW h \in Request,
         req[h].pc \in Adjusting, NEW q \in LocalType, Goto(h, q),
         q.pc \in Adjusting, q.staff = req[h].staff, q.todo = req[h].todo,
         q.all = req[h].all, q.all => q.pc \in Generating
  PROVE  Step
<1>1. /\ req[h].staff \in Staff /\ Exists(req[h].staff) /\ ~ Settled(req[h].staff)
      /\ req[h].todo \subseteq Staff /\ (req[h].all => req[h].pc \in Generating)
  BY Adjuster
<1>2. q.pc \notin {"compensate", "deleteSource", "totalsRead"} /\ q.pc \notin Paying /\ q.pc \notin Rendering /\ q.pc \in Batch
  BY DEF Adjusting, Paying, Rendering, Batch
<1>3. LocalOK(q)
  BY <1>1, <1>2 DEF LocalOK
<1>4. MayAdjust(q)
  BY <1>1 DEF MayAdjust, Kept
<1>5. AllCovered => CoversNext(q)
  <2>1. SUFFICES ASSUME AllCovered, q.all, NEW s \in Staff
                 PROVE  s \in q.todo \/ records'[s].status # "absent"
    BY DEF CoversNext
  <2>2. req[h].pc \notin {"genRows", "genInsert"}
    BY DEF Adjusting
  <2>3. s \in req[h].todo \/ Exists(s)
    BY <1>1, <2>1, <2>2 DEF AllCovered, Covers
  <2>4. QED BY <2>3 DEF Kept
<1>6. QED BY <1>2, <1>3, <1>4, <1>5, HandlersStep

(* A handler is done with its record.                                      *)
LEMMA DoneStep ==
  ASSUME PayInv, TablesOK, Kept, UNCHANGED payslip, NEW h \in Request,
         req[h].pc \in Adjusting, Goto(h, AfterRecord(h))
  PROVE  Step
<1>1. /\ req[h].staff \in Staff /\ Exists(req[h].staff) /\ ~ Settled(req[h].staff)
      /\ req[h].todo \subseteq Staff /\ (req[h].all => req[h].pc \in Generating)
  BY Adjuster
<1>2. req[h].pc \in Batch
  BY DEF Batch
<1>3. /\ LocalOK(AfterRecord(h)) /\ AfterRecord(h).pc \in {"genRecord", "totalsRead"}
      /\ AfterRecord(h).todo = req[h].todo /\ AfterRecord(h).all = req[h].all
  BY <1>2, AfterRecordOK DEF PayInv
<1>4. AfterRecord(h).pc \notin Adjusting /\ AfterRecord(h).pc \notin Rendering
  BY <1>3 DEF Adjusting, Rendering
<1>5. AllCovered => CoversNext(AfterRecord(h))
  <2>1. SUFFICES ASSUME AllCovered, AfterRecord(h).all, NEW s \in Staff
                 PROVE  s \in AfterRecord(h).todo \/ records'[s].status # "absent"
    BY DEF CoversNext
  <2>2. req[h].pc \notin {"genRows", "genInsert"}
    BY DEF Adjusting
  <2>3. s \in req[h].todo \/ Exists(s)
    BY <1>1, <1>3, <2>1, <2>2 DEF AllCovered, Covers
  <2>4. QED BY <1>3, <2>3 DEF Kept
<1>6. MayAdjust(AfterRecord(h))
  BY <1>4 DEF MayAdjust
<1>7. QED BY <1>3, <1>4, <1>5, <1>6, HandlersStep

-----------------------------------------------------------------------------
(* The catalog and the compensation.                                       *)

LEMMA CatalogStep ==
  ASSUME PayInv, NEW x \in Source, NEW a \in Amount,
         NEW st \in {"absent", "active", "archived", "deleted"}, EditCatalog(x, st, a)
  PROVE  Step
<1>1. catalog' \in [Source -> CatalogRow]
  BY DEF PayInv, TypeInv, CatalogRow, EditCatalog
<1>2. edits' \in Nat
  BY DEF PayInv, TypeInv, EditCatalog
<1>3. UNCHANGED <<comp, run, records, lines, jobs, payslip, req>>
  BY DEF EditCatalog, output
<1>4. TablesOK
  BY <1>1, <1>2, <1>3 DEF PayInv, TypeInv, TablesOK
<1>5. QED BY <1>3, <1>4, RecordsUnchanged, TablesStep

LEMMA CompStep ==
  ASSUME PayInv, comp' \in [Staff -> CompRow], edits' \in Nat,
         UNCHANGED <<catalog, run, records, lines, output>>
  PROVE  TablesOK /\ Kept /\ UNCHANGED payslip
  BY RecordsUnchanged DEF PayInv, TypeInv, TablesOK, output

LEMMA EditPayStep ==
  ASSUME PayInv, EditPay
  PROVE  Step
<1>1. PICK x \in Source : \/ CreateSource(x) \/ UpdateSource(x)
                          \/ ArchiveSource(x) \/ RestoreSource(x)
                          \/ \E s \in Staff : EnrollStaff(s, x) \/ UnenrollStaff(s, x)
  BY DEF EditPay
<1>2. catalog[x].amount \in Amount /\ catalog[x].status \in {"absent", "active", "archived", "deleted"}
  BY DEF PayInv, TypeInv, CatalogRow
<1>3. CASE CreateSource(x) \/ UpdateSource(x) \/ ArchiveSource(x) \/ RestoreSource(x)
  <2>1. \E st \in {"absent", "active", "archived", "deleted"}, a \in Amount : EditCatalog(x, st, a)
    BY <1>2, <1>3 DEF CreateSource, UpdateSource, ArchiveSource, RestoreSource
  <2>2. QED BY <2>1, CatalogStep
<1>4. ASSUME NEW s \in Staff, EnrollStaff(s, x) \/ UnenrollStaff(s, x)
      PROVE  Step
  <2>1. \E items \in SUBSET Source : comp' = [comp EXCEPT ![s].items = items]
    <3>1. comp[s].items \subseteq Source
      BY CompOK DEF PayInv
    <3>2. QED BY <1>4, <3>1 DEF EnrollStaff, UnenrollStaff
  <2>2. comp' \in [Staff -> CompRow]
    BY <2>1 DEF PayInv, TypeInv, CompRow
  <2>3. edits' \in Nat /\ UNCHANGED <<catalog, run, records, lines, output, req>>
    BY <1>4 DEF EnrollStaff, UnenrollStaff, Edit, PayInv, TypeInv
  <2>4. QED BY <2>2, <2>3, CompStep, TablesStep
<1>5. QED BY <1>1, <1>3, <1>4

LEMMA CompensateClearStep ==
  ASSUME PayInv, NEW h \in Request, NEW s \in Staff, CompensateClear(h, s)
  PROVE  Step
<1>1. PICK base \in Base, kind \in {{}, Package, Source \ (Package \cup Program)} :
        \E items \in SUBSET (Active \cap kind) :
          /\ comp' = [comp EXCEPT ![s] = [base |-> base, items |-> @.items \ kind]]
          /\ Goto(h, [Idle EXCEPT !.pc = "compensate", !.staff = s, !.todo = items])
  BY DEF CompensateClear
<1>2. PICK items \in SUBSET (Active \cap kind) :
        /\ comp' = [comp EXCEPT ![s] = [base |-> base, items |-> @.items \ kind]]
        /\ Goto(h, [Idle EXCEPT !.pc = "compensate", !.staff = s, !.todo = items])
  BY <1>1
<1> DEFINE q == [Idle EXCEPT !.pc = "compensate", !.staff = s, !.todo = items]
<1>3. items \in SUBSET (Staff \cup Source)
  BY DEF Active
<1>4. /\ items \subseteq Source /\ "compensate" # "deleteSource"
      /\ "compensate" \in PC \ (Adjusting \cup Rendering \cup Generating \cup Batch \cup Paying)
      /\ "compensate" \in OnStaff
  BY DEF Active, PC, Adjusting, Rendering, Generating, Batch, Paying, OnStaff
<1>5. /\ q \in LocalType /\ q.pc = "compensate" /\ q.staff = s /\ q.all = FALSE
      /\ q.todo = items
  BY <1>3, <1>4, IdleType DEF LocalType
<1>6. Goto(h, q)
  BY <1>2
<1> HIDE DEF q
<1>7. LocalOK(q)
  BY <1>4, <1>5 DEF LocalOK
<1>8. comp' \in [Staff -> CompRow]
  <2>1. comp \in [Staff -> CompRow] /\ comp[s].items \subseteq Source
    BY DEF PayInv, TypeInv, CompRow
  <2>2. [base |-> base, items |-> comp[s].items \ kind] \in CompRow
    BY <2>1 DEF CompRow
  <2>3. QED BY <1>2, <2>1, <2>2
<1>9. edits' \in Nat /\ UNCHANGED <<catalog, run, records, lines, output>>
  BY DEF CompensateClear, Edit, PayInv, TypeInv
<1>10. QED BY <1>4, <1>5, <1>6, <1>7, <1>8, <1>9, CompStep, EndsStep

LEMMA CompensateFillStep ==
  ASSUME PayInv, NEW h \in Request, CompensateFill(h)
  PROVE  Step
<1>1. req[h].staff \in Staff
  BY DEF PayInv, TypeInv, LocalOK, OnStaff, CompensateFill, At
<1>2. req[h].todo \subseteq Source
  BY DEF PayInv, TypeInv, LocalOK, CompensateFill, At
<1> DEFINE items == {x \in req[h].todo : catalog[x].status \in {"active", "archived"}}
<1>3. comp' = [comp EXCEPT ![req[h].staff].items = @ \cup items]
  BY DEF CompensateFill
<1>4. comp' \in [Staff -> CompRow]
  <2>1. items \subseteq Source
    BY <1>2
  <2> HIDE DEF items
  <2>2. QED BY <1>1, <1>3, <2>1 DEF PayInv, TypeInv, CompRow
<1>5. edits' \in Nat /\ UNCHANGED <<catalog, run, records, lines, output>> /\ Goto(h, Idle)
  BY DEF CompensateFill, PayInv, TypeInv
<1>6. QED BY <1>4, <1>5, CompStep, IdleStep

LEMMA DeleteSourceReadStep ==
  ASSUME PayInv, NEW h \in Request, NEW x \in Source, DeleteSourceRead(h, x)
  PROVE  Step
<1> DEFINE q == [Idle EXCEPT !.pc = "deleteSource", !.rows = <<Row(x, 0)>>]
<1>1. <<Row(x, 0)>> \in Seq(RowType)
  BY RowOK
<1>2. "deleteSource" \in PC \ (Adjusting \cup Rendering \cup Generating \cup Batch \cup Paying \cup OnStaff)
  BY DEF PC, Adjusting, Rendering, Generating, Batch, Paying, OnStaff
<1>3. q \in LocalType /\ q.pc = "deleteSource" /\ q.all = FALSE /\ q.rows = <<Row(x, 0)>>
  BY <1>1, <1>2, IdleType DEF LocalType
<1>4. Goto(h, q) /\ UNCHANGED <<tables, output, edits>>
  BY DEF DeleteSourceRead
<1> HIDE DEF q
<1>5. LocalOK(q)
  BY <1>2, <1>3 DEF LocalOK
<1>6. QED BY <1>2, <1>3, <1>4, <1>5, AllUnchanged, EndsStep

LEMMA DeleteSourceWriteStep ==
  ASSUME PayInv, NEW h \in Request, DeleteSourceWrite(h)
  PROVE  Step
<1>1. PICK x \in Source : req[h].rows = <<Row(x, 0)>>
  BY DEF PayInv, TypeInv, LocalOK, DeleteSourceWrite, At
<1>2. req[h].rows[1].src = x
  BY <1>1, RowOK
<1>3. catalog' = catalog \/ catalog' = [catalog EXCEPT ![x].status = "deleted"]
  BY <1>2 DEF DeleteSourceWrite
<1>4. catalog' \in [Source -> CatalogRow]
  BY <1>3 DEF PayInv, TypeInv, CatalogRow
<1>5. UNCHANGED <<comp, run, records, lines, jobs, payslip, edits>> /\ Goto(h, Idle)
  BY DEF DeleteSourceWrite, output
<1>6. TablesOK
  BY <1>4, <1>5 DEF PayInv, TypeInv, TablesOK
<1>7. QED BY <1>5, <1>6, RecordsUnchanged, IdleStep


-----------------------------------------------------------------------------
(* The generation of the records.                                          *)

LEMMA CreateRunStep ==
  ASSUME PayInv, CreateRun
  PROVE  Step
<1>1. run' \in RunRow
  BY DEF CreateRun, PayInv, TypeInv, RunRow
<1>2. UNCHANGED <<catalog, comp, records, lines, jobs, payslip, req, edits>>
  BY DEF CreateRun, output
<1>3. TablesOK
  BY <1>1, <1>2 DEF PayInv, TypeInv, TablesOK
<1>4. QED BY <1>2, <1>3, RecordsUnchanged, TablesStep

(* A handler takes up a batch, or what is left of it.                      *)
LEMMA BatchStep ==
  ASSUME PayInv, TablesOK, Kept, UNCHANGED payslip, NEW h \in Request, NEW todo \in SUBSET Staff,
         NEW pc \in {"genRecord", "totalsRead"}, NEW all \in BOOLEAN,
         pc = "totalsRead" => todo = {},
         Goto(h, [Idle EXCEPT !.pc = pc, !.todo = todo, !.all = all]),
         AllCovered /\ all => \A s \in Staff : s \in todo \/ Exists(s)
  PROVE  Step
<1> DEFINE q == [Idle EXCEPT !.pc = pc, !.todo = todo, !.all = all]
<1>1. LocalOK(q)
  BY BatchOK
<1>2. q.pc = pc /\ q.todo = todo /\ q.all = all
  BY IdleType DEF LocalType
<1>3. Goto(h, q)
  OBVIOUS
<1> HIDE DEF q
<1>4. q.pc \notin Adjusting /\ q.pc \notin Rendering
  BY <1>2 DEF Adjusting, Rendering
<1>5. AllCovered => CoversNext(q)
  BY <1>2 DEF Kept, CoversNext
<1>6. MayAdjust(q)
  BY <1>4 DEF MayAdjust
<1>7. QED BY <1>1, <1>3, <1>4, <1>5, <1>6, HandlersStep

LEMMA GenerateStep ==
  ASSUME PayInv, NEW h \in Request, Generate(h)
  PROVE  Step
<1>1. Goto(h, [Idle EXCEPT !.pc = "genRecord", !.todo = Staff, !.all = TRUE])
  BY DEF Generate
<1>2. UNCHANGED <<tables, output, edits>>
  BY DEF Generate
<1>3. QED BY <1>1, <1>2, AllUnchanged, BatchStep

LEMMA GenRecordStep ==
  ASSUME PayInv, NEW h \in Request, GenRecord(h)
  PROVE  Step
<1>1. PICK s \in req[h].todo :
        LET found == [req[h] EXCEPT !.staff = s, !.todo = @ \ {s}]
            rest  == req[h].todo \ {s}
        IN  CASE records[s].status = "absent" -> Goto(h, [found EXCEPT !.pc = "genRows"])
              [] records[s].status = "draft"  -> Goto(h, [found EXCEPT !.pc = "syncRows"])
              [] OTHER -> Goto(h, [Idle EXCEPT !.todo = rest, !.all = req[h].all,
                                         !.pc = IF rest = {} THEN "totalsRead" ELSE "genRecord"])
  BY DEF GenRecord
<1>2. UNCHANGED <<tables, output, edits>>
  BY DEF GenRecord
<1>3. req[h].pc = "genRecord" /\ "genRecord" \in Batch /\ "genRecord" \in Generating
  BY DEF GenRecord, At, Batch, Generating
<1>4. LocalOK(req[h]) /\ req[h] \in LocalType /\ req[h].todo \subseteq Staff
  BY <1>3 DEF PayInv, TypeInv, LocalOK
<1>5. s \in Staff
  BY <1>4
<1>6. AllCovered /\ req[h].all => \A t \in Staff : t \in req[h].todo \/ Exists(t)
  BY <1>3 DEF AllCovered, Covers
<1>7. TablesOK /\ Kept /\ UNCHANGED payslip
  BY <1>2, AllUnchanged
<1>8. ASSUME NEW pc \in {"genRows", "syncRows"}, pc = "syncRows" => records[s].status = "draft",
             Goto(h, [[req[h] EXCEPT !.staff = s, !.todo = @ \ {s}] EXCEPT !.pc = pc])
      PROVE  Step
  <2> DEFINE q == [[req[h] EXCEPT !.staff = s, !.todo = @ \ {s}] EXCEPT !.pc = pc]
  <2>1. /\ pc \in PC /\ pc \in OnStaff /\ pc \notin Paying /\ pc \in Generating
        /\ pc \notin Rendering /\ pc \notin {"compensate", "deleteSource", "totalsRead"}
    BY DEF PC, OnStaff, Paying, Generating, Rendering, Adjusting
  <2>2. /\ q \in LocalType /\ q.pc = pc /\ q.staff = s /\ q.todo = req[h].todo \ {s}
        /\ q.all = req[h].all
    BY <1>4, <1>5, <2>1 DEF LocalType
  <2>3. Goto(h, q)
    BY <1>8
  <2> HIDE DEF q
  <2>4. LocalOK(q)
    BY <1>4, <1>5, <2>1, <2>2 DEF LocalOK
  <2>5. MayAdjust(q)
    <3>1. SUFFICES ASSUME q.pc \in Adjusting
                   PROVE  records'[s].status # "absent" /\ ~ Settled(s)
      BY <1>5, <2>2 DEF MayAdjust
    <3>2. records[s].status = "draft"
      BY <1>8, <2>2, <3>1 DEF Adjusting
    <3>3. records' = records
      BY <1>2 DEF tables
    <3>4. QED BY <3>2, <3>3 DEF Settled
  <2>6. AllCovered => CoversNext(q)
    <3>1. SUFFICES ASSUME AllCovered, q.all, NEW t \in Staff
                   PROVE  \/ t \in q.todo \/ records'[t].status # "absent"
                          \/ q.pc \in {"genRows", "genInsert"} /\ t = q.staff
      BY DEF CoversNext
    <3>2. t \in req[h].todo \/ Exists(t)
      BY <1>6, <2>2, <3>1
    <3>3. CASE t = s
      BY <1>8, <1>7, <2>2, <3>3 DEF Kept, Exists
    <3>4. CASE t # s
      BY <1>7, <2>2, <3>2, <3>4 DEF Kept
    <3>5. QED BY <3>3, <3>4
  <2>7. QED BY <1>7, <2>1, <2>2, <2>3, <2>4, <2>5, <2>6, HandlersStep
<1>9. ASSUME records[s].status \notin {"absent", "draft"}, NEW pc \in {"genRecord", "totalsRead"},
             pc = "totalsRead" => req[h].todo \ {s} = {},
             Goto(h, [Idle EXCEPT !.pc = pc, !.todo = req[h].todo \ {s}, !.all = req[h].all])
      PROVE  Step
  <2>1. AllCovered /\ req[h].all => \A t \in Staff : t \in req[h].todo \ {s} \/ Exists(t)
    BY <1>6, <1>9 DEF Exists
  <2>2. req[h].todo \ {s} \in SUBSET Staff /\ req[h].all \in BOOLEAN
    BY <1>4 DEF LocalType
  <2>3. QED BY <1>7, <1>9, <2>1, <2>2, BatchStep
<1>10. CASE records[s].status = "absent"
  BY <1>1, <1>8, <1>10
<1>11. CASE records[s].status = "draft"
  BY <1>1, <1>8, <1>11
<1>12. CASE records[s].status \notin {"absent", "draft"}
  <2> DEFINE rest == req[h].todo \ {s}
             pc == IF rest = {} THEN "totalsRead" ELSE "genRecord"
  <2>1. Goto(h, [Idle EXCEPT !.todo = rest, !.all = req[h].all, !.pc = pc])
    BY <1>1, <1>12
  <2>2. [Idle EXCEPT !.todo = rest, !.all = req[h].all, !.pc = pc]
          = [Idle EXCEPT !.pc = pc, !.todo = rest, !.all = req[h].all]
    BY IdleType DEF LocalType
  <2>3. pc \in {"genRecord", "totalsRead"} /\ (pc = "totalsRead" => rest = {})
    OBVIOUS
  <2>4. Goto(h, [Idle EXCEPT !.pc = pc, !.todo = rest, !.all = req[h].all])
    <3> HIDE DEF pc, rest
    <3>1. QED BY <2>1, <2>2
  <2> HIDE DEF pc
  <2>5. QED BY <1>9, <1>12, <2>3, <2>4
<1>13. QED BY <1>10, <1>11, <1>12

LEMMA GenRowsStep ==
  ASSUME PayInv, NEW h \in Request, GenRows(h)
  PROVE  Step
<1> DEFINE s == req[h].staff
           q == [req[h] EXCEPT !.pc = "genInsert", !.base = comp[s].base, !.rows = FreshRows(s)]
<1>1. req[h].pc = "genRows" /\ LocalOK(req[h]) /\ req[h] \in LocalType
  BY DEF PayInv, TypeInv, LocalOK, GenRows, At
<1>2. "genRows" \in OnStaff \cap Batch \cap Generating
  BY DEF OnStaff, Batch, Generating
<1>3. s \in Staff /\ req[h].todo \subseteq Staff
  BY <1>1, <1>2 DEF LocalOK
<1>4. comp[s].base \in Nat /\ FreshRows(s) \in Seq(RowType)
  BY <1>3, CompOK, FreshRowsOK DEF PayInv
<1>5. /\ "genInsert" \in OnStaff \cap Batch \cap Generating \cap PC
      /\ "genInsert" \notin Paying \cup Adjusting \cup Rendering \cup {"compensate", "deleteSource", "totalsRead"}
  BY DEF OnStaff, Batch, Generating, PC, Paying, Adjusting, Rendering
<1>6. /\ q \in LocalType /\ q.pc = "genInsert" /\ q.staff = s /\ q.todo = req[h].todo
      /\ q.all = req[h].all
  BY <1>1, <1>4, <1>5 DEF LocalType
<1>7. Goto(h, q) /\ UNCHANGED <<tables, output, edits>>
  BY DEF GenRows
<1> HIDE DEF q
<1>8. LocalOK(q)
  BY <1>3, <1>5, <1>6 DEF LocalOK
<1>9. TablesOK /\ Kept /\ UNCHANGED payslip
  BY <1>7, AllUnchanged
<1>10. AllCovered => CoversNext(q)
  BY <1>1, <1>2, <1>6, <1>9 DEF AllCovered, Covers, CoversNext, Kept
<1>11. QED BY <1>5, <1>6, <1>7, <1>8, <1>9, <1>10, HandlersStep DEF MayAdjust

LEMMA GenInsertStep ==
  ASSUME PayInv, NEW h \in Request, GenInsert(h)
  PROVE  Step
<1> DEFINE s == req[h].staff
           row == [status |-> "draft", base |-> req[h].base, net |-> Net(req[h].base, req[h].rows)]
           q == [req[h] EXCEPT !.pc = "linesInsert", !.base = 0]
<1>1. req[h].pc = "genInsert" /\ LocalOK(req[h]) /\ req[h] \in LocalType
  BY DEF PayInv, TypeInv, LocalOK, GenInsert, At
<1>2. "genInsert" \in OnStaff \cap Batch \cap Generating
  BY DEF OnStaff, Batch, Generating
<1>3. s \in Staff /\ req[h].todo \subseteq Staff
  BY <1>1, <1>2 DEF LocalOK
<1>4. UNCHANGED <<catalog, comp, run, lines, jobs, payslip, edits>>
  BY DEF GenInsert, output
<1>5. CASE Exists(s)
  <2>1. UNCHANGED records /\ Goto(h, Idle)
    BY <1>5 DEF GenInsert
  <2>2. UNCHANGED <<tables, output, edits>>
    BY <1>4, <2>1 DEF tables, output
  <2>3. QED BY <2>1, <2>2, AllUnchanged, IdleStep
<1>6. CASE ~ Exists(s)
  <2>1. records' = [records EXCEPT ![s] = row] /\ Goto(h, q)
    BY <1>6 DEF GenInsert
  <2>2. row \in RecordRow /\ row.status = "draft"
    <3>1. req[h].base \in Nat /\ req[h].rows \in Seq(RowType)
      BY <1>1 DEF LocalType
    <3>2. Net(req[h].base, req[h].rows) \in Int
      BY <3>1, NetOK
    <3>3. QED BY <3>1, <3>2 DEF RecordRow
  <2> HIDE DEF row
  <2>3. records' \in [Staff -> RecordRow] /\ records'[s].status = "draft"
        /\ \A t \in Staff \ {s} : records'[t] = records[t]
    BY <1>3, <2>1, <2>2 DEF PayInv, TypeInv
  <2>4. TablesOK
    BY <1>4, <2>3 DEF PayInv, TypeInv, TablesOK
  <2>5. ~ Settled(s)
    BY <1>6 DEF Settled, Exists
  <2>6. Kept
    BY <1>4, <2>3, <2>5 DEF Kept, Exists, Settled, Frozen
  <2>7. /\ "linesInsert" \in OnStaff \cap Batch \cap Generating \cap PC
        /\ "linesInsert" \notin Paying \cup Rendering \cup {"compensate", "deleteSource", "totalsRead"}
    BY DEF OnStaff, Batch, Generating, PC, Paying, Adjusting, Rendering
  <2>8. /\ q \in LocalType /\ q.pc = "linesInsert" /\ q.staff = s /\ q.todo = req[h].todo
        /\ q.all = req[h].all
    BY <1>1, <2>7 DEF LocalType
  <2> HIDE DEF q
  <2>9. LocalOK(q)
    BY <1>3, <2>7, <2>8 DEF LocalOK
  <2>10. MayAdjust(q)
    BY <1>3, <2>3, <2>5, <2>8 DEF MayAdjust
  <2>11. AllCovered => CoversNext(q)
    <3>1. SUFFICES ASSUME AllCovered, q.all, NEW t \in Staff
                   PROVE  t \in q.todo \/ records'[t].status # "absent"
      BY DEF CoversNext
    <3>2. t \in req[h].todo \/ Exists(t) \/ t = s
      BY <1>1, <1>2, <2>8, <3>1 DEF AllCovered, Covers
    <3>3. QED BY <2>3, <2>6, <2>8, <3>2 DEF Kept
  <2>12. QED BY <1>4, <2>1, <2>4, <2>6, <2>7, <2>8, <2>9, <2>10, <2>11, HandlersStep
<1>7. QED BY <1>5, <1>6

-----------------------------------------------------------------------------
(* The statements that adjust a record.                                    *)

(* One record, which is not settled, gets other amounts.                   *)
LEMMA RecordWritten ==
  ASSUME PayInv, NEW s \in Staff, ~ Settled(s), Exists(s), NEW base \in Nat, NEW net \in Int,
         records' = [records EXCEPT ![s].base = base, ![s].net = net],
         UNCHANGED <<catalog, comp, run, lines, output, edits>>
  PROVE  TablesOK /\ Kept /\ UNCHANGED payslip
<1>1. records[s] \in RecordRow
  BY DEF PayInv, TypeInv
<1>2. records' \in [Staff -> RecordRow] /\ records'[s].status = records[s].status
      /\ \A t \in Staff \ {s} : records'[t] = records[t]
  BY <1>1 DEF PayInv, TypeInv, RecordRow
<1>3. Kept
  BY <1>2 DEF Kept, Exists, Settled, Frozen
<1>4. QED BY <1>2, <1>3 DEF PayInv, TypeInv, TablesOK, output

(* Its lines are replaced.                                                 *)
LEMMA LinesWritten ==
  ASSUME PayInv, NEW s \in Staff, ~ Settled(s), NEW rows \in Seq(RowType),
         lines' = [lines EXCEPT ![s] = rows],
         UNCHANGED <<catalog, comp, run, records, output, edits>>
  PROVE  TablesOK /\ Kept /\ UNCHANGED payslip
<1>1. lines' \in [Staff -> Seq(RowType)] /\ \A t \in Staff \ {s} : lines'[t] = lines[t]
  BY DEF PayInv, TypeInv
<1>2. Kept
  BY <1>1 DEF Kept, Exists, Settled, Frozen
<1>3. QED BY <1>1, <1>2 DEF PayInv, TypeInv, TablesOK, output

(* Where an adjusting handler goes next.                                   *)
LEMMA AdjustPcs ==
  /\ Adjusting \subseteq PC
  /\ {"linesDelete", "recordUpdate", "linesInsert"} \subseteq Generating
  /\ {"patchSelect", "patchLine", "recalcLines", "recalcWrite"} \cap Generating = {}
  /\ {"syncRows", "linesDelete", "recordUpdate", "linesInsert", "patchSelect", "patchLine",
       "recalcLines", "recalcWrite"} \subseteq Adjusting
  BY DEF Adjusting, PC, Generating


LEMMA SyncRowsStep ==
  ASSUME PayInv, NEW h \in Request, SyncRows(h)
  PROVE  Step
<1> DEFINE s == req[h].staff
           q == [req[h] EXCEPT !.pc = "linesDelete", !.base = comp[s].base, !.rows = SyncedRows(s)]
<1>1. req[h].pc = "syncRows" /\ req[h].pc \in Adjusting
  BY AdjustPcs DEF SyncRows, At
<1>2. s \in Staff /\ req[h] \in LocalType
  BY <1>1, Adjuster
<1>3. comp[s].base \in Nat /\ SyncedRows(s) \in Seq(RowType)
  BY <1>2, CompOK, SyncedRowsOK DEF PayInv
<1>4. /\ q \in LocalType /\ q.pc = "linesDelete" /\ q.staff = s /\ q.todo = req[h].todo
      /\ q.all = req[h].all
  BY <1>2, <1>3, AdjustPcs DEF LocalType
<1>5. Goto(h, q) /\ UNCHANGED <<tables, output, edits>>
  BY DEF SyncRows
<1> HIDE DEF q
<1>6. QED BY <1>1, <1>4, <1>5, AllUnchanged, AdjustStep, AdjustPcs

LEMMA LinesDeleteStep ==
  ASSUME PayInv, NEW h \in Request, LinesDelete(h)
  PROVE  Step
<1> DEFINE q == [req[h] EXCEPT !.pc = "recordUpdate"]
<1>1. req[h].pc = "linesDelete" /\ req[h].pc \in Adjusting
  BY AdjustPcs DEF LinesDelete, At
<1>2. req[h].staff \in Staff /\ req[h] \in LocalType /\ ~ Settled(req[h].staff)
  BY <1>1, Adjuster
<1>3. /\ q \in LocalType /\ q.pc = "recordUpdate" /\ q.staff = req[h].staff
      /\ q.todo = req[h].todo /\ q.all = req[h].all
  BY <1>2, AdjustPcs DEF LocalType
<1>4. Goto(h, q) /\ lines' = [lines EXCEPT ![req[h].staff] = <<>>]
      /\ UNCHANGED <<catalog, comp, run, records, output, edits>>
  BY DEF LinesDelete
<1>5. <<>> \in Seq(RowType)
  OBVIOUS
<1> HIDE DEF q
<1>6. TablesOK /\ Kept /\ UNCHANGED payslip
  BY <1>2, <1>4, <1>5, LinesWritten
<1>7. QED BY <1>1, <1>3, <1>4, <1>6, AdjustStep, AdjustPcs

LEMMA RecordUpdateStep ==
  ASSUME PayInv, NEW h \in Request, RecordUpdate(h)
  PROVE  Step
<1> DEFINE q == [req[h] EXCEPT !.pc = "linesInsert", !.base = 0]
           net == Net(req[h].base, req[h].rows)
<1>1. req[h].pc = "recordUpdate" /\ req[h].pc \in Adjusting
  BY AdjustPcs DEF RecordUpdate, At
<1>2. req[h].staff \in Staff /\ req[h] \in LocalType
      /\ ~ Settled(req[h].staff) /\ Exists(req[h].staff)
  BY <1>1, Adjuster
<1>3. /\ q \in LocalType /\ q.pc = "linesInsert" /\ q.staff = req[h].staff
      /\ q.todo = req[h].todo /\ q.all = req[h].all
  BY <1>2, AdjustPcs DEF LocalType
<1>4. req[h].base \in Nat /\ net \in Int
  <2>1. req[h].base \in Nat /\ req[h].rows \in Seq(RowType)
    BY <1>2 DEF LocalType
  <2>2. QED BY <2>1, NetOK
<1>5. /\ Goto(h, q)
      /\ records' = [records EXCEPT ![req[h].staff].base = req[h].base, ![req[h].staff].net = net]
      /\ UNCHANGED <<catalog, comp, run, lines, output, edits>>
  BY DEF RecordUpdate
<1> HIDE DEF q, net
<1>6. TablesOK /\ Kept /\ UNCHANGED payslip
  BY <1>2, <1>4, <1>5, RecordWritten
<1>7. QED BY <1>1, <1>3, <1>5, <1>6, AdjustStep, AdjustPcs

LEMMA LinesInsertStep ==
  ASSUME PayInv, NEW h \in Request, LinesInsert(h)
  PROVE  Step
<1> DEFINE rows == lines[req[h].staff] \o req[h].rows
<1>1. req[h].pc \in Adjusting
  BY AdjustPcs DEF LinesInsert, At
<1>2. req[h].staff \in Staff /\ req[h] \in LocalType /\ ~ Settled(req[h].staff)
  BY <1>1, Adjuster
<1>3. rows \in Seq(RowType)
  <2>1. lines[req[h].staff] \in Seq(RowType) /\ req[h].rows \in Seq(RowType)
    BY <1>2 DEF PayInv, TypeInv, LocalType
  <2>2. QED BY <2>1
<1>4. /\ Goto(h, AfterRecord(h)) /\ lines' = [lines EXCEPT ![req[h].staff] = rows]
      /\ UNCHANGED <<catalog, comp, run, records, output, edits>>
  BY DEF LinesInsert
<1> HIDE DEF rows
<1>5. TablesOK /\ Kept /\ UNCHANGED payslip
  BY <1>2, <1>3, <1>4, LinesWritten
<1>6. QED BY <1>1, <1>4, <1>5, DoneStep

LEMMA PatchReadStep ==
  ASSUME PayInv, NEW h \in Request, NEW s \in Staff, PatchRead(h, s)
  PROVE  Step
<1>1. PICK pc \in {"patchSelect", "patchLine"} : Goto(h, [Idle EXCEPT !.pc = pc, !.staff = s])
  BY DEF PatchRead
<1> DEFINE q == [Idle EXCEPT !.pc = pc, !.staff = s]
<1>2. pc \in Adjusting /\ pc \in PC /\ pc \in OnStaff /\ pc \notin Generating
      /\ pc \notin Paying \cup Rendering \cup {"compensate", "deleteSource", "totalsRead"}
  BY AdjustPcs DEF OnStaff, Paying, Rendering
<1>3. q \in LocalType /\ q.pc = pc /\ q.staff = s /\ q.todo = {} /\ q.all = FALSE
  BY <1>2, IdleType DEF LocalType
<1>4. Goto(h, q) /\ UNCHANGED <<tables, output, edits>> /\ records[s].status = "draft"
  BY <1>1 DEF PatchRead
<1> HIDE DEF q
<1>5. LocalOK(q)
  BY <1>2, <1>3 DEF LocalOK
<1>6. TablesOK /\ Kept /\ UNCHANGED payslip
  BY <1>4, AllUnchanged
<1>7. MayAdjust(q)
  BY <1>3, <1>4, <1>6 DEF MayAdjust, Settled, Kept, Exists
<1>8. CoversNext(q)
  BY <1>3 DEF CoversNext
<1>9. QED BY <1>2, <1>3, <1>4, <1>5, <1>6, <1>7, <1>8, HandlersStep

LEMMA PatchSelectStep ==
  ASSUME PayInv, NEW h \in Request, PatchSelect(h)
  PROVE  Step
<1> DEFINE base == comp[req[h].staff].base
           Worth(x, amount) == IF x \in Package THEN Price(x, base) ELSE amount[x]
<1>1. PICK on \in SUBSET Active : \E amount \in [on -> Amount] :
        Goto(h, [req[h] EXCEPT !.pc = "linesDelete", !.base = base,
                    !.rows = SetToSeq({Row(x, Worth(x, amount)) : x \in on})])
  BY DEF PatchSelect
<1>2. PICK amount \in [on -> Amount] :
        Goto(h, [req[h] EXCEPT !.pc = "linesDelete", !.base = base,
                    !.rows = SetToSeq({Row(x, Worth(x, amount)) : x \in on})])
  BY <1>1
<1> DEFINE rows == SetToSeq({Row(x, Worth(x, amount)) : x \in on})
           q == [req[h] EXCEPT !.pc = "linesDelete", !.base = base, !.rows = rows]
<1>3. req[h].pc = "patchSelect" /\ req[h].pc \in Adjusting
  BY AdjustPcs DEF PatchSelect, At
<1>4. req[h].staff \in Staff /\ req[h] \in LocalType /\ (req[h].all => req[h].pc \in Generating)
  BY <1>3, Adjuster
<1>5. base \in Nat /\ base \in Base
  BY <1>4, CompOK DEF PayInv
<1>6. rows \in Seq(RowType)
  <2> DEFINE f == [x \in on |-> Row(x, Worth(x, amount))]
  <2>1. on \in SUBSET Source
    BY DEF Active
  <2>2. \A x \in on : Worth(x, amount) \in Nat
    <3>1. \A x \in on : Price(x, base) \in Nat
      BY <1>5, <2>1, PriceOK DEF PayInv
    <3>2. \A x \in on : amount[x] \in Nat
      BY Facts
    <3>3. QED BY <3>1, <3>2
  <2> HIDE DEF Worth
  <2>3. f \in [on -> RowType]
    BY <2>1, <2>2, RowOK
  <2>4. {f[x] : x \in on} = {Row(x, Worth(x, amount)) : x \in on}
    OBVIOUS
  <2> HIDE DEF f
  <2>5. QED BY <2>1, <2>3, <2>4, RowsListed
<1>7. Goto(h, q) /\ UNCHANGED <<tables, output, edits>>
  BY <1>2 DEF PatchSelect
<1> HIDE DEF rows, base
<1>8. /\ q \in LocalType /\ q.pc = "linesDelete" /\ q.staff = req[h].staff
      /\ q.todo = req[h].todo /\ q.all = req[h].all
  BY <1>4, <1>5, <1>6, AdjustPcs DEF LocalType
<1> HIDE DEF q
<1>9. QED BY <1>3, <1>7, <1>8, AllUnchanged, AdjustStep, AdjustPcs

LEMMA PatchLineStep ==
  ASSUME PayInv, NEW h \in Request, PatchLine(h)
  PROVE  Step
<1> DEFINE s == req[h].staff
<1>1. req[h].pc = "patchLine" /\ req[h].pc \in Adjusting
  BY AdjustPcs DEF PatchLine, At
<1>2. s \in Staff /\ req[h] \in LocalType /\ ~ Settled(s)
      /\ (req[h].all => req[h].pc \in Generating)
  BY <1>1, Adjuster
<1>3. lines[s] \in Seq(RowType)
  BY <1>2 DEF PayInv, TypeInv
<1>4. \E rows \in Seq(RowType) : lines' = [lines EXCEPT ![s] = rows]
  <2>1. ASSUME NEW k \in DOMAIN lines[s], NEW a \in Amount,
               lines' = [lines EXCEPT ![s][k] = Row(lines[s][k].src, a)]
        PROVE  \E rows \in Seq(RowType) : lines' = [lines EXCEPT ![s] = rows]
    <3> DEFINE rows == [lines[s] EXCEPT ![k] = Row(lines[s][k].src, a)]
    <3>1. lines[s][k] \in RowType /\ a \in Nat
      BY <1>3, Facts
    <3>2. lines[s][k].src \in Source \cup Manual
      BY <3>1 DEF RowType
    <3>3. Row(lines[s][k].src, a) \in RowType
      BY <3>1, <3>2, RowOK
    <3>4. rows \in Seq(RowType)
      BY <1>3, <3>3
    <3>5. lines' = [lines EXCEPT ![s] = rows]
      BY <2>1
    <3>6. QED BY <3>4, <3>5
  <2>2. ASSUME NEW m \in Manual, NEW a \in Amount,
               lines' = [lines EXCEPT ![s] = Append(@, Row(m, a))]
        PROVE  \E rows \in Seq(RowType) : lines' = [lines EXCEPT ![s] = rows]
    <3>1. Row(m, a) \in RowType
      BY Facts, RowOK
    <3>2. Append(lines[s], Row(m, a)) \in Seq(RowType)
      BY <1>3, <3>1
    <3>3. QED BY <2>2, <3>2
  <2>3. QED BY <2>1, <2>2 DEF PatchLine
<1>5. Goto(h, req[h]) /\ UNCHANGED <<catalog, comp, run, records, output, edits>>
  BY DEF PatchLine
<1>6. TablesOK /\ Kept /\ UNCHANGED payslip
  BY <1>2, <1>4, <1>5, LinesWritten
<1>7. QED BY <1>1, <1>2, <1>5, <1>6, AdjustStep

LEMMA RecalcRecordStep ==
  ASSUME PayInv, NEW h \in Request, RecalcRecord(h)
  PROVE  Step
<1> DEFINE base == records[req[h].staff].base
           q == [req[h] EXCEPT !.pc = "recalcLines", !.base = base]
<1>1. req[h].pc = "patchLine" /\ req[h].pc \in Adjusting
  BY AdjustPcs DEF RecalcRecord, At
<1>2. req[h].staff \in Staff /\ req[h] \in LocalType /\ (req[h].all => req[h].pc \in Generating)
  BY <1>1, Adjuster
<1>3. base \in Nat
  BY <1>2 DEF PayInv, TypeInv, RecordRow
<1>4. Goto(h, q) /\ UNCHANGED <<tables, output, edits>>
  BY DEF RecalcRecord
<1> HIDE DEF base
<1>5. /\ q \in LocalType /\ q.pc = "recalcLines" /\ q.staff = req[h].staff
      /\ q.todo = req[h].todo /\ q.all = req[h].all
  BY <1>2, <1>3, AdjustPcs DEF LocalType
<1> HIDE DEF q
<1>6. ~ req[h].all
  BY <1>1, <1>2, AdjustPcs
<1>7. QED BY <1>1, <1>4, <1>5, <1>6, AllUnchanged, AdjustStep, AdjustPcs

LEMMA RecalcLinesStep ==
  ASSUME PayInv, NEW h \in Request, RecalcLines(h)
  PROVE  Step
<1> DEFINE net == Net(req[h].base, lines[req[h].staff])
           q == [req[h] EXCEPT !.pc = "recalcWrite", !.base = 0, !.net = net]
<1>1. req[h].pc = "recalcLines" /\ req[h].pc \in Adjusting
  BY AdjustPcs DEF RecalcLines, At
<1>2. req[h].staff \in Staff /\ req[h] \in LocalType /\ (req[h].all => req[h].pc \in Generating)
  BY <1>1, Adjuster
<1>3. net \in Int
  <2>1. req[h].base \in Nat /\ lines[req[h].staff] \in Seq(RowType)
    BY <1>2 DEF PayInv, TypeInv, LocalType
  <2>2. QED BY <2>1, NetOK
<1>4. Goto(h, q) /\ UNCHANGED <<tables, output, edits>>
  BY DEF RecalcLines
<1> HIDE DEF net
<1>5. /\ q \in LocalType /\ q.pc = "recalcWrite" /\ q.staff = req[h].staff
      /\ q.todo = req[h].todo /\ q.all = req[h].all
  BY <1>2, <1>3, AdjustPcs DEF LocalType
<1> HIDE DEF q
<1>6. ~ req[h].all
  BY <1>1, <1>2, AdjustPcs
<1>7. QED BY <1>1, <1>4, <1>5, <1>6, AllUnchanged, AdjustStep, AdjustPcs

LEMMA RecalcWriteStep ==
  ASSUME PayInv, NEW h \in Request, RecalcWrite(h)
  PROVE  Step
<1> DEFINE s == req[h].staff
<1>1. req[h].pc \in Adjusting
  BY AdjustPcs DEF RecalcWrite, At
<1>2. s \in Staff /\ req[h] \in LocalType /\ ~ Settled(s) /\ Exists(s)
  BY <1>1, Adjuster
<1>3. req[h].net \in Int /\ records[s] \in RecordRow /\ records[s].base \in Nat
  BY <1>2 DEF PayInv, TypeInv, LocalType, RecordRow
<1>4. /\ Goto(h, AfterRecord(h)) /\ records' = [records EXCEPT ![s].net = req[h].net]
      /\ UNCHANGED <<catalog, comp, run, lines, output, edits>>
  BY DEF RecalcWrite
<1>5. records' = [records EXCEPT ![s].base = records[s].base, ![s].net = req[h].net]
  BY <1>2, <1>3, <1>4 DEF PayInv, TypeInv, RecordRow
<1>6. TablesOK /\ Kept /\ UNCHANGED payslip
  BY <1>2, <1>3, <1>4, <1>5, RecordWritten
<1>7. QED BY <1>1, <1>4, <1>6, DoneStep


-----------------------------------------------------------------------------
(* Totals, approval and payment.                                           *)

LEMMA TotalsReadStep ==
  ASSUME PayInv, NEW h \in Request, TotalsRead(h)
  PROVE  Step
<1> DEFINE q == [req[h] EXCEPT !.pc = "totalsWrite", !.net = TotalNet, !.paid = TotalPaid]
<1>1. req[h].pc = "totalsRead" /\ LocalOK(req[h]) /\ req[h] \in LocalType
  BY DEF PayInv, TypeInv, LocalOK, TotalsRead, At
<1>2. /\ "totalsWrite" \in PC \cap Paying /\ "totalsRead" \in Paying
      /\ "totalsWrite" \notin OnStaff \cup Batch \cup Generating \cup Rendering \cup Adjusting
      /\ "totalsWrite" \notin {"compensate", "deleteSource", "totalsRead"}
  BY DEF PC, Paying, OnStaff, Batch, Generating, Rendering, Adjusting
<1>3. TotalNet \in Int /\ TotalPaid \in Int
  BY TotalsOK DEF PayInv
<1>4. /\ q \in LocalType /\ q.pc = "totalsWrite" /\ q.staff = req[h].staff
      /\ q.pays = req[h].pays
  BY <1>1, <1>2, <1>3 DEF LocalType
<1>5. Goto(h, q) /\ UNCHANGED <<tables, output, edits>>
  BY DEF TotalsRead
<1> HIDE DEF q
<1>6. LocalOK(q)
  BY <1>1, <1>2, <1>4 DEF LocalOK
<1>7. QED BY <1>2, <1>4, <1>5, <1>6, AllUnchanged, EndsStep

LEMMA TotalsWriteStep ==
  ASSUME PayInv, NEW h \in Request, TotalsWrite(h)
  PROVE  Step
<1> DEFINE q == [Idle EXCEPT !.pc = "enqueue", !.staff = req[h].staff]
<1>1. req[h].pc = "totalsWrite" /\ LocalOK(req[h]) /\ req[h] \in LocalType
  BY DEF PayInv, TypeInv, LocalOK, TotalsWrite, At
<1>2. run' = [run EXCEPT !.net = req[h].net, !.paid = req[h].paid]
      /\ UNCHANGED <<catalog, comp, records, lines, jobs, payslip, edits>>
  BY DEF TotalsWrite, output
<1>3. req[h].net \in Int /\ req[h].paid \in Int
  BY <1>1 DEF LocalType
<1>4. run' \in RunRow
  BY <1>2, <1>3 DEF PayInv, TypeInv, RunRow
<1>5. TablesOK /\ Kept /\ UNCHANGED payslip
  BY <1>2, <1>4, RecordsUnchanged DEF PayInv, TypeInv, TablesOK
<1>6. CASE req[h].pays
  <2>1. req[h].staff \in Staff
    BY <1>1, <1>6 DEF LocalOK, Paying
  <2>2. /\ "enqueue" \in PC
        /\ "enqueue" \notin Paying \cup Batch \cup Generating \cup Rendering \cup Adjusting
        /\ "enqueue" \notin {"compensate", "deleteSource", "totalsRead"}
    BY DEF PC, Paying, Batch, Generating, Rendering, Adjusting
  <2>3. q \in LocalType /\ q.pc = "enqueue" /\ q.staff = req[h].staff /\ q.all = FALSE
    BY <2>1, <2>2, IdleType DEF LocalType
  <2>4. Goto(h, q)
    BY <1>6 DEF TotalsWrite
  <2> HIDE DEF q
  <2>5. LocalOK(q)
    BY <2>1, <2>2, <2>3 DEF LocalOK
  <2>6. QED BY <1>5, <2>2, <2>3, <2>4, <2>5, EndsStep
<1>7. CASE ~ req[h].pays
  BY <1>5, <1>7, IdleStep DEF TotalsWrite
<1>8. QED BY <1>6, <1>7

(* A record that is there gets another status; its amounts stay.           *)
LEMMA StatusWritten ==
  ASSUME PayInv, NEW s \in Staff, NEW st \in {"pending", "paid"},
         records' = [records EXCEPT ![s].status = st],
         UNCHANGED <<catalog, comp, run, lines, output, edits>>
  PROVE  TablesOK /\ Kept /\ UNCHANGED payslip
<1>1. records[s] \in RecordRow
  BY DEF PayInv, TypeInv
<1>2. records' \in [Staff -> RecordRow]
  BY <1>1 DEF PayInv, TypeInv, RecordRow
<1>3. /\ records'[s].status = st /\ records'[s].base = records[s].base
      /\ records'[s].net = records[s].net
      /\ \A t \in Staff \ {s} : records'[t] = records[t]
  BY <1>1 DEF PayInv, TypeInv, RecordRow
<1>4. Kept
  BY <1>3 DEF Kept, Exists, Settled, Frozen
<1>5. QED BY <1>2, <1>4 DEF PayInv, TypeInv, TablesOK, output

LEMMA ApproveStep ==
  ASSUME PayInv, NEW s \in Staff, Approve(s)
  PROVE  Step
<1>1. records' = [records EXCEPT ![s].status = "pending"]
      /\ UNCHANGED <<catalog, comp, run, lines, output, edits>> /\ UNCHANGED req
  BY DEF Approve
<1>2. TablesOK /\ Kept /\ UNCHANGED payslip
  BY <1>1, StatusWritten
<1>3. QED BY <1>1, <1>2, TablesStep

LEMMA MarkPaidStep ==
  ASSUME PayInv, NEW h \in Request, NEW s \in Staff, MarkPaid(h, s)
  PROVE  Step
<1> DEFINE q == [Idle EXCEPT !.pc = "totalsRead", !.staff = s, !.pays = TRUE]
<1>1. records' = [records EXCEPT ![s].status = "paid"] /\ Goto(h, q)
      /\ UNCHANGED <<catalog, comp, run, lines, output, edits>>
  BY DEF MarkPaid
<1>2. TablesOK /\ Kept /\ UNCHANGED payslip
  BY <1>1, StatusWritten
<1>3. /\ "totalsRead" \in PC /\ "totalsRead" \notin OnStaff \cup Batch \cup Rendering \cup Adjusting
      /\ "totalsRead" \notin {"compensate", "deleteSource"}
  BY DEF PC, OnStaff, Batch, Rendering, Adjusting
<1>4. q \in LocalType /\ q.pc = "totalsRead" /\ q.staff = s /\ q.all = FALSE
      /\ q.todo = {}
  BY <1>3, IdleType DEF LocalType
<1> HIDE DEF q
<1>5. LocalOK(q)
  BY <1>3, <1>4 DEF LocalOK
<1>6. QED BY <1>1, <1>2, <1>3, <1>4, <1>5, EndsStep

LEMMA JobQueued ==
  ASSUME PayInv, NEW s \in Staff, jobs' = jobs \cup {s}, UNCHANGED <<tables, payslip, edits>>
  PROVE  TablesOK /\ Kept /\ UNCHANGED payslip
  BY RecordsUnchanged DEF PayInv, TypeInv, TablesOK, tables

LEMMA EnqueueStep ==
  ASSUME PayInv, NEW h \in Request, Enqueue(h)
  PROVE  Step
<1>1. req[h].pc = "enqueue" /\ "enqueue" \in OnStaff
  BY DEF Enqueue, At, OnStaff
<1>2. req[h].staff \in Staff
  BY <1>1 DEF PayInv, TypeInv, LocalOK
<1>3. jobs' = jobs \cup {req[h].staff} /\ UNCHANGED <<tables, payslip, edits>> /\ Goto(h, Idle)
  BY DEF Enqueue
<1>4. QED BY <1>2, <1>3, JobQueued, IdleStep

LEMMA EnqueuePayslipStep ==
  ASSUME PayInv, NEW s \in Staff, EnqueuePayslip(s)
  PROVE  Step
<1>1. jobs' = jobs \cup {s} /\ UNCHANGED <<tables, payslip, edits>> /\ UNCHANGED req
  BY DEF EnqueuePayslip
<1>2. QED BY <1>1, JobQueued, TablesStep

LEMMA FailStep ==
  ASSUME PayInv, NEW h \in Request, Fail(h)
  PROVE  Step
  BY AllUnchanged, IdleStep DEF Fail

LEMMA StutterStep ==
  ASSUME PayInv, UNCHANGED vars
  PROVE  Step
<1>1. UNCHANGED <<tables, output, edits>> /\ UNCHANGED req
  BY DEF vars
<1>2. QED BY <1>1, AllUnchanged, TablesStep

-----------------------------------------------------------------------------
(* The rendering of payslips.                                              *)

Rendered == PayInv' /\ Safe /\ (AllCovered => AllCovered')

LEMMA RenderReadStep ==
  ASSUME PayInv, NEW h \in Request, NEW s \in Staff, RenderRead(h, s),
         UNCHANGED <<tables, output, edits>>
  PROVE  Rendered
<1>1. PICK b \in BOOLEAN : b = Settled(s)
  BY DEF Settled
<1> DEFINE q == [Idle EXCEPT !.pc = "renderLines", !.staff = s, !.base = records[s].base,
                              !.net = records[s].net, !.settled = b]
<1>2. records[s].base \in Nat /\ records[s].net \in Int
  BY DEF PayInv, TypeInv, RecordRow
<1>3. LocalOK(q)
  BY <1>2, RenderOK
<1>4. /\ q.pc = "renderLines" /\ q.staff = s /\ q.base = records[s].base
      /\ q.net = records[s].net /\ q.settled = b /\ q.all = FALSE
  BY IdleType DEF LocalType
<1>5. Goto(h, q)
  BY <1>1 DEF RenderRead
<1> HIDE DEF q
<1>6. req'[h] = q /\ \A g \in Request \ {h} : req'[g] = req[g]
  BY <1>5 DEF Goto, PayInv, TypeInv
<1>7. MayAdjust(q) /\ CoversNext(q)
  BY <1>4 DEF MayAdjust, CoversNext, Adjusting
<1>8. Safe /\ (AllCovered => AllCovered') /\ UNCHANGED payslip
  BY <1>3, <1>5, <1>7, AllUnchanged, HandlerStep
<1>9. ReadsOK(h)'
  <2>1. SUFFICES ASSUME req'[h].settled PROVE ReadsOK(h)'
    BY DEF ReadsOK
  <2>2. Settled(s)' /\ Frozen(s)
    BY <1>1, <1>4, <1>6, <1>8, <2>1, SettledStays
  <2>3. req'[h].staff = s
    BY <1>4, <1>6
  <2>4. QED BY <1>4, <1>6, <2>2, <2>3 DEF ReadsOK, Frozen
<1>10. \A g \in Request : ReadsOK(g)'
  BY <1>6, <1>8, <1>9, ReadStays
<1>11. QED BY <1>8, <1>10, SlipsStay DEF Rendered, Safe, PayInv

LEMMA RenderLinesStep ==
  ASSUME PayInv, NEW h \in Request, RenderLines(h)
  PROVE  Rendered
<1>1. req[h].pc = "renderLines" /\ LocalOK(req[h]) /\ req[h] \in LocalType
  BY DEF PayInv, TypeInv, LocalOK, RenderLines, At
<1>2. PICK s \in Staff : s = req[h].staff
  BY <1>1 DEF LocalOK, OnStaff
<1> DEFINE q == [req[h] EXCEPT !.pc = "renderPut", !.rows = lines[s]]
<1>3. /\ "renderPut" \in PC /\ "renderPut" \in Rendering /\ "renderLines" \in Rendering
      /\ "renderPut" \notin Paying \cup Batch \cup Generating \cup Adjusting
      /\ {"renderPut", "renderLines"} \cap {"compensate", "deleteSource", "totalsWrite"} = {}
      /\ "renderLines" \notin Generating
  BY DEF PC, Paying, Batch, Generating, Rendering, Adjusting
<1>4. lines[s] \in Seq(RowType)
  BY DEF PayInv, TypeInv
<1>5. /\ q \in LocalType /\ q.pc = "renderPut" /\ q.staff = s /\ q.base = req[h].base
      /\ q.net = req[h].net /\ q.settled = req[h].settled /\ q.all = req[h].all
      /\ q.rows = lines[s]
  BY <1>1, <1>2, <1>3, <1>4 DEF LocalType
<1>6. Goto(h, q) /\ UNCHANGED <<tables, output, edits>>
  BY <1>2 DEF RenderLines
<1> HIDE DEF q
<1>7. LocalOK(q) /\ ~ q.all
  BY <1>1, <1>2, <1>3, <1>5 DEF LocalOK
<1>8. req'[h] = q /\ \A g \in Request \ {h} : req'[g] = req[g]
  BY <1>6 DEF Goto, PayInv, TypeInv
<1>9. MayAdjust(q) /\ CoversNext(q)
  BY <1>3, <1>5, <1>7 DEF MayAdjust, CoversNext
<1>10. Safe /\ (AllCovered => AllCovered') /\ UNCHANGED payslip
  BY <1>6, <1>7, <1>9, AllUnchanged, HandlerStep
<1>11. ReadsOK(h)'
  <2>1. SUFFICES ASSUME req'[h].settled PROVE ReadsOK(h)'
    BY DEF ReadsOK
  <2>2. /\ Settled(s) /\ req[h].base = records[s].base /\ req[h].net = records[s].net
    BY <1>1, <1>2, <1>3, <1>5, <1>8, <2>1 DEF PayInv, ReadsOK
  <2>3. Settled(s)' /\ Frozen(s)
    BY <1>10, <2>2, SettledStays
  <2>4. req'[h].staff = s
    BY <1>5, <1>8
  <2>5. QED BY <1>5, <1>8, <2>2, <2>3, <2>4 DEF ReadsOK, Frozen
<1>12. \A g \in Request : ReadsOK(g)'
  BY <1>8, <1>10, <1>11, ReadStays
<1>13. QED BY <1>10, <1>12, SlipsStay DEF Rendered, Safe, PayInv

LEMMA RenderPutStep ==
  ASSUME PayInv, NEW h \in Request, RenderPut(h)
  PROVE  Rendered
<1>1. req[h].pc = "renderPut" /\ LocalOK(req[h]) /\ req[h] \in LocalType /\ req[h].pc \in Rendering
  BY DEF PayInv, TypeInv, LocalOK, RenderPut, At, Rendering
<1>2. PICK s \in Staff : s = req[h].staff
  BY <1>1 DEF LocalOK, OnStaff
<1> DEFINE slip == [rendered |-> TRUE, base |-> req[h].base, net |-> req[h].net,
                    rows |-> req[h].rows, settled |-> req[h].settled]
<1>3. /\ payslip' = [payslip EXCEPT ![s] = slip] /\ jobs' \in {jobs, jobs \ {s}}
      /\ UNCHANGED <<tables, edits>> /\ Goto(h, Idle)
  BY <1>2 DEF RenderPut
<1>4. slip \in SlipRow
  BY <1>1 DEF LocalType, SlipRow
<1>5. /\ slip.base = req[h].base /\ slip.net = req[h].net /\ slip.rows = req[h].rows
      /\ slip.settled = req[h].settled
  OBVIOUS
<1> HIDE DEF slip
<1>6. payslip' \in [Staff -> SlipRow] /\ payslip'[s] = slip
      /\ \A t \in Staff \ {s} : payslip'[t] = payslip[t]
  BY <1>3, <1>4 DEF PayInv, TypeInv
<1>7. TablesOK /\ Kept
  BY <1>3, <1>6, RecordsUnchanged DEF PayInv, TypeInv, TablesOK, tables
<1>8. LocalOK(Idle) /\ MayAdjust(Idle) /\ CoversNext(Idle) /\ Idle.pc \notin Rendering
  BY IdleOK, IdleType DEF MayAdjust, CoversNext, Adjusting, Rendering
<1>9. Safe /\ (AllCovered => AllCovered')
  BY <1>3, <1>7, <1>8, HandlerStep
<1>10. req'[h] = Idle /\ \A g \in Request \ {h} : req'[g] = req[g]
  BY <1>3 DEF Goto, PayInv, TypeInv
<1>11. ASSUME NEW g \in Request PROVE ReadsOK(g)'
  <2>1. CASE g = h
    BY <1>8, <1>10, <2>1 DEF ReadsOK
  <2>2. QED BY <1>9, <1>10, <2>1, ReadStays
<1>12. ASSUME NEW t \in Staff, payslip'[t].settled
       PROVE  /\ Settled(t) /\ payslip'[t].base = records[t].base
              /\ payslip'[t].net = records[t].net /\ payslip'[t].rows = lines[t]
  <2>1. CASE t = s
    <3>1. req[h].settled
      BY <1>5, <1>6, <1>12, <2>1
    <3>2. ReadsOK(h)
      BY DEF PayInv
    <3>3. QED BY <1>1, <1>2, <1>5, <1>6, <2>1, <3>1, <3>2 DEF ReadsOK
  <2>2. CASE t # s
    BY <1>6, <1>12, <2>2 DEF PayInv, SlipsOK
  <2>3. QED BY <2>1, <2>2
<1>13. SlipsOK'
  <2>1. ASSUME NEW t \in Staff, payslip'[t].settled PROVE Settled(t)' /\ Frozen(t)
    BY <1>9, <1>12, <2>1, SettledStays
  <2>2. QED BY <1>12, <2>1 DEF SlipsOK, Frozen
<1>14. QED BY <1>9, <1>11, <1>13 DEF Rendered, Safe, PayInv

-----------------------------------------------------------------------------
(* Every step.                                                             *)

LEMMA StepRendered ==
  ASSUME PayInv, Step
  PROVE  Rendered
  BY UnrenderedInv DEF Step, Rendered

LEMMA NextRendered ==
  ASSUME PayInv, [Next]_vars
  PROVE  Rendered
<1>1. CASE CreateRun
  BY <1>1, CreateRunStep, StepRendered
<1>2. CASE EditPay
  BY <1>2, EditPayStep, StepRendered
<1>3. ASSUME NEW s \in Staff, Approve(s) \/ EnqueuePayslip(s)
      PROVE  Rendered
  BY <1>3, ApproveStep, EnqueuePayslipStep, StepRendered
<1>4. ASSUME NEW h \in Request, StartRequest(h)
      PROVE  Rendered
  <2>1. CASE Generate(h)
    BY <2>1, GenerateStep, StepRendered
  <2>2. ASSUME NEW x \in Source, DeleteSourceRead(h, x) PROVE Rendered
    BY <2>2, DeleteSourceReadStep, StepRendered
  <2>3. ASSUME NEW s \in Staff, CompensateClear(h, s) \/ PatchRead(h, s) \/ MarkPaid(h, s)
        PROVE  Rendered
    BY <2>3, CompensateClearStep, PatchReadStep, MarkPaidStep, StepRendered
  <2>4. ASSUME NEW s \in Staff, JobStart(h, s) \/ Download(h, s) PROVE Rendered
    BY <2>4, RenderReadStep DEF JobStart, Download
  <2>5. QED BY <1>4, <2>1, <2>2, <2>3, <2>4 DEF StartRequest
<1>5. ASSUME NEW h \in Request, Refuse(h)
      PROVE  Rendered
  BY <1>5, StutterStep, StepRendered DEF Refuse
<1>6. ASSUME NEW h \in Request, Resume(h)
      PROVE  Rendered
  <2>1. CASE DeleteSourceWrite(h) \/ CompensateFill(h)
    BY <2>1, DeleteSourceWriteStep, CompensateFillStep, StepRendered
  <2>2. CASE GenRecord(h) \/ GenRows(h) \/ GenInsert(h) \/ SyncRows(h)
    BY <2>2, GenRecordStep, GenRowsStep, GenInsertStep, SyncRowsStep, StepRendered
  <2>3. CASE LinesDelete(h) \/ RecordUpdate(h) \/ LinesInsert(h)
    BY <2>3, LinesDeleteStep, RecordUpdateStep, LinesInsertStep, StepRendered
  <2>4. CASE PatchSelect(h) \/ PatchLine(h)
    BY <2>4, PatchSelectStep, PatchLineStep, StepRendered
  <2>5. CASE RecalcRecord(h) \/ RecalcLines(h) \/ RecalcWrite(h)
    BY <2>5, RecalcRecordStep, RecalcLinesStep, RecalcWriteStep, StepRendered
  <2>6. CASE TotalsRead(h) \/ TotalsWrite(h) \/ Enqueue(h)
    BY <2>6, TotalsReadStep, TotalsWriteStep, EnqueueStep, StepRendered
  <2>7. CASE RenderLines(h) \/ RenderPut(h)
    BY <2>7, RenderLinesStep, RenderPutStep
  <2>8. QED BY <1>6, <2>1, <2>2, <2>3, <2>4, <2>5, <2>6, <2>7 DEF Resume
<1>7. ASSUME NEW h \in Request, Fail(h)
      PROVE  Rendered
  BY <1>7, FailStep, StepRendered
<1>8. CASE UNCHANGED vars
  BY <1>8, StutterStep, StepRendered
<1>9. QED BY <1>1, <1>2, <1>3, <1>4, <1>5, <1>6, <1>7, <1>8 DEF Next, Serve

LEMMA InitPayInv == Init => PayInv /\ AllCovered
<1> SUFFICES ASSUME Init PROVE PayInv /\ AllCovered
  OBVIOUS
<1>1. <<>> \in Seq(RowType)
  OBVIOUS
<1>2. comp \in [Staff -> CompRow] /\ catalog \in [Source -> CatalogRow]
  <2>1. Active \subseteq Source
    BY DEF Active
  <2>2. comp \in [Staff -> [base : Base, items : {Active}]]
    BY DEF Init
  <2> HIDE DEF Active
  <2>3. [base : Base, items : {Active}] \subseteq CompRow
    BY <2>1 DEF CompRow
  <2>4. comp \in [Staff -> CompRow]
    BY <2>2, <2>3
  <2>5. [status : {"absent", "active"}, amount : Amount] \subseteq CatalogRow
    BY DEF CatalogRow
  <2>6. QED BY <2>4, <2>5 DEF Init
<1>3. \A h \in Request : req[h] = Idle /\ LocalOK(req[h]) /\ req[h] \in LocalType
  BY IdleOK, IdleType DEF Init
<1>4. req \in [Request -> LocalType]
  BY <1>3 DEF Init
<1>5. NoPayslip \in SlipRow /\ NoPayslip.settled = FALSE
  BY <1>1 DEF NoPayslip, SlipRow
<1>6. payslip \in [Staff -> SlipRow] /\ \A s \in Staff : payslip[s].settled = FALSE
  BY <1>5 DEF Init
<1>7. run \in RunRow /\ records \in [Staff -> RecordRow] /\ lines \in [Staff -> Seq(RowType)]
      /\ jobs \subseteq Staff /\ edits \in Nat
  BY <1>1 DEF Init, RunRow, RecordRow
<1>8. TypeInv
  BY <1>2, <1>3, <1>4, <1>6, <1>7 DEF TypeInv
<1>9. \A h \in Request : req[h].pc = "idle" /\ ~ req[h].all
  BY <1>3, IdleType
<1>10. QED BY <1>6, <1>8, <1>9 DEF PayInv, AdjustedExists, ReadsOK, SlipsOK, AllCovered,
                                   Covers, Adjusting, Rendering

LEMMA Invariant == Spec => [](PayInv /\ AllCovered)
<1>1. PayInv /\ AllCovered /\ [Next]_vars => (PayInv /\ AllCovered)'
  BY NextRendered DEF Rendered
<1>2. QED BY <1>1, InitPayInv, PTL DEF Spec

(* TypeOK: what the columns of payroll's tables hold, and the locals every *)
(* handler needs for its next statement.                                   *)
THEOREM TypeCorrect == Spec => []TypeOK
<1>1. PayInv => TypeOK
  BY TypeInvImpliesTypeOK DEF PayInv
<1>2. QED BY <1>1, Invariant, PTL

(* PayslipIsFaithful: a payslip begun when its record was settled says     *)
(* what the record says (ensurePayslip and the worker's handler).          *)
THEOREM PayslipsAreFaithful == Spec => []PayslipIsFaithful
<1>1. PayInv => PayslipIsFaithful
  BY DEF PayInv, SlipsOK, PayslipIsFaithful
<1>2. QED BY <1>1, Invariant, PTL

(* GenerationCovers: a generation that comes to the totals leaves a record *)
(* for everyone (generatePayrollRun), whoever else is at work and whatever *)
(* fails.                                                                  *)
THEOREM GenerationsCover == Spec => []GenerationCovers
<1>1. AllCovered /\ PayInv => GenerationCovers
  <2>1. SUFFICES ASSUME AllCovered, PayInv, NEW h \in Request, At(h, "totalsRead"), req[h].all,
                        NEW s \in Staff
                 PROVE  Exists(s)
    BY DEF GenerationCovers
  <2>2. "totalsRead" \in Generating
    BY DEF Generating
  <2>3. s \in req[h].todo \/ Exists(s)
    BY <2>1, <2>2 DEF AllCovered, Covers, At
  <2>4. req[h].todo = {}
    BY <2>1 DEF PayInv, TypeInv, LocalOK, At
  <2>5. QED BY <2>3, <2>4
<1>2. QED BY <1>1, Invariant, PTL

(* SettledIsFinal: a record that has left the draft state, and that nobody *)
(* adjusts, stays as it is (patchPayrollRecord, the generation).           *)
THEOREM SettledStaysFinal == Spec => SettledIsFinal
<1> DEFINE Final == \A s \in Staff : Settled(s) =>
             /\ Settled(s)'
             /\ lines'[s] = lines[s]
             /\ records'[s].base = records[s].base /\ records'[s].net = records[s].net
<1>1. PayInv /\ [Next]_vars => [Final]_vars
  <2>1. SUFFICES ASSUME PayInv, [Next]_vars PROVE Final
    OBVIOUS
  <2>2. Safe
    BY <2>1, NextRendered DEF Rendered
  <2>3. QED BY <2>2, SettledStays DEF Frozen
<1>2. QED BY <1>1, Invariant, PTL DEF Spec, SettledIsFinal


-----------------------------------------------------------------------------
(* Payroll implements PayRecord.                                           *)

(* A step that concerns one record: its status, what it says, and who      *)
(* adjusts it.                                                             *)
Same(t) ==
  /\ records'[t] = records[t] /\ lines'[t] = lines[t]
  /\ Settled(t)' <=> Settled(t)

OnlyRecord(s) ==
  /\ \A t \in Staff \ {s} : Same(t)
  /\ ~ Exists(s) => \/ records'[s].status = "draft"
                    \/ records'[s] = records[s] /\ lines'[s] = lines[s]

(* Handlers other than h stay where they are.                              *)
Others(h) == \A g \in Request \ {h} : req'[g] = req[g]

LEMMA GotoOthers ==
  ASSUME PayInv, NEW h \in Request, NEW q, Goto(h, q)
  PROVE  Others(h) /\ req'[h] = q
  BY DEF PayInv, TypeInv, Goto, Others

(* Handler h goes on with record s, takes it up, or leaves it.             *)
LEMMA HandlerConcernsOne ==
  ASSUME NEW h \in Request, Others(h), NEW s \in Staff,
         req[h].pc \in Adjusting => req[h].staff = s,
         req'[h].pc \in Adjusting => req'[h].staff = s,
         \A t \in Staff \ {s} : records'[t] = records[t] /\ lines'[t] = lines[t],
         ~ Exists(s) => \/ records'[s].status = "draft"
                        \/ records'[s] = records[s] /\ lines'[s] = lines[s]
  PROVE  OnlyRecord(s)
<1>1. ASSUME NEW t \in Staff \ {s}, NEW g \in Request PROVE Adjusts(g, t)' <=> Adjusts(g, t)
  <2>1. CASE g = h
    BY <2>1 DEF Adjusts
  <2>2. CASE g # h
    BY <2>2 DEF Adjusts, Others
  <2>3. QED BY <2>1, <2>2
<1>2. \A t \in Staff \ {s} : Settled(t)' <=> Settled(t)
  BY <1>1 DEF Settled
<1>3. QED BY <1>2 DEF OnlyRecord, Same

(* One that writes neither records nor lines.                              *)
LEMMA ReaderConcernsOne ==
  ASSUME PayInv, Safe, NEW h \in Request, Others(h), UNCHANGED <<records, lines>>,
         req[h].pc \in Adjusting /\ req'[h].pc \in Adjusting => req'[h].staff = req[h].staff
  PROVE  \E s \in Staff : OnlyRecord(s)
<1>1. req[h].pc \in Adjusting => req[h].staff \in Staff
  BY Adjuster
<1>2. req'[h].pc \in Adjusting => req'[h].staff \in Staff
  BY DEF Safe, TypeInv, LocalOK, OnStaff
<1>3. PICK s \in Staff : /\ req[h].pc \in Adjusting => req[h].staff = s
                         /\ req'[h].pc \in Adjusting => req'[h].staff = s
  BY <1>1, <1>2, StaffAssumption
<1>4. QED BY <1>3, HandlerConcernsOne

LEMMA NobodyConcernsOne ==
  ASSUME UNCHANGED <<records, lines, req>>
  PROVE  \E s \in Staff : OnlyRecord(s)
<1>1. \A t \in Staff : Same(t)
  BY DEF Same, Settled, Adjusts
<1>2. PICK s \in Staff : TRUE
  BY StaffAssumption
<1>3. QED BY <1>1, <1>2 DEF OnlyRecord, Same

(* The statements of a handler that adjusts a record.                      *)
LEMMA AdjusterConcernsOne ==
  ASSUME PayInv, Safe, NEW h \in Request, req[h].pc \in Adjusting, Others(h),
         req'[h].pc \in Adjusting => req'[h].staff = req[h].staff,
         \A t \in Staff \ {req[h].staff} : records'[t] = records[t] /\ lines'[t] = lines[t]
  PROVE  \E s \in Staff : OnlyRecord(s)
<1>1. req[h].staff \in Staff /\ Exists(req[h].staff)
  BY Adjuster
<1>2. QED BY <1>1, HandlerConcernsOne

LEMMA AdjustingStatement ==
  ASSUME PayInv, Safe, NEW h \in Request,
         \/ SyncRows(h) \/ LinesDelete(h) \/ RecordUpdate(h) \/ LinesInsert(h) \/ PatchSelect(h)
         \/ PatchLine(h) \/ RecalcRecord(h) \/ RecalcLines(h) \/ RecalcWrite(h)
  PROVE  \E s \in Staff : OnlyRecord(s)
<1>1. req[h].pc \in Adjusting
  BY AdjustPcs DEF SyncRows, LinesDelete, RecordUpdate, LinesInsert, PatchSelect, PatchLine,
                   RecalcRecord, RecalcLines, RecalcWrite, At
<1>2. req[h] \in LocalType /\ req[h].staff \in Staff
  BY <1>1, Adjuster
<1>3. req[h].pc \in Batch
  BY <1>1 DEF Batch
<1>4. CASE LinesInsert(h) \/ RecalcWrite(h)
  <2>1. Goto(h, AfterRecord(h))
    BY <1>4 DEF LinesInsert, RecalcWrite
  <2>2. Others(h) /\ req'[h] = AfterRecord(h)
    BY <2>1, GotoOthers
  <2>3. req'[h].pc \notin Adjusting
    BY <1>3, <2>2, AfterRecordOK DEF PayInv, Adjusting
  <2>4. \A t \in Staff \ {req[h].staff} : records'[t] = records[t] /\ lines'[t] = lines[t]
    BY <1>2, <1>4 DEF LinesInsert, RecalcWrite, PayInv, TypeInv
  <2>5. QED BY <1>1, <2>2, <2>3, <2>4, AdjusterConcernsOne
<1>5. CASE LinesDelete(h) \/ RecordUpdate(h) \/ PatchLine(h)
  <2>1. Others(h) /\ req'[h].staff = req[h].staff
    <3>1. CASE LinesDelete(h)
      <4>1. Others(h) /\ req'[h] = [req[h] EXCEPT !.pc = "recordUpdate"]
        BY <3>1, GotoOthers DEF LinesDelete
      <4>2. QED BY <1>2, <4>1 DEF LocalType
    <3>2. CASE RecordUpdate(h)
      <4>1. Others(h) /\ req'[h] = [req[h] EXCEPT !.pc = "linesInsert", !.base = 0]
        BY <3>2, GotoOthers DEF RecordUpdate
      <4>2. QED BY <1>2, <4>1 DEF LocalType
    <3>3. CASE PatchLine(h)
      BY <3>3, GotoOthers DEF PatchLine
    <3>4. QED BY <1>5, <3>1, <3>2, <3>3
  <2>2. \A t \in Staff \ {req[h].staff} : records'[t] = records[t] /\ lines'[t] = lines[t]
    BY <1>2, <1>5 DEF LinesDelete, RecordUpdate, PatchLine, PayInv, TypeInv
  <2>3. QED BY <1>1, <2>1, <2>2, AdjusterConcernsOne
<1>6. CASE SyncRows(h) \/ PatchSelect(h) \/ RecalcRecord(h) \/ RecalcLines(h)
  <2>1. UNCHANGED <<records, lines>>
    BY <1>6 DEF SyncRows, PatchSelect, RecalcRecord, RecalcLines, tables
  <2>2. \/ \E pc, base, rows : Goto(h, [req[h] EXCEPT !.pc = pc, !.base = base, !.rows = rows])
        \/ \E pc, base : Goto(h, [req[h] EXCEPT !.pc = pc, !.base = base])
        \/ \E pc, base, net : Goto(h, [req[h] EXCEPT !.pc = pc, !.base = base, !.net = net])
    BY <1>6 DEF SyncRows, PatchSelect, RecalcRecord, RecalcLines
  <2>3. \E q : Goto(h, q) /\ q.staff = req[h].staff
    <3>1. ASSUME NEW pc, NEW base, NEW rows
          PROVE  [req[h] EXCEPT !.pc = pc, !.base = base, !.rows = rows].staff = req[h].staff
      BY <1>2 DEF LocalType
    <3>2. ASSUME NEW pc, NEW base
          PROVE  [req[h] EXCEPT !.pc = pc, !.base = base].staff = req[h].staff
      BY <1>2 DEF LocalType
    <3>3. ASSUME NEW pc, NEW base, NEW net
          PROVE  [req[h] EXCEPT !.pc = pc, !.base = base, !.net = net].staff = req[h].staff
      BY <1>2 DEF LocalType
    <3>4. CASE \E pc, base, rows : Goto(h, [req[h] EXCEPT !.pc = pc, !.base = base, !.rows = rows])
      <4>1. PICK pc, base, rows : Goto(h, [req[h] EXCEPT !.pc = pc, !.base = base, !.rows = rows])
        BY <3>4
      <4> DEFINE q == [req[h] EXCEPT !.pc = pc, !.base = base, !.rows = rows]
      <4>2. Goto(h, q) /\ q.staff = req[h].staff
        BY <4>1, <3>1
      <4> HIDE DEF q
      <4>3. QED BY <4>2
    <3>5. CASE \E pc, base : Goto(h, [req[h] EXCEPT !.pc = pc, !.base = base])
      <4>1. PICK pc, base : Goto(h, [req[h] EXCEPT !.pc = pc, !.base = base])
        BY <3>5
      <4> DEFINE q == [req[h] EXCEPT !.pc = pc, !.base = base]
      <4>2. Goto(h, q) /\ q.staff = req[h].staff
        BY <4>1, <3>2
      <4> HIDE DEF q
      <4>3. QED BY <4>2
    <3>6. CASE \E pc, base, net : Goto(h, [req[h] EXCEPT !.pc = pc, !.base = base, !.net = net])
      <4>1. PICK pc, base, net : Goto(h, [req[h] EXCEPT !.pc = pc, !.base = base, !.net = net])
        BY <3>6
      <4> DEFINE q == [req[h] EXCEPT !.pc = pc, !.base = base, !.net = net]
      <4>2. Goto(h, q) /\ q.staff = req[h].staff
        BY <4>1, <3>3
      <4> HIDE DEF q
      <4>3. QED BY <4>2
    <3>7. QED BY <2>2, <3>4, <3>5, <3>6
  <2>4. Others(h) /\ req'[h].staff = req[h].staff
    BY <2>3, GotoOthers
  <2>5. QED BY <2>1, <2>4, ReaderConcernsOne
<1>7. QED BY <1>4, <1>5, <1>6

(* Statements of handlers that adjust nothing before them.                 *)
LEMMA OtherStatement ==
  ASSUME PayInv, Safe, NEW h \in Request, req[h].pc \notin Adjusting, NEW q, Goto(h, q),
         UNCHANGED <<records, lines>>
  PROVE  \E s \in Staff : OnlyRecord(s)
  BY GotoOthers, ReaderConcernsOne

LEMMA GenInsertConcernsOne ==
  ASSUME PayInv, Safe, NEW h \in Request, GenInsert(h)
  PROVE  \E s \in Staff : OnlyRecord(s)
<1>1. req[h].pc = "genInsert" /\ req[h].pc \notin Adjusting /\ req[h] \in LocalType
  BY DEF GenInsert, At, Adjusting, PayInv, TypeInv
<1>2. req[h].staff \in Staff
  BY <1>1 DEF PayInv, TypeInv, LocalOK, OnStaff
<1>3. CASE Exists(req[h].staff)
  <2>1. UNCHANGED <<records, lines>> /\ Goto(h, Idle)
    BY <1>3 DEF GenInsert
  <2>2. QED BY <1>1, <2>1, OtherStatement
<1>4. CASE ~ Exists(req[h].staff)
  <2>1. Goto(h, [req[h] EXCEPT !.pc = "linesInsert", !.base = 0])
    BY <1>4 DEF GenInsert
  <2>2. Others(h) /\ req'[h] = [req[h] EXCEPT !.pc = "linesInsert", !.base = 0]
    BY <2>1, GotoOthers
  <2>3. req'[h].staff = req[h].staff
    BY <1>1, <2>2 DEF LocalType
  <2>4. /\ \A t \in Staff \ {req[h].staff} : records'[t] = records[t] /\ lines'[t] = lines[t]
        /\ records'[req[h].staff].status = "draft"
    BY <1>2, <1>4 DEF GenInsert, PayInv, TypeInv
  <2>5. QED BY <1>1, <1>2, <2>2, <2>3, <2>4, HandlerConcernsOne
<1>5. QED BY <1>3, <1>4

(* A record that is there is approved or paid.                             *)
LEMMA StatusConcernsOne ==
  ASSUME PayInv, NEW s \in Staff, Exists(s), NEW st, UNCHANGED lines,
         records' = [records EXCEPT ![s].status = st],
         \A g \in Request : req'[g].pc \in Adjusting => req'[g] = req[g],
         \A g \in Request : req[g].pc \in Adjusting => req'[g] = req[g]
  PROVE  \E t \in Staff : OnlyRecord(t)
<1>1. \A t \in Staff \ {s} : records'[t] = records[t] /\ lines'[t] = lines[t]
  BY DEF PayInv, TypeInv
<1>2. \A t \in Staff, g \in Request : Adjusts(g, t)' <=> Adjusts(g, t)
  BY DEF Adjusts
<1>3. \A t \in Staff \ {s} : Same(t)
  BY <1>1, <1>2 DEF Same, Settled
<1>4. QED BY <1>3 DEF OnlyRecord


(* Every step but the last of a rendering concerns one record at most.     *)
LEMMA NextConcernsOne ==
  ASSUME PayInv, [Next]_vars, \A h \in Request : ~ RenderPut(h)
  PROVE  UNCHANGED payslip /\ \E s \in Staff : OnlyRecord(s)
<1>1. Safe
  BY NextRendered DEF Rendered
<1>2. ASSUME UNCHANGED <<records, lines, req, payslip>>
      PROVE  UNCHANGED payslip /\ \E s \in Staff : OnlyRecord(s)
  BY <1>2, NobodyConcernsOne
<1>3. CASE CreateRun \/ UNCHANGED vars
  BY <1>2, <1>3 DEF CreateRun, vars, tables, output
<1>4. CASE EditPay
  BY <1>2, <1>4 DEF EditPay, CreateSource, UpdateSource, ArchiveSource, RestoreSource,
                    EnrollStaff, UnenrollStaff, EditCatalog, output
<1>5. ASSUME NEW s \in Staff, EnqueuePayslip(s)
      PROVE  UNCHANGED payslip /\ \E t \in Staff : OnlyRecord(t)
  BY <1>2, <1>5 DEF EnqueuePayslip, tables
<1>6. ASSUME NEW s \in Staff, Approve(s)
      PROVE  UNCHANGED payslip /\ \E t \in Staff : OnlyRecord(t)
  BY <1>6, StatusConcernsOne DEF Approve, output
<1>7. ASSUME NEW h \in Request, Refuse(h)
      PROVE  UNCHANGED payslip /\ \E s \in Staff : OnlyRecord(s)
  BY <1>2, <1>7 DEF Refuse, vars, tables, output
<1>8. ASSUME NEW h \in Request, StartRequest(h)
      PROVE  UNCHANGED payslip /\ \E s \in Staff : OnlyRecord(s)
  <2>1. req[h].pc = "idle" /\ req[h].pc \notin Adjusting
    BY <1>8 DEF StartRequest, Generate, DeleteSourceRead, CompensateClear, PatchRead, MarkPaid,
                JobStart, Download, At, Adjusting
  <2>2. ASSUME NEW s \in Staff, MarkPaid(h, s)
        PROVE  UNCHANGED payslip /\ \E t \in Staff : OnlyRecord(t)
    <3> DEFINE q == [Idle EXCEPT !.pc = "totalsRead", !.staff = s, !.pays = TRUE]
    <3>1. Goto(h, q) /\ q.pc = "totalsRead"
      BY <2>2, IdleType DEF MarkPaid, LocalType
    <3> HIDE DEF q
    <3>2. Others(h) /\ req'[h].pc \notin Adjusting
      BY <3>1, GotoOthers DEF Adjusting
    <3>3. /\ \A g \in Request : req'[g].pc \in Adjusting => req'[g] = req[g]
          /\ \A g \in Request : req[g].pc \in Adjusting => req'[g] = req[g]
      BY <2>1, <3>2 DEF Others
    <3>4. QED BY <2>2, <3>3, StatusConcernsOne DEF MarkPaid, output
  <2>3. CASE ~ \E s \in Staff : MarkPaid(h, s)
    <3>1. UNCHANGED <<records, lines, payslip>> /\ \E q : Goto(h, q)
      BY <1>8, <2>3 DEF StartRequest, Generate, DeleteSourceRead, CompensateClear, PatchRead,
                        JobStart, Download, RenderRead, tables, output
    <3>2. PICK q : Goto(h, q)
      BY <3>1
    <3>3. QED BY <1>1, <2>1, <3>1, <3>2, OtherStatement
  <2>4. QED BY <2>2, <2>3
<1>9. ASSUME NEW h \in Request, Resume(h)
      PROVE  UNCHANGED payslip /\ \E s \in Staff : OnlyRecord(s)
  <2>1. CASE \/ SyncRows(h) \/ LinesDelete(h) \/ RecordUpdate(h) \/ LinesInsert(h) \/ PatchSelect(h)
             \/ PatchLine(h) \/ RecalcRecord(h) \/ RecalcLines(h) \/ RecalcWrite(h)
    <3>1. UNCHANGED payslip
      BY <2>1 DEF SyncRows, LinesDelete, RecordUpdate, LinesInsert, PatchSelect, PatchLine,
                  RecalcRecord, RecalcLines, RecalcWrite, output
    <3>2. QED BY <1>1, <2>1, <3>1, AdjustingStatement
  <2>2. CASE GenInsert(h)
    BY <1>1, <2>2, GenInsertConcernsOne DEF GenInsert, output
  <2>3. CASE \/ DeleteSourceWrite(h) \/ CompensateFill(h) \/ GenRecord(h) \/ GenRows(h)
             \/ TotalsRead(h) \/ TotalsWrite(h) \/ Enqueue(h) \/ RenderLines(h)
    <3>1. req[h].pc \notin Adjusting
      BY <2>3 DEF DeleteSourceWrite, CompensateFill, GenRecord, GenRows, TotalsRead,
                  TotalsWrite, Enqueue, RenderLines, At, Adjusting
    <3>2. UNCHANGED <<records, lines, payslip>>
      BY <2>3 DEF DeleteSourceWrite, CompensateFill, GenRecord, GenRows, TotalsRead,
                  TotalsWrite, Enqueue, RenderLines, tables, output
    <3>3. \E q : Goto(h, q)
      <4>1. CASE GenRecord(h)
        BY <4>1 DEF GenRecord
      <4>2. CASE ~ GenRecord(h)
        BY <2>3, <4>2 DEF DeleteSourceWrite, CompensateFill, GenRows, TotalsRead, TotalsWrite,
                          Enqueue, RenderLines
      <4>3. QED BY <4>1, <4>2
    <3>4. PICK q : Goto(h, q)
      BY <3>3
    <3>5. QED BY <1>1, <3>1, <3>2, <3>4, OtherStatement
  <2>4. QED BY <1>9, <2>1, <2>2, <2>3 DEF Resume
<1>10. ASSUME NEW h \in Request, Fail(h)
       PROVE  UNCHANGED payslip /\ \E s \in Staff : OnlyRecord(s)
  <2>1. Goto(h, Idle) /\ UNCHANGED <<records, lines, payslip>>
    BY <1>10 DEF Fail, tables, output
  <2>2. Others(h) /\ req'[h] = Idle
    BY <2>1, GotoOthers
  <2>3. req'[h].pc \notin Adjusting
    BY <2>2, IdleType DEF Adjusting
  <2>4. QED BY <1>1, <2>1, <2>2, <2>3, ReaderConcernsOne
<1>11. QED BY <1>3, <1>4, <1>5, <1>6, <1>7, <1>8, <1>9, <1>10 DEF Next, Serve

(* What PayRecord's variables stand for.                                   *)
Contents == [base : Nat, net : Int, rows : Seq(RowType)]
NoContent == Says(0, 0, <<>>)
Content(s) == Says(records[s].base, records[s].net, lines[s])
Slip(s) == IF payslip[s].settled THEN Says(payslip[s].base, payslip[s].net, payslip[s].rows)
           ELSE NoContent

LEMMA Mapping ==
  /\ phases = [s \in Staff |-> Phase(s)]
  /\ contents = [s \in Staff |-> Content(s)]
  /\ slips = [s \in Staff |-> Slip(s)]
  BY DEF phases, contents, slips, Content, Slip, NoContent

LEMMA MappingNext ==
  /\ phases' = [s \in Staff |-> Phase(s)']
  /\ contents' = [s \in Staff |-> Says(records'[s].base, records'[s].net, lines'[s])]
  /\ slips' = [s \in Staff |-> IF payslip'[s].settled
                               THEN Says(payslip'[s].base, payslip'[s].net, payslip'[s].rows)
                               ELSE NoContent]
  BY DEF phases, contents, slips, NoContent

LEMMA ContentOK ==
  ASSUME TypeInv', NEW s \in Staff
  PROVE  contents'[s] \in Contents
<1>1. records'[s] \in RecordRow /\ lines'[s] \in Seq(RowType)
  BY DEF TypeInv
<1>2. QED BY <1>1, MappingNext DEF Contents, Says, RecordRow

(* A step that concerns one record and renders nothing.                    *)
LEMMA OneRecordStep ==
  ASSUME PayInv, Safe, UNCHANGED payslip, NEW s \in Staff, OnlyRecord(s)
  PROVE  [Record!Next]_(Record!vars)
<1>1. UNCHANGED slips
  BY Mapping, MappingNext DEF Slip
<1>2. \A t \in Staff \ {s} : phases'[t] = phases[t] /\ contents'[t] = contents[t]
  <2>1. ASSUME NEW t \in Staff \ {s} PROVE Phase(t)' = Phase(t)
    BY DEF OnlyRecord, Same, Phase, Exists
  <2>2. QED BY <2>1, Mapping, MappingNext DEF Content, OnlyRecord, Same
<1>3. /\ phases' = [phases EXCEPT ![s] = phases'[s]]
      /\ contents' = [contents EXCEPT ![s] = contents'[s]]
  <2>1. /\ DOMAIN phases = Staff /\ DOMAIN phases' = Staff
        /\ DOMAIN contents = Staff /\ DOMAIN contents' = Staff
        /\ phases = [t \in Staff |-> phases[t]] /\ phases' = [t \in Staff |-> phases'[t]]
        /\ contents = [t \in Staff |-> contents[t]] /\ contents' = [t \in Staff |-> contents'[t]]
    BY Mapping, MappingNext
  <2>2. QED BY <1>2, <2>1
<1>4. contents'[s] \in Contents
  BY ContentOK DEF Safe
<1>5. Record!Write(s)
  BY <1>3, <1>4 DEF Record!Write, Contents
<1>6. /\ phases[s] = Phase(s) /\ phases'[s] = Phase(s)'
      /\ contents[s] = Content(s)
      /\ contents'[s] = Says(records'[s].base, records'[s].net, lines'[s])
  BY Mapping, MappingNext
<1>7. CASE Settled(s)
  <2>1. Settled(s)' /\ Frozen(s)
    BY <1>7, SettledStays
  <2>2. Exists(s) /\ Exists(s)'
    BY <1>7, <2>1 DEF Settled, Exists
  <2>3. phases'[s] = phases[s]
    BY <1>6, <1>7, <2>1, <2>2 DEF Phase
  <2>4. contents'[s] = contents[s]
    BY <1>6, <2>1 DEF Frozen, Content
  <2>5. UNCHANGED <<phases, contents, slips>>
    BY <1>1, <1>3, <2>3, <2>4, Mapping
  <2>6. QED BY <2>5 DEF Record!vars
<1>8. CASE ~ Exists(s)
  <2>1. phases[s] = "absent"
    <3>1. Phase(s) = "absent"
      BY <1>8 DEF Phase, Exists, Settled
    <3>2. QED BY <1>6, <3>1
  <2>2. CASE records'[s].status = "draft"
    <3>1. Phase(s)' = "open"
      BY <2>2 DEF Phase, Exists, Settled
    <3>2. Record!Draft(s)
      BY <1>1, <1>3, <1>5, <1>6, <2>1, <3>1 DEF Record!Draft
    <3>3. QED BY <3>2 DEF Record!Next
  <2>3. CASE records'[s] = records[s] /\ lines'[s] = lines[s]
    <3>1. phases'[s] = phases[s] /\ contents'[s] = contents[s]
      BY <1>6, <1>8, <2>3 DEF Phase, Exists, Content
    <3>2. UNCHANGED <<phases, contents, slips>>
      BY <1>1, <1>3, <3>1, Mapping
    <3>3. QED BY <3>2 DEF Record!vars
  <2>4. QED BY <1>8, <2>2, <2>3 DEF OnlyRecord
<1>9. CASE Exists(s) /\ ~ Settled(s)
  <2>1. phases[s] = "open"
    BY <1>6, <1>9 DEF Phase
  <2>2. Exists(s)'
    BY <1>9 DEF Safe, Kept, Exists
  <2>3. CASE Settled(s)'
    <3>1. phases'[s] = "settled"
      BY <1>6, <2>2, <2>3 DEF Phase
    <3>2. Record!Settle(s)
      BY <1>1, <1>3, <1>5, <2>1, <3>1 DEF Record!Settle
    <3>3. QED BY <3>2 DEF Record!Next
  <2>4. CASE ~ Settled(s)'
    <3>1. phases'[s] = "open"
      BY <1>6, <2>2, <2>4 DEF Phase
    <3>2. UNCHANGED phases
      BY <1>3, <2>1, <3>1, Mapping
    <3>3. Record!Adjust(s)
      BY <1>1, <1>5, <2>1, <3>2 DEF Record!Adjust
    <3>4. QED BY <3>3 DEF Record!Next
  <2>5. QED BY <2>3, <2>4
<1>10. QED BY <1>7, <1>8, <1>9

(* The object of a payslip is stored.                                      *)
LEMMA PutStep ==
  ASSUME PayInv, NEW h \in Request, RenderPut(h)
  PROVE  [Record!Next]_(Record!vars)
<1>1. req[h].pc = "renderPut" /\ LocalOK(req[h]) /\ req[h].pc \in Rendering /\ req[h].pc \notin Adjusting
  BY DEF PayInv, TypeInv, RenderPut, At, Rendering, Adjusting
<1>2. PICK s \in Staff : s = req[h].staff
  BY <1>1 DEF LocalOK, OnStaff
<1>3. /\ payslip' = [payslip EXCEPT ![s] = [rendered |-> TRUE, base |-> req[h].base,
                        net |-> req[h].net, rows |-> req[h].rows, settled |-> req[h].settled]]
      /\ UNCHANGED <<records, lines>> /\ Goto(h, Idle)
  BY <1>2 DEF RenderPut, tables
<1>4. Others(h) /\ req'[h].pc \notin Adjusting
  BY <1>3, GotoOthers, IdleType DEF Adjusting
<1>5. \A t \in Staff, g \in Request : Adjusts(g, t)' <=> Adjusts(g, t)
  BY <1>1, <1>4 DEF Adjusts, Others
<1>6. \A t \in Staff : Phase(t)' = Phase(t)
  BY <1>3, <1>5 DEF Phase, Exists, Settled
<1>7. UNCHANGED <<phases, contents>>
  BY <1>3, <1>6, Mapping, MappingNext DEF Content
<1>8. slips' = [slips EXCEPT ![s] = IF req[h].settled
                                    THEN Says(req[h].base, req[h].net, req[h].rows)
                                    ELSE NoContent]
  <2>1. payslip \in [Staff -> SlipRow]
    BY DEF PayInv, TypeInv
  <2>2. /\ payslip'[s].settled = req[h].settled /\ payslip'[s].base = req[h].base
        /\ payslip'[s].net = req[h].net /\ payslip'[s].rows = req[h].rows
        /\ \A t \in Staff \ {s} : payslip'[t] = payslip[t]
    BY <1>3, <2>1
  <2>3. QED BY <2>2, Mapping, MappingNext DEF Slip
<1>9. CASE req[h].settled
  <2>1. Settled(s) /\ req[h].base = records[s].base /\ req[h].net = records[s].net
        /\ req[h].rows = lines[s]
    BY <1>1, <1>2, <1>9 DEF PayInv, ReadsOK
  <2>2. Phase(s) = "settled"
    BY <2>1 DEF Phase, Settled, Exists
  <2>3. phases[s] = "settled" /\ contents[s] = Says(req[h].base, req[h].net, req[h].rows)
    BY <2>1, <2>2, Mapping DEF Content
  <2>4. slips' = [slips EXCEPT ![s] = contents[s]]
    BY <1>8, <1>9, <2>3
  <2>5. Record!Issue(s)
    BY <1>7, <2>3, <2>4 DEF Record!Issue
  <2>6. QED BY <2>5 DEF Record!Next
<1>10. CASE ~ req[h].settled
  <2>1. slips' = [slips EXCEPT ![s] = NoContent]
    BY <1>8, <1>10
  <2>2. Record!Withdraw(s)
    BY <1>7, <2>1 DEF Record!Withdraw, NoContent
  <2>3. QED BY <2>2 DEF Record!Next
<1>11. QED BY <1>9, <1>10

LEMMA RecordInit == Init => Record!Init
<1> SUFFICES ASSUME Init PROVE Record!Init
  OBVIOUS
<1>1. \A s \in Staff : Phase(s) = "absent" /\ Content(s) = NoContent
  <2> SUFFICES ASSUME NEW s \in Staff
               PROVE  Phase(s) = "absent" /\ Content(s) = NoContent
    OBVIOUS
  <2>1. records[s] = [status |-> "absent", base |-> 0, net |-> 0] /\ lines[s] = <<>>
    BY DEF Init
  <2>2. Phase(s) = "absent"
    BY <2>1 DEF Phase, Exists, Settled
  <2>3. Content(s) = NoContent
    BY <2>1 DEF Content, NoContent, Says
  <2>4. QED BY <2>2, <2>3
<1>2. \A s \in Staff : Slip(s) = NoContent
  BY DEF Init, Slip, NoPayslip
<1>3. QED BY <1>1, <1>2, Mapping DEF Record!Init, NoContent

(* ImplementsPayRecord: statement by statement, and whatever fails, the    *)
(* handlers of payroll keep the promise of PayRecord: only an open record  *)
(* is adjusted, a settled one is neither reopened nor changed, and its     *)
(* payslip is made of what it says.                                        *)
THEOREM Implements == Spec => ImplementsPayRecord
<1>1. PayInv /\ [Next]_vars => [Record!Next]_(Record!vars)
  <2>1. SUFFICES ASSUME PayInv, [Next]_vars PROVE [Record!Next]_(Record!vars)
    OBVIOUS
  <2>2. Safe
    BY <2>1, NextRendered DEF Rendered
  <2>3. CASE \E h \in Request : RenderPut(h)
    BY <2>1, <2>3, PutStep
  <2>4. CASE \A h \in Request : ~ RenderPut(h)
    BY <2>1, <2>2, <2>4, NextConcernsOne, OneRecordStep
  <2>5. QED BY <2>3, <2>4
<1>2. QED BY <1>1, RecordInit, Invariant, PTL DEF Spec, ImplementsPayRecord, Record!Spec


-----------------------------------------------------------------------------
(* One request at a time, each served to its end.                          *)

OneAtATime == \A g, h \in Request : g = h

(* Where a record may differ from its lines, and the run from its records. *)
Rebuilding == {"recordUpdate", "linesInsert", "patchLine", "recalcLines", "recalcWrite"}
Totalling == Batch \cup Paying

(* What the handler has read or written is what the tables say.            *)
LocalAt(q) ==
  /\ q.pc \in {"genRows", "genInsert"} => records[q.staff].status = "absent"
  /\ q.pc = "recordUpdate" => lines[q.staff] = <<>>
  /\ q.pc = "linesInsert" => /\ lines[q.staff] = <<>>
                             /\ records[q.staff].net = Net(records[q.staff].base, q.rows)
  /\ q.pc = "recalcLines" => q.base = records[q.staff].base
  /\ q.pc = "recalcWrite" => q.net = Net(records[q.staff].base, lines[q.staff])
  /\ q.pc = "totalsWrite" => q.net = TotalNet

LocalNext(q) ==
  /\ q.pc \in {"genRows", "genInsert"} => records'[q.staff].status = "absent"
  /\ q.pc = "recordUpdate" => lines'[q.staff] = <<>>
  /\ q.pc = "linesInsert" => /\ lines'[q.staff] = <<>>
                             /\ records'[q.staff].net = Net(records'[q.staff].base, q.rows)
  /\ q.pc = "recalcLines" => q.base = records'[q.staff].base
  /\ q.pc = "recalcWrite" => q.net = Net(records'[q.staff].base, lines'[q.staff])
  /\ q.pc = "totalsWrite" => q.net = TotalNet'

Summed(s) == records[s].net = Net(records[s].base, lines[s])

SerialInv ==
  /\ PayInv
  /\ \A s \in Staff : records[s].status = "absent" => lines[s] = <<>>
  /\ \A s \in Staff :
       /\ records[s].status # "absent"
       /\ \A h \in Request : ~ (req[h].staff = s /\ req[h].pc \in Rebuilding)
       => Summed(s)
  /\ \A h \in Request : LocalAt(req[h])
  /\ (\A h \in Request : req[h].pc \notin Totalling) => run.net = TotalNet

LEMMA SerialPcs ==
  /\ Rebuilding \subseteq Adjusting /\ Adjusting \subseteq Totalling
  /\ {"genRecord", "genRows", "genInsert", "totalsRead", "totalsWrite"} \subseteq Totalling \ Rebuilding
  /\ {"syncRows", "linesDelete", "patchSelect"} \cap Rebuilding = {}
  /\ {"idle", "deleteSource", "compensate", "enqueue", "renderLines", "renderPut"} \cap Totalling = {}
  BY DEF Rebuilding, Adjusting, Totalling, Batch, Paying

LEMMA OnlyHandler ==
  ASSUME OneAtATime, PayInv, NEW h \in Request, NEW q, Goto(h, q)
  PROVE  \A g \in Request : g = h /\ req'[g] = q
  BY DEF OneAtATime, PayInv, TypeInv, Goto

LEMMA SerialFacts ==
  ASSUME OneAtATime, SerialInv, NEW h \in Request
  PROVE  /\ \A s \in Staff : /\ records[s].status # "absent"
                             /\ ~ (req[h].staff = s /\ req[h].pc \in Rebuilding)
                             => Summed(s)
         /\ LocalAt(req[h])
         /\ req[h].pc \notin Totalling => run.net = TotalNet
         /\ req[h] \in LocalType
<1>1. \A g \in Request : g = h
  BY DEF OneAtATime
<1>2. QED BY <1>1 DEF SerialInv, PayInv, TypeInv

(* The amounts a total is made of.                                         *)
LEMMA SameTotal ==
  ASSUME \A s \in Staff : /\ records'[s].status = "absent" <=> records[s].status = "absent"
                          /\ records'[s].net = records[s].net
  PROVE  TotalNet' = TotalNet
<1>1. \A s \in Staff : NetOf(s)' = NetOf(s)
  BY DEF NetOf, Exists
<1>2. [s \in Staff |-> NetOf(s)]' = [s \in Staff |-> NetOf(s)]
  BY <1>1
<1>3. QED BY <1>2 DEF TotalNet

LEMMA SerialStep ==
  ASSUME OneAtATime, PayInv, PayInv', NEW h \in Request, NEW q, Goto(h, q), LocalNext(q),
         \A s \in Staff : records'[s].status = "absent" => lines'[s] = <<>>,
         \A s \in Staff : /\ records'[s].status # "absent"
                          /\ ~ (q.staff = s /\ q.pc \in Rebuilding)
                          => records'[s].net = Net(records'[s].base, lines'[s]),
         q.pc \notin Totalling => run'.net = TotalNet'
  PROVE  SerialInv'
<1>1. \A g \in Request : g = h /\ req'[g] = q
  BY OnlyHandler
<1>2. \A g \in Request : LocalAt(req[g])'
  BY <1>1 DEF LocalAt, LocalNext
<1>3. ASSUME NEW s \in Staff, records'[s].status # "absent",
             \A g \in Request : ~ (req'[g].staff = s /\ req'[g].pc \in Rebuilding)
      PROVE  Summed(s)'
  BY <1>1, <1>3 DEF Summed
<1>4. (\A g \in Request : req'[g].pc \notin Totalling) => run'.net = TotalNet'
  BY <1>1
<1>5. QED BY <1>2, <1>3, <1>4 DEF SerialInv

(* Records may get another status, and nothing else is written.            *)
LEMMA SerialTables ==
  ASSUME SerialInv, PayInv', UNCHANGED <<lines, req>>, run'.net = run.net,
         \A s \in Staff : /\ records'[s].status = "absent" <=> records[s].status = "absent"
                          /\ records'[s].base = records[s].base
                          /\ records'[s].net = records[s].net
  PROVE  SerialInv'
<1>1. TotalNet' = TotalNet
  BY SameTotal
<1>2. \A h \in Request : req[h].pc \in {"genRows", "genInsert", "recordUpdate", "linesInsert",
                                       "recalcLines", "recalcWrite"} => req[h].staff \in Staff
  BY DEF SerialInv, PayInv, TypeInv, LocalOK, OnStaff, Adjusting
<1>3. ASSUME NEW h \in Request PROVE LocalAt(req[h])'
  <2>1. LocalAt(req[h])
    BY DEF SerialInv
  <2>2. QED BY <1>1, <1>2, <2>1 DEF LocalAt
<1>4. \A s \in Staff : Summed(s)' <=> Summed(s)
  BY DEF Summed
<1>5. QED BY <1>1, <1>3, <1>4 DEF SerialInv

LEMMA SerialRead ==
  ASSUME OneAtATime, SerialInv, PayInv', NEW h \in Request, NEW q, Goto(h, q), LocalNext(q),
         UNCHANGED <<lines, records>>, run'.net = run.net,
         req[h].pc \in Rebuilding => q.pc \in Rebuilding /\ q.staff = req[h].staff,
         req[h].pc \in Totalling => q.pc \in Totalling
  PROVE  SerialInv'
<1>1. TotalNet' = TotalNet
  BY SameTotal
<1>2. /\ \A s \in Staff : /\ records[s].status # "absent"
                          /\ ~ (req[h].staff = s /\ req[h].pc \in Rebuilding)
                          => Summed(s)
      /\ req[h].pc \notin Totalling => run.net = TotalNet
  BY SerialFacts
<1>3. \A s \in Staff : records'[s].status = "absent" => lines'[s] = <<>>
  BY DEF SerialInv
<1>4. \A s \in Staff : /\ records'[s].status # "absent"
                       /\ ~ (q.staff = s /\ q.pc \in Rebuilding)
                       => records'[s].net = Net(records'[s].base, lines'[s])
  BY <1>2 DEF Summed
<1>5. PayInv
  BY DEF SerialInv
<1>6. QED BY <1>1, <1>2, <1>3, <1>4, <1>5, SerialStep

(* A handler that rebuilds nothing goes where nothing is remembered.       *)
LEMMA SerialMove ==
  ASSUME OneAtATime, SerialInv, PayInv', NEW h \in Request, NEW q, Goto(h, q),
         UNCHANGED <<lines, records>>, run'.net = run.net, req[h].pc \notin Rebuilding,
         q.pc \notin {"genRows", "genInsert", "recordUpdate", "linesInsert", "recalcLines",
                      "recalcWrite", "totalsWrite"},
         req[h].pc \in Totalling => q.pc \in Totalling
  PROVE  SerialInv'
  BY SerialRead DEF LocalNext


LEMMA SerialStart ==
  ASSUME OneAtATime, SerialInv, PayInv', NEW h \in Request, StartRequest(h)
  PROVE  SerialInv'
<1>1. req[h].pc = "idle"
  BY DEF StartRequest, Generate, DeleteSourceRead, CompensateClear, PatchRead, MarkPaid,
         JobStart, Download, At
<1>2. req[h].pc \notin Totalling /\ req[h].pc \notin Rebuilding
  BY <1>1, SerialPcs
<1>3. ASSUME NEW q, Goto(h, q), UNCHANGED <<lines, records, run>>,
             q.pc \in {"genRecord", "deleteSource", "compensate", "patchSelect", "patchLine",
                       "renderLines"}
      PROVE  SerialInv'
  BY <1>2, <1>3, SerialMove
<1>4. CASE Generate(h)
  <2> DEFINE q == [Idle EXCEPT !.pc = "genRecord", !.todo = Staff, !.all = TRUE]
  <2>1. Goto(h, q) /\ q.pc = "genRecord" /\ UNCHANGED <<lines, records, run>>
    BY <1>4, IdleType DEF Generate, LocalType, tables
  <2> HIDE DEF q
  <2>2. QED BY <1>3, <2>1
<1>5. ASSUME NEW x \in Source, DeleteSourceRead(h, x) PROVE SerialInv'
  <2> DEFINE q == [Idle EXCEPT !.pc = "deleteSource", !.rows = <<Row(x, 0)>>]
  <2>1. Goto(h, q) /\ q.pc = "deleteSource" /\ UNCHANGED <<lines, records, run>>
    BY <1>5, IdleType DEF DeleteSourceRead, LocalType, tables
  <2> HIDE DEF q
  <2>2. QED BY <1>3, <2>1
<1>6. ASSUME NEW s \in Staff, CompensateClear(h, s) PROVE SerialInv'
  <2>1. PICK items : Goto(h, [Idle EXCEPT !.pc = "compensate", !.staff = s, !.todo = items])
    BY <1>6 DEF CompensateClear
  <2> DEFINE q == [Idle EXCEPT !.pc = "compensate", !.staff = s, !.todo = items]
  <2>2. Goto(h, q) /\ q.pc = "compensate" /\ UNCHANGED <<lines, records, run>>
    BY <1>6, <2>1, IdleType DEF CompensateClear, LocalType
  <2> HIDE DEF q
  <2>3. QED BY <1>3, <2>2
<1>7. ASSUME NEW s \in Staff, PatchRead(h, s) PROVE SerialInv'
  <2>1. PICK pc \in {"patchSelect", "patchLine"} : Goto(h, [Idle EXCEPT !.pc = pc, !.staff = s])
    BY <1>7 DEF PatchRead
  <2> DEFINE q == [Idle EXCEPT !.pc = pc, !.staff = s]
  <2>2. Goto(h, q) /\ q.pc = pc /\ UNCHANGED <<lines, records, run>>
    BY <1>7, <2>1, IdleType DEF PatchRead, LocalType, tables
  <2> HIDE DEF q
  <2>3. QED BY <1>3, <2>2
<1>8. ASSUME NEW s \in Staff, RenderRead(h, s), UNCHANGED <<lines, records, run>> PROVE SerialInv'
  <2> DEFINE q == [Idle EXCEPT !.pc = "renderLines", !.staff = s, !.base = records[s].base,
                                !.net = records[s].net, !.settled = Settled(s)]
  <2>1. Goto(h, q) /\ q.pc = "renderLines"
    BY <1>8, IdleType DEF RenderRead, LocalType
  <2> HIDE DEF q
  <2>2. QED BY <1>3, <1>8, <2>1
<1>9. ASSUME NEW s \in Staff, MarkPaid(h, s) PROVE SerialInv'
  <2> DEFINE q == [Idle EXCEPT !.pc = "totalsRead", !.staff = s, !.pays = TRUE]
  <2>1. Goto(h, q) /\ q.pc = "totalsRead" /\ UNCHANGED lines
        /\ records' = [records EXCEPT ![s].status = "paid"] /\ Exists(s)
    BY <1>9, IdleType DEF MarkPaid, LocalType
  <2> HIDE DEF q
  <2>2. records[s] \in RecordRow /\ records \in [Staff -> RecordRow]
    BY DEF SerialInv, PayInv, TypeInv
  <2>3. \A t \in Staff : /\ records'[t].status = "absent" <=> records[t].status = "absent"
                         /\ records'[t].base = records[t].base
                         /\ records'[t].net = records[t].net
    BY <2>1, <2>2 DEF Exists, RecordRow
  <2>4. \A t \in Staff : records[t].status # "absent" => Summed(t)
    BY <1>2, SerialFacts
  <2>5. q.pc \in Totalling /\ LocalNext(q)
    BY <2>1, SerialPcs DEF LocalNext
  <2>6. \A t \in Staff : records'[t].status = "absent" => lines'[t] = <<>>
    BY <2>1, <2>3 DEF SerialInv
  <2>7. \A t \in Staff : records'[t].status # "absent"
                         => records'[t].net = Net(records'[t].base, lines'[t])
    BY <2>1, <2>3, <2>4 DEF Summed
  <2>8. PayInv
    BY DEF SerialInv
  <2>9. QED BY <2>1, <2>5, <2>6, <2>7, <2>8, SerialStep
<1>10. ASSUME NEW s \in Staff, JobStart(h, s) \/ Download(h, s) PROVE SerialInv'
  BY <1>8, <1>10 DEF JobStart, Download, tables
<1>11. QED BY <1>4, <1>5, <1>6, <1>7, <1>9, <1>10 DEF StartRequest

(* The statements that write a record or its lines.                        *)
LEMMA SerialGenInsert ==
  ASSUME OneAtATime, SerialInv, PayInv', NEW h \in Request, GenInsert(h)
  PROVE  SerialInv'
<1> DEFINE s == req[h].staff
           row == [status |-> "draft", base |-> req[h].base, net |-> Net(req[h].base, req[h].rows)]
           q == [req[h] EXCEPT !.pc = "linesInsert", !.base = 0]
<1>1. req[h].pc = "genInsert" /\ LocalAt(req[h]) /\ req[h] \in LocalType
  BY SerialFacts DEF GenInsert, At
<1>2. records[s].status = "absent"
  BY <1>1 DEF LocalAt
<1>3. s \in Staff
  BY <1>1 DEF SerialInv, PayInv, TypeInv, LocalOK, OnStaff
<1>4. lines[s] = <<>> /\ PayInv /\ records \in [Staff -> RecordRow]
  BY <1>2, <1>3 DEF SerialInv, PayInv, TypeInv
<1>5. records' = [records EXCEPT ![s] = row] /\ Goto(h, q) /\ UNCHANGED lines
  BY <1>2 DEF GenInsert, Exists
<1>6. records'[s].status = "draft" /\ records'[s].net = Net(records'[s].base, req[h].rows)
      /\ \A t \in Staff \ {s} : records'[t] = records[t]
  BY <1>3, <1>4, <1>5
<1>7. q.pc = "linesInsert" /\ q.staff = s /\ q.rows = req[h].rows
  BY <1>1 DEF LocalType
<1> HIDE DEF q, row
<1>8. LocalNext(q)
  BY <1>4, <1>5, <1>6, <1>7 DEF LocalNext
<1>9. q.pc \in Totalling /\ q.pc \in Rebuilding
  BY <1>7, SerialPcs DEF Rebuilding
<1>10. \A t \in Staff : records[t].status # "absent" => Summed(t)
  BY <1>1, SerialFacts, SerialPcs
<1>11. \A t \in Staff : records'[t].status = "absent" => lines'[t] = <<>>
  BY <1>5, <1>6 DEF SerialInv
<1>12. \A t \in Staff : /\ records'[t].status # "absent"
                        /\ ~ (q.staff = t /\ q.pc \in Rebuilding)
                        => records'[t].net = Net(records'[t].base, lines'[t])
  BY <1>5, <1>6, <1>7, <1>9, <1>10 DEF Summed
<1>13. QED BY <1>4, <1>5, <1>8, <1>9, <1>11, <1>12, SerialStep

(* Of records and lines only those of the handler's record change.         *)
LEMMA SerialAdjust ==
  ASSUME OneAtATime, SerialInv, Rendered, NEW h \in Request, NEW q, Goto(h, q), LocalNext(q),
         req[h].pc \in Adjusting, q.pc \in Totalling,
         \A t \in Staff \ {req[h].staff} : records'[t] = records[t] /\ lines'[t] = lines[t],
         \/ q.pc \in Rebuilding /\ q.staff = req[h].staff
         \/ records'[req[h].staff].net = Net(records'[req[h].staff].base, lines'[req[h].staff])
  PROVE  SerialInv'
<1>1. PayInv /\ PayInv' /\ Safe
  BY DEF SerialInv, Rendered
<1>2. req[h].staff \in Staff /\ Exists(req[h].staff)
  BY <1>1, Adjuster
<1>3. records'[req[h].staff].status # "absent"
  BY <1>1, <1>2 DEF Safe, Kept
<1>4. \A t \in Staff \ {req[h].staff} : records[t].status # "absent" => Summed(t)
  BY SerialFacts
<1>5. \A t \in Staff : records'[t].status = "absent" => lines'[t] = <<>>
  BY <1>3 DEF SerialInv
<1>6. \A t \in Staff : /\ records'[t].status # "absent"
                       /\ ~ (q.staff = t /\ q.pc \in Rebuilding)
                       => records'[t].net = Net(records'[t].base, lines'[t])
  BY <1>4 DEF Summed
<1>7. QED BY <1>1, <1>5, <1>6, SerialStep

LEMMA SerialStatement ==
  ASSUME OneAtATime, SerialInv, Rendered, NEW h \in Request,
         \/ SyncRows(h) \/ LinesDelete(h) \/ RecordUpdate(h) \/ LinesInsert(h) \/ PatchSelect(h)
         \/ PatchLine(h) \/ RecalcRecord(h) \/ RecalcLines(h) \/ RecalcWrite(h)
  PROVE  SerialInv'
<1> DEFINE s == req[h].staff
<1>1. req[h].pc \in Adjusting
  BY AdjustPcs DEF SyncRows, LinesDelete, RecordUpdate, LinesInsert, PatchSelect, PatchLine,
                   RecalcRecord, RecalcLines, RecalcWrite, At
<1>2. PayInv /\ PayInv' /\ TypeInv
  BY DEF SerialInv, Rendered, PayInv
<1>3. req[h] \in LocalType /\ s \in Staff /\ Exists(s)
  BY <1>1, <1>2, Adjuster
<1>4. LocalAt(req[h])
  BY SerialFacts
<1>5. records[s] \in RecordRow /\ records \in [Staff -> RecordRow]
      /\ lines \in [Staff -> Seq(RowType)] /\ lines[s] \in Seq(RowType)
  BY <1>2, <1>3 DEF TypeInv
<1>6. {"linesDelete", "recordUpdate", "linesInsert", "patchLine", "recalcLines", "recalcWrite",
       "genRecord", "totalsRead"} \subseteq Totalling
  BY DEF Totalling, Batch, Paying, Adjusting
<1>7. ASSUME NEW q, Goto(h, q), q.pc = "linesDelete", UNCHANGED <<lines, records, run>>,
             req[h].pc \in {"syncRows", "patchSelect"}
      PROVE  SerialInv'
  BY <1>2, <1>6, <1>7, SerialMove, SerialPcs
<1>8. CASE SyncRows(h)
  <2> DEFINE q == [req[h] EXCEPT !.pc = "linesDelete", !.base = comp[s].base,
                                  !.rows = SyncedRows(s)]
  <2>1. Goto(h, q) /\ q.pc = "linesDelete" /\ UNCHANGED <<lines, records, run>>
        /\ req[h].pc = "syncRows"
    BY <1>3, <1>8 DEF SyncRows, LocalType, tables, At
  <2> HIDE DEF q
  <2>2. QED BY <1>7, <2>1
<1>9. CASE PatchSelect(h)
  <2>1. PICK base, rows : Goto(h, [req[h] EXCEPT !.pc = "linesDelete", !.base = base, !.rows = rows])
    BY <1>9 DEF PatchSelect
  <2> DEFINE q == [req[h] EXCEPT !.pc = "linesDelete", !.base = base, !.rows = rows]
  <2>2. Goto(h, q) /\ q.pc = "linesDelete" /\ UNCHANGED <<lines, records, run>>
        /\ req[h].pc = "patchSelect"
    BY <1>3, <1>9, <2>1 DEF PatchSelect, LocalType, tables, At
  <2> HIDE DEF q
  <2>3. QED BY <1>7, <2>2
<1>10. CASE LinesDelete(h)
  <2> DEFINE q == [req[h] EXCEPT !.pc = "recordUpdate"]
  <2>1. Goto(h, q) /\ q.pc = "recordUpdate" /\ q.staff = s
        /\ lines' = [lines EXCEPT ![s] = <<>>] /\ records' = records
    BY <1>3, <1>10 DEF LinesDelete, LocalType
  <2> HIDE DEF q
  <2>2. lines'[s] = <<>> /\ \A t \in Staff \ {s} : records'[t] = records[t] /\ lines'[t] = lines[t]
    BY <1>3, <1>5, <2>1
  <2>3. LocalNext(q) /\ q.pc \in Rebuilding /\ q.pc \in Totalling
    BY <1>6, <2>1, <2>2 DEF LocalNext, Rebuilding
  <2>4. QED BY <1>1, <2>1, <2>2, <2>3, SerialAdjust
<1>11. CASE RecordUpdate(h)
  <2> DEFINE q == [req[h] EXCEPT !.pc = "linesInsert", !.base = 0]
             net == Net(req[h].base, req[h].rows)
  <2>1. Goto(h, q) /\ q.pc = "linesInsert" /\ q.staff = s /\ q.rows = req[h].rows
    BY <1>3, <1>11 DEF RecordUpdate, LocalType
  <2>2. req[h].pc = "recordUpdate" /\ lines' = lines
        /\ records' = [records EXCEPT ![s].base = req[h].base, ![s].net = net]
    BY <1>11 DEF RecordUpdate, At
  <2> HIDE DEF q
  <2>3. records'[s].base = req[h].base /\ records'[s].net = net
        /\ \A t \in Staff \ {s} : records'[t] = records[t] /\ lines'[t] = lines[t]
    <3> HIDE DEF net
    <3>1. QED BY <1>3, <1>5, <2>2 DEF RecordRow
  <2>4. lines'[s] = <<>>
    BY <1>4, <2>2 DEF LocalAt
  <2>5. LocalNext(q) /\ q.pc \in Rebuilding /\ q.pc \in Totalling
    BY <1>6, <2>1, <2>3, <2>4 DEF LocalNext, Rebuilding
  <2> HIDE DEF net
  <2>6. QED BY <1>1, <2>1, <2>3, <2>5, SerialAdjust
<1>12. CASE LinesInsert(h) \/ RecalcWrite(h)
  <2>1. req[h].pc \in Batch
    BY <1>1 DEF Batch
  <2>2. AfterRecord(h).pc \in {"genRecord", "totalsRead"} /\ Goto(h, AfterRecord(h))
    BY <1>2, <1>12, <2>1, AfterRecordOK DEF LinesInsert, RecalcWrite
  <2>3. LocalNext(AfterRecord(h)) /\ AfterRecord(h).pc \in Totalling
    BY <1>6, <2>2 DEF LocalNext
  <2>4. records'[s].net = Net(records'[s].base, lines'[s])
    <3>1. CASE LinesInsert(h)
      <4>1. req[h].pc = "linesInsert" /\ records' = records
            /\ lines' = [lines EXCEPT ![s] = @ \o req[h].rows]
        BY <3>1 DEF LinesInsert, At
      <4>2. lines[s] = <<>> /\ records[s].net = Net(records[s].base, req[h].rows)
        BY <1>4, <4>1 DEF LocalAt
      <4>3. req[h].rows \in Seq(RowType)
        BY <1>3 DEF LocalType
      <4>4. lines'[s] = req[h].rows
        BY <1>3, <1>5, <4>1, <4>2, <4>3
      <4>5. QED BY <4>1, <4>2, <4>4
    <3>2. CASE RecalcWrite(h)
      <4>1. req[h].pc = "recalcWrite" /\ lines' = lines
            /\ records' = [records EXCEPT ![s].net = req[h].net]
        BY <3>2 DEF RecalcWrite, At
      <4>2. req[h].net = Net(records[s].base, lines[s])
        BY <1>4, <4>1 DEF LocalAt
      <4>3. records'[s].net = req[h].net /\ records'[s].base = records[s].base
        BY <1>3, <1>5, <4>1 DEF RecordRow
      <4>4. QED BY <4>1, <4>2, <4>3
    <3>3. QED BY <1>12, <3>1, <3>2
  <2>5. \A t \in Staff \ {s} : records'[t] = records[t] /\ lines'[t] = lines[t]
    BY <1>3, <1>5, <1>12 DEF LinesInsert, RecalcWrite
  <2>6. QED BY <1>1, <2>2, <2>3, <2>4, <2>5, SerialAdjust
<1>13. CASE PatchLine(h)
  <2>1. Goto(h, req[h]) /\ req[h].pc = "patchLine" /\ records' = records
        /\ \A t \in Staff \ {s} : lines'[t] = lines[t]
    BY <1>3, <1>5, <1>13 DEF PatchLine, At
  <2>2. LocalNext(req[h]) /\ req[h].pc \in Rebuilding /\ req[h].pc \in Totalling
    BY <1>6, <2>1 DEF LocalNext, Rebuilding
  <2>3. QED BY <1>1, <2>1, <2>2, SerialAdjust
<1>14. CASE RecalcRecord(h)
  <2> DEFINE q == [req[h] EXCEPT !.pc = "recalcLines", !.base = records[s].base]
  <2>1. Goto(h, q) /\ q.pc = "recalcLines" /\ q.staff = s /\ q.base = records[s].base
        /\ UNCHANGED <<lines, records, run>>
    BY <1>3, <1>14 DEF RecalcRecord, LocalType, tables
  <2> HIDE DEF q
  <2>2. LocalNext(q) /\ q.pc \in Rebuilding /\ q.pc \in Totalling
    BY <1>6, <2>1 DEF LocalNext, Rebuilding
  <2>3. QED BY <1>2, <2>1, <2>2, SerialRead
<1>15. CASE RecalcLines(h)
  <2> DEFINE net == Net(req[h].base, lines[s])
             q == [req[h] EXCEPT !.pc = "recalcWrite", !.base = 0, !.net = net]
  <2>1. Goto(h, q) /\ req[h].pc = "recalcLines" /\ UNCHANGED <<lines, records, run>>
    BY <1>15 DEF RecalcLines, tables, At
  <2>2. net = Net(records[s].base, lines[s])
    BY <1>4, <2>1 DEF LocalAt
  <2> HIDE DEF net
  <2>3. q.pc = "recalcWrite" /\ q.staff = s /\ q.net = net
    BY <1>3 DEF LocalType
  <2> HIDE DEF q
  <2>4. LocalNext(q) /\ q.pc \in Rebuilding /\ q.pc \in Totalling
    BY <1>6, <2>1, <2>2, <2>3 DEF LocalNext, Rebuilding
  <2>5. QED BY <1>2, <2>1, <2>3, <2>4, SerialRead
<1>16. QED BY <1>8, <1>9, <1>10, <1>11, <1>12, <1>13, <1>14, <1>15

(* The other statements.                                                   *)
LEMMA SerialResume ==
  ASSUME OneAtATime, SerialInv, Rendered, NEW h \in Request, Resume(h)
  PROVE  SerialInv'
<1>1. PayInv /\ PayInv' /\ TypeInv /\ req[h] \in LocalType /\ LocalAt(req[h])
  BY SerialFacts DEF SerialInv, Rendered, PayInv
<1>2. ASSUME NEW q, Goto(h, q), UNCHANGED <<lines, records, run>>, req[h].pc \notin Totalling,
             q.pc \in {"idle", "renderPut"}
      PROVE  SerialInv'
  <2>1. req[h].pc \notin Rebuilding
    BY <1>2, SerialPcs
  <2>2. QED BY <1>1, <1>2, <2>1, SerialMove
<1>3. CASE DeleteSourceWrite(h) \/ CompensateFill(h) \/ Enqueue(h) \/ RenderPut(h)
  <2>1. Goto(h, Idle) /\ UNCHANGED <<lines, records, run>>
    BY <1>3 DEF DeleteSourceWrite, CompensateFill, Enqueue, RenderPut, tables
  <2>2. req[h].pc \notin Totalling
    BY <1>3, SerialPcs DEF DeleteSourceWrite, CompensateFill, Enqueue, RenderPut, At
  <2>3. QED BY <1>2, <2>1, <2>2, IdleType
<1>4. CASE RenderLines(h)
  <2> DEFINE q == [req[h] EXCEPT !.pc = "renderPut", !.rows = lines[req[h].staff]]
  <2>1. Goto(h, q) /\ q.pc = "renderPut" /\ UNCHANGED <<lines, records, run>>
        /\ req[h].pc \notin Totalling
    BY <1>1, <1>4, SerialPcs DEF RenderLines, LocalType, tables, At
  <2> HIDE DEF q
  <2>2. QED BY <1>2, <2>1
<1>5. CASE GenRecord(h)
  <2>1. req[h].pc = "genRecord" /\ UNCHANGED <<lines, records, run>>
    BY <1>5 DEF GenRecord, At, tables
  <2>2. req[h].pc \notin Rebuilding
    BY <2>1, SerialPcs
  <2>3. PICK s \in req[h].todo :
          LET found == [req[h] EXCEPT !.staff = s, !.todo = @ \ {s}]
              rest  == req[h].todo \ {s}
          IN  CASE records[s].status = "absent" -> Goto(h, [found EXCEPT !.pc = "genRows"])
                [] records[s].status = "draft"  -> Goto(h, [found EXCEPT !.pc = "syncRows"])
                [] OTHER -> Goto(h, [Idle EXCEPT !.todo = rest, !.all = req[h].all,
                                           !.pc = IF rest = {} THEN "totalsRead" ELSE "genRecord"])
    BY <1>5 DEF GenRecord
  <2>4. CASE records[s].status = "absent"
    <3> DEFINE q == [[req[h] EXCEPT !.staff = s, !.todo = @ \ {s}] EXCEPT !.pc = "genRows"]
    <3>1. Goto(h, q)
      BY <2>3, <2>4
    <3>2. q.pc = "genRows" /\ q.staff = s
      BY <1>1 DEF LocalType
    <3> HIDE DEF q
    <3>3. LocalNext(q) /\ q.pc \in Totalling
      BY <2>1, <2>4, <3>2, SerialPcs DEF LocalNext
    <3>4. QED BY <1>1, <2>1, <2>2, <3>1, <3>3, SerialRead
  <2>5. CASE records[s].status = "draft"
    <3> DEFINE q == [[req[h] EXCEPT !.staff = s, !.todo = @ \ {s}] EXCEPT !.pc = "syncRows"]
    <3>1. Goto(h, q)
      BY <2>3, <2>5
    <3>2. q.pc = "syncRows"
      BY <1>1 DEF LocalType
    <3> HIDE DEF q
    <3>3. q.pc \in Totalling
      BY <3>2, SerialPcs DEF Adjusting
    <3>4. QED BY <1>1, <2>1, <2>2, <3>1, <3>2, <3>3, SerialMove
  <2>6. CASE records[s].status \notin {"absent", "draft"}
    <3> DEFINE rest == req[h].todo \ {s}
               pc == IF rest = {} THEN "totalsRead" ELSE "genRecord"
               q == [Idle EXCEPT !.todo = rest, !.all = req[h].all, !.pc = pc]
    <3>1. Goto(h, q)
      BY <2>3, <2>6
    <3>2. q.pc = pc
      BY IdleType DEF LocalType
    <3>3. pc \in {"totalsRead", "genRecord"}
      OBVIOUS
    <3> HIDE DEF q, pc
    <3>4. q.pc \in Totalling
      BY <3>2, <3>3, SerialPcs
    <3>5. QED BY <1>1, <2>1, <2>2, <3>1, <3>2, <3>3, <3>4, SerialMove
  <2>7. QED BY <2>4, <2>5, <2>6
<1>6. CASE GenRows(h)
  <2> DEFINE q == [req[h] EXCEPT !.pc = "genInsert", !.base = comp[req[h].staff].base,
                                  !.rows = FreshRows(req[h].staff)]
  <2>1. Goto(h, q) /\ UNCHANGED <<lines, records, run>> /\ req[h].pc = "genRows"
    BY <1>6 DEF GenRows, At, tables
  <2>2. q.pc = "genInsert" /\ q.staff = req[h].staff
    BY <1>1 DEF LocalType
  <2> HIDE DEF q
  <2>3. LocalNext(q) /\ q.pc \in Totalling /\ req[h].pc \notin Rebuilding
    BY <1>1, <2>1, <2>2, SerialPcs DEF LocalAt, LocalNext
  <2>4. QED BY <1>1, <2>1, <2>3, SerialRead
<1>7. CASE TotalsRead(h)
  <2> DEFINE q == [req[h] EXCEPT !.pc = "totalsWrite", !.net = TotalNet, !.paid = TotalPaid]
  <2>1. Goto(h, q) /\ UNCHANGED <<lines, records, run>> /\ req[h].pc = "totalsRead"
    BY <1>7 DEF TotalsRead, At, tables
  <2>2. q.pc = "totalsWrite" /\ q.net = TotalNet
    BY <1>1 DEF LocalType
  <2> HIDE DEF q
  <2>3. TotalNet' = TotalNet
    BY <2>1, SameTotal
  <2>4. LocalNext(q) /\ q.pc \in Totalling /\ req[h].pc \notin Rebuilding
    BY <2>1, <2>2, <2>3, SerialPcs DEF LocalNext
  <2>5. QED BY <1>1, <2>1, <2>4, SerialRead
<1>8. CASE TotalsWrite(h)
  <2> DEFINE q == IF req[h].pays THEN [Idle EXCEPT !.pc = "enqueue", !.staff = req[h].staff]
                  ELSE Idle
  <2>1. Goto(h, q) /\ UNCHANGED <<lines, records>> /\ req[h].pc = "totalsWrite"
        /\ run' = [run EXCEPT !.net = req[h].net, !.paid = req[h].paid]
    BY <1>8 DEF TotalsWrite, At
  <2>2. q.pc \in {"enqueue", "idle"}
    BY IdleType DEF LocalType
  <2> HIDE DEF q
  <2>3. run'.net = req[h].net /\ req[h].net = TotalNet /\ TotalNet' = TotalNet
    BY <1>1, <2>1, SameTotal DEF LocalAt, TypeInv, RunRow
  <2>4. LocalNext(q) /\ q.pc \notin Rebuilding
    BY <2>2, SerialPcs DEF LocalNext, Rebuilding
  <2>5. req[h].pc \notin Rebuilding
    BY <2>1, SerialPcs
  <2>6. \A s \in Staff : records[s].status # "absent" => Summed(s)
    BY <2>5, SerialFacts
  <2>7. \A s \in Staff : records'[s].status = "absent" => lines'[s] = <<>>
    BY <2>1 DEF SerialInv
  <2>8. \A s \in Staff : records'[s].status # "absent"
                         => records'[s].net = Net(records'[s].base, lines'[s])
    BY <2>1, <2>6 DEF Summed
  <2>9. QED BY <1>1, <2>1, <2>3, <2>4, <2>7, <2>8, SerialStep
<1>9. CASE GenInsert(h)
  BY <1>1, <1>9, SerialGenInsert
<1>10. CASE \/ SyncRows(h) \/ LinesDelete(h) \/ RecordUpdate(h) \/ LinesInsert(h) \/ PatchSelect(h)
            \/ PatchLine(h) \/ RecalcRecord(h) \/ RecalcLines(h) \/ RecalcWrite(h)
  BY <1>10, SerialStatement
<1>11. QED BY <1>3, <1>4, <1>5, <1>6, <1>7, <1>8, <1>9, <1>10 DEF Resume

LEMMA SerialNext ==
  ASSUME OneAtATime, SerialInv, [Serve]_vars
  PROVE  SerialInv'
<1>1. PayInv /\ Rendered /\ PayInv'
  BY NextRendered DEF SerialInv, Next, Rendered
<1>2. ASSUME UNCHANGED <<records, lines, req, run>> PROVE SerialInv'
  BY <1>1, <1>2, SerialTables
<1>3. CASE UNCHANGED vars \/ \E h \in Request : Refuse(h)
  BY <1>2, <1>3 DEF Refuse, vars, tables
<1>4. CASE CreateRun
  <2>1. run' = [run EXCEPT !.exists = TRUE] /\ UNCHANGED <<records, lines, req>>
    BY <1>4 DEF CreateRun
  <2>2. run'.net = run.net
    BY <1>1, <2>1 DEF PayInv, TypeInv, RunRow
  <2>3. QED BY <1>1, <2>1, <2>2, SerialTables
<1>5. CASE EditPay
  BY <1>2, <1>5 DEF EditPay, CreateSource, UpdateSource, ArchiveSource, RestoreSource,
                    EnrollStaff, UnenrollStaff, EditCatalog
<1>6. ASSUME NEW s \in Staff, Approve(s) PROVE SerialInv'
  <2>1. records' = [records EXCEPT ![s].status = "pending"] /\ UNCHANGED <<lines, req, run>>
        /\ records[s].status # "absent"
    BY <1>6 DEF Approve, Exists
  <2>2. records[s] \in RecordRow /\ records \in [Staff -> RecordRow]
    BY <1>1 DEF PayInv, TypeInv
  <2>3. \A t \in Staff : /\ records'[t].status = "absent" <=> records[t].status = "absent"
                         /\ records'[t].base = records[t].base
                         /\ records'[t].net = records[t].net
    BY <2>1, <2>2 DEF RecordRow
  <2>4. QED BY <1>1, <2>1, <2>3, SerialTables
<1>7. ASSUME NEW s \in Staff, EnqueuePayslip(s) PROVE SerialInv'
  BY <1>2, <1>7 DEF EnqueuePayslip, tables
<1>8. ASSUME NEW h \in Request, StartRequest(h) PROVE SerialInv'
  BY <1>1, <1>8, SerialStart
<1>9. ASSUME NEW h \in Request, Resume(h) PROVE SerialInv'
  BY <1>1, <1>9, SerialResume
<1>10. QED BY <1>3, <1>4, <1>5, <1>6, <1>7, <1>8, <1>9 DEF Serve

LEMMA SerialInit == Init => SerialInv
<1> SUFFICES ASSUME Init PROVE SerialInv
  OBVIOUS
<1>1. PayInv
  BY InitPayInv
<1>2. \A s \in Staff : records[s].status = "absent" /\ lines[s] = <<>> /\ NetOf(s) = 0
  BY DEF Init, NetOf, Exists
<1>3. \A h \in Request : req[h].pc = "idle"
  BY IdleType DEF Init
<1>4. \A h \in Request : LocalAt(req[h])
  BY <1>3 DEF LocalAt
<1>5. TotalNet = 0
  <2> DEFINE f == [s \in Staff |-> NetOf(s)]
  <2>1. \A s \in Staff : f[s] \in Nat /\ f[s] = 0
    BY <1>2
  <2>2. TotalNet = SumFunctionOnSet(f, Staff)
    BY DEF TotalNet, SumFunction
  <2> HIDE DEF f
  <2>3. SumFunctionOnSet(f, Staff) \in Nat
    BY <2>1, Facts, SumNonNegative
  <2>4. ~ (SumFunctionOnSet(f, Staff) > 0)
    BY <2>1, Facts, SumPositive
  <2>5. QED BY <2>2, <2>3, <2>4
<1>6. run.net = 0
  BY DEF Init
<1>7. QED BY <1>1, <1>2, <1>4, <1>5, <1>6 DEF SerialInv

LEMMA SerialInvariant == OneAtATime => (ServedSpec => []SerialInv)
<1> SUFFICES ASSUME OneAtATime PROVE ServedSpec => []SerialInv
  OBVIOUS
<1>1. SerialInv /\ [Serve]_vars => SerialInv'
  BY SerialNext
<1>2. QED BY SerialInit, <1>1, PTL DEF ServedSpec

(* NetIsSumOfLines: served one at a time and to the end, handlers leave    *)
(* every record with the sum of its lines (syncDraftRecordFromCompensation,*)
(* recalculateRecordTotals), whatever the catalog and the amounts.         *)
THEOREM SeriallyNetIsSum == OneAtATime => (ServedSpec => []NetIsSumOfLines)
<1> SUFFICES ASSUME OneAtATime PROVE ServedSpec => []NetIsSumOfLines
  OBVIOUS
<1>1. SerialInv => NetIsSumOfLines
  BY SerialPcs DEF SerialInv, NetIsSumOfLines, Quiet, At, Exists, Summed
<1>2. QED BY <1>1, SerialInvariant, PTL

(* TotalIsSumOfRecords: and the run with the sum of its records            *)
(* (recalculateRunTotals).                                                 *)
THEOREM SeriallyTotalIsSum == OneAtATime => (ServedSpec => []TotalIsSumOfRecords)
<1> SUFFICES ASSUME OneAtATime PROVE ServedSpec => []TotalIsSumOfRecords
  OBVIOUS
<1>1. SerialInv => TotalIsSumOfRecords
  BY SerialPcs DEF SerialInv, TotalIsSumOfRecords, Quiet, At
<1>2. QED BY <1>1, SerialInvariant, PTL

=============================================================================
