------------------------ MODULE SystemAPayload_proofs ------------------------
(* Proofs about SystemAPayload: amounts are conserved, for any number of      *)
(* bills, lines and callbacks.                                                *)
EXTENDS SystemAPayload, TLAPS

-----------------------------------------------------------------------------
(* Sums *)

\* The sum over one index is what is there.  The fold of the library is a function
\* chosen for its recursive equation; over the subsets of {1} there is one.
LEMMA SumOfOne ==
  ASSUME NEW x \in Nat
  PROVE  SumFunction([k \in {1} |-> x]) = x
<1> DEFINE f == [k \in {1} |-> x]
           Step(g) == [s \in SUBSET {1} |->
                         IF s = {} THEN 0
                         ELSE f[CHOOSE y \in s : TRUE] + g[s \ {CHOOSE y \in s : TRUE}]]
           iter == CHOOSE g : g = Step(g)
           h == [s \in SUBSET {1} |-> IF s = {} THEN 0 ELSE x]
<1>0. DOMAIN f = {1} /\ f[1] = x
  OBVIOUS
<1>1. SumFunction(f) = iter[{1}]
  BY <1>0 DEF SumFunction, SumFunctionOnSet, FoldFunctionOnSet, MapThenFoldSet
<1>2. SUBSET {1} = {{}, {1}} /\ {1} \ {1} = {}
  OBVIOUS
<1>3. (CHOOSE y \in {1} : TRUE) = 1
  OBVIOUS
<1>4. h = Step(h)
  <2> SUFFICES ASSUME NEW s \in SUBSET {1} PROVE h[s] = Step(h)[s]
    OBVIOUS
  <2>1. CASE s = {}
    BY <2>1
  <2>2. CASE s = {1}
    <3>1. h[{}] = 0 /\ h[{1}] = x
      BY <1>2
    <3>2. Step(h)[{1}] = x + 0
      BY <1>0, <1>2, <1>3, <3>1
    <3> QED BY <2>2, <3>1, <3>2
  <2> QED BY <1>2, <2>1, <2>2
<1>5. iter = Step(iter)
  <2> HIDE DEF h
  <2> QED BY <1>4
<1>6. iter[{}] = 0
  BY <1>2, <1>5
<1>7. iter[{1}] = x + 0
  <2> HIDE DEF iter
  <2> QED BY <1>0, <1>2, <1>3, <1>5, <1>6
<1> QED BY <1>1, <1>7

-----------------------------------------------------------------------------
(* Invoices *)

\* What a sequence holds.
LEMMA PartOfSeq ==
  ASSUME NEW T, NEW s \in Seq(T), NEW k \in 1..Len(s)
  PROVE  s[k] \in T
OBVIOUS

\* One part of a text is a text.
LEMMA OnePart ==
  ASSUME NEW x \in Bills \union {Blank}
  PROVE  <<x>> \in Text
BY DEF Text

\* The fields of a callback and of its invoice.
LEMMA CallbackTypes ==
  ASSUME NEW c \in Callbacks
  PROVE  /\ c.returnCode \in {"'0'", "'9999'", "0", "9999", "none"}
         /\ c.invoice \in Invoice
         /\ BillText(c.invoice) \in Text
         /\ c.invoice.billNo \in Text /\ c.invoice.serialNo \in Text
         /\ {c.invoice.invoiceAmount, c.invoice.totalAmount, c.invoice.totalTaxAmount} \subseteq Nat
         /\ c.invoice.invoiceDetail # Null =>
              c.invoice.invoiceDetail \in Seq([amount : Nat, taxAmount : Nat])
<1>1. c \in Callback
  BY CallbacksAssumption
<1>2. c.invoice \in Invoice /\ c.returnCode \in {"'0'", "'9999'", "0", "9999", "none"}
  BY <1>1 DEF Callback
<1> QED BY <1>2 DEF Invoice, BillText

\* What System A is sent about a bill of an invoice is a payload.
LEMMA InnerType ==
  ASSUME NEW c \in Callbacks, NEW bill \in Text, NEW amount \in Nat, NEW tax \in Nat
  PROVE  Inner(c, bill, amount, tax) \in Payload
<1>1. OuterCode(c) \in {"'0'", "'9999'", "9999"}
  BY CallbackTypes DEF OuterCode
<1>2. c.invoice.invoiceNum \in {"none", "number"} /\ c.invoice.invoiceNo \in {"none", "number"}
  BY CallbackTypes DEF Invoice
<1> QED BY <1>1, <1>2 DEF Inner, Payload

\* An invoice of one bill.
LEMMA SingleDoes ==
  ASSUME NEW c \in Callbacks
  PROVE  LET i == c.invoice
             net == IF i.vehicle = "yes" THEN i.invoiceAmount ELSE i.totalAmount
             p == Inner(c, BillText(i), net, i.totalTaxAmount) IN
         /\ Single(c) = <<p>> /\ Single(c) \in Seq(Payload) /\ Single(c) # <<>>
         /\ p.totalAmount = net /\ p.totalTaxAmount = i.totalTaxAmount /\ {net, i.totalTaxAmount} \subseteq Nat
<1> DEFINE i == c.invoice
           net == IF i.vehicle = "yes" THEN i.invoiceAmount ELSE i.totalAmount
           p == Inner(c, BillText(i), net, i.totalTaxAmount)
<1>1. BillText(i) \in Text /\ net \in Nat /\ i.totalTaxAmount \in Nat
  BY CallbackTypes
<1>2. p \in Payload
  BY <1>1, InnerType
<1>3. p.totalAmount = net /\ p.totalTaxAmount = i.totalTaxAmount
  BY DEF Inner
<1>4. Single(c) = <<p>>
  BY DEF Single
<1>5. <<p>> \in Seq(Payload) /\ <<p>> # <<>>
  <2> HIDE DEF p
  <2> QED BY <1>2
<1> QED BY <1>1, <1>3, <1>4, <1>5

\* An invoice merged from several bills: a payload per line, with its amounts.
LEMMA SplitDoes ==
  ASSUME NEW c \in Callbacks, ~Unsupported(c), ~IsSingle(c.invoice),
         c.invoice.invoiceDetail # Null
  PROVE  LET i == c.invoice IN
         /\ Split(c) \in Seq(Payload) /\ Split(c) # <<>>
         /\ DOMAIN Split(c) = Lines(i)
         /\ \A k \in Lines(i) : /\ Split(c)[k].totalAmount = i.invoiceDetail[k].amount
                                /\ Split(c)[k].totalTaxAmount = i.invoiceDetail[k].taxAmount
                                /\ Split(c)[k].bill = <<BillText(i)[k]>>
<1> DEFINE i == c.invoice
           n == Len(BillText(i))
<1>1. /\ BillText(i) \in Seq(Bills \union {Blank}) /\ BillText(i) # <<>>
      /\ i.invoiceDetail \in Seq([amount : Nat, taxAmount : Nat]) /\ n = Len(i.invoiceDetail)
  BY CallbackTypes DEF Text, Unsupported, LinesMatch
<1>2. n \in Nat \ {0} /\ Lines(i) = 1..n
  BY <1>1 DEF Lines
<1>3. ASSUME NEW k \in 1..n
      PROVE  /\ i.invoiceDetail[k] \in [amount : Nat, taxAmount : Nat]
             /\ <<BillText(i)[k]>> \in Text
  <2> DEFINE text == BillText(i)
             lines == i.invoiceDetail
  <2>1. /\ text \in Seq(Bills \union {Blank}) /\ lines \in Seq([amount : Nat, taxAmount : Nat])
        /\ k \in 1..Len(text) /\ k \in 1..Len(lines)
    BY <1>1
  <2> HIDE DEF text, lines
  <2>2. text[k] \in Bills \union {Blank}
    BY <2>1, PartOfSeq
  <2>3. lines[k] \in [amount : Nat, taxAmount : Nat]
    BY <2>1, PartOfSeq
  <2>4. <<text[k]>> \in Text
    BY <2>2, OnePart
  <2> QED BY <2>3, <2>4 DEF text, lines
<1> DEFINE line(k) == Inner(c, <<BillText(i)[k]>>, i.invoiceDetail[k].amount,
                            i.invoiceDetail[k].taxAmount)
<1>4. ASSUME NEW k \in 1..n
      PROVE  /\ line(k) \in Payload
             /\ line(k).totalAmount = i.invoiceDetail[k].amount
             /\ line(k).totalTaxAmount = i.invoiceDetail[k].taxAmount
             /\ line(k).bill = <<BillText(i)[k]>>
  <2>1. line(k) \in Payload
    BY <1>3, InnerType
  <2> QED BY <2>1 DEF Inner
<1>5. Split(c) = [k \in 1..n |-> line(k)]
  BY DEF Split
<1> HIDE DEF line
<1>6. Split(c) \in Seq(Payload) /\ DOMAIN Split(c) = 1..n
  BY <1>2, <1>4, <1>5
<1>7. Split(c) # <<>>
  BY <1>2, <1>6
<1> HIDE DEF n, i
<1>8. \A k \in 1..n : Split(c)[k] = line(k)
  BY <1>5
<1> QED BY <1>2, <1>4, <1>6, <1>7, <1>8 DEF i

-----------------------------------------------------------------------------
(* The invariant *)

\* What has been sent is what the invoice converts to.
SentInv ==
  IF outcome = "sent"
  THEN /\ ~Unsupported(callback)
       /\ \/ IsSingle(callback.invoice) /\ payloads = Single(callback)
          \/ /\ ~IsSingle(callback.invoice) /\ callback.invoice.invoiceDetail # Null
             /\ payloads = Split(callback)
  ELSE payloads = <<>>

\* What is stored are texts of the invoice (callbacks.py 95-129).
StoredInv ==
  /\ callback \in Callbacks
  /\ doc \in {NoDoc, Flat(callback)}
  /\ outcome \in {"received", "stored", "skipped", "unsupported", "error", "sent"}

IInv == StoredInv /\ SentInv

\* The invariant holds at the start, and every step keeps it.
LEMMA InvAlways == Spec => []IInv
<1>1. Init => IInv
  BY DEF Init, IInv, StoredInv, SentInv
<1>2. IInv /\ [Next]_vars => IInv'
  <2> SUFFICES ASSUME IInv, [Next]_vars PROVE IInv'
    OBVIOUS
  <2>1. CASE Store
    BY <2>1 DEF Store, IInv, StoredInv, SentInv
  <2>2. CASE Skip \/ Reject \/ Fail
    BY <2>2 DEF Skip, Reject, Fail, IInv, StoredInv, SentInv
  <2>3. CASE Send
    BY <2>3 DEF Send, IInv, StoredInv, SentInv
  <2>4. CASE UNCHANGED vars
    BY <2>4 DEF vars, IInv, StoredInv, SentInv
  <2> QED BY <2>1, <2>2, <2>3, <2>4 DEF Next
<1> QED BY <1>1, <1>2, PTL DEF Spec

-----------------------------------------------------------------------------
(* The theorems *)

\* The stored fields and the payloads have their types, whatever the shape of the
\* callback.
THEOREM TypeCorrect == Spec => []TypeOK
<1>1. IInv => TypeOK
  <2> SUFFICES ASSUME IInv PROVE TypeOK
    OBVIOUS
  <2>1. callback \in Callbacks
    BY DEF IInv, StoredInv
  <2>2. /\ DOMAIN doc = {"return_code", "bill_nos", "serial_nos"}
        /\ doc.return_code \in {"none", "'0'", "'9999'"}
    BY DEF IInv, StoredInv, NoDoc, Flat, FlatCode
  <2>3. \A f \in {"bill_nos", "serial_nos"} : doc[f] \in Seq(Text) /\ Len(doc[f]) <= 1
    <3>1. \A text \in Text : Given(text) \in Seq(Text) /\ Len(Given(text)) <= 1
      BY DEF Given
    <3>2. <<>> \in Seq(Text) /\ Len(<<>>) <= 1
      OBVIOUS
    <3>3. CASE doc = NoDoc
      <4>1. doc.bill_nos = <<>> /\ doc.serial_nos = <<>>
        BY <3>3 DEF NoDoc
      <4> QED BY <3>2, <4>1
    <3>4. CASE doc = Flat(callback)
      <4>1. callback.invoice.billNo \in Text /\ callback.invoice.serialNo \in Text
        BY <2>1, CallbackTypes
      <4>2. doc.bill_nos \in {<<>>, Given(callback.invoice.billNo)}
        BY <3>4 DEF Flat
      <4>3. doc.serial_nos \in {<<>>, Given(callback.invoice.serialNo)}
        BY <3>4 DEF Flat
      <4>4. doc.bill_nos \in Seq(Text) /\ Len(doc.bill_nos) <= 1
        BY <3>1, <3>2, <4>1, <4>2
      <4>5. doc.serial_nos \in Seq(Text) /\ Len(doc.serial_nos) <= 1
        BY <3>1, <3>2, <4>1, <4>3
      <4> QED BY <4>4, <4>5
    <3> QED BY <3>3, <3>4 DEF IInv, StoredInv
  <2>4. payloads \in Seq(Payload) /\ (payloads # <<>> <=> outcome = "sent")
    <3>1. CASE outcome # "sent"
      BY <3>1 DEF IInv, SentInv
    <3>2. CASE outcome = "sent" /\ payloads = Single(callback)
      BY <2>1, <3>2, SingleDoes
    <3>3. CASE /\ outcome = "sent" /\ ~Unsupported(callback) /\ ~IsSingle(callback.invoice)
               /\ callback.invoice.invoiceDetail # Null /\ payloads = Split(callback)
      BY <2>1, <3>3, SplitDoes
    <3> QED BY <3>1, <3>2, <3>3 DEF IInv, SentInv
  <2> QED BY <2>2, <2>3, <2>4 DEF TypeOK, IInv, StoredInv
<1> QED BY <1>1, InvAlways, PTL

\* What System A is told about an invoice adds up to the invoice (forwarder.py
\* 122-172): the amounts sent for a merged one are those of its lines, one by one.
THEOREM MoneyConserved == Spec => []MoneyIsConserved
<1>1. IInv => MoneyIsConserved
  <2> DEFINE i == callback.invoice
             net == IF i.vehicle = "yes" THEN i.invoiceAmount ELSE i.totalAmount
  <2> SUFFICES ASSUME IInv, outcome = "sent", Consistent(i)
               PROVE  /\ SumFunction(SentAmounts(DOMAIN payloads)) = net
                      /\ SumFunction(SentTaxes(DOMAIN payloads)) = i.totalTaxAmount
    BY DEF MoneyIsConserved
  <2>1. callback \in Callbacks
    BY DEF IInv, StoredInv
  <2>2. CASE payloads = Single(callback)
    <3> DEFINE p == Inner(callback, BillText(i), net, i.totalTaxAmount)
    <3>1. /\ payloads = <<p>> /\ p.totalAmount = net /\ p.totalTaxAmount = i.totalTaxAmount
          /\ net \in Nat /\ i.totalTaxAmount \in Nat
      BY <2>1, <2>2, SingleDoes
    <3> HIDE DEF p, net, i
    <3>2. DOMAIN payloads = {1} /\ payloads[1] = p
      BY <3>1
    <3>3. /\ SentAmounts(DOMAIN payloads) = [k \in {1} |-> net]
          /\ SentTaxes(DOMAIN payloads) = [k \in {1} |-> i.totalTaxAmount]
      BY <3>1, <3>2 DEF SentAmounts, SentTaxes
    <3> QED BY <3>1, <3>3, SumOfOne
  <2>3. CASE /\ ~IsSingle(i) /\ i.invoiceDetail # Null
             /\ payloads = Split(callback)
    <3>1. /\ DOMAIN payloads = Lines(i)
          /\ \A k \in Lines(i) : /\ payloads[k].totalAmount = i.invoiceDetail[k].amount
                                 /\ payloads[k].totalTaxAmount = i.invoiceDetail[k].taxAmount
      BY <2>1, <2>3, SplitDoes DEF IInv, SentInv
    <3>2. /\ SentAmounts(DOMAIN payloads) = LineAmounts(i, Lines(i))
          /\ SentTaxes(DOMAIN payloads) = LineTaxes(i, Lines(i))
      BY <3>1 DEF SentAmounts, SentTaxes, LineAmounts, LineTaxes
    <3>3. i.vehicle # "yes"
      BY <2>3 DEF IsSingle
    <3> QED BY <2>3, <3>2, <3>3 DEF Consistent
  <2> QED BY <2>2, <2>3 DEF IInv, SentInv
<1> QED BY <1>1, InvAlways, PTL

\* Each bill of a merged invoice gets the sum of its own lines (forwarder.py
\* 160-166): payloads and lines that name a bill stand at the same places.
THEOREM MoneyOfEachBill == Spec => []MoneyReachesItsBill
<1>1. IInv => MoneyReachesItsBill
  <2> DEFINE i == callback.invoice
  <2> SUFFICES ASSUME IInv, outcome = "sent", ~IsSingle(i), NEW b \in Bills
               PROVE  SumFunction(SentAmounts({k \in DOMAIN payloads : payloads[k].bill = <<b>>}))
                        = SumFunction(LineAmounts(i, {k \in Lines(i) : BillText(i)[k] = b}))
    BY DEF MoneyReachesItsBill
  <2>1. callback \in Callbacks /\ i.invoiceDetail # Null /\ payloads = Split(callback)
    BY DEF IInv, StoredInv, SentInv
  <2>2. /\ DOMAIN payloads = Lines(i)
        /\ \A k \in Lines(i) : /\ payloads[k].totalAmount = i.invoiceDetail[k].amount
                               /\ payloads[k].bill = <<BillText(i)[k]>>
    BY <2>1, SplitDoes DEF IInv, SentInv
  <2> DEFINE K == {k \in Lines(i) : BillText(i)[k] = b}
  <2>3. {k \in DOMAIN payloads : payloads[k].bill = <<b>>} = K
    BY <2>2
  <2>4. SentAmounts(K) = LineAmounts(i, K)
    BY <2>2 DEF SentAmounts, LineAmounts
  <2> QED BY <2>3, <2>4
<1> QED BY <1>1, InvAlways, PTL
=============================================================================
