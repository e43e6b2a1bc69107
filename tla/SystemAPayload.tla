--------------------------- MODULE SystemAPayload ---------------------------
(***************************************************************************)
(* What is kept of a Kingdee callback and what System A is sent for it     *)
(* (proxy-server/app/endpoints/callbacks.py, forwarder.py).                *)
(*                                                                         *)
(* A callback is stored with a few fields taken out of it for the admin    *)
(* queries; forwarding converts the stored text into one payload, or, for  *)
(* an invoice merged from several bills, into one payload per bill.        *)
(*                                                                         *)
(* A bill number as Kingdee writes it is the sequence of its parts between *)
(* commas: <<>> if there is none, Blank for a part of white space.         *)
(***************************************************************************)
EXTENDS Naturals, Sequences, Functions

CONSTANTS
  Callbacks,  \* the callbacks considered
  Bills,      \* bill numbers
  Blank,      \* a part that is empty once stripped
  Null        \* a JSON null

VARIABLES
  callback,   \* what Kingdee pushed
  doc,        \* the fields stored for queries
  outcome,    \* how the conversion ended
  payloads    \* what System A is sent

vars == <<callback, doc, outcome, payloads>>

Text == Seq(Bills \union {Blank})

\* The parts of an invoice that the conversion looks at.
Invoice == [vehicle : {"yes", "no"}, billNo : Text, serialNo : Text,
            invoiceDetail : Seq([amount : Nat, taxAmount : Nat]) \union {Null},
            invoiceAmount : Nat, totalAmount : Nat, totalTaxAmount : Nat,
            invoiceNum : {"none", "number"}, invoiceNo : {"none", "number"}]

\* returnCode is a string, a number or missing; data is an object or a list of
\* them, each also as base64, or nothing of the kind.
Callback == [json : {"object", "array", "broken"},
             returnCode : {"'0'", "'9999'", "0", "9999", "none"},
             data : {"object", "objectB64", "list", "listB64", "scalar", "garbage"},
             invoice : Invoice]

ASSUME CallbacksAssumption ==
  /\ Callbacks \subseteq Callback
  /\ Null \notin Seq([amount : Nat, taxAmount : Nat])

Payload == [returnCode : {"'0'", "'9999'", "9999"}, bill : Text,
            totalAmount : Nat, totalTaxAmount : Nat, invoiceNum : {"none", "number"}]

NoDoc == [return_code |-> "none", bill_nos |-> <<>>, serial_nos |-> <<>>]

TypeOK ==
  /\ callback \in Callbacks
  /\ DOMAIN doc = {"return_code", "bill_nos", "serial_nos"}
  /\ doc.return_code \in {"none", "'0'", "'9999'"}
  /\ \A f \in {"bill_nos", "serial_nos"} : doc[f] \in Seq(Text) /\ Len(doc[f]) <= 1
  /\ outcome \in {"received", "stored", "skipped", "unsupported", "error", "sent"}
  /\ payloads \in Seq(Payload)
  /\ payloads # <<>> <=> outcome = "sent"

Init ==
  /\ callback \in Callbacks
  /\ doc = NoDoc
  /\ outcome = "received"
  /\ payloads = <<>>

-----------------------------------------------------------------------------
(* What is stored *)

\* A text that is there.
Given(text) == IF text = <<>> THEN <<>> ELSE <<text>>

\* _decode_data_field yields an invoice, alone or in a list.
Readable(c) == c.json = "object" /\ c.data \in {"object", "objectB64", "list", "listB64"}

\* Mutant: numbers are kept as well.
FlatCodeAny(c) == IF c.json # "object" THEN "none" ELSE c.returnCode

\* Only a string is kept.
FlatCode(c) ==
  IF c.json = "object" /\ c.returnCode \in {"'0'", "'9999'"} THEN c.returnCode ELSE "none"

Flat(c) ==
  [return_code |-> FlatCode(c),
   bill_nos |-> IF Readable(c) THEN Given(c.invoice.billNo) ELSE <<>>,
   serial_nos |-> IF Readable(c) THEN Given(c.invoice.serialNo) ELSE <<>>]

Store ==
  /\ outcome = "received"
  /\ doc' = Flat(callback)
  /\ outcome' = "stored"
  /\ UNCHANGED <<callback, payloads>>

-----------------------------------------------------------------------------
(* What is sent *)

\* _decode_invoice: an object, not a list.
Convertible(c) == c.json = "object" /\ c.data \in {"object", "objectB64"}

\* The bill number, or the serial number in its place.
BillText(i) == IF i.billNo # <<>> THEN i.billNo ELSE i.serialNo

\* A returnCode that is missing or 0 becomes "0".
OuterCode(c) == IF c.returnCode \in {"none", "0"} THEN "'0'" ELSE c.returnCode

Inner(c, bill, amount, tax) ==
  [returnCode |-> OuterCode(c), bill |-> bill, totalAmount |-> amount, totalTaxAmount |-> tax,
   invoiceNum |-> IF c.invoice.invoiceNum # "none" THEN c.invoice.invoiceNum
                  ELSE c.invoice.invoiceNo]

\* Mutant: the total of a vehicle is taken like any other.
SingleGross(c) ==
  LET i == c.invoice IN <<Inner(c, BillText(i), i.totalAmount, i.totalTaxAmount)>>

\* One payload; the net amount of a vehicle is in a field of its own.
Single(c) ==
  LET i == c.invoice IN
  <<Inner(c, BillText(i),
          IF i.vehicle = "yes" THEN i.invoiceAmount ELSE i.totalAmount,
          i.totalTaxAmount)>>

\* Mutant: every bill is sent the first line.
SplitFirstLine(c) ==
  LET i == c.invoice IN
  [k \in 1..Len(BillText(i)) |->
     Inner(c, <<BillText(i)[k]>>, i.invoiceDetail[1].amount, i.invoiceDetail[1].taxAmount)]

\* A bill per line of the invoice, in their common order.
Split(c) ==
  LET i == c.invoice IN
  [k \in 1..Len(BillText(i)) |->
     Inner(c, <<BillText(i)[k]>>, i.invoiceDetail[k].amount, i.invoiceDetail[k].taxAmount)]

LinesMatch(i) == Len(BillText(i)) = Len(i.invoiceDetail)

IsSingle(i) == i.vehicle = "yes" \/ Len(BillText(i)) = 1

Skip ==
  /\ outcome = "stored"
  /\ doc.return_code \notin {"none", "'0'"}
  /\ outcome' = "skipped"
  /\ UNCHANGED <<callback, doc, payloads>>

Unsupported(c) ==
  \/ ~Convertible(c)
  \/ BillText(c.invoice) \in {<<>>, <<Blank>>}
  \/ ~IsSingle(c.invoice) /\ c.invoice.invoiceDetail # Null /\ ~LinesMatch(c.invoice)

Reject ==
  /\ outcome = "stored" /\ doc.return_code \in {"none", "'0'"}
  /\ Unsupported(callback)
  /\ outcome' = "unsupported"
  /\ UNCHANGED <<callback, doc, payloads>>

\* len(None): a TypeError, not a ForwardUnsupportedError.
Fail ==
  /\ outcome = "stored" /\ doc.return_code \in {"none", "'0'"}
  /\ ~Unsupported(callback)
  /\ ~IsSingle(callback.invoice) /\ callback.invoice.invoiceDetail = Null
  /\ outcome' = "error"
  /\ UNCHANGED <<callback, doc, payloads>>

Send ==
  /\ outcome = "stored" /\ doc.return_code \in {"none", "'0'"}
  /\ ~Unsupported(callback)
  /\ \/ IsSingle(callback.invoice) /\ payloads' = Single(callback)
     \/ /\ ~IsSingle(callback.invoice) /\ callback.invoice.invoiceDetail # Null
        /\ payloads' = Split(callback)
  /\ outcome' = "sent"
  /\ UNCHANGED <<callback, doc>>

Next == Store \/ Skip \/ Reject \/ Fail \/ Send

Spec == Init /\ [][Next]_vars

-----------------------------------------------------------------------------

Lines(i) == DOMAIN i.invoiceDetail

LineAmounts(i, K) == [k \in K |-> i.invoiceDetail[k].amount]
LineTaxes(i, K) == [k \in K |-> i.invoiceDetail[k].taxAmount]

SentAmounts(K) == [k \in K |-> payloads[k].totalAmount]
SentTaxes(K) == [k \in K |-> payloads[k].totalTaxAmount]

\* An invoice whose amounts agree with each other: a vehicle's total includes the
\* tax, any other's does not and is the sum of its lines.
Consistent(i) ==
  IF i.vehicle = "yes" THEN i.totalAmount = i.invoiceAmount + i.totalTaxAmount
  ELSE i.invoiceDetail # Null =>
         /\ i.totalAmount = SumFunction(LineAmounts(i, Lines(i)))
         /\ i.totalTaxAmount = SumFunction(LineTaxes(i, Lines(i)))

\* What System A is told about an invoice adds up to the invoice, net of tax,
\* whether it is a vehicle's, a single bill's or merged (forwarder.py 122-172).
MoneyIsConserved ==
  LET i == callback.invoice
      net == IF i.vehicle = "yes" THEN i.invoiceAmount ELSE i.totalAmount IN
  outcome = "sent" /\ Consistent(i) =>
    /\ SumFunction(SentAmounts(DOMAIN payloads)) = net
    /\ SumFunction(SentTaxes(DOMAIN payloads)) = i.totalTaxAmount

\* Each bill of a merged invoice gets the sum of the lines that stand where it is
\* named, also one that is named twice (forwarder.py 160-166).
MoneyReachesItsBill ==
  LET i == callback.invoice IN
  outcome = "sent" /\ ~IsSingle(i) =>
    \A b \in Bills :
      SumFunction(SentAmounts({k \in DOMAIN payloads : payloads[k].bill = <<b>>}))
        = SumFunction(LineAmounts(i, {k \in Lines(i) : BillText(i)[k] = b}))
=============================================================================
